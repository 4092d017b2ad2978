------------------------------- MODULE LeaHeap ------------------------------
(***************************************************************************)
(* The coalescing heap of the heap layers: coalesceableheap.h,             *)
(* coalesceheap.h, segheap.h and, around them, dlheap.h.  Objects lie one  *)
(* after the other in a zone, each behind a header with its size and, of   *)
(* its predecessor, the size and whether it is free.  Free objects are in  *)
(* the bins of the big heap, or of the small one, where they keep looking  *)
(* used.  The dictionary of a bin, and the heaps below (sbrk, mmap), are   *)
(* template parameters: here bins are stacks whose remove takes out the    *)
(* entry, and the zone grows upwards from fresh memory.                    *)
(*                                                                         *)
(* A header is found by its object's address.  The header of an object     *)
(* that is merged into another one becomes data, and is forgotten.         *)
(***************************************************************************)
EXTENDS Layer, SizeClasses

CONSTANTS
  LeaSizes,        \* what is asked for
  ZoneSize,        \* bytes the zone can give
  MmapThreshold,   \* SelectMmapHeap's (128 * 1024)
  BaseThreshold    \* of Threshold (16384)

HeaderSize == 16         \* sizeof(Header), 64 bits
ZoneBase   == 1000
MapBase    == 100000     \* where mappings lie

Fresh == [size |-> 0, prevSize |-> 0, prevFree |-> FALSE, mapped |-> FALSE]

(* Header                                                                  *)
getNext(h, p)    == p + h.header[p].size + HeaderSize
getPrev(h, p)    == p - HeaderSize - h.header[p].prevSize
isPrevFree(h, p) == h.header[p].prevFree
isFree(h, p)     == h.header[getNext(h, p)].prevFree
MarkedPrev(h, p, free) == [h EXCEPT !.header[p].prevFree = free]
markFree(h, p)   == MarkedPrev(h, getNext(h, p), TRUE)
markInUse(h, p)  == MarkedPrev(h, getNext(h, p), FALSE)

Written(h, p, hdr) == [h EXCEPT !.header = (p :> hdr) @@ @]
Dropped(h, p) == [h EXCEPT !.header = [q \in DOMAIN @ \ {p} |-> @[q]]]

makeObject(h, p, prevsz, sz) ==
  LET a == Written(h, p, [Fresh EXCEPT !.prevSize = prevsz, !.size = sz])
  IN  [a EXCEPT !.header[p + sz + HeaderSize].prevSize = sz]

(* CoalesceableHeap::malloc.  The next header, and one more for its status *)
(* bit, are written past the object; the second is data after the next     *)
(* malloc.                                                                 *)
newObject(h, sz) ==
  LET p == h.top + HeaderSize
      n == p + sz + HeaderSize
      a == Written(Dropped(h, p + HeaderSize), n, [Fresh EXCEPT !.prevSize = sz])
      b == [a EXCEPT !.header[p].size = sz, !.header[p].mapped = FALSE, !.top = p + sz]
  IN  IF h.top + HeaderSize + sz > ZoneBase + ZoneSize
      THEN [ptr |-> Null, heap |-> h]
      ELSE [ptr |-> p, heap |-> markInUse(Written(b, n + HeaderSize, Fresh), n)]

-----------------------------------------------------------------------------
(* SegHeap: the bins of the big heap, and the map of those that may have   *)
(* something.                                                              *)
Bin(h, i) == At(h.bins, i, <<>>)
Put(bins, i, s) == (i :> s) @@ bins

segMalloc(h, sz) ==
  LET tried == {i \in h.binmap : i >= dlSizeClass(sz)}
      full  == {i \in tried : Bin(h, i) # <<>>}
  IN  IF full = {} THEN newObject([h EXCEPT !.binmap = @ \ tried], sz)
      ELSE LET i == Min(full) IN
           [ptr  |-> Head(Bin(h, i)),
            heap |-> [h EXCEPT !.binmap = @ \ {j \in tried : j < i},
                               !.bins = Put(@, i, Tail(Bin(h, i)))]]

(* The largest class that is not larger than the object.                   *)
FreeClass(sz) == LET bins == dlBins IN Max({i \in 0 .. dlSizeClass(sz) : bins[i + 1] <= sz})

Binned(h, p, i) == [h EXCEPT !.bins = Put(@, i, <<p>> \o Bin(h, i)), !.binmap = @ \cup {i}]
segFree(h, p) == IF h.header[p].size = 0 THEN h ELSE Binned(h, p, FreeClass(h.header[p].size))

(* The dictionary's remove.                                                *)
segRemove(h, p) ==
  [h EXCEPT !.bins = [i \in DOMAIN @ |-> SelectSeq(@[i], LAMBDA q : q # p)]]

-----------------------------------------------------------------------------
(* CoalesceHeap                                                            *)
coalesce(h, p, q) ==
  LET size == (q - p) + h.header[q].size
      a    == [h EXCEPT !.header[p].size = size]
  IN  Dropped([a EXCEPT !.header[getNext(a, p)].prevSize = size], q)

(* The piece that is left, or NULL, and the heap.                          *)
split(h, p, sz) ==
  LET actual == h.header[p].size
      piece  == p + sz + HeaderSize
      a      == makeObject([h EXCEPT !.header[p].size = sz], piece, sz, actual - sz - HeaderSize)
  IN  IF actual - sz >= HeaderSize + Word THEN [ptr |-> piece, heap |-> MarkedPrev(a, piece, FALSE)]
      ELSE [ptr |-> Null, heap |-> h]

Binning(s) == IF s.ptr = Null THEN s.heap ELSE segFree(markFree(s.heap, s.ptr), s.ptr)
Trimmed(a, sz) ==
  IF a.ptr = Null THEN a
  ELSE [ptr |-> a.ptr, heap |-> Binning(split(markInUse(a.heap, a.ptr), a.ptr, sz))]
bigMalloc(h, sz) == Trimmed(segMalloc(h, sz), sz)

(* The first object's predecessor would lie before the zone, where before  *)
(* is found for a size: unless it is 0, the object is not merged.          *)
HasNeighbours(h, p) ==
  LET size == IF p = ZoneBase + HeaderSize THEN h.before ELSE h.header[getPrev(h, p)].size IN
  getPrev(h, p) + size + HeaderSize = p /\ getPrev(h, getNext(h, p)) = p

(* Mutant: the predecessor is merged but stays in its bin.                 *)
withPrevListed(h, p) ==
  IF isPrevFree(h, p) THEN LET prev == getPrev(h, p) IN
       [ptr |-> prev, heap |-> coalesce(h, prev, p)]
  ELSE [ptr |-> p, heap |-> h]

withPrev(h, p) ==
  IF isPrevFree(h, p) THEN LET prev == getPrev(h, p) IN
       [ptr |-> prev, heap |-> coalesce(segRemove(h, prev), prev, p)]
  ELSE [ptr |-> p, heap |-> h]

withNext(h, p) ==
  LET next == getNext(h, p) IN
  IF isFree(h, next) THEN coalesce(segRemove(h, next), p, next) ELSE h

Merged(a) == segFree(markFree(withNext(a.heap, a.ptr), a.ptr), a.ptr)
bigFree(h, p) == IF HasNeighbours(h, p) THEN Merged(withPrev(h, p)) ELSE segFree(h, p)

-----------------------------------------------------------------------------
(* StrictSegHeap: small objects wait in quick lists of exactly their size. *)
Quick(h, i) == At(h.quick, i, <<>>)
IsSmall(sz) == sz <= smallClassSize(smallNumBins - 1)

smallMalloc(h, sz) ==
  LET i == smallSizeClass(sz) IN
  IF ~IsSmall(sz) \/ Quick(h, i) = <<>>
  THEN bigMalloc(h, IF IsSmall(sz) THEN smallClassSize(i) ELSE sz)
  ELSE [ptr |-> Head(Quick(h, i)), heap |-> [h EXCEPT !.quick = Put(@, i, Tail(Quick(h, i)))]]

smallFree(h, p) ==
  LET sz == h.header[p].size
      i  == smallSizeClass(sz)
      k  == IF smallClassSize(i) > sz THEN i - 1 ELSE i
  IN  IF ~IsSmall(sz) THEN bigFree(h, p)
      ELSE [h EXCEPT !.quick = Put(@, k, <<p>> \o Quick(h, k)), !.held = @ + sz]

(* All that the quick lists hold goes to the big heap, class by class.     *)
RECURSIVE freeAll(_, _)
freeAll(h, i) ==
  IF i = smallNumBins THEN [h EXCEPT !.held = 0]
  ELSE IF Quick(h, i) = <<>> THEN freeAll(h, i + 1)
  ELSE freeAll(bigFree([h EXCEPT !.quick = Put(@, i, Tail(Quick(h, i)))], Head(Quick(h, i))), i)

(* Threshold                                                               *)
Counted(a) ==
  LET u == a.heap.inUse + a.heap.header[a.ptr].size IN
  IF a.ptr = Null THEN a
  ELSE [a EXCEPT !.heap.inUse = u,
                 !.heap.maxInUse = IF u > @ THEN u ELSE @,
                 !.heap.threshold = IF u > a.heap.maxInUse THEN BaseThreshold + (u \div 2) ELSE @]
thresholdMalloc(h, sz) == Counted(smallMalloc(h, sz))

Flushed(h) == IF h.held > h.threshold THEN freeAll(h, 0) ELSE h
thresholdFree(h, p) == Flushed(smallFree([h EXCEPT !.inUse = @ - h.header[p].size], p))

(* CoalesceableMmapHeap.  Every mapping is at an address of its own.       *)
mmapMalloc(h, sz) ==
  LET p == h.maptop + HeaderSize
      a == makeObject(Written(h, p + sz + HeaderSize, Fresh), p, 0, sz)
  IN  [ptr |-> p, heap |-> markInUse([a EXCEPT !.header[p].mapped = TRUE,
                                               !.maptop = p + sz + 2 * HeaderSize], p)]

mmapFree(h, p) == Dropped(Dropped(h, getNext(h, p)), p)

-----------------------------------------------------------------------------
Init ==
  /\ \E b \in {0, 8} :
       heap = [header |-> (ZoneBase + HeaderSize :> Fresh), top |-> ZoneBase, before |-> b,
               bins |-> [i \in {} |-> <<>>], binmap |-> {}, quick |-> [i \in {} |-> <<>>], held |-> 0,
               inUse |-> 0, maxInUse |-> 0, threshold |-> 0, maptop |-> MapBase]
  /\ live = {} /\ calls = 0

(* SelectMmapHeap                                                          *)
Mapped(a, sz) == IF a.ptr = Null THEN mmapMalloc(a.heap, sz) ELSE a
malloc(sz) ==
  \E m \in {Mapped(IF sz <= MmapThreshold THEN thresholdMalloc(heap, sz)
                   ELSE [ptr |-> Null, heap |-> heap], sz)} :
    Call /\ heap' = m.heap /\ Gives(m.ptr, sz)

free(o) ==
  /\ heap' = IF heap.header[o.ptr].mapped THEN mmapFree(heap, o.ptr) ELSE thresholdFree(heap, o.ptr)
  /\ Takes(o) /\ UNCHANGED calls

Next == \/ \E sz \in LeaSizes : malloc(sz)
        \/ \E o \in live : free(o)

Spec == Init /\ [][Next]_vars

-----------------------------------------------------------------------------
(* The objects of the zone, by their headers, from p on.                   *)
RECURSIVE Chain(_)
Chain(p) == IF p = heap.top + HeaderSize THEN {} ELSE {p} \cup Chain(getNext(heap, p))

InBins == UNION {{Bin(heap, i)[k] : k \in DOMAIN Bin(heap, i)} : i \in DOMAIN heap.bins}
InQuick == UNION {{Quick(heap, i)[k] : k \in DOMAIN Quick(heap, i)} : i \in DOMAIN heap.quick}
Held == {o.ptr : o \in live}

(* The headers lead from the first object to the top and back; every       *)
(* object of the zone is in use, in a quick list or in a bin, and in one   *)
(* only; one that is marked free is in a bin, where alone it may be merged *)
(* into a neighbour, and no two such are neighbours, unless the first one  *)
(* is never merged; and an object in use is as large as was asked for.     *)
LeaHeapIsWhole ==
  LET zone == Chain(ZoneBase + HeaderSize) IN
  /\ \A p \in zone : heap.header[getNext(heap, p)].prevSize = heap.header[p].size
  /\ InBins \cup InQuick \subseteq zone
  /\ zone \subseteq InBins \cup InQuick \cup Held
  /\ InBins \cap InQuick = {} /\ InBins \cap Held = {} /\ InQuick \cap Held = {}
  /\ \A p \in zone : isFree(heap, p) => p \in InBins
  /\ heap.before = 0 =>
       \A p \in zone : isFree(heap, p) /\ getNext(heap, p) \in zone => ~isFree(heap, getNext(heap, p))
  /\ \A o \in live : heap.header[o.ptr].size >= o.size

LeaObjectsApart == Apart(live)
=============================================================================

------------------------------ MODULE FreeLists -----------------------------
(***************************************************************************)
(* The free lists of the heap layers, with links through the objects:      *)
(* FIFOFreelistHeap (fifofreelist.h), FIFODLFreelistHeap                   *)
(* (fifodlfreelist.h), FreelistHeap on FreeSLList (freelistheap.h,         *)
(* freesllist.h), BoundedFreeListHeap and FirstFitHeap.  heap.kind says    *)
(* which one runs.  The heap below is external: it gives an object that is *)
(* nowhere yet.  heap.order (history) is the order of the frees.           *)
(***************************************************************************)
EXTENDS Layer, Sequences, SequencesExt

CONSTANTS
  ListObjects,     \* addresses of objects; object p is p % 10 bytes long
  NumObjects       \* the bound of BoundedFreeListHeap

HeadNode == 1      \* the sentinels
TailNode == 2
ListNodes == ListObjects \cup {HeadNode, TailNode}

SizeOf(p) == p % 10

Kinds == {"fifo", "fifodl", "sllist", "bounded", "firstfit"}
EndOf(kind) == IF kind \in {"fifo", "fifodl"} THEN TailNode ELSE Null

Init ==
  /\ \E kind \in Kinds :
       heap = [kind |-> kind,
               next |-> [p \in ListNodes |-> IF p = HeadNode THEN EndOf(kind)
                                              ELSE IF p = TailNode THEN TailNode ELSE Null],
               prev |-> [p \in ListNodes |-> IF p \in {HeadNode, TailNode} THEN HeadNode ELSE Null],
               nObjects |-> 0, order |-> <<>>, dropped |-> {}]
  /\ live = {} /\ calls = 0

FirstNode(h) == h.next[HeadNode]

-----------------------------------------------------------------------------
(* Each list's way to take an object out, when it has one.                 *)
fifoGet(h) ==
  LET a == [h EXCEPT !.next[HeadNode] = h.next[FirstNode(h)]] IN
  [a EXCEPT !.next[TailNode] = IF FirstNode(a) = TailNode THEN TailNode ELSE @]

dlGet(h) ==
  LET p == h.prev[TailNode] IN [h EXCEPT !.next[h.prev[p]] = TailNode, !.prev[TailNode] = h.prev[p]]

(* FreeSLList::get, and BoundedFreeListHeap::malloc                        *)
slGet(h) == [h EXCEPT !.next[HeadNode] = h.next[FirstNode(h)]]

(* The first object from p on that is at least sz long, and the one before *)
RECURSIVE FirstFit(_, _, _, _)
FirstFit(h, sz, prev, p) ==
  IF p = Null \/ SizeOf(p) >= sz THEN [ptr |-> p, prev |-> prev] ELSE FirstFit(h, sz, p, h.next[p])

firstFitGet(h, f) == [h EXCEPT !.next[f.prev] = h.next[f.ptr], !.nObjects = @ - 1]

(* And to put one in.                                                      *)
fifoPut(h, p) ==
  LET a == [h EXCEPT !.next[p] = TailNode]
      b == [a EXCEPT !.next[a.next[TailNode]] = p]
      c == [b EXCEPT !.next[TailNode] = p]
  IN  [c EXCEPT !.next[HeadNode] = IF @ = TailNode THEN p ELSE @]

dlPut(h, p) ==
  [h EXCEPT !.next[p] = FirstNode(h), !.prev[FirstNode(h)] = p, !.prev[p] = HeadNode, !.next[HeadNode] = p]

slPut(h, p) == [h EXCEPT !.next[p] = FirstNode(h), !.next[HeadNode] = p]

(* FIFODLFreelistHeap::remove                                              *)
dlRemove(h, p) ==
  [h EXCEPT !.next[h.prev[p]] = h.next[p], !.prev[h.next[p]] = h.prev[p], !.next[p] = Null, !.prev[p] = Null]

(* BoundedFreeListHeap::free.  A full list is cleared, and the object is   *)
(* neither in the list nor given back.                                     *)
boundedPut(h, p) ==
  IF h.nObjects < NumObjects THEN [slPut(h, p) EXCEPT !.nObjects = @ + 1]
  ELSE [h EXCEPT !.next[HeadNode] = Null, !.nObjects = 0, !.dropped = @ \cup {p}]

(* The object after which FirstFitHeap::free inserts ptr.                  *)
RECURSIVE InsertAfter(_, _, _, _)
InsertAfter(h, ptr, prev, p) == IF p # Null /\ p <= ptr THEN InsertAfter(h, ptr, p, h.next[p]) ELSE prev

firstFitPut(h, ptr) ==
  LET prev == InsertAfter(h, ptr, HeadNode, FirstNode(h)) IN
  [h EXCEPT !.next[ptr] = h.next[prev], !.next[prev] = ptr, !.nObjects = @ + 1]

-----------------------------------------------------------------------------
RECURSIVE Walk(_, _, _)
Walk(links, p, end) == IF p = end THEN <<>> ELSE <<p>> \o Walk(links, links[p], end)

InList(h) == Walk(h.next, FirstNode(h), EndOf(h.kind))

Unused(sz) == {p \in ListObjects : /\ SizeOf(p) >= sz /\ p \notin ToSet(InList(heap))
                                   /\ p \notin {o.ptr : o \in live} /\ p \notin heap.dropped}

Took(g, p) == [g EXCEPT !.order = SelectSeq(@, LAMBDA q : q # p)]

(* malloc: an object from the list, or from below.                         *)
malloc(sz) ==
  LET h == heap
      f == FirstFit(h, sz, HeadNode, FirstNode(h))
      p == CASE h.kind = "fifodl" -> h.prev[TailNode] [] h.kind = "firstfit" -> f.ptr [] OTHER -> FirstNode(h)
      g == CASE h.kind = "fifo" -> fifoGet(h) [] h.kind = "fifodl" -> dlGet(h)
             [] h.kind = "firstfit" -> firstFitGet(h, f) [] OTHER -> slGet(h)
  IN  /\ Call
      /\ IF p \in ListObjects
         THEN heap' = Took(g, p) /\ Gives(p, sz)
         ELSE \E q \in Unused(sz) : heap' = heap /\ Gives(q, sz)

(* A bounded list that was cleared has no order any more.                  *)
free(o) ==
  LET p == o.ptr
      g == CASE heap.kind = "fifo" -> fifoPut(heap, p) [] heap.kind = "fifodl" -> dlPut(heap, p)
             [] heap.kind = "sllist" -> slPut(heap, p) [] heap.kind = "bounded" -> boundedPut(heap, p)
             [] heap.kind = "firstfit" -> firstFitPut(heap, p)
  IN  /\ heap' = [g EXCEPT !.order = IF p \in g.dropped THEN <<>> ELSE Append(@, p)]
      /\ Takes(o) /\ UNCHANGED calls

remove(p) ==
  /\ Call /\ heap.kind = "fifodl"
  /\ heap' = Took(dlRemove(heap, p), p) /\ UNCHANGED live

(* FreelistHeap::clear, BoundedFreeListHeap::clear: all goes below.        *)
clear ==
  /\ Call /\ heap.kind \in {"sllist", "bounded"} /\ heap.order # <<>>
  /\ heap' = [heap EXCEPT !.next[HeadNode] = Null, !.nObjects = 0, !.order = <<>>]
  /\ UNCHANGED live

(* Objects of the lists other than FirstFitHeap have one size.             *)
Next == \/ \E sz \in IF heap.kind = "firstfit" THEN {SizeOf(p) : p \in ListObjects} ELSE {1} : malloc(sz)
        \/ \E o \in live : free(o)
        \/ \E p \in ToSet(InList(heap)) : remove(p)
        \/ clear

Spec == Init /\ [][Next]_vars

-----------------------------------------------------------------------------
(* The links of a list are the freed objects, in the order that it is for: *)
(* first in first out, last in first out, or by address; the objects that  *)
(* the callers have are in no list; and a bounded list stays bounded.      *)
ListIsInOrder ==
  LET list == InList(heap) IN
  /\ CASE heap.kind = "fifo"     -> list = heap.order
       [] heap.kind = "fifodl"   -> /\ list = Reverse(heap.order)
                                    /\ Walk(heap.prev, heap.prev[TailNode], HeadNode) = heap.order
       [] heap.kind \in {"sllist", "bounded"} -> list = Reverse(heap.order)
       [] heap.kind = "firstfit" -> /\ ToSet(list) = ToSet(heap.order) /\ Len(list) = Len(heap.order)
                                    /\ \A k \in 1 .. Len(list) - 1 : list[k] < list[k + 1]
                                    /\ heap.nObjects = Len(list)
  /\ {o.ptr : o \in live} \cap ToSet(list) = {}
  /\ Cardinality({o.ptr : o \in live}) = Cardinality(live)
  /\ heap.kind = "bounded" => Len(list) <= heap.nObjects /\ heap.nObjects <= NumObjects
  /\ \A o \in live : SizeOf(o.ptr) >= o.size
=============================================================================

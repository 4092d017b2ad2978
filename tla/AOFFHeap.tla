------------------------------ MODULE AOFFHeap ------------------------------
(***************************************************************************)
(* AOFFHeap (heaplayers/experimental/aoffheap.h): address-ordered first    *)
(* fit with coalescing.  heap.list is the free list, in order, of headers  *)
(* [at, size]; sizes do not count the header.  heap.top is where the heap  *)
(* below goes on (it is external and only grows), heap.back what was given *)
(* back to it.                                                             *)
(***************************************************************************)
EXTENDS Layer, Sequences, SequencesExt

CONSTANTS AoffSizes, AoffSpace, FreeThreshold

AllocatedHeader == 8        \* sizeof(allocatedObject)
FreedHeader     == 24       \* sizeof(freedObject)
AoffBase        == 1000

(* allocatedObject                                                         *)
getSuccessor(f) == f.at + AllocatedHeader + f.size
getStart(f)     == f.at + AllocatedHeader

Init == heap = [list |-> <<>>, size |-> <<>>, top |-> AoffBase, back |-> {}] /\ live = {} /\ calls = 0

FirstFit(list, sz) == {k \in DOMAIN list : /\ list[k].size >= sz + FreedHeader
                                            /\ \A j \in 1 .. k - 1 : list[j].size < sz + FreedHeader}

(* SuperHeap::malloc                                                       *)
FromBelow(sz) ==
  LET fits == heap.top + sz + AllocatedHeader <= AoffBase + AoffSpace IN
  /\ FirstFit(heap.list, sz) = {}
  /\ heap' = IF fits THEN [heap EXCEPT !.top = @ + AllocatedHeader + sz,
                                       !.size = (heap.top + AllocatedHeader :> sz) @@ @]
             ELSE heap
  /\ Gives(IF fits THEN heap.top + AllocatedHeader ELSE Null, sz)

(* The rest of the object takes its place in the list.                     *)
Spliced(f, sz) == [at |-> f.at + AllocatedHeader + sz, size |-> f.size - sz - FreedHeader]

FromList(sz) ==
  \E k \in FirstFit(heap.list, sz) :
    LET f == heap.list[k] IN
    /\ heap' = [heap EXCEPT !.list[k] = Spliced(f, sz), !.size = (getStart(f) :> sz) @@ @]
    /\ Gives(getStart(f), sz)

malloc(sz) == Call /\ (FromBelow(sz) \/ FromList(sz))

coalesce(list, k) ==
  [RemoveAt(list, k + 1) EXCEPT
     ![k].size = list[k].size + list[k + 1].size + AllocatedHeader]

(* k is a position whose object may be merged with the one that follows.   *)
Merged(list, k) ==
  IF k \in 1 .. Len(list) - 1 /\ getSuccessor(list[k]) = list[k + 1].at
  THEN coalesce(list, k) ELSE list

(* The object is inserted, merged with its predecessor and its successor,  *)
(* and given back when that is large; one that is in the list is ignored.  *)
Freed(f) ==
  LET before == Cardinality({k \in DOMAIN heap.list : heap.list[k].at < f.at})
      a == InsertAt(heap.list, before + 1, f)
      b == Merged(a, before)
      k == IF b # a THEN before ELSE before + 1
      c == Merged(b, k)
  IN  IF \E j \in DOMAIN heap.list : heap.list[j].at = f.at THEN heap
      ELSE IF c[k].size >= FreeThreshold
      THEN [heap EXCEPT !.list = RemoveAt(c, k), !.back = @ \cup {c[k]}]
      ELSE [heap EXCEPT !.list = c]

free(o) ==
  /\ heap' = [Freed([at |-> o.ptr - AllocatedHeader, size |-> heap.size[o.ptr]]) EXCEPT
                !.size = [p \in DOMAIN @ \ {o.ptr} |-> @[p]]]
  /\ Takes(o) /\ UNCHANGED calls

(* A program's second free of an object that is still in the list.         *)
freeAgain == \E k \in DOMAIN heap.list : Call /\ heap' = Freed(heap.list[k]) /\ UNCHANGED live

Next == \/ \E sz \in AoffSizes : malloc(sz)
        \/ \E o \in live : free(o)
        \/ freeAgain

Spec == Init /\ [][Next]_vars

-----------------------------------------------------------------------------
Blocks(list) == {[ptr |-> list[k].at, size |-> list[k].size + AllocatedHeader] : k \in DOMAIN list}
LiveBlocks == {[ptr |-> o.ptr - AllocatedHeader, size |-> o.size + AllocatedHeader] : o \in live}
BackBlocks == {[ptr |-> f.at, size |-> f.size + AllocatedHeader] : f \in heap.back}

(* Objects in use, in the list and given back lie apart, headers included, *)
(* in the memory that was got from below; the list is sorted by address    *)
(* and holds no two that could be merged.                                  *)
AoffHeapIsWhole ==
  /\ Apart(Blocks(heap.list) \cup LiveBlocks \cup BackBlocks)
  /\ Within(Blocks(heap.list) \cup LiveBlocks, AoffBase, heap.top)
  /\ Cardinality(LiveBlocks) = Cardinality(live)
  /\ \A k \in 1 .. Len(heap.list) - 1 : getSuccessor(heap.list[k]) < heap.list[k + 1].at
=============================================================================

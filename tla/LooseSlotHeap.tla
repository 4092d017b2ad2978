--------------------------- MODULE LooseSlotHeap ----------------------------
(***************************************************************************)
(* heaplayers/experimental/looseslotheap.h on bigchunk.h and topslotheap.h *)
(* : chunks of slots, in lists by how full they are; objects come from the *)
(* fullest chunk that has room, and a mostly empty chunk goes up to the    *)
(* heap above, slots in use or not.  A slot is its chunk plus its number.  *)
(***************************************************************************)
EXTENDS Layer, Sequences, SequencesExt

CONSTANTS
  BigSlots,        \* getNumSlots()
  PerChunk,        \* chunkSize / slotSize
  EmptyFraction,
  BigPlaces

Fullnesses == 0 .. EmptyFraction

(* BigChunk: heap is the heap that has it, or NULL.                        *)
NewBig(p) == [freeSlots |-> [k \in 1 .. BigSlots |-> p + BigSlots - k], heap |-> "none"]

getNumSlotsInUse(h, ch) == BigSlots - Len(h.chunk[ch].freeSlots)
getSlot(h, ch) == [h EXCEPT !.chunk[ch].freeSlots = Tail(@)]
putSlot(h, ch, ptr) == [h EXCEPT !.chunk[ch].freeSlots = <<ptr>> \o @]
getChunk(h, ptr) == CHOOSE p \in DOMAIN h.chunk : ptr \in p .. p + BigSlots - 1

(* LooseSlotHeap::LooseSlotHeap                                            *)
Init ==
  /\ heap = [chunk |-> [p \in {} |-> Null], myChunks |-> [i \in Fullnesses |-> <<>>], inUse |-> 0, space |-> 0,
             top |-> <<>>, crashed |-> FALSE]
  /\ live = {} /\ calls = 0

getFullness(h, ch) == (EmptyFraction * getNumSlotsInUse(h, ch)) \div BigSlots

(* The chunk moves from its list to the front of the one for its fullness. *)
update(h, ch, prevIndex) ==
  LET a == [h EXCEPT !.myChunks[prevIndex] = SelectSeq(@, LAMBDA c : c # ch)] IN
  [a EXCEPT !.myChunks[getFullness(h, ch)] = <<ch>> \o @]

Moved(h, ch, prevIndex) == IF getFullness(h, ch) = prevIndex THEN h ELSE update(h, ch, prevIndex)

(* TopSlotHeap::malloc: the heaps that may result, and the chunk.          *)
topMalloc(h) ==
  IF h.top # <<>>
  THEN {[ch |-> Head(h.top), heap |-> [h EXCEPT !.top = Tail(@), !.chunk[Head(h.top)].heap = "none"]]}
  ELSE {[ch |-> p, heap |-> [h EXCEPT !.chunk = (p :> NewBig(p)) @@ @]] : p \in BigPlaces \ DOMAIN h.chunk}

topFree(h, ch) == [h EXCEPT !.top = <<ch>> \o @, !.chunk[ch].heap = "top"]

(* Makes a chunk from above the only one of its list.                      *)
Adopted(h, ch) ==
  LET a == [h EXCEPT !.chunk[ch].heap = "this"] IN
  [a EXCEPT !.myChunks[getFullness(a, ch)] = <<ch>>,
            !.inUse = @ + getNumSlotsInUse(a, ch), !.space = @ + BigSlots]

(* The heap and the chunk that malloc takes a slot from.                   *)
Fullest(h) ==
  LET some == {i \in Fullnesses \ {EmptyFraction} : h.myChunks[i] # <<>>} IN
  IF some # {} THEN {[ch |-> Head(h.myChunks[Max(some)]), heap |-> h]}
  ELSE {[ch |-> t.ch, heap |-> Adopted(t.heap, t.ch)] : t \in topMalloc(h)}

(* An assertion wants a chunk from above to be empty ("FOR NOW").          *)
malloc ==
  /\ Call
  /\ \E f \in Fullest(heap) :
       LET h == f.heap
           a == [getSlot(h, f.ch) EXCEPT !.inUse = @ + 1]
       IN  IF h.chunk[f.ch].freeSlots = <<>> \/ (h.space # heap.space /\ getNumSlotsInUse(h, f.ch) > 0)
           THEN heap' = [heap EXCEPT !.crashed = TRUE] /\ UNCHANGED live
           ELSE /\ heap' = Moved(a, f.ch, getFullness(h, f.ch))
                /\ Gives(Head(h.chunk[f.ch].freeSlots), 1)

(* Returns a mostly empty chunk when there is more than enough room.       *)
Slimmed(h) ==
  LET some == {i \in Fullnesses \ {EmptyFraction} : h.myChunks[i] # <<>>}
      i    == Min(some)
      ch   == Head(h.myChunks[i])
      room == h.space - h.inUse
  IN  IF room > 2 * PerChunk /\ EmptyFraction * room > h.space
      THEN topFree([h EXCEPT !.chunk[ch].heap = "none", !.myChunks[i] = Tail(@),
                             !.space = @ - BigSlots, !.inUse = @ - getNumSlotsInUse(h, ch)], ch)
      ELSE h

localFree(h, ch, ptr) ==
  Slimmed(Moved([putSlot(h, ch, ptr) EXCEPT !.inUse = @ - 1], ch, getFullness(h, ch)))

(* A slot of a chunk that went up is freed to the heap above, which takes  *)
(* it for a chunk.                                                         *)
free(o) ==
  LET ch == getChunk(heap, o.ptr) IN
  /\ heap' = IF heap.chunk[ch].heap = "this" THEN localFree(heap, ch, o.ptr)
             ELSE [heap EXCEPT !.crashed = TRUE]
  /\ Takes(o) /\ UNCHANGED calls

Next == ~heap.crashed /\ (malloc \/ \E o \in live : free(o))

Spec == Init /\ [][Next]_vars

-----------------------------------------------------------------------------
Mine == UNION {ToSet(heap.myChunks[i]) : i \in Fullnesses}

(* checkClassInvariant: inUse and space are those of the chunks in the     *)
(* lists, each in the list of its fullness; and every slot is the callers' *)
(* or free in its chunk.                                                   *)
LooseClassInvariant ==
  ~heap.crashed =>
    /\ heap.space = BigSlots * Cardinality(Mine)
    /\ heap.inUse = Cardinality({o \in live : getChunk(heap, o.ptr) \in Mine})
    /\ \A i \in Fullnesses : \A k \in DOMAIN heap.myChunks[i] :
         LET ch == heap.myChunks[i][k] IN heap.chunk[ch].heap = "this" /\ getFullness(heap, ch) = i
    /\ Mine \cap ToSet(heap.top) = {} /\ Mine \cup ToSet(heap.top) = DOMAIN heap.chunk
    /\ Apart(live)
    /\ \A p \in DOMAIN heap.chunk :
         {o.ptr : o \in live} \cap (p .. p + BigSlots - 1)
           = (p .. p + BigSlots - 1) \ ToSet(heap.chunk[p].freeSlots)
=============================================================================

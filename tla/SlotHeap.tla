------------------------------ MODULE SlotHeap ------------------------------
(***************************************************************************)
(* heaplayers/experimental/chunk.h with the heaps that take their objects  *)
(* from its chunks: LazySlotHeap, which keeps the chunk it allocates from, *)
(* and the one of strictslotheap.h, which gives back even that one once it *)
(* is empty.  A slot has a header that leads to its chunk.  The heap below *)
(* is external: it gives any place that is free.                           *)
(***************************************************************************)
EXTENDS Layer, Sequences, SequencesExt

CONSTANTS
  ChunkBytes,      \* chunkSize
  SlotBytes,       \* slotSize
  ChunkPlaces

ChunkRecord == 16      \* sizeof(Chunk)
ChunkBlock  == 16      \* sizeof(ChunkBlock)

BlockSize   == Align(ChunkBlock + SlotBytes)
getNumSlots == (ChunkBytes - ChunkRecord) \div BlockSize

(* The constructor: each slot, by its object's address, in front of the    *)
(* ones before it.                                                         *)
Carved(ch) ==
  [freeSlots |-> [k \in 1 .. getNumSlots |->
                    ch + ChunkRecord + (getNumSlots - k) * BlockSize + ChunkBlock],
   numSlotsAvailable |-> getNumSlots]

Blocks(ch) == ToSet(Carved(ch).freeSlots)

NewChunks(h) ==
  {[h EXCEPT !.chunk = (p :> Carved(p)) @@ @, !.block = [b \in Blocks(p) |-> p] @@ @, !.mine = p] :
     p \in ChunkPlaces \ DOMAIN h.chunk}

Init ==
  /\ \E strict \in BOOLEAN :
       heap \in NewChunks([chunk |-> [p \in {} |-> Null], block |-> [b \in {} |-> Null],
                           mine |-> Null, strict |-> strict])
  /\ live = {} /\ calls = 0

getSlot(h, ch) ==
  [h EXCEPT !.chunk[ch].freeSlots = Tail(@), !.chunk[ch].numSlotsAvailable = @ - 1,
            !.block[Head(h.chunk[ch].freeSlots)] = ch]

putSlot(h, ch, ptr) ==
  [h EXCEPT !.chunk[ch].freeSlots = <<ptr>> \o @, !.chunk[ch].numSlotsAvailable = @ + 1]

(* Chunk::getChunk                                                         *)
getChunk(h, ptr) == h.block[ptr]

malloc ==
  /\ Call
  /\ \E h \in IF heap.chunk[heap.mine].freeSlots # <<>> THEN {heap} ELSE NewChunks(heap) :
       heap' = getSlot(h, h.mine) /\ Gives(Head(h.chunk[h.mine].freeSlots), SlotBytes)

(* Super::free of a chunk                                                  *)
Returned(h, ch) == [h EXCEPT !.chunk = [p \in DOMAIN @ \ {ch} |-> @[p]],
                             !.block = [b \in DOMAIN @ \ Blocks(ch) |-> @[b]]]

IsEmpty(h, ch) == h.chunk[ch].numSlotsAvailable = getNumSlots

lazyFree(h, ch) == {IF ch # h.mine /\ IsEmpty(h, ch) THEN Returned(h, ch) ELSE h}

strictFree(h, ch) ==
  IF ~IsEmpty(h, ch) THEN {h}
  ELSE {Returned(g, ch) : g \in IF ch = h.mine THEN NewChunks(h) ELSE {h}}

free(o) ==
  LET ch == getChunk(heap, o.ptr)
      h  == putSlot(heap, ch, o.ptr)
  IN  /\ heap' \in IF heap.strict THEN strictFree(h, ch) ELSE lazyFree(h, ch)
      /\ Takes(o) /\ UNCHANGED calls

Next == malloc \/ \E o \in live : free(o)

Spec == Init /\ [][Next]_vars

-----------------------------------------------------------------------------
(* Every slot is the callers' or in its chunk's list, once; objects and    *)
(* their headers lie apart, in their chunk; numSlotsAvailable counts the   *)
(* list; and only the current chunk may be empty.                          *)
ChunksAreCarved ==
  /\ Apart({[ptr |-> o.ptr - ChunkBlock, size |-> o.size + ChunkBlock] : o \in live})
  /\ \A p \in DOMAIN heap.chunk :
       LET c    == heap.chunk[p]
           mine == {o \in live : getChunk(heap, o.ptr) = p}
       IN  /\ Within(mine, p + ChunkRecord + ChunkBlock, p + ChunkBytes)
           /\ ToSet(c.freeSlots) \cap {o.ptr : o \in mine} = {}
           /\ ToSet(c.freeSlots) \cup {o.ptr : o \in mine} = Blocks(p)
           /\ c.numSlotsAvailable = Len(c.freeSlots)
           /\ Len(c.freeSlots) = Cardinality(ToSet(c.freeSlots))
           /\ p # heap.mine => mine # {}
=============================================================================

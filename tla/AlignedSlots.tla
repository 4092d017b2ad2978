---------------------------- MODULE AlignedSlots ----------------------------
(***************************************************************************)
(* heaplayers/experimental/alignedchunk.h: AlignedSlotHeap on              *)
(* AlignedChunkHeap on the aligned buffers of AlignHeap.  A chunk is       *)
(* aligned to its size, so that a slot's address leads to its footer,      *)
(* which has a bitmap of the slots in use.  It is released when it is full *)
(* and given back when it is empty then.  Used by one thread: the exchange *)
(* of the bitmap is not atomic with the read before it.                    *)
(***************************************************************************)
EXTENDS Layer, Sequences, SequencesExt

CONSTANTS
  SlotSize,
  NumSlots,        \* 31: the last slot's place is the footer's
  MaxFree,         \* chunks that AlignedChunkHeap keeps
  Buffers          \* addresses that malloc may give for a buffer

AlignedSize == SlotSize * (NumSlots + 1)          \* chunkSize, a power of two
BufferSize  == AlignedSize + AlignedSize          \* sz + chunkSize

AlignedAt(a) == a - (a % AlignedSize)

(* AlignHeap::malloc: room for a word, then the next multiple.             *)
alignedBuf(buf) == AlignedAt(buf + Word + AlignedSize - 1)

Overlap(a, b) == a < b + BufferSize /\ b < a + BufferSize

(* AlignedChunk; the buffer is what the word before the chunk records.     *)
NewChunk(buf) == [used |-> {0}, released |-> FALSE, buffer |-> buf]

getChunk(ptr) == AlignedAt(ptr)

Init ==
  /\ heap = [chunk |-> [a \in {} |-> Null], list |-> <<>>, length |-> 0, mine |-> Null]
  /\ live = {} /\ calls = 0

(* AlignedChunkHeap::malloc: the heaps that may result, with the chunk.    *)
ChunkGiven(h) ==
  IF h.list # <<>>
  THEN {[h EXCEPT !.list = Tail(@), !.length = @ - 1, !.mine = Head(h.list),
                  !.chunk[Head(h.list)].released = FALSE]}
  ELSE {[h EXCEPT !.chunk = (alignedBuf(b) :> NewChunk(b)) @@ @, !.mine = alignedBuf(b)] :
          b \in {b \in Buffers : \A a \in DOMAIN h.chunk : ~Overlap(b, h.chunk[a].buffer)}}

(* The bit that getSlot sets, if there is one.                             *)
FreeBits(h) == {i \in 0 .. NumSlots : i \notin h.chunk[h.mine].used}
OneBit(h)   == Min(FreeBits(h))
SlotAt(ch, bit) == ch + SlotSize * (NumSlots - bit)

(* getSlot, on a chunk that has one.                                       *)
getSlot(h) == [h EXCEPT !.chunk[h.mine].used = @ \cup {OneBit(h)}]

Released(h) == [h EXCEPT !.chunk[h.mine].released = TRUE, !.mine = Null]

(* The chunk to take a slot from, after releasing a full one.              *)
WithSlot(h) ==
  IF h.mine # Null /\ FreeBits(h) # {} THEN {h}
  ELSE ChunkGiven(IF h.mine = Null THEN h ELSE Released(h))

malloc ==
  /\ Call
  /\ \E h \in WithSlot(heap) : heap' = getSlot(h) /\ Gives(SlotAt(h.mine, OneBit(h)), SlotSize)

BitOf(ptr) == NumSlots - ((ptr - getChunk(ptr)) \div SlotSize)

putSlot(h, ptr) == [h EXCEPT !.chunk[getChunk(ptr)].used = @ \ {BitOf(ptr)}]

(* AlignedChunkHeap::free                                                  *)
ChunkTaken(h, ch) ==
  IF h.length > MaxFree
  THEN [h EXCEPT !.chunk = [a \in DOMAIN @ \ {ch} |-> @[a]]]
  ELSE [h EXCEPT !.list = <<ch>> \o @, !.length = @ + 1]

free(o) ==
  LET ch == getChunk(o.ptr)
      h  == putSlot(heap, o.ptr)
  IN  /\ heap' = IF h.chunk[ch].used = {0} /\ h.chunk[ch].released THEN ChunkTaken(h, ch) ELSE h
      /\ Takes(o) /\ UNCHANGED calls

Next == malloc \/ \E o \in live : free(o)

Spec == Init /\ [][Next]_vars

-----------------------------------------------------------------------------
(* Objects lie apart, in front of the footer of their chunk; a chunk's     *)
(* bitmap says which of its slots are in use; it lies in its buffer, with  *)
(* room for the word before it; a chunk that waits in the list is empty    *)
(* and released, and any other one but the current has a slot in use.      *)
SlotsAreInUse ==
  /\ Apart(live)
  /\ \A o \in live : getChunk(o.ptr) \in DOMAIN heap.chunk /\ BitOf(o.ptr) \in 1 .. NumSlots
  /\ \A a \in DOMAIN heap.chunk :
       /\ heap.chunk[a].used \ {0} = {BitOf(o.ptr) : o \in {o \in live : getChunk(o.ptr) = a}}
       /\ a - Word >= heap.chunk[a].buffer /\ a + AlignedSize <= heap.chunk[a].buffer + BufferSize
       /\ IF a \in ToSet(heap.list) THEN heap.chunk[a].used = {0} /\ heap.chunk[a].released
          ELSE heap.chunk[a].released = (a # heap.mine) /\ (a # heap.mine => heap.chunk[a].used # {0})
  /\ heap.length = Len(heap.list) /\ heap.length <= MaxFree + 1
=============================================================================

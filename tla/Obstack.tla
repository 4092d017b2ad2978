------------------------------- MODULE Obstack ------------------------------
(***************************************************************************)
(* ObstackHeap (heaplayers/obstack.h and obstackheap.h): a stack of        *)
(* objects in chunks of memory; freeing one frees every later one too, and *)
(* the last object may grow, moving to a new chunk when its own is full.   *)
(* live is the sequence of finished objects.  The heap below is external:  *)
(* it has a few places for a chunk, which it gives in any order.  The      *)
(* build is one whose pointers are as wide as an int: finalize rounds a    *)
(* pointer up as an int.                                                   *)
(***************************************************************************)
EXTENDS Layer, Sequences, SequencesExt

CONSTANTS
  ObstackSizes,
  ObstackChunk,    \* of a chunk, its header included
  Places,          \* where the heap below has memory
  PlaceSize        \* bytes there are at a place

ChunkHeader == 8   \* sizeof(ChunkHeader): _pastEnd and _prevChunk

(* heap.chunks is the chain of chunks [at, limit], the current one first;  *)
(* heap.lost those that a failed malloc made unreachable, heap.grown (a    *)
(* history variable) how far the last object was grown.                    *)
Current(h) == Head(h.chunks)
Space(h)   == Current(h).limit - h.nextPos
Taken(h)   == {c.at : c \in ToSet(h.chunks) \cup h.lost}

(* makeChunk of sz bytes: the chunk, or none when the heap below has none. *)
ChunkFor(h, sz) ==
  LET alloc == Align(IF sz > ObstackChunk - ChunkHeader THEN sz ELSE ObstackChunk - ChunkHeader)
      free  == Places \ Taken(h)
  IN  IF free = {} \/ ChunkHeader + alloc > PlaceSize THEN {<<>>}
      ELSE {<<[at |-> p, limit |-> p + ChunkHeader + alloc]>> : p \in free}

Start(c) == c.at + ChunkHeader

(* The constructor, and free(NULL).                                        *)
WithOneChunk(c, lost, aborted) ==
  [chunks |-> c, currentBase |-> Start(c[1]), nextPos |-> Start(c[1]), lost |-> lost, grown |-> 0,
   aborted |-> aborted]

NoChunks == [chunks |-> <<>>, lost |-> {}]

Init ==
  /\ \E c \in ChunkFor(NoChunks, ObstackChunk) : heap = WithOneChunk(c, {}, FALSE)
  /\ live = <<>> /\ calls = 0

(* A chunk that cannot be had leaves the obstack without any.              *)
NewCurrent(h, c) ==
  IF c = <<>> THEN [h EXCEPT !.chunks = <<>>, !.lost = @ \cup ToSet(h.chunks), !.grown = 0]
  ELSE [h EXCEPT !.chunks = c \o @]

finalize(h) ==
  LET next == Align(h.nextPos) IN [h EXCEPT !.nextPos = next, !.currentBase = next, !.grown = 0]

Allocated(h, sz) == finalize([h EXCEPT !.currentBase = h.nextPos, !.nextPos = @ + sz])

(* malloc, when no object is growing.                                      *)
malloc(sz) ==
  /\ Call /\ heap.grown = 0
  /\ \/ /\ heap.chunks = <<>>
        /\ UNCHANGED <<heap, live>>
     \/ /\ heap.chunks # <<>> /\ Space(heap) >= sz
        /\ heap' = Allocated(heap, sz)
        /\ live' = Append(live, [ptr |-> heap.nextPos, size |-> sz])
     \/ /\ heap.chunks # <<>> /\ Space(heap) < sz
        /\ \E c \in ChunkFor(heap, sz) :
             LET h == NewCurrent(heap, c) IN
             IF c = <<>> THEN heap' = h /\ UNCHANGED live
             ELSE /\ heap' = Allocated([h EXCEPT !.currentBase = Start(c[1]), !.nextPos = Start(c[1])], sz)
                  /\ live' = Append(live, [ptr |-> Start(c[1]), size |-> sz])

objectSize(h) == h.nextPos - h.currentBase

(* copyToNew, for a chunk from the heap below.                             *)
copyToNew(h, c) ==
  LET a == NewCurrent(h, c) IN
  IF c = <<>> THEN a
  ELSE [a EXCEPT !.currentBase = Start(c[1]), !.nextPos = Start(c[1]) + objectSize(h)]

(* grow, when there is a chunk: without one it would dereference NULL.     *)
grow(sz) ==
  /\ Call /\ heap.chunks # <<>>
  /\ \E h \in IF Space(heap) >= sz THEN {heap}
              ELSE {copyToNew(heap, c) :
                      c \in ChunkFor(heap, objectSize(heap) + sz + (objectSize(heap) \div 8) + 100)} :
       heap' = IF h.chunks = <<>> THEN h ELSE [h EXCEPT !.nextPos = @ + sz, !.grown = @ + sz]
  /\ UNCHANGED live

(* The caller finishes the object that it grew.                            *)
finish ==
  /\ heap.grown > 0
  /\ heap' = finalize(heap)
  /\ live' = Append(live, [ptr |-> heap.currentBase, size |-> heap.nextPos - heap.currentBase])
  /\ UNCHANGED calls

(* The chunks that are left when those that do not have ptr are freed.     *)
Holding(h, ptr) ==
  LET has == {k \in DOMAIN h.chunks : h.chunks[k].at <= ptr /\ ptr <= h.chunks[k].limit} IN
  IF has = {} THEN <<>> ELSE SubSeq(h.chunks, Min(has), Len(h.chunks))

free(k) ==
  LET ptr == live[k].ptr
      c   == Holding(heap, ptr)
  IN  /\ heap' = IF c = <<>> THEN [heap EXCEPT !.chunks = <<>>, !.aborted = TRUE, !.grown = 0]
                 ELSE [heap EXCEPT !.chunks = c, !.currentBase = ptr, !.nextPos = ptr, !.grown = 0]
      /\ live' = SubSeq(live, 1, k - 1) /\ UNCHANGED calls

freeNull ==
  /\ Call /\ live # <<>>
  /\ \E c \in ChunkFor([heap EXCEPT !.chunks = <<>>], ObstackChunk) :
       c # <<>> /\ heap' = WithOneChunk(c, heap.lost, heap.aborted)
  /\ live' = <<>>

Next ==
  /\ ~heap.aborted
  /\ \/ \E sz \in ObstackSizes : malloc(sz) \/ grow(sz)
     \/ finish
     \/ \E k \in DOMAIN live : free(k)
     \/ freeNull

Spec == Init /\ [][Next]_vars

-----------------------------------------------------------------------------
Chunked == {[ptr |-> Start(c), size |-> c.limit - Start(c)] : c \in ToSet(heap.chunks) \cup heap.lost}

(* Finished objects and the one that grows lie apart, each in one chunk    *)
(* that was not given back; the one that grows kept what was grown; and as *)
(* long as no chunk was lost to a failed malloc, free finds its object.    *)
ObstackIsStack ==
  LET growing == IF heap.grown = 0 THEN {} ELSE {[ptr |-> heap.currentBase, size |-> heap.grown]}
      all     == ToSet(live) \cup growing
  IN  /\ Cardinality(ToSet(live)) = Len(live)
      /\ Apart(all)
      /\ \A o \in all : \E c \in Chunked : c.ptr <= o.ptr /\ o.ptr + o.size <= c.ptr + c.size
      /\ heap.chunks # <<>> => objectSize(heap) = heap.grown
      /\ heap.chunks # <<>> => heap.nextPos <= Current(heap).limit
      /\ heap.aborted => heap.lost # {}
=============================================================================

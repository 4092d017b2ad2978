----------------------------- MODULE InternalHeap ---------------------------
(***************************************************************************)
(* InternalHeap (internalheap.h): the runtime's own heap, a KingsleyHeap   *)
(* under one lock over a single chunk of plain shared memory, which the    *)
(* source gives out once (SourceInternalHeap: _alreadyMalloced).           *)
(***************************************************************************)
EXTENDS Integers, KingsleyHeap

CONSTANTS
  Sizes,        \* sizes the runtime asks for
  InternalSize, \* INTERNALHEAP_SIZE
  MaxCalls      \* calls in all (bounds the model)

VARIABLES
  heap, memory,
  dead,             \* the assertion has failed
  live,             \* objects in use (history)
  calls

vars == <<heap, memory, dead, live, calls>>

Base == 64          \* where mmap puts the chunk
Page == 64          \* PageSize, the chunk's extra room

(* initialize allocates an object, so that the chunk is mapped before any  *)
(* process is forked.                                                      *)
Init ==
  /\ heap = [EmptyHeap EXCEPT !.arena = Base]
  /\ memory = Carve(Base, Base + ArenaSize, InternalSize, ObjectSize(8))
  /\ dead = FALSE
  /\ live = Added({}, Base + ArenaSize + Header, 8) /\ calls = 0

Got(ptr, sz) == live' = Added(live, ptr, sz)

malloc(sz) ==
  LET size == ObjectSize(sz) IN
  \/ /\ ListHead(heap, size) # Null
     /\ heap' = Popped(heap, memory, size)
     /\ Got(ListHead(heap, size), sz)
     /\ UNCHANGED <<memory, dead>>
  \/ /\ ListHead(heap, size) = Null /\ FitsArena(heap, memory, size)
     /\ memory' = Over(Carve(heap.arena, memory.arena[heap.arena].space,
                              memory.arena[heap.arena].remaining, size), memory)
     /\ Got(ArenaPtr(heap, memory), sz)
     /\ UNCHANGED <<heap, dead>>
  \/ /\ ListHead(heap, size) = Null /\ ~FitsArena(heap, memory, size)
     /\ dead' = TRUE
     /\ UNCHANGED <<heap, memory, live>>

free(o) ==
  LET size == At(memory.size, o.ptr - Header) IN
  /\ heap' = Freed(heap, size, o.ptr)
  /\ memory' = Over(FreeLink(heap, size, o.ptr), memory)
  /\ live' = live \ {o}
  /\ UNCHANGED dead

Next ==
  \/ /\ ~dead /\ calls < MaxCalls /\ calls' = calls + 1
     /\ (\E sz \in Sizes : malloc(sz)) \/ (\E o \in live : free(o))
  \/ (dead \/ calls = MaxCalls) /\ UNCHANGED vars

Spec == Init /\ [][Next]_vars

-----------------------------------------------------------------------------
(* The runtime's own objects do not overlap, and lie inside the mapping.   *)
InternalDisjoint ==
  /\ Disjoint(live)
  /\ \A o \in live : o.ptr + o.size <= Base + InternalSize + Page
=============================================================================

-------------------------------- MODULE Heap --------------------------------
(***************************************************************************)
(* The program's heap: the intercepted malloc, free and realloc            *)
(* (libdthread.cpp, conseq_malloc.h, xmemory.h) over one power-of-two heap *)
(* per thread (warpheap.h, KingsleyHeap) over one bump allocator for all   *)
(* (xheap.h).                                                              *)
(*                                                                         *)
(* Threads are processes.  Lists' heads, the current arenas and the bump   *)
(* pointer lie in memory that all of them share; object headers, the links *)
(* of the free lists and the arenas' counters lie in the heap itself,      *)
(* which is versioned: a process sees its own writes and what was          *)
(* committed before its last update.  Conversion, the versioned memory, is *)
(* external.                                                               *)
(*                                                                         *)
(* The program's only communication is one global pointer that it changes  *)
(* inside a critical section.                                              *)
(***************************************************************************)
EXTENDS Integers, KingsleyHeap

CONSTANTS
  Threads,      \* thread indices, 0 is main
  NumHeaps,     \* NUM_HEAPS
  Sizes,        \* sizes the program asks for
  PageSize,
  Chunk,        \* PROTECTEDHEAP_CHUNK
  HeapSize,     \* PROTECTEDHEAP_SIZE
  MaxCalls      \* allocations in all (bounds the model)

Nobody == -1
Base == PageSize      \* the heap's first address

VARIABLES
  phase,         \* of main: "before", "running" or "after" the library's set-up
  heap,          \* metadata of the threads' heaps, by index
  heapLock,      \* PPHeap's locks
  position, remaining, xlock,       \* xheap's metadata and its xplock
  master,        \* the committed memory
  snap, own,     \* by thread: what it saw at its last update, what it wrote since
  token, mutex,  \* holder of the global token, of the program's mutex
  pc, req,       \* by thread: place and locals of the call it is in
  live,          \* objects the program has (history)
  owned,         \* by thread: which of them only it knows (history)
  calls

shared  == <<heap, heapLock, position, remaining, xlock>>
program == <<live, owned, calls>>
vars == <<phase, shared, master, snap, own, token, mutex, pc, req, program>>

(* xheap::malloc                                                           *)
PageAligned(sz) == PageSize * ((sz + PageSize - 1) \div PageSize)

-----------------------------------------------------------------------------
(***************************************************************************)
(* The versioned memory.                                                   *)
(***************************************************************************)
HeapPart    == {"link", "size", "arena"}
GlobalsPart == {"root"}

Memory(t) == Over(own[t], snap[t])

Write(t, w) == own' = [own EXCEPT ![t] = Over(w, @)]

(* Mutant: the heap is left out.                                           *)
CommitGlobalsPart(t, fields) ==
  LET done == fields \cap GlobalsPart
      committed == [f \in DOMAIN master |-> IF f \in done THEN own[t][f] @@ master[f] ELSE master[f]]
  IN  /\ master' = committed
      /\ snap' = [snap EXCEPT ![t] = [f \in DOMAIN @ |-> IF f \in done THEN committed[f] ELSE @[f]]]
      /\ own' = [own EXCEPT ![t] = [f \in DOMAIN @ |-> IF f \in done THEN <<>> ELSE @[f]]]

(* conv_commit_and_update of one segment.                                  *)
CommitPart(t, fields) ==
  LET committed == [f \in DOMAIN master |-> IF f \in fields THEN own[t][f] @@ master[f] ELSE master[f]]
  IN  /\ master' = committed
      /\ snap' = [snap EXCEPT ![t] = [f \in DOMAIN @ |-> IF f \in fields THEN committed[f] ELSE @[f]]]
      /\ own' = [own EXCEPT ![t] = [f \in DOMAIN @ |-> IF f \in fields THEN <<>> ELSE @[f]]]

-----------------------------------------------------------------------------
(***************************************************************************)
(* Calls.  setThreadIndex gives a thread its heap.                         *)
(***************************************************************************)
heapid(t) == t % NumHeaps

(* libdthread.cpp's flag, which every process has a copy of: the others    *)
(* are forked while it is set.                                             *)
Initialized(t) == phase = "running" \/ (phase = "after" /\ t # 0)

Idle == [kind |-> "none", size |-> 0, object |-> 0, old |-> Null, at |-> 0]

Returns(t) == pc' = [pc EXCEPT ![t] = "run"] /\ req' = [req EXCEPT ![t] = Idle]

(* The program gets the object; a realloc has to free the old one.         *)
Got(t, ptr, r) ==
  /\ live' = Added(live, ptr, r.size)
  /\ owned' = [owned EXCEPT ![t] = @ \cup {ptr}]
  /\ pc' = [pc EXCEPT ![t] = IF r.old = Null THEN "run" ELSE "free"]
  /\ req' = [req EXCEPT ![t] = IF r.old = Null THEN Idle ELSE r]

(* PPHeap::lock                                                            *)
Unlocked(i) == heapLock[i] = Nobody

(* PPHeap::malloc: under the heap's lock, from the list or the arena, or   *)
(* by way of the shared bump allocator.                                    *)
Allocate(t, r) ==
  LET i == heapid(t)
      h == heap[i]
      m == Memory(t) IN
  /\ Unlocked(i)
  /\ \/ /\ ListHead(h, r.object) # Null
        /\ heap' = [heap EXCEPT ![i] = Popped(h, m, r.object)]
        /\ Got(t, ListHead(h, r.object), r)
        /\ UNCHANGED <<heapLock, own>>
     \/ /\ ListHead(h, r.object) = Null /\ FitsArena(h, m, r.object)
        /\ Write(t, Carve(h.arena, m.arena[h.arena].space, m.arena[h.arena].remaining, r.object))
        /\ Got(t, ArenaPtr(h, m), r)
        /\ UNCHANGED <<heap, heapLock>>
     \/ /\ ListHead(h, r.object) = Null /\ ~FitsArena(h, m, r.object)
        /\ heapLock' = [heapLock EXCEPT ![i] = t]
        /\ pc' = [pc EXCEPT ![t] = "xheap"]
        /\ req' = [req EXCEPT ![t] = r]
        /\ UNCHANGED <<heap, own, live, owned>>
  /\ UNCHANGED <<phase, position, remaining, xlock, master, snap, token, mutex>>

Request(sz, old) == [kind |-> "alloc", size |-> sz, object |-> ObjectSize(sz), old |-> old, at |-> 0]

(* calloc asks for the product of its arguments, and clears the object.    *)
Malloc(t) ==
  /\ Initialized(t) /\ pc[t] = "run" /\ calls < MaxCalls /\ calls' = calls + 1
  /\ \E sz \in Sizes : Allocate(t, Request(sz, Null))

(* getSize: an object without its header ends the program.                 *)
SizeOf(t, ptr) == At(Memory(t).size, ptr - Header)

Refused(t, ptr) ==
  /\ pc' = [pc EXCEPT ![t] = "abort"] /\ req' = [req EXCEPT ![t].old = ptr]
  /\ UNCHANGED <<phase, shared, master, snap, own, token, mutex, live, owned>>

(* conseq_malloc::realloc and xmemory::realloc; the old object is freed    *)
(* when the new one is there.                                              *)
Realloc(t) ==
  /\ Initialized(t) /\ pc[t] = "run" /\ calls < MaxCalls /\ calls' = calls + 1
  /\ \E sz \in Sizes, o \in owned[t] :
       \/ SizeOf(t, o) = Null /\ Refused(t, o)
       \/ SizeOf(t, o) # Null /\ Allocate(t, Request(sz, o))

(* Mutant: nobody is kept out of xheap::malloc.                            *)
XheapOpenAlways == TRUE

XheapOpen == xlock = Nobody

(* xheap::malloc takes its lock and reads the bump pointer ...             *)
XheapMalloc(t) ==
  /\ pc[t] = "xheap" /\ XheapOpen
  /\ xlock' = t
  /\ req' = [req EXCEPT ![t].at = position]
  /\ pc' = [pc EXCEPT ![t] = IF remaining < PageAligned(ArenaSize + ChunkSize(Chunk, req[t].object))
                              THEN "exit" ELSE "bump"]
  /\ UNCHANGED <<phase, heap, heapLock, position, remaining, master, snap, own, token, mutex,
                 program>>

(* ... and moves it; the new arena gives the object.                       *)
XheapReturns(t) ==
  LET i    == heapid(t)
      room == ChunkSize(Chunk, req[t].object)
      sz   == PageAligned(ArenaSize + room)
      a    == req[t].at IN
  /\ pc[t] = "bump"
  /\ position' = a + sz /\ remaining' = remaining - sz
  /\ xlock' = Nobody
  /\ heap' = [heap EXCEPT ![i].arena = a]
  /\ heapLock' = [heapLock EXCEPT ![i] = Nobody]
  /\ Write(t, Carve(a, a + ArenaSize, room, req[t].object))
  /\ Got(t, a + ArenaSize + Header, req[t])
  /\ UNCHANGED <<phase, master, snap, token, mutex, calls>>

(* PPHeap::free                                                            *)
Release(t, ptr) ==
  LET i    == heapid(t)
      size == SizeOf(t, ptr) IN
  /\ Unlocked(i)
  /\ \/ size = Null /\ Refused(t, ptr)
     \/ /\ size # Null
        /\ heap' = [heap EXCEPT ![i] = Freed(@, size, ptr)]
        /\ Write(t, FreeLink(heap[i], size, ptr))
        /\ live' = {o \in live : o.ptr # ptr}
        /\ owned' = [owned EXCEPT ![t] = @ \ {ptr}]
        /\ Returns(t)
        /\ UNCHANGED <<phase, heapLock, position, remaining, xlock, master, snap, token, mutex>>
  /\ UNCHANGED calls

(* Also realloc to no bytes.                                               *)
Free(t) == Initialized(t) /\ pc[t] = "run" /\ \E o \in owned[t] : Release(t, o)

FreeOld(t) == pc[t] = "free" /\ Release(t, req[t].old)

-----------------------------------------------------------------------------
(***************************************************************************)
(* Before the library's constructor and after its destructor, malloc maps  *)
(* pages and free does nothing; such an object has no header.  realloc     *)
(* then does nothing either.                                               *)
(***************************************************************************)
MappedMalloc ==
  /\ ~Initialized(0) /\ pc[0] = "run" /\ calls < MaxCalls /\ calls' = calls + 1
  /\ \E sz \in Sizes :
       LET a == -2 * PageSize * (calls + 1)
       IN  /\ live' = Added(live, a, sz)
           /\ owned' = [owned EXCEPT ![0] = @ \cup {a}]
  /\ UNCHANGED <<phase, shared, master, snap, own, token, mutex, pc, req>>

IgnoredFree ==
  /\ ~Initialized(0) /\ pc[0] = "run"
  /\ \E o \in owned[0] :
       /\ live' = {x \in live : x.ptr # o}
       /\ owned' = [owned EXCEPT ![0] = @ \ {o}]
  /\ UNCHANGED <<phase, shared, master, snap, own, token, mutex, pc, req, calls>>

(* xrun::initialize creates the heaps.                                     *)
Initialize ==
  /\ phase = "before" /\ phase' = "running"
  /\ UNCHANGED <<shared, master, snap, own, token, mutex, pc, req, program>>

Finalize ==
  /\ phase = "running" /\ pc[0] = "run" /\ phase' = "after"
  /\ UNCHANGED <<shared, master, snap, own, token, mutex, pc, req, program>>

-----------------------------------------------------------------------------
(***************************************************************************)
(* The program's critical sections: at both ends commitAndUpdateMemory     *)
(* with the token, the heap first and then the globals.                    *)
(***************************************************************************)
Lock(t) ==
  /\ Initialized(t) /\ pc[t] = "run" /\ token = Nobody /\ mutex = Nobody
  /\ token' = t /\ mutex' = t
  /\ pc' = [pc EXCEPT ![t] = "commit"]
  /\ req' = [req EXCEPT ![t].kind = "lock"]
  /\ UNCHANGED <<phase, shared, master, snap, own, program>>

Unlock(t) ==
  /\ pc[t] = "critical" /\ token = Nobody
  /\ token' = t
  /\ pc' = [pc EXCEPT ![t] = "commit"]
  /\ req' = [req EXCEPT ![t].kind = "unlock"]
  /\ UNCHANGED <<phase, shared, master, snap, own, mutex, program>>

CommitHeap(t) ==
  /\ pc[t] = "commit"
  /\ CommitPart(t, HeapPart)
  /\ pc' = [pc EXCEPT ![t] = "commit_globals"]
  /\ UNCHANGED <<phase, shared, token, mutex, req, program>>

CommitGlobals(t) ==
  /\ pc[t] = "commit_globals"
  /\ CommitPart(t, GlobalsPart)
  /\ token' = Nobody
  /\ mutex' = IF req[t].kind = "unlock" THEN Nobody ELSE mutex
  /\ pc' = [pc EXCEPT ![t] = IF req[t].kind = "unlock" THEN "run" ELSE "critical"]
  /\ req' = [req EXCEPT ![t] = Idle]
  /\ UNCHANGED <<phase, shared, program>>

(* The program hands an object to whoever comes next, or takes it.         *)
Publish(t) ==
  /\ pc[t] = "critical" /\ At(Memory(t).root, 0) = Null
  /\ \E o \in owned[t] :
       /\ Write(t, [Blank EXCEPT !.root = 0 :> o])
       /\ owned' = [owned EXCEPT ![t] = @ \ {o}]
  /\ UNCHANGED <<phase, shared, master, snap, token, mutex, pc, req, live, calls>>

Take(t) ==
  LET o == At(Memory(t).root, 0) IN
  /\ pc[t] = "critical" /\ o # Null
  /\ Write(t, [Blank EXCEPT !.root = 0 :> Null])
  /\ owned' = [owned EXCEPT ![t] = @ \cup {o}]
  /\ UNCHANGED <<phase, shared, master, snap, token, mutex, pc, req, live, calls>>

-----------------------------------------------------------------------------
(* The constructors of PPHeap, xheap and xpersist.                         *)
InitPPHeap ==
  /\ heap = [i \in 0 .. NumHeaps - 1 |-> EmptyHeap]
  /\ heapLock = [i \in 0 .. NumHeaps - 1 |-> Nobody]

InitXheap == position = Base /\ remaining = HeapSize /\ xlock = Nobody

InitMemory ==
  master = Blank /\ snap = [t \in Threads |-> Blank] /\ own = [t \in Threads |-> Blank]

Init ==
  /\ phase = "before"
  /\ InitPPHeap /\ InitXheap /\ InitMemory
  /\ token = Nobody /\ mutex = Nobody
  /\ pc = [t \in Threads |-> "run"] /\ req = [t \in Threads |-> Idle]
  /\ live = {} /\ owned = [t \in Threads |-> {}] /\ calls = 0

(* A failed call ends the program.                                         *)
Ended == \E t \in Threads : pc[t] \in {"exit", "abort"}

Next ==
  \/ ~Ended /\ (MappedMalloc \/ IgnoredFree \/ Initialize \/ Finalize)
  \/ \E t \in Threads :
       /\ ~Ended
       /\ \/ Malloc(t) \/ Realloc(t) \/ XheapMalloc(t) \/ XheapReturns(t) \/ Free(t) \/ FreeOld(t)
          \/ Lock(t) \/ Unlock(t) \/ CommitHeap(t) \/ CommitGlobals(t) \/ Publish(t) \/ Take(t)
  \/ Ended /\ UNCHANGED vars

Spec == Init /\ [][Next]_vars

-----------------------------------------------------------------------------
(* No two objects that are in use overlap, headers included, whatever the  *)
(* threads allocated, freed, passed on and freed for each other, and       *)
(* although each of them sees its own version of lists and arenas.         *)
ObjectsDisjoint == Disjoint(live)

(* A pointer that a thread reads from a global leads to an object whose    *)
(* header the thread sees as well.                                         *)
PublishedIsAllocated ==
  \A t \in Threads :
    LET o == At(Memory(t).root, 0)
    IN  pc[t] # "commit_globals" /\ o > 0 => At(Memory(t).size, o - Header) # Null

(* getSize refuses only what was allocated before the constructor ran: an  *)
(* object that another thread made, kept and passed on is recognised.      *)
RefusesOnlyEarlyObjects ==
  \A t \in Threads : pc[t] = "abort" => req[t].old < 0
=============================================================================

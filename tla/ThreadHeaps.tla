----------------------------- MODULE ThreadHeaps ----------------------------
(***************************************************************************)
(* Heaps that several threads use, and the lock that is around each of     *)
(* them.                                                                   *)
(***************************************************************************)
EXTENDS Layer, Sequences, SequencesExt

-----------------------------------------------------------------------------
(***************************************************************************)
(* Heaps per thread, chosen by the thread id modulo their number:          *)
(* ThreadHeap (heaplayers/threadheap.h), where a free object goes to the   *)
(* heap of the thread that frees it, and PHOThreadHeap on MarkThreadHeap   *)
(* (phothreadheap.h), where it goes back to the heap it came from.  Each   *)
(* is a free list that is locked around a call (lockedheap.h), as both     *)
(* files ask for; its objects are external.                                *)
(***************************************************************************)
CONSTANTS
  HeapUsers,       \* thread ids, consecutive ones 1024 apart (getThreadId)
  ThreadHeapCount, \* NumHeaps
  ThreadObjects

Indices == 0 .. ThreadHeapCount - 1

(* getThreadId on Linux, for ids that are not negative as an int.          *)
getThreadId(t) == t \div 1024
Index(t) == getThreadId(t) % ThreadHeapCount

HeapsInit ==
  /\ \E kind \in {"thread", "pho"} :
       heap = [kind |-> kind, list |-> [i \in Indices |-> <<>>],
               mark |-> [p \in {} |-> 0], origin |-> [p \in {} |-> 0]]
  /\ live = {} /\ calls = 0

(* selectHeap, getHeap: where each kind puts an object that is freed.      *)
homeOf(t, ptr) == IF heap.kind = "pho" THEN heap.mark[ptr] ELSE Index(t)

(* The heap's list, or an object from the heap below it; MarkThreadHeap    *)
(* writes the index of the caller's heap into the object.                  *)
malloc(t) ==
  /\ Call
  /\ \E p \in IF heap.list[Index(t)] # <<>> THEN {Head(heap.list[Index(t)])}
              ELSE ThreadObjects \ DOMAIN heap.origin :
       /\ heap' = [heap EXCEPT
                     !.list[Index(t)] = IF @ = <<>> THEN @ ELSE Tail(@),
                     !.mark = IF heap.kind = "pho" THEN (p :> Index(t)) @@ @ ELSE @,
                     !.origin = @ @@ (p :> Index(t))]
       /\ Gives(p, 1)

free(t, o) ==
  /\ heap' = [heap EXCEPT !.list[homeOf(t, o.ptr)] = <<o.ptr>> \o @]
  /\ Takes(o) /\ UNCHANGED calls

HeapsNext == \E t \in HeapUsers : malloc(t) \/ \E o \in live : free(t, o)

-----------------------------------------------------------------------------
(* Every object that came from below is in use or in one list, once,       *)
(* whoever freed it; with PHOThreadHeap ("free returns memory to its       *)
(* originating heap") it is in the list of the heap that it came from.     *)
FreeObjectsAreHome ==
  /\ \A a, b \in live : a.ptr = b.ptr => a = b
  /\ \A p \in DOMAIN heap.origin :
       LET places == {<<i, k>> \in Indices \X (1 .. Cardinality(ThreadObjects)) :
                        k <= Len(heap.list[i]) /\ heap.list[i][k] = p}
       IN  IF \E o \in live : o.ptr = p THEN places = {}
           ELSE /\ Cardinality(places) = 1
                /\ heap.kind = "pho" => \A pl \in places : pl[1] = heap.origin[p]

-----------------------------------------------------------------------------
(***************************************************************************)
(* The locks around the heap layers: HL::Lock (heaplayers/spinlock.h),     *)
(* which leaves out the locked instruction while there is one thread, and  *)
(* RecursiveLockType on top (util/recursivelock.h), whose owner is read    *)
(* outside the lock.  heap is the lock and what each thread is about to    *)
(* do; live (history) has one member per lock that a thread took and did   *)
(* not give back.                                                          *)
(***************************************************************************)
CONSTANTS
  LockUsers,       \* thread ids; the least is the main thread's
  MaxNested        \* bounds the recursion

FirstUser == CHOOSE t \in LockUsers : \A u \in LockUsers : t <= u
Unlocked == 0
Locked   == 1
NoThread == -1

LockInit ==
  /\ heap = [mutex |-> Unlocked, tid |-> NoThread, count |-> 0,
             anyThreadCreated |-> FALSE, pc |-> [t \in LockUsers |-> "idle"]]
  /\ live = {} /\ calls = 0

Depth(t) == Cardinality({l \in live : l.t = t})
Does(t, step) == heap.pc[t] = step
Goes(t, step, h) == heap' = [h EXCEPT !.pc[t] = step]

(* The pthread library's part: the flag is set before there is another     *)
(* thread to see the lock.                                                 *)
create ==
  /\ ~heap.anyThreadCreated /\ Does(FirstUser, "idle")
  /\ heap' = [heap EXCEPT !.anyThreadCreated = TRUE] /\ UNCHANGED <<live, calls>>

Runs(t) == t = FirstUser \/ heap.anyThreadCreated

(* RecursiveLockType::lock: the owner is asked for first.                  *)
lock(t) ==
  /\ Call /\ Runs(t) /\ Does(t, "idle") /\ Depth(t) < MaxNested
  /\ Goes(t, IF heap.tid = t THEN "count" ELSE "exchange", heap) /\ UNCHANGED live

(* Lock::lock and contendedLock: exchange, then look on until it seems     *)
(* unlocked.                                                               *)
MyInterlockedExchange(t) ==
  /\ Does(t, "exchange") /\ UNCHANGED <<live, calls>>
  /\ Goes(t, IF heap.anyThreadCreated /\ heap.mutex # Unlocked THEN "spin" ELSE "own",
             [heap EXCEPT !.mutex = Locked])

contendedLock(t) ==
  /\ Does(t, "spin") /\ heap.mutex # Locked
  /\ Goes(t, "exchange", heap) /\ UNCHANGED <<live, calls>>

own(t) == Does(t, "own") /\ Goes(t, "count", [heap EXCEPT !.tid = t]) /\ UNCHANGED <<live, calls>>

count(t) ==
  /\ Does(t, "count") /\ Goes(t, "idle", [heap EXCEPT !.count = @ + 1])
  /\ live' = live \cup {[t |-> t, n |-> Depth(t)]} /\ UNCHANGED calls

(* RecursiveLockType::unlock by a thread that has the lock (any other one  *)
(* is told so with abort).                                                 *)
unlock(t) ==
  /\ Does(t, "idle") /\ Depth(t) > 0 /\ heap.tid = t
  /\ Goes(t, IF heap.count = 1 THEN "disown" ELSE "idle", [heap EXCEPT !.count = @ - 1])
  /\ live' = live \ {[t |-> t, n |-> Depth(t) - 1]} /\ UNCHANGED calls

disown(t) ==
  /\ Does(t, "disown") /\ Goes(t, "release", [heap EXCEPT !.tid = NoThread])
  /\ UNCHANGED <<live, calls>>

(* Lock::unlock                                                            *)
release(t) ==
  /\ Does(t, "release") /\ Goes(t, "idle", [heap EXCEPT !.mutex = Unlocked])
  /\ UNCHANGED <<live, calls>>

LockNext ==
  \/ create
  \/ \E t \in LockUsers : \/ lock(t) \/ MyInterlockedExchange(t) \/ contendedLock(t) \/ own(t)
                          \/ count(t) \/ unlock(t) \/ disown(t) \/ release(t)

-----------------------------------------------------------------------------
(* One thread has the lock at a time, as often as the count says, and is   *)
(* the owner then, so that it can lock again and unlock; the mutex is      *)
(* locked from then on until the owner lets go of it.                      *)
LockHasOneOwner ==
  /\ \A t, u \in LockUsers : Depth(t) > 0 /\ Depth(u) > 0 => t = u
  /\ \A t \in LockUsers :
       /\ Depth(t) > 0 => heap.mutex = Locked /\ heap.tid = t /\ heap.count = Depth(t)
       /\ heap.tid = t => heap.pc[t] \in {"count", "disown"} \/ Depth(t) > 0
  /\ Cardinality({t \in LockUsers : heap.pc[t] \in {"own", "count", "disown", "release"} \/ Depth(t) > 0}) <= 1
=============================================================================

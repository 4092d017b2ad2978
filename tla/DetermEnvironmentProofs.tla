---------------------- MODULE DetermEnvironmentProofs ----------------------
(***************************************************************************)
(* What class determ uses, for a build without SINGLE_THREAD_OPT, for      *)
(* every program, every pool size and every answer of the clock.           *)
(* Conversion's memory: commits and updates are where they have to be.     *)
(* The logical clock: it counts a thread among the active ones exactly     *)
(* when the thread can go on by itself, and no BUG_ON of its list is       *)
(* reached.                                                                *)
(***************************************************************************)
EXTENDS DetermWaitProofs

(***************************************************************************)
(* The memory.                                                             *)
(***************************************************************************)

(* Between the end of a critical section and its commit.                   *)
DirtyLabels == {"unlock_try", "unlock_commit"}

(* What a thread has written and not committed is the data of the mutex it *)
(* is about to unlock.                                                     *)
DirtyInv ==
  \A t \in Threads : dirty[t] # {} => Where(t) \in DirtyLabels /\ dirty[t] = {CurOp(t).m}

(* Data that nobody is about to commit is up to date in memory.            *)
CommittedInv ==
  \A m \in Mutexes : (\A t \in Threads : m \notin dirty[t]) => mem[m] = sections[m]

(* Whoever holds the mutex sees its data as they are.                      *)
HolderInv ==
  /\ \A t \in Threads : \A m \in held[t] : view[t][m] = sections[m]
  /\ \A t \in Threads : pc[t] = "unborn" => held[t] = {}

MemInv == DirtyInv /\ CommittedInv /\ HolderInv

-----------------------------------------------------------------------------
(***************************************************************************)
(* What a step of one thread has to show.                                  *)
(***************************************************************************)

(* Nobody writes without the mutex.                                        *)
LEMMA DirtyHeld ==
  ASSUME SafeInv, MemInv, NEW t \in Threads PROVE dirty[t] \subseteq held[t]
<1>1. pc[t] \in SubLabels => ret[t] # "unlock_try"
  BY DEF SafeInv, TokenInv, Local, SubLabels, WaitLabels, WaitRets, PutRets
<1>2. dirty[t] # {} => Releasing(t)
  BY <1>1 DEF MemInv, DirtyInv, DirtyLabels, Where, Releasing, At
<1> QED
  BY <1>2 DEF MemInv, DirtyInv, SafeInv, MutexInv

(* A step of t that ends no critical section and takes no mutex.           *)
LEMMA MemMove ==
  ASSUME IndInv, SafeInv, MemInv, NEW t \in Threads, Elsewhere(t), UNCHANGED sections,
         held'[t] \subseteq held[t], \A u \in Threads \ {t} : held'[u] = held[u],
         pc'[t] # "unborn",
         \/ CommitAndUpdateMemory(t)
         \/ /\ UNCHANGED memory
            /\ dirty[t] = {} \/ (Where(t)' \in DirtyLabels /\ CurOp(t)' = CurOp(t))
  PROVE  MemInv'
<1> USE DEF memory
<1>1. /\ mem \in [Mutexes -> Nat] /\ view \in [Threads -> [Mutexes -> Nat]]
      /\ dirty \in [Threads -> SUBSET Mutexes] /\ held \in [Threads -> SUBSET Mutexes]
  BY DEF IndInv, TypeOK, MemoryType, LocalsType
<1>2. \A u \in Threads \ {t} : dirty'[u] = dirty[u] /\ view'[u] = view[u]
  BY <1>1 DEF CommitAndUpdateMemory
<1>3. DirtyInv'
  <2> SUFFICES ASSUME NEW u \in Threads, dirty'[u] # {}
               PROVE  Where(u)' \in DirtyLabels /\ dirty'[u] = {CurOp(u)'.m}
    BY DEF DirtyInv
  <2>1. CASE u = t
    <3>1. UNCHANGED memory /\ dirty[t] # {} /\ Where(t)' \in DirtyLabels /\ CurOp(t)' = CurOp(t)
      BY <1>1, <2>1 DEF CommitAndUpdateMemory
    <3> QED
      BY <2>1, <3>1 DEF MemInv, DirtyInv
  <2>2. CASE u # t
    <3>1. dirty[u] # {} /\ dirty[u] = dirty'[u]
      BY <1>2, <2>2
    <3>2. Where(u) \in DirtyLabels /\ dirty[u] = {CurOp(u).m}
      BY <3>1 DEF MemInv, DirtyInv
    <3>3. pc[u] \notin OutLabels
      BY <3>2 DEF Where, DirtyLabels, OutLabels, PoolLabels, SubLabels
    <3>4. CurOp(u)' = CurOp(u) /\ pc'[u] = pc[u] /\ ret'[u] = ret[u]
      BY <2>2, <3>3, ElsewhereOp
    <3> QED
      BY <3>1, <3>2, <3>4 DEF Where
  <2> QED
    BY <2>1, <2>2
<1>4. ASSUME NEW m \in Mutexes
      PROVE  /\ (\A u \in Threads : m \notin dirty'[u]) => mem'[m] = sections[m]
             /\ m \in held'[t] => view'[t][m] = sections[m]
  <2>1. m \in dirty[t] => m \in held[t]
    BY DirtyHeld
  <2>2. m \in held[t] => view[t][m] = sections[m]
    BY DEF MemInv, HolderInv
  <2>3. m \in held[t] => \A u \in Threads \ {t} : m \notin dirty[u]
    BY DirtyHeld DEF SafeInv, MutexInv, MutualExclusion
  <2>4. (\A u \in Threads : m \notin dirty[u]) => mem[m] = sections[m]
    BY DEF MemInv, CommittedInv
  <2>5. CASE UNCHANGED memory
    BY <2>2, <2>4, <2>5
  <2>6. CASE CommitAndUpdateMemory(t)
    <3>1. /\ mem'[m] = IF m \in dirty[t] THEN view[t][m] ELSE mem[m]
          /\ view'[t][m] = mem'[m] /\ dirty'[t] = {}
      BY <1>1, <2>6 DEF CommitAndUpdateMemory
    <3>2. CASE m \in dirty[t]
      BY <2>1, <2>2, <3>1, <3>2
    <3>3. CASE m \notin dirty[t]
      <4>1. (\A u \in Threads : m \notin dirty'[u]) => (\A u \in Threads : m \notin dirty[u])
        BY <1>2, <3>3
      <4> QED
        BY <2>3, <2>4, <3>1, <3>3, <4>1
    <3> QED
      BY <3>2, <3>3
  <2> QED
    BY <2>5, <2>6
<1>5. CommittedInv'
  BY <1>4 DEF CommittedInv
<1>6. HolderInv'
  <2>1. ASSUME NEW u \in Threads, NEW m \in held'[u] PROVE view'[u][m] = sections'[m]
    <3>1. CASE u = t
      BY <1>1, <1>4, <3>1
    <3>2. CASE u # t
      BY <1>2, <3>2 DEF MemInv, HolderInv
    <3> QED
      BY <3>1, <3>2
  <2>2. \A u \in Threads : pc'[u] = "unborn" => u # t /\ pc[u] = "unborn"
    BY DEF Elsewhere
  <2> QED
    BY <2>1, <2>2 DEF MemInv, HolderInv
<1> QED
  BY <1>3, <1>5, <1>6 DEF MemInv

(* A move outside the subroutines and mutex_unlock.                        *)
LEMMA MemPlain ==
  ASSUME IndInv, SafeInv, MemInv, NEW t \in Threads, NEW l, Moves(t, l), l \notin SubLabels,
         \A u \in Threads \ {t} : (fn'[u] = fn[u] /\ ip'[u] = ip[u]) \/ pc[u] \in OutLabels,
         UNCHANGED sections, l # "unborn",
         held'[t] \subseteq held[t], \A u \in Threads \ {t} : held'[u] = held[u],
         pc[t] \notin SubLabels, pc[t] \notin DirtyLabels,
         CommitAndUpdateMemory(t) \/ UNCHANGED memory
  PROVE  MemInv'
<1>1. /\ pc'[t] \in {l, "put", "is_lowest"}
      /\ \A u \in Threads \ {t} : pc'[u] = pc[u] /\ ret'[u] = ret[u]
  BY WhereMoves DEF IndInv
<1>2. Elsewhere(t)
  BY <1>1 DEF Elsewhere
<1>3. dirty[t] = {}
  BY DEF MemInv, DirtyInv, Where
<1> QED
  BY <1>1, <1>2, <1>3, MemMove

(* The same when no call changes and no mutex is released.                 *)
LEMMA MemGo ==
  ASSUME IndInv, SafeInv, MemInv, NEW t \in Threads, NEW l, Moves(t, l), l \notin SubLabels,
         UNCHANGED <<fn, ip, held, sections>>, l # "unborn",
         pc[t] \notin SubLabels, pc[t] \notin DirtyLabels,
         CommitAndUpdateMemory(t) \/ UNCHANGED memory
  PROVE  MemInv'
BY MemPlain

(* A step inside getToken or putToken, or its return.                      *)
LEMMA MemSub ==
  ASSUME IndInv, SafeInv, MemInv, NEW t \in Threads, pc[t] \in SubLabels, NEW l, Goto(t, l),
         l \in SubLabels \/ l = ret[t], UNCHANGED <<fn, ip, held, sections, memory>>
  PROVE  MemInv'
<1>1. pc \in [Threads -> Labels] /\ ret \in [Threads -> Labels]
  BY DEF IndInv, TypeOK, FlowType
<1>2. pc'[t] = l /\ ret'[t] = ret[t] /\ CurOp(t)' = CurOp(t) /\ Elsewhere(t)
  BY <1>1 DEF Goto, Elsewhere, CurOp
<1>3. ret[t] \in WaitRets \cup PutRets
  BY DEF SafeInv, TokenInv, Local, SubLabels, WaitLabels
<1>4. Where(t)' = Where(t) /\ pc'[t] # "unborn"
  BY <1>2, <1>3 DEF Where, SubLabels, WaitRets, PutRets
<1>5. dirty[t] = {} \/ Where(t)' \in DirtyLabels
  BY <1>4 DEF MemInv, DirtyInv
<1> QED
  BY <1>2, <1>4, <1>5, MemMove

-----------------------------------------------------------------------------
(***************************************************************************)
(* The steps.                                                              *)
(***************************************************************************)

(* MemInv, through every step of getToken, waitToken, putToken and         *)
(* startClock.                                                             *)
LEMMA GetTokenStepMem ==
  ASSUME IndInv, SafeInv, MemInv, NEW t \in Threads, GetTokenStep(t)
  PROVE  MemInv'
<1> USE DEF locals, history, SubLabels
<1>1. ASSUME NEW low \in BOOLEAN, IsLowest(t, low) PROVE MemInv'
  BY <1>1, MemSub DEF IsLowest
<1>2. CASE ReadActivation(t)
  BY <1>2, MemSub DEF ReadActivation
<1>3. CASE IsLowestWait(t)
  BY <1>3, MemSub DEF IsLowestWait
<1>4. CASE CompareAndSwap(t)
  BY <1>4, MemSub DEF CompareAndSwap
<1>5. CASE CheckActivation(t)
  BY <1>5, MemSub DEF CheckActivation
<1>6. CASE FastForward(t)
  BY <1>6, MemSub DEF FastForward
<1>7. CASE PutToken(t)
  BY <1>7, MemSub DEF PutToken
<1>8. CASE StartClock(t)
  <2>1. \A u \in Threads \ {t} : fn'[u] = fn[u] /\ ip'[u] = ip[u]
    BY <1>8 DEF StartClock, IndInv, TypeOK, LocalsType
  <2>2. Moves(t, "run") /\ UNCHANGED <<held, sections, memory>> /\ pc[t] = "start"
    BY <1>8 DEF StartClock, Moves
  <2> QED
    BY <2>1, <2>2, MemPlain DEF DirtyLabels
<1> QED
  BY <1>1, <1>2, <1>3, <1>4, <1>5, <1>6, <1>7, <1>8 DEF GetTokenStep

(* A step that stays where it is.                                          *)
LEMMA MemStay ==
  ASSUME IndInv, SafeInv, MemInv, NEW t \in Threads, UNCHANGED <<flow, fn, ip, held, sections, memory>>,
         pc[t] \notin SubLabels, pc[t] \notin DirtyLabels, pc[t] # "unborn"
  PROVE  MemInv'
<1>1. Moves(t, pc[t])
  BY DEF IndInv, TypeOK, FlowType, Moves, Goto, flow
<1> QED
  BY <1>1, MemGo

(* __mutex_lock_inner takes the mutex: the thread's view is brought up to  *)
(* date, and nobody is about to change the data of m.                      *)
LEMMA LockSetMem ==
  ASSUME IndInv, SafeInv, MemInv, NEW t \in Threads, LockSet(t)
  PROVE  MemInv'
<1> DEFINE m == CurOp(t).m
<1>1. /\ mem \in [Mutexes -> Nat] /\ view \in [Threads -> [Mutexes -> Nat]]
      /\ dirty \in [Threads -> SUBSET Mutexes] /\ held \in [Threads -> SUBSET Mutexes]
      /\ TypeOK
  BY DEF IndInv, TypeOK, MemoryType, LocalsType
<1>2. ~is_single[t] /\ pc[t] = "lock_set" /\ m \in Mutexes
  BY InOpType DEF LockSet, SafeInv, TokenInv, Local, IndInv, OpLabels, Op
<1>3. CommitAndUpdateMemory(t) /\ UNCHANGED <<sections, fn, ip>> /\ Moves(t, "start")
      /\ held' = [held EXCEPT ![t] = @ \cup {m}]
  BY <1>2 DEF LockSet, MaybeCommit, Moves, history
<1>4. dirty[t] = {}
  BY <1>2 DEF MemInv, DirtyInv, Where, SubLabels, DirtyLabels
<1>5. \A u \in Threads : m \notin held[u]
  BY <1>2 DEF SafeInv, MutexInv
<1>6. \A u \in Threads : m \notin dirty[u]
  BY <1>5, DirtyHeld
<1> HIDE DEF m
<1>7. /\ mem' = mem /\ view'[t] = mem /\ dirty' = dirty
      /\ \A u \in Threads \ {t} : view'[u] = view[u]
  BY <1>1, <1>3, <1>4 DEF CommitAndUpdateMemory
<1>8. /\ pc'[t] \in {"start", "put", "is_lowest"}
      /\ \A u \in Threads \ {t} : pc'[u] = pc[u] /\ ret'[u] = ret[u]
  BY <1>1, <1>3, WhereMoves DEF SubLabels
<1>9. DirtyInv'
  <2>1. \A u \in Threads : CurOp(u)' = CurOp(u)
    BY <1>3 DEF CurOp
  <2> QED
    BY <1>4, <1>7, <1>8, <2>1 DEF MemInv, DirtyInv, Where
<1>10. CommittedInv'
  BY <1>3, <1>7 DEF MemInv, CommittedInv
<1>11. ASSUME NEW u \in Threads, NEW k \in held'[u] PROVE view'[u][k] = sections[k]
  <2>1. CASE u # t
    <3>1. k \in held[u]
      BY <1>1, <1>3, <1>11, <2>1
    <3> QED
      BY <1>7, <2>1, <3>1 DEF MemInv, HolderInv
  <2>2. CASE u = t
    <3>1. k \in Mutexes /\ (k = m \/ k \in held[t])
      BY <1>1, <1>2, <1>3, <1>11, <2>2 DEF m
    <3>2. \A v \in Threads : k \notin dirty[v]
      <4>1. CASE k = m
        BY <1>6, <4>1
      <4>2. CASE k \in held[t]
        BY <1>4, <4>2, DirtyHeld DEF SafeInv, MutexInv, MutualExclusion
      <4> QED
        BY <3>1, <4>1, <4>2
    <3> QED
      BY <1>7, <2>2, <3>1, <3>2 DEF MemInv, CommittedInv
  <2> QED
    BY <2>1, <2>2
<1>12. \A u \in Threads : pc'[u] = "unborn" => held'[u] = {}
  BY <1>1, <1>3, <1>8 DEF MemInv, HolderInv
<1> QED
  BY <1>3, <1>9, <1>10, <1>11, <1>12 DEF MemInv, HolderInv

(* The end of a critical section: the writer holds the mutex, and its copy *)
(* of the data is the newest.                                              *)
LEMMA MutexUnlockMem ==
  ASSUME IndInv, SafeInv, MemInv, NEW t \in Threads, MutexUnlock(t)
  PROVE  MemInv'
<1> DEFINE m == CurOp(t).m
<1>1. /\ mem \in [Mutexes -> Nat] /\ view \in [Threads -> [Mutexes -> Nat]]
      /\ dirty \in [Threads -> SUBSET Mutexes] /\ held \in [Threads -> SUBSET Mutexes]
      /\ pc \in [Threads -> Labels] /\ sections \in [Mutexes -> Nat]
  BY DEF IndInv, TypeOK, MemoryType, LocalsType, FlowType, HistoryType
<1>2. /\ pc[t] = "run" /\ m \in held[t] /\ pc' = [pc EXCEPT ![t] = "unlock_try"]
      /\ UNCHANGED <<ret, fn, ip, held, mem>>
      /\ view'  = [view EXCEPT ![t][m] = @ + 1]
      /\ dirty' = [dirty EXCEPT ![t] = @ \cup {m}]
      /\ sections' = [sections EXCEPT ![m] = @ + 1]
  BY DEF MutexUnlock, CriticalSection, Goto, Calls, locals
<1>3. dirty[t] = {} /\ m \in Mutexes
  BY <1>1, <1>2 DEF MemInv, DirtyInv, Where, SubLabels, DirtyLabels
<1>4. \A u \in Threads : CurOp(u)' = CurOp(u)
  BY <1>2 DEF CurOp
<1>5. \A u \in Threads \ {t} : m \notin held[u]
  BY <1>2 DEF SafeInv, MutexInv, MutualExclusion
<1>6. DirtyInv'
  <2>1. dirty'[t] = {m} /\ \A u \in Threads \ {t} : dirty'[u] = dirty[u] /\ pc'[u] = pc[u]
    BY <1>1, <1>2, <1>3
  <2>2. Where(t)' = "unlock_try"
    BY <1>1, <1>2 DEF Where, SubLabels
  <2>3. \A u \in Threads \ {t} : Where(u)' = Where(u)
    BY <1>2, <2>1 DEF Where
  <2> QED
    BY <1>4, <2>1, <2>2, <2>3 DEF MemInv, DirtyInv, DirtyLabels
<1> HIDE DEF m
<1>7. CommittedInv'
  <2> SUFFICES ASSUME NEW k \in Mutexes, \A u \in Threads : k \notin dirty'[u]
               PROVE  mem'[k] = sections'[k]
    BY DEF CommittedInv
  <2>1. k # m /\ \A u \in Threads : k \notin dirty[u]
    BY <1>1, <1>2
  <2> QED
    BY <1>1, <1>2, <2>1 DEF MemInv, CommittedInv
<1>8. ASSUME NEW u \in Threads, NEW k \in held[u] PROVE view'[u][k] = sections'[k]
  <2>0. view[u][k] = sections[k] /\ k \in Mutexes
    BY <1>1 DEF MemInv, HolderInv
  <2>1. CASE k = m
    <3>1. u = t
      BY <1>5, <2>1
    <3> QED
      BY <1>1, <1>2, <1>3, <2>0, <2>1, <3>1
  <2>2. CASE k # m
    BY <1>1, <1>2, <2>0, <2>2
  <2> QED
    BY <2>1, <2>2
<1>9. \A u \in Threads : pc'[u] = "unborn" => held'[u] = {}
  BY <1>1, <1>2 DEF MemInv, HolderInv
<1> QED
  BY <1>2, <1>6, <1>7, <1>8, <1>9 DEF MemInv, HolderInv

(* MemInv, through every step of mutex_lock and mutex_unlock.              *)
LEMMA MutexStepMem ==
  ASSUME SingleThreadOpt = FALSE, IndInv, SafeInv, MemInv, NEW t \in Threads, MutexStep(t)
  PROVE  MemInv'
<1> USE DEF locals, history, Moves, SubLabels, DirtyLabels
<1>a. /\ pc \in [Threads -> Labels] /\ ret \in [Threads -> Labels]
      /\ held \in [Threads -> SUBSET Mutexes]
  BY DEF IndInv, TypeOK, FlowType, LocalsType
<1>1. CASE MutexLock(t)
  BY <1>1, MemGo DEF MutexLock, Calls
<1>2. CASE LockTry(t)
  BY <1>2, MemGo DEF LockTry
<1>3. CASE LockAcquire(t)
  BY <1>3, MemGo DEF LockAcquire
<1>4. CASE LockFailed(t)
  <2>1. \E l \in {"error", "wl_enqueue"} : Goto(t, l)
    BY <1>4 DEF LockFailed
  <2> QED
    BY <1>4, <2>1, MemGo DEF LockFailed, MaybeCommit
<1>5. CASE WaitOnLockEnqueue(t)
  BY <1>5, MemGo DEF WaitOnLockEnqueue
<1>6. CASE WaitOnLockHalt(t)
  BY <1>6, MemGo DEF WaitOnLockHalt
<1>7. CASE WaitOnLockPut(t)
  BY <1>7, MemGo DEF WaitOnLockPut
<1>8. CASE WaitOnLockSleep(t)
  BY <1>8, MemGo DEF WaitOnLockSleep
<1>9. CASE WaitOnLockAwake(t)
  <2>1. CASE Goto(t, "wl_spin")
    BY <1>9, <2>1, MemGo DEF WaitOnLockAwake
  <2>2. CASE UNCHANGED flow
    BY <1>9, <2>2, MemStay DEF WaitOnLockAwake
  <2> QED
    BY <1>9, <2>1, <2>2 DEF WaitOnLockAwake
<1>10. CASE WaitOnLockReturn(t)
  BY <1>10, MemGo DEF WaitOnLockReturn
<1>11. CASE UnlockTry(t)
  <2>1. /\ pc[t] = "unlock_try" /\ Moves(t, "unlock_commit")
        /\ UNCHANGED <<fn, ip, held, sections, memory>>
    BY <1>11 DEF UnlockTry
  <2>2. /\ pc'[t] \in {"unlock_commit", "put", "is_lowest"} /\ Where(t)' = "unlock_commit"
        /\ \A u \in Threads \ {t} : pc'[u] = pc[u] /\ ret'[u] = ret[u]
    BY <2>1, WhereMoves DEF IndInv
  <2>3. Elsewhere(t) /\ CurOp(t)' = CurOp(t)
    BY <2>1, <2>2 DEF Elsewhere, CurOp
  <2> QED
    BY <2>1, <2>2, <2>3, MemMove
<1>12. CASE UnlockCommit(t)
  <2>1. /\ pc' = [pc EXCEPT ![t] = "unlock_release"] /\ UNCHANGED <<ret, fn, ip, held, sections>>
        /\ CommitAndUpdateMemory(t)
    BY <1>12 DEF UnlockCommit, MaybeCommit, UnlockCommits, SingleActiveThread, Goto
  <2>2. Elsewhere(t) /\ pc'[t] # "unborn"
    BY <1>a, <2>1 DEF Elsewhere
  <2> QED
    BY <2>1, <2>2, MemMove
<1>13. ASSUME NEW newLow \in BOOLEAN, UnlockRelease(t, newLow) PROVE MemInv'
  <2>1. /\ pc[t] = "unlock_release" /\ Goto(t, "signal_waiters")
        /\ UNCHANGED <<fn, ip, sections, memory>>
        /\ held' = [held EXCEPT ![t] = @ \ {CurOp(t).m}]
    BY <1>13 DEF UnlockRelease, LockRelease
  <2>2. held'[t] \subseteq held[t] /\ \A u \in Threads \ {t} : held'[u] = held[u]
    BY <1>a, <2>1
  <2> QED
    BY <2>1, <2>2, MemPlain
<1>14. CASE SignalWaiters(t)
  <2>1. \E l \in {"cw_halt", "start"} : Moves(t, l)
    BY <1>14 DEF SignalWaiters
  <2> QED
    BY <1>14, <2>1, MemGo DEF SignalWaiters
<1> QED
  BY <1>1, <1>2, <1>3, <1>4, <1>5, <1>6, <1>7, <1>8, <1>9, <1>10, <1>11, <1>12, <1>13, <1>14,
     LockSetMem, MutexUnlockMem DEF MutexStep

(* MemInv, through every step of cond_wait, cond_signal and cond_broadcast.*)
LEMMA CondStepMem ==
  ASSUME IndInv, SafeInv, MemInv, NEW t \in Threads, CondStep(t)
  PROVE  MemInv'
<1> USE DEF locals, history, Moves, SubLabels, DirtyLabels
<1>a. /\ pc \in [Threads -> Labels] /\ ret \in [Threads -> Labels]
      /\ held \in [Threads -> SUBSET Mutexes] /\ ip \in [Threads -> Nat \ {0}]
  BY DEF IndInv, TypeOK, FlowType, LocalsType
<1>1. CASE CondWait(t)
  BY <1>1, MemGo DEF CondWait, Calls
<1>2. CASE PredicateHolds(t)
  <2>1. pc[t] = "run" /\ Goto(t, "run") /\ UNCHANGED <<fn, held, sections, memory>>
    BY <1>2, <1>a DEF PredicateHolds, Calls, Goto, flow
  <2>2. \A u \in Threads \ {t} : fn'[u] = fn[u] /\ ip'[u] = ip[u]
    BY <1>2, <1>a DEF PredicateHolds
  <2> QED
    BY <2>1, <2>2, MemPlain
<1>3. CASE CondWaitHalt(t)
  BY <1>3, MemGo DEF CondWaitHalt
<1>4. CASE CondWaitAwake(t)
  BY <1>4, MemStay DEF CondWaitAwake
<1>5. CASE CondWaitReturn(t)
  BY <1>5, MemGo DEF CondWaitReturn
<1>6. CASE CondWaitRelock(t)
  BY <1>6, MemGo DEF CondWaitRelock
<1>7. CASE CondSignal(t)
  BY <1>7, MemGo DEF CondSignal, Calls
<1>8. ASSUME NEW newLow \in BOOLEAN, CondWaitEnqueue(t, newLow) PROVE MemInv'
  <2>1. /\ pc[t] = "cw_enqueue" /\ Goto(t, "signal_waiters") /\ CommitAndUpdateMemory(t)
        /\ UNCHANGED <<fn, ip, sections>> /\ held' = [held EXCEPT ![t] = @ \ {CurOp(t).m}]
    BY <1>8 DEF CondWaitEnqueue, LockRelease
  <2>2. held'[t] \subseteq held[t] /\ \A u \in Threads \ {t} : held'[u] = held[u]
    BY <1>a, <2>1
  <2> QED
    BY <2>1, <2>2, MemPlain
<1>9. ASSUME NEW newLow \in BOOLEAN, CondWake(t, newLow) PROVE MemInv'
  BY <1>9, MemGo DEF CondWake
<1> QED
  BY <1>1, <1>2, <1>3, <1>4, <1>5, <1>6, <1>7, <1>8, <1>9 DEF CondStep

(* get_thread takes an entry whose process, if any, is outside every call. *)
LEMMA SpawnTarget ==
  ASSUME IndInv, NEW t \in Threads, GetThread(t)
  PROVE  \E c \in Threads : /\ pc[c] \in OutLabels
                            /\ fn' = [fn EXCEPT ![c] = CurOp(t).fn] /\ ip' = [ip EXCEPT ![c] = 1]
<1> DEFINE c == IF pool # <<>> THEN Head(pool) ELSE id_counter + 1
<1>1. pc[c] \in OutLabels /\ c \in Threads
  <2>1. pool \in Seq(Threads) /\ id_counter \in Nat /\ PoolInv /\ PoolSize \in Nat
    BY PoolAssumption DEF IndInv, TypeOK, PoolingType
  <2>2. CASE pool # <<>>
    <3>1. 1 \in 1 .. Len(pool) /\ Head(pool) = pool[1] /\ Head(pool) \in Threads
      BY <2>1, <2>2
    <3> QED
      BY <2>1, <2>2, <3>1 DEF PoolInv, OutLabels
  <2>3. CASE pool = <<>>
    <3>1. id_counter + 1 \in Threads /\ id_counter + 1 > id_counter
      BY <2>1, <2>3 DEF GetThread, PoolHasRoom, Threads
    <3> QED
      BY <2>1, <2>3, <3>1 DEF PoolInv, OutLabels
  <2> QED
    BY <2>2, <2>3
<1>2. fn' = [fn EXCEPT ![c] = CurOp(t).fn] /\ ip' = [ip EXCEPT ![c] = 1]
  BY DEF GetThread
<1> QED
  BY <1>1, <1>2

(* MemInv, through every step of spawn and of a new or reused thread.      *)
LEMMA SpawnStepMem ==
  ASSUME IndInv, SafeInv, MemInv, NEW t \in Threads, SpawnStep(t)
  PROVE  MemInv'
<1> USE DEF locals, history, Moves, SubLabels, DirtyLabels
<1>a. /\ pc \in [Threads -> Labels] /\ ret \in [Threads -> Labels]
      /\ fn \in [Threads -> FnNames] /\ ip \in [Threads -> Nat \ {0}]
      /\ held \in [Threads -> SUBSET Mutexes] /\ view \in [Threads -> [Mutexes -> Nat]]
      /\ child \in [Threads -> Threads]
  BY DEF IndInv, TypeOK, FlowType, LocalsType, MemoryType
<1>1. CASE Spawn(t)
  <2>1. \E l \in {"error", "get_thread"} : Moves(t, l)
    BY <1>1 DEF Spawn
  <2> QED
    BY <1>1, <2>1, MemGo DEF Spawn, Calls
<1>2. CASE GetThread(t)
  <2>1. PICK c \in Threads : /\ pc[c] \in OutLabels
                             /\ fn' = [fn EXCEPT ![c] = CurOp(t).fn] /\ ip' = [ip EXCEPT ![c] = 1]
    BY <1>2, SpawnTarget
  <2>2. \A u \in Threads : (fn'[u] = fn[u] /\ ip'[u] = ip[u]) \/ pc[u] \in OutLabels
    BY <1>a, <2>1
  <2>3. /\ Moves(t, "fork") /\ UNCHANGED <<held, sections>> /\ pc[t] = "get_thread"
        /\ CommitAndUpdateMemory(t)
    BY <1>2 DEF GetThread
  <2> QED
    BY <2>2, <2>3, MemPlain
<1>3. CASE PoolExhausted(t)
  BY <1>3, MemGo DEF PoolExhausted
<1>4. CASE Fork(t)
  <2> DEFINE c == child[t]
             fresh == pool_status[c] = "INIT"
  <2>1. /\ pc[t] = "fork" /\ ret' = [ret EXCEPT ![t] = "spawn_done"]
        /\ pc' = [pc EXCEPT ![t] = "is_lowest", ![c] = IF fresh THEN "register" ELSE @]
        /\ UNCHANGED <<fn, ip, held, sections, mem, dirty>>
        /\ view' = [view EXCEPT ![c] = view[t]] \/ UNCHANGED view
        /\ ~fresh => UNCHANGED view
    BY <1>4 DEF Fork
  <2>2. fresh => pc[c] = "unborn"
    BY <1>4 DEF Fork, SafeInv, ForkInv, At
  <2>3. c \in Threads
    BY <1>a
  <2> HIDE DEF c, fresh
  <2>4. dirty[t] = {}
    BY <2>1 DEF MemInv, DirtyInv, Where
  <2>5. pc'[t] = "is_lowest" /\ \A u \in Threads \ {t} :
          /\ ret'[u] = ret[u]
          /\ pc'[u] = pc[u] \/ (pc[u] = "unborn" /\ pc'[u] = "register")
    BY <1>a, <2>1, <2>2, <2>3
  <2>6. \A u \in Threads : view'[u] = view[u] \/ held[u] = {}
    BY <1>a, <2>1, <2>2, <2>3 DEF MemInv, HolderInv
  <2>7. DirtyInv'
    <3>1. \A u \in Threads : CurOp(u)' = CurOp(u)
      BY <2>1 DEF CurOp
    <3> QED
      BY <2>1, <2>4, <2>5, <3>1 DEF MemInv, DirtyInv, Where
  <2>8. CommittedInv'
    BY <2>1 DEF MemInv, CommittedInv
  <2>9. HolderInv'
    <3>1. \A u \in Threads : \A m \in held[u] : view'[u][m] = sections[m]
      BY <2>6 DEF MemInv, HolderInv
    <3>2. \A u \in Threads : pc'[u] = "unborn" => pc[u] = "unborn"
      BY <2>5
    <3> QED
      BY <2>1, <3>1, <3>2 DEF MemInv, HolderInv
  <2> QED
    BY <2>7, <2>8, <2>9 DEF MemInv
<1>5. CASE SpawnDone(t)
  BY <1>5, MemGo DEF SpawnDone
<1>6. CASE Register(t)
  <2>1. /\ pc[t] = "register" /\ Moves(t, "registered") /\ UNCHANGED <<fn, ip, sections, memory>>
        /\ held' = [held EXCEPT ![t] = {}]
    BY <1>6 DEF Register, ResetThread
  <2>2. held'[t] \subseteq held[t] /\ \A u \in Threads \ {t} : held'[u] = held[u]
    BY <1>a, <2>1
  <2> QED
    BY <2>1, <2>2, MemPlain
<1>7. CASE Registered(t)
  BY <1>7, MemGo DEF Registered
<1>8. CASE RunThread(t)
  BY <1>8, MemGo DEF RunThread
<1> QED
  BY <1>1, <1>2, <1>3, <1>4, <1>5, <1>6, <1>7, <1>8 DEF SpawnStep

(* MemInv, through every step of threadDeregister and of xrun::done.       *)
LEMMA ExitStepMem ==
  ASSUME IndInv, SafeInv, MemInv, NEW t \in Threads, ExitStep(t)
  PROVE  MemInv'
<1> USE DEF locals, history, Moves, SubLabels, DirtyLabels
<1>1. CASE ThreadDeregister(t)
  BY <1>1, MemGo DEF ThreadDeregister
<1>2. CASE PoolAdd(t)
  BY <1>2, MemGo DEF PoolAdd
<1>3. CASE Deregister(t)
  BY <1>3, MemGo DEF Deregister, LeaveForGood
<1>4. CASE DeregisterWake(t)
  BY <1>4, MemGo DEF DeregisterWake
<1>5. CASE DeregisterSpin(t)
  BY <1>5, MemGo DEF DeregisterSpin
<1>6. CASE DeregisterRelease(t)
  BY <1>6, MemGo DEF DeregisterRelease, LeaveForGood
<1>7. CASE SetRetval(t)
  BY <1>7, MemGo DEF SetRetval
<1>8. CASE Unpark(t)
  <2>1. \E l \in {"gone", "register"} : Goto(t, l)
    BY <1>8 DEF Unpark
  <2> QED
    BY <1>8, <2>1, MemGo DEF Unpark
<1>9. CASE Done(t)
  BY <1>9, MemGo DEF Done
<1>10. CASE Finalize(t)
  BY <1>10, MemGo DEF Finalize
<1> QED
  BY <1>1, <1>2, <1>3, <1>4, <1>5, <1>6, <1>7, <1>8, <1>9, <1>10 DEF ExitStep

(* MemInv, through every step of join.                                     *)
LEMMA JoinStepMem ==
  ASSUME IndInv, SafeInv, MemInv, NEW t \in Threads, JoinStep(t)
  PROVE  MemInv'
<1> USE DEF locals, history, Moves, SubLabels, DirtyLabels
<1>1. CASE Join(t)
  BY <1>1, MemGo DEF Join, Calls
<1>2. CASE JoinCheck(t)
  <2>1. \E l \in {"join_asleep", "join_woken"} : Goto(t, l)
    BY <1>2 DEF JoinCheck
  <2> QED
    BY <1>2, <2>1, MemGo DEF JoinCheck
<1>3. CASE JoinAwake(t)
  <2>1. CASE Call(t, "is_lowest", "join_woken")
    BY <1>3, <2>1, MemGo DEF JoinAwake
  <2>2. CASE UNCHANGED flow
    BY <1>3, <2>2, MemStay DEF JoinAwake
  <2> QED
    BY <1>3, <2>1, <2>2 DEF JoinAwake
<1>4. CASE JoinWoken(t)
  BY <1>4, MemGo DEF JoinWoken
<1>5. CASE JoinResult(t)
  BY <1>5, MemGo DEF JoinResult
<1> QED
  BY <1>1, <1>2, <1>3, <1>4, <1>5 DEF JoinStep

-----------------------------------------------------------------------------
(***************************************************************************)
(* The invariant and the theorem.                                          *)
(***************************************************************************)

(* Nothing is locked, written or committed when main starts.               *)
LEMMA MemInit ==
  Init => MemInv
BY DEF Init, MemInv, DirtyInv, CommittedInv, HolderInv

(* Nothing MemInv speaks of has changed.                                   *)
LEMMA MemSame ==
  ASSUME MemInv, UNCHANGED <<pc, ret, fn, ip, held, memory, sections>>
  PROVE  MemInv'
<1>1. \A u \in Threads : CurOp(u)' = CurOp(u) /\ Where(u)' = Where(u)
  BY DEF CurOp, Where
<1> QED
  BY <1>1 DEF MemInv, DirtyInv, CommittedInv, HolderInv, memory

(* Every step keeps MemInv.                                                *)
LEMMA MemStep ==
  ASSUME SingleThreadOpt = FALSE, IndInv, SafeInv, MemInv, [Next]_vars
  PROVE  MemInv'
<1>1. ASSUME NEW t \in Threads, ThreadStep(t) PROVE MemInv'
  BY <1>1, GetTokenStepMem, MutexStepMem, CondStepMem, SpawnStepMem, ExitStepMem, JoinStepMem
     DEF ThreadStep
<1>2. ASSUME NEW t \in Threads, SpuriousWakeup(t) PROVE MemInv'
  BY <1>2, MemSame DEF SpuriousWakeup, flow, locals, history
<1>3. CASE UNCHANGED vars
  BY <1>3, MemSame DEF vars, flow, locals, history
<1> QED
  BY <1>1, <1>2, <1>3 DEF Next, Terminated

(* A thread that has a mutex sees what every earlier critical section of   *)
(* it did: no commit and no update is missing, in any program.             *)
THEOREM DataSeen ==
  ASSUME SingleThreadOpt = FALSE PROVE Spec => []SeesProtectedData
<1>1. Init => IndInv /\ SafeInv /\ MemInv
  BY IndInit, SafeInit, MemInit
<1>2. IndInv /\ SafeInv /\ MemInv /\ [Next]_vars => (IndInv /\ SafeInv /\ MemInv)'
  BY IndStep, SafeStep, MemStep
<1>3. MemInv => SeesProtectedData
  BY DEF MemInv, HolderInv, SeesProtectedData
<1> QED
  BY <1>1, <1>2, <1>3, PTL DEF Spec

-----------------------------------------------------------------------------
(***************************************************************************)
(* The logical clock.                                                      *)
(***************************************************************************)

(* Blocked, said with the status words instead of the queues.              *)
Stopped(t) ==
  \/ pc[t] \in {"wl_put", "wl_spin", "wl_asleep", "cw_asleep"} /\ status[t] # "READY"
  \/ pc[t] = "join_asleep"
  \/ pc[t] \in {"unborn", "set_retval", "park"} /\ runs[t] = spawned[t]
  \/ pc[t] = "gone" /\ t # Master

(* Where a thread may have been handed out and not started yet.            *)
PendingLabels == {"unborn", "register", "set_retval", "park"}

(* Where the master never is.                                              *)
PooledLabels == {"unborn", "pool_add", "deregister", "ex_spin", "ex_release", "set_retval", "park"}

(* The life of a thread between the pool's two calls: an entry is handed   *)
(* out at most once before it starts, its status says whether it was, and  *)
(* only the master ends in xrun::done.                                     *)
RunOK(t) ==
  /\ runs[t] = spawned[t] \/ runs[t] + 1 = spawned[t]
  /\ pc[t] = "register" => runs[t] # spawned[t]
  /\ pc[t] = "unborn" => (runs[t] = spawned[t] <=> t > id_counter)
  /\ pc[t] \in {"set_retval", "park"} =>
       /\ pool_status[t] \in {"WAITING", "EXIT", "READY"}
       /\ pool_status[t] = "READY" <=> runs[t] # spawned[t]
  /\ pc[t] \in {"deregister", "ex_spin", "ex_release"} => pool_status[t] \in {"WAITING", "EXIT"}
  /\ pc[t] = "gone" => t = Master \/ pool_status[t] = "EXIT"
  /\ pc[t] \notin PendingLabels => runs[t] = spawned[t]
  /\ t = Master => Where(t) \notin PooledLabels /\ pool_status[t] = "INIT"
  /\ Where(t) = "finalize" => t = Master
  /\ pc[t] \in SubLabels /\ ret[t] = "gone" => t = Master

ActiveOK(t) == t \in active <=> ~Stopped(t)

ClockInv == ~bug_on /\ \A t \in Threads : RunOK(t) /\ ActiveOK(t)

-----------------------------------------------------------------------------
(***************************************************************************)
(* What a step of one thread has to show.                                  *)
(***************************************************************************)

(* The queues and the status words agree on who is blocked.                *)
LEMMA StoppedBlocked ==
  ASSUME IndInv, WaitInv, NEW t \in Threads PROVE Blocked(t) <=> Stopped(t)
<1>1. LockQueueInv /\ CondQueueInv /\ TypeOK /\ FlowOK
  BY DEF IndInv, WaitInv
<1>2. CASE pc[t] \in {"wl_put", "wl_spin", "wl_asleep"}
  <2>1. CurOp(t).m \in Mutexes
    BY <1>1, <1>2, InOpType DEF OpLabels, Op
  <2>2. lockq[CurOp(t).m] \in Seq(Threads)
    BY <1>1, <2>1 DEF TypeOK, SyncsType
  <2>3. DOMAIN lockq[CurOp(t).m] = 1 .. Len(lockq[CurOp(t).m])
    BY <2>2
  <2>4. t \in LockWaiters(CurOp(t).m) => status[t] # "READY"
    BY <1>1, <2>1, <2>3 DEF LockQueueInv, LockWaiters
  <2>5. t \notin LockWaiters(CurOp(t).m) => status[t] = "READY"
    BY <1>1, <1>2 DEF LockQueueInv, QueueLabels
  <2> QED
    BY <1>2, <2>4, <2>5 DEF Blocked, Stopped
<1>3. CASE pc[t] = "cw_asleep"
  <2>1. CurOp(t).c \in Conds
    BY <1>1, <1>3, InOpType DEF OpLabels, Op
  <2>2. condq[CurOp(t).c] \in Seq(Threads)
    BY <1>1, <2>1 DEF TypeOK, SyncsType
  <2>3. DOMAIN condq[CurOp(t).c] = 1 .. Len(condq[CurOp(t).c])
    BY <2>2
  <2>4. t \in CondWaiters(CurOp(t).c) => status[t] # "READY"
    BY <1>1, <2>1, <2>3 DEF CondQueueInv, CondWaiters
  <2>5. t \notin CondWaiters(CurOp(t).c) => status[t] = "READY"
    BY <1>1, <1>3 DEF CondQueueInv, InCondWait
  <2> QED
    BY <1>3, <2>4, <2>5 DEF Blocked, Stopped
<1> QED
  BY <1>2, <1>3 DEF Blocked, Stopped

(* A step of t; others may at most be made active and runnable, and told   *)
(* that the program ends.                                                  *)
LEMMA ClockMove ==
  ASSUME IndInv, ClockInv, NEW t \in Threads, UNCHANGED id_counter, ~bug_on',
         \A u \in Threads \ {t} : /\ pc'[u] = pc[u] /\ ret'[u] = ret[u]
                                  /\ runs'[u] = runs[u] /\ spawned'[u] = spawned[u],
         \A u \in Threads \ {t} : \/ pool_status'[u] = pool_status[u]
                                  \/ pool_status[u] = "WAITING" /\ pool_status'[u] = "EXIT",
         \A u \in Threads \ {t} : \/ /\ u \in active' <=> u \in active
                                     /\ status'[u] = "READY" <=> status[u] = "READY"
                                  \/ u \in active' /\ ~Stopped(u)',
         RunOK(t)', ActiveOK(t)'
  PROVE  ClockInv'
<1> SUFFICES ASSUME NEW u \in Threads, u # t PROVE RunOK(u)' /\ ActiveOK(u)'
  BY DEF ClockInv
<1>1. RunOK(u) /\ ActiveOK(u)
  BY DEF ClockInv
<1>2. /\ pc'[u] = pc[u] /\ ret'[u] = ret[u] /\ runs'[u] = runs[u] /\ spawned'[u] = spawned[u]
      /\ \/ pool_status'[u] = pool_status[u]
         \/ pool_status[u] = "WAITING" /\ pool_status'[u] = "EXIT"
  OBVIOUS
<1>3. Where(u)' = Where(u)
  BY <1>2 DEF Where
<1>4. RunOK(u)'
  BY <1>1, <1>2, <1>3 DEF RunOK
<1>5. ActiveOK(u)'
  BY <1>1, <1>2 DEF ActiveOK, Stopped
<1> QED
  BY <1>4, <1>5

(* Runnable whatever the status words say.                                 *)
GoLabels ==
  Labels \ ({"wl_put", "wl_spin", "wl_asleep", "cw_asleep", "join_asleep", "gone"} \cup PendingLabels)

(* A move of a runnable thread that stays runnable.                        *)
LEMMA ClockGo ==
  ASSUME IndInv, ClockInv, NEW t \in Threads, NEW l, Moves(t, l), l \in GoLabels \ SubLabels,
         UNCHANGED <<active, bug_on, id_counter, pool_status, runs, spawned>>,
         \A u \in Threads \ {t} : status'[u] = "READY" <=> status[u] = "READY",
         \/ pc[t] \in GoLabels
         \/ pc[t] \in {"wl_spin", "wl_asleep", "cw_asleep"} /\ status[t] = "READY",
         l \in {"deregister", "ex_spin", "ex_release"} => pool_status[t] \in {"WAITING", "EXIT"},
         l \in PooledLabels => t # Master,
         l = "finalize" => t = Master
  PROVE  ClockInv'
<1>1. /\ Where(t)' = l
      /\ pc'[t] \in {l, "put", "is_lowest"}
      /\ \A u \in Threads \ {t} : pc'[u] = pc[u] /\ ret'[u] = ret[u]
  BY WhereMoves DEF IndInv
<1>2. RunOK(t) /\ ActiveOK(t) /\ ~bug_on
  BY DEF ClockInv
<1>3. runs[t] = spawned[t]
  BY <1>2 DEF RunOK, GoLabels, PendingLabels
<1>4. t \in active
  BY <1>2 DEF ActiveOK, Stopped, GoLabels, PendingLabels
<1>5. pc'[t] \in GoLabels
  BY <1>1 DEF GoLabels, PendingLabels, Labels
<1>6. ActiveOK(t)'
  BY <1>4, <1>5 DEF ActiveOK, Stopped, GoLabels, PendingLabels
<1>7. RunOK(t)'
  <2>1. pc'[t] \notin PendingLabels \cup {"gone"}
    BY <1>5 DEF GoLabels
  <2>2. pc'[t] \in {"deregister", "ex_spin", "ex_release"} => pool_status[t] \in {"WAITING", "EXIT"}
    BY <1>1
  <2>3. pc'[t] \in SubLabels => ret'[t] = l
    BY <1>1 DEF Where
  <2>4. l # "gone"
    BY DEF GoLabels
  <2> QED
    BY <1>1, <1>2, <1>3, <2>1, <2>2, <2>3, <2>4 DEF RunOK, PendingLabels
<1> QED
  BY <1>1, <1>2, <1>6, <1>7, ClockMove

(* A step inside getToken or putToken, or its return.                      *)
LEMMA ClockSub ==
  ASSUME IndInv, SafeInv, ClockInv, NEW t \in Threads, pc[t] \in SubLabels, NEW l, Goto(t, l),
         l \in SubLabels \/ l = ret[t],
         UNCHANGED <<status, active, bug_on, id_counter, pool_status, runs, spawned>>
  PROVE  ClockInv'
<1>1. pc \in [Threads -> Labels] /\ ret \in [Threads -> Labels]
  BY DEF IndInv, TypeOK, FlowType
<1>2. /\ pc'[t] = l /\ ret'[t] = ret[t]
      /\ \A u \in Threads \ {t} : pc'[u] = pc[u] /\ ret'[u] = ret[u]
  BY <1>1 DEF Goto
<1>3. ret[t] \in WaitRets \cup PutRets
  BY DEF SafeInv, TokenInv, Local, SubLabels, WaitLabels
<1>4. Where(t)' = Where(t)
  BY <1>2, <1>3 DEF Where, SubLabels, WaitRets, PutRets
<1>5. RunOK(t) /\ ActiveOK(t) /\ ~bug_on
  BY DEF ClockInv
<1>6. pc[t] \notin PendingLabels /\ t \in active /\ runs[t] = spawned[t]
  BY <1>5 DEF RunOK, ActiveOK, Stopped, SubLabels, PendingLabels
<1>7. l = "gone" => t = Master
  BY <1>5 DEF RunOK, SubLabels
<1>8. ActiveOK(t)'
  BY <1>2, <1>3, <1>6, <1>7 DEF ActiveOK, Stopped, SubLabels, WaitRets, PutRets
<1>9. l \notin PendingLabels \cup {"deregister", "ex_spin", "ex_release"}
  BY <1>3 DEF PendingLabels, SubLabels, WaitRets, PutRets
<1>10. RunOK(t)'
  BY <1>2, <1>4, <1>5, <1>6, <1>7, <1>9 DEF RunOK, PendingLabels
<1> QED
  BY <1>2, <1>5, <1>8, <1>10, ClockMove

(* A runnable thread leaves the race and stops.                            *)
LEMMA ClockStop ==
  ASSUME IndInv, ClockInv, NEW t \in Threads, NEW l, Goto(t, l), Halt(t), pc[t] \in GoLabels,
         UNCHANGED <<id_counter, pool_status, runs, spawned>>,
         \A u \in Threads \ {t} : status'[u] = "READY" <=> status[u] = "READY",
         \/ l \in {"wl_put", "cw_asleep"} /\ status'[t] # "READY"
         \/ l = "join_asleep"
         \/ l = "set_retval" /\ pc[t] \in {"deregister", "ex_release"}
  PROVE  ClockInv'
<1>1. pc \in [Threads -> Labels] /\ ret \in [Threads -> Labels]
  BY DEF IndInv, TypeOK, FlowType
<1>2. /\ pc'[t] = l /\ ret'[t] = ret[t]
      /\ \A u \in Threads \ {t} : pc'[u] = pc[u] /\ ret'[u] = ret[u]
  BY <1>1 DEF Goto
<1>3. RunOK(t) /\ ActiveOK(t) /\ ~bug_on
  BY DEF ClockInv
<1>4. runs[t] = spawned[t]
  BY <1>3 DEF RunOK, GoLabels
<1>5. t \in active
  BY <1>3 DEF ActiveOK, Stopped, GoLabels, PendingLabels
<1>6. ~bug_on' /\ t \notin active' /\ \A u \in Threads \ {t} : u \in active' <=> u \in active
  BY <1>3, <1>5 DEF Halt
<1>7. ActiveOK(t)'
  BY <1>2, <1>4, <1>6 DEF ActiveOK, Stopped
<1>8. /\ l = "set_retval" => pool_status[t] \in {"WAITING", "EXIT"} /\ t # Master
      /\ Where(t)' = l
  BY <1>2, <1>3 DEF RunOK, Where, SubLabels, PooledLabels
<1>9. RunOK(t)'
  BY <1>2, <1>3, <1>4, <1>8 DEF RunOK, SubLabels, PooledLabels, PendingLabels
<1> QED
  BY <1>2, <1>6, <1>7, <1>9, ClockMove

(* A blocked or released waiter moves, or stays, in its wait.              *)
LEMMA ClockStay ==
  ASSUME IndInv, ClockInv, NEW t \in Threads, NEW l, Goto(t, l),
         UNCHANGED <<active, bug_on, id_counter, pool_status, runs, spawned>>,
         \A u \in Threads : status'[u] = "READY" <=> status[u] = "READY",
         \/ pc[t] \in {"wl_put", "wl_spin", "wl_asleep"} /\ l \in {"wl_put", "wl_spin", "wl_asleep"}
         \/ pc[t] \in {"cw_asleep", "join_asleep"} /\ l = pc[t]
  PROVE  ClockInv'
<1>1. pc \in [Threads -> Labels] /\ ret \in [Threads -> Labels]
  BY DEF IndInv, TypeOK, FlowType
<1>2. /\ pc'[t] = l /\ ret'[t] = ret[t]
      /\ \A u \in Threads \ {t} : pc'[u] = pc[u] /\ ret'[u] = ret[u]
  BY <1>1 DEF Goto
<1>3. RunOK(t) /\ ActiveOK(t) /\ ~bug_on
  BY DEF ClockInv
<1>4. ActiveOK(t)'
  BY <1>2, <1>3 DEF ActiveOK, Stopped
<1>5. Where(t)' = l
  BY <1>2 DEF Where, SubLabels
<1>6. RunOK(t)'
  BY <1>2, <1>3, <1>5 DEF RunOK, SubLabels, PooledLabels, PendingLabels
<1> QED
  BY <1>2, <1>3, <1>4, <1>6, ClockMove

-----------------------------------------------------------------------------
(***************************************************************************)
(* The steps.                                                              *)
(***************************************************************************)

(* ClockInv, through every step of getToken, waitToken, putToken and       *)
(* startClock.                                                             *)
LEMMA GetTokenStepClock ==
  ASSUME IndInv, SafeInv, ClockInv, NEW t \in Threads, GetTokenStep(t)
  PROVE  ClockInv'
<1> USE DEF entries, clock, ClockCall, pooling, history, SubLabels
<1>1. ASSUME NEW low \in BOOLEAN, IsLowest(t, low) PROVE ClockInv'
  BY <1>1, ClockSub DEF IsLowest
<1>2. CASE ReadActivation(t)
  BY <1>2, ClockSub DEF ReadActivation
<1>3. CASE IsLowestWait(t)
  BY <1>3, ClockSub DEF IsLowestWait
<1>4. CASE CompareAndSwap(t)
  BY <1>4, ClockSub DEF CompareAndSwap
<1>5. CASE CheckActivation(t)
  BY <1>5, ClockSub DEF CheckActivation
<1>6. CASE FastForward(t)
  BY <1>6, ClockSub DEF FastForward
<1>7. CASE PutToken(t)
  BY <1>7, ClockSub DEF PutToken
<1>8. CASE StartClock(t)
  BY <1>8, ClockGo DEF StartClock, Moves, GoLabels, Labels, PendingLabels, PooledLabels
<1> QED
  BY <1>1, <1>2, <1>3, <1>4, <1>5, <1>6, <1>7, <1>8 DEF GetTokenStep

(* lock_release puts the first waiter back in the race and makes it READY; *)
(* the second is at most on deck.                                          *)
LEMMA ReleaseClock ==
  ASSUME IndInv, SafeInv, WaitInv, ClockInv, NEW t \in Threads, NEW m, NEW st, NEW newLow,
         Releases(t, m, st, newLow),
         UNCHANGED <<id_counter, pool_status, runs, spawned>>
  PROVE  ClockInv'
<1>1. pc \in [Threads -> Labels] /\ ret \in [Threads -> Labels] /\ active \subseteq Threads
  BY DEF IndInv, TypeOK, FlowType, ClockType
<1>2. /\ pc'[t] = "signal_waiters" /\ ret'[t] = ret[t]
      /\ \A u \in Threads \ {t} : pc'[u] = pc[u] /\ ret'[u] = ret[u]
      /\ pc[t] \in {"unlock_release", "cw_enqueue"}
  BY <1>1 DEF Releases
<1>3. RunOK(t) /\ ActiveOK(t) /\ ~bug_on
  BY DEF ClockInv
<1>4. runs[t] = spawned[t] /\ t \in active
  BY <1>2, <1>3 DEF RunOK, ActiveOK, Stopped, PendingLabels
<1>5. RunOK(t)'
  <2>1. Where(t)' = "signal_waiters"
    BY <1>2 DEF Where, SubLabels
  <2> QED
    BY <1>2, <1>3, <1>4, <2>1 DEF RunOK, SubLabels, PooledLabels, PendingLabels
<1>6. m \in Mutexes /\ lockq[m] \in Seq(Threads)
  BY ReleaseFacts
<1>7. CASE lockq[m] = <<>>
  <2>1. UNCHANGED <<active, bug_on>>
    BY <1>7 DEF Releases, LockRelease, HasWaiters, clock
  <2>2. \A u \in Threads \ {t} : status'[u] = status[u]
    <3>1. \A u \in Threads : status'[u] = st[u]
      BY <1>7, ReleaseFacts
    <3> QED
      BY <3>1 DEF Releases
  <2>3. ActiveOK(t)'
    BY <1>2, <1>4, <2>1 DEF ActiveOK, Stopped
  <2> QED
    BY <1>2, <1>3, <1>5, <2>1, <2>2, <2>3, ClockMove
<1>8. CASE lockq[m] # <<>>
  <2>1. lockq[m][1] = Head(lockq[m]) /\ 1 \in 1 .. Len(lockq[m]) /\ lockq[m][1] \in Threads
    BY <1>6, <1>8
  <2>a. PICK w \in Threads : w = lockq[m][1]
    BY <2>1
  <2>2. active' = active \cup {w} /\ bug_on' = (bug_on \/ {w} \cap active # {})
    BY <1>8, <2>1, <2>a DEF Releases, LockRelease, HasWaiters, ActivateOthers
  <2>3. w \in Threads \ {t} /\ pc[w] \in {"wl_spin", "wl_asleep"}
    BY <1>8, <2>a, ReleaseFacts
  <2>4. status[w] # "READY"
    BY <1>6, <2>1, <2>a DEF WaitInv, LockQueueInv
  <2>5. status'[w] = "READY"
    BY <1>8, <2>a, ReleaseFacts
  <2>6. \A u \in Threads \ {t} : u # w => (status'[u] = "READY" <=> status[u] = "READY")
    BY <2>a, ReleaseOthers
  <2>7. w \notin active
    BY <2>3, <2>4 DEF ClockInv, ActiveOK, Stopped
  <2>8. ~bug_on' /\ t \in active'
    BY <1>3, <1>4, <2>2, <2>7
  <2>9. w \in active' /\ ~Stopped(w)'
    BY <1>2, <2>2, <2>3, <2>5 DEF Stopped
  <2>10. ActiveOK(t)'
    BY <1>2, <2>8 DEF ActiveOK, Stopped
  <2>11. \A u \in Threads \ {t} : u # w => (u \in active' <=> u \in active)
    BY <2>2
  <2>12. \A u \in Threads \ {t} : \/ /\ u \in active' <=> u \in active
                                     /\ status'[u] = "READY" <=> status[u] = "READY"
                                  \/ u \in active' /\ ~Stopped(u)'
    BY <2>6, <2>9, <2>11
  <2> QED
    BY <1>2, <1>5, <2>8, <2>10, <2>12, ClockMove
<1> QED
  BY <1>7, <1>8

(* ClockInv, through every step of mutex_lock and mutex_unlock.            *)
LEMMA MutexStepClock ==
  ASSUME SingleThreadOpt = FALSE, IndInv, SafeInv, WaitInv, ClockInv, NEW t \in Threads, MutexStep(t)
  PROVE  ClockInv'
<1> USE DEF entries, clock, ClockCall, pooling, history, Moves, SubLabels, GoLabels, Labels,
        PendingLabels, PooledLabels
<1>a. /\ pc \in [Threads -> Labels] /\ ret \in [Threads -> Labels]
      /\ status \in [Threads -> Statuses] /\ ~is_single[t]
  BY DEF IndInv, TypeOK, FlowType, EntriesType, SafeInv, TokenInv, Local
<1>1. CASE MutexLock(t)
  BY <1>1, ClockGo DEF MutexLock, Calls
<1>2. CASE LockTry(t)
  BY <1>2, ClockGo DEF LockTry
<1>3. CASE LockAcquire(t)
  BY <1>3, ClockGo DEF LockAcquire
<1>4. CASE LockSet(t)
  BY <1>4, ClockGo DEF LockSet
<1>5. CASE LockFailed(t)
  BY <1>5, <1>a, ClockGo DEF LockFailed
<1>6. CASE WaitOnLockEnqueue(t)
  <2>1. \A u \in Threads \ {t} : status'[u] = status[u]
    BY <1>6, <1>a DEF WaitOnLockEnqueue
  <2> QED
    BY <1>6, <2>1, ClockGo DEF WaitOnLockEnqueue
<1>7. CASE WaitOnLockHalt(t)
  <2>1. status[t] # "READY"
    <3>1. LockQueueInv /\ TypeOK /\ FlowOK /\ pc[t] = "wl_halt"
      BY <1>7 DEF WaitOnLockHalt, WaitInv, IndInv
    <3>2. t \in LockWaiters(CurOp(t).m)
      BY <3>1 DEF LockQueueInv, QueueLabels
    <3>3. CurOp(t).m \in Mutexes
      BY <3>1, InOpType DEF OpLabels, Op
    <3>4. lockq[CurOp(t).m] \in Seq(Threads)
      BY <3>1, <3>3 DEF TypeOK, SyncsType
    <3>5. DOMAIN lockq[CurOp(t).m] = 1 .. Len(lockq[CurOp(t).m])
      BY <3>4
    <3> QED
      BY <3>1, <3>2, <3>3, <3>5 DEF LockQueueInv, LockWaiters
  <2> QED
    BY <1>7, <2>1, ClockStop DEF WaitOnLockHalt
<1>8. CASE WaitOnLockPut(t)
  BY <1>8, ClockStay DEF WaitOnLockPut
<1>9. CASE WaitOnLockSleep(t)
  BY <1>9, ClockStay DEF WaitOnLockSleep
<1>10. CASE WaitOnLockAwake(t)
  <2>1. CASE Goto(t, "wl_spin")
    BY <1>10, <2>1, ClockStay DEF WaitOnLockAwake
  <2>2. CASE UNCHANGED flow
    <3>1. Goto(t, "wl_asleep")
      BY <1>10, <1>a, <2>2 DEF WaitOnLockAwake, flow, Goto
    <3> QED
      BY <1>10, <3>1, ClockStay DEF WaitOnLockAwake
  <2> QED
    BY <1>10, <2>1, <2>2 DEF WaitOnLockAwake
<1>11. CASE WaitOnLockReturn(t)
  BY <1>11, ClockGo DEF WaitOnLockReturn
<1>12. CASE MutexUnlock(t)
  BY <1>12, ClockGo DEF MutexUnlock, Calls, CriticalSection
<1>13. CASE UnlockTry(t)
  BY <1>13, ClockGo DEF UnlockTry
<1>14. CASE UnlockCommit(t)
  BY <1>14, ClockGo DEF UnlockCommit
<1>15. ASSUME NEW newLow \in BOOLEAN, UnlockRelease(t, newLow) PROVE ClockInv'
  <2>1. status[t] \notin {"JOINING", "OTHERS_NEED_TO_WAIT"}
    BY <1>15 DEF UnlockRelease, WaitInv, JoinInv
  <2>2. Releases(t, CurOp(t).m, status, newLow)
    BY <1>15, <1>a, <2>1 DEF UnlockRelease, Releases, Goto
  <2> QED
    BY <1>15, <2>2, ReleaseClock DEF UnlockRelease
<1>16. CASE SignalWaiters(t)
  <2>1. \E l \in {"cw_halt", "start"} : Moves(t, l)
    BY <1>16 DEF SignalWaiters
  <2> QED
    BY <1>16, <2>1, ClockGo DEF SignalWaiters
<1> QED
  BY <1>1, <1>2, <1>3, <1>4, <1>5, <1>6, <1>7, <1>8, <1>9, <1>10, <1>11, <1>12, <1>13, <1>14,
     <1>15, <1>16 DEF MutexStep

(* cond_signal and cond_broadcast put back exactly those they make READY.  *)
LEMMA CondWakeClock ==
  ASSUME IndInv, SafeInv, WaitInv, ClockInv, NEW t \in Threads, NEW newLow \in BOOLEAN,
         CondWake(t, newLow)
  PROVE  ClockInv'
<1> DEFINE c == CurOp(t).c
           q == condq[c]
           n == IF CurOp(t).kind = "signal" THEN 1 ELSE Len(q)
<1>1. /\ pc \in [Threads -> Labels] /\ ret \in [Threads -> Labels] /\ TypeOK /\ FlowOK
      /\ condq \in [Conds -> Seq(Threads)] /\ CondQueueInv
  BY DEF IndInv, TypeOK, FlowType, SyncsType, WaitInv
<1>2. /\ pc[t] = "cond_wake" /\ pc'[t] = "put" /\ ret'[t] = "start"
      /\ \A u \in Threads \ {t} : pc'[u] = pc[u] /\ ret'[u] = ret[u]
      /\ UNCHANGED <<id_counter, pool_status, runs, spawned>>
  BY <1>1 DEF CondWake, Call, pooling, history
<1>3. c \in Conds /\ q \in Seq(Threads)
  BY <1>1, <1>2, InOpType DEF OpLabels, Op
<1>4. CASE q = <<>>
  <2>1. Moves(t, "start") /\ UNCHANGED <<status, active, bug_on>>
    BY <1>4 DEF CondWake, Moves, clock
  <2> QED
    BY <1>2, <2>1, ClockGo DEF GoLabels, Labels, PendingLabels, PooledLabels, SubLabels
<1>5. CASE q # <<>>
  <2>1. PICK woken : woken = {q[i] : i \in 1 .. n}
    OBVIOUS
  <2>2. /\ status' = [u \in Threads |-> IF u \in woken THEN "READY" ELSE status[u]]
        /\ active' = active \cup woken
        /\ bug_on' = (bug_on \/ woken \cap active # {})
    BY <1>5, <2>1 DEF CondWake, ActivateOthers
  <2>3. n \in 1 .. Len(q)
    BY <1>3, <1>5
  <2>4. ASSUME NEW u \in woken
        PROVE  u \in Threads \ {t} /\ pc[u] = "cw_asleep" /\ status[u] # "READY"
    <3>1. PICK i \in 1 .. n : u = q[i]
      BY <2>1
    <3>2. i \in 1 .. Len(q) /\ u \in Threads
      BY <1>3, <2>3, <3>1
    <3>3. InCondWait(condq[c][i]) /\ status[condq[c][i]] = "COND_WAITING"
      BY <1>1, <1>3, <3>2 DEF CondQueueInv
    <3>4. InCondWait(u) /\ status[u] = "COND_WAITING"
      BY <3>1, <3>3 DEF InCondWait, CurOp
    <3>5. u # t
      BY <1>2, <3>4 DEF InCondWait
    <3>6. pc[t] \in SyncLabels
      BY <1>2 DEF SyncLabels, TokenLabels
    <3>7. pc[u] \notin SyncLabels
      BY <3>2, <3>5, <3>6, Alone
    <3> QED
      BY <3>2, <3>4, <3>5, <3>7 DEF InCondWait, SyncLabels, TokenLabels, LoneLabels
  <2>5. RunOK(t) /\ ActiveOK(t) /\ ~bug_on
    BY DEF ClockInv
  <2>6. runs[t] = spawned[t] /\ t \in active
    BY <1>2, <2>5 DEF RunOK, ActiveOK, Stopped, PendingLabels
  <2>7. woken \cap active = {}
    BY <2>4 DEF ClockInv, ActiveOK, Stopped
  <2>8. ~bug_on' /\ t \in active'
    BY <2>2, <2>5, <2>6, <2>7
  <2>9. RunOK(t)'
    <3>1. Where(t)' = "start"
      BY <1>2 DEF Where, SubLabels
    <3> QED
      BY <1>2, <2>5, <2>6, <3>1 DEF RunOK, SubLabels, PooledLabels, PendingLabels
  <2>10. ActiveOK(t)'
    BY <1>2, <2>8 DEF ActiveOK, Stopped
  <2>11. ASSUME NEW u \in Threads \ {t}
         PROVE  \/ /\ u \in active' <=> u \in active
                   /\ status'[u] = "READY" <=> status[u] = "READY"
                \/ u \in active' /\ ~Stopped(u)'
    <3>1. CASE u \in woken
      <4>1. status'[u] = "READY" /\ pc'[u] = "cw_asleep" /\ u \in active'
        BY <1>2, <2>2, <2>4, <3>1
      <4> QED
        BY <4>1 DEF Stopped
    <3>2. CASE u \notin woken
      BY <2>2, <3>2
    <3> QED
      BY <3>1, <3>2
  <2> QED
    BY <1>2, <2>8, <2>9, <2>10, <2>11, ClockMove
<1> QED
  BY <1>4, <1>5

(* ClockInv, through every step of cond_wait, cond_signal and              *)
(* cond_broadcast.                                                         *)
LEMMA CondStepClock ==
  ASSUME IndInv, SafeInv, WaitInv, ClockInv, NEW t \in Threads, CondStep(t)
  PROVE  ClockInv'
<1> USE DEF entries, clock, ClockCall, pooling, history, Moves, SubLabels, GoLabels, Labels,
        PendingLabels, PooledLabels
<1>a. /\ pc \in [Threads -> Labels] /\ ret \in [Threads -> Labels]
      /\ status \in [Threads -> Statuses]
  BY DEF IndInv, TypeOK, FlowType, EntriesType
<1>1. CASE CondWait(t)
  BY <1>1, ClockGo DEF CondWait, Calls
<1>2. CASE PredicateHolds(t)
  <2>1. Goto(t, "run")
    BY <1>2, <1>a DEF PredicateHolds, Calls, Goto, flow
  <2> QED
    BY <1>2, <2>1, ClockGo DEF PredicateHolds, Calls
<1>3. CASE CondWaitHalt(t)
  <2>1. status[t] # "READY"
    <3>1. CondQueueInv /\ TypeOK /\ FlowOK /\ pc[t] = "cw_halt"
      BY <1>3 DEF CondWaitHalt, WaitInv, IndInv
    <3>2. t \in CondWaiters(CurOp(t).c)
      BY <3>1 DEF CondQueueInv, InCondWait
    <3>3. CurOp(t).c \in Conds
      BY <3>1, InOpType DEF OpLabels, Op
    <3>4. condq[CurOp(t).c] \in Seq(Threads)
      BY <3>1, <3>3 DEF TypeOK, SyncsType
    <3>5. DOMAIN condq[CurOp(t).c] = 1 .. Len(condq[CurOp(t).c])
      BY <3>4
    <3> QED
      BY <3>1, <3>2, <3>3, <3>5 DEF CondQueueInv, CondWaiters
  <2> QED
    BY <1>3, <2>1, ClockStop DEF CondWaitHalt
<1>4. CASE CondWaitAwake(t)
  <2>1. Goto(t, "cw_asleep")
    BY <1>4, <1>a DEF CondWaitAwake, flow, Goto
  <2> QED
    BY <1>4, <2>1, ClockStay DEF CondWaitAwake
<1>5. CASE CondWaitReturn(t)
  BY <1>5, ClockGo DEF CondWaitReturn
<1>6. CASE CondWaitRelock(t)
  BY <1>6, ClockGo DEF CondWaitRelock
<1>7. CASE CondSignal(t)
  BY <1>7, ClockGo DEF CondSignal, Calls
<1>8. ASSUME NEW newLow \in BOOLEAN, CondWaitEnqueue(t, newLow) PROVE ClockInv'
  <2>1. [status EXCEPT ![t] = "COND_WAITING"] \in [Threads -> Statuses]
    BY <1>a, StatusFacts
  <2>2. Releases(t, CurOp(t).m, [status EXCEPT ![t] = "COND_WAITING"], newLow)
    BY <1>8, <1>a, <2>1 DEF CondWaitEnqueue, Releases, Goto
  <2> QED
    BY <1>8, <2>2, ReleaseClock DEF CondWaitEnqueue
<1> QED
  BY <1>1, <1>2, <1>3, <1>4, <1>5, <1>6, <1>7, <1>8, CondWakeClock DEF CondStep

(* ThreadPool::get_thread hands out an entry whose thread is blocked, and  *)
(* makes it active.                                                        *)
LEMMA GetThreadClock ==
  ASSUME IndInv, SafeInv, ClockInv, NEW t \in Threads, GetThread(t)
  PROVE  ClockInv'
<1>1. /\ pc \in [Threads -> Labels] /\ ret \in [Threads -> Labels] /\ pool \in Seq(Threads)
      /\ id_counter \in Nat /\ spawned \in [Threads -> Nat] /\ runs \in [Threads -> Nat]
      /\ pool_status \in [Threads -> PoolStatuses] /\ PoolInv /\ PoolSize \in Nat
  BY PoolAssumption DEF IndInv, TypeOK, FlowType, PoolingType, HistoryType
<1>2. PICK c : c = IF pool # <<>> THEN Head(pool) ELSE id_counter + 1
  OBVIOUS
<1>3. /\ pc[t] = "get_thread" /\ PoolHasRoom /\ ~master_finished
      /\ IF pool # <<>> THEN UNCHANGED id_counter ELSE id_counter' = id_counter + 1
      /\ active' = active \cup {c} /\ bug_on' = (bug_on \/ {c} \cap active # {})
      /\ pool_status' = [pool_status EXCEPT ![c] = IF @ = "WAITING" THEN "READY" ELSE "INIT"]
      /\ spawned' = [spawned EXCEPT ![c] = @ + 1]
      /\ pc' = [pc EXCEPT ![t] = "put"] /\ ret' = [ret EXCEPT ![t] = "fork"]
      /\ UNCHANGED <<status, runs>>
  BY <1>2 DEF GetThread, ActivateOthers, Call, entries
<1>4. RunOK(t) /\ ActiveOK(t) /\ ~bug_on
  BY DEF ClockInv
<1>5. pc[t] \in SyncLabels
  BY <1>3 DEF SyncLabels, TokenLabels
<1>6. /\ c \in Threads /\ c # t /\ c # Master /\ runs[c] = spawned[c] /\ Stopped(c)
      /\ \/ pc[c] = "unborn" /\ pool = <<>> /\ c = id_counter + 1
         \/ pc[c] \in {"set_retval", "park"} /\ pool_status[c] = "WAITING" /\ pool # <<>>
  <2>1. CASE pool # <<>>
    <3>1. 1 \in 1 .. Len(pool) /\ c = pool[1] /\ c \in Threads
      BY <1>1, <1>2, <2>1
    <3>2. pc[c] \in PoolLabels
      BY <1>1, <3>1 DEF PoolInv
    <3>3. pool_status[c] = "WAITING"
      BY <1>3, <3>1 DEF SafeInv, ForkInv
    <3>4. c # t
      BY <1>3, <3>2 DEF PoolLabels
    <3>5. pc[c] \notin SyncLabels
      BY <1>5, <3>1, <3>4, Alone
    <3>6. RunOK(c)
      BY <3>1 DEF ClockInv
    <3>7. c # Master /\ pc[c] \in {"set_retval", "park"}
      BY <3>2, <3>3, <3>5, <3>6 DEF RunOK, PoolLabels, SyncLabels, TokenLabels
    <3>8. runs[c] = spawned[c]
      BY <3>3, <3>6, <3>7 DEF RunOK
    <3> QED
      BY <2>1, <3>1, <3>3, <3>4, <3>7, <3>8 DEF Stopped
  <2>2. CASE pool = <<>>
    <3>1. c = id_counter + 1 /\ c \in Threads /\ c > id_counter /\ c # Master
      BY <1>1, <1>2, <1>3, <2>2 DEF PoolHasRoom, Threads, Master
    <3>2. pc[c] = "unborn"
      BY <1>1, <3>1 DEF PoolInv
    <3>3. RunOK(c)
      BY <3>1 DEF ClockInv
    <3>4. runs[c] = spawned[c]
      BY <3>1, <3>2, <3>3 DEF RunOK
    <3> QED
      BY <1>3, <2>2, <3>1, <3>2, <3>4 DEF Stopped
  <2> QED
    BY <2>1, <2>2
<1>7. ~bug_on'
  BY <1>3, <1>4, <1>6 DEF ClockInv, ActiveOK
<1>8. RunOK(t)' /\ ActiveOK(t)'
  <2>1. /\ pc'[t] = "put" /\ ret'[t] = "fork" /\ runs'[t] = runs[t] /\ spawned'[t] = spawned[t]
        /\ pool_status'[t] = pool_status[t] /\ t \in active' <=> t \in active
    BY <1>1, <1>3, <1>6
  <2>2. Where(t)' = "fork" /\ runs[t] = spawned[t] /\ t \in active
    BY <1>3, <1>4, <2>1 DEF Where, SubLabels, RunOK, PendingLabels, ActiveOK, Stopped
  <2> QED
    BY <1>4, <2>1, <2>2 DEF RunOK, ActiveOK, Stopped, PooledLabels, PendingLabels
<1>9. RunOK(c)' /\ ActiveOK(c)'
  <2>1. /\ pc'[c] = pc[c] /\ ret'[c] = ret[c] /\ runs'[c] = runs[c] /\ spawned'[c] = spawned[c] + 1
        /\ c \in active' /\ runs[c] \in Nat
        /\ pool_status'[c] = IF pool_status[c] = "WAITING" THEN "READY" ELSE "INIT"
    BY <1>1, <1>3, <1>6
  <2>2. runs'[c] # spawned'[c] /\ runs'[c] + 1 = spawned'[c]
    BY <1>6, <2>1
  <2>3. ~Stopped(c)'
    BY <1>6, <2>1, <2>2 DEF Stopped
  <2>4. pc[c] = "unborn" => ~(c > id_counter')
    BY <1>1, <1>3, <1>6
  <2>5. Where(c)' = pc[c] /\ pc[c] \notin SubLabels
    BY <1>6, <2>1 DEF Where, SubLabels
  <2> QED
    BY <1>6, <2>1, <2>2, <2>3, <2>4, <2>5 DEF RunOK, ActiveOK, PendingLabels
<1>10. ASSUME NEW u \in Threads, u # t, u # c PROVE RunOK(u)' /\ ActiveOK(u)'
  <2>1. /\ pc'[u] = pc[u] /\ ret'[u] = ret[u] /\ runs'[u] = runs[u] /\ spawned'[u] = spawned[u]
        /\ u \in active' <=> u \in active
        /\ pool_status'[u] = pool_status[u] /\ status'[u] = status[u]
    BY <1>1, <1>3, <1>6, <1>10
  <2>2. u > id_counter' <=> u > id_counter
    <3>1. u \in Int
      BY <1>1 DEF Threads
    <3>2. id_counter' = id_counter \/ (id_counter' = id_counter + 1 /\ u # id_counter + 1)
      BY <1>2, <1>3, <1>10
    <3> QED
      BY <1>1, <3>1, <3>2
  <2>3. Where(u)' = Where(u)
    BY <2>1 DEF Where
  <2>4. RunOK(u) /\ ActiveOK(u)
    BY DEF ClockInv
  <2>5. RunOK(u)'
    BY <2>1, <2>2, <2>3, <2>4 DEF RunOK
  <2> QED
    BY <2>1, <2>4, <2>5 DEF ActiveOK, Stopped
<1> QED
  BY <1>7, <1>8, <1>9, <1>10 DEF ClockInv

(* forkSpawn starts the process of an entry that was handed out, once.     *)
LEMMA ForkClock ==
  ASSUME IndInv, SafeInv, ClockInv, NEW t \in Threads, Fork(t)
  PROVE  ClockInv'
<1>1. /\ pc \in [Threads -> Labels] /\ ret \in [Threads -> Labels] /\ child \in [Threads -> Threads]
      /\ id_counter \in Nat /\ PoolInv
  BY DEF IndInv, TypeOK, FlowType, LocalsType, PoolingType
<1>2. PICK c \in Threads : c = child[t]
  BY <1>1
<1>3. /\ pc[t] = "fork" /\ ret' = [ret EXCEPT ![t] = "spawn_done"]
      /\ pc' = [pc EXCEPT ![t] = "is_lowest", ![c] = IF pool_status[c] = "INIT" THEN "register" ELSE @]
      /\ UNCHANGED <<status, active, bug_on, id_counter, pool_status, runs, spawned>>
  BY <1>2 DEF Fork, entries, pooling, history
<1>4. pool_status[c] = "INIT" => pc[c] = "unborn"
  BY <1>2, <1>3 DEF SafeInv, ForkInv, At
<1>5. \A u \in Threads : RunOK(u) /\ ActiveOK(u)
  BY DEF ClockInv
<1>6. RunOK(t)' /\ ActiveOK(t)'
  <2>1. pc'[t] = "is_lowest" /\ ret'[t] = "spawn_done"
    BY <1>1, <1>3, <1>4
  <2>2. Where(t)' = "spawn_done" /\ runs[t] = spawned[t] /\ t \in active
    BY <1>3, <1>5, <2>1 DEF Where, SubLabels, RunOK, PendingLabels, ActiveOK, Stopped
  <2> QED
    BY <1>3, <1>5, <2>1, <2>2 DEF RunOK, ActiveOK, Stopped, PooledLabels, PendingLabels
<1>7. ASSUME NEW u \in Threads, u # t PROVE RunOK(u)' /\ ActiveOK(u)'
  <2>1. ret'[u] = ret[u]
    BY <1>1, <1>3, <1>7
  <2>2. CASE u = c /\ pool_status[c] = "INIT"
    <3>1. pc[u] = "unborn" /\ pc'[u] = "register"
      BY <1>1, <1>3, <1>4, <1>7, <2>2
    <3>2. ~(u > id_counter)
      BY <1>1, <1>2, <2>2 DEF PoolInv, Threads
    <3>3. runs[u] # spawned[u]
      BY <1>5, <3>1, <3>2 DEF RunOK
    <3>4. u # Master
      BY <1>5, <3>1 DEF RunOK, Where, SubLabels, PooledLabels
    <3>5. u \in active
      BY <1>5, <3>1, <3>3 DEF ActiveOK, Stopped
    <3>6. Where(u)' = "register"
      BY <3>1 DEF Where, SubLabels
    <3> QED
      BY <1>3, <1>5, <3>1, <3>3, <3>4, <3>5, <3>6 DEF RunOK, ActiveOK, Stopped, SubLabels,
         PendingLabels
  <2>3. CASE ~(u = c /\ pool_status[c] = "INIT")
    <3>1. pc'[u] = pc[u]
      BY <1>1, <1>3, <1>7, <2>3
    <3>2. Where(u)' = Where(u)
      BY <2>1, <3>1 DEF Where
    <3>3. RunOK(u)'
      BY <1>3, <1>5, <2>1, <3>1, <3>2 DEF RunOK
    <3> QED
      BY <1>3, <1>5, <3>1, <3>3 DEF ActiveOK, Stopped
  <2> QED
    BY <2>2, <2>3
<1> QED
  BY <1>3, <1>6, <1>7 DEF ClockInv

(* ClockInv, through every step of spawn and of a new or reused thread.    *)
LEMMA SpawnStepClock ==
  ASSUME IndInv, SafeInv, ClockInv, NEW t \in Threads, SpawnStep(t)
  PROVE  ClockInv'
<1> USE DEF entries, clock, ClockCall, pooling, history, Moves, SubLabels, GoLabels, Labels,
        PendingLabels, PooledLabels
<1>1. CASE Spawn(t)
  <2>1. \E l \in {"error", "get_thread"} : Moves(t, l)
    BY <1>1 DEF Spawn
  <2> QED
    BY <1>1, <2>1, ClockGo DEF Spawn, Calls
<1>2. CASE PoolExhausted(t)
  BY <1>2, ClockGo DEF PoolExhausted
<1>3. CASE SpawnDone(t)
  BY <1>3, ClockGo DEF SpawnDone
<1>4. CASE Register(t)
  <2>1. /\ runs \in [Threads -> Nat] /\ spawned \in [Threads -> Nat] /\ status \in [Threads -> Statuses]
        /\ TypeOK
    BY DEF IndInv, TypeOK, HistoryType, EntriesType
  <2>2. /\ pc[t] = "register" /\ Moves(t, "registered")
        /\ runs' = [runs EXCEPT ![t] = @ + 1] /\ status' = [status EXCEPT ![t] = "READY"]
        /\ UNCHANGED <<id_counter, pool_status, spawned, active, bug_on>>
    BY <1>4 DEF Register
  <2>3. /\ Where(t)' = "registered" /\ pc'[t] \in {"registered", "put", "is_lowest"}
        /\ \A u \in Threads \ {t} : pc'[u] = pc[u] /\ ret'[u] = ret[u]
    BY <2>1, <2>2, WhereMoves
  <2>4. RunOK(t) /\ ActiveOK(t) /\ ~bug_on
    BY DEF ClockInv
  <2>5. runs'[t] = spawned[t]
    BY <2>1, <2>2, <2>4 DEF RunOK
  <2>6. t \in active
    BY <2>2, <2>4 DEF ActiveOK, Stopped
  <2>7. ActiveOK(t)'
    BY <2>2, <2>3, <2>6 DEF ActiveOK, Stopped
  <2>8. RunOK(t)'
    <3>1. pc'[t] \in SubLabels => ret'[t] = "registered"
      BY <2>3 DEF Where
    <3>2. t = Master => pool_status[t] = "INIT"
      BY <2>4 DEF RunOK
    <3> QED
      BY <2>2, <2>3, <2>5, <3>1, <3>2 DEF RunOK
  <2>9. \A u \in Threads \ {t} : runs'[u] = runs[u] /\ status'[u] = status[u]
    BY <2>1, <2>2
  <2> QED
    BY <2>2, <2>3, <2>4, <2>7, <2>8, <2>9, ClockMove
<1>5. CASE Registered(t)
  BY <1>5, ClockGo DEF Registered
<1>6. CASE RunThread(t)
  BY <1>6, ClockGo DEF RunThread
<1> QED
  BY <1>1, <1>2, <1>3, <1>4, <1>5, <1>6, GetThreadClock, ForkClock DEF SpawnStep

(* ClockInv, through every step of threadDeregister and of xrun::done.     *)
LEMMA ExitStepClock ==
  ASSUME IndInv, SafeInv, WaitInv, ClockInv, NEW t \in Threads, ExitStep(t)
  PROVE  ClockInv'
<1> USE DEF entries, clock, ClockCall, pooling, history, Moves, SubLabels, GoLabels, Labels,
        PendingLabels, PooledLabels
<1>a. /\ pc \in [Threads -> Labels] /\ ret \in [Threads -> Labels]
      /\ status \in [Threads -> Statuses] /\ pool_status \in [Threads -> PoolStatuses]
      /\ tid_parent \in [Threads -> Threads]
  BY DEF IndInv, TypeOK, FlowType, EntriesType, PoolingType
<1>b. RunOK(t) /\ ActiveOK(t) /\ ~bug_on
  BY DEF ClockInv
<1>1. CASE ThreadDeregister(t)
  BY <1>1, ClockGo DEF ThreadDeregister
<1>2. CASE PoolAdd(t)
  <2>1. /\ pc[t] = "pool_add" /\ pc' = [pc EXCEPT ![t] = "deregister"] /\ pool_status'[t] \in {"WAITING", "EXIT"}
        /\ \A u \in Threads \ {t} : pool_status'[u] = pool_status[u]
        /\ UNCHANGED <<ret, status, active, bug_on, id_counter, runs, spawned>>
    BY <1>2, <1>a DEF PoolAdd, Goto
  <2>2. pc'[t] = "deregister" /\ \A u \in Threads \ {t} : pc'[u] = pc[u]
    BY <1>a, <2>1
  <2>3. runs[t] = spawned[t] /\ t \in active /\ t # Master
    BY <1>b, <2>1 DEF RunOK, ActiveOK, Stopped, Where
  <2>4. ActiveOK(t)'
    BY <2>1, <2>2, <2>3 DEF ActiveOK, Stopped
  <2>5. RunOK(t)'
    BY <2>1, <2>2, <2>3 DEF RunOK, Where
  <2> QED
    BY <1>b, <2>1, <2>2, <2>4, <2>5, ClockMove
<1>3. CASE Deregister(t)
  <2>1. \A u \in Threads \ {t} : status'[u] = status[u]
    BY <1>3, <1>a DEF Deregister
  <2> QED
    BY <1>3, <2>1, ClockStop DEF Deregister, LeaveForGood
<1>4. CASE DeregisterWake(t)
  <2>1. \A u \in Threads \ {t} : status'[u] = "READY" <=> status[u] = "READY"
    <3>1. /\ status' = [status EXCEPT ![t] = "EXIT", ![tid_parent[t]] = "OTHERS_NEED_TO_WAIT"]
          /\ status[tid_parent[t]] = "JOINING"
      BY <1>4 DEF DeregisterWake, ParentJoins
    <3> QED
      BY <1>a, <3>1
  <2>2. pool_status[t] \in {"WAITING", "EXIT"} /\ t # Master
    BY <1>4, <1>b DEF DeregisterWake, RunOK, Where
  <2>3. /\ pc[t] = "deregister" /\ Goto(t, "ex_spin")
        /\ UNCHANGED <<active, bug_on, id_counter, pool_status, runs, spawned>>
    BY <1>4 DEF DeregisterWake
  <2> QED
    BY <2>1, <2>2, <2>3, ClockGo
<1>5. CASE DeregisterSpin(t)
  <2>1. pool_status[t] \in {"WAITING", "EXIT"} /\ t # Master
    BY <1>5, <1>b DEF DeregisterSpin, RunOK, Where
  <2> QED
    BY <1>5, <2>1, ClockGo DEF DeregisterSpin
<1>6. CASE DeregisterRelease(t)
  BY <1>6, ClockStop DEF DeregisterRelease, LeaveForGood
<1>7. CASE SetRetval(t)
  <2>1. /\ pc[t] = "set_retval" /\ pc' = [pc EXCEPT ![t] = "park"]
        /\ UNCHANGED <<ret, status, active, bug_on, id_counter, pool_status, runs, spawned>>
    BY <1>7 DEF SetRetval, Goto
  <2>2. pc'[t] = "park" /\ \A u \in Threads \ {t} : pc'[u] = pc[u]
    BY <1>a, <2>1
  <2>3. ActiveOK(t)'
    BY <1>b, <2>1, <2>2 DEF ActiveOK, Stopped
  <2>4. RunOK(t)'
    BY <1>b, <2>1, <2>2 DEF RunOK, Where
  <2> QED
    BY <1>b, <2>1, <2>2, <2>3, <2>4, ClockMove
<1>8. CASE Unpark(t)
  <2>1. /\ pc[t] = "park" /\ pool_status[t] # "WAITING"
        /\ pc' = [pc EXCEPT ![t] = IF pool_status[t] = "EXIT" THEN "gone" ELSE "register"]
        /\ UNCHANGED <<ret, status, active, bug_on, id_counter, pool_status, runs, spawned>>
    BY <1>8 DEF Unpark, Goto
  <2>2. /\ pc'[t] = IF pool_status[t] = "EXIT" THEN "gone" ELSE "register"
        /\ \A u \in Threads \ {t} : pc'[u] = pc[u]
    BY <1>a, <2>1
  <2>3. t # Master /\ pool_status[t] \in {"EXIT", "READY"}
        /\ (pool_status[t] = "READY" <=> runs[t] # spawned[t])
    BY <1>b, <2>1 DEF RunOK, Where
  <2>4. ActiveOK(t)'
    BY <1>b, <2>1, <2>2, <2>3 DEF ActiveOK, Stopped
  <2>5. RunOK(t)'
    BY <1>b, <2>1, <2>2, <2>3 DEF RunOK, Where
  <2> QED
    BY <1>b, <2>1, <2>2, <2>4, <2>5, ClockMove
<1>9. CASE Done(t)
  BY <1>9, ClockGo DEF Done
<1>10. CASE Finalize(t)
  <2>1. /\ pc[t] = "finalize" /\ pc' = [pc EXCEPT ![t] = "put"] /\ ret' = [ret EXCEPT ![t] = "gone"]
        /\ pool_status' = [u \in Threads |-> IF pool_status[u] = "WAITING" THEN "EXIT" ELSE pool_status[u]]
        /\ UNCHANGED <<status, active, bug_on, id_counter, runs, spawned>>
    BY <1>10 DEF Finalize, Call
  <2>2. /\ pc'[t] = "put" /\ ret'[t] = "gone"
        /\ \A u \in Threads \ {t} : pc'[u] = pc[u] /\ ret'[u] = ret[u]
    BY <1>a, <2>1
  <2>3. t = Master /\ pool_status'[t] = "INIT" /\ runs[t] = spawned[t] /\ t \in active
    BY <1>b, <2>1 DEF RunOK, ActiveOK, Stopped, Where
  <2>4. ActiveOK(t)'
    BY <2>1, <2>2, <2>3 DEF ActiveOK, Stopped
  <2>5. RunOK(t)'
    BY <2>1, <2>2, <2>3 DEF RunOK, Where
  <2>6. \A u \in Threads : \/ pool_status'[u] = pool_status[u]
                           \/ pool_status[u] = "WAITING" /\ pool_status'[u] = "EXIT"
    BY <2>1
  <2> QED
    BY <1>b, <2>1, <2>2, <2>4, <2>5, <2>6, ClockMove
<1> QED
  BY <1>1, <1>2, <1>3, <1>4, <1>5, <1>6, <1>7, <1>8, <1>9, <1>10 DEF ExitStep

(* ClockInv, through every step of join.                                   *)
LEMMA JoinStepClock ==
  ASSUME IndInv, SafeInv, WaitInv, ClockInv, NEW t \in Threads, JoinStep(t)
  PROVE  ClockInv'
<1> USE DEF entries, clock, ClockCall, pooling, history, Moves, SubLabels, GoLabels, Labels,
        PendingLabels, PooledLabels
<1>a. /\ pc \in [Threads -> Labels] /\ ret \in [Threads -> Labels] /\ TypeOK
      /\ status \in [Threads -> Statuses]
  BY DEF IndInv, TypeOK, FlowType, EntriesType
<1>b. RunOK(t) /\ ActiveOK(t) /\ ~bug_on
  BY DEF ClockInv
<1>1. CASE Join(t)
  BY <1>1, ClockGo DEF Join, Calls
<1>2. CASE JoinCheck(t)
  <2>1. \A u \in Threads \ {t} : status'[u] = status[u]
    BY <1>2, <1>a DEF JoinCheck
  <2>2. CASE Halt(t) /\ Goto(t, "join_asleep")
    BY <1>2, <2>1, <2>2, ClockStop DEF JoinCheck
  <2>3. CASE Goto(t, "join_woken") /\ UNCHANGED clock
    BY <1>2, <2>1, <2>3, ClockGo DEF JoinCheck
  <2> QED
    BY <1>2, <2>2, <2>3 DEF JoinCheck
<1>3. CASE JoinAwake(t)
  <2>1. \A u \in Threads \ {t} : status'[u] = status[u]
    BY <1>3, <1>a DEF JoinAwake
  <2>2. CASE UNCHANGED <<flow, clock>> /\ status'[t] = "JOINING"
    <3>1. Goto(t, "join_asleep")
      BY <1>3, <1>a, <2>2 DEF JoinAwake, flow, Goto
    <3>2. status[t] # "READY"
      BY <1>3 DEF JoinAwake, WaitInv, JoinInv
    <3> QED
      BY <1>3, <2>1, <2>2, <3>1, <3>2, ClockStay DEF JoinAwake
  <2>3. CASE ActivateSelf(t) /\ Call(t, "is_lowest", "join_woken")
    <3>1. /\ pc[t] = "join_asleep" /\ pc'[t] = "is_lowest" /\ ret'[t] = "join_woken"
          /\ \A u \in Threads \ {t} : pc'[u] = pc[u] /\ ret'[u] = ret[u]
          /\ UNCHANGED <<id_counter, pool_status, runs, spawned>>
      BY <1>3, <1>a, <2>3 DEF JoinAwake, Call
    <3>2. t \notin active /\ runs[t] = spawned[t]
      BY <1>b, <3>1 DEF ActiveOK, Stopped, RunOK
    <3>3. ~bug_on' /\ t \in active' /\ \A u \in Threads \ {t} : u \in active' <=> u \in active
      BY <1>b, <2>3, <3>2 DEF ActivateSelf
    <3>4. ActiveOK(t)'
      BY <3>1, <3>3 DEF ActiveOK, Stopped
    <3>5. RunOK(t)'
      BY <1>b, <3>1, <3>2 DEF RunOK, Where
    <3> QED
      BY <2>1, <3>1, <3>3, <3>4, <3>5, ClockMove
  <2> QED
    BY <1>3, <1>a, <2>2, <2>3 DEF JoinAwake
<1>4. CASE JoinWoken(t)
  BY <1>4, ClockGo DEF JoinWoken
<1>5. CASE JoinResult(t)
  BY <1>5, ClockGo DEF JoinResult
<1> QED
  BY <1>1, <1>2, <1>3, <1>4, <1>5 DEF JoinStep

-----------------------------------------------------------------------------
(***************************************************************************)
(* The invariant and the theorems.                                         *)
(***************************************************************************)

(* Only the master runs, and is active, when main starts.                  *)
LEMMA ClockInit ==
  Init => ClockInv
<1> SUFFICES ASSUME Init PROVE ClockInv
  OBVIOUS
<1>1. ASSUME NEW t \in Threads PROVE RunOK(t) /\ ActiveOK(t)
  <2>1. /\ pc[t] = (IF t = Master THEN "run" ELSE "unborn") /\ runs[t] = 0 /\ spawned[t] = 0
        /\ pool_status[t] = "INIT" /\ active = {Master} /\ id_counter = 0
    BY DEF Init
  <2>2. t # Master => t > id_counter
    BY <2>1 DEF Threads, Master
  <2>3. Where(t) = pc[t] /\ pc[t] \notin SubLabels
    BY <2>1 DEF Where, SubLabels
  <2>4. RunOK(t)
    BY <2>1, <2>2, <2>3 DEF RunOK, PooledLabels, PendingLabels
  <2> QED
    BY <2>1, <2>4 DEF ActiveOK, Stopped
<1> QED
  BY <1>1 DEF Init, ClockInv

(* Nothing ClockInv speaks of has changed.                                 *)
LEMMA ClockSame ==
  ASSUME ClockInv, UNCHANGED <<pc, ret, status, active, bug_on, id_counter, pool_status, runs, spawned>>
  PROVE  ClockInv'
BY DEF ClockInv, RunOK, ActiveOK, Stopped, Where

(* Every step keeps ClockInv.                                              *)
LEMMA ClockStep ==
  ASSUME SingleThreadOpt = FALSE, IndInv, SafeInv, WaitInv, ClockInv, [Next]_vars
  PROVE  ClockInv'
<1>1. ASSUME NEW t \in Threads, ThreadStep(t) PROVE ClockInv'
  BY <1>1, GetTokenStepClock, MutexStepClock, CondStepClock, SpawnStepClock, ExitStepClock,
     JoinStepClock DEF ThreadStep
<1>2. ASSUME NEW t \in Threads, SpuriousWakeup(t) PROVE ClockInv'
  BY <1>2, ClockSame DEF SpuriousWakeup, flow, clock, pooling, history
<1>3. CASE UNCHANGED vars
  BY <1>3, ClockSame DEF vars, flow, entries, clock, pooling, history
<1> QED
  BY <1>1, <1>2, <1>3 DEF Next, Terminated

(* ClockInv is an invariant: who is blocked is settled by WaitInv, and     *)
(* that nobody is handed out while it still runs by SafeInv, because       *)
(* spawn and exit both need the token.                                     *)
LEMMA ClockAlways ==
  ASSUME SingleThreadOpt = FALSE PROVE Spec => [](IndInv /\ WaitInv /\ ClockInv)
<1>1. Init => IndInv /\ SafeInv /\ WaitInv /\ ClockInv
  BY IndInit, SafeInit, WaitInit, ClockInit
<1>2. IndInv /\ SafeInv /\ WaitInv /\ ClockInv /\ [Next]_vars
        => (IndInv /\ SafeInv /\ WaitInv /\ ClockInv)'
  BY IndStep, SafeStep, WaitStep, ClockStep
<1> QED
  BY <1>1, <1>2, PTL DEF Spec

(* The clock counts a thread among the active ones exactly when it can go  *)
(* on by itself.                                                           *)
THEOREM ActivityCorrect ==
  ASSUME SingleThreadOpt = FALSE PROVE Spec => []ActiveIffRunnable
<1>1. IndInv /\ WaitInv /\ ClockInv => ActiveIffRunnable
  BY StoppedBlocked DEF ClockInv, ActiveOK, ActiveIffRunnable
<1> QED
  BY <1>1, ClockAlways, PTL

(* Nobody is made active twice or halted twice: no BUG_ON is reached.      *)
THEOREM NoBugOnReached ==
  ASSUME SingleThreadOpt = FALSE PROVE Spec => []NoBugOn
<1>1. ClockInv => NoBugOn
  BY DEF ClockInv, NoBugOn
<1> QED
  BY <1>1, ClockAlways, PTL
=============================================================================

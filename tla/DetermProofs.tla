---------------------------- MODULE DetermProofs ----------------------------
(***************************************************************************)
(* Proofs about module Determ, for every program, every pool size and      *)
(* every set of mutexes, condition variables and pthread_t variables.      *)
(***************************************************************************)
EXTENDS Determ, SequenceTheorems, TLAPS

(***************************************************************************)
(* The inductive strengthening of TypeOK.                                  *)
(***************************************************************************)

(* The labels of the two subroutines, from which a thread goes on at ret.  *)
SubLabels ==
  {"is_lowest", "read_lowest", "read_higher", "is_lowest_wait", "cas",
   "check_activation", "fast_forward", "put"}

(* The labels inside a pthread call of the program.                        *)
OpLabels ==
  {"lock_try", "lock_acquire", "lock_set",
   "wl_enqueue", "wl_halt", "wl_put", "wl_spin", "wl_asleep",
   "unlock_try", "unlock_commit", "unlock_release", "signal_waiters",
   "cw_enqueue", "cw_halt", "cw_asleep", "cw_woken", "cond_wake",
   "get_thread", "fork", "spawn_done",
   "join_check", "join_asleep", "join_woken", "join_result", "start"}

(* At l, or in a subroutine that goes on at l.                             *)
At(t, l) == pc[t] = l \/ (pc[t] \in SubLabels /\ ret[t] = l)

InOp(t) == pc[t] \in OpLabels \/ (pc[t] \in SubLabels /\ ret[t] \in OpLabels)

(* A thread inside a pthread call has a call in its program, and one that  *)
(* is about to join has a pthread_t to join on.                            *)
FlowOK ==
  \A t \in Threads :
    /\ InOp(t) => ip[t] <= Len(Code[fn[t]])
    /\ At(t, "join_check") => Guest(t) # NULL

(* The labels of a thread whose pool entry may be handed out again.        *)
PoolLabels == {"deregister", "ex_spin", "ex_release", "set_retval", "park", "gone"}

(* The pool holds threads on their way out, each once; indices that were   *)
(* never handed out belong to no process.                                  *)
PoolInv ==
  /\ \A i \in 1 .. Len(pool) :
       /\ pc[pool[i]] \in PoolLabels
       /\ pool_status[pool[i]] \in {"WAITING", "EXIT"}
  /\ \A i, j \in 1 .. Len(pool) : pool[i] = pool[j] => i = j
  /\ \A t \in Threads : t > id_counter => pc[t] = "unborn"
  /\ \A t \in Threads : child[t] <= id_counter

IndInv == TypeOK /\ FlowOK /\ PoolInv

-----------------------------------------------------------------------------
(* A thread whose ip is inside its start routine is at one of its calls.   *)
LEMMA CurOpType ==
  ASSUME TypeOK, NEW t \in Threads, ip[t] <= Len(Code[fn[t]])
  PROVE  CurOp(t) \in Op
<1>1. fn[t] \in FnNames /\ ip[t] \in Nat \ {0}
  BY DEF TypeOK, LocalsType
<1>2. Code[fn[t]] \in Seq(Op)
  BY <1>1, CodeAssumption
<1> QED
  BY <1>1, <1>2 DEF CurOp

(* So is a thread in user code that makes a call.                          *)
LEMMA CallsType ==
  ASSUME TypeOK, NEW t \in Threads, NEW k, Calls(t, k)
  PROVE  CurOp(t) \in Op /\ ip[t] <= Len(Code[fn[t]])
<1>1. fn[t] \in FnNames /\ ip[t] \in Nat \ {0}
  BY DEF TypeOK, LocalsType
<1>2. Code[fn[t]] \in Seq(Op)
  BY <1>1, CodeAssumption
<1>3. ip[t] <= Len(Code[fn[t]])
  BY <1>1, <1>2 DEF Calls, AtEnd
<1> QED
  BY <1>3, CurOpType

(* The call a thread is in.                                                *)
LEMMA InOpType ==
  ASSUME TypeOK, FlowOK, NEW t \in Threads, pc[t] \in OpLabels
  PROVE  CurOp(t) \in Op /\ ip[t] <= Len(Code[fn[t]])
BY CurOpType DEF FlowOK, InOp

(* The master has an entry, and NULL (-1) is nobody's index.               *)
LEMMA MasterThread == Master \in Threads /\ NULL \notin Threads
BY PoolAssumption DEF Master, Threads, NULL

(* Membership without the enumeration of the whole set.                    *)
LEMMA LabelFacts ==
  /\ "unborn" \in Labels /\ "run" \in Labels /\ "start" \in Labels
  /\ "error" \in Labels /\ "gone" \in Labels /\ "is_lowest" \in Labels
  /\ "read_lowest" \in Labels /\ "read_higher" \in Labels
  /\ "is_lowest_wait" \in Labels /\ "cas" \in Labels
  /\ "check_activation" \in Labels /\ "fast_forward" \in Labels
  /\ "put" \in Labels /\ "lock_try" \in Labels /\ "lock_acquire" \in Labels
  /\ "lock_set" \in Labels /\ "wl_enqueue" \in Labels
  /\ "wl_halt" \in Labels /\ "wl_put" \in Labels /\ "wl_spin" \in Labels
  /\ "wl_asleep" \in Labels /\ "unlock_try" \in Labels
  /\ "unlock_commit" \in Labels /\ "unlock_release" \in Labels
  /\ "signal_waiters" \in Labels /\ "cw_enqueue" \in Labels
  /\ "cw_halt" \in Labels /\ "cw_asleep" \in Labels
  /\ "cw_woken" \in Labels /\ "cond_wake" \in Labels
  /\ "get_thread" \in Labels /\ "fork" \in Labels
  /\ "spawn_done" \in Labels /\ "register" \in Labels
  /\ "registered" \in Labels /\ "begin" \in Labels
  /\ "join_check" \in Labels /\ "join_asleep" \in Labels
  /\ "join_woken" \in Labels /\ "join_result" \in Labels
  /\ "pool_add" \in Labels /\ "deregister" \in Labels
  /\ "ex_spin" \in Labels /\ "ex_release" \in Labels
  /\ "set_retval" \in Labels /\ "park" \in Labels /\ "finalize" \in Labels
BY DEF Labels

(* The same for the status words of determ and of the thread pool.         *)
LEMMA StatusFacts ==
  /\ "COND_WAITING" \in Statuses /\ "READY" \in Statuses /\ "EXIT" \in Statuses
  /\ "JOINING" \in Statuses /\ "OTHERS_NEED_TO_WAIT" \in Statuses
  /\ "WAITING_ON_LOCK" \in Statuses /\ "ON_DECK" \in Statuses
  /\ "INIT" \in PoolStatuses /\ "WAITING" \in PoolStatuses
  /\ "READY" \in PoolStatuses /\ "EXIT" \in PoolStatuses
BY DEF Statuses, PoolStatuses

(* xrun::initialize leaves every variable with its type.                   *)
LEMMA InitType == Init => TypeOK
<1> SUFFICES ASSUME Init PROVE TypeOK
  OBVIOUS
<1>1. FlowType
  BY DEF Init, FlowType, Labels
<1>2. LocalsType
  <2>1. fn \in [Threads -> FnNames]
    BY CodeAssumption DEF Init
  <2> QED
    BY <2>1, MasterThread DEF Init, LocalsType
<1>3. TokenType
  BY MasterThread DEF Init, TokenType
<1>4. EntriesType
  BY MasterThread DEF Init, EntriesType, Statuses
<1>5. SyncsType
  <2>1. <<>> \in Seq(Threads)
    OBVIOUS
  <2> QED
    BY <2>1 DEF Init, SyncsType
<1>6. ClockType
  BY MasterThread DEF Init, ClockType
<1>7. PoolingType
  BY DEF Init, PoolingType, PoolStatuses
<1>8. MemoryType
  BY DEF Init, MemoryType
<1>9. HistoryType
  BY DEF Init, HistoryType
<1> QED
  BY <1>1, <1>2, <1>3, <1>4, <1>5, <1>6, <1>7, <1>8, <1>9 DEF TypeOK

-----------------------------------------------------------------------------
(***************************************************************************)
(* What the helpers of the actions do to the types.                        *)
(***************************************************************************)
(* A group of variables that does not change keeps its type.               *)
LEMMA Kept ==
  /\ FlowType /\ UNCHANGED flow => FlowType'
  /\ LocalsType /\ UNCHANGED locals => LocalsType'
  /\ TokenType /\ UNCHANGED token => TokenType'
  /\ EntriesType /\ UNCHANGED entries => EntriesType'
  /\ SyncsType /\ UNCHANGED syncs => SyncsType'
  /\ ClockType /\ UNCHANGED clock => ClockType'
  /\ PoolingType /\ UNCHANGED pooling => PoolingType'
  /\ MemoryType /\ UNCHANGED memory => MemoryType'
  /\ HistoryType /\ UNCHANGED history => HistoryType'
BY DEF FlowType, flow, LocalsType, locals, TokenType, token, EntriesType, entries,
   SyncsType, syncs, ClockType, clock, PoolingType, pooling, MemoryType, memory,
   HistoryType, history

(* A jump or a call to an existing label keeps the type of the control.    *)
LEMMA FlowSteps ==
  ASSUME FlowType, NEW t \in Threads, NEW l \in Labels, NEW sub \in Labels
  PROVE  /\ Goto(t, l) => FlowType'
         /\ Call(t, sub, l) => FlowType'
         /\ WaitToken(t, l) => FlowType'
<1>1. Goto(t, l) => FlowType'
  BY DEF Goto, FlowType
<1>2. \A s \in Labels : Call(t, s, l) => FlowType'
  BY DEF Call, FlowType
<1>3. "is_lowest" \in Labels
  BY DEF Labels
<1> QED
  BY <1>1, <1>2, <1>3 DEF WaitToken

(* Every clock call keeps the type of the clock's state.                   *)
LEMMA ClockSteps ==
  ASSUME ClockType, NEW t \in Threads, NEW ws \in SUBSET Threads
  PROVE  /\ ClockCall(t) => ClockType'
         /\ ActivateOthers(t, ws) => ClockType'
         /\ ActivateSelf(t) => ClockType'
         /\ Halt(t) => ClockType'
<1>1. ClockCall(t) => ClockType'
  BY DEF ClockCall, ClockType
<1>2. ActivateOthers(t, ws) => ClockType'
  BY DEF ActivateOthers, ClockType
<1>3. ActivateSelf(t) => ClockType'
  BY DEF ActivateSelf, ClockType
<1>4. Halt(t) => ClockType'
  BY DEF Halt, ClockType
<1> QED
  BY <1>1, <1>2, <1>3, <1>4

(* A commit and update keeps the type of the memory.                       *)
LEMMA MemorySteps ==
  ASSUME MemoryType, NEW t \in Threads
  PROVE  /\ CommitAndUpdateMemory(t) => MemoryType'
         /\ \A b : MaybeCommit(t, b) => MemoryType'
<1>1. CommitAndUpdateMemory(t) => MemoryType'
  BY DEF CommitAndUpdateMemory, MemoryType
<1> QED
  BY <1>1, Kept DEF MaybeCommit

(* lock_release keeps types: the first and the second waiter are thread    *)
(* indices.                                                                *)
LEMMA LockReleaseSteps ==
  ASSUME TypeOK, NEW t \in Threads, NEW m \in Mutexes, NEW st \in [Threads -> Statuses],
         NEW newLow \in BOOLEAN, LockRelease(t, m, st, newLow)
  PROVE  /\ is_acquired' \in [Mutexes -> BOOLEAN]
         /\ held' \in [Threads -> SUBSET Mutexes]
         /\ status' \in [Threads -> Statuses]
         /\ lockq' \in [Mutexes -> Seq(Threads)]
         /\ outdated' \in [Threads -> BOOLEAN]
         /\ to_signal' \in [Threads -> SUBSET Threads]
         /\ ClockType'
<1>1. is_acquired' \in [Mutexes -> BOOLEAN] /\ held' \in [Threads -> SUBSET Mutexes]
  BY DEF LockRelease, TypeOK, SyncsType, LocalsType
<1>2. lockq[m] \in Seq(Threads) /\ lockq \in [Mutexes -> Seq(Threads)]
  BY DEF TypeOK, SyncsType
<1>3. outdated \in [Threads -> BOOLEAN] /\ to_signal \in [Threads -> SUBSET Threads]
  BY DEF TypeOK, TokenType, EntriesType
<1>4. ClockType
  BY DEF TypeOK
<1>5. CASE ~HasWaiters(m)
  <2>1. status' = st /\ UNCHANGED <<lockq, outdated, clock, to_signal>>
    BY <1>5 DEF LockRelease
  <2> QED
    BY <1>1, <1>2, <1>3, <1>4, <2>1, Kept
<1>6. CASE HasWaiters(m)
  <2> DEFINE w    == Head(lockq[m])
             rest == Tail(lockq[m])
  <2>1. w \in Threads /\ rest \in Seq(Threads) /\ (rest # <<>> => Head(rest) \in Threads)
    BY <1>2, <1>6 DEF HasWaiters
  <2>2. /\ lockq' = [lockq EXCEPT ![m] = rest]
        /\ ActivateOthers(t, {w})
        /\ CountActivation(newLow)
        /\ IF rest = <<>>
           THEN /\ status' = [st EXCEPT ![w] = "READY"]
                /\ to_signal' = [to_signal EXCEPT ![t] = {w}]
           ELSE /\ status' = [st EXCEPT ![w] = "READY", ![Head(rest)] = "ON_DECK"]
                /\ to_signal' = [to_signal EXCEPT ![t] = {w, Head(rest)}]
    BY <1>6 DEF LockRelease
  <2> HIDE DEF w, rest
  <2>3. lockq' \in [Mutexes -> Seq(Threads)]
    BY <1>2, <2>1, <2>2
  <2>4. outdated' \in [Threads -> BOOLEAN]
    BY <2>2 DEF CountActivation
  <2>5. ClockType'
    BY <1>4, <2>1, <2>2, ClockSteps
  <2>6. status' \in [Threads -> Statuses] /\ to_signal' \in [Threads -> SUBSET Threads]
    BY <1>3, <2>1, <2>2, StatusFacts
  <2> QED
    BY <1>1, <2>3, <2>4, <2>5, <2>6
<1> QED
  BY <1>5, <1>6

(* Types, through every step of getToken, waitToken, putToken and          *)
(* startClock.                                                             *)
LEMMA GetTokenStepType ==
  ASSUME TypeOK, FlowOK, NEW t \in Threads, GetTokenStep(t)
  PROVE  TypeOK'
<1>1. ASSUME NEW low \in BOOLEAN, IsLowest(t, low) PROVE TypeOK'
  BY <1>1, Kept, FlowSteps, LabelFacts, ClockSteps DEF IsLowest, TypeOK
<1>2. CASE ReadActivation(t)
  <2>1. TokenType'
    BY <1>2 DEF ReadActivation, TypeOK, TokenType
  <2> QED
    BY <1>2, <2>1, Kept, FlowSteps, LabelFacts DEF ReadActivation, TypeOK
<1>3. CASE IsLowestWait(t)
  BY <1>3, Kept, FlowSteps, LabelFacts, ClockSteps DEF IsLowestWait, TypeOK
<1>4. CASE CompareAndSwap(t)
  <2>1. TokenType'
    BY <1>4 DEF CompareAndSwap, TypeOK, TokenType
  <2> QED
    BY <1>4, <2>1, Kept, FlowSteps, LabelFacts DEF CompareAndSwap, TypeOK
<1>5. CASE CheckActivation(t)
  <2>1. TokenType'
    BY <1>5 DEF CheckActivation, TypeOK, TokenType
  <2>2. ret[t] \in Labels
    BY DEF TypeOK, FlowType
  <2> QED
    BY <1>5, <2>1, <2>2, Kept, FlowSteps, LabelFacts DEF CheckActivation, TypeOK
<1>6. CASE FastForward(t)
  <2>1. LocalsType'
    BY <1>6 DEF FastForward, TypeOK, LocalsType
  <2>2. ret[t] \in Labels
    BY DEF TypeOK, FlowType
  <2> QED
    BY <1>6, <2>1, <2>2, Kept, FlowSteps, ClockSteps DEF FastForward, TypeOK
<1>7. CASE PutToken(t)
  <2>1. LocalsType'
    BY <1>7 DEF PutToken, TypeOK, LocalsType
  <2>2. TokenType'
    BY <1>7 DEF PutToken, TypeOK, TokenType, ReleaseToken
  <2>3. ret[t] \in Labels
    BY DEF TypeOK, FlowType
  <2> QED
    BY <1>7, <2>1, <2>2, <2>3, Kept, FlowSteps DEF PutToken, TypeOK
<1>8. CASE StartClock(t)
  <2>1. LocalsType'
    BY <1>8 DEF StartClock, TypeOK, LocalsType
  <2> QED
    BY <1>8, <2>1, Kept, FlowSteps, LabelFacts, ClockSteps DEF StartClock, TypeOK
<1> QED
  BY <1>1, <1>2, <1>3, <1>4, <1>5, <1>6, <1>7, <1>8 DEF GetTokenStep

(* Types, through every step of mutex_lock and mutex_unlock.               *)
LEMMA MutexStepType ==
  ASSUME TypeOK, FlowOK, NEW t \in Threads, MutexStep(t)
  PROVE  TypeOK'
<1>1. CASE MutexLock(t)
  <2>1. LocalsType'
    BY <1>1 DEF MutexLock, TypeOK, LocalsType
  <2> QED
    BY <1>1, <2>1, Kept, FlowSteps, LabelFacts, ClockSteps DEF MutexLock, TypeOK
<1>2. CASE LockTry(t)
  <2>1. LocalsType'
    BY <1>2 DEF LockTry, TypeOK, LocalsType, SingleActiveThread
  <2> QED
    BY <1>2, <2>1, Kept, FlowSteps, LabelFacts DEF LockTry, TypeOK
<1>3. CASE LockAcquire(t)
  <2>1. LocalsType'
    BY <1>3 DEF LockAcquire, TypeOK, LocalsType
  <2> QED
    BY <1>3, <2>1, Kept, FlowSteps, LabelFacts DEF LockAcquire, TypeOK
<1>4. CASE LockSet(t)
  <2>1. CurOp(t) \in Op
    BY <1>4, InOpType DEF LockSet, OpLabels
  <2>2. LocalsType'
    BY <1>4, <2>1 DEF LockSet, TypeOK, LocalsType, Op
  <2>3. SyncsType'
    BY <1>4, <2>1 DEF LockSet, TypeOK, SyncsType, Op
  <2> QED
    BY <1>4, <2>2, <2>3, Kept, FlowSteps, LabelFacts, ClockSteps, MemorySteps DEF LockSet,
       TypeOK
<1>5. CASE LockFailed(t)
  <2>1. LocalsType'
    BY <1>5 DEF LockFailed, TypeOK, LocalsType
  <2> QED
    BY <1>5, <2>1, Kept, FlowSteps, LabelFacts, MemorySteps DEF LockFailed, TypeOK
<1>6. CASE WaitOnLockEnqueue(t)
  <2>1. CurOp(t) \in Op
    BY <1>6, InOpType DEF WaitOnLockEnqueue, OpLabels
  <2>2. SyncsType'
    BY <1>6, <2>1 DEF WaitOnLockEnqueue, TypeOK, SyncsType, Op
  <2>3. EntriesType'
    BY <1>6, <2>1, StatusFacts DEF WaitOnLockEnqueue, TypeOK, EntriesType
  <2> QED
    BY <1>6, <2>2, <2>3, Kept, FlowSteps, LabelFacts DEF WaitOnLockEnqueue, TypeOK
<1>7. CASE WaitOnLockHalt(t)
  BY <1>7, Kept, FlowSteps, LabelFacts, ClockSteps DEF WaitOnLockHalt, TypeOK
<1>8. CASE WaitOnLockPut(t)
  <2>1. TokenType'
    BY <1>8 DEF WaitOnLockPut, TypeOK, TokenType, ReleaseToken
  <2> QED
    BY <1>8, <2>1, Kept, FlowSteps, LabelFacts DEF WaitOnLockPut, TypeOK
<1>9. CASE WaitOnLockSleep(t)
  <2>1. EntriesType'
    BY <1>9 DEF WaitOnLockSleep, TypeOK, EntriesType
  <2> QED
    BY <1>9, <2>1, Kept, FlowSteps, LabelFacts DEF WaitOnLockSleep, TypeOK
<1>10. CASE WaitOnLockAwake(t)
  <2>1. EntriesType'
    BY <1>10 DEF WaitOnLockAwake, TypeOK, EntriesType
  <2>2. FlowType'
    BY <1>10, Kept, FlowSteps, LabelFacts DEF WaitOnLockAwake, TypeOK, FlowType
  <2> QED
    BY <1>10, <2>1, <2>2, Kept DEF WaitOnLockAwake, TypeOK
<1>11. CASE WaitOnLockReturn(t)
  <2>1. LocalsType'
    BY <1>11 DEF WaitOnLockReturn, TypeOK, LocalsType
  <2> QED
    BY <1>11, <2>1, Kept, FlowSteps, LabelFacts DEF WaitOnLockReturn, TypeOK
<1>12. CASE MutexUnlock(t)
  <2>1. CurOp(t) \in Op
    BY <1>12, CallsType DEF MutexUnlock
  <2>2. MemoryType'
    BY <1>12, <2>1 DEF MutexUnlock, TypeOK, MemoryType, CriticalSection, Op
  <2>3. HistoryType'
    BY <1>12, <2>1 DEF MutexUnlock, TypeOK, HistoryType, CriticalSection, Op
  <2> QED
    BY <1>12, <2>2, <2>3, Kept, FlowSteps, LabelFacts, ClockSteps DEF MutexUnlock, TypeOK
<1>13. CASE UnlockTry(t)
  <2>1. LocalsType'
    BY <1>13 DEF UnlockTry, TypeOK, LocalsType, SingleActiveThread
  <2> QED
    BY <1>13, <2>1, Kept, FlowSteps, LabelFacts DEF UnlockTry, TypeOK
<1>14. CASE UnlockCommit(t)
  BY <1>14, Kept, FlowSteps, LabelFacts, MemorySteps DEF UnlockCommit, TypeOK
<1>15. ASSUME NEW newLow \in BOOLEAN, UnlockRelease(t, newLow) PROVE TypeOK'
  <2>1. CurOp(t).m \in Mutexes
    BY <1>15, InOpType DEF UnlockRelease, OpLabels, Op
  <2>2. status \in [Threads -> Statuses]
    BY DEF TypeOK, EntriesType
  <2>3. LockRelease(t, CurOp(t).m, status, newLow)
    BY <1>15 DEF UnlockRelease
  <2>4. /\ is_acquired' \in [Mutexes -> BOOLEAN] /\ lockq' \in [Mutexes -> Seq(Threads)]
        /\ held' \in [Threads -> SUBSET Mutexes] /\ outdated' \in [Threads -> BOOLEAN]
        /\ status' \in [Threads -> Statuses] /\ to_signal' \in [Threads -> SUBSET Threads]
        /\ ClockType'
    BY <2>1, <2>2, <2>3, LockReleaseSteps
  <2>5. LocalsType'
    BY <1>15, <2>4 DEF UnlockRelease, TypeOK, LocalsType
  <2>6. TokenType'
    BY <1>15, <2>4 DEF UnlockRelease, TypeOK, TokenType
  <2>7. EntriesType'
    BY <1>15, <2>4 DEF UnlockRelease, TypeOK, EntriesType
  <2>8. SyncsType'
    BY <1>15, <2>4 DEF UnlockRelease, TypeOK, SyncsType
  <2> QED
    BY <1>15, <2>4, <2>5, <2>6, <2>7, <2>8, Kept, FlowSteps, LabelFacts
    DEF UnlockRelease, TypeOK
<1>16. CASE SignalWaiters(t)
  <2>1. EntriesType'
    BY <1>16 DEF SignalWaiters, TypeOK, EntriesType
  <2> QED
    BY <1>16, <2>1, Kept, FlowSteps, LabelFacts DEF SignalWaiters, TypeOK
<1> QED
  BY <1>1, <1>2, <1>3, <1>4, <1>5, <1>6, <1>7, <1>8, <1>9, <1>10, <1>11, <1>12, <1>13,
     <1>14, <1>15, <1>16 DEF MutexStep

(* Types, through every step of cond_wait, cond_signal and cond_broadcast. *)
LEMMA CondStepType ==
  ASSUME TypeOK, FlowOK, NEW t \in Threads, CondStep(t)
  PROVE  TypeOK'
<1>1. CASE CondWait(t)
  BY <1>1, Kept, FlowSteps, LabelFacts, ClockSteps DEF CondWait, TypeOK
<1>2. CASE PredicateHolds(t)
  <2>1. LocalsType'
    BY <1>2 DEF PredicateHolds, TypeOK, LocalsType
  <2> QED
    BY <1>2, <2>1, Kept, FlowSteps, LabelFacts DEF PredicateHolds, TypeOK
<1>3. CASE CondWaitHalt(t)
  <2>1. TokenType'
    BY <1>3 DEF CondWaitHalt, TypeOK, TokenType, ReleaseToken
  <2>2. EntriesType'
    BY <1>3 DEF CondWaitHalt, TypeOK, EntriesType
  <2> QED
    BY <1>3, <2>1, <2>2, Kept, FlowSteps, LabelFacts, ClockSteps DEF CondWaitHalt, TypeOK
<1>4. CASE CondWaitAwake(t)
  <2>1. EntriesType'
    BY <1>4 DEF CondWaitAwake, TypeOK, EntriesType
  <2> QED
    BY <1>4, <2>1, Kept, FlowSteps, LabelFacts DEF CondWaitAwake, TypeOK
<1>5. CASE CondWaitReturn(t)
  BY <1>5, Kept, FlowSteps, LabelFacts DEF CondWaitReturn, TypeOK
<1>6. CASE CondWaitRelock(t)
  <2>1. LocalsType'
    BY <1>6 DEF CondWaitRelock, TypeOK, LocalsType
  <2> QED
    BY <1>6, <2>1, Kept, FlowSteps, LabelFacts, MemorySteps DEF CondWaitRelock, TypeOK
<1>7. CASE CondSignal(t)
  BY <1>7, Kept, FlowSteps, LabelFacts, ClockSteps DEF CondSignal, TypeOK
<1>8. ASSUME NEW newLow \in BOOLEAN, CondWaitEnqueue(t, newLow) PROVE TypeOK'
  <2> DEFINE st == [status EXCEPT ![t] = "COND_WAITING"]
  <2>1. CurOp(t).m \in Mutexes /\ CurOp(t).c \in Conds
    BY <1>8, InOpType DEF CondWaitEnqueue, OpLabels, Op
  <2>2. st \in [Threads -> Statuses]
    BY StatusFacts DEF TypeOK, EntriesType
  <2>3. LockRelease(t, CurOp(t).m, st, newLow)
    BY <1>8 DEF CondWaitEnqueue
  <2> HIDE DEF st
  <2>4. /\ is_acquired' \in [Mutexes -> BOOLEAN] /\ lockq' \in [Mutexes -> Seq(Threads)]
        /\ held' \in [Threads -> SUBSET Mutexes] /\ outdated' \in [Threads -> BOOLEAN]
        /\ status' \in [Threads -> Statuses] /\ to_signal' \in [Threads -> SUBSET Threads]
        /\ ClockType'
    BY <2>1, <2>2, <2>3, LockReleaseSteps
  <2>5. LocalsType'
    BY <1>8, <2>4 DEF CondWaitEnqueue, TypeOK, LocalsType
  <2>6. TokenType'
    BY <1>8, <2>4 DEF CondWaitEnqueue, TypeOK, TokenType
  <2>7. EntriesType'
    BY <1>8, <2>4 DEF CondWaitEnqueue, TypeOK, EntriesType
  <2>8. condq' \in [Conds -> Seq(Threads)]
    BY <1>8, <2>1 DEF CondWaitEnqueue, TypeOK, SyncsType
  <2>9. SyncsType'
    BY <1>8, <2>4, <2>8 DEF CondWaitEnqueue, TypeOK, SyncsType
  <2> QED
    BY <1>8, <2>4, <2>5, <2>6, <2>7, <2>9, Kept, FlowSteps, MemorySteps, LabelFacts
    DEF CondWaitEnqueue, TypeOK
<1>9. ASSUME NEW newLow \in BOOLEAN, CondWake(t, newLow) PROVE TypeOK'
  <2> DEFINE q     == condq[CurOp(t).c]
             n     == IF CurOp(t).kind = "signal" THEN 1 ELSE Len(q)
             woken == {q[i] : i \in 1 .. n}
  <2>1. CurOp(t).c \in Conds
    BY <1>9, InOpType DEF CondWake, OpLabels, Op
  <2>2. q \in Seq(Threads) /\ Len(q) \in Nat
    BY <2>1 DEF TypeOK, SyncsType
  <2>3. CASE q = <<>>
    <3>1. TokenType' /\ EntriesType' /\ SyncsType'
      BY <1>9, <2>3 DEF CondWake, TypeOK, TokenType, EntriesType, SyncsType
    <3> QED
      BY <1>9, <2>3, <3>1, Kept, FlowSteps, MemorySteps, LabelFacts DEF CondWake, TypeOK
  <2>4. CASE q # <<>>
    <3>1. n \in 1 .. Len(q) /\ woken \in SUBSET Threads
      BY <2>2, <2>4
    <3>2. SubSeq(q, n + 1, Len(q)) \in Seq(Threads)
      BY <2>2, <3>1, SubSeqProperties
    <3>3. /\ condq' = [condq EXCEPT ![CurOp(t).c] = SubSeq(q, n + 1, Len(q))]
          /\ status' = [u \in Threads |-> IF u \in woken THEN "READY" ELSE status[u]]
          /\ ActivateOthers(t, woken)
          /\ CountActivation(newLow \/ CurOp(t).kind = "broadcast")
          /\ asleep' = [u \in Threads |->
                          asleep[u] /\ u \notin RealcondBroadcast(CurOp(t).c)]
      BY <1>9, <2>4 DEF CondWake
    <3> HIDE DEF q, n, woken
    <3>4. TokenType'
      BY <1>9, <3>3 DEF CondWake, TypeOK, TokenType, CountActivation
    <3>5. EntriesType'
      BY <1>9, <3>3, StatusFacts DEF CondWake, TypeOK, EntriesType
    <3>6. SyncsType'
      BY <1>9, <2>1, <3>2, <3>3 DEF CondWake, TypeOK, SyncsType
    <3>7. ClockType'
      BY <3>1, <3>3, ClockSteps DEF TypeOK
    <3> QED
      BY <1>9, <3>4, <3>5, <3>6, <3>7, Kept, FlowSteps, MemorySteps, LabelFacts
      DEF CondWake, TypeOK
  <2> QED
    BY <2>3, <2>4
<1> QED
  BY <1>1, <1>2, <1>3, <1>4, <1>5, <1>6, <1>7, <1>8, <1>9 DEF CondStep

(* Types, through every step of spawn and the start of a thread.           *)
LEMMA SpawnStepType ==
  ASSUME TypeOK, FlowOK, NEW t \in Threads, SpawnStep(t)
  PROVE  TypeOK'
<1>1. CASE Spawn(t)
  BY <1>1, Kept, FlowSteps, LabelFacts, ClockSteps DEF Spawn, TypeOK
<1>2. CASE GetThread(t)
  <2> DEFINE c == IF pool # <<>> THEN Head(pool) ELSE id_counter + 1
  <2>1. CurOp(t).fn \in FnNames
    BY <1>2, InOpType DEF GetThread, OpLabels, Op
  <2>2. c \in Threads /\ {c} \in SUBSET Threads
    BY SMTT(20), <1>2, PoolAssumption DEF GetThread, PoolHasRoom, TypeOK, PoolingType, Threads
  <2>3. /\ child' = [child EXCEPT ![t] = c]
        /\ fn' = [fn EXCEPT ![c] = CurOp(t).fn]
        /\ ip' = [ip EXCEPT ![c] = 1]
        /\ ActivateOthers(t, {c})
        /\ pool_status' = [pool_status EXCEPT ![c] = IF @ = "WAITING" THEN "READY" ELSE "INIT"]
        /\ spawned' = [spawned EXCEPT ![c] = @ + 1]
        /\ UNCHANGED <<held, token_holding, failed, is_single, should_update, do_work_parent>>
        /\ UNCHANGED <<retval, handle>>
        /\ IF pool # <<>> THEN pool' = Tail(pool) /\ UNCHANGED id_counter
           ELSE id_counter' = id_counter + 1 /\ UNCHANGED pool
    BY <1>2 DEF GetThread
  <2> HIDE DEF c
  <2>4. pool' \in Seq(Threads) /\ id_counter' \in Nat
    <3>1. pool \in Seq(Threads) /\ id_counter \in Nat
      BY DEF TypeOK, PoolingType
    <3>2. pool # <<>> => Tail(pool) \in Seq(Threads)
      BY <3>1
    <3>3. CASE pool # <<>>
      BY <2>3, <3>1, <3>2, <3>3
    <3>4. CASE pool = <<>>
      BY <2>3, <3>1, <3>4
    <3> QED
      BY <3>3, <3>4
  <2>5. LocalsType'
    BY <2>1, <2>2, <2>3 DEF TypeOK, LocalsType
  <2>6. PoolingType'
    BY <2>2, <2>3, <2>4, StatusFacts DEF TypeOK, PoolingType
  <2>7. HistoryType'
    <3>1. reused' \in BOOLEAN
      BY <1>2 DEF GetThread
    <3>2. spawned' \in [Threads -> Nat]
      BY <2>2, <2>3 DEF TypeOK, HistoryType
    <3> QED
      BY <1>2, <3>1, <3>2 DEF GetThread, TypeOK, HistoryType
  <2>8. ClockType'
    BY <2>2, <2>3, ClockSteps DEF TypeOK
  <2> QED
    BY <1>2, <2>5, <2>6, <2>7, <2>8, Kept, FlowSteps, MemorySteps, LabelFacts
    DEF GetThread, TypeOK
<1>3. CASE PoolExhausted(t)
  BY <1>3, Kept, FlowSteps, LabelFacts, MemorySteps DEF PoolExhausted, TypeOK
<1>4. CASE Fork(t)
  <2>1. child[t] \in Threads
    BY DEF TypeOK, LocalsType
  <2>2. FlowType'
    BY <1>4, <2>1, LabelFacts DEF Fork, TypeOK, FlowType
  <2>3. LocalsType'
    BY <1>4, <2>1 DEF Fork, TypeOK, LocalsType
  <2>4. ClockType'
    BY <1>4, <2>1 DEF Fork, TypeOK, ClockType
  <2>5. MemoryType'
    BY <1>4, <2>1 DEF Fork, TypeOK, MemoryType
  <2> QED
    BY <1>4, <2>2, <2>3, <2>4, <2>5, Kept DEF Fork, TypeOK
<1>5. CASE SpawnDone(t)
  <2>1. CurOp(t) \in Op
    BY <1>5, InOpType DEF SpawnDone, OpLabels
  <2>2. PoolingType'
    BY <1>5, <2>1 DEF SpawnDone, TypeOK, PoolingType, LocalsType, Op
  <2>3. HistoryType'
    BY <1>5, <2>1 DEF SpawnDone, TypeOK, HistoryType, LocalsType, Op
  <2> QED
    BY <1>5, <2>2, <2>3, Kept, FlowSteps, LabelFacts, MemorySteps DEF SpawnDone, TypeOK
<1>6. CASE Register(t)
  <2>1. LocalsType'
    BY <1>6 DEF Register, TypeOK, LocalsType, ResetThread
  <2>2. EntriesType'
    BY <1>6, StatusFacts DEF Register, TypeOK, EntriesType, LocalsType
  <2>3. HistoryType'
    BY <1>6 DEF Register, TypeOK, HistoryType
  <2> QED
    BY <1>6, <2>1, <2>2, <2>3, Kept, FlowSteps, LabelFacts DEF Register, TypeOK
<1>7. CASE Registered(t)
  BY <1>7, Kept, FlowSteps, LabelFacts, MemorySteps DEF Registered, TypeOK
<1>8. CASE RunThread(t)
  BY <1>8, Kept, FlowSteps, LabelFacts, ClockSteps DEF RunThread, TypeOK
<1> QED
  BY <1>1, <1>2, <1>3, <1>4, <1>5, <1>6, <1>7, <1>8 DEF SpawnStep

(* Types, through every step of the end of a thread and of the program.    *)
LEMMA ExitStepType ==
  ASSUME TypeOK, FlowOK, NEW t \in Threads, ExitStep(t)
  PROVE  TypeOK'
<1>1. CASE ThreadDeregister(t)
  BY <1>1, Kept, FlowSteps, LabelFacts, ClockSteps DEF ThreadDeregister, TypeOK
<1>2. CASE PoolAdd(t)
  <2>1. pool' \in Seq(Threads)
    <3>1. pool \in Seq(Threads)
      BY DEF TypeOK, PoolingType
    <3>2. Append(pool, t) \in Seq(Threads)
      BY <3>1
    <3> QED
      BY <1>2, <3>1, <3>2 DEF PoolAdd
  <2>2. pool_status' \in [Threads -> PoolStatuses]
    BY <1>2, StatusFacts DEF PoolAdd, TypeOK, PoolingType
  <2>3. PoolingType'
    BY <1>2, <2>1, <2>2 DEF PoolAdd, TypeOK, PoolingType
  <2> QED
    BY <1>2, <2>3, Kept, FlowSteps, LabelFacts, MemorySteps DEF PoolAdd, TypeOK
<1>3. CASE Deregister(t)
  <2>1. TokenType'
    BY <1>3 DEF Deregister, TypeOK, TokenType, LeaveForGood, ReleaseToken
  <2>2. EntriesType'
    BY <1>3, StatusFacts DEF Deregister, TypeOK, EntriesType
  <2> QED
    BY <1>3, <2>1, <2>2, Kept, FlowSteps, LabelFacts, ClockSteps DEF Deregister, TypeOK,
       LeaveForGood
<1>4. CASE DeregisterWake(t)
  <2>1. EntriesType'
    BY <1>4, StatusFacts DEF DeregisterWake, TypeOK, EntriesType
  <2> QED
    BY <1>4, <2>1, Kept, FlowSteps, LabelFacts DEF DeregisterWake, TypeOK
<1>5. CASE DeregisterSpin(t)
  BY <1>5, Kept, FlowSteps, LabelFacts DEF DeregisterSpin, TypeOK
<1>6. CASE DeregisterRelease(t)
  <2>1. TokenType'
    BY <1>6 DEF DeregisterRelease, TypeOK, TokenType, LeaveForGood, ReleaseToken
  <2> QED
    BY <1>6, <2>1, Kept, FlowSteps, LabelFacts, ClockSteps DEF DeregisterRelease, TypeOK,
       LeaveForGood
<1>7. CASE SetRetval(t)
  <2>1. PoolingType'
    BY <1>7 DEF SetRetval, TypeOK, PoolingType, HistoryType
  <2> QED
    BY <1>7, <2>1, Kept, FlowSteps, LabelFacts DEF SetRetval, TypeOK
<1>8. CASE Unpark(t)
  BY <1>8, Kept, FlowSteps, LabelFacts DEF Unpark, TypeOK
<1>9. CASE Done(t)
  BY <1>9, Kept, FlowSteps, LabelFacts DEF Done, TypeOK
<1>10. CASE Finalize(t)
  <2>1. SyncsType'
    BY <1>10 DEF Finalize, TypeOK, SyncsType
  <2>2. PoolingType'
    BY <1>10, StatusFacts DEF Finalize, TypeOK, PoolingType
  <2> QED
    BY <1>10, <2>1, <2>2, Kept, FlowSteps, LabelFacts DEF Finalize, TypeOK
<1> QED
  BY <1>1, <1>2, <1>3, <1>4, <1>5, <1>6, <1>7, <1>8, <1>9, <1>10 DEF ExitStep

(* Types, through every step of join.                                      *)
LEMMA JoinStepType ==
  ASSUME TypeOK, FlowOK, NEW t \in Threads, JoinStep(t)
  PROVE  TypeOK'
<1>1. CASE Join(t)
  BY <1>1, Kept, FlowSteps, LabelFacts, ClockSteps DEF Join, TypeOK
<1>2. CASE JoinCheck(t)
  <2>1. Guest(t) \in Threads
    BY <1>2, InOpType DEF JoinCheck, OpLabels, FlowOK, At, Guest, Op, TypeOK, PoolingType
  <2>2. CASE status[Guest(t)] # "EXIT"
    <3>1. TokenType'
      BY <1>2, <2>2 DEF JoinCheck, TypeOK, TokenType, ReleaseToken
    <3>2. /\ status' = [status EXCEPT ![t] = "JOINING"]
          /\ joinee' = [joinee EXCEPT ![t] = Guest(t)]
          /\ asleep' = [asleep EXCEPT ![t] = TRUE]
          /\ UNCHANGED <<tid_parent, to_signal>>
      BY <1>2, <2>2 DEF JoinCheck
    <3>3. EntriesType'
      BY <2>1, <3>2, StatusFacts DEF TypeOK, EntriesType
    <3> QED
      BY <1>2, <2>2, <3>1, <3>3, Kept, FlowSteps, LabelFacts, ClockSteps, MemorySteps
      DEF JoinCheck, TypeOK
  <2>3. CASE status[Guest(t)] = "EXIT"
    <3>1. TokenType'
      BY <1>2, <2>3 DEF JoinCheck, TypeOK, TokenType
    <3>2. EntriesType'
      BY <1>2, <2>3, StatusFacts DEF JoinCheck, TypeOK, EntriesType
    <3> QED
      BY <1>2, <2>3, <3>1, <3>2, Kept, FlowSteps, LabelFacts, MemorySteps
      DEF JoinCheck, TypeOK
  <2> QED
    BY <2>2, <2>3
<1>3. CASE JoinAwake(t)
  <2>1. CASE status[joinee[t]] # "EXIT"
    <3>1. EntriesType'
      <4>1. /\ status' = [status EXCEPT ![t] = "JOINING"] /\ asleep' = [asleep EXCEPT ![t] = TRUE]
            /\ UNCHANGED <<tid_parent, joinee, to_signal>>
        BY <1>3, <2>1 DEF JoinAwake
      <4> QED
        BY <4>1, StatusFacts DEF TypeOK, EntriesType
    <3> QED
      BY <1>3, <2>1, <3>1, Kept DEF JoinAwake, TypeOK
  <2>2. CASE status[joinee[t]] = "EXIT"
    <3>1. EntriesType'
      <4>1. status' = [status EXCEPT ![t] = "READY"] /\ UNCHANGED <<asleep, tid_parent, joinee, to_signal>>
        BY <1>3, <2>2 DEF JoinAwake
      <4> QED
        BY <4>1, StatusFacts DEF TypeOK, EntriesType
    <3> QED
      BY <1>3, <2>2, <3>1, Kept, FlowSteps, LabelFacts, ClockSteps DEF JoinAwake, TypeOK
  <2> QED
    BY <2>1, <2>2
<1>4. CASE JoinWoken(t)
  BY <1>4, Kept, FlowSteps, LabelFacts, ClockSteps, MemorySteps DEF JoinWoken, TypeOK
<1>5. CASE JoinResult(t)
  BY <1>5, Kept, FlowSteps, LabelFacts DEF JoinResult, TypeOK
<1> QED
  BY <1>1, <1>2, <1>3, <1>4, <1>5 DEF JoinStep

-----------------------------------------------------------------------------
(***************************************************************************)
(* FlowOK and PoolInv: what a move of one thread keeps.                    *)
(***************************************************************************)
(* Nothing FlowOK speaks of has changed.                                   *)
LEMMA FlowSame ==
  ASSUME FlowOK, UNCHANGED <<flow, fn, ip, handle>>
  PROVE  FlowOK'
<1>1. UNCHANGED <<pc, ret, fn, ip, handle>>
  BY DEF flow
<1> QED
  BY <1>1 DEF FlowOK, InOp, At, Guest, CurOp

(* The thread changes its label, its call stays.                           *)
LEMMA FlowLocal ==
  ASSUME TypeOK, FlowOK, NEW t \in Threads, UNCHANGED <<fn, ip, handle>>,
         \A u \in Threads \ {t} : pc'[u] = pc[u] /\ ret'[u] = ret[u],
         InOp(t)' => ip[t] <= Len(Code[fn[t]]),
         At(t, "join_check")' => Guest(t) # NULL
  PROVE  FlowOK'
<1> SUFFICES ASSUME NEW u \in Threads
             PROVE  /\ InOp(u)' => ip'[u] <= Len(Code[fn'[u]])
                    /\ At(u, "join_check")' => Guest(u)' # NULL
  BY DEF FlowOK
<1>1. Guest(u)' = Guest(u)
  BY DEF Guest, CurOp
<1>2. CASE u = t
  BY <1>1, <1>2
<1>3. CASE u # t
  BY <1>1, <1>3 DEF FlowOK, InOp, At
<1> QED
  BY <1>2, <1>3

(* Every move of a thread by itself: to l, or by way of a subroutine.      *)
Moves(t, l) ==
  Goto(t, l) \/ Call(t, "put", l) \/ Call(t, "is_lowest", l) \/ WaitToken(t, l)

(* A move to l keeps FlowOK if l is outside every call or the call exists. *)
LEMMA FlowMove ==
  ASSUME TypeOK, FlowOK, NEW t \in Threads, NEW l, Moves(t, l),
         UNCHANGED <<fn, ip, handle>>, l \notin SubLabels,
         l \in OpLabels => ip[t] <= Len(Code[fn[t]]),
         l = "join_check" => Guest(t) # NULL
  PROVE  FlowOK'
<1>1. pc \in [Threads -> Labels] /\ ret \in [Threads -> Labels]
  BY DEF TypeOK, FlowType
<1>2. \/ pc' = [pc EXCEPT ![t] = l] /\ ret' = ret
      \/ \E s \in SubLabels : pc' = [pc EXCEPT ![t] = s] /\ ret' = [ret EXCEPT ![t] = l]
  BY DEF Moves, Goto, Call, WaitToken, SubLabels
<1>3. \A u \in Threads \ {t} : pc'[u] = pc[u] /\ ret'[u] = ret[u]
  BY <1>1, <1>2
<1>4. pc'[t] = l \/ (pc'[t] \in SubLabels /\ ret'[t] = l)
  BY <1>1, <1>2
<1>5. InOp(t)' => l \in OpLabels
  BY <1>4 DEF InOp, SubLabels, OpLabels
<1>6. At(t, "join_check")' => l = "join_check"
  BY <1>4 DEF At, SubLabels
<1> QED
  BY <1>3, <1>5, <1>6, FlowLocal

(* A step inside a subroutine, or its return.                              *)
LEMMA FlowSub ==
  ASSUME TypeOK, FlowOK, NEW t \in Threads, UNCHANGED <<fn, ip, handle>>,
         pc[t] \in SubLabels, NEW l, l \in SubLabels \/ l = ret[t], Goto(t, l)
  PROVE  FlowOK'
<1>1. pc \in [Threads -> Labels] /\ ret \in [Threads -> Labels]
  BY DEF TypeOK, FlowType
<1>2. pc' = [pc EXCEPT ![t] = l] /\ ret' = ret
  BY DEF Goto
<1>3. \A u \in Threads \ {t} : pc'[u] = pc[u] /\ ret'[u] = ret[u]
  BY <1>1, <1>2
<1>4. pc'[t] = l /\ ret'[t] = ret[t]
  BY <1>1, <1>2
<1>5. InOp(t)' => InOp(t)
  BY <1>4 DEF InOp, SubLabels, OpLabels
<1>6. At(t, "join_check")' => At(t, "join_check")
  BY <1>4 DEF At, SubLabels
<1> QED
  BY <1>3, <1>5, <1>6, FlowLocal DEF FlowOK

(* The thread is not in the pool, or stays on its way out.                 *)
LEMMA PoolMove ==
  ASSUME TypeOK, PoolInv, NEW t \in Threads, NEW l, Moves(t, l),
         UNCHANGED <<pool, id_counter, pool_status, child>>, pc[t] # "unborn",
         pc[t] \notin PoolLabels \/ (l \in PoolLabels /\ Goto(t, l))
  PROVE  PoolInv'
<1>1. pc \in [Threads -> Labels] /\ pool \in Seq(Threads)
  BY DEF TypeOK, FlowType, PoolingType
<1>2. PICK k : pc' = [pc EXCEPT ![t] = k] /\ (pc[t] \in PoolLabels => k \in PoolLabels)
  BY DEF Moves, Goto, Call, WaitToken
<1>3. \A u \in Threads : pc'[u] = IF u = t THEN k ELSE pc[u]
  BY <1>1, <1>2
<1>4. \A i \in 1 .. Len(pool) : pool[i] \in Threads
  BY <1>1
<1> QED
  BY <1>2, <1>3, <1>4 DEF PoolInv

(* Nothing PoolInv speaks of has changed.                                  *)
LEMMA PoolSame ==
  ASSUME PoolInv, UNCHANGED <<pc, pool, id_counter, pool_status, child>>
  PROVE  PoolInv'
BY DEF PoolInv

(* A thread moves on inside a call it is in.                               *)
LEMMA OpMove ==
  ASSUME IndInv, NEW t \in Threads, NEW l, Moves(t, l), pc[t] \in OpLabels,
         UNCHANGED <<fn, ip, handle, pool, id_counter, pool_status, child>>,
         l \notin SubLabels, l # "join_check"
  PROVE  FlowOK' /\ PoolInv'
<1>1. pc[t] # "unborn" /\ pc[t] \notin PoolLabels
  BY DEF OpLabels, PoolLabels
<1>2. ip[t] <= Len(Code[fn[t]])
  BY InOpType DEF IndInv
<1> QED
  BY <1>1, <1>2, FlowMove, PoolMove DEF IndInv

(* A thread in user code enters a call.                                    *)
LEMMA CallMove ==
  ASSUME IndInv, NEW t \in Threads, NEW k, Calls(t, k), NEW l, Moves(t, l),
         UNCHANGED <<fn, ip, handle, pool, id_counter, pool_status, child>>,
         l \notin SubLabels, l = "join_check" => Guest(t) # NULL
  PROVE  FlowOK' /\ PoolInv'
<1>1. pc[t] # "unborn" /\ pc[t] \notin PoolLabels
  BY DEF Calls, PoolLabels
<1>2. ip[t] <= Len(Code[fn[t]])
  BY CallsType DEF IndInv
<1> QED
  BY <1>1, <1>2, FlowMove, PoolMove DEF IndInv

(* A thread moves on outside the calls of its program.                     *)
LEMMA FreeMove ==
  ASSUME IndInv, NEW t \in Threads, NEW l, Moves(t, l), pc[t] # "unborn",
         UNCHANGED <<fn, ip, handle, pool, id_counter, pool_status, child>>,
         l \notin SubLabels, l \notin OpLabels,
         pc[t] \notin PoolLabels \/ (l \in PoolLabels /\ Goto(t, l))
  PROVE  FlowOK' /\ PoolInv'
<1>1. l # "join_check"
  BY DEF OpLabels
<1> QED
  BY <1>1, FlowMove, PoolMove DEF IndInv

(* A thread moves on inside a subroutine, or returns from it.              *)
LEMMA SubMove ==
  ASSUME IndInv, NEW t \in Threads, pc[t] \in SubLabels,
         NEW l, l \in SubLabels \/ l = ret[t], Goto(t, l),
         UNCHANGED <<fn, ip, handle, pool, id_counter, pool_status, child>>
  PROVE  FlowOK' /\ PoolInv'
<1>1. pc[t] # "unborn" /\ pc[t] \notin PoolLabels
  BY DEF SubLabels, PoolLabels
<1>2. FlowOK'
  BY FlowSub DEF IndInv
<1>3. PoolInv'
  BY <1>1, PoolMove DEF IndInv, Moves
<1> QED
  BY <1>2, <1>3

(* Calls that go on are the same calls; pthread_t variables stay written.  *)
LEMMA FlowKept ==
  ASSUME TypeOK, FlowOK,
         \A u \in Threads : InOp(u)' => InOp(u) /\ fn'[u] = fn[u] /\ ip'[u] = ip[u],
         \A u \in Threads : At(u, "join_check")' => At(u, "join_check"),
         \A h \in Handles : handle[h] # NULL => handle'[h] # NULL
  PROVE  FlowOK'
<1> SUFFICES ASSUME NEW u \in Threads
             PROVE  /\ InOp(u)' => ip'[u] <= Len(Code[fn'[u]])
                    /\ At(u, "join_check")' => Guest(u)' # NULL
  BY DEF FlowOK
<1>1. InOp(u)' => ip'[u] <= Len(Code[fn'[u]])
  BY DEF FlowOK
<1>2. ASSUME At(u, "join_check")' PROVE Guest(u)' # NULL
  <2>1. InOp(u)'
    BY <1>2 DEF At, InOp, OpLabels
  <2>2. At(u, "join_check") /\ InOp(u)
    BY <1>2, <2>1
  <2>3. CurOp(u)' = CurOp(u)
    BY <2>1 DEF CurOp
  <2>4. ip[u] <= Len(Code[fn[u]]) /\ Guest(u) # NULL
    BY <2>2 DEF FlowOK
  <2>5. CurOp(u).h \in Handles
    BY <2>4, CurOpType DEF Op
  <2> QED
    BY <2>3, <2>4, <2>5 DEF Guest
<1> QED
  BY <1>1, <1>2

(* FlowOK and PoolInv, through every step of getToken, waitToken, putToken *)
(* and startClock.                                                         *)
LEMMA GetTokenStepFlow ==
  ASSUME IndInv, NEW t \in Threads, GetTokenStep(t)
  PROVE  FlowOK' /\ PoolInv'
<1> USE DEF locals, pooling, Moves, SubLabels, OpLabels, PoolLabels
<1>1. ASSUME NEW low \in BOOLEAN, IsLowest(t, low) PROVE FlowOK' /\ PoolInv'
  BY <1>1, SubMove DEF IsLowest
<1>2. CASE ReadActivation(t)
  BY <1>2, SubMove DEF ReadActivation
<1>3. CASE IsLowestWait(t)
  BY <1>3, SubMove DEF IsLowestWait
<1>4. CASE CompareAndSwap(t)
  BY <1>4, SubMove DEF CompareAndSwap
<1>5. CASE CheckActivation(t)
  BY <1>5, SubMove DEF CheckActivation
<1>6. CASE FastForward(t)
  BY <1>6, SubMove DEF FastForward
<1>7. CASE PutToken(t)
  BY <1>7, SubMove DEF PutToken
<1>8. CASE StartClock(t)
  <2>1. pc \in [Threads -> Labels] /\ ip \in [Threads -> Nat \ {0}]
    BY DEF IndInv, TypeOK, FlowType, LocalsType
  <2>2. pc' = [pc EXCEPT ![t] = "run"] /\ UNCHANGED <<ret, fn, handle>>
    BY <1>8 DEF StartClock, Goto
  <2>3. \A u \in Threads \ {t} : ip'[u] = ip[u]
    BY <1>8, <2>1 DEF StartClock
  <2>5. FlowOK'
    <3>1. \A u \in Threads : InOp(u)' => InOp(u) /\ fn'[u] = fn[u] /\ ip'[u] = ip[u]
      BY <2>1, <2>2, <2>3 DEF InOp, OpLabels, SubLabels
    <3>2. \A u \in Threads : At(u, "join_check")' => At(u, "join_check")
      BY <2>1, <2>2 DEF At, SubLabels
    <3>3. \A h \in Handles : handle[h] # NULL => handle'[h] # NULL
      BY <2>2
    <3> QED
      BY <3>1, <3>2, <3>3, FlowKept DEF IndInv
  <2>6. PoolInv'
    BY <1>8, PoolMove DEF StartClock, IndInv
  <2> QED
    BY <2>5, <2>6
<1> QED
  BY <1>1, <1>2, <1>3, <1>4, <1>5, <1>6, <1>7, <1>8 DEF GetTokenStep

(* FlowOK and PoolInv, through every step of mutex_lock and mutex_unlock.  *)
LEMMA MutexStepFlow ==
  ASSUME IndInv, NEW t \in Threads, MutexStep(t)
  PROVE  FlowOK' /\ PoolInv'
<1> USE DEF locals, pooling, Moves, SubLabels, OpLabels, PoolLabels
<1>1. CASE MutexLock(t)
  BY <1>1, CallMove DEF MutexLock
<1>2. CASE LockTry(t)
  BY <1>2, OpMove DEF LockTry
<1>3. CASE LockAcquire(t)
  BY <1>3, OpMove DEF LockAcquire
<1>4. CASE LockSet(t)
  BY <1>4, OpMove DEF LockSet
<1>5. CASE LockFailed(t)
  BY <1>5, OpMove DEF LockFailed
<1>6. CASE WaitOnLockEnqueue(t)
  BY <1>6, OpMove DEF WaitOnLockEnqueue
<1>7. CASE WaitOnLockHalt(t)
  BY <1>7, OpMove DEF WaitOnLockHalt
<1>8. CASE WaitOnLockPut(t)
  BY <1>8, OpMove DEF WaitOnLockPut
<1>9. CASE WaitOnLockSleep(t)
  BY <1>9, OpMove DEF WaitOnLockSleep
<1>10. CASE WaitOnLockAwake(t)
  <2>1. CASE status[t] = "ON_DECK"
    BY <1>10, <2>1, OpMove DEF WaitOnLockAwake
  <2>2. CASE status[t] # "ON_DECK"
    BY <1>10, <2>2, FlowSame, PoolSame DEF WaitOnLockAwake, IndInv, flow
  <2> QED
    BY <2>1, <2>2
<1>11. CASE WaitOnLockReturn(t)
  BY <1>11, OpMove DEF WaitOnLockReturn
<1>12. CASE MutexUnlock(t)
  BY <1>12, CallMove DEF MutexUnlock
<1>13. CASE UnlockTry(t)
  BY <1>13, OpMove DEF UnlockTry
<1>14. CASE UnlockCommit(t)
  BY <1>14, OpMove DEF UnlockCommit
<1>15. ASSUME NEW newLow \in BOOLEAN, UnlockRelease(t, newLow) PROVE FlowOK' /\ PoolInv'
  BY <1>15, OpMove DEF UnlockRelease
<1>16. CASE SignalWaiters(t)
  BY <1>16, OpMove DEF SignalWaiters
<1> QED
  BY <1>1, <1>2, <1>3, <1>4, <1>5, <1>6, <1>7, <1>8, <1>9, <1>10, <1>11, <1>12, <1>13,
     <1>14, <1>15, <1>16 DEF MutexStep

(* FlowOK and PoolInv, through every step of cond_wait, cond_signal and    *)
(* cond_broadcast.                                                         *)
LEMMA CondStepFlow ==
  ASSUME IndInv, NEW t \in Threads, CondStep(t)
  PROVE  FlowOK' /\ PoolInv'
<1> USE DEF locals, pooling, Moves, SubLabels, OpLabels, PoolLabels
<1>1. CASE CondWait(t)
  BY <1>1, CallMove DEF CondWait
<1>2. CASE PredicateHolds(t)
  <2>1. pc[t] = "run" /\ UNCHANGED <<pc, ret, fn, handle>>
    BY <1>2 DEF PredicateHolds, Calls, flow
  <2>2. \A u \in Threads \ {t} : ip'[u] = ip[u]
    BY <1>2 DEF PredicateHolds, IndInv, TypeOK, LocalsType
  <2>4. FlowOK'
    <3>1. \A u \in Threads : InOp(u)' => InOp(u) /\ fn'[u] = fn[u] /\ ip'[u] = ip[u]
      BY <2>1, <2>2 DEF InOp, OpLabels, SubLabels
    <3>2. \A u \in Threads : At(u, "join_check")' => At(u, "join_check")
      BY <2>1 DEF At, SubLabels
    <3>3. \A h \in Handles : handle[h] # NULL => handle'[h] # NULL
      BY <2>1
    <3> QED
      BY <3>1, <3>2, <3>3, FlowKept DEF IndInv
  <2>5. PoolInv'
    BY <1>2, <2>1, PoolSame DEF PredicateHolds, IndInv
  <2> QED
    BY <2>4, <2>5
<1>3. CASE CondWaitHalt(t)
  BY <1>3, OpMove DEF CondWaitHalt
<1>4. CASE CondWaitAwake(t)
  BY <1>4, FlowSame, PoolSame DEF CondWaitAwake, IndInv, flow
<1>5. CASE CondWaitReturn(t)
  BY <1>5, OpMove DEF CondWaitReturn
<1>6. CASE CondWaitRelock(t)
  BY <1>6, OpMove DEF CondWaitRelock
<1>7. CASE CondSignal(t)
  BY <1>7, CallMove DEF CondSignal
<1>8. ASSUME NEW newLow \in BOOLEAN, CondWaitEnqueue(t, newLow) PROVE FlowOK' /\ PoolInv'
  BY <1>8, OpMove DEF CondWaitEnqueue
<1>9. ASSUME NEW newLow \in BOOLEAN, CondWake(t, newLow) PROVE FlowOK' /\ PoolInv'
  BY <1>9, OpMove DEF CondWake
<1> QED
  BY <1>1, <1>2, <1>3, <1>4, <1>5, <1>6, <1>7, <1>8, <1>9 DEF CondStep

(* FlowOK and PoolInv, through every step of spawn and the start of a      *)
(* thread.                                                                 *)
LEMMA SpawnStepFlow ==
  ASSUME IndInv, NEW t \in Threads, SpawnStep(t)
  PROVE  FlowOK' /\ PoolInv'
<1> USE DEF locals, pooling, Moves, SubLabels, OpLabels, PoolLabels
<1>1. CASE Spawn(t)
  BY <1>1, CallMove DEF Spawn
<1>2. CASE GetThread(t)
  <2> DEFINE c == IF pool # <<>> THEN Head(pool) ELSE id_counter + 1
  <2>1. /\ pc \in [Threads -> Labels] /\ ret \in [Threads -> Labels]
        /\ pool \in Seq(Threads) /\ id_counter \in Nat /\ child \in [Threads -> Threads]
        /\ fn \in [Threads -> FnNames] /\ ip \in [Threads -> Nat \ {0}]
        /\ pool_status \in [Threads -> PoolStatuses]
    BY DEF IndInv, TypeOK, FlowType, LocalsType, PoolingType
  <2>2. /\ pc[t] = "get_thread" /\ PoolHasRoom
        /\ pc' = [pc EXCEPT ![t] = "put"] /\ ret' = [ret EXCEPT ![t] = "fork"]
        /\ child' = [child EXCEPT ![t] = c]
        /\ fn' = [fn EXCEPT ![c] = CurOp(t).fn] /\ ip' = [ip EXCEPT ![c] = 1]
        /\ pool_status' = [pool_status EXCEPT ![c] =
                              IF pool_status[c] = "WAITING" THEN "READY" ELSE "INIT"]
        /\ UNCHANGED handle
        /\ pool # <<>> => pool' = Tail(pool) /\ id_counter' = id_counter
        /\ pool = <<>> => id_counter' = id_counter + 1 /\ pool' = pool
    BY <1>2 DEF GetThread, Call
  <2>3. pool # <<>> => /\ pool[1] = c /\ 1 \in 1 .. Len(pool)
                       /\ Tail(pool) \in Seq(Threads) /\ Len(Tail(pool)) = Len(pool) - 1
                       /\ \A i \in 1 .. Len(Tail(pool)) :
                             /\ i + 1 \in 1 .. Len(pool)
                             /\ Tail(pool)[i] = pool[i + 1]
    BY <2>1
  <2>4. pool = <<>> => c = id_counter + 1
    OBVIOUS
  <2>5. c \in Threads
    <3>1. CASE pool # <<>>
      BY <2>1, <3>1
    <3>2. CASE pool = <<>>
      BY <2>1, <2>2, <3>2, PoolAssumption DEF PoolHasRoom, Threads
    <3> QED
      BY <3>1, <3>2
  <2> HIDE DEF c
  <2>6. pc[c] \in PoolLabels \cup {"unborn"}
    <3>1. CASE pool # <<>>
      BY <2>3, <3>1 DEF IndInv, PoolInv
    <3>2. CASE pool = <<>>
      BY <2>1, <2>4, <2>5, <3>2 DEF IndInv, PoolInv, Threads
    <3> QED
      BY <3>1, <3>2
  <2>7. FlowOK'
    <3>1. \A u \in Threads \ {c} : fn'[u] = fn[u] /\ ip'[u] = ip[u]
      BY <2>1, <2>2
    <3>2. \A u \in Threads : InOp(u)' => InOp(u) /\ fn'[u] = fn[u] /\ ip'[u] = ip[u]
      BY <2>1, <2>2, <2>6, <3>1 DEF InOp, OpLabels, SubLabels, PoolLabels
    <3>3. \A u \in Threads : At(u, "join_check")' => At(u, "join_check")
      BY <2>1, <2>2 DEF At, SubLabels
    <3>4. \A h \in Handles : handle[h] # NULL => handle'[h] # NULL
      BY <2>2
    <3> QED
      BY <3>2, <3>3, <3>4, FlowKept DEF IndInv
  <2>8. \A u \in Threads : pc'[u] = pc[u] \/ (u = t /\ pc[t] = "get_thread")
    BY <2>1, <2>2
  <2>9. CASE pool # <<>>
    <3>1. \A i \in 1 .. Len(pool') : /\ i + 1 \in 1 .. Len(pool) /\ pool'[i] = pool[i + 1]
                                     /\ pool'[i] \in Threads /\ pool'[i] # c
      <4> SUFFICES ASSUME NEW i \in 1 .. Len(pool')
                   PROVE  /\ i + 1 \in 1 .. Len(pool) /\ pool'[i] = pool[i + 1]
                          /\ pool'[i] \in Threads /\ pool'[i] # c
        OBVIOUS
      <4>1. i + 1 \in 1 .. Len(pool) /\ pool'[i] = pool[i + 1] /\ i + 1 # 1
        BY <2>2, <2>3, <2>9
      <4>2. pool[i + 1] \in Threads
        BY <2>1, <4>1
      <4>3. pool[i + 1] # pool[1]
        BY <2>3, <2>9, <4>1 DEF IndInv, PoolInv
      <4> QED
        BY <2>3, <2>9, <4>1, <4>2, <4>3
    <3>2. \A i \in 1 .. Len(pool') : /\ pc'[pool'[i]] \in PoolLabels
                                     /\ pool_status'[pool'[i]] \in {"WAITING", "EXIT"}
      <4> SUFFICES ASSUME NEW i \in 1 .. Len(pool')
                   PROVE  /\ pc'[pool'[i]] \in PoolLabels
                          /\ pool_status'[pool'[i]] \in {"WAITING", "EXIT"}
        OBVIOUS
      <4>1. pc[pool'[i]] \in PoolLabels /\ pool_status[pool'[i]] \in {"WAITING", "EXIT"}
        BY <3>1 DEF IndInv, PoolInv
      <4>2. pool_status'[pool'[i]] = pool_status[pool'[i]]
        BY <2>1, <2>2, <3>1
      <4> QED
        BY <2>8, <3>1, <4>1, <4>2
    <3>3. \A i, j \in 1 .. Len(pool') : pool'[i] = pool'[j] => i = j
      <4> SUFFICES ASSUME NEW i \in 1 .. Len(pool'), NEW j \in 1 .. Len(pool'), pool'[i] = pool'[j]
                   PROVE  i = j
        OBVIOUS
      <4>1. i + 1 = j + 1
        BY <3>1 DEF IndInv, PoolInv
      <4> QED
        BY <4>1
    <3>4. \A u \in Threads : u > id_counter' => pc'[u] = "unborn"
      BY <2>2, <2>8, <2>9 DEF IndInv, PoolInv
    <3>5. c <= id_counter
      <4>1. pc[c] \in PoolLabels
        BY <2>3, <2>9 DEF IndInv, PoolInv
      <4>2. pc[c] # "unborn"
        BY <4>1 DEF PoolLabels
      <4>3. ~ (c > id_counter)
        BY <2>5, <4>2 DEF IndInv, PoolInv
      <4>4. c \in Int
        BY <2>5 DEF Threads
      <4> QED
        BY <2>1, <4>3, <4>4
    <3>6. \A u \in Threads : child'[u] <= id_counter'
      BY <2>1, <2>2, <2>9, <3>5 DEF IndInv, PoolInv
    <3> QED
      BY <2>7, <3>2, <3>3, <3>4, <3>6 DEF PoolInv
  <2>10. CASE pool = <<>>
    <3>1. Len(pool') = 0
      BY <2>2, <2>10
    <3>2. \A u \in Threads : u > id_counter' => pc'[u] = "unborn"
      BY <2>1, <2>2, <2>8, <2>10 DEF IndInv, PoolInv, Threads
    <3>3. \A u \in Threads : child'[u] <= id_counter'
      BY <2>1, <2>2, <2>4, <2>10 DEF IndInv, PoolInv, Threads
    <3> QED
      BY <2>7, <3>1, <3>2, <3>3 DEF PoolInv
  <2> QED
    BY <2>9, <2>10
<1>3. CASE PoolExhausted(t)
  BY <1>3, OpMove DEF PoolExhausted
<1>4. CASE Fork(t)
  <2>1. /\ pc \in [Threads -> Labels] /\ ret \in [Threads -> Labels]
        /\ pool \in Seq(Threads) /\ id_counter \in Nat /\ child[t] \in Threads
    BY DEF IndInv, TypeOK, FlowType, LocalsType, PoolingType
  <2>2. /\ pc[t] = "fork"
        /\ pc' = [pc EXCEPT ![t] = "is_lowest",
                            ![child[t]] = IF pool_status[child[t]] = "INIT" THEN "register"
                                          ELSE @]
        /\ ret' = [ret EXCEPT ![t] = "spawn_done"]
        /\ UNCHANGED <<fn, ip, handle, pool, id_counter, pool_status, child>>
    BY <1>4 DEF Fork
  <2>3. \A u \in Threads :
          \/ pc'[u] = pc[u] /\ u # t /\ ret'[u] = ret[u]
          \/ u = child[t] /\ pool_status[u] = "INIT" /\ pc'[u] = "register"
          \/ u = t /\ pc'[u] = "is_lowest" /\ ret'[u] = "spawn_done"
    BY <2>1, <2>2
  <2>4. FlowOK'
    <3>1. \A u \in Threads : InOp(u)' => InOp(u) /\ fn'[u] = fn[u] /\ ip'[u] = ip[u]
      BY <2>1, <2>2, <2>3 DEF InOp, OpLabels, SubLabels
    <3>2. \A u \in Threads : At(u, "join_check")' => At(u, "join_check")
      BY <2>1, <2>2, <2>3 DEF At, SubLabels
    <3>3. \A h \in Handles : handle[h] # NULL => handle'[h] # NULL
      BY <2>2
    <3> QED
      BY <3>1, <3>2, <3>3, FlowKept DEF IndInv
  <2>5. PoolInv'
    <3>1. \A i \in 1 .. Len(pool) : pool[i] \in Threads
      BY <2>1
    <3>2. \A i \in 1 .. Len(pool) : pc'[pool[i]] = pc[pool[i]]
      <4> SUFFICES ASSUME NEW i \in 1 .. Len(pool) PROVE pc'[pool[i]] = pc[pool[i]]
        OBVIOUS
      <4>1. pc[pool[i]] \in PoolLabels /\ pool_status[pool[i]] \in {"WAITING", "EXIT"}
        BY DEF IndInv, PoolInv
      <4> QED
        BY <2>2, <2>3, <3>1, <4>1
    <3>3. \A u \in Threads : u > id_counter => pc'[u] = "unborn"
      BY <2>1, <2>2, <2>3 DEF IndInv, PoolInv, Threads
    <3>4. \A i \in 1 .. Len(pool) : /\ pc'[pool[i]] \in PoolLabels
                                    /\ pool_status[pool[i]] \in {"WAITING", "EXIT"}
      BY <3>2 DEF IndInv, PoolInv
    <3>5. pool' = pool /\ pool_status' = pool_status /\ child' = child /\ id_counter' = id_counter
      BY <2>2
    <3> QED
      BY <3>3, <3>4, <3>5 DEF IndInv, PoolInv
  <2> QED
    BY <2>4, <2>5
<1>5. CASE SpawnDone(t)
  <2>1. /\ pc \in [Threads -> Labels] /\ ret \in [Threads -> Labels]
        /\ child[t] # NULL /\ handle \in [Handles -> Threads \cup {NULL}]
    BY MasterThread DEF IndInv, TypeOK, FlowType, LocalsType, PoolingType
  <2>2. /\ pc[t] = "spawn_done" /\ pc' = [pc EXCEPT ![t] = "put"]
        /\ ret' = [ret EXCEPT ![t] = "start"] /\ UNCHANGED <<fn, ip>>
    BY <1>5 DEF SpawnDone, Call
  <2>3. \A h \in Handles : handle[h] # NULL => handle'[h] # NULL
    BY <1>5, <2>1 DEF SpawnDone
  <2>5. FlowOK'
    <3>1. \A u \in Threads : InOp(u)' => InOp(u) /\ fn'[u] = fn[u] /\ ip'[u] = ip[u]
      BY <2>1, <2>2 DEF InOp, OpLabels, SubLabels
    <3>2. \A u \in Threads : At(u, "join_check")' => At(u, "join_check")
      BY <2>1, <2>2 DEF At, SubLabels
    <3>3. \A h \in Handles : handle[h] # NULL => handle'[h] # NULL
      BY <2>3
    <3> QED
      BY <3>1, <3>2, <3>3, FlowKept DEF IndInv
  <2>6. PoolInv'
    BY <1>5, PoolMove DEF SpawnDone, IndInv
  <2> QED
    BY <2>5, <2>6
<1>6. CASE Register(t)
  BY <1>6, FreeMove DEF Register
<1>7. CASE Registered(t)
  BY <1>7, FreeMove DEF Registered
<1>8. CASE RunThread(t)
  BY <1>8, FreeMove DEF RunThread
<1> QED
  BY <1>1, <1>2, <1>3, <1>4, <1>5, <1>6, <1>7, <1>8 DEF SpawnStep

(* FlowOK and PoolInv, through every step of the end of a thread and of    *)
(* the program.                                                            *)
LEMMA ExitStepFlow ==
  ASSUME IndInv, NEW t \in Threads, ExitStep(t)
  PROVE  FlowOK' /\ PoolInv'
<1> USE DEF locals, pooling, Moves, SubLabels, OpLabels, PoolLabels
<1>1. CASE ThreadDeregister(t)
  BY <1>1, FreeMove DEF ThreadDeregister
<1>2. CASE PoolAdd(t)
  <2>1. /\ pc \in [Threads -> Labels] /\ pool \in Seq(Threads)
        /\ pool_status \in [Threads -> PoolStatuses]
    BY DEF IndInv, TypeOK, FlowType, PoolingType
  <2>2. /\ pc[t] = "pool_add" /\ pc' = [pc EXCEPT ![t] = "deregister"]
        /\ UNCHANGED <<fn, ip, handle, child, id_counter>>
        /\ pool' = pool \/ pool' = Append(pool, t)
        /\ \/ pool_status' = [pool_status EXCEPT ![t] = "EXIT"]
           \/ pool_status' = [pool_status EXCEPT ![t] = "WAITING"]
    BY <1>2 DEF PoolAdd, Goto
  <2>3. FlowOK'
    BY <1>2, <2>2, FlowMove DEF PoolAdd, IndInv
  <2>4. \A u \in Threads \ {t} : pc'[u] = pc[u] /\ pool_status'[u] = pool_status[u]
    BY <2>1, <2>2
  <2>5. pc'[t] \in PoolLabels /\ pool_status'[t] \in {"WAITING", "EXIT"}
    BY <2>1, <2>2
  <2>6. \A i \in 1 .. Len(pool) : /\ pool[i] \in Threads \ {t} /\ pc[pool[i]] \in PoolLabels
                                  /\ pool_status[pool[i]] \in {"WAITING", "EXIT"}
    BY <2>1, <2>2 DEF IndInv, PoolInv
  <2>7. \A u \in Threads : u > id_counter => pc'[u] = "unborn"
    BY <2>2, <2>4 DEF IndInv, PoolInv
  <2>8. CASE pool' = pool
    BY <2>2, <2>3, <2>4, <2>6, <2>7, <2>8 DEF IndInv, PoolInv
  <2>9. CASE pool' = Append(pool, t)
    <3>1. Len(pool') = Len(pool) + 1 /\ Len(pool) \in Nat
      BY <2>1, <2>9
    <3>2. \A i \in 1 .. Len(pool') :
            \/ i \in 1 .. Len(pool) /\ pool'[i] = pool[i]
            \/ i = Len(pool) + 1 /\ pool'[i] = t
      BY <2>1, <2>9
    <3>3. \A i \in 1 .. Len(pool') : /\ pc'[pool'[i]] \in PoolLabels
                                     /\ pool_status'[pool'[i]] \in {"WAITING", "EXIT"}
      BY <2>4, <2>5, <2>6, <3>2
    <3>4. \A i, j \in 1 .. Len(pool') : pool'[i] = pool'[j] => i = j
      BY <2>6, <3>2 DEF IndInv, PoolInv
    <3> QED
      BY <2>2, <2>3, <2>7, <3>3, <3>4 DEF IndInv, PoolInv
  <2> QED
    BY <2>2, <2>8, <2>9
<1>3. CASE Deregister(t)
  BY <1>3, FreeMove DEF Deregister, LeaveForGood
<1>4. CASE DeregisterWake(t)
  BY <1>4, FreeMove DEF DeregisterWake
<1>5. CASE DeregisterSpin(t)
  BY <1>5, FreeMove DEF DeregisterSpin
<1>6. CASE DeregisterRelease(t)
  BY <1>6, FreeMove DEF DeregisterRelease, LeaveForGood
<1>7. CASE SetRetval(t)
  BY <1>7, FreeMove DEF SetRetval
<1>8. CASE Unpark(t)
  <2>1. CASE pool_status[t] = "EXIT"
    BY <1>8, <2>1, FreeMove DEF Unpark
  <2>2. CASE pool_status[t] # "EXIT"
    <3>1. FlowOK'
      BY <1>8, <2>2, FlowMove DEF Unpark, IndInv
    <3>2. pc \in [Threads -> Labels] /\ pool \in Seq(Threads)
      BY DEF IndInv, TypeOK, FlowType, PoolingType
    <3>3. /\ pc[t] = "park" /\ pc' = [pc EXCEPT ![t] = "register"]
          /\ UNCHANGED <<pool, id_counter, pool_status, child>>
      BY <1>8, <2>2 DEF Unpark, Goto
    <3>4. \A i \in 1 .. Len(pool) : pool[i] \in Threads \ {t}
      BY <1>8, <2>2, <3>2 DEF Unpark, IndInv, PoolInv
    <3> QED
      BY <3>1, <3>2, <3>3, <3>4 DEF IndInv, PoolInv
  <2> QED
    BY <2>1, <2>2
<1>9. CASE Done(t)
  BY <1>9, FreeMove DEF Done
<1>10. CASE Finalize(t)
  <2>1. /\ pc \in [Threads -> Labels] /\ pool \in Seq(Threads)
        /\ pool_status \in [Threads -> PoolStatuses]
    BY DEF IndInv, TypeOK, FlowType, PoolingType
  <2>2. FlowOK'
    BY <1>10, FlowMove DEF Finalize, IndInv
  <2>3. /\ pc[t] = "finalize" /\ pc' = [pc EXCEPT ![t] = "put"]
        /\ pool_status' = [u \in Threads |->
                              IF pool_status[u] = "WAITING" THEN "EXIT" ELSE pool_status[u]]
        /\ UNCHANGED <<pool, id_counter, child>>
    BY <1>10 DEF Finalize, Call
  <2>4. \A i \in 1 .. Len(pool) : /\ pool[i] \in Threads /\ pc[pool[i]] \in PoolLabels
                                  /\ pool_status[pool[i]] \in {"WAITING", "EXIT"}
    BY <2>1 DEF IndInv, PoolInv
  <2>5. \A i \in 1 .. Len(pool) : /\ pc'[pool[i]] \in PoolLabels
                                  /\ pool_status'[pool[i]] \in {"WAITING", "EXIT"}
    BY <2>1, <2>3, <2>4
  <2>6. \A u \in Threads : u > id_counter => pc'[u] = "unborn"
    BY <2>1, <2>3 DEF IndInv, PoolInv
  <2> QED
    BY <2>2, <2>3, <2>5, <2>6 DEF IndInv, PoolInv
<1> QED
  BY <1>1, <1>2, <1>3, <1>4, <1>5, <1>6, <1>7, <1>8, <1>9, <1>10 DEF ExitStep

(* FlowOK and PoolInv, through every step of join.                         *)
LEMMA JoinStepFlow ==
  ASSUME IndInv, NEW t \in Threads, JoinStep(t)
  PROVE  FlowOK' /\ PoolInv'
<1> USE DEF locals, pooling, Moves, SubLabels, OpLabels, PoolLabels
<1>1. CASE Join(t)
  BY <1>1, CallMove DEF Join
<1>2. CASE JoinCheck(t)
  BY <1>2, OpMove DEF JoinCheck
<1>3. CASE JoinAwake(t)
  <2>1. CASE status[joinee[t]] = "EXIT"
    BY <1>3, <2>1, OpMove DEF JoinAwake
  <2>2. CASE status[joinee[t]] # "EXIT"
    BY <1>3, <2>2, FlowSame, PoolSame DEF JoinAwake, IndInv, flow
  <2> QED
    BY <2>1, <2>2
<1>4. CASE JoinWoken(t)
  BY <1>4, OpMove DEF JoinWoken
<1>5. CASE JoinResult(t)
  BY <1>5, OpMove DEF JoinResult
<1> QED
  BY <1>1, <1>2, <1>3, <1>4, <1>5 DEF JoinStep

-----------------------------------------------------------------------------
(***************************************************************************)
(* The type invariant.                                                     *)
(***************************************************************************)
(* The inductive invariant holds when main starts.                         *)
LEMMA IndInit == Init => IndInv
<1> SUFFICES ASSUME Init PROVE IndInv
  OBVIOUS
<1>1. TypeOK
  BY InitType
<1>2. \A t \in Threads : pc[t] \in {"run", "unborn"}
  BY DEF Init
<1>3. FlowOK
  BY <1>2 DEF FlowOK, InOp, At, SubLabels, OpLabels
<1>4. PoolInv
  BY PoolAssumption DEF Init, PoolInv, Threads, Master
<1> QED
  BY <1>1, <1>3, <1>4 DEF IndInv

(* Every step keeps it.                                                    *)
LEMMA IndStep == IndInv /\ [Next]_vars => IndInv'
<1> SUFFICES ASSUME IndInv, [Next]_vars PROVE IndInv'
  OBVIOUS
<1>1. ASSUME NEW t \in Threads, ThreadStep(t) PROVE IndInv'
  <2>1. TypeOK'
    BY <1>1, GetTokenStepType, MutexStepType, CondStepType, SpawnStepType, ExitStepType,
       JoinStepType DEF ThreadStep, IndInv
  <2>2. FlowOK' /\ PoolInv'
    BY <1>1, GetTokenStepFlow, MutexStepFlow, CondStepFlow, SpawnStepFlow, ExitStepFlow,
       JoinStepFlow DEF ThreadStep
  <2> QED
    BY <2>1, <2>2 DEF IndInv
<1>2. ASSUME NEW t \in Threads, SpuriousWakeup(t) PROVE IndInv'
  <2>1. EntriesType'
    BY <1>2 DEF SpuriousWakeup, IndInv, TypeOK, EntriesType
  <2>2. TypeOK'
    BY <1>2, <2>1, Kept DEF SpuriousWakeup, IndInv, TypeOK
  <2>3. FlowOK' /\ PoolInv'
    BY <1>2, FlowSame, PoolSame DEF SpuriousWakeup, IndInv, flow, locals, pooling
  <2> QED
    BY <2>2, <2>3 DEF IndInv
<1>3. CASE UNCHANGED vars
  <2>1. TypeOK'
    BY <1>3, Kept DEF vars, IndInv, TypeOK
  <2>2. FlowOK' /\ PoolInv'
    BY <1>3, FlowSame, PoolSame DEF vars, IndInv, flow, locals, pooling
  <2> QED
    BY <2>1, <2>2 DEF IndInv
<1> QED
  BY <1>1, <1>2, <1>3 DEF Next, Terminated

(* Whatever the program and whatever the size of the pool, every variable  *)
(* has its type: get_thread never hands out an index outside _entries, no  *)
(* join is on a pthread_t that was never written, no wait queue holds      *)
(* anything but thread indices.                                            *)
THEOREM TypeCorrect == Spec => []TypeOK
<1>1. Spec => []IndInv
  BY IndInit, IndStep, PTL DEF Spec
<1>2. IndInv => TypeOK
  BY DEF IndInv
<1> QED
  BY <1>1, <1>2, PTL

-----------------------------------------------------------------------------
(***************************************************************************)
(* The token and the mutexes, for a build without SINGLE_THREAD_OPT: every *)
(* program, every pool size, every answer of the logical clock.  The       *)
(* optimisation is left out because with it, and with threads of the pool  *)
(* that are reused, mutual exclusion does not hold.                        *)
(***************************************************************************)

(***************************************************************************)
(* Where a thread is, and what its copy of _token_holding says there.      *)
(***************************************************************************)

(* Inside getToken, up to the fast-forward of waitToken.                   *)
WaitLabels ==
  {"is_lowest", "read_lowest", "read_higher", "is_lowest_wait", "cas",
   "check_activation", "fast_forward"}

(* Where getToken and putToken return to.                                  *)
WaitRets ==
  {"lock_acquire", "unlock_commit", "cw_enqueue", "cond_wake", "get_thread",
   "spawn_done", "registered", "pool_add", "join_check", "join_woken", "finalize"}

PutRets == {"start", "fork", "begin", "join_result", "gone"}

(* xrun believes it holds the token: it does, or determ released it before *)
(* a sleep and xrun has not noticed yet.                                   *)
BelieveLabels ==
  {"put", "lock_acquire", "lock_set", "wl_enqueue", "wl_halt", "wl_put", "wl_spin",
   "wl_asleep", "unlock_commit", "unlock_release", "signal_waiters", "cw_enqueue",
   "cw_halt", "cw_asleep", "cw_woken", "cond_wake", "get_thread", "spawn_done",
   "registered", "join_check", "join_asleep", "join_woken", "pool_add", "deregister",
   "ex_spin", "ex_release", "set_retval", "park", "finalize"}

(* xrun knows it does not.                                                 *)
FreeLabels == {"run", "start", "lock_try", "unlock_try", "fork", "begin", "join_result"}

SyncLabels == TokenLabels \cup LoneLabels

(* The thread's own view of the token.                                     *)
Local(t) ==
  /\ ~is_single[t]
  /\ pc[t] \in BelieveLabels => token_holding[t]
  /\ pc[t] \in FreeLabels => ~token_holding[t]
  /\ pc[t] \in WaitLabels =>
       /\ ret[t] \in WaitRets
       /\ token_holding[t] <=> ret[t] = "join_woken"
  /\ pc[t] = "put" => ret[t] \in PutRets

(* determ's view of it.                                                    *)
Global(t) == pc[t] # "error" => (tokenpos = t <=> pc[t] \in SyncLabels)

TokenInv == \A t \in Threads : Local(t) /\ Global(t)

(* A fresh entry has no process until its only creator forks it.           *)
ForkInv ==
  /\ \A t \in Threads :
       At(t, "fork") /\ pool_status[child[t]] = "INIT" => pc[child[t]] = "unborn"
  /\ \A t, u \in Threads :
       At(t, "fork") /\ At(u, "fork") /\ child[t] = child[u] /\ t # u =>
         pool_status[child[t]] # "INIT"
  /\ ~master_finished => \A i \in 1 .. Len(pool) : pool_status[pool[i]] = "WAITING"

(* On the way to lock_release.                                             *)
Releasing(t) ==
  \/ pc[t] \in {"unlock_try", "unlock_release"}
  \/ At(t, "unlock_commit")
  \/ At(t, "cw_enqueue")

MutexInv ==
  /\ \A t \in Threads : \A m \in held[t] : is_acquired[m]
  /\ MutualExclusion
  /\ \A t \in Threads : pc[t] = "lock_set" => ~is_acquired[CurOp(t).m]
  /\ \A t \in Threads : Releasing(t) => CurOp(t).m \in held[t]

SafeInv == TokenInv /\ ForkInv /\ MutexInv

-----------------------------------------------------------------------------
(***************************************************************************)
(* What a step of one thread has to show.                                  *)
(***************************************************************************)

(* Only t's own control and locals change.                                 *)
OthersStay(t) ==
  \A u \in Threads \ {t} :
    /\ pc'[u] = pc[u] /\ ret'[u] = ret[u]
    /\ token_holding'[u] = token_holding[u] /\ is_single'[u] = is_single[u]

(* The token goes along with t's control.                                  *)
TokenGoesAlong(t) ==
  \/ /\ tokenpos' = tokenpos
     /\ pc'[t] # "error" =>
          pc[t] # "error" /\ (pc'[t] \in SyncLabels <=> pc[t] \in SyncLabels)
  \/ tokenpos = NULL /\ tokenpos' = t /\ pc'[t] \in SyncLabels
  \/ tokenpos = t /\ tokenpos' = NULL /\ pc'[t] \notin SyncLabels

(* A step of t keeps TokenInv if t's own view is right and the token goes  *)
(* along.                                                                  *)
LEMMA TokenMove ==
  ASSUME TokenInv, NEW t \in Threads, OthersStay(t), Local(t)', TokenGoesAlong(t)
  PROVE  TokenInv'
<1> SUFFICES ASSUME NEW u \in Threads PROVE Local(u)' /\ Global(u)'
  BY DEF TokenInv
<1>1. NULL \notin Threads
  BY MasterThread
<1>2. CASE u = t
  BY <1>1, <1>2 DEF TokenGoesAlong, TokenInv, Global
<1>3. CASE u # t
  <2>1. /\ pc'[u] = pc[u] /\ ret'[u] = ret[u]
        /\ token_holding'[u] = token_holding[u] /\ is_single'[u] = is_single[u]
    BY <1>3 DEF OthersStay
  <2>2. Local(u)'
    BY <2>1 DEF TokenInv, Local
  <2>3. Global(u)'
    BY <1>1, <1>3, <2>1 DEF TokenGoesAlong, TokenInv, Global
  <2> QED
    BY <2>2, <2>3
<1> QED
  BY <1>2, <1>3

(* A step of t that neither creates a thread nor touches the pool keeps    *)
(* ForkInv.                                                                *)
LEMMA ForkMove ==
  ASSUME TypeOK, ForkInv, NEW t \in Threads, OthersStay(t), pc[t] # "unborn",
         At(t, "fork")' => At(t, "fork"),
         UNCHANGED <<pool, pool_status, child, master_finished>>
  PROVE  ForkInv'
<1>1. \A u \in Threads : At(u, "fork")' => At(u, "fork")
  BY DEF OthersStay, At
<1>2. \A u \in Threads : pc[u] = "unborn" => pc'[u] = "unborn"
  BY DEF OthersStay
<1>3. child \in [Threads -> Threads]
  BY DEF TypeOK, LocalsType
<1>4. \A u \in Threads : At(u, "fork")' /\ pool_status[child[u]] = "INIT" =>
        pc'[child[u]] = "unborn"
  <2> SUFFICES ASSUME NEW u \in Threads, At(u, "fork")', pool_status[child[u]] = "INIT"
               PROVE  pc'[child[u]] = "unborn"
    OBVIOUS
  <2>1. At(u, "fork")
    BY DEF OthersStay, At
  <2> QED
    BY <1>2, <1>3, <2>1 DEF ForkInv
<1>5. \A u, v \in Threads :
        At(u, "fork")' /\ At(v, "fork")' /\ child[u] = child[v] /\ u # v =>
          pool_status[child[u]] # "INIT"
  <2> SUFFICES ASSUME NEW u \in Threads, NEW v \in Threads, At(u, "fork")', At(v, "fork")',
                      child[u] = child[v], u # v
               PROVE  pool_status[child[u]] # "INIT"
    OBVIOUS
  <2>1. At(u, "fork") /\ At(v, "fork")
    BY DEF OthersStay, At
  <2> QED
    BY <2>1 DEF ForkInv
<1> QED
  BY <1>4, <1>5 DEF ForkInv

(* A step of t that neither takes nor releases a mutex keeps MutexInv.     *)
LEMMA MutexMove ==
  ASSUME MutexInv, NEW t \in Threads, OthersStay(t),
         UNCHANGED <<fn, ip, held, is_acquired>>,
         pc'[t] = "lock_set" => ~is_acquired[CurOp(t).m],
         Releasing(t)' => CurOp(t).m \in held[t]
  PROVE  MutexInv'
<1>1. \A u \in Threads : CurOp(u)' = CurOp(u)
  BY DEF CurOp
<1>2. \A u \in Threads : pc'[u] = "lock_set" => ~is_acquired[CurOp(u).m]
  BY DEF OthersStay, MutexInv
<1>3. \A u \in Threads : Releasing(u)' => CurOp(u).m \in held[u]
  BY DEF OthersStay, MutexInv, Releasing, At
<1> QED
  BY <1>1, <1>2, <1>3 DEF MutexInv, MutualExclusion

(* Outside every pthread call.                                             *)
OutLabels == PoolLabels \cup {"unborn", "run", "register"}

(* A thread that gets a new start routine, or goes on to its next call, is *)
(* outside every call.                                                     *)
LEMMA MutexOut ==
  ASSUME MutexInv, NEW t \in Threads, OthersStay(t), UNCHANGED <<held, is_acquired>>,
         \A u \in Threads : (fn'[u] = fn[u] /\ ip'[u] = ip[u]) \/ pc'[u] \in OutLabels,
         pc'[t] # "lock_set", ~Releasing(t)'
  PROVE  MutexInv'
<1>1. ASSUME NEW u \in Threads
      PROVE  /\ pc'[u] = "lock_set" => ~is_acquired'[CurOp(u)'.m]
             /\ Releasing(u)' => CurOp(u)'.m \in held'[u]
  <2>1. CASE u = t
    BY <2>1
  <2>2. CASE u # t /\ fn'[u] = fn[u] /\ ip'[u] = ip[u]
    <3>1. CurOp(u)' = CurOp(u)
      BY <2>2 DEF CurOp
    <3>2. pc'[u] = pc[u] /\ ret'[u] = ret[u]
      BY <2>2 DEF OthersStay
    <3> QED
      BY <3>1, <3>2 DEF MutexInv, Releasing, At
  <2>3. CASE pc'[u] \in OutLabels
    BY <2>3 DEF OutLabels, PoolLabels, Releasing, At, SubLabels
  <2> QED
    BY <2>1, <2>2, <2>3
<1> QED
  BY <1>1 DEF MutexInv, MutualExclusion

(* lock_release: the mutex was t's and nobody else's.                      *)
LEMMA MutexRelease ==
  ASSUME TypeOK, MutexInv, NEW t \in Threads, OthersStay(t), UNCHANGED <<fn, ip>>,
         NEW m \in Mutexes, m \in held[t],
         is_acquired' = [is_acquired EXCEPT ![m] = FALSE],
         held' = [held EXCEPT ![t] = @ \ {m}],
         pc'[t] = "signal_waiters"
  PROVE  MutexInv'
<1>1. held \in [Threads -> SUBSET Mutexes] /\ is_acquired \in [Mutexes -> BOOLEAN]
  BY DEF TypeOK, LocalsType, SyncsType
<1>2. \A u \in Threads : m \notin held'[u] /\ held'[u] \subseteq held[u]
  BY <1>1 DEF MutexInv, MutualExclusion
<1>3. \A u \in Threads : \A k \in held'[u] : is_acquired'[k]
  BY <1>1, <1>2 DEF MutexInv
<1>4. MutualExclusion'
  BY <1>2 DEF MutexInv, MutualExclusion
<1>5. ASSUME NEW u \in Threads
      PROVE  /\ pc'[u] = "lock_set" => ~is_acquired'[CurOp(u)'.m]
             /\ Releasing(u)' => CurOp(u)'.m \in held'[u]
  <2>1. CASE u = t
    BY <2>1 DEF Releasing, At, SubLabels
  <2>2. CASE u # t
    <3>1. CurOp(u)' = CurOp(u) /\ held'[u] = held[u]
      BY <1>1, <2>2 DEF CurOp
    <3>2. pc'[u] = pc[u] /\ ret'[u] = ret[u]
      BY <2>2 DEF OthersStay
    <3>3. \A k : ~is_acquired[k] => ~is_acquired'[k]
      BY <1>1
    <3> QED
      BY <3>1, <3>2, <3>3 DEF MutexInv, Releasing, At
  <2> QED
    BY <2>1, <2>2
<1> QED
  BY <1>3, <1>4, <1>5 DEF MutexInv

(* SafeInv, through every step of getToken, waitToken, putToken and        *)
(* startClock.                                                             *)
LEMMA GetTokenStepSafe ==
  ASSUME SingleThreadOpt = FALSE, IndInv, SafeInv, NEW t \in Threads, GetTokenStep(t)
  PROVE  SafeInv'
<1> USE DEF flow, locals, token, syncs, pooling
<1>a. /\ pc \in [Threads -> Labels] /\ ret \in [Threads -> Labels]
      /\ token_holding \in [Threads -> BOOLEAN] /\ is_single \in [Threads -> BOOLEAN]
  BY DEF IndInv, TypeOK, FlowType, LocalsType
<1>b. Local(t) /\ Global(t) /\ TypeOK /\ TokenInv /\ ForkInv /\ MutexInv
  BY DEF IndInv, SafeInv, TokenInv
<1>1. ASSUME NEW low \in BOOLEAN, IsLowest(t, low) PROVE SafeInv'
  <2>1. OthersStay(t)
    BY <1>1, <1>a DEF IsLowest, Goto, OthersStay
  <2>2. Local(t)'
    BY <1>1, <1>a, <1>b DEF IsLowest, Goto, Local, BelieveLabels, FreeLabels, WaitLabels,
       WaitRets, PutRets
  <2>3. TokenGoesAlong(t)
    BY <1>1, <1>a, <1>b DEF IsLowest, Goto, Local, Global, TokenGoesAlong, SyncLabels,
       TokenLabels, LoneLabels, BelieveLabels, FreeLabels, WaitLabels, WaitRets, PutRets
  <2>4. ForkInv'
    BY <1>1, <1>a, <1>b, <2>1, ForkMove DEF IsLowest, Goto, At, SubLabels
  <2>5. MutexInv'
    BY <1>1, <1>a, <1>b, <2>1, MutexMove DEF IsLowest, Goto, Releasing, At, SubLabels,
       MutexInv
  <2> QED
    BY <1>b, <2>1, <2>2, <2>3, <2>4, <2>5, TokenMove DEF SafeInv
<1>2. CASE ReadActivation(t)
  <2>1. OthersStay(t)
    BY <1>2, <1>a DEF ReadActivation, Goto, OthersStay
  <2>2. Local(t)'
    BY <1>2, <1>a, <1>b DEF ReadActivation, Goto, Local, BelieveLabels, FreeLabels,
       WaitLabels, WaitRets, PutRets
  <2>3. TokenGoesAlong(t)
    BY <1>2, <1>a, <1>b DEF ReadActivation, Goto, Local, Global, TokenGoesAlong,
       SyncLabels, TokenLabels, LoneLabels, BelieveLabels, FreeLabels, WaitLabels,
       WaitRets, PutRets
  <2>4. ForkInv'
    BY <1>2, <1>a, <1>b, <2>1, ForkMove DEF ReadActivation, Goto, At, SubLabels
  <2>5. MutexInv'
    BY <1>2, <1>a, <1>b, <2>1, MutexMove DEF ReadActivation, Goto, Releasing, At,
       SubLabels, MutexInv
  <2> QED
    BY <1>b, <2>1, <2>2, <2>3, <2>4, <2>5, TokenMove DEF SafeInv
<1>3. CASE IsLowestWait(t)
  <2>1. OthersStay(t)
    BY <1>3, <1>a DEF IsLowestWait, Goto, OthersStay
  <2>2. Local(t)'
    BY <1>3, <1>a, <1>b DEF IsLowestWait, Goto, Local, BelieveLabels, FreeLabels,
       WaitLabels, WaitRets, PutRets
  <2>3. TokenGoesAlong(t)
    BY <1>3, <1>a, <1>b DEF IsLowestWait, Goto, Local, Global, TokenGoesAlong, SyncLabels,
       TokenLabels, LoneLabels, BelieveLabels, FreeLabels, WaitLabels, WaitRets, PutRets
  <2>4. ForkInv'
    BY <1>3, <1>a, <1>b, <2>1, ForkMove DEF IsLowestWait, Goto, At, SubLabels
  <2>5. MutexInv'
    BY <1>3, <1>a, <1>b, <2>1, MutexMove DEF IsLowestWait, Goto, Releasing, At, SubLabels,
       MutexInv
  <2> QED
    BY <1>b, <2>1, <2>2, <2>3, <2>4, <2>5, TokenMove DEF SafeInv
<1>4. CASE CompareAndSwap(t)
  <2>1. OthersStay(t)
    BY <1>4, <1>a DEF CompareAndSwap, Goto, OthersStay
  <2>2. Local(t)'
    BY <1>4, <1>a, <1>b DEF CompareAndSwap, Goto, Local, BelieveLabels, FreeLabels,
       WaitLabels, WaitRets, PutRets
  <2>3. TokenGoesAlong(t)
    BY <1>4, <1>a, <1>b DEF CompareAndSwap, Goto, Local, Global, TokenGoesAlong,
       SyncLabels, TokenLabels, LoneLabels, BelieveLabels, FreeLabels, WaitLabels,
       WaitRets, PutRets
  <2>4. ForkInv'
    BY <1>4, <1>a, <1>b, <2>1, ForkMove DEF CompareAndSwap, Goto, At, SubLabels
  <2>5. MutexInv'
    BY <1>4, <1>a, <1>b, <2>1, MutexMove DEF CompareAndSwap, Goto, Releasing, At,
       SubLabels, MutexInv
  <2> QED
    BY <1>b, <2>1, <2>2, <2>3, <2>4, <2>5, TokenMove DEF SafeInv
<1>5. CASE CheckActivation(t)
  <2>1. OthersStay(t)
    BY <1>5, <1>a DEF CheckActivation, Goto, OthersStay
  <2>2. Local(t)'
    BY <1>5, <1>a, <1>b DEF CheckActivation, Goto, Local, BelieveLabels, FreeLabels,
       WaitLabels, WaitRets, PutRets
  <2>3. TokenGoesAlong(t)
    BY <1>5, <1>a, <1>b DEF CheckActivation, Goto, Local, Global, TokenGoesAlong,
       SyncLabels, TokenLabels, LoneLabels, BelieveLabels, FreeLabels, WaitLabels,
       WaitRets, PutRets
  <2>4. ForkInv'
    BY <1>5, <1>a, <1>b, <2>1, ForkMove DEF CheckActivation, Goto, At, SubLabels
  <2>5. MutexInv'
    BY <1>5, <1>a, <1>b, <2>1, MutexMove DEF CheckActivation, Goto, Releasing, At,
       SubLabels, MutexInv, Local, PutRets, WaitLabels, WaitRets
  <2> QED
    BY <1>b, <2>1, <2>2, <2>3, <2>4, <2>5, TokenMove DEF SafeInv
<1>6. CASE FastForward(t)
  <2>1. OthersStay(t)
    BY <1>6, <1>a DEF FastForward, Goto, OthersStay
  <2>2. Local(t)'
    BY <1>6, <1>a, <1>b DEF FastForward, Goto, Local, BelieveLabels, FreeLabels,
       WaitLabels, WaitRets, PutRets
  <2>3. TokenGoesAlong(t)
    BY <1>6, <1>a, <1>b DEF FastForward, Goto, Local, Global, TokenGoesAlong, SyncLabels,
       TokenLabels, LoneLabels, BelieveLabels, FreeLabels, WaitLabels, WaitRets, PutRets
  <2>4. ForkInv'
    BY <1>6, <1>a, <1>b, <2>1, ForkMove DEF FastForward, Goto, At, SubLabels
  <2>5. MutexInv'
    BY <1>6, <1>a, <1>b, <2>1, MutexMove DEF FastForward, Goto, Releasing, At, SubLabels,
       MutexInv, Local, PutRets, WaitLabels, WaitRets
  <2> QED
    BY <1>b, <2>1, <2>2, <2>3, <2>4, <2>5, TokenMove DEF SafeInv
<1>7. CASE PutToken(t)
  <2>1. OthersStay(t)
    BY <1>7, <1>a DEF PutToken, Goto, ReleaseToken, OthersStay
  <2>2. Local(t)'
    BY <1>7, <1>a, <1>b DEF PutToken, Goto, ReleaseToken, Local, BelieveLabels, FreeLabels,
       WaitLabels, WaitRets, PutRets
  <2>3. TokenGoesAlong(t)
    BY <1>7, <1>a, <1>b DEF PutToken, Goto, ReleaseToken, Local, Global, TokenGoesAlong,
       SyncLabels, TokenLabels, LoneLabels, BelieveLabels, FreeLabels, WaitLabels,
       WaitRets, PutRets
  <2>4. ForkInv'
    BY <1>7, <1>a, <1>b, <2>1, ForkMove DEF PutToken, Goto, ReleaseToken, At, SubLabels
  <2>5. MutexInv'
    BY <1>7, <1>a, <1>b, <2>1, MutexMove DEF PutToken, Goto, ReleaseToken, Releasing, At,
       SubLabels, MutexInv, Local, PutRets, WaitLabels, WaitRets
  <2> QED
    BY <1>b, <2>1, <2>2, <2>3, <2>4, <2>5, TokenMove DEF SafeInv
<1>8. CASE StartClock(t)
  <2>1. OthersStay(t)
    BY <1>8, <1>a DEF StartClock, Goto, OthersStay
  <2>2. Local(t)'
    BY <1>8, <1>a, <1>b DEF StartClock, Goto, Local, BelieveLabels, FreeLabels, WaitLabels,
       WaitRets, PutRets
  <2>3. TokenGoesAlong(t)
    BY <1>8, <1>a, <1>b DEF StartClock, Goto, Local, Global, TokenGoesAlong, SyncLabels,
       TokenLabels, LoneLabels, BelieveLabels, FreeLabels, WaitLabels, WaitRets, PutRets
  <2>4. ForkInv'
    BY <1>8, <1>a, <1>b, <2>1, ForkMove DEF StartClock, Goto, At, SubLabels
  <2>5. MutexInv'
    <3>1. \A u \in Threads : (fn'[u] = fn[u] /\ ip'[u] = ip[u]) \/ pc'[u] \in OutLabels
      BY <1>8, <1>a DEF StartClock, Goto, OutLabels, IndInv, TypeOK, LocalsType
    <3>2. pc'[t] # "lock_set" /\ ~Releasing(t)'
      BY <1>8, <1>a DEF StartClock, Goto, Releasing, At, SubLabels
    <3> QED
      BY <1>8, <1>b, <2>1, <3>1, <3>2, MutexOut DEF StartClock
  <2> QED
    BY <1>b, <2>1, <2>2, <2>3, <2>4, <2>5, TokenMove DEF SafeInv
<1> QED
  BY <1>1, <1>2, <1>3, <1>4, <1>5, <1>6, <1>7, <1>8 DEF GetTokenStep

(* SafeInv, through every step of mutex_lock and mutex_unlock.             *)
LEMMA MutexStepSafe ==
  ASSUME SingleThreadOpt = FALSE, IndInv, SafeInv, NEW t \in Threads, MutexStep(t)
  PROVE  SafeInv'
<1> USE DEF flow, locals, token, syncs, pooling
<1>a. /\ pc \in [Threads -> Labels] /\ ret \in [Threads -> Labels]
      /\ token_holding \in [Threads -> BOOLEAN] /\ is_single \in [Threads -> BOOLEAN]
  BY DEF IndInv, TypeOK, FlowType, LocalsType
<1>b. Local(t) /\ Global(t) /\ TypeOK /\ TokenInv /\ ForkInv /\ MutexInv
  BY DEF IndInv, SafeInv, TokenInv
<1>1. CASE MutexLock(t)
  <2>1. OthersStay(t)
    BY <1>1, <1>a DEF MutexLock, Goto, Calls, OthersStay
  <2>2. Local(t)'
    BY <1>1, <1>a, <1>b DEF MutexLock, Goto, Calls, Local, BelieveLabels, FreeLabels,
       WaitLabels, WaitRets, PutRets
  <2>3. TokenGoesAlong(t)
    BY <1>1, <1>a, <1>b DEF MutexLock, Goto, Calls, Local, Global, TokenGoesAlong,
       SyncLabels, TokenLabels, LoneLabels, BelieveLabels, FreeLabels, WaitLabels,
       WaitRets, PutRets
  <2>4. ForkInv'
    BY <1>1, <1>a, <1>b, <2>1, ForkMove DEF MutexLock, Goto, Calls, At, SubLabels
  <2>5. MutexInv'
    BY <1>1, <1>a, <1>b, <2>1, MutexMove DEF MutexLock, Goto, Calls, Releasing, At,
       SubLabels, MutexInv
  <2> QED
    BY <1>b, <2>1, <2>2, <2>3, <2>4, <2>5, TokenMove DEF SafeInv
<1>2. CASE LockTry(t)
  <2>1. OthersStay(t)
    BY <1>2, <1>a DEF LockTry, Goto, WaitToken, NeedsToken, SingleActiveThread, Call,
       OthersStay
  <2>2. Local(t)'
    BY <1>2, <1>a, <1>b DEF LockTry, Goto, WaitToken, NeedsToken, SingleActiveThread, Call,
       Local, BelieveLabels, FreeLabels, WaitLabels, WaitRets, PutRets
  <2>3. TokenGoesAlong(t)
    BY <1>2, <1>a, <1>b DEF LockTry, Goto, WaitToken, NeedsToken, SingleActiveThread, Call,
       Local, Global, TokenGoesAlong, SyncLabels, TokenLabels, LoneLabels, BelieveLabels,
       FreeLabels, WaitLabels, WaitRets, PutRets
  <2>4. ForkInv'
    BY <1>2, <1>a, <1>b, <2>1, ForkMove DEF LockTry, Goto, WaitToken, NeedsToken,
       SingleActiveThread, Call, At, SubLabels
  <2>5. MutexInv'
    BY <1>2, <1>a, <1>b, <2>1, MutexMove DEF LockTry, Goto, WaitToken, NeedsToken,
       SingleActiveThread, Call, Releasing, At, SubLabels, MutexInv
  <2> QED
    BY <1>b, <2>1, <2>2, <2>3, <2>4, <2>5, TokenMove DEF SafeInv
<1>3. CASE LockAcquire(t)
  <2>1. OthersStay(t)
    BY <1>3, <1>a DEF LockAcquire, Goto, OthersStay
  <2>2. Local(t)'
    BY <1>3, <1>a, <1>b DEF LockAcquire, Goto, Local, BelieveLabels, FreeLabels,
       WaitLabels, WaitRets, PutRets
  <2>3. TokenGoesAlong(t)
    BY <1>3, <1>a, <1>b DEF LockAcquire, Goto, Local, Global, TokenGoesAlong, SyncLabels,
       TokenLabels, LoneLabels, BelieveLabels, FreeLabels, WaitLabels, WaitRets, PutRets
  <2>4. ForkInv'
    BY <1>3, <1>a, <1>b, <2>1, ForkMove DEF LockAcquire, Goto, At, SubLabels
  <2>5. MutexInv'
    BY <1>3, <1>a, <1>b, <2>1, MutexMove DEF LockAcquire, Goto, Releasing, At, SubLabels,
       MutexInv
  <2> QED
    BY <1>b, <2>1, <2>2, <2>3, <2>4, <2>5, TokenMove DEF SafeInv
<1>4. CASE LockSet(t)
  <2>1. OthersStay(t)
    BY <1>4, <1>a DEF LockSet, Goto, Call, OthersStay
  <2>2. Local(t)'
    BY <1>4, <1>a, <1>b DEF LockSet, Goto, Call, Local, BelieveLabels, FreeLabels,
       WaitLabels, WaitRets, PutRets
  <2>3. TokenGoesAlong(t)
    BY <1>4, <1>a, <1>b DEF LockSet, Goto, Call, Local, Global, TokenGoesAlong, SyncLabels,
       TokenLabels, LoneLabels, BelieveLabels, FreeLabels, WaitLabels, WaitRets, PutRets
  <2>4. ForkInv'
    BY <1>4, <1>a, <1>b, <2>1, ForkMove DEF LockSet, Goto, Call, At, SubLabels
  <2>5. MutexInv'
    <3> DEFINE m == CurOp(t).m
    <3>1. /\ pc[t] = "lock_set" /\ ~is_acquired[m]
          /\ is_acquired' = [is_acquired EXCEPT ![m] = TRUE]
          /\ held' = [held EXCEPT ![t] = @ \cup {m}]
          /\ UNCHANGED <<fn, ip>>
      BY <1>4, <1>b DEF LockSet, MutexInv
    <3>2. /\ held \in [Threads -> SUBSET Mutexes] /\ is_acquired \in [Mutexes -> BOOLEAN]
          /\ m \in Mutexes
      BY <3>1, InOpType DEF IndInv, TypeOK, LocalsType, SyncsType, OpLabels, Op
    <3>3. pc'[t] # "lock_set" /\ ~Releasing(t)'
      BY <1>4, <1>a DEF LockSet, Goto, Call, Releasing, At, SubLabels
    <3>4. \A u \in Threads : pc[u] = "lock_set" => u = t
      BY <1>b, <3>1, MasterThread DEF TokenInv, Global, SyncLabels, LoneLabels
    <3>5. \A u \in Threads : pc'[u] # "lock_set"
      BY <2>1, <3>3, <3>4 DEF OthersStay
    <3> HIDE DEF m
    <3>6. \A u \in Threads : m \notin held[u]
      BY <1>b, <3>1 DEF MutexInv
    <3>7. \A u \in Threads : held'[u] = IF u = t THEN held[u] \cup {m} ELSE held[u]
      BY <3>1, <3>2
    <3>8. \A k \in Mutexes : is_acquired'[k] <=> is_acquired[k] \/ k = m
      BY <3>1, <3>2
    <3>9. \A u \in Threads : \A k \in held'[u] : is_acquired'[k]
      <4> SUFFICES ASSUME NEW u \in Threads, NEW k \in held'[u] PROVE is_acquired'[k]
        OBVIOUS
      <4>1. k \in Mutexes /\ (k \in held[u] \/ k = m)
        BY <3>2, <3>7
      <4>2. k \in held[u] => is_acquired[k]
        BY <1>b DEF MutexInv
      <4> QED
        BY <3>8, <4>1, <4>2
    <3>10. MutualExclusion'
      <4> SUFFICES ASSUME NEW u \in Threads, NEW v \in Threads, u # v
                   PROVE  held'[u] \cap held'[v] = {}
        BY DEF MutualExclusion
      <4>1. held[u] \cap held[v] = {} /\ m \notin held[u] /\ m \notin held[v]
        BY <1>b, <3>6 DEF MutexInv, MutualExclusion
      <4> QED
        BY <3>7, <4>1
    <3>11. ASSUME NEW u \in Threads, Releasing(u)' PROVE CurOp(u)'.m \in held'[u]
      <4>1. u # t
        BY <3>3, <3>11
      <4>2. Releasing(u)
        BY <2>1, <3>11, <4>1 DEF OthersStay, Releasing, At
      <4>3. CurOp(u)' = CurOp(u)
        BY <3>1 DEF CurOp
      <4> QED
        BY <1>b, <3>7, <4>2, <4>3 DEF MutexInv
    <3> QED
      BY <3>5, <3>9, <3>10, <3>11 DEF MutexInv
  <2> QED
    BY <1>b, <2>1, <2>2, <2>3, <2>4, <2>5, TokenMove DEF SafeInv
<1>5. CASE LockFailed(t)
  <2>1. OthersStay(t)
    BY <1>5, <1>a DEF LockFailed, Goto, OthersStay
  <2>2. Local(t)'
    BY <1>5, <1>a, <1>b DEF LockFailed, Goto, Local, BelieveLabels, FreeLabels, WaitLabels,
       WaitRets, PutRets
  <2>3. TokenGoesAlong(t)
    BY <1>5, <1>a, <1>b DEF LockFailed, Goto, Local, Global, TokenGoesAlong, SyncLabels,
       TokenLabels, LoneLabels, BelieveLabels, FreeLabels, WaitLabels, WaitRets, PutRets
  <2>4. ForkInv'
    BY <1>5, <1>a, <1>b, <2>1, ForkMove DEF LockFailed, Goto, At, SubLabels
  <2>5. MutexInv'
    BY <1>5, <1>a, <1>b, <2>1, MutexMove DEF LockFailed, Goto, Releasing, At, SubLabels,
       MutexInv
  <2> QED
    BY <1>b, <2>1, <2>2, <2>3, <2>4, <2>5, TokenMove DEF SafeInv
<1>6. CASE WaitOnLockEnqueue(t)
  <2>1. OthersStay(t)
    BY <1>6, <1>a DEF WaitOnLockEnqueue, Goto, OthersStay
  <2>2. Local(t)'
    BY <1>6, <1>a, <1>b DEF WaitOnLockEnqueue, Goto, Local, BelieveLabels, FreeLabels,
       WaitLabels, WaitRets, PutRets
  <2>3. TokenGoesAlong(t)
    BY <1>6, <1>a, <1>b DEF WaitOnLockEnqueue, Goto, Local, Global, TokenGoesAlong,
       SyncLabels, TokenLabels, LoneLabels, BelieveLabels, FreeLabels, WaitLabels,
       WaitRets, PutRets
  <2>4. ForkInv'
    BY <1>6, <1>a, <1>b, <2>1, ForkMove DEF WaitOnLockEnqueue, Goto, At, SubLabels
  <2>5. MutexInv'
    BY <1>6, <1>a, <1>b, <2>1, MutexMove DEF WaitOnLockEnqueue, Goto, Releasing, At,
       SubLabels, MutexInv
  <2> QED
    BY <1>b, <2>1, <2>2, <2>3, <2>4, <2>5, TokenMove DEF SafeInv
<1>7. CASE WaitOnLockHalt(t)
  <2>1. OthersStay(t)
    BY <1>7, <1>a DEF WaitOnLockHalt, Goto, OthersStay
  <2>2. Local(t)'
    BY <1>7, <1>a, <1>b DEF WaitOnLockHalt, Goto, Local, BelieveLabels, FreeLabels,
       WaitLabels, WaitRets, PutRets
  <2>3. TokenGoesAlong(t)
    BY <1>7, <1>a, <1>b DEF WaitOnLockHalt, Goto, Local, Global, TokenGoesAlong,
       SyncLabels, TokenLabels, LoneLabels, BelieveLabels, FreeLabels, WaitLabels,
       WaitRets, PutRets
  <2>4. ForkInv'
    BY <1>7, <1>a, <1>b, <2>1, ForkMove DEF WaitOnLockHalt, Goto, At, SubLabels
  <2>5. MutexInv'
    BY <1>7, <1>a, <1>b, <2>1, MutexMove DEF WaitOnLockHalt, Goto, Releasing, At,
       SubLabels, MutexInv
  <2> QED
    BY <1>b, <2>1, <2>2, <2>3, <2>4, <2>5, TokenMove DEF SafeInv
<1>8. CASE WaitOnLockPut(t)
  <2>1. OthersStay(t)
    BY <1>8, <1>a DEF WaitOnLockPut, Goto, ReleaseToken, OthersStay
  <2>2. Local(t)'
    BY <1>8, <1>a, <1>b DEF WaitOnLockPut, Goto, ReleaseToken, Local, BelieveLabels,
       FreeLabels, WaitLabels, WaitRets, PutRets
  <2>3. TokenGoesAlong(t)
    BY <1>8, <1>a, <1>b DEF WaitOnLockPut, Goto, ReleaseToken, Local, Global,
       TokenGoesAlong, SyncLabels, TokenLabels, LoneLabels, BelieveLabels, FreeLabels,
       WaitLabels, WaitRets, PutRets
  <2>4. ForkInv'
    BY <1>8, <1>a, <1>b, <2>1, ForkMove DEF WaitOnLockPut, Goto, ReleaseToken, At, SubLabels
  <2>5. MutexInv'
    BY <1>8, <1>a, <1>b, <2>1, MutexMove DEF WaitOnLockPut, Goto, ReleaseToken, Releasing,
       At, SubLabels, MutexInv
  <2> QED
    BY <1>b, <2>1, <2>2, <2>3, <2>4, <2>5, TokenMove DEF SafeInv
<1>9. CASE WaitOnLockSleep(t)
  <2>1. OthersStay(t)
    BY <1>9, <1>a DEF WaitOnLockSleep, Goto, OthersStay
  <2>2. Local(t)'
    BY <1>9, <1>a, <1>b DEF WaitOnLockSleep, Goto, Local, BelieveLabels, FreeLabels,
       WaitLabels, WaitRets, PutRets
  <2>3. TokenGoesAlong(t)
    BY <1>9, <1>a, <1>b DEF WaitOnLockSleep, Goto, Local, Global, TokenGoesAlong,
       SyncLabels, TokenLabels, LoneLabels, BelieveLabels, FreeLabels, WaitLabels,
       WaitRets, PutRets
  <2>4. ForkInv'
    BY <1>9, <1>a, <1>b, <2>1, ForkMove DEF WaitOnLockSleep, Goto, At, SubLabels
  <2>5. MutexInv'
    BY <1>9, <1>a, <1>b, <2>1, MutexMove DEF WaitOnLockSleep, Goto, Releasing, At,
       SubLabels, MutexInv
  <2> QED
    BY <1>b, <2>1, <2>2, <2>3, <2>4, <2>5, TokenMove DEF SafeInv
<1>10. CASE WaitOnLockAwake(t)
  <2>1. OthersStay(t)
    BY <1>10, <1>a DEF WaitOnLockAwake, Goto, OthersStay
  <2>2. Local(t)'
    BY <1>10, <1>a, <1>b DEF WaitOnLockAwake, Goto, Local, BelieveLabels, FreeLabels,
       WaitLabels, WaitRets, PutRets
  <2>3. TokenGoesAlong(t)
    BY <1>10, <1>a, <1>b DEF WaitOnLockAwake, Goto, Local, Global, TokenGoesAlong,
       SyncLabels, TokenLabels, LoneLabels, BelieveLabels, FreeLabels, WaitLabels,
       WaitRets, PutRets
  <2>4. ForkInv'
    BY <1>10, <1>a, <1>b, <2>1, ForkMove DEF WaitOnLockAwake, Goto, At, SubLabels
  <2>5. MutexInv'
    BY <1>10, <1>a, <1>b, <2>1, MutexMove DEF WaitOnLockAwake, Goto, Releasing, At,
       SubLabels, MutexInv
  <2> QED
    BY <1>b, <2>1, <2>2, <2>3, <2>4, <2>5, TokenMove DEF SafeInv
<1>11. CASE WaitOnLockReturn(t)
  <2>1. OthersStay(t)
    BY <1>11, <1>a DEF WaitOnLockReturn, Goto, OthersStay
  <2>2. Local(t)'
    BY <1>11, <1>a, <1>b DEF WaitOnLockReturn, Goto, Local, BelieveLabels, FreeLabels,
       WaitLabels, WaitRets, PutRets
  <2>3. TokenGoesAlong(t)
    BY <1>11, <1>a, <1>b DEF WaitOnLockReturn, Goto, Local, Global, TokenGoesAlong,
       SyncLabels, TokenLabels, LoneLabels, BelieveLabels, FreeLabels, WaitLabels,
       WaitRets, PutRets
  <2>4. ForkInv'
    BY <1>11, <1>a, <1>b, <2>1, ForkMove DEF WaitOnLockReturn, Goto, At, SubLabels
  <2>5. MutexInv'
    BY <1>11, <1>a, <1>b, <2>1, MutexMove DEF WaitOnLockReturn, Goto, Releasing, At,
       SubLabels, MutexInv
  <2> QED
    BY <1>b, <2>1, <2>2, <2>3, <2>4, <2>5, TokenMove DEF SafeInv
<1>12. CASE MutexUnlock(t)
  <2>1. OthersStay(t)
    BY <1>12, <1>a DEF MutexUnlock, Goto, Calls, OthersStay
  <2>2. Local(t)'
    BY <1>12, <1>a, <1>b DEF MutexUnlock, Goto, Calls, Local, BelieveLabels, FreeLabels,
       WaitLabels, WaitRets, PutRets
  <2>3. TokenGoesAlong(t)
    BY <1>12, <1>a, <1>b DEF MutexUnlock, Goto, Calls, Local, Global, TokenGoesAlong,
       SyncLabels, TokenLabels, LoneLabels, BelieveLabels, FreeLabels, WaitLabels,
       WaitRets, PutRets
  <2>4. ForkInv'
    BY <1>12, <1>a, <1>b, <2>1, ForkMove DEF MutexUnlock, Goto, Calls, At, SubLabels
  <2>5. MutexInv'
    BY <1>12, <1>a, <1>b, <2>1, MutexMove DEF MutexUnlock, Goto, Calls, Releasing, At,
       SubLabels, MutexInv
  <2> QED
    BY <1>b, <2>1, <2>2, <2>3, <2>4, <2>5, TokenMove DEF SafeInv
<1>13. CASE UnlockTry(t)
  <2>1. OthersStay(t)
    BY <1>13, <1>a DEF UnlockTry, Goto, WaitToken, SingleActiveThread, Call, OthersStay
  <2>2. Local(t)'
    BY <1>13, <1>a, <1>b DEF UnlockTry, Goto, WaitToken, SingleActiveThread, Call, Local,
       BelieveLabels, FreeLabels, WaitLabels, WaitRets, PutRets
  <2>3. TokenGoesAlong(t)
    BY <1>13, <1>a, <1>b DEF UnlockTry, Goto, WaitToken, SingleActiveThread, Call, Local,
       Global, TokenGoesAlong, SyncLabels, TokenLabels, LoneLabels, BelieveLabels,
       FreeLabels, WaitLabels, WaitRets, PutRets
  <2>4. ForkInv'
    BY <1>13, <1>a, <1>b, <2>1, ForkMove DEF UnlockTry, Goto, WaitToken,
       SingleActiveThread, Call, At, SubLabels
  <2>5. MutexInv'
    BY <1>13, <1>a, <1>b, <2>1, MutexMove DEF UnlockTry, Goto, WaitToken,
       SingleActiveThread, Call, Releasing, At, SubLabels, MutexInv
  <2> QED
    BY <1>b, <2>1, <2>2, <2>3, <2>4, <2>5, TokenMove DEF SafeInv
<1>14. CASE UnlockCommit(t)
  <2>1. OthersStay(t)
    BY <1>14, <1>a DEF UnlockCommit, Goto, OthersStay
  <2>2. Local(t)'
    BY <1>14, <1>a, <1>b DEF UnlockCommit, Goto, Local, BelieveLabels, FreeLabels,
       WaitLabels, WaitRets, PutRets
  <2>3. TokenGoesAlong(t)
    BY <1>14, <1>a, <1>b DEF UnlockCommit, Goto, Local, Global, TokenGoesAlong, SyncLabels,
       TokenLabels, LoneLabels, BelieveLabels, FreeLabels, WaitLabels, WaitRets, PutRets
  <2>4. ForkInv'
    BY <1>14, <1>a, <1>b, <2>1, ForkMove DEF UnlockCommit, Goto, At, SubLabels
  <2>5. MutexInv'
    BY <1>14, <1>a, <1>b, <2>1, MutexMove DEF UnlockCommit, Goto, Releasing, At, SubLabels,
       MutexInv
  <2> QED
    BY <1>b, <2>1, <2>2, <2>3, <2>4, <2>5, TokenMove DEF SafeInv
<1>15. ASSUME NEW newLow \in BOOLEAN, UnlockRelease(t, newLow) PROVE SafeInv'
  <2>1. OthersStay(t)
    BY <1>15, <1>a DEF UnlockRelease, Goto, OthersStay
  <2>2. Local(t)'
    BY <1>15, <1>a, <1>b DEF UnlockRelease, Goto, Local, BelieveLabels, FreeLabels,
       WaitLabels, WaitRets, PutRets
  <2>3. TokenGoesAlong(t)
    BY <1>15, <1>a, <1>b DEF UnlockRelease, Goto, Local, Global, TokenGoesAlong,
       SyncLabels, TokenLabels, LoneLabels, BelieveLabels, FreeLabels, WaitLabels,
       WaitRets, PutRets
  <2>4. ForkInv'
    BY <1>15, <1>a, <1>b, <2>1, ForkMove DEF UnlockRelease, Goto, At, SubLabels
  <2>5. MutexInv'
    <3>1. /\ pc[t] = "unlock_release" /\ pc' = [pc EXCEPT ![t] = "signal_waiters"]
          /\ is_acquired' = [is_acquired EXCEPT ![CurOp(t).m] = FALSE]
          /\ held' = [held EXCEPT ![t] = @ \ {CurOp(t).m}]
          /\ UNCHANGED <<fn, ip>>
      BY <1>15 DEF UnlockRelease, LockRelease, Goto
    <3>2. CurOp(t).m \in held[t]
      BY <1>b, <3>1 DEF MutexInv, Releasing, At
    <3>3. CurOp(t).m \in Mutexes
      BY <3>1, InOpType DEF IndInv, OpLabels, Op
    <3> QED
      BY <1>a, <1>b, <2>1, <3>1, <3>2, <3>3, MutexRelease DEF IndInv
  <2> QED
    BY <1>b, <2>1, <2>2, <2>3, <2>4, <2>5, TokenMove DEF SafeInv
<1>16. CASE SignalWaiters(t)
  <2>1. OthersStay(t)
    BY <1>16, <1>a DEF SignalWaiters, Goto, Call, OthersStay
  <2>2. Local(t)'
    BY <1>16, <1>a, <1>b DEF SignalWaiters, Goto, Call, Local, BelieveLabels, FreeLabels,
       WaitLabels, WaitRets, PutRets
  <2>3. TokenGoesAlong(t)
    BY <1>16, <1>a, <1>b DEF SignalWaiters, Goto, Call, Local, Global, TokenGoesAlong,
       SyncLabels, TokenLabels, LoneLabels, BelieveLabels, FreeLabels, WaitLabels,
       WaitRets, PutRets
  <2>4. ForkInv'
    BY <1>16, <1>a, <1>b, <2>1, ForkMove DEF SignalWaiters, Goto, Call, At, SubLabels
  <2>5. MutexInv'
    BY <1>16, <1>a, <1>b, <2>1, MutexMove DEF SignalWaiters, Goto, Call, Releasing, At,
       SubLabels, MutexInv
  <2> QED
    BY <1>b, <2>1, <2>2, <2>3, <2>4, <2>5, TokenMove DEF SafeInv
<1> QED
  BY <1>1, <1>2, <1>3, <1>4, <1>5, <1>6, <1>7, <1>8, <1>9, <1>10, <1>11, <1>12, <1>13,
     <1>14, <1>15, <1>16 DEF MutexStep

(* SafeInv, through every step of cond_wait, cond_signal and               *)
(* cond_broadcast.                                                         *)
LEMMA CondStepSafe ==
  ASSUME SingleThreadOpt = FALSE, IndInv, SafeInv, NEW t \in Threads, CondStep(t)
  PROVE  SafeInv'
<1> USE DEF flow, locals, token, syncs, pooling
<1>a. /\ pc \in [Threads -> Labels] /\ ret \in [Threads -> Labels]
      /\ token_holding \in [Threads -> BOOLEAN] /\ is_single \in [Threads -> BOOLEAN]
  BY DEF IndInv, TypeOK, FlowType, LocalsType
<1>b. Local(t) /\ Global(t) /\ TypeOK /\ TokenInv /\ ForkInv /\ MutexInv
  BY DEF IndInv, SafeInv, TokenInv
<1>1. CASE CondWait(t)
  <2>1. OthersStay(t)
    BY <1>1, <1>a DEF CondWait, WaitToken, Goto, Call, Calls, OthersStay
  <2>2. Local(t)'
    BY <1>1, <1>a, <1>b DEF CondWait, WaitToken, Goto, Call, Calls, Local, BelieveLabels,
       FreeLabels, WaitLabels, WaitRets, PutRets
  <2>3. TokenGoesAlong(t)
    BY <1>1, <1>a, <1>b DEF CondWait, WaitToken, Goto, Call, Calls, Local, Global,
       TokenGoesAlong, SyncLabels, TokenLabels, LoneLabels, BelieveLabels, FreeLabels,
       WaitLabels, WaitRets, PutRets
  <2>4. ForkInv'
    BY <1>1, <1>a, <1>b, <2>1, ForkMove DEF CondWait, WaitToken, Goto, Call, Calls, At,
       SubLabels
  <2>5. MutexInv'
    BY <1>1, <1>a, <1>b, <2>1, MutexMove DEF CondWait, WaitToken, Goto, Call, Calls,
       Releasing, At, SubLabels, MutexInv
  <2> QED
    BY <1>b, <2>1, <2>2, <2>3, <2>4, <2>5, TokenMove DEF SafeInv
<1>2. CASE PredicateHolds(t)
  <2>1. OthersStay(t)
    BY <1>2, <1>a DEF PredicateHolds, Calls, OthersStay
  <2>2. Local(t)'
    BY <1>2, <1>a, <1>b DEF PredicateHolds, Calls, Local, BelieveLabels, FreeLabels,
       WaitLabels, WaitRets, PutRets
  <2>3. TokenGoesAlong(t)
    BY <1>2, <1>a, <1>b DEF PredicateHolds, Calls, Local, Global, TokenGoesAlong,
       SyncLabels, TokenLabels, LoneLabels, BelieveLabels, FreeLabels, WaitLabels,
       WaitRets, PutRets
  <2>4. ForkInv'
    BY <1>2, <1>a, <1>b, <2>1, ForkMove DEF PredicateHolds, Calls, At, SubLabels
  <2>5. MutexInv'
    <3>1. \A u \in Threads : (fn'[u] = fn[u] /\ ip'[u] = ip[u]) \/ pc'[u] \in OutLabels
      BY <1>2, <1>a DEF PredicateHolds, Calls, OutLabels, IndInv, TypeOK, LocalsType
    <3>2. pc'[t] # "lock_set" /\ ~Releasing(t)'
      BY <1>2, <1>a DEF PredicateHolds, Calls, Releasing, At, SubLabels
    <3> QED
      BY <1>2, <1>b, <2>1, <3>1, <3>2, MutexOut DEF PredicateHolds
  <2> QED
    BY <1>b, <2>1, <2>2, <2>3, <2>4, <2>5, TokenMove DEF SafeInv
<1>3. CASE CondWaitHalt(t)
  <2>1. OthersStay(t)
    BY <1>3, <1>a DEF CondWaitHalt, Goto, ReleaseToken, OthersStay
  <2>2. Local(t)'
    BY <1>3, <1>a, <1>b DEF CondWaitHalt, Goto, ReleaseToken, Local, BelieveLabels,
       FreeLabels, WaitLabels, WaitRets, PutRets
  <2>3. TokenGoesAlong(t)
    BY <1>3, <1>a, <1>b DEF CondWaitHalt, Goto, ReleaseToken, Local, Global,
       TokenGoesAlong, SyncLabels, TokenLabels, LoneLabels, BelieveLabels, FreeLabels,
       WaitLabels, WaitRets, PutRets
  <2>4. ForkInv'
    BY <1>3, <1>a, <1>b, <2>1, ForkMove DEF CondWaitHalt, Goto, ReleaseToken, At, SubLabels
  <2>5. MutexInv'
    BY <1>3, <1>a, <1>b, <2>1, MutexMove DEF CondWaitHalt, Goto, ReleaseToken, Releasing,
       At, SubLabels, MutexInv
  <2> QED
    BY <1>b, <2>1, <2>2, <2>3, <2>4, <2>5, TokenMove DEF SafeInv
<1>4. CASE CondWaitAwake(t)
  <2>1. OthersStay(t)
    BY <1>4, <1>a DEF CondWaitAwake, OthersStay
  <2>2. Local(t)'
    BY <1>4, <1>a, <1>b DEF CondWaitAwake, Local, BelieveLabels, FreeLabels, WaitLabels,
       WaitRets, PutRets
  <2>3. TokenGoesAlong(t)
    BY <1>4, <1>a, <1>b DEF CondWaitAwake, Local, Global, TokenGoesAlong, SyncLabels,
       TokenLabels, LoneLabels, BelieveLabels, FreeLabels, WaitLabels, WaitRets, PutRets
  <2>4. ForkInv'
    BY <1>4, <1>a, <1>b, <2>1, ForkMove DEF CondWaitAwake, At, SubLabels
  <2>5. MutexInv'
    BY <1>4, <1>a, <1>b, <2>1, MutexMove DEF CondWaitAwake, Releasing, At, SubLabels,
       MutexInv
  <2> QED
    BY <1>b, <2>1, <2>2, <2>3, <2>4, <2>5, TokenMove DEF SafeInv
<1>5. CASE CondWaitReturn(t)
  <2>1. OthersStay(t)
    BY <1>5, <1>a DEF CondWaitReturn, Goto, OthersStay
  <2>2. Local(t)'
    BY <1>5, <1>a, <1>b DEF CondWaitReturn, Goto, Local, BelieveLabels, FreeLabels,
       WaitLabels, WaitRets, PutRets
  <2>3. TokenGoesAlong(t)
    BY <1>5, <1>a, <1>b DEF CondWaitReturn, Goto, Local, Global, TokenGoesAlong,
       SyncLabels, TokenLabels, LoneLabels, BelieveLabels, FreeLabels, WaitLabels,
       WaitRets, PutRets
  <2>4. ForkInv'
    BY <1>5, <1>a, <1>b, <2>1, ForkMove DEF CondWaitReturn, Goto, At, SubLabels
  <2>5. MutexInv'
    BY <1>5, <1>a, <1>b, <2>1, MutexMove DEF CondWaitReturn, Goto, Releasing, At,
       SubLabels, MutexInv
  <2> QED
    BY <1>b, <2>1, <2>2, <2>3, <2>4, <2>5, TokenMove DEF SafeInv
<1>6. CASE CondWaitRelock(t)
  <2>1. OthersStay(t)
    BY <1>6, <1>a DEF CondWaitRelock, Goto, OthersStay
  <2>2. Local(t)'
    BY <1>6, <1>a, <1>b DEF CondWaitRelock, Goto, Local, BelieveLabels, FreeLabels,
       WaitLabels, WaitRets, PutRets
  <2>3. TokenGoesAlong(t)
    BY <1>6, <1>a, <1>b DEF CondWaitRelock, Goto, Local, Global, TokenGoesAlong,
       SyncLabels, TokenLabels, LoneLabels, BelieveLabels, FreeLabels, WaitLabels,
       WaitRets, PutRets
  <2>4. ForkInv'
    BY <1>6, <1>a, <1>b, <2>1, ForkMove DEF CondWaitRelock, Goto, At, SubLabels
  <2>5. MutexInv'
    BY <1>6, <1>a, <1>b, <2>1, MutexMove DEF CondWaitRelock, Goto, Releasing, At,
       SubLabels, MutexInv
  <2> QED
    BY <1>b, <2>1, <2>2, <2>3, <2>4, <2>5, TokenMove DEF SafeInv
<1>7. CASE CondSignal(t)
  <2>1. OthersStay(t)
    BY <1>7, <1>a DEF CondSignal, WaitToken, Goto, Call, Calls, OthersStay
  <2>2. Local(t)'
    BY <1>7, <1>a, <1>b DEF CondSignal, WaitToken, Goto, Call, Calls, Local, BelieveLabels,
       FreeLabels, WaitLabels, WaitRets, PutRets
  <2>3. TokenGoesAlong(t)
    BY <1>7, <1>a, <1>b DEF CondSignal, WaitToken, Goto, Call, Calls, Local, Global,
       TokenGoesAlong, SyncLabels, TokenLabels, LoneLabels, BelieveLabels, FreeLabels,
       WaitLabels, WaitRets, PutRets
  <2>4. ForkInv'
    BY <1>7, <1>a, <1>b, <2>1, ForkMove DEF CondSignal, WaitToken, Goto, Call, Calls, At,
       SubLabels
  <2>5. MutexInv'
    BY <1>7, <1>a, <1>b, <2>1, MutexMove DEF CondSignal, WaitToken, Goto, Call, Calls,
       Releasing, At, SubLabels, MutexInv
  <2> QED
    BY <1>b, <2>1, <2>2, <2>3, <2>4, <2>5, TokenMove DEF SafeInv
<1>8. ASSUME NEW newLow \in BOOLEAN, CondWaitEnqueue(t, newLow) PROVE SafeInv'
  <2>1. OthersStay(t)
    BY <1>8, <1>a DEF CondWaitEnqueue, Goto, OthersStay
  <2>2. Local(t)'
    BY <1>8, <1>a, <1>b DEF CondWaitEnqueue, Goto, Local, BelieveLabels, FreeLabels,
       WaitLabels, WaitRets, PutRets
  <2>3. TokenGoesAlong(t)
    BY <1>8, <1>a, <1>b DEF CondWaitEnqueue, Goto, Local, Global, TokenGoesAlong,
       SyncLabels, TokenLabels, LoneLabels, BelieveLabels, FreeLabels, WaitLabels,
       WaitRets, PutRets
  <2>4. ForkInv'
    BY <1>8, <1>a, <1>b, <2>1, ForkMove DEF CondWaitEnqueue, Goto, At, SubLabels
  <2>5. MutexInv'
    <3>1. /\ pc[t] = "cw_enqueue" /\ pc' = [pc EXCEPT ![t] = "signal_waiters"]
          /\ is_acquired' = [is_acquired EXCEPT ![CurOp(t).m] = FALSE]
          /\ held' = [held EXCEPT ![t] = @ \ {CurOp(t).m}]
          /\ UNCHANGED <<fn, ip>>
      BY <1>8 DEF CondWaitEnqueue, LockRelease, Goto
    <3>2. CurOp(t).m \in held[t]
      BY <1>b, <3>1 DEF MutexInv, Releasing, At
    <3>3. CurOp(t).m \in Mutexes
      BY <3>1, InOpType DEF IndInv, OpLabels, Op
    <3> QED
      BY <1>a, <1>b, <2>1, <3>1, <3>2, <3>3, MutexRelease DEF IndInv
  <2> QED
    BY <1>b, <2>1, <2>2, <2>3, <2>4, <2>5, TokenMove DEF SafeInv
<1>9. ASSUME NEW newLow \in BOOLEAN, CondWake(t, newLow) PROVE SafeInv'
  <2>1. OthersStay(t)
    BY <1>9, <1>a DEF CondWake, Call, OthersStay
  <2>2. Local(t)'
    BY <1>9, <1>a, <1>b DEF CondWake, Call, Local, BelieveLabels, FreeLabels, WaitLabels,
       WaitRets, PutRets
  <2>3. TokenGoesAlong(t)
    BY <1>9, <1>a, <1>b DEF CondWake, Call, Local, Global, TokenGoesAlong, SyncLabels,
       TokenLabels, LoneLabels, BelieveLabels, FreeLabels, WaitLabels, WaitRets, PutRets
  <2>4. ForkInv'
    BY <1>9, <1>a, <1>b, <2>1, ForkMove DEF CondWake, Call, At, SubLabels
  <2>5. MutexInv'
    BY <1>9, <1>a, <1>b, <2>1, MutexMove DEF CondWake, Call, Releasing, At, SubLabels,
       MutexInv
  <2> QED
    BY <1>b, <2>1, <2>2, <2>3, <2>4, <2>5, TokenMove DEF SafeInv
<1> QED
  BY <1>1, <1>2, <1>3, <1>4, <1>5, <1>6, <1>7, <1>8, <1>9 DEF CondStep

(* SafeInv, through every step of spawn and the start of a thread.         *)
LEMMA SpawnStepSafe ==
  ASSUME SingleThreadOpt = FALSE, IndInv, SafeInv, NEW t \in Threads, SpawnStep(t)
  PROVE  SafeInv'
<1> USE DEF flow, locals, token, syncs, pooling
<1>a. /\ pc \in [Threads -> Labels] /\ ret \in [Threads -> Labels]
      /\ token_holding \in [Threads -> BOOLEAN] /\ is_single \in [Threads -> BOOLEAN]
  BY DEF IndInv, TypeOK, FlowType, LocalsType
<1>b. Local(t) /\ Global(t) /\ TypeOK /\ TokenInv /\ ForkInv /\ MutexInv
  BY DEF IndInv, SafeInv, TokenInv
<1>1. CASE Spawn(t)
  <2>1. OthersStay(t)
    BY <1>1, <1>a DEF Spawn, Goto, WaitToken, Call, Calls, OthersStay
  <2>2. Local(t)'
    BY <1>1, <1>a, <1>b DEF Spawn, Goto, WaitToken, Call, Calls, Local, BelieveLabels,
       FreeLabels, WaitLabels, WaitRets, PutRets
  <2>3. TokenGoesAlong(t)
    BY <1>1, <1>a, <1>b DEF Spawn, Goto, WaitToken, Call, Calls, Local, Global,
       TokenGoesAlong, SyncLabels, TokenLabels, LoneLabels, BelieveLabels, FreeLabels,
       WaitLabels, WaitRets, PutRets
  <2>4. ForkInv'
    BY <1>1, <1>a, <1>b, <2>1, ForkMove DEF Spawn, Goto, WaitToken, Call, Calls, At,
       SubLabels
  <2>5. MutexInv'
    BY <1>1, <1>a, <1>b, <2>1, MutexMove DEF Spawn, Goto, WaitToken, Call, Calls,
       Releasing, At, SubLabels, MutexInv
  <2> QED
    BY <1>b, <2>1, <2>2, <2>3, <2>4, <2>5, TokenMove DEF SafeInv
<1>2. CASE GetThread(t)
  <2>1. OthersStay(t)
    BY <1>2, <1>a DEF GetThread, Call, OthersStay
  <2>2. Local(t)'
    BY <1>2, <1>a, <1>b DEF GetThread, Call, Local, BelieveLabels, FreeLabels, WaitLabels,
       WaitRets, PutRets
  <2>3. TokenGoesAlong(t)
    BY <1>2, <1>a, <1>b DEF GetThread, Call, Local, Global, TokenGoesAlong, SyncLabels,
       TokenLabels, LoneLabels, BelieveLabels, FreeLabels, WaitLabels, WaitRets, PutRets
  <2>4. ForkInv' /\ MutexInv'
    <3> DEFINE c == IF pool # <<>> THEN Head(pool) ELSE id_counter + 1
    <3>1. /\ pool \in Seq(Threads) /\ id_counter \in Nat /\ child \in [Threads -> Threads]
          /\ fn \in [Threads -> FnNames] /\ ip \in [Threads -> Nat \ {0}]
          /\ pool_status \in [Threads -> PoolStatuses]
      BY DEF IndInv, TypeOK, LocalsType, PoolingType
    <3>2. /\ pc[t] = "get_thread" /\ PoolHasRoom /\ ~master_finished
          /\ pc' = [pc EXCEPT ![t] = "put"] /\ ret' = [ret EXCEPT ![t] = "fork"]
          /\ child' = [child EXCEPT ![t] = c]
          /\ fn' = [fn EXCEPT ![c] = CurOp(t).fn] /\ ip' = [ip EXCEPT ![c] = 1]
          /\ pool_status' = [pool_status EXCEPT ![c] =
                                IF pool_status[c] = "WAITING" THEN "READY" ELSE "INIT"]
          /\ UNCHANGED <<held, is_acquired>>
          /\ pool # <<>> => pool' = Tail(pool)
          /\ pool = <<>> => pool' = pool
      BY <1>2 DEF GetThread, Call
    <3>3. pool # <<>> => /\ pool[1] = c /\ 1 \in 1 .. Len(pool)
                         /\ Len(Tail(pool)) = Len(pool) - 1 /\ Len(pool) \in Nat
                         /\ \A i \in 1 .. Len(Tail(pool)) : Tail(pool)[i] = pool[i + 1]
      BY <3>1
    <3>4. pool = <<>> => c = id_counter + 1
      OBVIOUS
    <3>5. c \in Threads
      <4>1. CASE pool # <<>>
        BY <3>1, <4>1
      <4>2. CASE pool = <<>>
        BY <3>1, <3>2, <4>2, PoolAssumption DEF PoolHasRoom, Threads
      <4> QED
        BY <4>1, <4>2
    <3> HIDE DEF c
    <3>6. pc[c] \in PoolLabels \cup {"unborn"}
      <4>1. CASE pool # <<>>
        BY <3>3, <4>1 DEF IndInv, PoolInv
      <4>2. CASE pool = <<>>
        BY <3>1, <3>4, <3>5, <4>2 DEF IndInv, PoolInv, Threads
      <4> QED
        BY <4>1, <4>2
    <3>7. c # t
      BY <3>2, <3>6 DEF PoolLabels
    <3>8. pool # <<>> => pool_status'[c] = "READY"
      <4>1. pool # <<>> => pool_status[c] = "WAITING"
        BY <1>b, <3>2, <3>3 DEF ForkInv
      <4> QED
        BY <3>1, <3>2, <3>5, <4>1
    <3>9. pool = <<>> => pc[c] = "unborn" /\ \A u \in Threads : child[u] # c
      BY <3>1, <3>4, <3>5 DEF IndInv, PoolInv, Threads
    <3>10. \A u \in Threads : pc[u] = "unborn" => pc'[u] = "unborn"
      BY <1>a, <3>2
    <3>11. \A u \in Threads \ {t} : child'[u] = child[u] /\ child[u] \in Threads
      BY <3>1, <3>2
    <3>12. child'[t] = c
      BY <3>1, <3>2
    <3>13. \A u \in Threads \ {t} : pool_status'[child[u]] = "INIT" =>
             child[u] # c /\ pool_status[child[u]] = "INIT"
      BY <3>1, <3>2, <3>5, <3>8, <3>9, <3>11
    <3>14. ASSUME NEW u \in Threads, At(u, "fork")', pool_status'[child'[u]] = "INIT"
           PROVE  pc'[child'[u]] = "unborn"
      <4>1. CASE u = t
        BY <3>5, <3>8, <3>9, <3>10, <3>12, <3>14, <4>1
      <4>2. CASE u # t
        <5>1. At(u, "fork")
          BY <1>a, <3>2, <3>14, <4>2 DEF At
        <5>2. child'[u] = child[u] /\ child[u] \in Threads
          BY <3>11, <4>2
        <5>3. pool_status[child[u]] = "INIT"
          BY <3>13, <3>14, <4>2, <5>2
        <5>4. pc[child[u]] = "unborn"
          BY <1>b, <5>1, <5>3 DEF ForkInv
        <5> QED
          BY <3>10, <5>2, <5>4
      <4> QED
        BY <4>1, <4>2
    <3>15. ASSUME NEW u \in Threads, NEW v \in Threads, At(u, "fork")', At(v, "fork")',
                  child'[u] = child'[v], u # v, pool_status'[child'[u]] = "INIT"
           PROVE  FALSE
      <4>1. u # t /\ v # t
        <5>1. CASE u = t
          <6>1. child'[v] = child[v] /\ child[v] = c
            BY <3>11, <3>12, <3>15, <5>1
          <6> QED
            BY <3>12, <3>13, <3>15, <5>1, <6>1
        <5>2. CASE v = t
          <6>1. child'[u] = child[u] /\ child[u] = c
            BY <3>11, <3>12, <3>15, <5>2
          <6> QED
            BY <3>12, <3>13, <3>15, <5>2, <6>1
        <5> QED
          BY <5>1, <5>2
      <4>2. At(u, "fork") /\ At(v, "fork")
        BY <1>a, <3>2, <3>15, <4>1 DEF At
      <4>3. child'[u] = child[u] /\ child'[v] = child[v]
        BY <3>11, <4>1
      <4>4. pool_status[child[u]] = "INIT"
        BY <3>13, <3>15, <4>1, <4>3
      <4> QED
        BY <1>b, <3>15, <4>2, <4>3, <4>4 DEF ForkInv
    <3>16. ASSUME NEW i \in 1 .. Len(pool') PROVE pool_status'[pool'[i]] = "WAITING"
      <4>1. pool # <<>>
        BY <3>1, <3>2, <3>16
      <4>2. pool'[i] = pool[i + 1] /\ i + 1 \in 1 .. Len(pool) /\ i + 1 # 1
        <5>1. pool' = Tail(pool) /\ Len(pool') = Len(pool) - 1 /\ Len(pool) \in Nat
          BY <3>2, <3>3, <4>1
        <5>2. i \in 1 .. Len(Tail(pool)) /\ i \in 1 .. Len(pool) - 1
          BY <3>16, <5>1
        <5> QED
          BY <3>3, <4>1, <5>1, <5>2
      <4>3. pool[i + 1] # c
        BY <3>3, <4>1, <4>2 DEF IndInv, PoolInv
      <4>4. pool_status[pool[i + 1]] = "WAITING" /\ pool[i + 1] \in Threads
        BY <1>b, <3>1, <3>2, <4>2 DEF ForkInv
      <4> QED
        BY <3>1, <3>2, <4>2, <4>3, <4>4
    <3>17. ForkInv'
      BY <3>14, <3>15, <3>16 DEF ForkInv
    <3>18. \A u \in Threads : (fn'[u] = fn[u] /\ ip'[u] = ip[u]) \/ pc'[u] \in OutLabels
      BY <1>a, <3>1, <3>2, <3>6, <3>7 DEF OutLabels
    <3>19. pc'[t] # "lock_set" /\ ~Releasing(t)'
      BY <1>a, <3>2 DEF Releasing, At, SubLabels
    <3>20. MutexInv'
      BY <1>b, <2>1, <3>2, <3>18, <3>19, MutexOut
    <3> QED
      BY <3>17, <3>20
  <2>5. MutexInv'
    BY <2>4
  <2> QED
    BY <1>b, <2>1, <2>2, <2>3, <2>4, <2>5, TokenMove DEF SafeInv
<1>3. CASE PoolExhausted(t)
  <2>1. OthersStay(t)
    BY <1>3, <1>a DEF PoolExhausted, Goto, OthersStay
  <2>2. Local(t)'
    BY <1>3, <1>a, <1>b DEF PoolExhausted, Goto, Local, BelieveLabels, FreeLabels,
       WaitLabels, WaitRets, PutRets
  <2>3. TokenGoesAlong(t)
    BY <1>3, <1>a, <1>b DEF PoolExhausted, Goto, Local, Global, TokenGoesAlong, SyncLabels,
       TokenLabels, LoneLabels, BelieveLabels, FreeLabels, WaitLabels, WaitRets, PutRets
  <2>4. ForkInv'
    BY <1>3, <1>a, <1>b, <2>1, ForkMove DEF PoolExhausted, Goto, At, SubLabels
  <2>5. MutexInv'
    BY <1>3, <1>a, <1>b, <2>1, MutexMove DEF PoolExhausted, Goto, Releasing, At, SubLabels,
       MutexInv
  <2> QED
    BY <1>b, <2>1, <2>2, <2>3, <2>4, <2>5, TokenMove DEF SafeInv
<1>4. CASE Fork(t)
  <2> DEFINE c == child[t]
  <2>1. c \in Threads /\ child \in [Threads -> Threads]
    BY DEF IndInv, TypeOK, LocalsType
  <2>2. /\ pc[t] = "fork"
        /\ pc' = [pc EXCEPT ![t] = "is_lowest",
                            ![c] = IF pool_status[c] = "INIT" THEN "register" ELSE @]
        /\ ret' = [ret EXCEPT ![t] = "spawn_done"]
        /\ UNCHANGED <<fn, ip, held, is_acquired, token_holding, is_single, tokenpos,
                       pool, pool_status, child, master_finished>>
    BY <1>4 DEF Fork
  <2>3. pool_status[c] = "INIT" => pc[c] = "unborn"
    BY <1>b, <2>2 DEF ForkInv, At
  <2> HIDE DEF c
  <2>4. ASSUME NEW u \in Threads
        PROVE  \/ u # t /\ pc'[u] = pc[u] /\ ret'[u] = ret[u]
               \/ /\ u # t /\ u = c /\ pool_status[c] = "INIT"
                  /\ pc[u] = "unborn" /\ pc'[u] = "register"
               \/ u = t /\ pc'[u] = "is_lowest" /\ ret'[u] = "spawn_done"
    BY <1>a, <2>1, <2>2, <2>3
  <2>5. ASSUME NEW u \in Threads PROVE Local(u)' /\ Global(u)'
    <3>1. Local(u) /\ Global(u)
      BY <1>b DEF TokenInv
    <3>2. CASE u # t /\ pc'[u] = pc[u] /\ ret'[u] = ret[u]
      BY <2>2, <3>1, <3>2 DEF Local, Global
    <3>3. CASE pc[u] = "unborn" /\ pc'[u] = "register"
      BY <2>2, <3>1, <3>3 DEF Local, Global, SyncLabels, TokenLabels, LoneLabels,
         BelieveLabels, FreeLabels, WaitLabels
    <3>4. CASE u = t /\ pc'[u] = "is_lowest" /\ ret'[u] = "spawn_done"
      BY <2>2, <3>1, <3>4 DEF Local, Global, SyncLabels, TokenLabels, LoneLabels,
         BelieveLabels, FreeLabels, WaitLabels, WaitRets
    <3> QED
      BY <2>4, <3>2, <3>3, <3>4
  <2>6. ASSUME NEW u \in Threads, At(u, "fork")' PROVE At(u, "fork") /\ u # t
    BY <2>4, <2>6 DEF At, SubLabels
  <2>7. ASSUME NEW u \in Threads, At(u, "fork")', pool_status[child[u]] = "INIT"
        PROVE  pc'[child[u]] = "unborn"
    <3>1. pc[child[u]] = "unborn" /\ child[u] \in Threads
      BY <1>b, <2>1, <2>6, <2>7 DEF ForkInv
    <3>2. child[u] # c
      BY <1>b, <2>2, <2>6, <2>7 DEF ForkInv, At, c
    <3>3. child[u] # t
      BY <2>2, <3>1
    <3> QED
      BY <2>4, <3>1, <3>2, <3>3
  <2>8. ForkInv'
    BY <1>b, <2>2, <2>6, <2>7 DEF ForkInv
  <2>9. ASSUME NEW u \in Threads
        PROVE  /\ pc'[u] = "lock_set" => ~is_acquired'[CurOp(u)'.m]
               /\ Releasing(u)' => CurOp(u)'.m \in held'[u]
    <3>1. CurOp(u)' = CurOp(u)
      BY <2>2 DEF CurOp
    <3>2. pc'[u] = "lock_set" => pc[u] = "lock_set"
      BY <2>4
    <3>3. Releasing(u)' => Releasing(u)
      BY <2>4 DEF Releasing, At, SubLabels
    <3> QED
      BY <1>b, <2>2, <3>1, <3>2, <3>3 DEF MutexInv
  <2>10. MutexInv'
    BY <1>b, <2>2, <2>9 DEF MutexInv, MutualExclusion
  <2> QED
    BY <2>5, <2>8, <2>10 DEF SafeInv, TokenInv
<1>5. CASE SpawnDone(t)
  <2>1. OthersStay(t)
    BY <1>5, <1>a DEF SpawnDone, Call, OthersStay
  <2>2. Local(t)'
    BY <1>5, <1>a, <1>b DEF SpawnDone, Call, Local, BelieveLabels, FreeLabels, WaitLabels,
       WaitRets, PutRets
  <2>3. TokenGoesAlong(t)
    BY <1>5, <1>a, <1>b DEF SpawnDone, Call, Local, Global, TokenGoesAlong, SyncLabels,
       TokenLabels, LoneLabels, BelieveLabels, FreeLabels, WaitLabels, WaitRets, PutRets
  <2>4. ForkInv'
    BY <1>5, <1>a, <1>b, <2>1, ForkMove DEF SpawnDone, Call, At, SubLabels
  <2>5. MutexInv'
    BY <1>5, <1>a, <1>b, <2>1, MutexMove DEF SpawnDone, Call, Releasing, At, SubLabels,
       MutexInv
  <2> QED
    BY <1>b, <2>1, <2>2, <2>3, <2>4, <2>5, TokenMove DEF SafeInv
<1>6. CASE Register(t)
  <2>1. OthersStay(t)
    BY <1>6, <1>a DEF Register, Goto, Call, ResetThread, OthersStay
  <2>2. Local(t)'
    BY <1>6, <1>a, <1>b DEF Register, Goto, Call, ResetThread, Local, BelieveLabels,
       FreeLabels, WaitLabels, WaitRets, PutRets
  <2>3. TokenGoesAlong(t)
    BY <1>6, <1>a, <1>b DEF Register, Goto, Call, ResetThread, Local, Global,
       TokenGoesAlong, SyncLabels, TokenLabels, LoneLabels, BelieveLabels, FreeLabels,
       WaitLabels, WaitRets, PutRets
  <2>4. ForkInv'
    BY <1>6, <1>a, <1>b, <2>1, ForkMove DEF Register, Goto, Call, ResetThread, At, SubLabels
  <2>5. MutexInv'
    <3>1. /\ held' = [held EXCEPT ![t] = {}] /\ UNCHANGED <<fn, ip, is_acquired>>
          /\ held \in [Threads -> SUBSET Mutexes]
      BY <1>6 DEF Register, ResetThread, IndInv, TypeOK, LocalsType
    <3>2. \A u \in Threads : held'[u] \subseteq held[u] /\ (u # t => held'[u] = held[u])
      BY <3>1
    <3>3. pc'[t] # "lock_set" /\ ~Releasing(t)'
      BY <1>6, <1>a DEF Register, Goto, Call, Releasing, At, SubLabels
    <3>4. \A u \in Threads : \A k \in held'[u] : is_acquired'[k]
      BY <1>b, <3>1, <3>2 DEF MutexInv
    <3>5. MutualExclusion'
      BY <1>b, <3>2 DEF MutexInv, MutualExclusion
    <3>6. ASSUME NEW u \in Threads
          PROVE  /\ pc'[u] = "lock_set" => ~is_acquired'[CurOp(u)'.m]
                 /\ Releasing(u)' => CurOp(u)'.m \in held'[u]
      <4>1. CASE u = t
        BY <3>3, <4>1
      <4>2. CASE u # t
        <5>1. CurOp(u)' = CurOp(u) /\ held'[u] = held[u]
          BY <3>1, <3>2, <4>2 DEF CurOp
        <5>2. pc'[u] = pc[u] /\ ret'[u] = ret[u]
          BY <2>1, <4>2 DEF OthersStay
        <5> QED
          BY <1>b, <3>1, <5>1, <5>2 DEF MutexInv, Releasing, At
      <4> QED
        BY <4>1, <4>2
    <3> QED
      BY <3>4, <3>5, <3>6 DEF MutexInv
  <2> QED
    BY <1>b, <2>1, <2>2, <2>3, <2>4, <2>5, TokenMove DEF SafeInv
<1>7. CASE Registered(t)
  <2>1. OthersStay(t)
    BY <1>7, <1>a DEF Registered, Call, OthersStay
  <2>2. Local(t)'
    BY <1>7, <1>a, <1>b DEF Registered, Call, Local, BelieveLabels, FreeLabels, WaitLabels,
       WaitRets, PutRets
  <2>3. TokenGoesAlong(t)
    BY <1>7, <1>a, <1>b DEF Registered, Call, Local, Global, TokenGoesAlong, SyncLabels,
       TokenLabels, LoneLabels, BelieveLabels, FreeLabels, WaitLabels, WaitRets, PutRets
  <2>4. ForkInv'
    BY <1>7, <1>a, <1>b, <2>1, ForkMove DEF Registered, Call, At, SubLabels
  <2>5. MutexInv'
    BY <1>7, <1>a, <1>b, <2>1, MutexMove DEF Registered, Call, Releasing, At, SubLabels,
       MutexInv
  <2> QED
    BY <1>b, <2>1, <2>2, <2>3, <2>4, <2>5, TokenMove DEF SafeInv
<1>8. CASE RunThread(t)
  <2>1. OthersStay(t)
    BY <1>8, <1>a DEF RunThread, Goto, OthersStay
  <2>2. Local(t)'
    BY <1>8, <1>a, <1>b DEF RunThread, Goto, Local, BelieveLabels, FreeLabels, WaitLabels,
       WaitRets, PutRets
  <2>3. TokenGoesAlong(t)
    BY <1>8, <1>a, <1>b DEF RunThread, Goto, Local, Global, TokenGoesAlong, SyncLabels,
       TokenLabels, LoneLabels, BelieveLabels, FreeLabels, WaitLabels, WaitRets, PutRets
  <2>4. ForkInv'
    BY <1>8, <1>a, <1>b, <2>1, ForkMove DEF RunThread, Goto, At, SubLabels
  <2>5. MutexInv'
    BY <1>8, <1>a, <1>b, <2>1, MutexMove DEF RunThread, Goto, Releasing, At, SubLabels,
       MutexInv
  <2> QED
    BY <1>b, <2>1, <2>2, <2>3, <2>4, <2>5, TokenMove DEF SafeInv
<1> QED
  BY <1>1, <1>2, <1>3, <1>4, <1>5, <1>6, <1>7, <1>8 DEF SpawnStep

(* SafeInv, through every step of the end of a thread and of the program.  *)
LEMMA ExitStepSafe ==
  ASSUME SingleThreadOpt = FALSE, IndInv, SafeInv, NEW t \in Threads, ExitStep(t)
  PROVE  SafeInv'
<1> USE DEF flow, locals, token, syncs, pooling
<1>a. /\ pc \in [Threads -> Labels] /\ ret \in [Threads -> Labels]
      /\ token_holding \in [Threads -> BOOLEAN] /\ is_single \in [Threads -> BOOLEAN]
  BY DEF IndInv, TypeOK, FlowType, LocalsType
<1>b. Local(t) /\ Global(t) /\ TypeOK /\ TokenInv /\ ForkInv /\ MutexInv
  BY DEF IndInv, SafeInv, TokenInv
<1>1. CASE ThreadDeregister(t)
  <2>1. OthersStay(t)
    BY <1>1, <1>a DEF ThreadDeregister, WaitToken, Goto, Call, OthersStay
  <2>2. Local(t)'
    BY <1>1, <1>a, <1>b DEF ThreadDeregister, WaitToken, Goto, Call, Local, BelieveLabels,
       FreeLabels, WaitLabels, WaitRets, PutRets
  <2>3. TokenGoesAlong(t)
    BY <1>1, <1>a, <1>b DEF ThreadDeregister, WaitToken, Goto, Call, Local, Global,
       TokenGoesAlong, SyncLabels, TokenLabels, LoneLabels, BelieveLabels, FreeLabels,
       WaitLabels, WaitRets, PutRets
  <2>4. ForkInv'
    BY <1>1, <1>a, <1>b, <2>1, ForkMove DEF ThreadDeregister, WaitToken, Goto, Call, At,
       SubLabels
  <2>5. MutexInv'
    BY <1>1, <1>a, <1>b, <2>1, MutexMove DEF ThreadDeregister, WaitToken, Goto, Call,
       Releasing, At, SubLabels, MutexInv
  <2> QED
    BY <1>b, <2>1, <2>2, <2>3, <2>4, <2>5, TokenMove DEF SafeInv
<1>2. CASE PoolAdd(t)
  <2>1. OthersStay(t)
    BY <1>2, <1>a DEF PoolAdd, Goto, OthersStay
  <2>2. Local(t)'
    BY <1>2, <1>a, <1>b DEF PoolAdd, Goto, Local, BelieveLabels, FreeLabels, WaitLabels,
       WaitRets, PutRets
  <2>3. TokenGoesAlong(t)
    BY <1>2, <1>a, <1>b DEF PoolAdd, Goto, Local, Global, TokenGoesAlong, SyncLabels,
       TokenLabels, LoneLabels, BelieveLabels, FreeLabels, WaitLabels, WaitRets, PutRets
  <2>4. ForkInv'
    <3>1. /\ pool \in Seq(Threads) /\ child \in [Threads -> Threads]
          /\ pool_status \in [Threads -> PoolStatuses]
      BY DEF IndInv, TypeOK, LocalsType, PoolingType
    <3>2. /\ pc[t] = "pool_add" /\ pc' = [pc EXCEPT ![t] = "deregister"]
          /\ UNCHANGED <<ret, child, master_finished>>
          /\ pool' = pool \/ pool' = Append(pool, t)
          /\ \/ pool_status' = [pool_status EXCEPT ![t] = "EXIT"]
             \/ pool_status' = [pool_status EXCEPT ![t] = "WAITING"]
          /\ ~master_finished => pool_status' = [pool_status EXCEPT ![t] = "WAITING"]
      BY <1>2 DEF PoolAdd, Goto, MasterThreadFinished
    <3>3. \A u \in Threads : pool_status'[u] = "INIT" => pool_status[u] = "INIT"
      BY <3>1, <3>2
    <3>4. \A u \in Threads : pc[u] = "unborn" => pc'[u] = "unborn"
      BY <1>a, <3>2
    <3>5. ASSUME NEW u \in Threads, At(u, "fork")', pool_status'[child[u]] = "INIT"
          PROVE  pc'[child[u]] = "unborn"
      <4>1. At(u, "fork")
        BY <1>a, <3>2, <3>5 DEF At, SubLabels
      <4> QED
        BY <1>b, <3>1, <3>3, <3>4, <3>5, <4>1 DEF ForkInv
    <3>6. ASSUME NEW u \in Threads, NEW v \in Threads, At(u, "fork")', At(v, "fork")',
                 child[u] = child[v], u # v
          PROVE  pool_status'[child[u]] # "INIT"
      <4>1. At(u, "fork") /\ At(v, "fork")
        BY <1>a, <3>2, <3>6 DEF At, SubLabels
      <4> QED
        BY <1>b, <3>1, <3>3, <3>6, <4>1 DEF ForkInv
    <3>7. ASSUME ~master_finished, NEW i \in 1 .. Len(pool')
          PROVE  pool_status'[pool'[i]] = "WAITING"
      <4>1. \/ i \in 1 .. Len(pool) /\ pool'[i] = pool[i] /\ pool[i] \in Threads
            \/ pool'[i] = t
        BY <3>1, <3>2
      <4> QED
        BY <1>b, <3>1, <3>2, <3>7, <4>1 DEF ForkInv
    <3> QED
      BY <3>2, <3>5, <3>6, <3>7 DEF ForkInv
  <2>5. MutexInv'
    BY <1>2, <1>a, <1>b, <2>1, MutexMove DEF PoolAdd, Goto, Releasing, At, SubLabels,
       MutexInv
  <2> QED
    BY <1>b, <2>1, <2>2, <2>3, <2>4, <2>5, TokenMove DEF SafeInv
<1>3. CASE Deregister(t)
  <2>1. OthersStay(t)
    BY <1>3, <1>a DEF Deregister, LeaveForGood, ReleaseToken, Goto, OthersStay
  <2>2. Local(t)'
    BY <1>3, <1>a, <1>b DEF Deregister, LeaveForGood, ReleaseToken, Goto, Local,
       BelieveLabels, FreeLabels, WaitLabels, WaitRets, PutRets
  <2>3. TokenGoesAlong(t)
    BY <1>3, <1>a, <1>b DEF Deregister, LeaveForGood, ReleaseToken, Goto, Local, Global,
       TokenGoesAlong, SyncLabels, TokenLabels, LoneLabels, BelieveLabels, FreeLabels,
       WaitLabels, WaitRets, PutRets
  <2>4. ForkInv'
    BY <1>3, <1>a, <1>b, <2>1, ForkMove DEF Deregister, LeaveForGood, ReleaseToken, Goto,
       At, SubLabels
  <2>5. MutexInv'
    BY <1>3, <1>a, <1>b, <2>1, MutexMove DEF Deregister, LeaveForGood, ReleaseToken, Goto,
       Releasing, At, SubLabels, MutexInv
  <2> QED
    BY <1>b, <2>1, <2>2, <2>3, <2>4, <2>5, TokenMove DEF SafeInv
<1>4. CASE DeregisterWake(t)
  <2>1. OthersStay(t)
    BY <1>4, <1>a DEF DeregisterWake, Goto, OthersStay
  <2>2. Local(t)'
    BY <1>4, <1>a, <1>b DEF DeregisterWake, Goto, Local, BelieveLabels, FreeLabels,
       WaitLabels, WaitRets, PutRets
  <2>3. TokenGoesAlong(t)
    BY <1>4, <1>a, <1>b DEF DeregisterWake, Goto, Local, Global, TokenGoesAlong,
       SyncLabels, TokenLabels, LoneLabels, BelieveLabels, FreeLabels, WaitLabels,
       WaitRets, PutRets
  <2>4. ForkInv'
    BY <1>4, <1>a, <1>b, <2>1, ForkMove DEF DeregisterWake, Goto, At, SubLabels
  <2>5. MutexInv'
    BY <1>4, <1>a, <1>b, <2>1, MutexMove DEF DeregisterWake, Goto, Releasing, At,
       SubLabels, MutexInv
  <2> QED
    BY <1>b, <2>1, <2>2, <2>3, <2>4, <2>5, TokenMove DEF SafeInv
<1>5. CASE DeregisterSpin(t)
  <2>1. OthersStay(t)
    BY <1>5, <1>a DEF DeregisterSpin, Goto, OthersStay
  <2>2. Local(t)'
    BY <1>5, <1>a, <1>b DEF DeregisterSpin, Goto, Local, BelieveLabels, FreeLabels,
       WaitLabels, WaitRets, PutRets
  <2>3. TokenGoesAlong(t)
    BY <1>5, <1>a, <1>b DEF DeregisterSpin, Goto, Local, Global, TokenGoesAlong,
       SyncLabels, TokenLabels, LoneLabels, BelieveLabels, FreeLabels, WaitLabels,
       WaitRets, PutRets
  <2>4. ForkInv'
    BY <1>5, <1>a, <1>b, <2>1, ForkMove DEF DeregisterSpin, Goto, At, SubLabels
  <2>5. MutexInv'
    BY <1>5, <1>a, <1>b, <2>1, MutexMove DEF DeregisterSpin, Goto, Releasing, At,
       SubLabels, MutexInv
  <2> QED
    BY <1>b, <2>1, <2>2, <2>3, <2>4, <2>5, TokenMove DEF SafeInv
<1>6. CASE DeregisterRelease(t)
  <2>1. OthersStay(t)
    BY <1>6, <1>a DEF DeregisterRelease, LeaveForGood, ReleaseToken, Goto, OthersStay
  <2>2. Local(t)'
    BY <1>6, <1>a, <1>b DEF DeregisterRelease, LeaveForGood, ReleaseToken, Goto, Local,
       BelieveLabels, FreeLabels, WaitLabels, WaitRets, PutRets
  <2>3. TokenGoesAlong(t)
    BY <1>6, <1>a, <1>b DEF DeregisterRelease, LeaveForGood, ReleaseToken, Goto, Local,
       Global, TokenGoesAlong, SyncLabels, TokenLabels, LoneLabels, BelieveLabels,
       FreeLabels, WaitLabels, WaitRets, PutRets
  <2>4. ForkInv'
    BY <1>6, <1>a, <1>b, <2>1, ForkMove DEF DeregisterRelease, LeaveForGood, ReleaseToken,
       Goto, At, SubLabels
  <2>5. MutexInv'
    BY <1>6, <1>a, <1>b, <2>1, MutexMove DEF DeregisterRelease, LeaveForGood, ReleaseToken,
       Goto, Releasing, At, SubLabels, MutexInv
  <2> QED
    BY <1>b, <2>1, <2>2, <2>3, <2>4, <2>5, TokenMove DEF SafeInv
<1>7. CASE SetRetval(t)
  <2>1. OthersStay(t)
    BY <1>7, <1>a DEF SetRetval, Goto, OthersStay
  <2>2. Local(t)'
    BY <1>7, <1>a, <1>b DEF SetRetval, Goto, Local, BelieveLabels, FreeLabels, WaitLabels,
       WaitRets, PutRets
  <2>3. TokenGoesAlong(t)
    BY <1>7, <1>a, <1>b DEF SetRetval, Goto, Local, Global, TokenGoesAlong, SyncLabels,
       TokenLabels, LoneLabels, BelieveLabels, FreeLabels, WaitLabels, WaitRets, PutRets
  <2>4. ForkInv'
    BY <1>7, <1>a, <1>b, <2>1, ForkMove DEF SetRetval, Goto, At, SubLabels
  <2>5. MutexInv'
    BY <1>7, <1>a, <1>b, <2>1, MutexMove DEF SetRetval, Goto, Releasing, At, SubLabels,
       MutexInv
  <2> QED
    BY <1>b, <2>1, <2>2, <2>3, <2>4, <2>5, TokenMove DEF SafeInv
<1>8. CASE Unpark(t)
  <2>1. OthersStay(t)
    BY <1>8, <1>a DEF Unpark, Goto, OthersStay
  <2>2. Local(t)'
    BY <1>8, <1>a, <1>b DEF Unpark, Goto, Local, BelieveLabels, FreeLabels, WaitLabels,
       WaitRets, PutRets
  <2>3. TokenGoesAlong(t)
    BY <1>8, <1>a, <1>b DEF Unpark, Goto, Local, Global, TokenGoesAlong, SyncLabels,
       TokenLabels, LoneLabels, BelieveLabels, FreeLabels, WaitLabels, WaitRets, PutRets
  <2>4. ForkInv'
    BY <1>8, <1>a, <1>b, <2>1, ForkMove DEF Unpark, Goto, At, SubLabels
  <2>5. MutexInv'
    BY <1>8, <1>a, <1>b, <2>1, MutexMove DEF Unpark, Goto, Releasing, At, SubLabels,
       MutexInv
  <2> QED
    BY <1>b, <2>1, <2>2, <2>3, <2>4, <2>5, TokenMove DEF SafeInv
<1>9. CASE Done(t)
  <2>1. OthersStay(t)
    BY <1>9, <1>a DEF Done, WaitToken, Goto, Call, OthersStay
  <2>2. Local(t)'
    BY <1>9, <1>a, <1>b DEF Done, WaitToken, Goto, Call, Local, BelieveLabels, FreeLabels,
       WaitLabels, WaitRets, PutRets
  <2>3. TokenGoesAlong(t)
    BY <1>9, <1>a, <1>b DEF Done, WaitToken, Goto, Call, Local, Global, TokenGoesAlong,
       SyncLabels, TokenLabels, LoneLabels, BelieveLabels, FreeLabels, WaitLabels,
       WaitRets, PutRets
  <2>4. ForkInv'
    BY <1>9, <1>a, <1>b, <2>1, ForkMove DEF Done, WaitToken, Goto, Call, At, SubLabels
  <2>5. MutexInv'
    BY <1>9, <1>a, <1>b, <2>1, MutexMove DEF Done, WaitToken, Goto, Call, Releasing, At,
       SubLabels, MutexInv
  <2> QED
    BY <1>b, <2>1, <2>2, <2>3, <2>4, <2>5, TokenMove DEF SafeInv
<1>10. CASE Finalize(t)
  <2>1. OthersStay(t)
    BY <1>10, <1>a DEF Finalize, Call, OthersStay
  <2>2. Local(t)'
    BY <1>10, <1>a, <1>b DEF Finalize, Call, Local, BelieveLabels, FreeLabels, WaitLabels,
       WaitRets, PutRets
  <2>3. TokenGoesAlong(t)
    BY <1>10, <1>a, <1>b DEF Finalize, Call, Local, Global, TokenGoesAlong, SyncLabels,
       TokenLabels, LoneLabels, BelieveLabels, FreeLabels, WaitLabels, WaitRets, PutRets
  <2>4. ForkInv'
    <3>1. child \in [Threads -> Threads]
      BY DEF IndInv, TypeOK, LocalsType
    <3>2. /\ pc[t] = "finalize" /\ pc' = [pc EXCEPT ![t] = "put"]
          /\ ret' = [ret EXCEPT ![t] = "gone"] /\ child' = child /\ master_finished'
          /\ pool_status' = [u \in Threads |->
                                IF pool_status[u] = "WAITING" THEN "EXIT" ELSE pool_status[u]]
      BY <1>10 DEF Finalize, Call
    <3>3. \A u \in Threads : pool_status'[u] = "INIT" => pool_status[u] = "INIT"
      BY <3>2
    <3>4. \A u \in Threads : pc[u] = "unborn" => pc'[u] = "unborn"
      BY <1>a, <3>2
    <3>5. ASSUME NEW u \in Threads, At(u, "fork")', pool_status'[child[u]] = "INIT"
          PROVE  pc'[child[u]] = "unborn"
      <4>1. At(u, "fork")
        BY <1>a, <3>2, <3>5 DEF At, SubLabels
      <4> QED
        BY <1>b, <3>1, <3>3, <3>4, <3>5, <4>1 DEF ForkInv
    <3>6. ASSUME NEW u \in Threads, NEW v \in Threads, At(u, "fork")', At(v, "fork")',
                 child[u] = child[v], u # v
          PROVE  pool_status'[child[u]] # "INIT"
      <4>1. At(u, "fork") /\ At(v, "fork")
        BY <1>a, <3>2, <3>6 DEF At, SubLabels
      <4> QED
        BY <1>b, <3>1, <3>3, <3>6, <4>1 DEF ForkInv
    <3> QED
      BY <3>2, <3>5, <3>6 DEF ForkInv
  <2>5. MutexInv'
    BY <1>10, <1>a, <1>b, <2>1, MutexMove DEF Finalize, Call, Releasing, At, SubLabels,
       MutexInv
  <2> QED
    BY <1>b, <2>1, <2>2, <2>3, <2>4, <2>5, TokenMove DEF SafeInv
<1> QED
  BY <1>1, <1>2, <1>3, <1>4, <1>5, <1>6, <1>7, <1>8, <1>9, <1>10 DEF ExitStep

(* SafeInv, through every step of join.                                    *)
LEMMA JoinStepSafe ==
  ASSUME SingleThreadOpt = FALSE, IndInv, SafeInv, NEW t \in Threads, JoinStep(t)
  PROVE  SafeInv'
<1> USE DEF flow, locals, token, syncs, pooling
<1>a. /\ pc \in [Threads -> Labels] /\ ret \in [Threads -> Labels]
      /\ token_holding \in [Threads -> BOOLEAN] /\ is_single \in [Threads -> BOOLEAN]
  BY DEF IndInv, TypeOK, FlowType, LocalsType
<1>b. Local(t) /\ Global(t) /\ TypeOK /\ TokenInv /\ ForkInv /\ MutexInv
  BY DEF IndInv, SafeInv, TokenInv
<1>1. CASE Join(t)
  <2>1. OthersStay(t)
    BY <1>1, <1>a DEF Join, WaitToken, Goto, Call, Calls, OthersStay
  <2>2. Local(t)'
    BY <1>1, <1>a, <1>b DEF Join, WaitToken, Goto, Call, Calls, Local, BelieveLabels,
       FreeLabels, WaitLabels, WaitRets, PutRets
  <2>3. TokenGoesAlong(t)
    BY <1>1, <1>a, <1>b DEF Join, WaitToken, Goto, Call, Calls, Local, Global,
       TokenGoesAlong, SyncLabels, TokenLabels, LoneLabels, BelieveLabels, FreeLabels,
       WaitLabels, WaitRets, PutRets
  <2>4. ForkInv'
    BY <1>1, <1>a, <1>b, <2>1, ForkMove DEF Join, WaitToken, Goto, Call, Calls, At,
       SubLabels
  <2>5. MutexInv'
    BY <1>1, <1>a, <1>b, <2>1, MutexMove DEF Join, WaitToken, Goto, Call, Calls, Releasing,
       At, SubLabels, MutexInv
  <2> QED
    BY <1>b, <2>1, <2>2, <2>3, <2>4, <2>5, TokenMove DEF SafeInv
<1>2. CASE JoinCheck(t)
  <2>1. OthersStay(t)
    BY <1>2, <1>a DEF JoinCheck, Goto, ReleaseToken, OthersStay
  <2>2. Local(t)'
    BY <1>2, <1>a, <1>b DEF JoinCheck, Goto, ReleaseToken, Local, BelieveLabels,
       FreeLabels, WaitLabels, WaitRets, PutRets
  <2>3. TokenGoesAlong(t)
    BY <1>2, <1>a, <1>b DEF JoinCheck, Goto, ReleaseToken, Local, Global, TokenGoesAlong,
       SyncLabels, TokenLabels, LoneLabels, BelieveLabels, FreeLabels, WaitLabels,
       WaitRets, PutRets
  <2>4. ForkInv'
    BY <1>2, <1>a, <1>b, <2>1, ForkMove DEF JoinCheck, Goto, ReleaseToken, At, SubLabels
  <2>5. MutexInv'
    BY <1>2, <1>a, <1>b, <2>1, MutexMove DEF JoinCheck, Goto, ReleaseToken, Releasing, At,
       SubLabels, MutexInv
  <2> QED
    BY <1>b, <2>1, <2>2, <2>3, <2>4, <2>5, TokenMove DEF SafeInv
<1>3. CASE JoinAwake(t)
  <2>1. OthersStay(t)
    BY <1>3, <1>a DEF JoinAwake, Call, OthersStay
  <2>2. Local(t)'
    BY <1>3, <1>a, <1>b DEF JoinAwake, Call, Local, BelieveLabels, FreeLabels, WaitLabels,
       WaitRets, PutRets
  <2>3. TokenGoesAlong(t)
    BY <1>3, <1>a, <1>b DEF JoinAwake, Call, Local, Global, TokenGoesAlong, SyncLabels,
       TokenLabels, LoneLabels, BelieveLabels, FreeLabels, WaitLabels, WaitRets, PutRets
  <2>4. ForkInv'
    BY <1>3, <1>a, <1>b, <2>1, ForkMove DEF JoinAwake, Call, At, SubLabels
  <2>5. MutexInv'
    BY <1>3, <1>a, <1>b, <2>1, MutexMove DEF JoinAwake, Call, Releasing, At, SubLabels,
       MutexInv
  <2> QED
    BY <1>b, <2>1, <2>2, <2>3, <2>4, <2>5, TokenMove DEF SafeInv
<1>4. CASE JoinWoken(t)
  <2>1. OthersStay(t)
    BY <1>4, <1>a DEF JoinWoken, Call, OthersStay
  <2>2. Local(t)'
    BY <1>4, <1>a, <1>b DEF JoinWoken, Call, Local, BelieveLabels, FreeLabels, WaitLabels,
       WaitRets, PutRets
  <2>3. TokenGoesAlong(t)
    BY <1>4, <1>a, <1>b DEF JoinWoken, Call, Local, Global, TokenGoesAlong, SyncLabels,
       TokenLabels, LoneLabels, BelieveLabels, FreeLabels, WaitLabels, WaitRets, PutRets
  <2>4. ForkInv'
    BY <1>4, <1>a, <1>b, <2>1, ForkMove DEF JoinWoken, Call, At, SubLabels
  <2>5. MutexInv'
    BY <1>4, <1>a, <1>b, <2>1, MutexMove DEF JoinWoken, Call, Releasing, At, SubLabels,
       MutexInv
  <2> QED
    BY <1>b, <2>1, <2>2, <2>3, <2>4, <2>5, TokenMove DEF SafeInv
<1>5. CASE JoinResult(t)
  <2>1. OthersStay(t)
    BY <1>5, <1>a DEF JoinResult, Goto, OthersStay
  <2>2. Local(t)'
    BY <1>5, <1>a, <1>b DEF JoinResult, Goto, Local, BelieveLabels, FreeLabels, WaitLabels,
       WaitRets, PutRets
  <2>3. TokenGoesAlong(t)
    BY <1>5, <1>a, <1>b DEF JoinResult, Goto, Local, Global, TokenGoesAlong, SyncLabels,
       TokenLabels, LoneLabels, BelieveLabels, FreeLabels, WaitLabels, WaitRets, PutRets
  <2>4. ForkInv'
    BY <1>5, <1>a, <1>b, <2>1, ForkMove DEF JoinResult, Goto, At, SubLabels
  <2>5. MutexInv'
    BY <1>5, <1>a, <1>b, <2>1, MutexMove DEF JoinResult, Goto, Releasing, At, SubLabels,
       MutexInv
  <2> QED
    BY <1>b, <2>1, <2>2, <2>3, <2>4, <2>5, TokenMove DEF SafeInv
<1> QED
  BY <1>1, <1>2, <1>3, <1>4, <1>5 DEF JoinStep

-----------------------------------------------------------------------------
(***************************************************************************)
(* The theorems.                                                           *)
(***************************************************************************)
(* SafeInv holds when main starts.                                         *)
LEMMA SafeInit ==
  ASSUME Init PROVE SafeInv
<1>1. /\ \A t \in Threads : pc[t] \in {"run", "unborn"}
      /\ \A t \in Threads : ~is_single[t] /\ ~token_holding[t] /\ held[t] = {}
      /\ tokenpos = NULL /\ pool = <<>>
  BY DEF Init
<1>2. TokenInv
  BY <1>1, MasterThread DEF TokenInv, Local, Global, SyncLabels, TokenLabels, LoneLabels,
     BelieveLabels, FreeLabels, WaitLabels
<1>3. ForkInv
  BY <1>1 DEF ForkInv, At, SubLabels
<1>4. MutexInv
  BY <1>1 DEF MutexInv, MutualExclusion, Releasing, At, SubLabels
<1> QED
  BY <1>2, <1>3, <1>4 DEF SafeInv

(* Nothing SafeInv speaks of has changed.                                  *)
LEMMA SafeSame ==
  ASSUME SafeInv, UNCHANGED <<pc, ret, fn, ip, held, token_holding, is_single, child,
                              tokenpos, is_acquired, master_finished, pool, pool_status>>
  PROVE  SafeInv'
<1>1. TokenInv'
  BY DEF SafeInv, TokenInv, Local, Global
<1>2. ForkInv'
  BY DEF SafeInv, ForkInv, At
<1>3. MutexInv'
  BY DEF SafeInv, MutexInv, MutualExclusion, Releasing, At, CurOp
<1> QED
  BY <1>1, <1>2, <1>3 DEF SafeInv

(* Every step keeps SafeInv.                                               *)
LEMMA SafeStep ==
  ASSUME SingleThreadOpt = FALSE, IndInv, SafeInv, [Next]_vars
  PROVE  SafeInv'
<1>1. ASSUME NEW t \in Threads, ThreadStep(t) PROVE SafeInv'
  BY <1>1, GetTokenStepSafe, MutexStepSafe, CondStepSafe, SpawnStepSafe, ExitStepSafe,
     JoinStepSafe DEF ThreadStep
<1>2. ASSUME NEW t \in Threads, SpuriousWakeup(t) PROVE SafeInv'
  BY <1>2, SafeSame DEF SpuriousWakeup, flow, locals, token, syncs, pooling
<1>3. CASE UNCHANGED vars
  BY <1>3, SafeSame DEF vars, flow, locals, token, syncs, pooling
<1> QED
  BY <1>1, <1>2, <1>3 DEF Next, Terminated

(* SafeInv is an invariant; it is inductive only together with IndInv.     *)
LEMMA SafeAlways ==
  ASSUME SingleThreadOpt = FALSE PROVE Spec => []SafeInv
<1>1. Init => IndInv /\ SafeInv
  BY IndInit, SafeInit
<1>2. IndInv /\ SafeInv /\ [Next]_vars => (IndInv /\ SafeInv)'
  BY IndStep, SafeStep
<1> QED
  BY <1>1, <1>2, PTL DEF Spec

(* _tokenpos names a thread exactly while that thread is between getToken  *)
(* and putToken (determ.h), whatever the program and the clock do.         *)
THEOREM TokenCorrect ==
  ASSUME SingleThreadOpt = FALSE PROVE Spec => []TokenDiscipline
<1>1. SafeInv => TokenDiscipline
  BY DEF SafeInv, TokenInv, Local, Global, TokenDiscipline, HasToken, SyncLabels,
     LoneLabels, BelieveLabels
<1> QED
  BY <1>1, SafeAlways, PTL

(* Two threads are never both in code that the token protects: the token   *)
(* is a mutual exclusion for all of xrun's operations.                     *)
THEOREM SyncExclusive ==
  ASSUME SingleThreadOpt = FALSE PROVE Spec => []SyncExclusion
<1>1. ASSUME SafeInv, NEW t \in Threads, InSyncCode(t) PROVE tokenpos = t
  BY <1>1 DEF SafeInv, TokenInv, Global, InSyncCode, HasToken, SyncLabels, TokenLabels,
     LoneLabels
<1>2. SafeInv => SyncExclusion
  BY <1>1 DEF SyncExclusion
<1> QED
  BY <1>2, SafeAlways, PTL

(* No mutex is locked by two threads: the test and the store of            *)
(* lock_acquire need nothing but the token.                                *)
THEOREM MutexesExclusive ==
  ASSUME SingleThreadOpt = FALSE PROVE Spec => []MutualExclusion
<1>1. SafeInv => MutualExclusion
  BY DEF SafeInv, MutexInv
<1> QED
  BY <1>1, SafeAlways, PTL
=============================================================================

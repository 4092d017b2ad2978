---------------------------- MODULE SimpleLocks -----------------------------
(***************************************************************************)
(* Mutexes and condition variables of the DWC build (USE_SIMPLE_LOCKS): a  *)
(* thread keeps the token from the first mutex_lock to the mutex_unlock of *)
(* its last mutex, so that lock_acquire need never wait.                   *)
(*                                                                         *)
(* The token goes to any thread that wants it (the order is the clock's).  *)
(* A mutex protects one number that every critical section adds one to;    *)
(* Conversion's memory is that number, committed and as each thread sees   *)
(* it.                                                                     *)
(***************************************************************************)
EXTENDS Naturals, Sequences, FiniteSets, SequencesExt

CONSTANTS
  LockThreads, Locks,
  Inside,        \* operations that the program also does with a mutex locked
  MaxSections,   \* critical sections, bounds the model
  NoOne

VARIABLES
  tokenpos, token_holding, lock_count,
  is_acquired,   \* by mutex: LockEntry
  waiters,       \* CondEntry: the threads that wait, in order
  ready,         \* by thread: STATUS_READY
  pc,            \* by thread: [at, op, m]
  memory, view,  \* Conversion: committed, and as a thread sees it
  has,           \* by thread: the mutexes that the program has locked
  weird,         \* "Something weird happened" was printed
  sections, written \* by mutex: additions by the program (history)

runtime == <<tokenpos, token_holding, lock_count, is_acquired>>
program == <<has, weird, sections, written>>
vars == <<runtime, waiters, ready, pc, memory, view, program>>

Goto(t, at, op, m) == pc' = [pc EXCEPT ![t] = [at |-> at, op |-> op, m |-> m]]
User == [at |-> "user", op |-> "none", m |-> NoOne]
ToUser(t) == pc' = [pc EXCEPT ![t] = User]

(* commitAndUpdateMemory (Conversion is external): the numbers that the    *)
(* thread changed since are the larger ones.                               *)
CommitAndUpdateMemory(t) ==
  LET merged == [m \in Locks |-> IF view[t][m] > memory[m] THEN view[t][m] ELSE memory[m]]
  IN memory' = merged /\ view' = [view EXCEPT ![t] = merged]

(* The program calls op; add_atomic_event and the clock are left out.      *)
Call(t, op, m) ==
  /\ pc[t] = User
  /\ Goto(t, op, op, m)
  /\ UNCHANGED <<runtime, waiters, ready, memory, view, program>>

(* waitToken: at once if the thread has it.                                *)
MayHaveToken(t) == token_holding[t] \/ tokenpos = NoOne
WaitToken(t) ==
  /\ MayHaveToken(t)
  /\ tokenpos' = IF token_holding[t] THEN tokenpos ELSE t
  /\ token_holding' = [token_holding EXCEPT ![t] = TRUE]

(* putToken                                                                *)
PutToken(t) ==
  /\ tokenpos' = IF token_holding[t] THEN NoOne ELSE tokenpos
  /\ token_holding' = [token_holding EXCEPT ![t] = FALSE]

-----------------------------------------------------------------------------
(* __mutex_lock_inner up to lock_acquire, which finds the mutex free or    *)
(* prints a message; either way the program goes on with the mutex.        *)
MutexLock(t) ==
  LET m == pc[t].m
  IN /\ pc[t].at = "lock"
     /\ WaitToken(t)
     /\ lock_count' = [lock_count EXCEPT ![t] = @ + 1]
     /\ is_acquired' = [is_acquired EXCEPT ![m] = TRUE]
     /\ weird' = (weird \/ is_acquired[m])
     /\ IF token_holding[t] THEN UNCHANGED <<memory, view>> ELSE CommitAndUpdateMemory(t)
     /\ has' = [has EXCEPT ![t] = @ \cup {m}]
     /\ ToUser(t)
     /\ UNCHANGED <<waiters, ready, sections, written>>

(* The program works on what the mutex protects.                           *)
Section(t, m) ==
  /\ pc[t] = User /\ m \in has[t] /\ sections < MaxSections
  /\ view' = [view EXCEPT ![t][m] = @ + 1]
  /\ written' = [written EXCEPT ![m] = @ + 1]
  /\ sections' = sections + 1
  /\ UNCHANGED <<runtime, waiters, ready, pc, memory, has, weird>>

(* Mutant: every mutex_unlock gives the token back.                        *)
LastUnlockAny(t) == TRUE

(* _lock_count is zero after the decrement.                                *)
LastUnlock(t) == lock_count[t] = 1

(* mutex_unlock: lock_release, with or without the token ...               *)
MutexUnlock(t) ==
  LET m == pc[t].m
  IN /\ pc[t].at = "unlock"
     /\ lock_count' = [lock_count EXCEPT ![t] = @ - 1]
     /\ is_acquired' = [is_acquired EXCEPT ![m] = FALSE]
     /\ has' = [has EXCEPT ![t] = @ \ {m}]
     /\ IF LastUnlock(t) THEN Goto(t, "release", "unlock", m) ELSE ToUser(t)
     /\ UNCHANGED <<tokenpos, token_holding, waiters, ready, memory, view, weird, sections, written>>

(* ... then the commit and the token                                       *)
Release(t) ==
  /\ pc[t].at = "release"
  /\ CommitAndUpdateMemory(t) /\ PutToken(t)
  /\ ToUser(t)
  /\ UNCHANGED <<lock_count, is_acquired, waiters, ready, program>>

-----------------------------------------------------------------------------
(* xrun::cond_wait and determ::cond_wait until the thread sleeps: commit,  *)
(* join the queue, release the mutex, give the token back                  *)
CondWait(t) ==
  LET m == pc[t].m
  IN /\ pc[t].at = "wait"
     /\ MayHaveToken(t)
     /\ lock_count' = [lock_count EXCEPT ![t] = @ - 1]
     /\ CommitAndUpdateMemory(t)
     /\ waiters' = Append(waiters, t)
     /\ ready' = [ready EXCEPT ![t] = FALSE]
     /\ is_acquired' = [is_acquired EXCEPT ![m] = FALSE]
     /\ tokenpos' = NoOne
     /\ token_holding' = [token_holding EXCEPT ![t] = FALSE]
     /\ has' = [has EXCEPT ![t] = @ \ {m}]
     /\ Goto(t, "asleep", "wait", m)
     /\ UNCHANGED <<weird, sections, written>>

(* cond_wait goes on: a commit without the token, then the lock            *)
WakeUp(t) ==
  /\ pc[t].at = "asleep" /\ ready[t]
  /\ CommitAndUpdateMemory(t)
  /\ Goto(t, "lock", "wait", pc[t].m)
  /\ UNCHANGED <<runtime, waiters, ready, program>>

(* cond_signal keeps a token that it had.                                  *)
CondSignal(t) ==
  /\ pc[t].at = "signal"
  /\ MayHaveToken(t)
  /\ IF token_holding[t] THEN UNCHANGED <<memory, view>> ELSE CommitAndUpdateMemory(t)
  /\ waiters' = IF waiters = << >> THEN waiters ELSE Tail(waiters)
  /\ ready' = IF waiters = << >> THEN ready ELSE [ready EXCEPT ![Head(waiters)] = TRUE]
  /\ ToUser(t)
  /\ UNCHANGED <<runtime, program>>

(* cond_broadcast gives the token back whether it had it or not.           *)
CondBroadcast(t) ==
  /\ pc[t].at = "broadcast"
  /\ MayHaveToken(t)
  /\ CommitAndUpdateMemory(t)
  /\ ready' = [u \in LockThreads |-> ready[u] \/ u \in ToSet(waiters)]
  /\ waiters' = << >>
  /\ tokenpos' = NoOne
  /\ token_holding' = [token_holding EXCEPT ![t] = FALSE]
  /\ ToUser(t)
  /\ UNCHANGED <<lock_count, is_acquired, program>>

(* mutex_init, cond_init and barrier_init of another object, cancel and    *)
(* the handler of SIGUSR1: a transaction that ends with putToken           *)
Transaction(t) ==
  /\ pc[t].at = "init"
  /\ MayHaveToken(t)
  /\ CommitAndUpdateMemory(t)
  /\ tokenpos' = NoOne
  /\ token_holding' = [token_holding EXCEPT ![t] = FALSE]
  /\ ToUser(t)
  /\ UNCHANGED <<lock_count, is_acquired, waiters, ready, program>>

-----------------------------------------------------------------------------
Init ==
  /\ tokenpos = NoOne
  /\ token_holding = [t \in LockThreads |-> FALSE] /\ lock_count = [t \in LockThreads |-> 0]
  /\ is_acquired = [m \in Locks |-> FALSE]
  /\ waiters = << >> /\ ready = [t \in LockThreads |-> TRUE]
  /\ pc = [t \in LockThreads |-> User]
  /\ memory = [m \in Locks |-> 0] /\ view = [t \in LockThreads |-> [m \in Locks |-> 0]]
  /\ has = [t \in LockThreads |-> {}]
  /\ weird = FALSE /\ sections = 0 /\ written = [m \in Locks |-> 0]

(* What a program may call; with a mutex locked, or with another one than  *)
(* it waits with, only if Inside says so.                                  *)
MayCall(t, op, m) ==
  CASE op = "lock"      -> m \notin has[t]
    [] op = "unlock"    -> m \in has[t]
    [] op = "wait"      -> m \in has[t] /\ (has[t] = {m} \/ "wait" \in Inside)
    [] op \in {"broadcast", "init"} -> has[t] = {} \/ op \in Inside
    [] op = "signal"    -> TRUE

Next ==
  \/ (\A t \in LockThreads : pc[t].at = "asleep") /\ UNCHANGED vars
  \/ \E t \in LockThreads :
       \/ \E m \in Locks : Section(t, m)
       \/ \E m \in Locks, op \in {"lock", "unlock", "wait", "broadcast", "signal", "init"} :
            MayCall(t, op, m) /\ Call(t, op, m)
       \/ MutexLock(t) \/ MutexUnlock(t) \/ Release(t) \/ CondWait(t) \/ WakeUp(t) \/ CondSignal(t) \/ CondBroadcast(t) \/ Transaction(t)

Spec == Init /\ [][Next]_vars

-----------------------------------------------------------------------------
(* No two threads have a mutex, and who has one sees every addition that   *)
(* was made under it, although a nested mutex_lock does not update and     *)
(* lock_acquire's failure is not acted on.                                 *)
SimpleExclusion ==
  /\ ~weird
  /\ \A t, u \in LockThreads : t # u => has[t] \cap has[u] = {}
  /\ \A t \in LockThreads : \A m \in has[t] : view[t][m] = written[m]
=============================================================================

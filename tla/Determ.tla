------------------------------- MODULE Determ -------------------------------
(***************************************************************************)
(* The deterministic synchronisation runtime: the global token of          *)
(* class determ (determ.h), the pthread operations that class xrun builds  *)
(* on it (xrun.h), and the life cycle of the pooled threads                *)
(* (thread_pool.h, xthread.cpp).  Every "thread" is a process; what they   *)
(* share is determ's mmap-ed object, the thread pool, and the memory that  *)
(* Conversion versions.                                                    *)
(*                                                                         *)
(* The model is of the default build (FAST_FORWARD, SINGLE_THREAD_OPT,     *)
(* USE_USERSPACE_READING, USE_DEFERRED_WORK; no coarsening, no kendo).     *)
(* SingleThreadOpt keeps the macro as a parameter.                         *)
(*                                                                         *)
(* The logical clock appears here only as the part of its interface that   *)
(* determ depends on for safety: which threads are active and the          *)
(* single_active_thread flags.  Its answers (am I the lowest? did I        *)
(* activate the new lowest?) are free parameters of the actions.  Module   *)
(* TaskClock models the clock itself.                                      *)
(*                                                                         *)
(* A section under determ's _mutex is one step, because no thread can see  *)
(* into it; two such sections, a CAS, a spin loop and a sleep are steps of *)
(* their own.  Inside a section the only things others read without the    *)
(* mutex are _tokenpos, _activation_counter and status, and each section   *)
(* leaves them changed only while its thread holds the token.              *)
(***************************************************************************)
EXTENDS Integers, Sequences, FiniteSets

CONSTANTS
  PoolSize,        \* THREAD_POOL_MAX_SIZE: thread indices are 0 .. PoolSize-1
  Mutexes,         \* the pthread mutexes of the program
  Conds,           \* the pthread condition variables of the program
  Handles,         \* the pthread_t variables of the program
  Code,            \* the program: a function from names to sequences of Op
  MainFns,         \* the names the master thread may start in
  SingleThreadOpt, \* the build defines SINGLE_THREAD_OPT
  Spurious         \* pthread_cond_wait may return without a signal

Threads == 0 .. PoolSize - 1
Master  == 0
NULL    == -1

FnNames == DOMAIN Code

OpKinds == {"lock", "unlock", "wait", "signal", "broadcast", "spawn", "join"}

(* One pthread call of the program, with its arguments (unused ones are    *)
(* arbitrary): the mutex, the condition variable, the pthread_t variable,  *)
(* the start routine.  A wait stands for the loop programs put around it,  *)
(* while (data of m < until) pthread_cond_wait(c, m).                      *)
Op == [kind : OpKinds, m : Mutexes, c : Conds, h : Handles, fn : FnNames,
       until : Nat]

ASSUME PoolAssumption == PoolSize \in Nat \ {0, 1}

ASSUME FlagAssumption == SingleThreadOpt \in BOOLEAN /\ Spurious \in BOOLEAN

ASSUME CodeAssumption ==
  /\ \A f \in FnNames : Code[f] \in Seq(Op)
  /\ MainFns \subseteq FnNames
  /\ MainFns # {}

(***************************************************************************)
(* Where a thread is.                                                      *)
(***************************************************************************)
Labels ==
  {"unborn", "run", "start", "error", "gone",                       \* xrun
   "is_lowest", "read_lowest", "read_higher", "is_lowest_wait",     \* __getToken
   "cas", "check_activation", "fast_forward", "put",                \* waitToken, putToken
   "lock_try", "lock_acquire", "lock_set",                          \* __mutex_lock_inner
   "wl_enqueue", "wl_halt", "wl_put", "wl_spin", "wl_asleep",       \* wait_on_lock...
   "unlock_try", "unlock_commit", "unlock_release",                 \* mutex_unlock
   "signal_waiters",
   "cw_enqueue", "cw_halt", "cw_asleep", "cw_woken",                \* cond_wait
   "cond_wake",                                                     \* cond_signal
   "get_thread", "fork", "spawn_done",                              \* spawn
   "register", "registered", "begin",                               \* do_work
   "join_check", "join_asleep", "join_woken", "join_result",        \* join
   "pool_add", "deregister", "ex_spin", "ex_release", "set_retval", \* threadDeregister
   "park",
   "finalize"}                                                      \* done

Statuses == {"COND_WAITING", "READY", "EXIT", "JOINING",
             "OTHERS_NEED_TO_WAIT", "WAITING_ON_LOCK", "ON_DECK"}

PoolStatuses == {"INIT", "WAITING", "READY", "EXIT"}

VARIABLES
  (* control of each process *)
  pc,                 \* where it is
  ret,                \* where it goes on after waitToken or putToken
  fn, ip,             \* the program call it is at: Code[fn[t]][ip[t]]
  held,               \* the mutexes it has locked
  token_holding,      \* xrun::_token_holding
  failed,             \* failure_count > 0 in __mutex_lock_inner
  is_single,          \* local isSingleActiveThread
  should_update,      \* local shouldUpdate in __mutex_lock_inner
  child,              \* the pool entry spawn works on
  do_work_parent,     \* argument parent_index of xthread::do_work
  (* class determ *)
  tokenpos,           \* index of the holder, or NULL
  outdated,           \* _activation_counter # local_activation_counter
  last_getter, last_putter,
  status, tid_parent, joinee,
  asleep,             \* blocked in pthread_cond_wait
  to_signal,          \* threads lock_release signals after its unlock()
  is_acquired, lockq, \* LockEntry (waiters is the length of the queue)
  condq,              \* CondEntry (idem)
  master_finished,
  (* logical clock, as determ sees it *)
  active,             \* the threads in group_info->active_threads
  single,             \* user_status->single_active_thread
  bug_on,             \* a BUG_ON of listarray.h was hit
  (* thread pool *)
  pool, id_counter, pool_status,
  retval,             \* ThreadStatus.retval: which run of the thread wrote it
  (* Conversion: one integer of program data per mutex *)
  mem, view, dirty,
  handle,             \* the thread index behind each pthread_t, or NULL
  (* history *)
  sections,           \* how many critical sections of each mutex are over
  spawned, runs,      \* how often an index was handed out, and started
  handle_run,         \* the run of that thread the pthread_t stands for
  reused              \* some index was handed out again

flow    == <<pc, ret>>
locals  == <<fn, ip, held, token_holding, failed, is_single, should_update,
             child, do_work_parent>>
token   == <<tokenpos, outdated, last_getter, last_putter>>
entries == <<status, tid_parent, joinee, asleep, to_signal>>
syncs   == <<is_acquired, lockq, condq, master_finished>>
clock   == <<active, single, bug_on>>
pooling == <<pool, id_counter, pool_status, retval, handle>>
memory  == <<mem, view, dirty>>
history == <<sections, spawned, runs, handle_run, reused>>

vars == <<flow, locals, token, entries, syncs, clock, pooling, memory, history>>

CurOp(t) == Code[fn[t]][ip[t]]
AtEnd(t) == ip[t] > Len(Code[fn[t]])

(* The thread is in user code and its next call is of this kind.           *)
Calls(t, kind) == pc[t] = "run" /\ ~AtEnd(t) /\ CurOp(t).kind = kind

Goto(t, l) ==
  /\ pc' = [pc EXCEPT ![t] = l]
  /\ UNCHANGED ret

(* Enter a subroutine that goes on at l.                                   *)
Call(t, sub, l) ==
  /\ pc'  = [pc EXCEPT ![t] = sub]
  /\ ret' = [ret EXCEPT ![t] = l]

(* Mutant: the thread that released the token last takes it for its own.   *)
WaitTokenUnlessLastPutter(t, l) ==
  IF token_holding[t] \/ last_putter = t THEN Goto(t, l) ELSE Call(t, "is_lowest", l)

(* xrun::waitToken, called in tail position.                               *)
WaitToken(t, l) ==
  IF token_holding[t] THEN Goto(t, l) ELSE Call(t, "is_lowest", l)

(***************************************************************************)
(* The clock's side effects that determ can observe.                       *)
(***************************************************************************)

(* Every clock call of an active thread that reaches                       *)
(* __determine_lowest_and_notify_or_wait: the flag is set when the caller  *)
(* is alone, and nothing here ever clears it.                              *)
ClockCall(t) ==
  /\ single' = [single EXCEPT ![t] = @ \/ active = {t}]
  /\ UNCHANGED <<active, bug_on>>

(* Mutant: the activating thread still counts as the only one.             *)
ActivateOthersKeepsSingle(t, ws) ==
  /\ active' = active \cup ws
  /\ bug_on' = (bug_on \/ ws \cap active # {})
  /\ UNCHANGED single

(* determ_task_clock_activate_other, called by t for the threads in ws.    *)
ActivateOthers(t, ws) ==
  /\ active' = active \cup ws
  /\ single' = [single EXCEPT ![t] = FALSE]
  /\ bug_on' = (bug_on \/ ws \cap active # {})

(* determ_task_clock_activate: a thread puts itself back.                  *)
ActivateSelf(t) ==
  /\ active' = active \cup {t}
  /\ bug_on' = (bug_on \/ t \in active)
  /\ UNCHANGED single

(* Mutant: the thread stays in the race.                                   *)
HaltForgotten(t) == UNCHANGED clock

(* determ_task_clock_halt                                                  *)
Halt(t) ==
  /\ active' = active \ {t}
  /\ bug_on' = (bug_on \/ t \notin active)
  /\ UNCHANGED single

(* xrun::singleActiveThread                                                *)
SingleActiveThread(t) == SingleThreadOpt /\ single[t] /\ last_getter = t

(***************************************************************************)
(* Memory: a thread works on its own view; a commit publishes what it      *)
(* changed and brings its view up to date (conv_commit_and_update).        *)
(***************************************************************************)

(* Mutant: the thread's own changes are dropped.                           *)
UpdateWithoutCommit(t) ==
  /\ view'  = [view EXCEPT ![t] = mem]
  /\ dirty' = [dirty EXCEPT ![t] = {}]
  /\ UNCHANGED mem

CommitAndUpdateMemory(t) ==
  LET merged == [m \in Mutexes |-> IF m \in dirty[t] THEN view[t][m] ELSE mem[m]]
  IN  /\ mem'   = merged
      /\ view'  = [view EXCEPT ![t] = merged]
      /\ dirty' = [dirty EXCEPT ![t] = {}]

MaybeCommit(t, cond) ==
  IF cond THEN CommitAndUpdateMemory(t) ELSE UNCHANGED memory

(* What the program does while it has m: it changes the data m protects.   *)
CriticalSection(t, m) ==
  /\ view'  = [view EXCEPT ![t][m] = @ + 1]
  /\ dirty' = [dirty EXCEPT ![t] = @ \cup {m}]
  /\ sections' = [sections EXCEPT ![m] = @ + 1]
  /\ UNCHANGED <<mem, spawned, runs, handle_run, reused>>

-----------------------------------------------------------------------------
(***************************************************************************)
(* The state before main: xrun::initialize.                                *)
(***************************************************************************)
Init ==
  /\ pc = [t \in Threads |-> IF t = Master THEN "run" ELSE "unborn"]
  /\ ret = [t \in Threads |-> "run"]
  /\ \E f \in MainFns : fn = [t \in Threads |-> f]
  /\ ip = [t \in Threads |-> 1]
  /\ held = [t \in Threads |-> {}]
  /\ token_holding = [t \in Threads |-> FALSE]
  /\ failed = [t \in Threads |-> FALSE]
  /\ is_single = [t \in Threads |-> FALSE]
  /\ should_update = [t \in Threads |-> FALSE]
  /\ child = [t \in Threads |-> Master]
  /\ do_work_parent = [t \in Threads |-> Master]
  /\ tokenpos = NULL
  /\ outdated = [t \in Threads |-> FALSE]
  /\ last_getter = Master
  /\ last_putter = Master
  /\ status = [t \in Threads |-> IF t = Master THEN "READY" ELSE "COND_WAITING"]
  /\ tid_parent = [t \in Threads |-> Master]
  /\ joinee = [t \in Threads |-> Master]
  /\ asleep = [t \in Threads |-> FALSE]
  /\ to_signal = [t \in Threads |-> {}]
  /\ is_acquired = [m \in Mutexes |-> FALSE]
  /\ lockq = [m \in Mutexes |-> <<>>]
  /\ condq = [c \in Conds |-> <<>>]
  /\ master_finished = FALSE
  /\ active = {Master}
  /\ single = [t \in Threads |-> t = Master]
  /\ bug_on = FALSE
  /\ pool = <<>>
  /\ id_counter = 0
  /\ pool_status = [t \in Threads |-> "INIT"]
  /\ retval = [t \in Threads |-> 0]
  /\ handle = [h \in Handles |-> NULL]
  /\ mem = [m \in Mutexes |-> 0]
  /\ view = [t \in Threads |-> mem]
  /\ dirty = [t \in Threads |-> {}]
  /\ sections = [m \in Mutexes |-> 0]
  /\ spawned = [t \in Threads |-> 0]
  /\ runs = [t \in Threads |-> 0]
  /\ handle_run = [h \in Handles |-> 0]
  /\ reused = FALSE

-----------------------------------------------------------------------------
(***************************************************************************)
(* __getToken, waitToken, __putToken, putToken.                            *)
(***************************************************************************)

(* Mutant: _tokenpos still points to the thread.                           *)
KeepToken(t) ==
  /\ last_putter' = t
  /\ UNCHANGED tokenpos

(* determ::__putToken                                                      *)
ReleaseToken(t) ==
  /\ tokenpos' = NULL
  /\ last_putter' = t

(* Between the read of _activation_counter and the check of its value.     *)
ActivationWindow == {"is_lowest_wait", "cas", "check_activation"}

(* _activation_counter++ if incremented: the local copies are outdated.    *)
CountActivation(incremented) ==
  outdated' = [u \in Threads |->
                 outdated[u] \/ (incremented /\ pc[u] \in ActivationWindow)]

(* determ_task_clock_is_lowest() answers low.  Whether it reaches the      *)
(* kernel (which may set the single flag) depends on the clock's state.    *)
(* Of the spinning iterations that find nothing only the last is a step.   *)
IsLowest(t, low) ==
  /\ pc[t] = "is_lowest"
  /\ Goto(t, IF low THEN "read_lowest" ELSE "read_higher")
  /\ UNCHANGED clock \/ ClockCall(t)
  /\ UNCHANGED <<locals, token, entries, syncs, pooling, memory, history>>

(* local_activation_counter = _activation_counter, only after the answer.  *)
(* A thread that has spun enough goes and polls.                           *)
ReadActivation(t) ==
  /\ pc[t] \in {"read_lowest", "read_higher"}
  /\ outdated' = [outdated EXCEPT ![t] = FALSE]
  /\ Goto(t, IF pc[t] = "read_lowest" THEN "cas" ELSE "is_lowest_wait")
  /\ UNCHANGED <<locals, tokenpos, last_getter, last_putter, entries, syncs,
                 clock, pooling, memory, history>>

(* determ_task_clock_is_lowest_wait() returns.                             *)
IsLowestWait(t) ==
  /\ pc[t] = "is_lowest_wait"
  /\ Goto(t, "cas")
  /\ UNCHANGED clock \/ ClockCall(t)
  /\ UNCHANGED <<locals, token, entries, syncs, pooling, memory, history>>

(* Spin until _tokenpos is NULL, then compare and swap.                    *)
CompareAndSwap(t) ==
  /\ pc[t] = "cas"
  /\ tokenpos = NULL
  /\ tokenpos' = t
  /\ Goto(t, "check_activation")
  /\ UNCHANGED <<locals, outdated,
                 last_getter, last_putter, entries, syncs, clock, pooling,
                 memory, history>>

(* If someone was activated meanwhile the token is given back and the      *)
(* thread starts over; else it is the getter.  determ::join goes on by     *)
(* itself, every other caller is waitToken.                                *)
CheckActivation(t) ==
  /\ pc[t] = "check_activation"
  /\ outdated' = [outdated EXCEPT ![t] = FALSE]
  /\ IF outdated[t]
     THEN /\ tokenpos' = NULL
          /\ Goto(t, "is_lowest")
          /\ UNCHANGED last_getter
     ELSE /\ last_getter' = t
          /\ Goto(t, IF token_holding[t] THEN ret[t] ELSE "fast_forward")
          /\ UNCHANGED tokenpos
  /\ UNCHANGED <<locals, last_putter, entries, syncs, clock, pooling, memory, history>>

(* waitToken: determ_task_clock_add_ticks(fast_forward_clock()).           *)
FastForward(t) ==
  /\ pc[t] = "fast_forward"
  /\ token_holding' = [token_holding EXCEPT ![t] = TRUE]
  /\ Goto(t, ret[t])
  /\ ClockCall(t)
  /\ UNCHANGED <<fn, ip, held, failed, is_single, should_update, child, do_work_parent, token,
                 entries, syncs, pooling, memory, history>>

(* xrun::putToken and putTokenNoFastForward, after which t is at ret[t].   *)
PutToken(t) ==
  /\ pc[t] = "put"
  /\ IF token_holding[t] THEN ReleaseToken(t)
     ELSE UNCHANGED <<tokenpos, last_putter>>
  /\ token_holding' = [token_holding EXCEPT ![t] = FALSE]
  /\ Goto(t, ret[t])
  /\ UNCHANGED <<fn, ip, held, failed, is_single, should_update, child, do_work_parent,
                 outdated, last_getter,
                 entries, syncs, clock, pooling, memory, history>>

(* startClock at the end of an operation: back to user code.               *)
StartClock(t) ==
  /\ pc[t] = "start"
  /\ ip' = [ip EXCEPT ![t] = IF CurOp(t).kind = "wait" THEN @ ELSE @ + 1]
  /\ Goto(t, "run")
  /\ ClockCall(t)
  /\ UNCHANGED <<fn, held, token_holding, failed, is_single, should_update, child,
                 do_work_parent, token, entries, syncs, pooling, memory, history>>

-----------------------------------------------------------------------------
(***************************************************************************)
(* mutex_lock and __mutex_lock_inner.                                      *)
(***************************************************************************)

(* mutex_lock: stopClock, then the lock proper with no failure so far.     *)
MutexLock(t) ==
  /\ Calls(t, "lock")
  /\ CurOp(t).m \notin held[t]
  /\ failed' = [failed EXCEPT ![t] = FALSE]
  /\ Goto(t, "lock_try")
  /\ ClockCall(t)
  /\ UNCHANGED <<fn, ip, held, token_holding, is_single, should_update, child, do_work_parent,
                 token, entries, syncs, pooling, memory, history>>

(* Mutant: the first attempt does without the token.                       *)
NeedsTokenOnRetry(t) == failed[t]

(* The token is needed unless this is the only active thread.              *)
NeedsToken(t) == ~SingleActiveThread(t) \/ failed[t]

(* retry: take the token if it is needed.                                  *)
LockTry(t) ==
  /\ pc[t] = "lock_try"
  /\ is_single' = [is_single EXCEPT ![t] = SingleActiveThread(t)]
  /\ IF NeedsToken(t) THEN WaitToken(t, "lock_acquire")
     ELSE Goto(t, "lock_acquire")
  /\ UNCHANGED <<fn, ip, held, token_holding, failed, should_update, child, do_work_parent,
                 token, entries, syncs, clock, pooling, memory, history>>

(* lock_acquire reads the flag, and finds it clear.  It is a plain test    *)
(* and then a plain store, "must be called while holding the token".       *)
LockAcquire(t) ==
  /\ pc[t] = "lock_acquire"
  /\ ~is_acquired[CurOp(t).m]
  /\ should_update' = [should_update EXCEPT ![t] = t # last_putter]
  /\ Goto(t, "lock_set")
  /\ UNCHANGED <<fn, ip, held, token_holding, failed, is_single, child,
                 do_work_parent, token, entries, syncs, clock, pooling, memory,
                 history>>

(* The mutex is taken.  Commit and add ticks, unless alone and up to date; *)
(* give the token back if it was taken.  __mutex_lock_inner returns, and   *)
(* its locals are gone.                                                    *)
LockSet(t) ==
  LET m == CurOp(t).m
      update == ~is_single[t] \/ should_update[t]
  IN  /\ pc[t] = "lock_set"
      /\ is_acquired' = [is_acquired EXCEPT ![m] = TRUE]
      /\ held' = [held EXCEPT ![t] = @ \cup {m}]
      /\ failed' = [failed EXCEPT ![t] = FALSE]
      /\ should_update' = [should_update EXCEPT ![t] = FALSE]
      /\ MaybeCommit(t, update)
      /\ IF update THEN ClockCall(t) ELSE UNCHANGED clock
      /\ IF is_single[t] THEN Goto(t, "start") ELSE Call(t, "put", "start")
      /\ UNCHANGED <<fn, ip, token_holding, is_single, child, do_work_parent, token, entries,
                     lockq, condq, master_finished, pooling, history>>

(* lock_acquire found the mutex taken: commit once, then wait in line.     *)
(* A thread that believes it is alone gives up with exit(-1).              *)
LockFailed(t) ==
  /\ pc[t] = "lock_acquire"
  /\ is_acquired[CurOp(t).m]
  /\ failed' = [failed EXCEPT ![t] = TRUE]
  /\ Goto(t, IF is_single[t] THEN "error" ELSE "wl_enqueue")
  /\ MaybeCommit(t, ~is_single[t] /\ ~failed[t])
  /\ UNCHANGED <<fn, ip, held, token_holding, is_single, should_update, child, do_work_parent,
                 token, entries, syncs, clock, pooling, history>>

(* wait_on_lock_and_release_token, its section under _mutex.               *)
WaitOnLockEnqueue(t) ==
  /\ pc[t] = "wl_enqueue"
  /\ lockq' = [lockq EXCEPT ![CurOp(t).m] = Append(@, t)]
  /\ status' = [status EXCEPT ![t] = "WAITING_ON_LOCK"]
  /\ Goto(t, "wl_halt")
  /\ UNCHANGED <<locals, token, tid_parent, joinee, asleep, to_signal,
                 is_acquired, condq, master_finished, clock, pooling, memory,
                 history>>

WaitOnLockHalt(t) ==
  /\ pc[t] = "wl_halt"
  /\ Halt(t)
  /\ Goto(t, "wl_put")
  /\ UNCHANGED <<locals, token, entries, syncs, pooling, memory, history>>

(* putToken inside determ: xrun still believes it holds the token.         *)
WaitOnLockPut(t) ==
  /\ pc[t] = "wl_put"
  /\ ReleaseToken(t)
  /\ Goto(t, "wl_spin")
  /\ UNCHANGED <<locals, outdated,
                 last_getter, entries, syncs, clock, pooling, memory, history>>

(* while (entry->status != STATUS_READY), with _mutex held.                *)
MaySleep(t) == status[t] # "READY"

(* Spinning was not enough: status is checked again under _mutex and the   *)
(* thread sleeps on its own condition variable.                            *)
WaitOnLockSleep(t) ==
  /\ pc[t] = "wl_spin"
  /\ MaySleep(t)
  /\ asleep' = [asleep EXCEPT ![t] = TRUE]
  /\ Goto(t, "wl_asleep")
  /\ UNCHANGED <<locals, token, status, tid_parent, joinee, to_signal, syncs,
                 clock, pooling, memory, history>>

(* Back from pthread_cond_wait: on deck it spins again, ready it is done,  *)
(* anything else puts it back to sleep.                                    *)
WaitOnLockAwake(t) ==
  /\ pc[t] = "wl_asleep"
  /\ ~asleep[t]
  /\ status[t] # "READY"
  /\ IF status[t] = "ON_DECK"
     THEN Goto(t, "wl_spin") /\ UNCHANGED asleep
     ELSE asleep' = [asleep EXCEPT ![t] = TRUE] /\ UNCHANGED flow
  /\ UNCHANGED <<locals, token, status, tid_parent, joinee, to_signal, syncs,
                 clock, pooling, memory, history>>

WaitOnLockReturn(t) ==
  /\ \/ pc[t] = "wl_spin"
     \/ pc[t] = "wl_asleep" /\ ~asleep[t]
  /\ status[t] = "READY"
  /\ token_holding' = [token_holding EXCEPT ![t] = FALSE]
  /\ Goto(t, "lock_try")
  /\ UNCHANGED <<fn, ip, held, failed, is_single, should_update, child, do_work_parent, token,
                 entries, syncs, clock, pooling, memory, history>>

(***************************************************************************)
(* mutex_unlock.                                                           *)
(***************************************************************************)

(* Mutant: off by one.                                                     *)
HasSeveralWaiters(m) == Len(lockq[m]) > 1

(* entry->waiters > 0                                                      *)
HasWaiters(m) == lockq[m] # <<>>

(* determ::lock_release by t: clear the flag, and if threads wait, make    *)
(* the first one active and ready (newLow: it is the new lowest) and warn  *)
(* the next one.  The condition variables are signalled after the unlock.  *)
(* st is the status array it starts from.                                  *)
LockRelease(t, m, st, newLow) ==
  /\ is_acquired' = [is_acquired EXCEPT ![m] = FALSE]
  /\ held' = [held EXCEPT ![t] = @ \ {m}]
  /\ IF ~HasWaiters(m)
     THEN /\ status' = st
          /\ UNCHANGED <<lockq, outdated, clock, to_signal>>
     ELSE LET w    == Head(lockq[m])
              rest == Tail(lockq[m])
          IN  /\ lockq' = [lockq EXCEPT ![m] = rest]
              /\ ActivateOthers(t, {w})
              /\ CountActivation(newLow)
              /\ IF rest = <<>>
                 THEN /\ status' = [st EXCEPT ![w] = "READY"]
                      /\ to_signal' = [to_signal EXCEPT ![t] = {w}]
                 ELSE /\ status' = [st EXCEPT ![w] = "READY", ![Head(rest)] = "ON_DECK"]
                      /\ to_signal' = [to_signal EXCEPT ![t] = {w, Head(rest)}]

(* stopClock, and the token unless alone.                                  *)
MutexUnlock(t) ==
  /\ Calls(t, "unlock")
  /\ CurOp(t).m \in held[t]
  /\ CriticalSection(t, CurOp(t).m)
  /\ Goto(t, "unlock_try")
  /\ ClockCall(t)
  /\ UNCHANGED <<locals, token, entries, syncs, pooling>>

UnlockTry(t) ==
  /\ pc[t] = "unlock_try"
  /\ is_single' = [is_single EXCEPT ![t] = SingleActiveThread(t)]
  /\ IF SingleActiveThread(t) THEN Goto(t, "unlock_commit")
     ELSE WaitToken(t, "unlock_commit")
  /\ UNCHANGED <<fn, ip, held, token_holding, failed, should_update, child, do_work_parent,
                 token, entries, syncs, clock, pooling, memory, history>>

(* Somebody may look at what this thread wrote: it is not alone, or was    *)
(* not the last to hold the token, or its unlock will wake a waiter.       *)
UnlockCommits(t) ==
  \/ ~SingleActiveThread(t)
  \/ t # last_putter
  \/ HasWaiters(CurOp(t).m)

UnlockCommit(t) ==
  /\ pc[t] = "unlock_commit"
  /\ MaybeCommit(t, UnlockCommits(t))
  /\ Goto(t, "unlock_release")
  /\ UNCHANGED <<locals, token, entries, syncs, clock, pooling, history>>

UnlockRelease(t, newLow) ==
  /\ pc[t] = "unlock_release"
  /\ LockRelease(t, CurOp(t).m, status, newLow)
  /\ Goto(t, "signal_waiters")
  /\ UNCHANGED <<fn, ip, token_holding, failed, is_single, should_update, child,
                 do_work_parent, tokenpos, last_getter, last_putter, tid_parent, joinee, asleep, condq,
                 master_finished, pooling, memory, history>>

(* pthread_cond_signal on the chosen threads, after unlock(), and on to    *)
(* the rest of mutex_unlock or cond_wait.                                  *)
SignalWaiters(t) ==
  /\ pc[t] = "signal_waiters"
  /\ asleep' = [u \in Threads |-> asleep[u] /\
                  ~(u \in to_signal[t] /\ pc[u] = "wl_asleep")]
  /\ to_signal' = [to_signal EXCEPT ![t] = {}]
  /\ IF CurOp(t).kind = "wait" THEN Goto(t, "cw_halt")
     ELSE IF is_single[t] THEN Goto(t, "start") ELSE Call(t, "put", "start")
  /\ UNCHANGED <<locals, token, status, tid_parent, joinee, syncs, clock,
                 pooling, memory, history>>

-----------------------------------------------------------------------------
(***************************************************************************)
(* cond_wait, cond_signal, cond_broadcast.                                 *)
(***************************************************************************)
CondWait(t) ==
  /\ Calls(t, "wait")
  /\ CurOp(t).m \in held[t]
  /\ view[t][CurOp(t).m] < CurOp(t).until
  /\ WaitToken(t, "cw_enqueue")
  /\ ClockCall(t)
  /\ UNCHANGED <<locals, token, entries, syncs, pooling, memory, history>>

(* The loop around the wait ends: a step of the program.                   *)
PredicateHolds(t) ==
  /\ Calls(t, "wait")
  /\ view[t][CurOp(t).m] >= CurOp(t).until
  /\ ip' = [ip EXCEPT ![t] = @ + 1]
  /\ UNCHANGED <<flow, fn, held, token_holding, failed, is_single, should_update, child,
                 do_work_parent, token, entries, syncs, clock, pooling, memory,
                 history>>

(* Commit, join the queue of the condition variable, release the mutex.    *)
CondWaitEnqueue(t, newLow) ==
  LET op == CurOp(t)
  IN  /\ pc[t] = "cw_enqueue"
      /\ CommitAndUpdateMemory(t)
      /\ condq' = [condq EXCEPT ![op.c] = Append(@, t)]
      /\ LockRelease(t, op.m, [status EXCEPT ![t] = "COND_WAITING"], newLow)
      /\ Goto(t, "signal_waiters")
      /\ UNCHANGED <<fn, ip, token_holding, failed, is_single, should_update, child,
                     do_work_parent, tokenpos, last_getter, last_putter, tid_parent, joinee, asleep,
                     master_finished, pooling, history>>

(* Under _mutex: leave the race, release the token, sleep.                 *)
CondWaitHalt(t) ==
  /\ pc[t] = "cw_halt"
  /\ Halt(t)
  /\ ReleaseToken(t)
  /\ asleep' = [asleep EXCEPT ![t] = status[t] # "READY"]
  /\ Goto(t, "cw_asleep")
  /\ UNCHANGED <<locals, outdated,
                 last_getter, status, tid_parent, joinee, to_signal, syncs,
                 pooling, memory, history>>

(* realcond wakes every waiter; those not chosen sleep again.              *)
CondWaitAwake(t) ==
  /\ pc[t] = "cw_asleep"
  /\ ~asleep[t]
  /\ status[t] # "READY"
  /\ asleep' = [asleep EXCEPT ![t] = TRUE]
  /\ UNCHANGED <<flow, locals, token, status, tid_parent, joinee, to_signal,
                 syncs, clock, pooling, memory, history>>

CondWaitReturn(t) ==
  /\ pc[t] = "cw_asleep"
  /\ ~asleep[t]
  /\ status[t] = "READY"
  /\ Goto(t, "cw_woken")
  /\ UNCHANGED <<locals, token, entries, syncs, clock, pooling, memory, history>>

(* Back in xrun::cond_wait, without the token: commit, then lock again.    *)
CondWaitRelock(t) ==
  /\ pc[t] = "cw_woken"
  /\ token_holding' = [token_holding EXCEPT ![t] = FALSE]
  /\ failed' = [failed EXCEPT ![t] = FALSE]
  /\ CommitAndUpdateMemory(t)
  /\ Goto(t, "lock_try")
  /\ UNCHANGED <<fn, ip, held, is_single, should_update, child, do_work_parent, token, entries,
                 syncs, clock, pooling, history>>

CondSignal(t) ==
  /\ Calls(t, "signal") \/ Calls(t, "broadcast")
  /\ WaitToken(t, "cond_wake")
  /\ ClockCall(t)
  /\ UNCHANGED <<locals, token, entries, syncs, pooling, memory, history>>

(* Mutant: realcond is only signalled, which wakes any one of them.        *)
RealcondSignal(c) ==
  LET on == {u \in Threads : pc[u] = "cw_asleep" /\ asleep[u] /\ CurOp(u).c = c}
  IN  IF on = {} THEN {} ELSE {CHOOSE u \in on : TRUE}

(* pthread_cond_broadcast on realcond: whom it wakes.                      *)
RealcondBroadcast(c) == {u \in Threads : pc[u] = "cw_asleep" /\ CurOp(u).c = c}

(* determ::cond_signal takes the first waiter, cond_broadcast all of them; *)
(* a broadcast counts as an activation whatever the clock says.            *)
CondWake(t, newLow) ==
  LET op   == CurOp(t)
      q    == condq[op.c]
      n    == IF op.kind = "signal" THEN 1 ELSE Len(q)
      woken == {q[i] : i \in 1 .. n}
  IN  /\ pc[t] = "cond_wake"
      /\ CommitAndUpdateMemory(t)
      /\ Call(t, "put", "start")
      /\ IF q = <<>>
         THEN UNCHANGED <<outdated, condq, status, asleep, clock>>
         ELSE /\ condq' = [condq EXCEPT ![op.c] = SubSeq(q, n + 1, Len(q))]
              /\ status' = [u \in Threads |-> IF u \in woken THEN "READY" ELSE status[u]]
              /\ ActivateOthers(t, woken)
              /\ CountActivation(newLow \/ op.kind = "broadcast")
              /\ asleep' = [u \in Threads |-> asleep[u] /\ u \notin RealcondBroadcast(op.c)]
      /\ UNCHANGED <<locals, tokenpos, last_getter,
                     last_putter, tid_parent, joinee, to_signal, is_acquired,
                     lockq, master_finished, pooling, history>>

-----------------------------------------------------------------------------
(***************************************************************************)
(* spawn, and what a new or reused thread does first.                      *)
(***************************************************************************)

(* A spawn with a mutex held is refused with exit(-1).                     *)
Spawn(t) ==
  /\ Calls(t, "spawn")
  /\ IF held[t] # {} THEN Goto(t, "error") ELSE WaitToken(t, "get_thread")
  /\ ClockCall(t)
  /\ UNCHANGED <<locals, token, entries, syncs, pooling, memory, history>>

(* Mutant: off by one.                                                     *)
PoolHasRoomTooFar == pool # <<>> \/ id_counter < PoolSize

(* get_thread finds a parked entry or a fresh one.                         *)
PoolHasRoom == pool # <<>> \/ id_counter < PoolSize - 1

(* commit, add_ticks for the fork, ThreadPool::get_thread.  The oldest     *)
(* parked entry is reused, else the next fresh one is taken; with neither  *)
(* the NULL entry is dereferenced.  The model stops at a spawn after main  *)
(* has returned.                                                           *)
GetThread(t) ==
  LET c == IF pool # <<>> THEN Head(pool) ELSE id_counter + 1
  IN  /\ pc[t] = "get_thread"
      /\ PoolHasRoom
      /\ ~master_finished
      /\ CommitAndUpdateMemory(t)
      /\ IF pool # <<>> THEN pool' = Tail(pool) /\ UNCHANGED id_counter
         ELSE id_counter' = id_counter + 1 /\ UNCHANGED pool
      /\ child' = [child EXCEPT ![t] = c]
      /\ fn' = [fn EXCEPT ![c] = CurOp(t).fn]
      /\ ip' = [ip EXCEPT ![c] = 1]
      /\ ActivateOthers(t, {c})
      /\ pool_status' = [pool_status EXCEPT ![c] =
                           IF @ = "WAITING" THEN "READY" ELSE "INIT"]
      /\ spawned' = [spawned EXCEPT ![c] = @ + 1]
      /\ reused' = (reused \/ pool # <<>>)
      /\ Call(t, "put", "fork")
      /\ UNCHANGED <<held, token_holding, failed, is_single, should_update, do_work_parent,
                     token, entries, syncs, retval, handle, sections, runs, handle_run>>

PoolExhausted(t) ==
  /\ pc[t] = "get_thread"
  /\ ~PoolHasRoom
  /\ CommitAndUpdateMemory(t)
  /\ Goto(t, "error")
  /\ UNCHANGED <<locals, token, entries, syncs, clock, pooling, history>>

(* xthread::forkSpawn: a fresh entry is cloned; its process starts with a  *)
(* cleared user_status (determ_task_clock_init_with_id) and with the       *)
(* caller as the parent index it keeps for good.                           *)
Fork(t) ==
  LET c == child[t]
      fresh == pool_status[c] = "INIT"
  IN  /\ pc[t] = "fork"
      /\ pc' = [pc EXCEPT ![t] = "is_lowest",
                          ![c] = IF fresh THEN "register" ELSE @]
      /\ ret' = [ret EXCEPT ![t] = "spawn_done"]
      /\ IF fresh
         THEN /\ do_work_parent' = [do_work_parent EXCEPT ![c] = t]
              /\ single' = [single EXCEPT ![c] = FALSE]
              /\ view' = [view EXCEPT ![c] = view[t]]
         ELSE UNCHANGED <<do_work_parent, single, view>>
      /\ UNCHANGED <<fn, ip, held, token_holding, failed, is_single, should_update, child, token,
                     entries, syncs, active, bug_on, pooling, mem, dirty, history>>

(* *tid has been written; the second token of spawn publishes it.          *)
SpawnDone(t) ==
  /\ pc[t] = "spawn_done"
  /\ handle' = [handle EXCEPT ![CurOp(t).h] = child[t]]
  /\ handle_run' = [handle_run EXCEPT ![CurOp(t).h] = spawned[child[t]]]
  /\ CommitAndUpdateMemory(t)
  /\ Call(t, "put", "start")
  /\ UNCHANGED <<locals, token, entries, syncs, clock, pool, id_counter,
                 pool_status, retval, sections, spawned, runs, reused>>

(* childRegister: _lock_count = 0, _token_holding = false.                 *)
ResetThread(t) ==
  /\ held' = [held EXCEPT ![t] = {}]
  /\ token_holding' = [token_holding EXCEPT ![t] = FALSE]

(* childRegister up to its waitToken, registerThread included.             *)
Register(t) ==
  /\ pc[t] = "register"
  /\ ResetThread(t)
  /\ status' = [status EXCEPT ![t] = "READY"]
  /\ tid_parent' = [tid_parent EXCEPT ![t] = do_work_parent[t]]
  /\ runs' = [runs EXCEPT ![t] = @ + 1]
  /\ IF token_holding'[t] THEN Goto(t, "registered")
     ELSE Call(t, "is_lowest", "registered")
  /\ UNCHANGED <<fn, ip, failed, is_single, should_update, child, do_work_parent, token,
                 joinee, asleep, to_signal, syncs, clock, pooling, memory,
                 sections, spawned, handle_run, reused>>

Registered(t) ==
  /\ pc[t] = "registered"
  /\ CommitAndUpdateMemory(t)
  /\ Call(t, "put", "begin")
  /\ UNCHANGED <<locals, token, entries, syncs, clock, pooling, history>>

(* run_thread: determ_task_clock_start, then the start routine.            *)
RunThread(t) ==
  /\ pc[t] = "begin"
  /\ Goto(t, "run")
  /\ ClockCall(t)
  /\ UNCHANGED <<locals, token, entries, syncs, pooling, memory, history>>

-----------------------------------------------------------------------------
(***************************************************************************)
(* The end of a thread: threadDeregister, deregisterThread, park_thread.   *)
(***************************************************************************)
ThreadDeregister(t) ==
  /\ pc[t] = "run" /\ AtEnd(t) /\ t # Master
  /\ WaitToken(t, "pool_add")
  /\ ClockCall(t)
  /\ UNCHANGED <<locals, token, entries, syncs, pooling, memory, history>>

(* Mutant: the flag is never seen.                                         *)
MasterNeverFinished == FALSE

(* is_master_thread_finisehd()                                             *)
MasterThreadFinished == master_finished

(* commit; back to the pool unless the program is ending.                  *)
PoolAdd(t) ==
  /\ pc[t] = "pool_add"
  /\ CommitAndUpdateMemory(t)
  /\ IF MasterThreadFinished
     THEN pool_status' = [pool_status EXCEPT ![t] = "EXIT"] /\ UNCHANGED pool
     ELSE /\ pool_status' = [pool_status EXCEPT ![t] = "WAITING"]
          /\ pool' = Append(pool, t)
  /\ Goto(t, "deregister")
  /\ UNCHANGED <<locals, token, entries, syncs, clock, id_counter, retval, handle, history>>

(* Mutant: the wrong index is compared.                                    *)
ParentJoinsParent(t) ==
  status[tid_parent[t]] = "JOINING" /\ joinee[tid_parent[t]] = tid_parent[t]

(* parent->status == STATUS_JOINING && parent->joinee == me                *)
ParentJoins(t) ==
  status[tid_parent[t]] = "JOINING" /\ joinee[tid_parent[t]] = t

(* determ_task_clock_halt, determ_task_clock_reset, putTokenLockHeld.      *)
LeaveForGood(t) ==
  /\ Halt(t)
  /\ ReleaseToken(t)
  /\ Goto(t, "set_retval")
  /\ UNCHANGED <<outdated, last_getter>>

(* deregisterThread, nobody to wake: all of it under _mutex.               *)
Deregister(t) ==
  /\ pc[t] = "deregister"
  /\ ~ParentJoins(t)
  /\ status' = [status EXCEPT ![t] = "EXIT"]
  /\ LeaveForGood(t)
  /\ UNCHANGED <<locals, tid_parent, joinee, asleep, to_signal, syncs, pooling,
                 memory, history>>

(* The parent is joining on this thread: everyone asleep on _cond_join is  *)
(* woken, and _mutex released so that the parent can come back.            *)
DeregisterWake(t) ==
  /\ pc[t] = "deregister"
  /\ ParentJoins(t)
  /\ status' = [status EXCEPT ![t] = "EXIT",
                              ![tid_parent[t]] = "OTHERS_NEED_TO_WAIT"]
  /\ asleep' = [u \in Threads |-> asleep[u] /\ pc[u] # "join_asleep"]
  /\ Goto(t, "ex_spin")
  /\ UNCHANGED <<locals, token, tid_parent, joinee, to_signal, syncs, clock,
                 pooling, memory, history>>

(* Mutant: the child does not wait.                                        *)
ParentLetGo(t) == TRUE

(* while (parent->status == STATUS_OTHERS_NEED_TO_WAIT)                    *)
ParentAwake(t) == status[tid_parent[t]] # "OTHERS_NEED_TO_WAIT"

(* "we need to hold on to the token until the parent wakes up..."          *)
DeregisterSpin(t) ==
  /\ pc[t] = "ex_spin"
  /\ ParentAwake(t)
  /\ Goto(t, "ex_release")
  /\ UNCHANGED <<locals, token, entries, syncs, clock, pooling, memory, history>>

DeregisterRelease(t) ==
  /\ pc[t] = "ex_release"
  /\ LeaveForGood(t)
  /\ UNCHANGED <<locals, entries, syncs, pooling, memory, history>>

(* run_thread: t->retval = result, after threadDeregister returned.        *)
SetRetval(t) ==
  /\ pc[t] = "set_retval"
  /\ retval' = [retval EXCEPT ![t] = runs[t]]
  /\ Goto(t, "park")
  /\ UNCHANGED <<locals, token, entries, syncs, clock, pool, id_counter,
                 pool_status, handle, memory, history>>

(* park_thread: the futex lets go once the status is not WAITING.          *)
Unpark(t) ==
  /\ pc[t] = "park"
  /\ pool_status[t] # "WAITING"
  /\ Goto(t, IF pool_status[t] = "EXIT" THEN "gone" ELSE "register")
  /\ UNCHANGED <<locals, token, entries, syncs, clock, pooling, memory, history>>

-----------------------------------------------------------------------------
(***************************************************************************)
(* join.                                                                   *)
(***************************************************************************)

(* xthread::getThreadIndex(v)                                              *)
Guest(t) == handle[CurOp(t).h]

(* The program joins only on a pthread_t that has been written.            *)
Join(t) ==
  /\ Calls(t, "join")
  /\ Guest(t) # NULL
  /\ WaitToken(t, "join_check")
  /\ ClockCall(t)
  /\ UNCHANGED <<locals, token, entries, syncs, pooling, memory, history>>

(* The joinee is alive: leave the race, release the token and sleep on     *)
(* _cond_join, all under _mutex.  If it has exited the token is kept.      *)
JoinCheck(t) ==
  LET g == Guest(t)
  IN  /\ pc[t] = "join_check"
      /\ CommitAndUpdateMemory(t)
      /\ IF status[g] # "EXIT"
         THEN /\ Halt(t)
              /\ status' = [status EXCEPT ![t] = "JOINING"]
              /\ joinee' = [joinee EXCEPT ![t] = g]
              /\ asleep' = [asleep EXCEPT ![t] = TRUE]
              /\ ReleaseToken(t)
              /\ Goto(t, "join_asleep")
         ELSE /\ status' = [status EXCEPT ![t] = "READY"]
              /\ Goto(t, "join_woken")
              /\ UNCHANGED <<joinee, asleep, tokenpos, last_putter, clock>>
      /\ UNCHANGED <<locals, outdated,
                     last_getter, tid_parent, to_signal, syncs, pooling, history>>

(* Woken: go back to sleep while the joinee lives, else become active      *)
(* again, then READY, and queue for the token.                             *)
JoinAwake(t) ==
  /\ pc[t] = "join_asleep"
  /\ ~asleep[t]
  /\ IF status[joinee[t]] # "EXIT"
     THEN /\ status' = [status EXCEPT ![t] = "JOINING"]
          /\ asleep' = [asleep EXCEPT ![t] = TRUE]
          /\ UNCHANGED <<flow, clock>>
     ELSE /\ ActivateSelf(t)
          /\ status' = [status EXCEPT ![t] = "READY"]
          /\ Call(t, "is_lowest", "join_woken")
          /\ UNCHANGED asleep
  /\ UNCHANGED <<locals, token, tid_parent, joinee, to_signal, syncs, pooling,
                 memory, history>>

(* add_ticks(fast_forward_clock()), commit.                                *)
JoinWoken(t) ==
  /\ pc[t] = "join_woken"
  /\ CommitAndUpdateMemory(t)
  /\ ClockCall(t)
  /\ Call(t, "put", "join_result")
  /\ UNCHANGED <<locals, token, entries, syncs, pooling, history>>

(* xthread::join: *result = t->retval                                      *)
JoinResult(t) ==
  /\ pc[t] = "join_result"
  /\ Goto(t, "start")
  /\ UNCHANGED <<locals, token, entries, syncs, clock, pooling, memory, history>>

-----------------------------------------------------------------------------
(***************************************************************************)
(* The end of the program: xrun::done in the master.                       *)
(***************************************************************************)
Done(t) ==
  /\ pc[t] = "run" /\ AtEnd(t) /\ t = Master
  /\ WaitToken(t, "finalize")
  /\ UNCHANGED <<locals, token, entries, syncs, clock, pooling, memory, history>>

Finalize(t) ==
  /\ pc[t] = "finalize"
  /\ master_finished' = TRUE
  /\ pool_status' = [u \in Threads |->
                       IF pool_status[u] = "WAITING" THEN "EXIT" ELSE pool_status[u]]
  /\ Call(t, "put", "gone")
  /\ UNCHANGED <<locals, token, entries, is_acquired, lockq, condq, clock, pool,
                 id_counter, retval, handle, memory, history>>

(* pthread_cond_wait may return for no reason.                             *)
SpuriousWakeup(t) ==
  /\ Spurious
  /\ asleep[t]
  /\ asleep' = [asleep EXCEPT ![t] = FALSE]
  /\ UNCHANGED <<flow, locals, token, status, tid_parent, joinee, to_signal,
                 syncs, clock, pooling, memory, history>>

-----------------------------------------------------------------------------
(* Nothing left to run: the processes are gone, parked or never started;   *)
(* or one of them has called exit(-1) or crashed.                          *)
Finished == \A t \in Threads : pc[t] \in {"gone", "park", "unborn"}
Crashed  == \E t \in Threads : pc[t] = "error"

Terminated == (Finished \/ Crashed) /\ UNCHANGED vars

GetTokenStep(t) ==
  \/ \E low \in BOOLEAN : IsLowest(t, low)
  \/ ReadActivation(t) \/ IsLowestWait(t) \/ CompareAndSwap(t)
  \/ CheckActivation(t) \/ FastForward(t) \/ PutToken(t) \/ StartClock(t)

MutexStep(t) ==
  \/ MutexLock(t) \/ LockTry(t) \/ LockAcquire(t) \/ LockSet(t) \/ LockFailed(t)
  \/ WaitOnLockEnqueue(t) \/ WaitOnLockHalt(t) \/ WaitOnLockPut(t)
  \/ WaitOnLockSleep(t) \/ WaitOnLockAwake(t) \/ WaitOnLockReturn(t)
  \/ MutexUnlock(t) \/ UnlockTry(t) \/ UnlockCommit(t)
  \/ \E newLow \in BOOLEAN : UnlockRelease(t, newLow)
  \/ SignalWaiters(t)

CondStep(t) ==
  \/ CondWait(t) \/ PredicateHolds(t) \/ CondWaitHalt(t) \/ CondWaitAwake(t) \/ CondWaitReturn(t)
  \/ CondWaitRelock(t) \/ CondSignal(t)
  \/ \E newLow \in BOOLEAN : CondWaitEnqueue(t, newLow) \/ CondWake(t, newLow)

SpawnStep(t) ==
  \/ Spawn(t) \/ GetThread(t) \/ PoolExhausted(t) \/ Fork(t) \/ SpawnDone(t)
  \/ Register(t) \/ Registered(t) \/ RunThread(t)

ExitStep(t) ==
  \/ ThreadDeregister(t) \/ PoolAdd(t) \/ Deregister(t) \/ DeregisterWake(t)
  \/ DeregisterSpin(t) \/ DeregisterRelease(t) \/ SetRetval(t) \/ Unpark(t) \/ Done(t) \/ Finalize(t)

JoinStep(t) == Join(t) \/ JoinCheck(t) \/ JoinAwake(t) \/ JoinWoken(t) \/ JoinResult(t)

ThreadStep(t) ==
  \/ GetTokenStep(t) \/ MutexStep(t) \/ CondStep(t) \/ SpawnStep(t)
  \/ ExitStep(t) \/ JoinStep(t)

Next ==
  \/ \E t \in Threads : ThreadStep(t) \/ SpuriousWakeup(t)
  \/ Terminated

Spec == Init /\ [][Next]_vars

-----------------------------------------------------------------------------
(***************************************************************************)
(* Properties.                                                             *)
(***************************************************************************)

FlowType == pc \in [Threads -> Labels] /\ ret \in [Threads -> Labels]

LocalsType ==
  /\ fn \in [Threads -> FnNames] /\ ip \in [Threads -> Nat \ {0}]
  /\ held \in [Threads -> SUBSET Mutexes]
  /\ token_holding \in [Threads -> BOOLEAN] /\ failed \in [Threads -> BOOLEAN]
  /\ is_single \in [Threads -> BOOLEAN] /\ should_update \in [Threads -> BOOLEAN]
  /\ child \in [Threads -> Threads] /\ do_work_parent \in [Threads -> Threads]

TokenType ==
  /\ tokenpos \in Threads \cup {NULL} /\ outdated \in [Threads -> BOOLEAN]
  /\ last_getter \in Threads /\ last_putter \in Threads

EntriesType ==
  /\ status \in [Threads -> Statuses] /\ tid_parent \in [Threads -> Threads]
  /\ joinee \in [Threads -> Threads] /\ asleep \in [Threads -> BOOLEAN]
  /\ to_signal \in [Threads -> SUBSET Threads]

SyncsType ==
  /\ is_acquired \in [Mutexes -> BOOLEAN] /\ lockq \in [Mutexes -> Seq(Threads)]
  /\ condq \in [Conds -> Seq(Threads)] /\ master_finished \in BOOLEAN

ClockType ==
  active \in SUBSET Threads /\ single \in [Threads -> BOOLEAN] /\ bug_on \in BOOLEAN

PoolingType ==
  /\ pool \in Seq(Threads) /\ id_counter \in Nat
  /\ pool_status \in [Threads -> PoolStatuses] /\ retval \in [Threads -> Nat]
  /\ handle \in [Handles -> Threads \cup {NULL}]

MemoryType ==
  /\ mem \in [Mutexes -> Nat] /\ view \in [Threads -> [Mutexes -> Nat]]
  /\ dirty \in [Threads -> SUBSET Mutexes]

HistoryType ==
  /\ sections \in [Mutexes -> Nat] /\ spawned \in [Threads -> Nat]
  /\ runs \in [Threads -> Nat] /\ handle_run \in [Handles -> Nat]
  /\ reused \in BOOLEAN

(* Every variable has its type, whatever the program: indices the pool     *)
(* hands out are indices of _entries, a join finds a pthread_t, the call a *)
(* thread is in exists.                                                    *)
TypeOK ==
  /\ FlowType /\ LocalsType /\ TokenType /\ EntriesType /\ SyncsType
  /\ ClockType /\ PoolingType /\ MemoryType /\ HistoryType

(* Where a thread is only with the token.                                  *)
TokenLabels ==
  {"check_activation", "fast_forward", "put", "wl_enqueue", "wl_halt", "wl_put",
   "cw_enqueue", "cw_halt", "cond_wake", "get_thread", "spawn_done", "registered",
   "join_check", "join_woken", "pool_add", "deregister", "ex_spin", "ex_release",
   "finalize"}

(* Where a thread is with the token, or without it because it is alone.    *)
LoneLabels ==
  {"lock_acquire", "lock_set", "unlock_commit", "unlock_release", "signal_waiters"}

HasToken(t) ==
  \/ pc[t] \in TokenLabels
  \/ pc[t] \in LoneLabels /\ token_holding[t]

(* _tokenpos names a thread exactly while that thread is between getToken  *)
(* and putToken: the token is never kept into user code or into a sleep,   *)
(* and never lost.  Otherwise __putToken's assert(0), or everyone spins on *)
(* _tokenpos for ever.  (A process that crashes takes the token with it.)  *)
TokenDiscipline ==
  \A t \in Threads : pc[t] # "error" => (tokenpos = t <=> HasToken(t))

(* Reading or writing what the token protects, with or without it.  After  *)
(* its lock_release a lone thread is not alone any more, but has only the  *)
(* signals left to send.                                                   *)
InSyncCode(t) ==
  HasToken(t) \/ pc[t] \in LoneLabels \ {"signal_waiters"}

(* Two threads are never both between getToken and putToken, nor one there *)
(* and another on the path that SINGLE_THREAD_OPT lets a lone thread take  *)
(* without the token.                                                      *)
SyncExclusion ==
  \A t, u \in Threads : InSyncCode(t) /\ InSyncCode(u) => t = u

(* No mutex is locked by two threads, although lock_acquire is an          *)
(* unprotected test and store.                                             *)
MutualExclusion ==
  \A t, u \in Threads : t # u => held[t] \cap held[u] = {}

(* A thread in user code with m locked sees what every earlier critical    *)
(* section of m did: commits and updates are where they have to be.        *)
SeesProtectedData ==
  \A t \in Threads : \A m \in held[t] :
    pc[t] = "run" => view[t][m] = sections[m]

LockWaiters(m) == {lockq[m][i] : i \in DOMAIN lockq[m]}
CondWaiters(c) == {condq[c][i] : i \in DOMAIN condq[c]}

(* Waiting for another thread to put it back in the race.                  *)
Blocked(t) ==
  \/ pc[t] \in {"wl_put", "wl_spin", "wl_asleep"} /\ t \in LockWaiters(CurOp(t).m)
  \/ pc[t] = "cw_asleep" /\ t \in CondWaiters(CurOp(t).c)
  \/ pc[t] = "join_asleep"
  \/ pc[t] \in {"unborn", "set_retval", "park"} /\ runs[t] = spawned[t]
  \/ pc[t] = "gone" /\ t # Master

(* The clock counts a thread among the active ones exactly when it can go  *)
(* on by itself.  A blocked thread that stays active stops everyone else   *)
(* from being the lowest; a runnable one that is not can be overtaken.     *)
ActiveIffRunnable == \A t \in Threads : t \in active <=> ~Blocked(t)

(* No BUG_ON of listarray.h: nobody is made active twice or halted twice.  *)
NoBugOn == ~bug_on

(* Nobody leaves with exit(-1) but in pthread_create, in particular not    *)
(* because "Lock failed with single active thread".                        *)
NoError == \A t \in Threads : pc[t] = "error" => CurOp(t).kind = "spawn"

(* On the way to lock_acquire for m.                                       *)
OnTheWay(t, m) ==
  /\ ~AtEnd(t)
  /\ CurOp(t).m = m
  /\ \/ pc[t] \in {"lock_try", "lock_acquire", "lock_set"}
     \/ /\ pc[t] \in {"is_lowest", "read_lowest", "read_higher", "is_lowest_wait", "cas",
                      "check_activation", "fast_forward"}
        /\ ret[t] = "lock_acquire"
     \/ pc[t] \in {"wl_spin", "wl_asleep"} /\ status[t] = "READY"

(* While threads queue for a mutex, it is locked or somebody is about to   *)
(* try it: lock_release hands over to exactly one waiter, and that one     *)
(* queues again if it is overtaken, so no queue is forgotten.              *)
LockHandOff ==
  \A m \in Mutexes :
    LockWaiters(m) # {} /\ ~is_acquired[m] => \E t \in Threads : OnTheWay(t, m)

(* A thread that sleeps on a mutex or a condition variable although it was *)
(* made READY is about to be signalled: lock_release signals after it let  *)
(* go of _mutex, and the sleeper checks its status again under _mutex.     *)
NoLostWakeup ==
  \A t \in Threads : asleep[t] /\ status[t] = "READY" =>
    \E u \in Threads : pc[u] = "signal_waiters" /\ t \in to_signal[u]

(* deregisterThread: a thread sleeping in join has a living joinee.        *)
JoinNotLost ==
  \A t \in Threads : asleep[t] /\ pc[t] = "join_asleep" =>
    status[joinee[t]] # "EXIT"

(* An exiting thread keeps the token until the parent that joins on it is  *)
(* back among the active threads: "The parent needs to at least activate   *)
(* first and get back in the running before the child gives up the token." *)
JoinHandOff ==
  \A t \in Threads : pc[t] = "ex_release" =>
    ~(pc[tid_parent[t]] = "join_asleep" /\ joinee[tid_parent[t]] = t)

(* pthread_join returns what the thread it joined on returned: the result  *)
(* is in the status structure when xthread::join grabs it.                 *)
JoinGetsResult ==
  \A t \in Threads : pc[t] = "join_result" =>
    retval[Guest(t)] = handle_run[CurOp(t).h]

(* Once main has returned no thread stays parked for good: a thread that   *)
(* exits meanwhile either is told by terminate_all or sees the flag.       *)
NobodyLeftParked == master_finished => \A t \in Threads : pool_status[t] # "WAITING"
=============================================================================

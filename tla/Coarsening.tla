----------------------------- MODULE Coarsening -----------------------------
(***************************************************************************)
(* Transaction coarsening (USE_TX_COARSENING): a thread that expects the   *)
(* next piece of its program to be short keeps the token over several      *)
(* lock operations, does not commit in between, and reads its counter      *)
(* itself instead of asking the kernel.                                    *)
(*                                                                         *)
(* One thread is followed (xrun.h, determ_clock.c, tx_estimate.h); what    *)
(* the others do shows in three flags: who put and who had the token last, *)
(* and whether the clock calls this thread the only active one.  The       *)
(* clock's scaling and the fast-forward of module TaskClock are left out.  *)
(***************************************************************************)
EXTENDS Integers, FiniteSetsExt

CONSTANTS
  Chunks,         \* instructions between two operations
  Ops,            \* the operations the program uses
  MinObs,         \* TX_ESTIMATE_MIN_OBSERVATIONS
  TotalObs,       \* TX_ESTIMATE_TOTAL_OBSERVVATIONS
  MinLevel, AfterTransfer, MaxLevel,   \* LOGICAL_CLOCK_..._TX_SIZE
  MaxOps          \* operations in all (bounds the model)

VARIABLES
  pc,     \* "user", "op" before an operation, or the place where it waits
  s,      \* the statics of xrun, task_clock_info and the kernel's entry
  ran,    \* instructions executed (history)
  nops

vars == <<pc, s, ran, nops>>

Ids == {"none", "mutex"}

Abs(n) == IF n < 0 THEN -n ELSE n

-----------------------------------------------------------------------------
(* tx_estimate_add_observation: a moving average with weight 0.2, and a    *)
(* ring of the last observations.                                          *)
AddObservation(e, n) ==
  [ewma |-> (n + 4 * e.ewma) \div 5,
   observations |-> [e.observations EXCEPT ![e.counter % TotalObs] = n],
   counter |-> e.counter + 1]

Deviations(e) == MapThenSumSet(LAMBDA i : Abs(e.observations[i] - e.ewma), 0 .. TotalObs - 1)

(* tx_estimate_next_observation_guess                                      *)
NextGuess(e) ==
  IF e.counter > MinObs THEN e.ewma + Deviations(e) \div TotalObs ELSE -1

-----------------------------------------------------------------------------
(***************************************************************************)
(* The clock library and the kernel's side of it.                          *)
(***************************************************************************)
InCoarsenedTx(x) == x.tx_coarsening_counter > 0

ClockRead(x) == x.ticks + x.coarsened_ticks_counter

LastTxSize(x) == ClockRead(x) - x.last_clock_value

Observe(x, id, n) == [x EXCEPT !.estimator[id] = AddObservation(@, n)]

(* __determ_task_clock_stop_with_id: read the counter here, or let         *)
(* task_clock_entry_stop do it, which takes it only while it is on.        *)
StopClock(x, id) ==
  IF InCoarsenedTx(x)
  THEN LET delta == x.raw - x.last_raw_perf
       IN  Observe([x EXCEPT !.coarsened_ticks_counter = @ + delta], id, delta)
  ELSE LET y == [x EXCEPT !.ticks = IF x.count_ticks THEN @ + x.raw - x.prev_count ELSE @,
                          !.prev_count = x.raw, !.count_ticks = FALSE]
       IN  Observe(y, id, LastTxSize(y))

(* determ_task_clock_start_no_notify, task_clock_entry_start_no_notify:    *)
(* the counter gets a huge period once and then runs on.                   *)
StartNoNotify(x) ==
  LET y == IF x.in_coarsened_tx THEN x
           ELSE [x EXCEPT !.in_coarsened_tx = TRUE, !.raw = 0, !.prev_count = 0,
                          !.count_ticks = FALSE]
  IN  [y EXCEPT !.last_clock_value = ClockRead(x), !.last_raw_perf = y.raw]

(* determ_task_clock_start, task_clock_entry_start                         *)
StartNotify(x) ==
  [x EXCEPT !.last_clock_value = ClockRead(x), !.raw = 0, !.prev_count = 0, !.count_ticks = TRUE]

StartClock(x) == IF InCoarsenedTx(x) THEN StartNoNotify(x) ELSE StartNotify(x)

(* Mutant: the ticks counted in userspace are dropped.                     *)
EndTxForgetful(x) ==
  [x EXCEPT !.in_coarsened_tx = FALSE, !.coarsened_ticks_counter = 0, !.tx_coarsening_counter = 0]

(* endTXCoarsening, determ_task_clock_end_coarsened_tx                     *)
EndTx(x) ==
  IF InCoarsenedTx(x)
  THEN [x EXCEPT !.ticks = @ + x.coarsened_ticks_counter, !.in_coarsened_tx = FALSE,
                 !.coarsened_ticks_counter = 0, !.tx_coarsening_counter = 0]
  ELSE x

ResetTx(x) == EndTx([x EXCEPT !.tx_monitor_next = FALSE, !.tx_current_coarsening_level = MinLevel])

-----------------------------------------------------------------------------
(***************************************************************************)
(* xrun: the token, the decision, the commit.                              *)
(***************************************************************************)
SingleActiveThread(x) == x.single_active_thread /\ x.last_holder_is_me

UsesCoarsening(x, id) ==
  LET next == NextGuess(x.estimator[id])
  IN  next >= 0 /\ x.tx_coarsening_counter + next < x.tx_current_coarsening_level

(* The effect of useTxCoarsening, whatever its answer is used for.         *)
UseTxCoarsening(x, id) ==
  IF UsesCoarsening(x, id) THEN [x EXCEPT !.tx_coarsening_counter = @ + LastTxSize(x)]
  ELSE IF ~InCoarsenedTx(x) THEN x
  ELSE IF SingleActiveThread(x) THEN EndTx(x)
  ELSE [x EXCEPT !.tx_monitor_next = TRUE]

(* waitToken; others had the token in between if they are active.          *)
WaitToken(x) ==
  IF x.token_holding THEN x
  ELSE [x EXCEPT !.token_holding = TRUE, !.last_holder_is_me = TRUE, !.tx_monitor_next = FALSE,
         !.tx_current_coarsening_level =
            IF ~x.tx_monitor_next THEN @
            ELSE IF x.last_putter_is_me THEN (IF 2 * @ < MaxLevel THEN 2 * @ ELSE MaxLevel)
            ELSE AfterTransfer]

PutToken(x) ==
  LET y == EndTx(x)
  IN  IF y.token_holding THEN [y EXCEPT !.token_holding = FALSE, !.last_putter_is_me = TRUE] ELSE y

Commit(x) == [x EXCEPT !.dirty = FALSE, !.unpublished = FALSE]

ShouldUpdate(x) == ~x.last_putter_is_me

-----------------------------------------------------------------------------
(***************************************************************************)
(* Operations.  They start with the clock running.                         *)
(***************************************************************************)
Begin(op) ==
  /\ pc = "op" /\ op \in Ops
  /\ nops < MaxOps /\ nops' = nops + 1
  /\ UNCHANGED ran

End(x) == s' = StartClock(x) /\ pc' = "user"

(* __mutex_lock_inner with the mutex free.                                 *)
LockInner(x, allow) ==
  LET using  == UsesCoarsening(x, "mutex") /\ allow
      y      == UseTxCoarsening(x, "mutex")
      single == SingleActiveThread(y)
      z      == IF ~single /\ ~y.token_holding THEN WaitToken(y) ELSE y
      w      == IF (~single /\ ~using) \/ ShouldUpdate(z) THEN Commit(z) ELSE z
      locked == [w EXCEPT !.held = TRUE]
  IN  IF ~single /\ ~using THEN PutToken(locked) ELSE locked

MutexLock ==
  /\ Begin("lock") /\ ~s.held
  /\ End(LockInner(StopClock(s, "none"), TRUE))

(* The mutex is taken: commit, and wait for it without the token.          *)
MutexLockFails ==
  LET y == UseTxCoarsening(StopClock(s, "none"), "mutex")
      z == IF y.token_holding THEN y ELSE WaitToken(y)
  IN  /\ Begin("lock") /\ ~s.held /\ ~SingleActiveThread(y)
      /\ s' = [EndTx(Commit(z)) EXCEPT !.token_holding = FALSE, !.last_putter_is_me = TRUE]
      /\ pc' = "wait_on_lock"

(* goto retry with failure_count > 0 and without coarsening                *)
MutexLockRetry ==
  LET z == WaitToken(s)
      w == IF ~SingleActiveThread(s) \/ ShouldUpdate(z) THEN Commit(z) ELSE z
      locked == [w EXCEPT !.held = TRUE]
  IN  /\ pc = "wait_on_lock"
      /\ End(IF SingleActiveThread(s) THEN locked ELSE PutToken(locked))
      /\ UNCHANGED <<ran, nops>>

(* Mutant: only a waiting thread makes the commit necessary.               *)
UnlockCommitsForWaiters(z, using, waiters) == waiters /\ ~using

UnlockCommits(z, using, waiters) ==
  \/ ~SingleActiveThread(z) /\ ~using
  \/ ShouldUpdate(z)
  \/ waiters /\ ~using

MutexUnlock ==
  LET x      == StopClock(s, "mutex")
      single == SingleActiveThread(x)
      using  == UsesCoarsening(x, "none")
      y      == UseTxCoarsening(x, "none")
      z      == IF ~single /\ ~y.token_holding THEN WaitToken(y) ELSE y
  IN  /\ Begin("unlock") /\ s.held
      /\ \E waiters \in BOOLEAN :
           LET c == IF UnlockCommits(z, using, waiters) THEN Commit(z) ELSE z
               w == [c EXCEPT !.held = FALSE, !.unpublished = c.dirty]
           IN  End(IF ~single /\ ~using THEN PutToken(w) ELSE w)

(* cond_broadcast; cond_signal differs when the token is held already.     *)
CondBroadcast ==
  LET x == [WaitToken(ResetTx(StopClock(s, "none"))) EXCEPT !.single_active_thread = FALSE]
  IN  Begin("broadcast") /\ End(PutToken(Commit(x)))

CondSignal ==
  LET x == ResetTx(StopClock(s, "none"))
      y == [x EXCEPT !.single_active_thread = FALSE]
  IN  Begin("signal") /\ End(IF x.token_holding THEN y ELSE PutToken(Commit(WaitToken(y))))

CondWait ==
  LET x == EndTx(Commit(WaitToken(StopClock(s, "none"))))
  IN  /\ Begin("wait") /\ s.held
      /\ s' = [x EXCEPT !.token_holding = FALSE, !.last_putter_is_me = TRUE, !.held = FALSE]
      /\ pc' = "cond_wait"

CondWoken ==
  /\ pc = "cond_wait"
  /\ End(LockInner(Commit(s), FALSE))
  /\ UNCHANGED <<ran, nops>>

(* xrun::barrier_wait gives the token back before determ::barrier_wait     *)
(* asks for it again and commits.                                          *)
BarrierWait ==
  /\ Begin("barrier")
  /\ s' = PutToken(StopClock(s, "none"))
  /\ pc' = "barrier_wait"

BarrierMet ==
  /\ pc = "barrier_wait"
  /\ \E last \in BOOLEAN :
       End([Commit(s) EXCEPT !.last_putter_is_me = last, !.last_holder_is_me = last])
  /\ UNCHANGED <<ran, nops>>

StopClockNoCoarsen(x) == EndTx(StopClock(x, "none"))

(* waitToken, commitAndUpdateMemory, putToken, startClock                  *)
CommitWithToken(x) == End(PutToken(Commit(WaitToken(x))))

(* spawn; the new thread is active.                                        *)
Create ==
  /\ Begin("create")
  /\ CommitWithToken([StopClockNoCoarsen(s) EXCEPT !.single_active_thread = FALSE])

Cancel == Begin("cancel") /\ CommitWithToken(StopClockNoCoarsen(s))

(* mutex_init, cond_init and barrier_init.                                 *)
InitObject == Begin("init") /\ CommitWithToken(StopClock(s, "none"))

(* The signal a chunk gets that hits its bound.                            *)
sigstopHandle == Begin("sigstop") /\ CommitWithToken(StopClock(s, "none"))

-----------------------------------------------------------------------------
(* The thread runs its program and writes to shared memory.                *)
RunChunk ==
  /\ pc = "user" /\ nops < MaxOps
  /\ \E n \in Chunks :
       /\ s' = [s EXCEPT !.raw = @ + n, !.dirty = TRUE]
       /\ ran' = ran + n
  /\ pc' = "op"
  /\ UNCHANGED nops

(* Another thread has the token, and gives it back.                        *)
OtherThread ==
  /\ ~s.token_holding /\ ~s.single_active_thread
  /\ s' = [s EXCEPT !.last_putter_is_me = FALSE, !.last_holder_is_me = FALSE]
  /\ s' # s
  /\ UNCHANGED <<pc, ran, nops>>

(* The others have halted, and the kernel says so.                         *)
OthersHalt ==
  /\ ~s.token_holding /\ ~s.single_active_thread /\ pc \in {"user", "op"}
  /\ s' = [s EXCEPT !.single_active_thread = TRUE]
  /\ UNCHANGED <<pc, ran, nops>>

Init ==
  /\ pc = "user" /\ ran = 0 /\ nops = 0
  /\ s = [estimator |-> [i \in Ids |-> [ewma |-> 0, counter |-> 0,
                                        observations |-> [k \in 0 .. TotalObs - 1 |-> 0]]],
          ticks |-> 0, coarsened_ticks_counter |-> 0, last_clock_value |-> 0, last_raw_perf |-> 0,
          raw |-> 0, prev_count |-> 0, count_ticks |-> TRUE, in_coarsened_tx |-> FALSE,
          tx_coarsening_counter |-> 0, tx_current_coarsening_level |-> MinLevel,
          tx_monitor_next |-> FALSE, token_holding |-> FALSE, single_active_thread |-> FALSE,
          last_putter_is_me |-> FALSE, last_holder_is_me |-> FALSE, held |-> FALSE, dirty |-> FALSE,
          unpublished |-> FALSE]

Finished == nops = MaxOps /\ UNCHANGED vars

Next ==
  \/ RunChunk \/ OtherThread \/ OthersHalt \/ Finished
  \/ MutexLock \/ MutexLockFails \/ MutexLockRetry \/ MutexUnlock
  \/ CondBroadcast \/ CondSignal \/ CondWait \/ CondWoken
  \/ BarrierWait \/ BarrierMet \/ Create \/ Cancel \/ InitObject \/ sigstopHandle

Spec == Init /\ [][Next]_vars

-----------------------------------------------------------------------------
(* No tick is lost and none counted twice, whoever counts: the kernel, the *)
(* library, and what neither has read yet.                                 *)
TicksExact ==
  pc \in {"user", "op"} =>
    ran = ClockRead(s) + (IF s.in_coarsened_tx THEN s.raw - s.last_raw_perf
                          ELSE IF s.count_ticks THEN s.raw - s.prev_count ELSE 0)

(* Data of a critical section that is over is committed before another     *)
(* thread can get the token.                                               *)
CommitsBeforeGivingUpToken ==
  s.unpublished => s.token_holding \/ s.single_active_thread

(* The same, but for a thread inside barrier_wait: xrun::barrier_wait is   *)
(* the one operation that gives the token back before it commits.          *)
UnlockedDataCommitted == pc # "barrier_wait" => CommitsBeforeGivingUpToken

=============================================================================

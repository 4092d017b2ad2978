------------------------------ MODULE TaskClock -----------------------------
(***************************************************************************)
(* The logical clock: the kernel module (clock_main.c, search_entries.h,   *)
(* utility.h), its library (determ_clock.c), and the loop of               *)
(* determ::__getToken that asks it who is next.  Module Determ leaves the  *)
(* clock's answers open; here they are computed.                           *)
(*                                                                         *)
(* Kernel sections under group_info->lock are one step, and the wake-up    *)
(* that follows the unlock is another: in between the thread's wake entry  *)
(* says whom it is about to notify.  The counter's interrupt (an NMI) is a *)
(* step of the thread it interrupts and takes no lock.                     *)
(*                                                                         *)
(* The threads drive the clock the way class determ does.  What they do    *)
(* with the token is reduced to its effect on the clock: add ticks, block, *)
(* make a blocked or a new thread active, exit, join.                      *)
(***************************************************************************)
EXTENDS Integers, FiniteSets

CONSTANTS
  N,          \* threads are 0 .. N-1, and 0 is the first one
  MasterOps,  \* how many operations the first thread performs at most
  OtherOps,   \* and every other one
  Builds,     \* builds that count instructions (TRUE) or do not (FALSE)
  Work,       \* how many ticks can pass between two looks at the counter
  MaxClock    \* a thread works only below this clock value (bounds the model)

Threads == 0 .. N - 1
Master  == 0
NULL    == -1

ASSUME NAssumption      == N \in Nat \ {0}
ASSUME OpsAssumption    == MasterOps \in Nat /\ OtherOps \in Nat
ASSUME BuildAssumption  == Builds \subseteq BOOLEAN
ASSUME WorkAssumption   == Work \subseteq Nat /\ MaxClock \in Nat

Labels ==
  {"run", "start", "parked", "blocked", "joining", "gone",      \* outside
   "is_lowest", "spin", "read_lowest", "read_higher",           \* is_lowest
   "lw_wait", "lw_spin", "lw_check", "poll", "lw_woke",         \* is_lowest_wait
   "cas", "check", "fast_forward", "token", "put",              \* the token
   "disable", "halt", "release"}

VARIABLES
  counting,    \* built without NO_INSTRUCTION_COUNTING
  group,       \* group_info, with each thread's user_status->lowest_clock
  pollin,      \* buffer->poll of each thread's perf event
  disabled,    \* task_clock_info.disabled
  pc,          \* where each thread is
  wake,        \* whom it wakes after it has released group_info->lock
  irq,         \* the thread that runs group_info->pending_work, or NULL
  tokenpos,    \* determ::_tokenpos
  outdated,    \* _activation_counter # local_activation_counter
  last_token,  \* determ::_last_token_value
  ops,         \* operations done
  after,       \* what the thread does once it is out of the race
  stray        \* user_status_arr[-1] was written (history)

vars == <<group, pollin, disabled, pc, wake, irq, tokenpos, outdated,
          last_token, ops, after, stray>>

(* group_info: base_ticks and ticks are one number, the list of active     *)
(* threads is a set (module ListArray), lowest_ticks is never read.        *)
Group ==
  [ticks : [Threads -> Nat], initialized : [Threads -> BOOLEAN],
   inactive : [Threads -> BOOLEAN], waiting : [Threads -> BOOLEAN],
   sleeping : [Threads -> BOOLEAN], count_ticks : [Threads -> BOOLEAN],
   active_threads : SUBSET Threads, lowest_tid : Threads \cup {NULL},
   notification_needed : BOOLEAN, nmi_new_low : BOOLEAN,
   lowest_clock : [Threads -> BOOLEAN]]

-----------------------------------------------------------------------------
(***************************************************************************)
(* The searches.                                                           *)
(***************************************************************************)

(* __clock_is_lower                                                        *)
ClockIsLower(g, t, u) ==
  g.ticks[t] < g.ticks[u] \/ (g.ticks[t] = g.ticks[u] /\ t < u)

LowestOf(g, S) ==
  IF S = {} THEN NULL ELSE CHOOSE t \in S : \A u \in S \ {t} : ClockIsLower(g, t, u)

InRace(g, t) == g.initialized[t] /\ ~g.inactive[t]

(* __search_for_lowest walks the list of active threads ...                *)
SearchForLowest(g) == LowestOf(g, {t \in g.active_threads : InRace(g, t)})

(* ... but all entries when it runs in an NMI, which cannot trust the list.*)
SearchForLowestNmi(g) == LowestOf(g, {t \in Threads : InRace(g, t)})

(* Mutant: whoever waits is as good as the lowest.                         *)
SearchAmongWaiting(g, garbage) ==
  LowestOf(g, {t \in g.active_threads : InRace(g, t) /\ g.waiting[t]})

(* __search_for_lowest_waiting: thread_arr is set where a thread waits and *)
(* uninitialised elsewhere, so a lowest thread that does not wait may be   *)
(* returned as well (garbage).                                             *)
SearchForLowestWaiting(g, garbage) ==
  LET low == SearchForLowest(g)
  IN  IF low # NULL /\ (g.waiting[low] \/ garbage) THEN low ELSE NULL

(* __new_lowest, in process context or in an NMI.                          *)
NewLowest(g, t, search) ==
  IF g.lowest_tid = NULL THEN search
  ELSE IF t = g.lowest_tid THEN (IF search # t THEN search ELSE NULL)
  ELSE IF ClockIsLower(g, t, g.lowest_tid) THEN t ELSE NULL

ClearEntryState(g, t) ==
  [g EXCEPT !.inactive[t] = FALSE, !.waiting[t] = FALSE, !.sleeping[t] = FALSE]

(* Mutant: the thread stays in the list.                                   *)
MarkAsInactiveOnly(g, t) == [g EXCEPT !.inactive[t] = TRUE]

MarkAsInactive(g, t) ==
  [g EXCEPT !.inactive[t] = TRUE, !.active_threads = @ \ {t}]

MarkAsActive(g, t) ==
  [g EXCEPT !.inactive[t] = FALSE, !.active_threads = @ \cup {t}]

ThreadIsWaiting(g, t) == t # NULL /\ g.waiting[t]

-----------------------------------------------------------------------------
(***************************************************************************)
(* __determine_lowest_and_notify_or_wait, on behalf of thread t.           *)
(***************************************************************************)
SetCurrentThreadToLowest(g, t) ==
  ClearEntryState([g EXCEPT !.lowest_clock[t] = TRUE, !.notification_needed = FALSE], t)

OnlyActiveThread(g, t) == g.active_threads = {t} /\ ~g.inactive[t]

(* What the search says becomes the group's opinion.                       *)
Searched(g, t, garbage) ==
  LET w   == [g EXCEPT !.waiting[t] = TRUE]
      low == SearchForLowestWaiting(w, garbage)
  IN  [w EXCEPT !.notification_needed = @ \/ low # g.lowest_tid, !.lowest_tid = low]

MustNotify(g, t, garbage) ==
  LET s == Searched(g, t, garbage)
  IN  /\ ~OnlyActiveThread(g, t)
      /\ s.lowest_tid # t
      /\ ThreadIsWaiting(s, s.lowest_tid)
      /\ s.notification_needed

(* Mutant: a thread that is not the lowest does not hand on the news.      *)
ThreadToWakeUpNever(g, t, garbage) == NULL

(* Mutant: the lowest thread is woken up whether it waits or not.          *)
ThreadToWakeUpAny(g, t, garbage) ==
  LET low == SearchForLowest(g) IN IF low = t THEN NULL ELSE low

(* Its result: the thread to wake up, or NULL.                             *)
ThreadToWakeUp(g, t, garbage) ==
  IF MustNotify(g, t, garbage) THEN Searched(g, t, garbage).lowest_tid ELSE NULL

DetermineLowest(g, t, garbage) ==
  LET s == Searched(g, t, garbage)
  IN  IF OnlyActiveThread(g, t) THEN SetCurrentThreadToLowest(g, t)
      ELSE IF s.lowest_tid = t THEN SetCurrentThreadToLowest(s, t)
      ELSE IF MustNotify(g, t, garbage)
           THEN [s EXCEPT !.lowest_clock[t] = FALSE, !.nmi_new_low = FALSE,
                          !.notification_needed = FALSE]
           ELSE [s EXCEPT !.lowest_clock[t] = FALSE]

(* A system call of t that leaves the clock as g, asks who is the lowest,  *)
(* and adds Finish to the result before it unlocks.                        *)
KernelCall(t, g, Finish(_)) ==
  \E garbage \in BOOLEAN :
    /\ group' = Finish(DetermineLowest(g, t, garbage))
    /\ wake' = [wake EXCEPT ![t] = ThreadToWakeUp(g, t, garbage)]

Same(g) == g

(* A thread is on its processor: nothing it owes the kernel is left to do. *)
Free(t) == wake[t] = NULL /\ irq # t

(* __wake_up_waiting_thread(tid) after the unlock.  The event it signals   *)
(* is tid's, but whether to signal or to set a flag, and whose flag, is    *)
(* decided by what lowest_tid is now.                                      *)
WakeUpWaitingThread(t) ==
  LET low == group.lowest_tid IN
  /\ wake[t] # NULL
  /\ wake' = [wake EXCEPT ![t] = NULL]
  /\ IF low # NULL /\ group.sleeping[low]
     THEN /\ pollin' = [pollin EXCEPT ![wake[t]] = TRUE]
          /\ UNCHANGED <<group, stray>>
     ELSE /\ stray' = (stray \/ low = NULL)
          /\ group' = IF low = NULL THEN group
                      ELSE [group EXCEPT !.lowest_clock[low] = TRUE]
          /\ UNCHANGED pollin
  /\ UNCHANGED <<disabled, pc, irq, tokenpos, outdated, last_token, ops, after>>

-----------------------------------------------------------------------------
(***************************************************************************)
(* The counter's overflow.                                                 *)
(***************************************************************************)

(* task_clock_entry_overflow_update_period, task_clock_overflow_handler.   *)
Overflow(t, d) ==
  LET g   == [group EXCEPT !.ticks[t] = @ + d]
      low == NewLowest(g, t, SearchForLowestNmi(g))
      post == /\ low # NULL /\ low # t
              /\ ~g.nmi_new_low
              /\ ThreadIsWaiting(g, low)
  IN  /\ pc[t] = "run" /\ Free(t)
      /\ counting /\ group.count_ticks[t]
      /\ d > 0 /\ group.ticks[t] + d <= MaxClock
      /\ group' = [g EXCEPT !.nmi_new_low = @ \/ post]
      /\ irq' = IF post /\ irq = NULL THEN t ELSE irq
      /\ UNCHANGED <<pollin, disabled, pc, wake, tokenpos, outdated, last_token, ops, after, stray>>

(* __task_clock_notify_waiting_threads, from the work the NMI queued.      *)
NotifyWaitingThreads(t) ==
  /\ irq = t
  /\ irq' = NULL
  /\ \E garbage \in BOOLEAN :
       LET low == SearchForLowestWaiting(group, garbage)
           g   == [group EXCEPT !.lowest_tid = low]
       IN  IF ~ThreadIsWaiting(group, low) THEN UNCHANGED <<group, wake>>
           ELSE IF g.notification_needed \/ g.nmi_new_low
           THEN /\ group' = [g EXCEPT !.nmi_new_low = FALSE, !.notification_needed = FALSE]
                /\ wake' = [wake EXCEPT ![t] = low]
           ELSE group' = g /\ UNCHANGED wake
  /\ UNCHANGED <<pollin, disabled, pc, tokenpos, outdated, last_token, ops, after, stray>>

-----------------------------------------------------------------------------
(***************************************************************************)
(* Calls of the library around a pthread operation.                        *)
(***************************************************************************)
Goto(t, l) == pc' = [pc EXCEPT ![t] = l]

(* The ticks since the last look at the counter, if there is one.          *)
Elapsed(t) ==
  IF counting /\ group.count_ticks[t]
  THEN {0} \cup {d \in Work : group.ticks[t] + d <= MaxClock} ELSE {0}

(* determ_task_clock_stop, task_clock_entry_stop: t wants the token.       *)
EntryStop(t) ==
  /\ pc[t] = "run" /\ Free(t)
  /\ \E d \in Elapsed(t) :
       KernelCall(t, [group EXCEPT !.ticks[t] = @ + d, !.count_ticks[t] = FALSE], Same)
  /\ Goto(t, "is_lowest")
  /\ UNCHANGED <<pollin, disabled, irq, tokenpos, outdated, last_token, ops, after, stray>>

(* task_clock_on_enable: a thread that starts to run as the lowest wants   *)
(* the next overflow to notify.                                            *)
Enabled(g, t) ==
  LET n == IF g.lowest_tid = t
           THEN [g EXCEPT !.notification_needed = TRUE, !.nmi_new_low = FALSE] ELSE g
  IN  ClearEntryState(n, t)

(* determ_task_clock_start, task_clock_entry_start                         *)
EntryStart(t) ==
  /\ pc[t] = "start" /\ Free(t)
  /\ disabled' = [disabled EXCEPT ![t] = FALSE]
  /\ KernelCall(t, [group EXCEPT !.lowest_clock[t] = FALSE, !.count_ticks[t] = TRUE],
                LAMBDA g : Enabled(g, t))
  /\ Goto(t, "run")
  /\ UNCHANGED <<pollin, irq, tokenpos, outdated, last_token, ops, after, stray>>

(***************************************************************************)
(* __getToken: determ_task_clock_is_lowest.                                *)
(***************************************************************************)

(* task_clock_entry_wait, unless the thread knows already.                 *)
IsLowest(t) ==
  /\ pc[t] = "is_lowest" /\ Free(t)
  /\ Goto(t, "spin")
  /\ IF ~disabled[t] /\ ~group.lowest_clock[t]
     THEN /\ KernelCall(t, group, Same)
          /\ disabled' = [disabled EXCEPT ![t] = TRUE]
     ELSE UNCHANGED <<group, wake, disabled>>
  /\ UNCHANGED <<pollin, irq, tokenpos, outdated, last_token, ops, after, stray>>

(* task_clock_entry_woke_up and the end of __woke_up.                      *)
WokenUp(t) ==
  /\ group' = [group EXCEPT !.waiting[t] = FALSE, !.sleeping[t] = FALSE,
                            !.lowest_clock[t] = FALSE]
  /\ disabled' = [disabled EXCEPT ![t] = FALSE]

(* The answer, while it spins or when it gives up.                         *)
Answer(t) ==
  /\ pc[t] = "spin" /\ Free(t)
  /\ IF group.lowest_clock[t] THEN WokenUp(t) /\ Goto(t, "read_lowest")
     ELSE Goto(t, "read_higher") /\ UNCHANGED <<group, disabled>>
  /\ UNCHANGED <<pollin, wake, irq, tokenpos, outdated, last_token, ops, after, stray>>

(* local_activation_counter = _activation_counter.  Not the lowest: ask    *)
(* again, or stop spinning.                                                *)
ReadActivation(t) ==
  /\ pc[t] \in {"read_lowest", "read_higher"} /\ Free(t)
  /\ outdated' = [outdated EXCEPT ![t] = FALSE]
  /\ \E l \in (IF pc[t] = "read_lowest" THEN {"cas"} ELSE {"is_lowest", "lw_wait"}) :
       Goto(t, l)
  /\ UNCHANGED <<group, pollin, disabled, wake, irq, tokenpos, last_token, ops, after, stray>>

(***************************************************************************)
(* determ_task_clock_is_lowest_wait.                                       *)
(***************************************************************************)
IsLowestWait(t) ==
  /\ pc[t] = "lw_wait" /\ Free(t)
  /\ KernelCall(t, group, Same)
  /\ disabled' = [disabled EXCEPT ![t] = TRUE]
  /\ Goto(t, "lw_spin")
  /\ UNCHANGED <<pollin, irq, tokenpos, outdated, last_token, ops, after, stray>>

WaitSpun(t) ==
  /\ pc[t] \in {"lw_spin", "lw_check"} /\ Free(t)
  /\ group.lowest_clock[t]
  /\ Goto(t, "lw_woke")
  /\ UNCHANGED <<group, pollin, disabled, wake, irq, tokenpos, outdated, last_token, ops, after, stray>>

(* task_clock_entry_sleep: only a thread that still waits sleeps.          *)
Sleeps(g, t) == [g EXCEPT !.sleeping[t] = g.waiting[t] \/ @]

EntrySleep(t) ==
  /\ pc[t] = "lw_spin" /\ Free(t)
  /\ ~group.lowest_clock[t]
  /\ KernelCall(t, group, LAMBDA g : Sleeps(g, t))
  /\ Goto(t, "lw_check")
  /\ UNCHANGED <<pollin, disabled, irq, tokenpos, outdated, last_token, ops, after, stray>>

EnterPoll(t) ==
  /\ pc[t] = "lw_check" /\ Free(t)
  /\ ~group.lowest_clock[t]
  /\ Goto(t, "poll")
  /\ UNCHANGED <<group, pollin, disabled, wake, irq, tokenpos, outdated, last_token, ops, after, stray>>

(* perf_poll returns what was posted since the last call, and forgets it.  *)
PollReturns(t) ==
  /\ pc[t] = "poll"
  /\ pollin[t]
  /\ pollin' = [pollin EXCEPT ![t] = FALSE]
  /\ Goto(t, "lw_woke")
  /\ UNCHANGED <<group, disabled, wake, irq, tokenpos, outdated, last_token, ops, after, stray>>

(* Nobody looks again whether this thread is the lowest.                   *)
WaitReturns(t) ==
  /\ pc[t] = "lw_woke" /\ Free(t)
  /\ WokenUp(t)
  /\ Goto(t, "cas")
  /\ UNCHANGED <<pollin, wake, irq, tokenpos, outdated, last_token, ops, after, stray>>

(***************************************************************************)
(* The token.                                                              *)
(***************************************************************************)
CompareAndSwap(t) ==
  /\ pc[t] = "cas" /\ Free(t)
  /\ tokenpos = NULL
  /\ tokenpos' = t
  /\ Goto(t, "check")
  /\ UNCHANGED <<group, pollin, disabled, wake, irq, outdated, last_token, ops, after, stray>>

(* _activation_counter != local_activation_counter                         *)
SomeoneActivated(t) == outdated[t]

CheckActivation(t) ==
  /\ pc[t] = "check" /\ Free(t)
  /\ outdated' = [outdated EXCEPT ![t] = FALSE]
  /\ IF SomeoneActivated(t)
     THEN /\ tokenpos' = NULL
          /\ disabled' = [disabled EXCEPT ![t] = FALSE]
          /\ group' = [group EXCEPT !.lowest_clock[t] = FALSE]
          /\ Goto(t, "is_lowest")
     ELSE /\ Goto(t, "fast_forward")
          /\ UNCHANGED <<tokenpos, disabled, group>>
  /\ UNCHANGED <<pollin, wake, irq, last_token, ops, after, stray>>

(* task_clock_add_ticks                                                    *)
AddTicks(t, d) == KernelCall(t, [group EXCEPT !.ticks[t] = @ + d], Same)

(* determ_task_clock_add_ticks(fast_forward_clock())                       *)
FastForward(t) ==
  LET d == last_token - group.ticks[t] IN
  /\ pc[t] = "fast_forward" /\ Free(t)
  /\ AddTicks(t, IF d > 0 THEN d ELSE 0)
  /\ Goto(t, "token")
  /\ UNCHANGED <<pollin, disabled, irq, tokenpos, outdated, last_token, ops, after, stray>>

PutToken(t) ==
  /\ pc[t] = "put" /\ Free(t)
  /\ last_token' = group.ticks[t]
  /\ tokenpos' = NULL
  /\ Goto(t, "start")
  /\ UNCHANGED <<group, pollin, disabled, wake, irq, outdated, ops, after, stray>>

-----------------------------------------------------------------------------
(***************************************************************************)
(* What a thread does with the token.                                      *)
(***************************************************************************)
WithToken(t) == pc[t] = "token" /\ Free(t)
Budget(t)    == IF t = Master THEN MasterOps ELSE OtherOps
MayDo(t)     == WithToken(t) /\ ops[t] < Budget(t)
Count(t)     == ops' = [ops EXCEPT ![t] = @ + 1]

(* An operation that costs a tick (LOGICAL_CLOCK_TIME_LOCK).               *)
Sync(t) ==
  /\ MayDo(t) /\ Count(t)
  /\ AddTicks(t, 1)
  /\ Goto(t, "put")
  /\ UNCHANGED <<pollin, disabled, irq, tokenpos, outdated, last_token, after, stray>>

(* task_clock_entry_activate_other.  A thread that was reset starts after  *)
(* its activator.                                                          *)
Activated(g, t, u) ==
  LET n == IF g.initialized[u] THEN g
           ELSE [g EXCEPT !.ticks[u] = g.ticks[t] + 1, !.initialized[u] = TRUE]
  IN  MarkAsActive(ClearEntryState(n, u), u)

(* user_status->activated_lowest                                           *)
ActivatedLowest(g, u) == g.lowest_tid = NULL \/ ClockIsLower(g, u, g.lowest_tid)

(* Between the read of _activation_counter and the check of its value.     *)
ActivationWindow == {"lw_wait", "lw_spin", "lw_check", "poll", "lw_woke", "cas", "check"}

CountActivation(incremented) ==
  outdated' = [v \in Threads |-> outdated[v] \/ (incremented /\ pc[v] \in ActivationWindow)]

(* determ_task_clock_activate_other, for a thread that blocked on a mutex  *)
(* or a condition variable, or for a new one.  lock_release, cond_signal   *)
(* and spawn differ in whether they look at the answer: spawn does not.    *)
ActivateOther(t, u) ==
  LET g == Activated(group, t, u) IN
  /\ WithToken(t) /\ Count(t)
  /\ pc[u] \in {"blocked", "parked"} /\ u # t
  /\ ops[t] < Budget(t) \/ pc[u] = "blocked"
  /\ group' = [g EXCEPT !.lowest_clock[u] = FALSE]
  /\ CountActivation(pc[u] = "blocked" /\ ActivatedLowest(g, u))
  /\ disabled' = [disabled EXCEPT ![u] = FALSE]
  /\ pc' = [pc EXCEPT ![t] = "put", ![u] = "is_lowest"]
  /\ UNCHANGED <<pollin, wake, irq, tokenpos, last_token, after, stray>>

(* determ_task_clock_halt comes next.                                      *)
Leave(t, how) ==
  /\ after' = [after EXCEPT ![t] = how]
  /\ Goto(t, "disable")
  /\ UNCHANGED <<group, pollin, disabled, wake, irq, tokenpos, outdated, last_token, stray>>

(* Wait for a mutex or a condition variable; somebody else is still there. *)
Block(t) ==
  /\ MayDo(t) /\ Count(t)
  /\ \E u \in Threads \ {t} : pc[u] \notin {"parked", "blocked", "joining", "gone"}
                              /\ after[u] # "joining"
  /\ Leave(t, "blocked")

(* The program is over for this thread; whom it blocks it has released.    *)
AtEnd(t) ==
  /\ WithToken(t)
  /\ ops[t] >= Budget(t)
  /\ \A u \in Threads : pc[u] # "blocked" /\ after[u] # "blocked"

Others(t) == Threads \ {t}

Exit(t) ==
  /\ AtEnd(t) /\ t # Master
  /\ Leave(t, "parked")
  /\ UNCHANGED ops

(* The first thread waits for the others one by one.                       *)
JoinNext(t) ==
  /\ AtEnd(t) /\ t = Master
  /\ \E u \in Others(t) : pc[u] # "parked"
  /\ Leave(t, "joining")
  /\ UNCHANGED ops

Finish(t) ==
  /\ AtEnd(t) /\ t = Master
  /\ \A u \in Others(t) : pc[u] = "parked"
  /\ Goto(t, "gone")
  /\ tokenpos' = NULL
  /\ UNCHANGED <<group, pollin, disabled, wake, irq, outdated, last_token, ops, after, stray>>

-----------------------------------------------------------------------------
(***************************************************************************)
(* Out of the race.                                                        *)
(***************************************************************************)

(* perf_counter_stop: task_clock_on_disable, or task_clock_entry_stop when *)
(* nothing is counted.  An exiting thread whose parent joins lets the      *)
(* parent come back first (ex_spin).                                       *)
OnDisable(t) ==
  /\ pc[t] = "disable" /\ Free(t)
  /\ ~(after[t] = "parked" /\ pc[Master] = "joining")
  /\ KernelCall(t, [group EXCEPT !.count_ticks[t] = FALSE,
                                 !.notification_needed = @ \/ counting], Same)
  /\ disabled' = [disabled EXCEPT ![t] = TRUE]
  /\ Goto(t, "halt")
  /\ UNCHANGED <<pollin, irq, tokenpos, outdated, last_token, ops, after, stray>>

(* task_clock_entry_halt, and task_clock_entry_reset if the thread exits.  *)
EntryHalt(t) ==
  /\ pc[t] = "halt" /\ Free(t)
  /\ KernelCall(t, MarkAsInactive(group, t),
                LAMBDA g : [g EXCEPT !.waiting[t] = FALSE,
                              !.initialized[t] = @ /\ after[t] # "parked"])
  /\ Goto(t, "release")
  /\ UNCHANGED <<pollin, disabled, irq, tokenpos, outdated, last_token, ops, after, stray>>

Release(t) ==
  /\ pc[t] = "release" /\ Free(t)
  /\ last_token' = group.ticks[t]
  /\ tokenpos' = NULL
  /\ Goto(t, after[t])
  /\ after' = [after EXCEPT ![t] = "none"]
  /\ UNCHANGED <<group, pollin, disabled, wake, irq, outdated, ops, stray>>

(* determ::join wakes up because t, with the token, is about to leave.     *)
(* determ_task_clock_activate, task_clock_entry_activate.                  *)
EntryActivate(t) ==
  LET g == MarkAsActive([ClearEntryState(group, t) EXCEPT !.lowest_clock[t] = FALSE], t)
  IN  /\ pc[t] = "joining"
      /\ \E u \in Others(t) : pc[u] = "disable" /\ after[u] = "parked"
      /\ group' = IF NewLowest(g, t, SearchForLowest(g)) = t
                  THEN [g EXCEPT !.notification_needed = FALSE, !.lowest_tid = t,
                                 !.lowest_clock[t] = TRUE]
                  ELSE g
      /\ disabled' = [disabled EXCEPT ![t] = FALSE]
      /\ Goto(t, "is_lowest")
      /\ UNCHANGED <<pollin, wake, irq, tokenpos, outdated, last_token, ops, after, stray>>

-----------------------------------------------------------------------------
(* After xrun::initialize: the first thread is alone and runs.             *)
Init ==
  /\ counting \in Builds
  /\ group = [ticks |-> [t \in Threads |-> 0],
              initialized |-> [t \in Threads |-> t = Master],
              inactive |-> [t \in Threads |-> FALSE],
              waiting |-> [t \in Threads |-> FALSE],
              sleeping |-> [t \in Threads |-> FALSE],
              count_ticks |-> [t \in Threads |-> t = Master],
              active_threads |-> {Master},
              lowest_tid |-> Master,
              notification_needed |-> TRUE,
              nmi_new_low |-> FALSE,
              lowest_clock |-> [t \in Threads |-> t = Master]]
  /\ pollin = [t \in Threads |-> FALSE]
  /\ disabled = [t \in Threads |-> FALSE]
  /\ pc = [t \in Threads |-> IF t = Master THEN "run" ELSE "parked"]
  /\ wake = [t \in Threads |-> NULL]
  /\ irq = NULL
  /\ tokenpos = NULL
  /\ outdated = [t \in Threads |-> FALSE]
  /\ last_token = 0
  /\ ops = [t \in Threads |-> 0]
  /\ after = [t \in Threads |-> "none"]
  /\ stray = FALSE

Interrupts(t) ==
  \/ \E d \in Work : Overflow(t, d)
  \/ NotifyWaitingThreads(t)
  \/ WakeUpWaitingThread(t)

GetTokenStep(t) ==
  \/ EntryStop(t) \/ IsLowest(t) \/ Answer(t) \/ ReadActivation(t)
  \/ IsLowestWait(t) \/ WaitSpun(t) \/ EntrySleep(t) \/ EnterPoll(t)
  \/ PollReturns(t) \/ WaitReturns(t)
  \/ CompareAndSwap(t) \/ CheckActivation(t) \/ FastForward(t)

TokenStep(t) ==
  \/ Sync(t) \/ Block(t) \/ Exit(t) \/ JoinNext(t) \/ Finish(t)
  \/ \E u \in Threads : ActivateOther(t, u)
  \/ PutToken(t) \/ EntryStart(t)
  \/ OnDisable(t) \/ EntryHalt(t) \/ Release(t) \/ EntryActivate(t)

Finished == pc[Master] = "gone" /\ UNCHANGED vars

Next ==
  /\ \/ \E t \in Threads : Interrupts(t) \/ GetTokenStep(t) \/ TokenStep(t)
     \/ Finished
  /\ UNCHANGED counting

Spec == Init /\ [][Next]_<<vars, counting>>

(* Every thread runs: it leaves its code for the next operation, it goes   *)
(* on inside the runtime, and what it owes the kernel gets done.  A counter*)
(* need not overflow.                                                      *)
FairSpec ==
  /\ Spec
  /\ \A t \in Threads :
       /\ WF_vars(GetTokenStep(t)) /\ WF_vars(TokenStep(t))
       /\ WF_vars(WakeUpWaitingThread(t)) /\ WF_vars(NotifyWaitingThreads(t))

-----------------------------------------------------------------------------
(* Every variable has its type; in particular a thread is only woken after *)
(* its search found one.                                                   *)
TypeOK ==
  /\ counting \in BOOLEAN /\ group \in Group
  /\ pollin \in [Threads -> BOOLEAN] /\ disabled \in [Threads -> BOOLEAN]
  /\ pc \in [Threads -> Labels] /\ wake \in [Threads -> Threads \cup {NULL}]
  /\ irq \in Threads \cup {NULL} /\ tokenpos \in Threads \cup {NULL}
  /\ outdated \in [Threads -> BOOLEAN] /\ last_token \in Nat
  /\ ops \in [Threads -> Nat]
  /\ after \in [Threads -> {"none", "blocked", "parked", "joining"}]
  /\ stray \in BOOLEAN

(* Determinism, in the default build: a thread that gets the token for     *)
(* good is the lowest of the active threads.                               *)
TokenGoesToLowest ==
  [][\A t \in Threads : ~counting /\ pc[t] = "check" /\ pc'[t] = "fast_forward" =>
       \A u \in group.active_threads \ {t} : ClockIsLower(group, t, u)]_vars

(* The walk over the list and the walk over the entries agree.             *)
ListAgrees ==
  \A t \in Threads : t \in group.active_threads <=> InRace(group, t)

(* In the default build a wake-up still to be sent is for lowest_tid,      *)
(* unless its thread no longer waits: __wake_up_waiting_thread looks at    *)
(* lowest_tid again without the lock, and passes over nobody who waits.    *)
NobodyPassedOver ==
  ~counting => \A t \in Threads :
    wake[t] # NULL => group.lowest_tid = wake[t] \/ ~group.waiting[wake[t]]

(* No wake-up is lost: who asks for the token gets it.                     *)
EveryoneGetsToken == \A t \in Threads : pc[t] = "is_lowest" ~> pc[t] = "token"
=============================================================================

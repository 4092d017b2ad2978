----------------------------- MODULE ClockSetup -----------------------------
(***************************************************************************)
(* How a process gets its logical clock and gives it up: the constructor   *)
(* and determ_task_clock_init_with_id (determ_clock.c), the counter's file *)
(* (perf_counter.c) and the entries of the kernel module (clock_main.c).   *)
(* A creator activates the clock of a thread that does not exist yet; the  *)
(* new process sets the same clock up later, a process of the pool never.  *)
(* The system calls succeed: when one fails the program exits.             *)
(***************************************************************************)
EXTENDS Naturals, FiniteSets

CONSTANTS
  NumThreads,       \* threads and pool entries, numbered from 0 (main)
  MaxStatus,        \* DETERM_CLOCK_MAX_THREADS
  BoundedChunk, MaxSamplePeriod,   \* BOUNDED_CHUNK_SIZE, MAX_CLOCK_SAMPLE_PERIOD
  MaxTicks, MaxStarts           \* bound the model

VARIABLES
  func,       \* task_clock_func: the functions that the module has filled in
  id_counter, \* clock_info->id_counter
  fds,        \* the open files, of all processes (CLONE_FILES)
  clocks,     \* group_info->clocks
  user_status,\* clock_info->user_status
  info,       \* by process: task_clock_info
  phase,      \* by thread: what its process does
  birth, ran, \* by thread: first value of its clock, instructions it has run (history)
  starts      \* creations so far

ClockThreads == 0 .. NumThreads - 1
Main    == 0
NoFile  == 1000

kernel  == <<func, clocks>>
process == <<id_counter, fds, info>>
vars    == <<kernel, process, user_status, phase, birth, ran, starts>>

EntryFunctions ==
  {"overflow_handler", "group_init", "entry_init", "entry_activate", "entry_halt", "on_disable",
   "on_enable", "entry_activate_other", "entry_wait", "entry_sleep", "overflow_update_period",
   "add_ticks", "entry_woke_up", "entry_stop", "entry_start", "entry_reset",
   "entry_start_no_notify", "entry_stop_no_notify", "entry_is_singlestep"}

(* cleanup_module leaves these where the module was.                       *)
Forgotten ==
  {"entry_sleep", "overflow_update_period", "entry_reset", "entry_start_no_notify",
   "entry_stop_no_notify"}

(* __get_clock_ticks                                                       *)
Clock(c, t) == c[t].base_ticks + c[t].ticks

Live == {t \in ClockThreads : phase[t] \notin {"none", "parked", "gone"}}

-----------------------------------------------------------------------------
(* init_module, also after a cleanup; BUG_ON if a bounded chunk could not  *)
(* hold one period.                                                        *)
InitModule ==
  /\ func \in {{}, Forgotten} /\ phase[Main] = "none" /\ BoundedChunk >= MaxSamplePeriod
  /\ func' = EntryFunctions
  /\ UNCHANGED <<clocks, process, user_status, phase, birth, ran, starts>>

CleanupModule ==
  /\ func = EntryFunctions /\ Live = {}
  /\ func' = Forgotten
  /\ UNCHANGED <<clocks, process, user_status, phase, birth, ran, starts>>

(* Mutant: a clock that was activated for the thread is started from zero. *)
EntryInitAnew(t) ==
  [clocks EXCEPT ![t] = [initialized |-> TRUE, base_ticks |-> 0, ticks |-> 0,
                         inactive |-> FALSE, count_ticks |-> FALSE]]

(* task_clock_entry_init, called when the counter is opened                *)
EntryInit(t) ==
  LET e == IF clocks[t].initialized THEN clocks[t]
           ELSE [clocks[t] EXCEPT !.ticks = 0, !.base_ticks = 0]
  IN [clocks EXCEPT ![t] = [e EXCEPT !.initialized = TRUE, !.inactive = FALSE, !.count_ticks = FALSE]]

(* perf_event_open: the smallest free number of the shared table           *)
NewFile == CHOOSE f \in 0 .. Cardinality(fds) : f \notin fds /\ \A g \in 0 .. f - 1 : g \in fds

(* determ_task_clock_init_with_id: the status is cleared, the counter is   *)
(* opened in the group of the counter whose number fork copied.            *)
InitWithId(t, inherited) ==
  /\ "entry_init" \in func /\ t < MaxStatus
  /\ user_status' = [user_status EXCEPT ![t] = [ticks |-> 0, lowest_clock |-> 0, single_active_thread |-> 0,
                                                scaling_whole |-> 1]]
  /\ clocks' = EntryInit(t)
  /\ info' = [info EXCEPT ![t] = [tid |-> t, disabled |-> FALSE, started |-> FALSE, fd |-> NewFile,
                                  group_fd |-> IF t = Main THEN NoFile ELSE inherited]]
  /\ fds' = fds \cup {NewFile}

(* determ_clock_init and, from xrun::initialize, the first activate        *)
Constructor ==
  /\ phase[Main] = "none"
  /\ InitWithId(id_counter, NoFile)
  /\ id_counter' = id_counter + 1
  /\ phase' = [phase EXCEPT ![id_counter] = "stopped"]
  /\ UNCHANGED <<func, birth, ran, starts>>

-----------------------------------------------------------------------------
(* task_clock_entry_activate_other                                         *)
ActivateOther(p, t) ==
  LET e == IF clocks[t].initialized THEN clocks[t]
           ELSE [clocks[t] EXCEPT !.base_ticks = Clock(clocks, p) + 1, !.ticks = 0]
  IN [clocks EXCEPT ![t] = [e EXCEPT !.initialized = TRUE, !.inactive = FALSE]]

(* pthread_create by p: determ_task_clock_activate_other for entry t of    *)
(* the pool, and a clone unless a process is parked there.                 *)
Create(p, t) ==
  /\ phase[p] = "stopped" /\ phase[t] \in {"none", "parked"} /\ t # Main /\ starts < MaxStarts
  /\ user_status' = [user_status EXCEPT ![p].single_active_thread = 0]
  /\ clocks' = ActivateOther(p, t)
  /\ phase' = [phase EXCEPT ![t] = IF phase[t] = "none" THEN "cloned" ELSE "woken"]
  /\ info' = [info EXCEPT ![t] = IF phase[t] = "none" THEN info[p] ELSE @]
  /\ birth' = [birth EXCEPT ![t] = Clock(clocks, p) + 1]
  /\ ran' = [ran EXCEPT ![t] = 0]
  /\ starts' = starts + 1
  /\ UNCHANGED <<func, id_counter, fds>>

(* do_work: a new process sets its clock up, one of the pool only calls    *)
(* determ_task_clock_on_wakeup.                                            *)
DoWork(t) ==
  /\ \/ phase[t] = "cloned" /\ InitWithId(t, info[t].fd) /\ UNCHANGED <<func, id_counter>>
     \/ /\ phase[t] = "woken"
        /\ info' = [info EXCEPT ![t].disabled = FALSE]
        /\ user_status' = [user_status EXCEPT ![t].lowest_clock = 0]
        /\ UNCHANGED <<kernel, id_counter, fds>>
  /\ phase' = [phase EXCEPT ![t] = "stopped"]
  /\ UNCHANGED <<birth, ran, starts>>

(* __determ_task_clock_start; perf_counter_start the first time after a    *)
(* halt.  Either way the kernel counts from here.                          *)
Start(t) ==
  /\ phase[t] = "stopped"
  /\ info' = [info EXCEPT ![t].disabled = FALSE, ![t].started = TRUE]
  /\ user_status' = [user_status EXCEPT ![t].lowest_clock = 0]
  /\ clocks' = [clocks EXCEPT ![t].count_ticks = TRUE]
  /\ phase' = [phase EXCEPT ![t] = "running"]
  /\ UNCHANGED <<func, id_counter, fds, birth, ran, starts>>

(* An instruction of the program; the counter counts while it is started.  *)
Run(t) ==
  /\ phase[t] = "running" /\ ran[t] < MaxTicks
  /\ ran' = [ran EXCEPT ![t] = @ + 1]
  /\ clocks' = IF clocks[t].count_ticks THEN [clocks EXCEPT ![t].ticks = @ + 1] ELSE clocks
  /\ UNCHANGED <<func, process, user_status, phase, birth, starts>>

(* __determ_task_clock_stop_with_id                                        *)
Stop(t) ==
  /\ phase[t] = "running"
  /\ clocks' = [clocks EXCEPT ![t].count_ticks = FALSE]
  /\ user_status' = [user_status EXCEPT ![t].ticks = Clock(clocks, t)]
  /\ phase' = [phase EXCEPT ![t] = "stopped"]
  /\ UNCHANGED <<func, process, birth, ran, starts>>

-----------------------------------------------------------------------------
(* determ_task_clock_halt                                                  *)
Halt(t) ==
  /\ info' = [info EXCEPT ![t].disabled = TRUE, ![t].started = FALSE]
  /\ phase[t] = "stopped"
  /\ UNCHANGED <<func, id_counter, fds, user_status, birth, ran, starts>>

(* A thread sleeps in join, cond_wait or a barrier.                        *)
Sleep(t) ==
  /\ Halt(t)
  /\ clocks' = [clocks EXCEPT ![t].inactive = TRUE]
  /\ phase' = [phase EXCEPT ![t] = "halted"]

(* determ_task_clock_activate                                              *)
Activate(t) ==
  /\ phase[t] = "halted"
  /\ user_status' = [user_status EXCEPT ![t].lowest_clock = 0]
  /\ info' = [info EXCEPT ![t].disabled = FALSE]
  /\ clocks' = [clocks EXCEPT ![t].inactive = FALSE]
  /\ phase' = [phase EXCEPT ![t] = "stopped"]
  /\ UNCHANGED <<func, id_counter, fds, birth, ran, starts>>

(* deregisterThread: halt, then determ_task_clock_reset                    *)
Deregister(t) ==
  /\ t # Main /\ Halt(t)
  /\ clocks' = [clocks EXCEPT ![t].inactive = TRUE, ![t].initialized = FALSE]
  /\ phase' = [phase EXCEPT ![t] = "parked"]

(* xrun::done                                                              *)
Done ==
  /\ phase[Main] = "stopped"
  /\ phase' = [phase EXCEPT ![Main] = "gone"]
  /\ UNCHANGED <<kernel, process, user_status, birth, ran, starts>>

(* finalThreadExit: determ_task_clock_close                                *)
Exit(t) ==
  /\ phase[t] = "parked" /\ phase[Main] = "gone"
  /\ fds' = fds \ {info[t].fd}
  /\ phase' = [phase EXCEPT ![t] = "gone"]
  /\ UNCHANGED <<kernel, id_counter, info, user_status, birth, ran, starts>>

-----------------------------------------------------------------------------
Init ==
  /\ func = {} /\ id_counter = 0 /\ fds = {0, 1, 2} /\ starts = 0
  /\ clocks = [t \in ClockThreads |-> [initialized |-> FALSE, base_ticks |-> 0, ticks |-> 0,
                                       inactive |-> FALSE, count_ticks |-> FALSE]]
  /\ user_status = [t \in ClockThreads |-> [ticks |-> 0, lowest_clock |-> 0, single_active_thread |-> 0,
                                            scaling_whole |-> 0]]
  /\ info = [t \in ClockThreads |-> [tid |-> 0, disabled |-> FALSE, started |-> FALSE, fd |-> NoFile,
                                     group_fd |-> NoFile]]
  /\ phase = [t \in ClockThreads |-> "none"]
  /\ birth = [t \in ClockThreads |-> 0] /\ ran = [t \in ClockThreads |-> 0]

Next ==
  \/ InitModule \/ CleanupModule \/ Constructor \/ Done
  \/ phase[Main] = "gone" /\ UNCHANGED vars
  \/ \E t \in ClockThreads :
       \/ DoWork(t) \/ Start(t) \/ Run(t) \/ Stop(t) \/ Sleep(t) \/ Activate(t) \/ Deregister(t) \/ Exit(t)
       \/ \E p \in ClockThreads : Create(p, t)

Spec == Init /\ [][Next]_vars

-----------------------------------------------------------------------------
(* Whether its process is new or comes from the pool, a thread's clock     *)
(* begins right after its creator's and then counts each of its own        *)
(* instructions once, with a counter that no other live process has.       *)
ClockIsOwn ==
  \A t \in Live :
    /\ Clock(clocks, t) = birth[t] + ran[t]
    /\ phase[t] \notin {"cloned"} =>
         info[t].fd \in fds /\ \A u \in Live \ {t} : phase[u] # "cloned" => info[u].fd # info[t].fd
=============================================================================

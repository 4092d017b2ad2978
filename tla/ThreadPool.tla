----------------------------- MODULE ThreadPool -----------------------------
(***************************************************************************)
(* ThreadPool (thread_pool.h) with the processes of xthread.cpp: a thread  *)
(* that has ended parks its process, and the next pthread_create takes the *)
(* process that waits longest.  Threads are processes: the argument of a   *)
(* new thread may lie on its creator's stack, which a cloned process has a *)
(* copy of and a parked one has not.                                       *)
(*                                                                         *)
(* One thread (main) creates, all of it from the same depth of its stack;  *)
(* the token orders get_thread, add_thread_to_pool and terminate_all.      *)
(***************************************************************************)
EXTENDS Naturals, Sequences, SequencesExt

CONSTANTS
  PoolSize,   \* THREAD_POOL_MAX_SIZE
  Values,     \* contents of main's local variable
  MaxCreates  \* bounds the model

PoolEntries == 1 .. PoolSize - 1
None    == 0

VARIABLES
  head, tail, next, prev,  \* the list of waiting entries
  status, id_counter,
  is_stack_allocated_var, stack_space, stack_start_addr,
  arg,        \* by entry: run_function_arg, "local" (main's variable) or "heap"
  proc,       \* by entry: where its process is
  local,      \* main's variable
  frame,      \* by entry: the variable in the process's own copy of the stack
  finished,   \* master_thread_finished
  aborted,    \* an assertion has failed
  queue,      \* the entries in the list (history)
  given, seen, creates     \* by entry: what main passed, what the thread found (history)

list  == <<head, tail, next, prev, queue>>
stack == <<is_stack_allocated_var, stack_space, stack_start_addr, arg>>
vars  == <<list, status, id_counter, stack, proc, local, frame, finished, aborted, given, seen, creates>>

Set(f, e, v) == [f EXCEPT ![e] = v]

-----------------------------------------------------------------------------
(***************************************************************************)
(* pthread_create.                                                         *)
(***************************************************************************)
(* get_thread: the entry at the tail is taken.                             *)
TakeTail ==
  /\ tail' = prev[tail]
  /\ next' = IF prev[tail] # None THEN Set(next, prev[tail], None) ELSE next
  /\ head' = IF prev[tail] # None THEN head ELSE None
  /\ queue' = Front(queue)
  /\ UNCHANGED prev

(* Mutant: the stack is saved only for a new process.                      *)
SavesStackOfNew(e, where) == where = "local" /\ status[e] = "INIT"

SavesStack(e, where) == where = "local" /\ status[e] # "INIT"

(* save_parent_stack                                                       *)
SaveParentStack(e) ==
  /\ stack_space' = Set(stack_space, e, local)
  /\ stack_start_addr' = Set(stack_start_addr, e, "local")

(* The entry's fields; then a waiting process is woken, any other entry    *)
(* gets a process of its own.                                              *)
HandOver(e, where) ==
  /\ arg' = Set(arg, e, where)
  /\ is_stack_allocated_var' = Set(is_stack_allocated_var, e, where = "local")
  /\ IF SavesStack(e, where) THEN SaveParentStack(e)
     ELSE UNCHANGED <<stack_space, stack_start_addr>>
  /\ given' = Set(given, e, IF where = "local" THEN local ELSE "heap")
  /\ seen' = Set(seen, e, "nothing")
  /\ status' = Set(status, e, IF status[e] = "WAITING" THEN "READY" ELSE "INIT")
  /\ proc' = Set(proc, e, IF status[e] # "WAITING" THEN "unborn"
                          ELSE IF proc[e] = "asleep" THEN "awake" ELSE proc[e])

Creating == \E e \in PoolEntries : proc[e] = "unborn"

GetThread ==
  /\ ~finished /\ ~aborted /\ ~Creating /\ creates < MaxCreates /\ creates' = creates + 1
  /\ \E where \in {"local", "heap"} :
       \/ /\ tail # None
          /\ TakeTail /\ HandOver(tail, where)
          /\ UNCHANGED id_counter
       \/ /\ tail = None /\ id_counter < PoolSize - 1
          /\ id_counter' = id_counter + 1
          /\ HandOver(id_counter + 1, where)
          /\ UNCHANGED list
  /\ UNCHANGED <<local, frame, finished, aborted>>

(* forkSpawn: the process starts with a copy of main's memory.             *)
Clone ==
  /\ \E e \in PoolEntries :
       /\ proc[e] = "unborn"
       /\ proc' = Set(proc, e, "work")
       /\ frame' = Set(frame, e, local)
  /\ UNCHANGED <<list, status, id_counter, stack, local, finished, aborted, given, seen, creates>>

(* The program goes on with its variable.                                  *)
MainWrites ==
  /\ ~Creating /\ ~finished /\ ~aborted
  /\ local' \in Values \ {local}
  /\ UNCHANGED <<list, status, id_counter, stack, proc, frame, finished, aborted, given, seen, creates>>

-----------------------------------------------------------------------------
(***************************************************************************)
(* The process of entry e: do_work and run_thread.                         *)
(***************************************************************************)
RunFunction(e) ==
  /\ proc[e] = "work"
  /\ seen' = Set(seen, e, IF arg[e] = "local" THEN frame[e] ELSE "heap")
  /\ proc' = Set(proc, e, "done")
  /\ UNCHANGED <<list, status, id_counter, stack, local, frame, finished, aborted, given, creates>>

(* add_thread_to_pool                                                      *)
AddToPool(e) ==
  /\ next' = Set(next, e, IF head = None THEN None ELSE head)
  /\ prev' = IF head = None THEN Set(prev, e, None) ELSE [prev EXCEPT ![e] = None, ![head] = e]
  /\ head' = e
  /\ tail' = IF head = None THEN e ELSE tail
  /\ queue' = <<e>> \o queue
  /\ status' = Set(status, e, "WAITING")

(* set_exit_by_id                                                          *)
ExitsById(e) == status' = Set(status, e, "EXIT") /\ UNCHANGED list

(* threadDeregister, with the token; once main is done no process waits.   *)
Deregister(e) ==
  /\ proc[e] = "done"
  /\ is_stack_allocated_var' = Set(is_stack_allocated_var, e, FALSE)
  /\ IF finished THEN ExitsById(e) ELSE AddToPool(e)
  /\ proc' = Set(proc, e, "ended")
  /\ UNCHANGED <<id_counter, stack_space, stack_start_addr, arg, local, frame, finished, aborted,
                 given, seen, creates>>

(* park_thread: the futex returns at once if the status is another.        *)
Park(e) ==
  /\ proc[e] = "ended"
  /\ proc' = Set(proc, e, IF status[e] = "WAITING" THEN "asleep" ELSE "awake")
  /\ UNCHANGED <<list, status, id_counter, stack, local, frame, finished, aborted, given, seen, creates>>

(* copy_parent_stack; then the loop ends or begins again.                  *)
WakeUp(e) ==
  /\ proc[e] = "awake"
  /\ frame' = IF is_stack_allocated_var[e] /\ stack_start_addr[e] # "nothing"
              THEN Set(frame, e, stack_space[e]) ELSE frame
  /\ proc' = Set(proc, e, IF status[e] = "EXIT" THEN "gone" ELSE "work")
  /\ UNCHANGED <<list, status, id_counter, stack, local, finished, aborted, given, seen, creates>>

-----------------------------------------------------------------------------
(* pthread_cancel: the process is killed; determ::cancel accepts only a    *)
(* thread that has exited (whose process may be in the pool).              *)
Cancel ==
  /\ ~finished /\ ~aborted /\ ~Creating
  /\ \E e \in PoolEntries :
       /\ proc[e] \notin {"none", "killed"} /\ given[e] # "cancelled"
       /\ given' = Set(given, e, "cancelled")
       /\ proc' = Set(proc, e, "killed")
       /\ aborted' = (proc[e] \in {"work", "done", "awake"})
  /\ UNCHANGED <<list, status, id_counter, stack, local, frame, finished, seen, creates>>

(* finalize and terminate_all; the futex call wakes one sleeper.           *)
Finish ==
  /\ ~finished /\ ~aborted /\ ~Creating
  /\ finished' = TRUE
  /\ status' = [e \in PoolEntries |-> IF status[e] = "WAITING" THEN "EXIT" ELSE status[e]]
  /\ proc' = [e \in PoolEntries |-> IF status[e] = "WAITING" /\ proc[e] = "asleep" THEN "awake" ELSE proc[e]]
  /\ UNCHANGED <<list, id_counter, stack, local, frame, aborted, given, seen, creates>>

Init ==
  /\ head = None /\ tail = None /\ queue = <<>>
  /\ next = [e \in PoolEntries |-> None] /\ prev = [e \in PoolEntries |-> None]
  /\ status = [e \in PoolEntries |-> "INIT"] /\ id_counter = 0
  /\ is_stack_allocated_var = [e \in PoolEntries |-> FALSE]
  /\ stack_space = [e \in PoolEntries |-> "nothing"] /\ stack_start_addr = [e \in PoolEntries |-> "nothing"]
  /\ arg = [e \in PoolEntries |-> "heap"]
  /\ proc = [e \in PoolEntries |-> "none"]
  /\ local = (CHOOSE v \in Values : TRUE) /\ frame = [e \in PoolEntries |-> "nothing"]
  /\ finished = FALSE /\ aborted = FALSE /\ creates = 0
  /\ given = [e \in PoolEntries |-> "nothing"] /\ seen = [e \in PoolEntries |-> "nothing"]

Next ==
  \/ GetThread \/ Clone \/ MainWrites \/ Cancel \/ Finish
  \/ ~aborted /\ \E e \in PoolEntries : RunFunction(e) \/ Deregister(e) \/ Park(e) \/ WakeUp(e)
  \/ (finished \/ aborted) /\ UNCHANGED vars

Spec == Init /\ [][Next]_vars

-----------------------------------------------------------------------------
(* A thread finds the argument its creator passed, on a stack it may have  *)
(* inherited from another creation, whatever the creator did to its        *)
(* variable since.                                                         *)
ArgumentArrives ==
  \A e \in PoolEntries : seen[e] # "nothing" /\ given[e] # "cancelled" => seen[e] = given[e]

(* The links from both ends are the queue of waiting entries, and each of  *)
(* them can be woken: its process is on its way to the futex or at it,     *)
(* unless it was cancelled.                                                *)
PoolIsQueue ==
  /\ head = (IF queue = <<>> THEN None ELSE Head(queue))
  /\ tail = (IF queue = <<>> THEN None ELSE Last(queue))
  /\ \A i \in 1 .. Len(queue) :
       /\ next[queue[i]] = (IF i = Len(queue) THEN None ELSE queue[i + 1])
       /\ prev[queue[i]] = (IF i = 1 THEN None ELSE queue[i - 1])
       /\ ~finished => status[queue[i]] = "WAITING" /\ proc[queue[i]] \in {"ended", "asleep", "killed"}
=============================================================================

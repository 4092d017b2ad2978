----------------------------- MODULE SharedParts ----------------------------
(***************************************************************************)
(* What the threads share, part by part, each a specification by itself:   *)
(* the kernel's list of active threads (Array), the lists of class determ  *)
(* (Ring), the pool of processes (Pool) and the mutexes of the DWC build   *)
(* (Simple).                                                               *)
(***************************************************************************)
EXTENDS Integers

CONSTANTS
  MaxSize,
  Entries, Lists, NoEntry,
  PoolSize, Values, MaxCreates,
  LockThreads, Locks, Inside, MaxSections, NoOne

VARIABLES
  first, last, following, preceding, active, max_index, members,
  head, next, prev, queue,
  pool_head, pool_tail, pool_next, pool_prev, status, id_counter, is_stack_allocated_var,
  stack_space, stack_start_addr, arg, proc, local, frame, finished, aborted, waiting, given, seen,
  creates,
  tokenpos, token_holding, lock_count, is_acquired, sleepers, ready, doing, committed, sees, has, weird,
  sections, written

array == <<first, last, following, preceding, active, max_index, members>>
ring  == <<head, next, prev, queue>>
pool  == <<pool_head, pool_tail, pool_next, pool_prev, status, id_counter, is_stack_allocated_var,
           stack_space, stack_start_addr, arg, proc, local, frame, finished, aborted, waiting, given,
           seen, creates>>
simple == <<tokenpos, token_holding, lock_count, is_acquired, sleepers, ready, doing, committed, sees, has,
            weird, sections, written>>

Array  == INSTANCE ListArray WITH head <- first, tail <- last, next <- following,
                                  prev <- preceding, count <- active
Ring   == INSTANCE CircularList
Pool   == INSTANCE ThreadPool WITH head <- pool_head, tail <- pool_tail, next <- pool_next,
                                   prev <- pool_prev, queue <- waiting
Simple == INSTANCE SimpleLocks WITH waiters <- sleepers, pc <- doing, memory <- committed, view <- sees

-----------------------------------------------------------------------------
(* list.h, listarray.h and thread_pool.h: the links of each are the queue  *)
(* that its callers take it for, and only processes that can be woken are  *)
(* in the pool.                                                            *)
ListsAreQueues == Array!LinksAreMembers /\ Ring!RingIsQueue /\ Pool!PoolIsQueue

(* copy_parent_stack gives a reused process its creator's variables.       *)
ArgumentArrives == Pool!ArgumentArrives

(* The DWC build's mutexes exclude, and protect what is behind them.       *)
SimpleExclusion == Simple!SimpleExclusion
=============================================================================

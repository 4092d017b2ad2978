----------------------------- MODULE ThreadParts ----------------------------
(***************************************************************************)
(* What every thread has of its own, part by part, each a specification by *)
(* itself: the counter that makes ticks of its instructions (Perf), its    *)
(* clock from creation to exit (Setup), its coarsened transactions         *)
(* (Coarse), the log of its index (Log), and its version of memory, as the *)
(* segments have it (Mem) and as the entries of mutexes and condition      *)
(* variables depend on it (Sync).                                          *)
(***************************************************************************)
EXTENDS Integers

CONSTANTS
  Modulus, Grow, MinPeriod, MaxPeriod, Slack, Waiting, Skid, Chunk, Buffer, Fence, MaxRun,
  NumThreads, MaxStatus, BoundedChunk, MaxSamplePeriod, MaxTicks, MaxStarts,
  Chunks, Ops, MinObs, TotalObs, MinLevel, AfterTransfer, MaxLevel, MaxOps,
  MaxEvents, Types, MaxTime,
  MemThreads, First, HeapBase, HeapSize, GlobalsBase, GlobalsSize, MaxGlobals, Addresses, MaxVersion, NoHolder,
  SyncThreads, Static, Dynamic, Conds, NumEntries

VARIABLES
  mode, raw, late, prev_count, period_left, period, count, ticks, chunk_ticks, count_ticks, tf,
  hit_bounded_fence, new_raw_count, old_raw_count, was_on, aba, leftover, counted, start,
  func, clock_ids, fds, clocks, user_status, info, phase, birth, executed, starts,
  tx_pc, tx, tx_ran, nops,
  events, event_counter, time, clock,
  version, view, dirty, asleep, holder, at, moment,
  master, snap, own, acquired, free, token, place, obj, entry, crashed

perf  == <<mode, raw, late, prev_count, period_left, period, count, ticks, chunk_ticks, count_ticks,
           tf, hit_bounded_fence, new_raw_count, old_raw_count, was_on, aba, leftover, counted, start>>
setup == <<func, clock_ids, fds, clocks, user_status, info, phase, birth, executed, starts>>
coarse == <<tx_pc, tx, tx_ran, nops>>
log   == <<events, event_counter, time, clock>>
segments == <<version, view, dirty, asleep, holder, at, moment>>
sync  == <<master, snap, own, acquired, free, token, place, obj, entry, crashed>>

Perf   == INSTANCE PerfCounter WITH ran <- counted
Setup  == INSTANCE ClockSetup WITH id_counter <- clock_ids, ran <- executed
Coarse == INSTANCE Coarsening WITH pc <- tx_pc, s <- tx, ran <- tx_ran
Log    == INSTANCE EventLog
Mem    == INSTANCE Memory WITH token <- holder, pc <- at
Sync   == INSTANCE SyncEntries WITH Threads <- SyncThreads, pc <- place

-----------------------------------------------------------------------------
(* task_clock_entry_stop leaves a clock that counted every instruction of  *)
(* the chunk once.                                                         *)
EveryInstructionCounted == Perf!EveryInstructionCounted

(* on_single_step ends a chunk at exactly BOUNDED_CHUNK_SIZE.              *)
FenceIsExact == Perf!FenceIsExact

(* A thread's clock continues its creator's, whatever process it gets.     *)
ClockIsOwn == Setup!ClockIsOwn

(* The clock that determ_clock.c and the kernel keep together is exact     *)
(* across coarsened transactions.                                          *)
TicksExact == Coarse!TicksExact

(* A coarsened mutex_unlock's data is committed before the token goes.     *)
UnlockedDataCommitted == Coarse!UnlockedDataCommitted

(* EventEntry: the log of an index is a sequence of intervals.             *)
EventsInOrder == Log!EventsInOrder

(* xmemory: heap and globals are those of one moment.                      *)
OneMoment == Mem!OneMoment

(* lock_acquire makes or finds one entry for a mutex, whatever version of  *)
(* the program's memory a thread sees.                                     *)
OneEntryPerMutex == Sync!OneEntryPerMutex

(* lock_destroy and lock_init: no entry serves two objects.                *)
EntriesApart == Sync!EntriesApart
=============================================================================

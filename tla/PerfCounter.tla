----------------------------- MODULE PerfCounter ----------------------------
(***************************************************************************)
(* How one thread's instructions become ticks of its logical clock         *)
(* (logical_clock_instruction_counting.h, bounded_tso.c): the hardware     *)
(* counter runs from -period up to an overflow, the interrupt arrives a    *)
(* few instructions or even a system call later, the counter's length      *)
(* adapts to the thread that waits, and a chunk that gets too long is      *)
(* ended exactly at its bound by single-stepping the last instructions.    *)
(*                                                                         *)
(* The counter and perf's own interrupt code (update, then reload) are     *)
(* external.  Instructions in the kernel are not counted.                  *)
(***************************************************************************)
EXTENDS Integers

CONSTANTS
  Modulus,    \* the counter has 48 bits: 2^48
  Grow,       \* 10000: how much the period grows at every overflow
  MinPeriod,  \* MIN_CLOCK_SAMPLE_PERIOD
  MaxPeriod,  \* MAX_CLOCK_SAMPLE_PERIOD
  Slack,      \* 1000: how far beyond the waiting thread's clock to run
  Waiting,    \* clocks a waiting thread may have
  Skid,       \* instructions an interrupt can be late
  Chunk,      \* BOUNDED_CHUNK_SIZE
  Buffer,     \* IMPRECISE_OVERFLOW_BUFFER
  Fence,      \* built with USE_BOUNDED_FENCE
  MaxRun      \* instructions the thread executes in all (bounds the model)

NotWaiting == -1
Imprecise  == Chunk - Buffer

VARIABLES
  mode,         \* "user", or the place in task_clock_entry_stop
  raw,          \* the counter
  late,         \* instructions since the overflow, -1 if none is pending
  prev_count,   \* hwc->prev_count
  period_left,  \* hwc->period_left
  period,       \* hwc->sample_period
  count,        \* event->count
  ticks,        \* the clock
  chunk_ticks,
  count_ticks,  \* 0 off, 1 counting, n + 2 while n steps are left
  tf,           \* the trap flag
  hit_bounded_fence,
  new_raw_count, old_raw_count, was_on,   \* locals of read_clock_and_update
  aba,          \* prev_count was reloaded with the value it had (history)
  leftover,     \* "yes" while the counter runs down a period of an earlier chunk,
                \* "switched" after a context switch in it (history)
  ran,          \* instructions executed while they counted (history)
  start         \* value of ran when the chunk began (history)

hw   == <<raw, late, prev_count, period_left>>
loc  == <<new_raw_count, old_raw_count, was_on>>
vars == <<mode, hw, period, count, ticks, chunk_ticks, count_ticks, tf,
          hit_bounded_fence, loc, aba, leftover, ran, start>>

Lower(a, b)  == IF a < b THEN a ELSE b
Higher(a, b) == IF a > b THEN a ELSE b

Running        == count_ticks # 0
SingleStepping == Fence /\ count_ticks > 1

-----------------------------------------------------------------------------
(* __bound_overflow_period                                                 *)
BoundOverflowPeriod(p, chunk) ==
  IF Fence /\ p + chunk > Imprecise THEN Imprecise - chunk ELSE p

(* logical_clock_update_overflow_period, with the clock w of the lowest    *)
(* thread that waits.                                                      *)
NextPeriod(p, clock, chunk, w, stepping) ==
  LET wanted == IF w # NotWaiting /\ w > clock
                THEN Higher(w - clock + Slack, MinPeriod) ELSE p + Grow
  IN  IF stepping THEN Imprecise
      ELSE Lower(BoundOverflowPeriod(wanted, chunk), MaxPeriod)

(* begin_bounded_memory_fence when chunk_ticks passed the imprecise bound: *)
(* the steps to go, in count_ticks, or the end of the chunk.               *)
Remaining(chunk) == IF chunk > Chunk THEN 0 ELSE Chunk - chunk
BeginsFence(chunk, on) == Fence /\ on /\ chunk > Imprecise

(* perf puts the counter back by what is left of period p, delta counted:  *)
(* a whole period if it is more than one late, and never less than one.    *)
Reload(delta, p) ==
  LET left == period_left - delta
      next == IF left <= -p THEN p ELSE IF left <= 0 THEN left + p ELSE left
  IN  /\ period_left' = next
      /\ raw' = (Modulus - Higher(1, next)) % Modulus
      /\ prev_count' = raw'
      /\ aba' = (aba \/ (mode = "exchange" /\ raw' = old_raw_count))

-----------------------------------------------------------------------------
(***************************************************************************)
(* The thread runs.                                                        *)
(***************************************************************************)

(* Mutant: the extra step that was added to start with is not made up for. *)
SingleSteppingDoneLate(c) == c <= 1

SingleSteppingDone(c) == c <= 2

(* One instruction; with the trap flag it ends in on_single_step.          *)
Instruction ==
  LET next == (raw + 1) % Modulus
      c    == count_ticks - 1 IN
  /\ mode = "user" /\ ran < MaxRun /\ Running
  /\ late < Skid
  /\ raw' = next
  /\ late' = IF next = 0 THEN 0 ELSE IF late >= 0 THEN late + 1 ELSE late
  /\ ran' = ran + 1
  /\ IF tf /\ SingleStepping
     THEN /\ ticks' = ticks + 1
          /\ count_ticks' = IF SingleSteppingDone(c) THEN 0 ELSE c
          /\ hit_bounded_fence' = (hit_bounded_fence \/ SingleSteppingDone(c))
          /\ tf' = ~SingleSteppingDone(c)
     ELSE /\ tf' = (tf /\ (hit_bounded_fence \/ chunk_ticks >= Chunk))
          /\ UNCHANGED <<ticks, count_ticks, hit_bounded_fence>>
  /\ UNCHANGED <<mode, prev_count, period_left, period, count, chunk_ticks, loc, aba, leftover, start>>

(***************************************************************************)
(* The overflow's interrupt: perf adds what the counter counted, the clock *)
(* takes it (task_clock_entry_overflow_update_period), perf reloads the    *)
(* counter, and task_clock_overflow_handler sets the trap flag.            *)
(***************************************************************************)
Nmi ==
  LET delta == (raw - prev_count) % Modulus
      total == count + delta
      chunk == IF Running THEN chunk_ticks + total ELSE chunk_ticks
      fence == BeginsFence(chunk, Running)
      steps == Remaining(chunk) IN
  /\ late >= 0
  /\ \E w \in Waiting \cup {NotWaiting} :
       LET p == IF Running
                THEN NextPeriod(period, ticks + total, chunk, w, fence \/ SingleStepping \/ hit_bounded_fence)
                ELSE period
       IN  period' = p /\ Reload(delta, p)
  /\ late' = -1
  /\ IF Running
     THEN /\ ticks' = ticks + total /\ chunk_ticks' = chunk /\ count' = 0
          /\ count_ticks' = IF ~fence THEN count_ticks ELSE IF steps = 0 THEN 0 ELSE steps + 2
          /\ hit_bounded_fence' = (hit_bounded_fence \/ (fence /\ steps = 0))
          /\ tf' = (tf \/ (fence /\ steps > 0))
     ELSE /\ count' = total
          /\ UNCHANGED <<ticks, chunk_ticks, count_ticks, hit_bounded_fence, tf>>
  /\ leftover' = IF leftover = "yes" THEN "no" ELSE leftover
  /\ UNCHANGED <<mode, loc, ran, start>>

(* The thread is scheduled out and in again: perf puts what the counter    *)
(* counted aside in event->count and reloads it with what is left.         *)
ContextSwitch ==
  LET delta == (raw - prev_count) % Modulus IN
  /\ late = -1 /\ delta > 0
  /\ count' = count + delta
  /\ Reload(delta, period)
  /\ leftover' = IF leftover = "yes" THEN "switched" ELSE leftover
  /\ UNCHANGED <<mode, late, period, ticks, chunk_ticks, count_ticks, tf, hit_bounded_fence, loc,
                 ran, start>>

-----------------------------------------------------------------------------
(***************************************************************************)
(* task_clock_entry_stop: end_bounded_memory_fence_early, then             *)
(* logical_clock_read_clock_and_update.                                    *)
(***************************************************************************)
StopBegins ==
  /\ mode = "user"
  /\ IF SingleStepping
     THEN count_ticks' = 0 /\ tf' = FALSE /\ hit_bounded_fence' = TRUE
     ELSE UNCHANGED <<count_ticks, tf, hit_bounded_fence>>
  /\ was_on' = (count_ticks' # 0)
  /\ mode' = "read"
  /\ UNCHANGED <<hw, period, count, ticks, chunk_ticks, new_raw_count, old_raw_count, ran, aba, leftover, start>>

(* __read_performance_counter ...                                          *)
ReadCounter ==
  /\ mode = "read"
  /\ new_raw_count' = raw /\ old_raw_count' = prev_count
  /\ mode' = "exchange"
  /\ UNCHANGED <<hw, period, count, ticks, chunk_ticks, count_ticks, tf, hit_bounded_fence, was_on, ran, aba, leftover, start>>

PrevCountUnchanged == prev_count = old_raw_count

(* ... tries again if an interrupt came in between.                        *)
Exchange ==
  /\ mode = "exchange"
  /\ IF PrevCountUnchanged THEN prev_count' = new_raw_count /\ mode' = "update"
     ELSE mode' = "read" /\ UNCHANGED prev_count
  /\ UNCHANGED <<raw, late, period_left, period, count, ticks, chunk_ticks, count_ticks,
                 tf, hit_bounded_fence, loc, ran, aba, leftover, start>>

(* Mutant: ticks that perf has put aside are forgotten.                    *)
DeltaOfCounter == (new_raw_count - old_raw_count) % Modulus

Delta == ((new_raw_count - old_raw_count) % Modulus) + count

UpdateClock ==
  /\ mode = "update"
  /\ count_ticks' = 0
  /\ count' = 0
  /\ IF was_on THEN ticks' = ticks + Delta /\ chunk_ticks' = chunk_ticks + Delta
     ELSE UNCHANGED <<ticks, chunk_ticks>>
  /\ mode' = "out"
  /\ UNCHANGED <<hw, period, tf, hit_bounded_fence, loc, ran, aba, leftover, start>>

(* task_clock_entry_start and task_clock_on_enable: the counter goes on    *)
(* from where it is, the period starts to grow again.                      *)
Start ==
  /\ mode = "out"
  /\ prev_count' = raw /\ count' = 0
  /\ chunk_ticks' = 0 /\ count_ticks' = 1
  /\ period_left' = 0
  /\ \E w \in Waiting \cup {NotWaiting} : period' = NextPeriod(0, ticks, 0, w, hit_bounded_fence)
  /\ hit_bounded_fence' = FALSE
  /\ start' = ran /\ leftover' = "yes"
  /\ mode' = "user"
  /\ UNCHANGED <<raw, late, ticks, tf, loc, aba, ran>>

Init ==
  /\ mode = "user"
  /\ period = Lower(Grow, MaxPeriod) /\ period_left = period
  /\ raw = Modulus - period /\ prev_count = raw /\ late = -1
  /\ count = 0 /\ ticks = 0 /\ chunk_ticks = 0 /\ count_ticks = 1
  /\ tf = FALSE /\ hit_bounded_fence = FALSE
  /\ new_raw_count = 0 /\ old_raw_count = 0 /\ was_on = FALSE
  /\ aba = FALSE /\ leftover = "no" /\ ran = 0 /\ start = 0

(* The thread has nothing left to do.                                      *)
Finished == ran = MaxRun /\ mode = "out" /\ late = -1 /\ UNCHANGED vars

Next == Instruction \/ Nmi \/ ContextSwitch \/ StopBegins \/ ReadCounter \/ Exchange \/ UpdateClock \/ Start \/ Finished

Spec == Init /\ [][Next]_vars

-----------------------------------------------------------------------------
(* The clock is exact: once the thread is out of its chunk every           *)
(* instruction it executed was counted once, however overflows, late       *)
(* interrupts, single steps and the read of the counter are interleaved.   *)
EveryInstructionCounted == mode = "out" /\ ~aba => ticks = ran

(* A chunk that is ended by the bound is ended exactly there, so that the  *)
(* commit it forces comes at the same instruction in every execution.  The *)
(* exception: the counter is not loaded when a chunk starts, it runs down  *)
(* what an earlier chunk left; a context switch in that time adds a period *)
(* to it that no bound was applied to.                                     *)
FenceIsExact ==
  [][~hit_bounded_fence /\ hit_bounded_fence' /\ mode = "user" /\ mode' = "user" /\ leftover # "switched"
       => ran' - start = Chunk]_vars

=============================================================================

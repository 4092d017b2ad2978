-------------------------- MODULE ThreadPartsProofs -------------------------
(***************************************************************************)
(* What every thread has of its own, each part for all values of its       *)
(* constants that the theorem allows.  A part's theorem is about that      *)
(* part's specification: the run of MCParts checks the same property on an *)
(* instance.                                                               *)
(***************************************************************************)
EXTENDS ThreadParts, Sequences, WellFoundedInduction, FiniteSetTheorems, TLAPS

-----------------------------------------------------------------------------
(***************************************************************************)
(* PerfCounter: every instruction becomes one tick.                        *)
(***************************************************************************)
(* What the constants of the code have in common: the counter is wider     *)
(* than a period and a skid, and a bounded chunk is so long that the steps *)
(* at its end are over before the counter overflows again.                 *)
PerfBounds ==
  /\ Modulus \in Nat /\ Skid \in Nat /\ MinPeriod \in Nat /\ Slack \in Nat /\ Waiting \subseteq Nat
  /\ Grow \in Nat \ {0} /\ MaxPeriod \in Nat \ {0}
  /\ Chunk \in Nat /\ Buffer \in Nat \ {0} /\ 2 * Buffer + Skid < Chunk
  /\ MaxPeriod + Skid < Modulus /\ Chunk + Skid < Modulus

MaxLoad == IF MaxPeriod > Perf!Imprecise THEN MaxPeriod ELSE Perf!Imprecise

Modes == {"user", "read", "exchange", "update", "out"}

(* The types of the variables that the argument uses.                      *)
PerfTypes ==
  /\ mode \in Modes
  /\ raw \in 0 .. Modulus - 1 /\ prev_count \in 0 .. Modulus - 1
  /\ new_raw_count \in 0 .. Modulus - 1 /\ old_raw_count \in 0 .. Modulus - 1
  /\ late \in -1 .. Skid
  /\ period \in 0 .. MaxLoad /\ period_left \in 0 .. MaxLoad
  /\ count \in Nat /\ ticks \in Nat /\ chunk_ticks \in Nat /\ count_ticks \in Nat /\ counted \in Nat
  /\ count_ticks > 1 => Fence

(* Instructions since prev_count was set.                                  *)
Elapsed == (raw - prev_count) % Modulus

(* Where the counter is: below its overflow, or as far beyond it as the    *)
(* interrupt is late; prev_count is behind it by less than its width.      *)
Placed ==
  /\ late = -1 => Modulus - MaxLoad <= raw
  /\ late >= 0 => raw = late
  /\ mode \in {"user", "read", "exchange"} =>
       IF late = -1 THEN Modulus - MaxLoad <= prev_count /\ prev_count <= raw
       ELSE Modulus - MaxLoad <= prev_count \/ prev_count <= raw

(* What the next overflow is to be measured by: a period that was loaded,  *)
(* or what an earlier chunk left.                                          *)
Loaded ==
  mode = "user" /\ count_ticks = 1 =>
    IF leftover = "yes" THEN period_left = 0 /\ count = 0 /\ chunk_ticks = 0
    ELSE prev_count = Modulus - Perf!Higher(1, period_left)

(* The steps that are left end before the counter overflows.               *)
Steps ==
  mode = "user" /\ count_ticks > 1 =>
    /\ tf /\ late = -1 /\ count_ticks >= 3
    /\ period_left > 0 /\ prev_count = Modulus - period_left
    /\ raw + count_ticks - 2 < Modulus

(* Who has counted the instructions: the clock, perf, the counter since    *)
(* prev_count, or nobody but the locals of read_clock_and_update.          *)
Counted ==
  /\ mode = "user" => IF count_ticks = 1 THEN ticks + count + Elapsed = counted ELSE ticks = counted
  /\ mode \in {"read", "exchange"} =>
       IF was_on THEN ticks + count + Elapsed = counted ELSE ticks = counted /\ count_ticks = 0
  /\ mode = "exchange" /\ prev_count = old_raw_count => raw = new_raw_count
  /\ mode = "update" =>
       /\ prev_count = raw
       /\ IF was_on THEN ticks + count + ((new_raw_count - old_raw_count) % Modulus) = counted
          ELSE ticks = counted /\ count_ticks = 0
  /\ mode = "out" => ticks = counted /\ count_ticks = 0

PerfInv == PerfTypes /\ Placed /\ Loaded /\ Steps /\ (~aba => Counted)

-----------------------------------------------------------------------------
(* The difference of two values of the counter.                            *)
LEMMA ModDiff ==
  ASSUME NEW m \in Nat, NEW a \in 0 .. m - 1, NEW b \in 0 .. m - 1
  PROVE  (a - b) % m = IF a >= b THEN a - b ELSE a - b + m
OBVIOUS

(* The counter after one more instruction.                                 *)
LEMMA ModNext ==
  ASSUME NEW m \in Nat, NEW a \in 0 .. m - 1
  PROVE  (a + 1) % m = IF a = m - 1 THEN 0 ELSE a + 1
OBVIOUS

(* A value that fits the counter stays as it is.                           *)
LEMMA ModSmall ==
  ASSUME NEW m \in Nat, NEW x \in 0 .. m - 1 PROVE x % m = x
OBVIOUS

(* A value less itself.                                                    *)
LEMMA ModZero ==
  ASSUME NEW m \in Nat, NEW a \in 0 .. m - 1 PROVE (a - a) % m = 0
OBVIOUS

(* What follows for the constants.                                         *)
LEMMA LoadFits ==
  ASSUME PerfBounds
  PROVE  /\ Perf!Imprecise \in Nat \ {0} /\ MaxLoad \in Nat \ {0} /\ MaxPeriod <= MaxLoad /\ Perf!Imprecise <= MaxLoad
         /\ MaxLoad + Skid < Modulus /\ Perf!Imprecise > Buffer + Skid /\ Perf!Imprecise + Buffer = Chunk
         /\ Modulus \in Nat /\ Skid \in Nat /\ Chunk \in Nat /\ Buffer \in Nat \ {0}
BY DEF PerfBounds, MaxLoad, Perf!Imprecise

(* What the counter has counted.                                           *)
LEMMA ElapsedIs ==
  ASSUME PerfBounds, PerfTypes
  PROVE  /\ Elapsed \in Nat
         /\ Elapsed = IF raw >= prev_count THEN raw - prev_count ELSE raw - prev_count + Modulus
BY ModDiff DEF PerfBounds, PerfTypes, Elapsed

(* The same after a step that sets both to one value.                      *)
LEMMA ElapsedZero ==
  ASSUME PerfBounds, PerfTypes', prev_count' = raw' PROVE Elapsed' = 0
<1>1. raw' \in 0 .. Modulus - 1 /\ Modulus \in Nat
  BY DEF PerfBounds, PerfTypes
<1> QED
  BY <1>1, ModZero DEF Elapsed

(* logical_clock_update_overflow_period chooses a period the counter has   *)
(* room for.                                                               *)
LEMMA PeriodFits ==
  ASSUME PerfBounds, NEW p \in Nat, NEW now \in Nat, NEW chunk \in Nat,
         NEW w \in Waiting \cup {Perf!NotWaiting}, NEW stepping,
         stepping \/ ~Fence \/ chunk <= Perf!Imprecise
  PROVE  Perf!NextPeriod(p, now, chunk, w, stepping) \in 0 .. MaxLoad
<1> DEFINE wanted == IF w # Perf!NotWaiting /\ w > now
                     THEN Perf!Higher(w - now + Slack, MinPeriod) ELSE p + Grow
<1>1. wanted \in Nat
  BY DEF PerfBounds, Perf!Higher, Perf!NotWaiting
<1>2. CASE stepping
  BY <1>2, LoadFits DEF Perf!NextPeriod
<1>3. CASE ~stepping
  <2>1. Perf!NextPeriod(p, now, chunk, w, stepping) = Perf!Lower(Perf!BoundOverflowPeriod(wanted, chunk), MaxPeriod)
    BY <1>3 DEF Perf!NextPeriod
  <2> HIDE DEF wanted
  <2>2. Perf!BoundOverflowPeriod(wanted, chunk) \in Nat
    BY <1>1, <1>3, LoadFits DEF Perf!BoundOverflowPeriod
  <2> QED
    BY <2>1, <2>2, LoadFits DEF Perf!Lower, PerfBounds
<1> QED
  BY <1>2, <1>3

(* perf's reload of the counter.                                           *)
LEMMA ReloadFits ==
  ASSUME PerfBounds, PerfTypes, NEW p \in 0 .. MaxLoad, Perf!Reload(Elapsed, p)
  PROVE  /\ period_left' \in 0 .. MaxLoad
         /\ period_left' = IF period_left - Elapsed <= -p THEN p
                           ELSE IF period_left - Elapsed <= 0 THEN period_left - Elapsed + p
                           ELSE period_left - Elapsed
         /\ raw' = Modulus - Perf!Higher(1, period_left') /\ prev_count' = raw'
         /\ raw' \in 0 .. Modulus - 1 /\ Modulus - MaxLoad <= raw'
         /\ mode = "exchange" /\ ~aba' => raw' # old_raw_count
         /\ ~aba' => ~aba
<1>1. Elapsed \in Nat
  BY ElapsedIs
<1>2. /\ period_left' = IF period_left - Elapsed <= -p THEN p
                        ELSE IF period_left - Elapsed <= 0 THEN period_left - Elapsed + p
                        ELSE period_left - Elapsed
      /\ raw' = (Modulus - Perf!Higher(1, period_left')) % Modulus /\ prev_count' = raw'
      /\ aba' = (aba \/ (mode = "exchange" /\ raw' = old_raw_count))
  BY DEF Perf!Reload
<1>3. period_left' \in 0 .. MaxLoad
  BY <1>1, <1>2, LoadFits DEF PerfTypes
<1>4. Modulus - Perf!Higher(1, period_left') \in Modulus - MaxLoad .. Modulus - 1
  BY <1>3, LoadFits DEF Perf!Higher
<1>5. raw' = Modulus - Perf!Higher(1, period_left')
  BY <1>2, <1>4, ModSmall, LoadFits
<1>6. raw' \in 0 .. Modulus - 1 /\ Modulus - MaxLoad <= raw'
  BY <1>4, <1>5, LoadFits
<1>7. (~aba' => ~aba) /\ (mode = "exchange" /\ ~aba' => raw' # old_raw_count)
  BY <1>2, Zenon
<1> QED
  BY <1>2, <1>3, <1>5, <1>6, <1>7, Zenon

(* A step that reloads the counter keeps what is said about its place.     *)
LEMMA ReloadPlaces ==
  ASSUME PerfBounds, PerfTypes, NEW p \in 0 .. MaxLoad, Perf!Reload(Elapsed, p), late' = -1
  PROVE  Placed'
BY ReloadFits, LoadFits DEF Placed, PerfTypes

(* StopBegins.                                                             *)
LEMMA PerfStopBegins ==
  ASSUME PerfBounds, PerfInv, Perf!StopBegins PROVE PerfInv'
<1> USE DEF Perf!StopBegins, Perf!SingleStepping, Perf!Running, Perf!hw
<1>1. PerfTypes'
  BY DEF PerfInv, PerfTypes, Modes
<1>2. Placed' /\ Loaded' /\ Steps'
  BY DEF PerfInv, Placed, Loaded, Steps
<1>3. ASSUME ~aba' PROVE Counted'
  <2>1. Elapsed' = Elapsed /\ mode' = "read" /\ Counted /\ Steps /\ mode = "user"
    BY <1>3 DEF PerfInv, Elapsed
  <2>2. count_ticks \in Nat /\ (count_ticks > 1 => Fence)
    BY DEF PerfInv, PerfTypes
  <2>3. UNCHANGED <<ticks, count, counted>> /\ (was_on' <=> count_ticks' # 0)
    BY Zenon
  <2>4. CASE count_ticks > 1
    <3>1. count_ticks' = 0
      BY <2>2, <2>4
    <3>2. ticks = counted
      BY <2>1, <2>2, <2>4 DEF Counted
    <3> QED
      BY <2>1, <2>3, <3>1, <3>2 DEF Counted
  <2>5. CASE ~(count_ticks > 1)
    <3>1. count_ticks' = count_ticks
      BY <2>5
    <3>2. CASE count_ticks = 1
      BY <2>1, <2>3, <3>1, <3>2 DEF Counted
    <3>3. CASE count_ticks = 0
      BY <2>1, <2>3, <3>1, <3>3 DEF Counted
    <3> QED
      BY <2>2, <2>5, <3>2, <3>3
  <2> QED
    BY <2>4, <2>5
<1> QED
  BY <1>1, <1>2, <1>3 DEF PerfInv

(* ReadCounter.                                                            *)
LEMMA PerfReadCounter ==
  ASSUME PerfBounds, PerfInv, Perf!ReadCounter PROVE PerfInv'
<1> USE DEF Perf!ReadCounter, Perf!hw
<1>1. PerfTypes'
  BY DEF PerfInv, PerfTypes, Modes
<1>2. Elapsed' = Elapsed
  BY DEF Elapsed
<1> QED
  BY <1>1, <1>2 DEF PerfInv, Placed, Loaded, Steps, Counted

(* Exchange: nothing has touched prev_count, so nothing has touched the    *)
(* counter.                                                                *)
LEMMA PerfExchange ==
  ASSUME PerfBounds, PerfInv, Perf!Exchange PROVE PerfInv'
<1> USE DEF Perf!Exchange, Perf!loc
<1>1. PerfTypes'
  BY DEF PerfInv, PerfTypes, Modes
<1>2. CASE prev_count = old_raw_count
  <2>1. prev_count' = new_raw_count /\ mode' = "update" /\ raw' = raw
    BY <1>2 DEF Perf!PrevCountUnchanged
  <2>2. ASSUME ~aba' PROVE raw = new_raw_count /\ Counted
    BY <1>2, <2>2 DEF PerfInv, Counted
  <2>3. Placed'
    BY <2>1 DEF Placed, PerfInv
  <2>4. ASSUME ~aba' PROVE Counted'
    <3>1. Elapsed = (new_raw_count - old_raw_count) % Modulus
      BY <1>2, <2>2, <2>4 DEF Elapsed
    <3> QED
      BY <2>1, <2>2, <2>4, <3>1 DEF Counted
  <2> QED
    BY <1>1, <2>1, <2>3, <2>4 DEF PerfInv, Loaded, Steps
<1>3. CASE prev_count # old_raw_count
  <2>1. mode' = "read" /\ UNCHANGED <<prev_count, raw>>
    BY <1>3 DEF Perf!PrevCountUnchanged
  <2>2. Elapsed' = Elapsed
    BY <2>1 DEF Elapsed
  <2> QED
    BY <1>1, <2>1, <2>2 DEF PerfInv, Placed, Loaded, Steps, Counted
<1> QED
  BY <1>2, <1>3

(* UpdateClock.                                                            *)
LEMMA PerfUpdateClock ==
  ASSUME PerfBounds, PerfInv, Perf!UpdateClock PROVE PerfInv'
<1> USE DEF Perf!UpdateClock, Perf!hw
<1>0. (new_raw_count - old_raw_count) % Modulus \in Nat /\ Perf!Delta \in Nat
  BY ModDiff DEF Perf!Delta, PerfInv, PerfTypes, PerfBounds
<1>1. PerfTypes'
  <2>1. ticks' \in Nat /\ chunk_ticks' \in Nat /\ count' = 0 /\ count_ticks' = 0 /\ mode' = "out"
    BY <1>0 DEF PerfInv, PerfTypes
  <2>2. UNCHANGED <<raw, prev_count, late, period_left, new_raw_count, old_raw_count, period, counted>>
    BY DEF Perf!loc
  <2> QED
    BY <2>1, <2>2 DEF PerfInv, PerfTypes, Modes
<1>2. ASSUME ~aba' PROVE Counted'
  <2>1. Counted /\ mode = "update" /\ mode' = "out" /\ counted' = counted /\ count_ticks' = 0
    BY <1>2 DEF PerfInv, Perf!loc
  <2>2. ticks' = counted
    BY <1>0, <2>1 DEF Counted, Perf!Delta, PerfInv, PerfTypes
  <2> QED
    BY <2>1, <2>2 DEF Counted
<1>3. Placed'
  BY DEF PerfInv, Placed
<1> QED
  BY <1>1, <1>2, <1>3 DEF PerfInv, Loaded, Steps

(* Start.                                                                  *)
LEMMA PerfStart ==
  ASSUME PerfBounds, PerfInv, Perf!Start PROVE PerfInv'
<1> USE DEF Perf!Start
<1>1. PICK w \in Waiting \cup {Perf!NotWaiting} : period' = Perf!NextPeriod(0, ticks, 0, w, hit_bounded_fence)
  OBVIOUS
<1>2. period' \in 0 .. MaxLoad
  <2>1. ticks \in Nat /\ 0 \in Nat /\ 0 <= Perf!Imprecise
    BY LoadFits DEF PerfInv, PerfTypes
  <2>2. Perf!NextPeriod(0, ticks, 0, w, hit_bounded_fence) \in 0 .. MaxLoad
    BY <2>1, PeriodFits
  <2> QED
    BY <1>1, <2>2
<1>3. PerfTypes'
  BY <1>2, LoadFits DEF PerfInv, PerfTypes, Modes, Perf!loc
<1>4. Elapsed' = 0
  BY <1>3, ElapsedZero
<1>5. Placed'
  BY LoadFits DEF PerfInv, PerfTypes, Placed
<1>6. ASSUME ~aba' PROVE Counted'
  <2>1. Counted
    BY <1>6 DEF PerfInv
  <2>2. ticks = counted
    BY <2>1 DEF Counted
  <2> QED
    BY <1>4, <2>2 DEF Counted, PerfInv, PerfTypes
<1> QED
  BY <1>3, <1>5, <1>6 DEF PerfInv, Loaded, Steps

(* One instruction while the counter counts.                               *)
LEMMA PerfElapses ==
  ASSUME PerfBounds, PerfInv, Perf!Instruction PROVE Elapsed' = Elapsed + 1
<1> DEFINE next == (raw + 1) % Modulus
<1>1. /\ mode = "user" /\ late < Skid /\ raw' = next /\ prev_count' = prev_count
  BY DEF Perf!Instruction
<1>2. PerfTypes /\ Placed
  BY DEF PerfInv
<1>3. next = IF raw = Modulus - 1 THEN 0 ELSE raw + 1
  BY <1>2, ModNext, LoadFits DEF PerfTypes
<1> HIDE DEF next
<1>4. raw' \in 0 .. Modulus - 1 /\ prev_count' \in 0 .. Modulus - 1
  BY <1>1, <1>2, <1>3, LoadFits DEF PerfTypes
<1>5. Elapsed' = IF raw' >= prev_count' THEN raw' - prev_count' ELSE raw' - prev_count' + Modulus
  BY <1>4, ModDiff, LoadFits DEF Elapsed
<1> QED
  BY <1>1, <1>2, <1>3, <1>5, ElapsedIs, LoadFits DEF Placed, PerfTypes

(* One instruction: the counter counts it, or the step does.               *)
LEMMA PerfInstruction ==
  ASSUME PerfBounds, PerfInv, Perf!Instruction PROVE PerfInv'
<1> DEFINE next == (raw + 1) % Modulus
<1>1. /\ mode = "user" /\ late < Skid /\ raw' = next /\ counted' = counted + 1 /\ count_ticks # 0
      /\ late' = IF next = 0 THEN 0 ELSE IF late >= 0 THEN late + 1 ELSE late
      /\ UNCHANGED <<mode, prev_count, period_left, period, count, chunk_ticks, new_raw_count, old_raw_count,
                     was_on, aba, leftover>>
  BY DEF Perf!Instruction, Perf!Running, Perf!loc
<1>2. PerfTypes
  BY DEF PerfInv
<1>3. next = IF raw = Modulus - 1 THEN 0 ELSE raw + 1
  BY <1>2, ModNext, LoadFits DEF PerfTypes
<1> HIDE DEF next
<1>4. late' \in -1 .. Skid /\ raw' \in 0 .. Modulus - 1
  BY <1>1, <1>2, <1>3, LoadFits DEF PerfTypes
<1>5. CASE count_ticks = 1
  <2>1. UNCHANGED <<ticks, count_ticks>>
    BY <1>5 DEF Perf!Instruction, Perf!SingleStepping
  <2>2. PerfTypes'
    BY <1>1, <1>2, <1>4, <2>1 DEF PerfTypes
  <2>3. Placed'
    BY <1>1, <1>2, <1>3, LoadFits DEF PerfInv, Placed, PerfTypes
  <2>4. Elapsed' = Elapsed + 1
    BY PerfElapses
  <2>5. ASSUME ~aba' PROVE Counted'
    <3>1. Counted /\ Elapsed \in Nat
      BY <1>1, <1>2, <2>5, ElapsedIs DEF PerfInv
    <3>2. ticks + count + Elapsed = counted
      BY <1>1, <1>5, <3>1 DEF Counted
    <3> QED
      BY <1>1, <1>2, <1>5, <2>1, <2>4, <2>5, <3>1, <3>2 DEF Counted, PerfTypes
  <2>6. Loaded' /\ Steps'
    BY <1>1, <1>5, <2>1 DEF PerfInv, Loaded, Steps
  <2> QED
    BY <2>2, <2>3, <2>5, <2>6 DEF PerfInv
<1>6. CASE count_ticks > 1
  <2>0. Fence
    BY <1>2, <1>6 DEF PerfTypes
  <2>1. Steps /\ Placed
    BY DEF PerfInv
  <2>t. tf
    BY <1>1, <1>6, <2>1 DEF Steps
  <2>2. late = -1 /\ count_ticks >= 3 /\ raw + count_ticks - 2 < Modulus
        /\ period_left > 0 /\ prev_count = Modulus - period_left
    BY <1>1, <1>6, <2>1 DEF Steps
  <2>3. ticks' = ticks + 1 /\ count_ticks' = (IF count_ticks - 1 <= 2 THEN 0 ELSE count_ticks - 1)
    BY <1>6, <2>0, <2>2, <2>t DEF Perf!Instruction, Perf!SingleStepping, Perf!SingleSteppingDone
  <2>4. count_ticks' # 0 => tf'
    BY <1>6, <2>0, <2>2, <2>t DEF Perf!Instruction, Perf!SingleStepping, Perf!SingleSteppingDone
  <2>5. next = raw + 1 /\ raw' = raw + 1 /\ late' = -1
    <3>1. raw # Modulus - 1 /\ raw + 1 # 0
      BY <1>2, <2>2, LoadFits DEF PerfTypes
    <3> QED
      BY <1>1, <1>3, <2>2, <3>1
  <2>6. PerfTypes'
    BY <1>1, <1>2, <1>4, <2>0, <2>3 DEF PerfTypes
  <2>7. Placed'
    BY <1>1, <1>2, <2>1, <2>2, <2>5, LoadFits DEF Placed, PerfTypes
  <2>8. Steps'
    BY <1>1, <1>2, <2>2, <2>3, <2>4, <2>5 DEF Steps, PerfTypes
  <2>9. Loaded'
    BY <1>1, <1>2, <2>2, <2>3 DEF Loaded, PerfTypes
  <2>10. ASSUME ~aba' PROVE Counted'
    <3>1. ticks = counted
      BY <1>1, <1>6, <2>10 DEF PerfInv, Counted
    <3> QED
      BY <1>1, <1>2, <2>2, <2>3, <3>1 DEF Counted, PerfTypes
  <2> QED
    BY <2>6, <2>7, <2>8, <2>9, <2>10 DEF PerfInv
<1> QED
  BY <1>1, <1>2, <1>5, <1>6 DEF PerfTypes

(* The overflow's interrupt: what the counter and perf have goes to the    *)
(* clock.  A chunk that has reached its imprecise bound takes its last     *)
(* steps, for which the period that is loaded has room.                    *)
LEMMA PerfNmi ==
  ASSUME PerfBounds, PerfInv, Perf!Nmi PROVE PerfInv'
<1> DEFINE total == count + Elapsed
           chunk == IF count_ticks # 0 THEN chunk_ticks + total ELSE chunk_ticks
           fence == Perf!BeginsFence(chunk, count_ticks # 0)
           steps == Perf!Remaining(chunk)
<1>t. PerfTypes
  BY DEF PerfInv
<1>e. Elapsed \in Nat /\ total \in Nat /\ chunk \in Nat
  BY <1>t, ElapsedIs DEF PerfTypes
<1>1. PICK w \in Waiting \cup {Perf!NotWaiting} :
        /\ period' = IF count_ticks # 0
                     THEN Perf!NextPeriod(period, ticks + total, chunk, w,
                                          fence \/ Perf!SingleStepping \/ hit_bounded_fence)
                     ELSE period
        /\ Perf!Reload(Elapsed, period')
  BY DEF Perf!Nmi, Elapsed, Perf!Running
<1>2. late >= 0 /\ late' = -1 /\ UNCHANGED <<mode, new_raw_count, old_raw_count, was_on, counted>>
  BY DEF Perf!Nmi, Perf!loc
<1>3. CASE count_ticks # 0
  <2>1. /\ ticks' = ticks + total /\ chunk_ticks' = chunk /\ count' = 0
        /\ count_ticks' = IF ~fence THEN count_ticks ELSE IF steps = 0 THEN 0 ELSE steps + 2
    BY <1>3 DEF Perf!Nmi, Perf!Running, Elapsed
  <2>2. fence /\ steps > 0 => tf'
    <3>1. tf' = (tf \/ (fence /\ steps > 0))
      BY <1>3 DEF Perf!Nmi, Perf!Running, Elapsed
    <3> QED
      BY <3>1, Zenon
  <2>3. fence <=> Fence /\ chunk > Perf!Imprecise
    BY <1>3 DEF Perf!BeginsFence
  <2>4. steps = IF chunk > Chunk THEN 0 ELSE Chunk - chunk
    BY DEF Perf!Remaining
  <2> HIDE DEF fence, steps
  <2>5. period' \in 0 .. MaxLoad
    <3>1. fence \/ Perf!SingleStepping \/ hit_bounded_fence \/ ~Fence \/ chunk <= Perf!Imprecise
      BY <1>e, <2>3, LoadFits
    <3>2. period \in Nat /\ ticks + total \in Nat
      BY <1>t, <1>e, LoadFits DEF PerfTypes
    <3> HIDE DEF chunk, total
    <3> QED
      BY <1>1, <1>3, <1>e, <3>1, <3>2, PeriodFits
  <2>6. /\ raw' = Modulus - Perf!Higher(1, period_left') /\ prev_count' = raw' /\ raw' \in 0 .. Modulus - 1
        /\ period_left' \in 0 .. MaxLoad
        /\ period_left' = IF period_left - Elapsed <= -period' THEN period'
                          ELSE IF period_left - Elapsed <= 0 THEN period_left - Elapsed + period'
                          ELSE period_left - Elapsed
    BY <1>1, <1>t, <2>5, ReloadFits
  <2>7. (~aba' => ~aba) /\ (mode = "exchange" /\ ~aba' => raw' # old_raw_count)
    BY <1>1, <1>t, <2>5, ReloadFits
  <2>8. PerfTypes'
    <3>1. ticks' \in Nat /\ chunk_ticks' \in Nat /\ count' \in Nat
      BY <1>e, <1>t, <2>1 DEF PerfTypes
    <3>2. count_ticks' \in Nat
      BY <1>e, <1>t, <2>1, <2>4, LoadFits DEF PerfTypes
    <3>3. count_ticks' > 1 => Fence
      BY <1>t, <2>1, <2>3 DEF PerfTypes
    <3> QED
      BY <1>2, <1>t, <2>5, <2>6, <3>1, <3>2, <3>3, LoadFits DEF PerfTypes
  <2>9. Elapsed' = 0
    BY <2>6, <2>8, ElapsedZero
  <2>10. Placed'
    BY <1>1, <1>2, <1>t, <2>5, ReloadPlaces
  <2>11. ASSUME ~aba' PROVE Counted'
    <3>1. Counted
      BY <2>7, <2>11 DEF PerfInv
    <3>2. mode = "user" => count_ticks = 1
      <4>1. Steps
        BY DEF PerfInv
      <4> QED
        BY <1>2, <1>3, <1>t, <4>1 DEF Steps, PerfTypes
    <3>3. mode \in {"user", "read", "exchange"} => ticks' = counted
      BY <1>3, <1>e, <1>t, <2>1, <3>1, <3>2 DEF Counted, PerfTypes
    <3>4. mode \in {"read", "exchange", "update"} => was_on
      BY <1>3, <3>1 DEF Counted
    <3>5. mode = "update" => Elapsed = 0
      <4>1. ASSUME prev_count = raw PROVE Elapsed = 0
        BY <1>t, <4>1, ElapsedIs DEF PerfTypes
      <4> QED
        BY <3>1, <4>1 DEF Counted
    <3>6. mode = "update" => ticks' + ((new_raw_count - old_raw_count) % Modulus) = counted
      <4>1. (new_raw_count - old_raw_count) % Modulus \in Nat
        BY <1>t, ModDiff, LoadFits DEF PerfTypes
      <4> QED
        BY <1>t, <2>1, <3>1, <3>4, <3>5, <4>1 DEF Counted, PerfTypes
    <3>7. mode # "out"
      BY <1>3, <3>1 DEF Counted
    <3>8. ticks' \in Nat /\ (new_raw_count - old_raw_count) % Modulus \in Nat /\ counted \in Nat
      BY <1>t, <2>8, ModDiff, LoadFits DEF PerfTypes
    <3> QED
      BY <1>2, <2>1, <2>6, <2>7, <2>9, <2>11, <3>3, <3>4, <3>6, <3>7, <3>8 DEF Counted
  <2>12. Loaded'
    <3>1. leftover' # "yes"
      BY DEF Perf!Nmi
    <3> QED
      BY <2>6, <3>1 DEF Loaded
  <2>13. Steps'
    <3> SUFFICES ASSUME mode = "user", count_ticks' > 1 PROVE Steps'
      BY <1>2 DEF Steps
    <3>1. Steps /\ Loaded /\ Placed
      BY DEF PerfInv
    <3>2. count_ticks = 1
      BY <1>2, <1>3, <1>t, <3>1 DEF Steps, PerfTypes
    <3>3. fence /\ steps > 0 /\ count_ticks' = steps + 2
      BY <1>e, <2>1, <2>4, <3>2, LoadFits
    <3>4. chunk > Perf!Imprecise /\ steps < Buffer
      BY <1>e, <2>3, <2>4, <3>3, LoadFits
    <3>5. period' = Perf!Imprecise
      BY <1>1, <1>3, <3>3 DEF Perf!NextPeriod
    <3>6. period_left' >= Perf!Imprecise - Skid - 1
      <4>1. CASE leftover = "yes"
        <5>1. period_left = 0 /\ chunk = Elapsed
          BY <1>3, <1>e, <3>1, <3>2, <4>1 DEF Loaded
        <5> QED
          BY <1>e, <2>6, <3>4, <3>5, <5>1, LoadFits
      <4>2. CASE leftover # "yes"
        <5>1. prev_count = Modulus - Perf!Higher(1, period_left)
          BY <3>1, <3>2, <4>2 DEF Loaded
        <5>2. raw = late
          BY <1>2, <3>1 DEF Placed
        <5>3. Elapsed = late + Perf!Higher(1, period_left)
          BY <1>2, <1>t, <5>1, <5>2, ElapsedIs, LoadFits DEF PerfTypes, Perf!Higher
        <5>4. period_left - Elapsed >= -Skid - 1 /\ period_left - Elapsed <= 0
          BY <1>2, <1>t, <5>3, LoadFits DEF PerfTypes, Perf!Higher
        <5> QED
          BY <1>e, <1>t, <2>6, <3>5, <5>4, LoadFits DEF PerfTypes
      <4> QED
        BY <4>1, <4>2
    <3>7. period_left' > 0 /\ prev_count' = Modulus - period_left' /\ raw' + count_ticks' - 2 < Modulus /\ count_ticks' >= 3
      BY <1>e, <2>4, <2>6, <3>3, <3>4, <3>6, LoadFits DEF Perf!Higher
    <3> QED
      BY <1>2, <2>2, <3>3, <3>7 DEF Steps
  <2> QED
    BY <2>8, <2>10, <2>11, <2>12, <2>13 DEF PerfInv
<1>4. CASE count_ticks = 0
  <2>1. count' = total /\ UNCHANGED <<ticks, chunk_ticks, count_ticks, period>>
    BY <1>1, <1>4 DEF Perf!Nmi, Perf!Running, Elapsed
  <2>5. period' \in 0 .. MaxLoad
    BY <1>t, <2>1 DEF PerfTypes
  <2>6. /\ prev_count' = raw' /\ raw' \in 0 .. Modulus - 1 /\ period_left' \in 0 .. MaxLoad
        /\ (~aba' => ~aba)
        /\ (mode = "exchange" /\ ~aba' => raw' # old_raw_count)
    BY <1>1, <1>t, <2>5, ReloadFits
  <2>8. PerfTypes'
    BY <1>2, <1>e, <1>t, <2>1, <2>5, <2>6, LoadFits DEF PerfTypes
  <2>9. Elapsed' = 0
    BY <2>6, <2>8, ElapsedZero
  <2>10. Placed'
    BY <1>1, <1>2, <1>t, <2>5, ReloadPlaces
  <2>11. ASSUME ~aba' PROVE Counted'
    <3>1. Counted
      BY <2>6, <2>11 DEF PerfInv
    <3>2. mode = "update" => Elapsed = 0
      <4>1. ASSUME prev_count = raw PROVE Elapsed = 0
        BY <1>t, <4>1, ElapsedIs DEF PerfTypes
      <4> QED
        BY <3>1, <4>1 DEF Counted
    <3>3. count' + Elapsed' = count + Elapsed /\ (mode = "update" => count' = count)
      BY <1>e, <1>t, <2>1, <2>9, <3>2 DEF PerfTypes
    <3>4. ticks + count' + Elapsed' = ticks + count + Elapsed
      BY <1>e, <1>t, <2>1, <2>9 DEF PerfTypes
    <3> HIDE DEF total
    <3> QED
      BY <1>2, <1>4, <2>1, <2>6, <2>11, <3>1, <3>3, <3>4 DEF Counted
  <2> QED
    BY <1>4, <2>1, <2>8, <2>10, <2>11 DEF PerfInv, Loaded, Steps
<1> QED
  BY <1>3, <1>4

(* A context switch: perf keeps what the counter has; while the thread is  *)
(* stepped, what is left of the period is loaded again.                    *)
LEMMA PerfContextSwitch ==
  ASSUME PerfBounds, PerfInv, Perf!ContextSwitch PROVE PerfInv'
<1>t. PerfTypes
  BY DEF PerfInv
<1>e. Elapsed \in Nat
  BY <1>t, ElapsedIs
<1>1. /\ late = -1 /\ Elapsed > 0 /\ count' = count + Elapsed /\ Perf!Reload(Elapsed, period)
      /\ UNCHANGED <<mode, late, period, ticks, chunk_ticks, count_ticks, new_raw_count, old_raw_count, counted>>
  BY DEF Perf!ContextSwitch, Elapsed, Perf!loc
<1>b. UNCHANGED <<was_on, tf>>
  BY DEF Perf!ContextSwitch, Perf!loc
<1>2. period \in 0 .. MaxLoad
  BY <1>t DEF PerfTypes
<1>3. /\ raw' = Modulus - Perf!Higher(1, period_left') /\ prev_count' = raw' /\ raw' \in 0 .. Modulus - 1
      /\ period_left' \in 0 .. MaxLoad
      /\ period_left' = IF period_left - Elapsed <= -period THEN period
                        ELSE IF period_left - Elapsed <= 0 THEN period_left - Elapsed + period
                        ELSE period_left - Elapsed
  BY <1>1, <1>t, <1>2, ReloadFits
<1>4. (~aba' => ~aba) /\ (mode = "exchange" /\ ~aba' => raw' # old_raw_count)
  BY <1>1, <1>t, <1>2, ReloadFits
<1>5. PerfTypes'
  BY <1>1, <1>e, <1>t, <1>3, LoadFits DEF PerfTypes
<1>6. Elapsed' = 0
  BY <1>3, <1>5, ElapsedZero
<1>7. Placed'
  BY <1>1, <1>t, <1>2, ReloadPlaces
<1>8. ASSUME ~aba' PROVE Counted'
  <2>1. Counted
    BY <1>4, <1>8 DEF PerfInv
  <2>2. mode # "update"
    <3>1. ASSUME prev_count = raw PROVE Elapsed = 0
      BY <1>t, <3>1, ElapsedIs DEF PerfTypes
    <3> QED
      BY <1>1, <2>1, <3>1 DEF Counted
  <2>3. ticks + count' + Elapsed' = ticks + count + Elapsed
    BY <1>1, <1>e, <1>t, <1>6 DEF PerfTypes
  <2> QED
    BY <1>1, <1>3, <1>4, <1>8, <1>b, <2>1, <2>2, <2>3 DEF Counted
<1>9. Loaded'
  <2>1. leftover' # "yes"
    BY DEF Perf!ContextSwitch
  <2> QED
    BY <1>3, <2>1 DEF Loaded
<1>10. Steps'
  <2> SUFFICES ASSUME mode = "user", count_ticks > 1 PROVE Steps'
    BY <1>1 DEF Steps
  <2>1. Steps /\ Placed
    BY DEF PerfInv
  <2>2. count_ticks >= 3 /\ period_left > 0 /\ prev_count = Modulus - period_left /\ raw + count_ticks - 2 < Modulus
        /\ prev_count <= raw
    BY <1>1, <2>1 DEF Steps, Placed
  <2>3. Elapsed = raw - prev_count
    BY <1>t, <2>2, ElapsedIs DEF PerfTypes
  <2>4. period_left' = Modulus - raw /\ period_left' > 0
    BY <1>3, <1>t, <2>2, <2>3, LoadFits DEF PerfTypes
  <2>5. raw' = raw /\ prev_count' = Modulus - period_left'
    BY <1>3, <1>t, <2>4, LoadFits DEF Perf!Higher, PerfTypes
  <2>6. tf
    BY <2>1 DEF Steps
  <2> QED
    BY <1>1, <1>b, <2>2, <2>4, <2>5, <2>6 DEF Steps
<1> QED
  BY <1>5, <1>7, <1>8, <1>9, <1>10 DEF PerfInv

(* The counter starts with a period loaded and nothing counted.            *)
LEMMA PerfInvInit ==
  ASSUME PerfBounds, Perf!Init PROVE PerfInv
<1>1. period \in 1 .. MaxLoad /\ period_left = period
  BY LoadFits DEF Perf!Init, Perf!Lower, PerfBounds
<1>2. PerfTypes
  BY <1>1, LoadFits DEF Perf!Init, PerfTypes, Modes
<1>3. Elapsed = 0
  BY <1>2, ElapsedIs, LoadFits DEF Perf!Init, PerfTypes
<1>4. Placed /\ Loaded /\ Steps
  BY <1>1, LoadFits DEF Perf!Init, Placed, Loaded, Steps, Perf!Higher
<1>5. Counted
  BY <1>3 DEF Perf!Init, Counted
<1> QED
  BY <1>2, <1>4, <1>5 DEF PerfInv

(* Every step keeps the invariant.                                         *)
LEMMA PerfInvStep ==
  ASSUME PerfBounds, PerfInv, [Perf!Next]_Perf!vars PROVE PerfInv'
<1>1. CASE UNCHANGED Perf!vars
  BY <1>1 DEF Perf!vars, Perf!hw, Perf!loc, PerfInv, PerfTypes, Placed, Loaded, Steps, Counted, Elapsed
<1>2. CASE Perf!Finished
  BY <1>1, <1>2 DEF Perf!Finished
<1> QED
  BY <1>1, <1>2, PerfInstruction, PerfNmi, PerfContextSwitch, PerfStopBegins, PerfReadCounter, PerfExchange,
     PerfUpdateClock, PerfStart DEF Perf!Next

(* For a counter of any width, any period, skid and bound of a chunk that  *)
(* are in the proportion of the code's: once a thread is out of its chunk, *)
(* every instruction it executed was counted once, however overflows, late *)
(* interrupts, context switches, single steps and the read of the counter  *)
(* are interleaved, unless a reload gave prev_count the value it had.      *)
THEOREM InstructionsCounted ==
  ASSUME PerfBounds PROVE Perf!Spec => []EveryInstructionCounted
<1>1. Perf!Init => PerfInv
  BY PerfInvInit
<1>2. PerfInv /\ [Perf!Next]_Perf!vars => PerfInv'
  BY PerfInvStep
<1>3. PerfInv => Perf!EveryInstructionCounted
  BY DEF PerfInv, Counted, Perf!EveryInstructionCounted
<1> QED
  BY <1>1, <1>2, <1>3, PTL DEF EveryInstructionCounted, Perf!Spec

-----------------------------------------------------------------------------
(* The end of a bounded chunk.  No period is longer than a chunk, and an   *)
(* interrupt is less late than IMPRECISE_OVERFLOW_BUFFER, which is what    *)
(* that buffer is for.                                                     *)
FenceBounds == PerfBounds /\ MaxPeriod <= Perf!Imprecise /\ Skid < Buffer

(* The instructions of the chunk: in chunk_ticks, in perf's count and in   *)
(* the counter, or the steps that are left to its bound.  The overflow     *)
(* comes before that, unless a context switch moved it.                    *)
ChunkInv ==
  /\ start \in Nat /\ start <= counted /\ leftover \in {"yes", "no", "switched"}
  /\ Fence /\ mode = "user" /\ count_ticks = 1 =>
       /\ chunk_ticks + count + Elapsed = counted - start
       /\ leftover = "no" => chunk_ticks + count + Perf!Higher(1, period_left) <= Perf!Imprecise + 1
  /\ mode = "user" /\ count_ticks > 1 => counted - start + count_ticks - 2 = Chunk

(* A thread that has hit the bound no longer counts.                       *)
HitStops == mode = "user" /\ hit_bounded_fence => count_ticks = 0

(* A step in user mode that ends a chunk at its bound.                     *)
EndsChunk == ~hit_bounded_fence /\ hit_bounded_fence' /\ mode = "user" /\ mode' = "user" /\ leftover # "switched"

(* One instruction, in the counter or one of the last steps.               *)
LEMMA ChunkInstruction ==
  ASSUME FenceBounds, PerfInv, ChunkInv, HitStops, Perf!Instruction
  PROVE  ChunkInv' /\ HitStops' /\ (EndsChunk => counted' - start = Chunk)
<1>b. PerfBounds /\ PerfTypes
  BY DEF FenceBounds, PerfInv
<1>1. /\ mode = "user" /\ mode' = mode /\ counted' = counted + 1 /\ count_ticks # 0
      /\ UNCHANGED <<prev_count, period_left, count, chunk_ticks, leftover, start>>
  BY DEF Perf!Instruction, Perf!Running
<1>2. CASE count_ticks = 1
  <2>1. UNCHANGED <<count_ticks, hit_bounded_fence>>
    BY <1>2 DEF Perf!Instruction, Perf!SingleStepping
  <2>2. Elapsed' = Elapsed + 1 /\ Elapsed \in Nat
    BY <1>b, <1>2, PerfElapses, ElapsedIs
  <2>3. ChunkInv'
    BY <1>1, <1>2, <1>b, <2>1, <2>2 DEF ChunkInv, PerfTypes
  <2>4. ~EndsChunk /\ HitStops'
    BY <1>1, <2>1 DEF EndsChunk, HitStops
  <2> QED
    BY <2>3, <2>4
<1>3. CASE count_ticks > 1
  <2>1. tf /\ Fence
    BY <1>1, <1>3, <1>b DEF PerfInv, Steps, PerfTypes
  <2>2. count_ticks >= 3
    BY <1>1, <1>3 DEF PerfInv, Steps
  <2>3. count_ticks' = IF count_ticks - 1 <= 2 THEN 0 ELSE count_ticks - 1
    BY <1>3, <2>1 DEF Perf!Instruction, Perf!SingleStepping, Perf!SingleSteppingDone
  <2>4. hit_bounded_fence' => hit_bounded_fence \/ count_ticks - 1 <= 2
    <3>1. hit_bounded_fence' = (hit_bounded_fence \/ Perf!SingleSteppingDone(count_ticks - 1))
      BY <1>3, <2>1 DEF Perf!Instruction, Perf!SingleStepping
    <3> QED
      BY <3>1, Zenon DEF Perf!SingleSteppingDone
  <2>5. counted - start + count_ticks - 2 = Chunk
    BY <1>1, <1>3 DEF ChunkInv
  <2>6. ChunkInv'
    BY <1>1, <1>b, <2>2, <2>3, <2>5 DEF ChunkInv, PerfTypes, PerfBounds
  <2>7. EndsChunk => counted' - start = Chunk
    <3> SUFFICES ASSUME EndsChunk PROVE counted' - start = Chunk
      OBVIOUS
    <3>1. count_ticks - 1 <= 2
      BY <2>4 DEF EndsChunk
    <3> QED
      BY <1>1, <1>b, <2>2, <2>5, <3>1 DEF PerfTypes, ChunkInv, PerfBounds
  <2>8. HitStops'
    BY <1>1, <1>3, <1>b, <2>3, <2>4 DEF HitStops, PerfTypes
  <2> QED
    BY <2>6, <2>7, <2>8
<1> QED
  BY <1>1, <1>2, <1>3, <1>b DEF PerfTypes

(* The overflow's interrupt comes before the bound, or at it.              *)
LEMMA ChunkNmi ==
  ASSUME FenceBounds, PerfInv, ChunkInv, HitStops, Perf!Nmi
  PROVE  ChunkInv' /\ HitStops' /\ (EndsChunk => counted' - start = Chunk)
<1> DEFINE chunk == chunk_ticks + (count + Elapsed)
           steps == Perf!Remaining(chunk)
           fence == Perf!BeginsFence(chunk, TRUE)
<1>b. PerfBounds /\ PerfTypes
  BY DEF FenceBounds, PerfInv
<1>e. Elapsed \in Nat /\ chunk \in Nat /\ Elapsed = (raw - prev_count) % Modulus
  BY <1>b, ElapsedIs DEF PerfTypes, Elapsed
<1>1. late >= 0 /\ UNCHANGED <<mode, counted, start>> /\ leftover' = IF leftover = "yes" THEN "no" ELSE leftover
  BY DEF Perf!Nmi
<1>s. start \in Nat /\ start <= counted /\ counted \in Nat /\ leftover \in {"yes", "no", "switched"}
  BY <1>b DEF ChunkInv, PerfTypes
<1>2. CASE mode # "user" \/ count_ticks = 0
  <2>1. count_ticks = 0 => UNCHANGED <<count_ticks, hit_bounded_fence>>
    BY DEF Perf!Nmi, Perf!Running
  <2>2. ~EndsChunk /\ HitStops'
    BY <1>1, <1>2, <2>1 DEF EndsChunk, HitStops
  <2>3. ChunkInv'
    BY <1>1, <1>2, <1>s, <2>1 DEF ChunkInv
  <2> QED
    BY <2>2, <2>3
<1>3. CASE mode = "user" /\ count_ticks # 0
  <2>1. count_ticks = 1 /\ ~hit_bounded_fence
    BY <1>1, <1>3, <1>b DEF PerfInv, Steps, PerfTypes, HitStops
  <2>2. hit_bounded_fence' = (hit_bounded_fence \/ (fence /\ steps = 0))
    <3>1. hit_bounded_fence' = (hit_bounded_fence \/
            (Perf!BeginsFence((IF count_ticks # 0 THEN chunk_ticks + (count + Elapsed) ELSE chunk_ticks), count_ticks # 0)
              /\ Perf!Remaining(IF count_ticks # 0 THEN chunk_ticks + (count + Elapsed) ELSE chunk_ticks) = 0))
      BY <1>3 DEF Perf!Nmi, Perf!Running, Elapsed
    <3>2. (IF count_ticks # 0 THEN chunk_ticks + (count + Elapsed) ELSE chunk_ticks) = chunk /\ (count_ticks # 0) = TRUE
      BY <1>3
    <3> HIDE DEF chunk
    <3> QED
      BY <3>1, <3>2
  <2>3. /\ chunk_ticks' = chunk /\ count' = 0
        /\ count_ticks' = IF ~fence THEN 1 ELSE IF steps = 0 THEN 0 ELSE steps + 2
    BY <2>1 DEF Perf!Nmi, Perf!Running, Perf!BeginsFence, Elapsed
  <2>4. hit_bounded_fence' => fence /\ steps = 0
    BY <2>1, <2>2, Zenon
  <2>5. HitStops'
    BY <2>3, <2>4 DEF HitStops
  <2>6. CASE ~Fence
    <3>1. ~fence
      BY <2>6 DEF Perf!BeginsFence
    <3>2. ~EndsChunk
      BY <2>4, <3>1 DEF EndsChunk
    <3>3. ChunkInv'
      BY <1>1, <1>s, <2>3, <2>6, <3>1 DEF ChunkInv
    <3> QED
      BY <2>5, <3>2, <3>3
  <2>7. CASE Fence
    <3>2. fence <=> chunk > Perf!Imprecise
      BY <2>7 DEF Perf!BeginsFence
    <3>3. steps = IF chunk > Chunk THEN 0 ELSE Chunk - chunk
      BY DEF Perf!Remaining
    <3>4. chunk = counted - start
      BY <1>3, <1>b, <1>e, <2>1, <2>7 DEF ChunkInv, PerfTypes
    <3>6. raw = late /\ late \in 0 .. Skid
      BY <1>1, <1>b DEF PerfInv, Placed, PerfTypes
    <3>7. leftover = "yes" => chunk = Elapsed /\ period_left = 0
      BY <1>3, <1>e, <2>1 DEF PerfInv, Loaded
    <3>8. leftover # "yes" => Elapsed = late + Perf!Higher(1, period_left)
      <4> SUFFICES ASSUME leftover # "yes" PROVE Elapsed = late + Perf!Higher(1, period_left)
        OBVIOUS
      <4>1. prev_count = Modulus - Perf!Higher(1, period_left)
        BY <1>3, <2>1 DEF PerfInv, Loaded
      <4> QED
        BY <1>b, <3>6, <4>1, ElapsedIs, LoadFits DEF PerfTypes, Perf!Higher
    <3>9. leftover # "switched" => chunk <= Chunk
      <4>1. CASE leftover = "yes"
        <5>1. Modulus - MaxLoad <= prev_count \/ prev_count <= raw
          BY <1>1, <1>3, <1>b DEF PerfInv, Placed, PerfTypes
        <5>2. MaxLoad = Perf!Imprecise
          BY <1>b, LoadFits DEF MaxLoad, FenceBounds, PerfBounds
        <5> QED
          BY <1>b, <3>6, <3>7, <4>1, <5>1, <5>2, ElapsedIs, LoadFits DEF PerfTypes, FenceBounds
      <4>2. CASE leftover = "no"
        <5>1. chunk_ticks + count + Perf!Higher(1, period_left) <= Perf!Imprecise + 1
          BY <1>3, <2>1, <2>7, <4>2 DEF ChunkInv
        <5>2. Elapsed = late + Perf!Higher(1, period_left)
          BY <3>8, <4>2
        <5> QED
          BY <1>b, <1>e, <3>6, <5>1, <5>2, LoadFits DEF PerfTypes, FenceBounds, Perf!Higher
      <4> QED
        BY <1>s, <4>1, <4>2
    <3> HIDE DEF chunk, steps, fence
    <3>10. ASSUME EndsChunk PROVE counted' - start = Chunk
      <4>1. fence /\ steps = 0 /\ leftover # "switched"
        BY <2>4, <3>10 DEF EndsChunk
      <4> QED
        BY <1>b, <1>1, <1>e, <1>s, <3>3, <3>4, <3>9, <4>1, LoadFits
    <3>11. CASE ~fence
      <4>1. PICK w \in Waiting \cup {Perf!NotWaiting} :
              /\ period' = Perf!NextPeriod(period, ticks + (count + Elapsed), chunk, w, FALSE)
              /\ Perf!Reload(Elapsed, period')
        <5>1. PICK w \in Waiting \cup {Perf!NotWaiting} :
                /\ period' = Perf!NextPeriod(period, ticks + (count + Elapsed), chunk_ticks + (count + Elapsed), w,
                               Perf!BeginsFence(chunk_ticks + (count + Elapsed), count_ticks # 0)
                                 \/ Perf!SingleStepping \/ hit_bounded_fence)
                /\ Perf!Reload(Elapsed, period')
          BY <1>3 DEF Perf!Nmi, Elapsed, Perf!Running
        <5>2. (Perf!BeginsFence(chunk_ticks + (count + Elapsed), count_ticks # 0)
                                 \/ Perf!SingleStepping \/ hit_bounded_fence) = FALSE
          <6>1. ~Perf!SingleStepping
            BY <2>1 DEF Perf!SingleStepping
          <6>2. ~Perf!BeginsFence(chunk_ticks + (count + Elapsed), count_ticks # 0)
            BY <3>11 DEF Perf!BeginsFence, fence, chunk
          <6> QED
            BY <2>1, <6>1, <6>2
        <5>3. chunk_ticks + (count + Elapsed) = chunk
          BY DEF chunk
        <5> QED
          BY <5>1, <5>2, <5>3
      <4>2. chunk <= Perf!Imprecise
        BY <1>b, <1>e, <3>2, <3>11, LoadFits
      <4>3. period' \in 0 .. MaxLoad
        <5>1. period \in Nat /\ ticks + (count + Elapsed) \in Nat
          BY <1>b, <1>e, LoadFits DEF PerfTypes
        <5> QED
          BY <1>b, <1>e, <4>1, <4>2, <5>1, PeriodFits
      <4>4. period' <= Perf!Imprecise - chunk
        <5> DEFINE now  == ticks + (count + Elapsed)
                   wanted == IF w # Perf!NotWaiting /\ w > now
                             THEN Perf!Higher(w - now + Slack, MinPeriod) ELSE period + Grow
        <5>1. wanted \in Nat
          BY <1>b, <1>e DEF PerfBounds, PerfTypes, Perf!Higher, Perf!NotWaiting
        <5>2. period' = Perf!Lower(Perf!BoundOverflowPeriod(wanted, chunk), MaxPeriod)
          BY <4>1 DEF Perf!NextPeriod
        <5> HIDE DEF wanted
        <5> QED
          BY <1>b, <1>e, <2>7, <4>2, <5>1, <5>2, LoadFits DEF Perf!Lower, Perf!BoundOverflowPeriod, PerfBounds
      <4>5. /\ prev_count' = raw' /\ raw' \in 0 .. Modulus - 1 /\ period_left' \in 0 .. MaxLoad
            /\ period_left' = IF period_left - Elapsed <= -period' THEN period'
                              ELSE IF period_left - Elapsed <= 0 THEN period_left - Elapsed + period'
                              ELSE period_left - Elapsed
        BY <1>b, <4>1, <4>3, ReloadFits
      <4>6. Elapsed' = 0
        BY <1>b, <4>5, ModZero, LoadFits DEF Elapsed
      <4>7. period_left' <= period'
        <5>1. period_left - Elapsed <= 0
          BY <1>b, <1>e, <3>6, <3>7, <3>8 DEF PerfTypes, Perf!Higher
        <5> QED
          BY <1>b, <1>e, <4>3, <4>5, <5>1 DEF PerfTypes
      <4>8. count_ticks' = 1
        BY <2>3, <3>11
      <4>9. chunk_ticks' + count' + Perf!Higher(1, period_left') <= Perf!Imprecise + 1
        BY <1>b, <1>e, <2>3, <4>2, <4>3, <4>4, <4>5, <4>7, LoadFits DEF Perf!Higher
      <4>10. chunk_ticks' + count' + Elapsed' = counted' - start'
        BY <1>1, <1>e, <1>s, <2>3, <3>4, <4>6
      <4> QED
        BY <1>1, <1>s, <2>5, <3>10, <4>8, <4>9, <4>10 DEF ChunkInv
    <3>12. CASE fence
      <4>1. ChunkInv'
        <5>1. count_ticks' = 0 \/ (count_ticks' = steps + 2 /\ steps # 0)
          BY <2>3, <3>12
        <5>2. steps # 0 => counted - start + steps = Chunk
          BY <1>b, <1>e, <1>s, <3>3, <3>4, LoadFits
        <5>3. steps \in Nat
          BY <1>b, <1>e, <3>3, LoadFits
        <5> QED
          BY <1>1, <1>s, <5>1, <5>2, <5>3, LoadFits DEF ChunkInv
      <4> QED
        BY <2>5, <3>10, <4>1
    <3> QED
      BY <3>11, <3>12
  <2> QED
    BY <2>6, <2>7
<1> QED
  BY <1>2, <1>3

(* A context switch moves what the counter has to perf's count.            *)
LEMMA ChunkContextSwitch ==
  ASSUME FenceBounds, PerfInv, ChunkInv, HitStops, Perf!ContextSwitch
  PROVE  ChunkInv' /\ HitStops' /\ ~EndsChunk
<1>b. PerfBounds /\ PerfTypes
  BY DEF FenceBounds, PerfInv
<1>e. Elapsed \in Nat
  BY <1>b, ElapsedIs
<1>1. /\ late = -1 /\ Elapsed > 0 /\ count' = count + Elapsed /\ Perf!Reload(Elapsed, period)
      /\ UNCHANGED <<mode, chunk_ticks, count_ticks, counted, start>>
      /\ leftover' = IF leftover = "yes" THEN "switched" ELSE leftover
  BY DEF Perf!ContextSwitch, Elapsed
<1>2. UNCHANGED hit_bounded_fence
  BY DEF Perf!ContextSwitch
<1>3. HitStops' /\ ~EndsChunk
  BY <1>1, <1>2 DEF HitStops, EndsChunk
<1>4. start \in Nat /\ start <= counted /\ leftover' \in {"yes", "no", "switched"} /\ counted \in Nat
  BY <1>1, <1>b DEF ChunkInv, PerfTypes
<1>5. ASSUME Fence, mode = "user", count_ticks = 1
      PROVE  /\ chunk_ticks + count' + Elapsed' = counted - start
             /\ leftover' = "no" => chunk_ticks + count' + Perf!Higher(1, period_left') <= Perf!Imprecise + 1
  <2>1. /\ period_left' = IF period_left - Elapsed <= -period THEN period
                          ELSE IF period_left - Elapsed <= 0 THEN period_left - Elapsed + period
                          ELSE period_left - Elapsed
        /\ prev_count' = raw' /\ raw' \in 0 .. Modulus - 1
    BY <1>1, <1>b, ReloadFits DEF PerfTypes
  <2>2. Elapsed' = 0
    BY <1>b, <2>1, ModZero, LoadFits DEF Elapsed
  <2>3. chunk_ticks + count + Elapsed = counted - start
    BY <1>5 DEF ChunkInv
  <2>4. ASSUME leftover' = "no" PROVE chunk_ticks + count' + Perf!Higher(1, period_left') <= Perf!Imprecise + 1
    <3>1. leftover = "no"
      BY <1>1, <2>4
    <3>2. chunk_ticks + count + Perf!Higher(1, period_left) <= Perf!Imprecise + 1
      BY <1>5, <3>1 DEF ChunkInv
    <3>3. prev_count = Modulus - Perf!Higher(1, period_left) /\ prev_count <= raw
      BY <1>1, <1>5, <3>1 DEF PerfInv, Loaded, Placed
    <3>4. Elapsed = raw - prev_count
      BY <1>b, <3>3, ElapsedIs DEF PerfTypes
    <3>5. Elapsed < period_left
      BY <1>1, <1>b, <3>3, <3>4, LoadFits DEF PerfTypes, Perf!Higher
    <3>6. period_left' = period_left - Elapsed
      BY <1>b, <1>e, <2>1, <3>5 DEF PerfTypes
    <3> QED
      BY <1>1, <1>b, <1>e, <3>2, <3>5, <3>6, LoadFits DEF PerfTypes, Perf!Higher
  <2> QED
    BY <1>1, <1>b, <1>e, <1>4, <2>2, <2>3, <2>4 DEF PerfTypes
<1>6. mode = "user" /\ count_ticks > 1 => counted - start + count_ticks - 2 = Chunk
  BY DEF ChunkInv
<1> QED
  BY <1>1, <1>3, <1>4, <1>5, <1>6 DEF ChunkInv

(* The other steps leave the chunk or begin one.                           *)
LEMMA ChunkOthers ==
  ASSUME FenceBounds, PerfInv, ChunkInv, HitStops,
         Perf!StopBegins \/ Perf!ReadCounter \/ Perf!Exchange \/ Perf!UpdateClock \/ Perf!Start
  PROVE  ChunkInv' /\ HitStops' /\ ~EndsChunk
<1>b. PerfBounds /\ PerfTypes /\ PerfTypes'
  BY PerfInvStep DEF FenceBounds, PerfInv, Perf!Next
<1>s. start \in Nat /\ start <= counted /\ counted \in Nat /\ leftover \in {"yes", "no", "switched"}
  BY <1>b DEF ChunkInv, PerfTypes
<1>1. CASE Perf!Start
  <2>1. /\ mode # "user" /\ start' = counted /\ counted' = counted /\ leftover' = "yes" /\ count' = 0
        /\ chunk_ticks' = 0 /\ count_ticks' = 1 /\ prev_count' = raw' /\ hit_bounded_fence' = FALSE
    BY <1>1 DEF Perf!Start
  <2>2. Elapsed' = 0
    BY <1>b, <2>1, ElapsedZero
  <2>3. ChunkInv'
    BY <1>s, <2>1, <2>2 DEF ChunkInv
  <2>4. HitStops' /\ ~EndsChunk
    BY <2>1 DEF HitStops, EndsChunk
  <2> QED
    BY <2>3, <2>4
<1>2. CASE Perf!StopBegins \/ Perf!ReadCounter \/ Perf!Exchange \/ Perf!UpdateClock
  <2>1. mode' # "user" /\ UNCHANGED <<start, counted, leftover>>
    BY <1>2 DEF Perf!StopBegins, Perf!ReadCounter, Perf!Exchange, Perf!UpdateClock
  <2> QED
    BY <1>s, <2>1 DEF ChunkInv, HitStops, EndsChunk
<1> QED
  BY <1>1, <1>2

(* At first the chunk is empty.                                            *)
LEMMA ChunkInit ==
  ASSUME FenceBounds, Perf!Init PROVE ChunkInv /\ HitStops
<1>1. PerfBounds /\ PerfTypes
  BY PerfInvInit DEF FenceBounds, PerfInv
<1>2. period_left \in 0 .. MaxPeriod
  BY <1>1 DEF Perf!Init, Perf!Lower, PerfBounds
<1>3. Elapsed = 0
  BY <1>1, ModZero, LoadFits DEF Perf!Init, Elapsed, PerfTypes
<1>4. ChunkInv
  BY <1>1, <1>2, <1>3, LoadFits DEF Perf!Init, ChunkInv, FenceBounds, Perf!Higher, PerfBounds
<1> QED
  BY <1>4 DEF Perf!Init, HitStops

(* For every such counter and every chunk: a chunk that its bound ends is  *)
(* ended after exactly BOUNDED_CHUNK_SIZE instructions, however late the   *)
(* interrupt was and whatever moved the overflow, but for the context      *)
(* switch that the property excepts.                                       *)
THEOREM FenceExact ==
  ASSUME FenceBounds PROVE Perf!Spec => FenceIsExact
<1> DEFINE Inv == PerfInv /\ ChunkInv /\ HitStops
<1>b. PerfBounds
  BY DEF FenceBounds
<1>1. Perf!Init => Inv
  BY <1>b, PerfInvInit, ChunkInit
<1>2. Inv /\ [Perf!Next]_Perf!vars => Inv' /\ (EndsChunk => counted' - start = Chunk)
  <2> SUFFICES ASSUME Inv, [Perf!Next]_Perf!vars PROVE Inv' /\ (EndsChunk => counted' - start = Chunk)
    OBVIOUS
  <2>1. PerfInv'
    BY <1>b, PerfInvStep
  <2>2. CASE UNCHANGED Perf!vars
    BY <2>1, <2>2 DEF Perf!vars, Perf!hw, ChunkInv, HitStops, EndsChunk, Elapsed
  <2>3. CASE Perf!Finished
    BY <2>2, <2>3 DEF Perf!Finished
  <2> QED
    BY <2>1, <2>2, <2>3, ChunkInstruction, ChunkNmi, ChunkContextSwitch, ChunkOthers DEF Perf!Next
<1>3. [EndsChunk => counted' - start = Chunk]_Perf!vars
      => [~hit_bounded_fence /\ hit_bounded_fence' /\ mode = "user" /\ mode' = "user" /\ leftover # "switched"
            => counted' - start = Chunk]_Perf!vars
  BY DEF EndsChunk
<1> QED
  BY <1>1, <1>2, <1>3, PTL DEF FenceIsExact, Perf!Spec, Perf!FenceIsExact

-----------------------------------------------------------------------------
(* A set of natural numbers has a least one.                               *)
LEMMA LeastNatural ==
  ASSUME NEW T, T \subseteq Nat, T # {} PROVE \E x \in T : \A y \in T : x <= y
<1>r. PICK R : R = {ss \in Nat \X Nat : ss[1] < ss[2]}
  OBVIOUS
<1>1. IsWellFoundedOn(R, Nat)
  BY <1>r, NatLessThanWellFounded, Zenon DEF OpToRel
<1>2. PICK x \in T : \A y \in T : ~ (<<y, x>> \in R)
  BY <1>1, WFMin, Zenon
<1>3. \A y \in Nat : <<y, x>> \in R <=> y < x
  BY <1>r
<1>4. ASSUME NEW y \in T PROVE x <= y
  <2>1. x \in Nat /\ y \in Nat /\ ~(y < x)
    BY <1>2, <1>3
  <2> QED
    BY <2>1
<1> QED
  BY <1>4

-----------------------------------------------------------------------------
(***************************************************************************)
(* ClockSetup: a thread's clock is its own.                                *)
(***************************************************************************)
Phases == {"none", "cloned", "woken", "stopped", "running", "halted", "parked", "gone"}

(* The types of the variables that the argument uses.                      *)
SetupTypes ==
  /\ clocks \in [Setup!ClockThreads -> [initialized : BOOLEAN, base_ticks : Nat, ticks : Nat,
                                        inactive : BOOLEAN, count_ticks : BOOLEAN]]
  /\ info \in [Setup!ClockThreads -> [tid : Nat, disabled : BOOLEAN, started : BOOLEAN, fd : Nat, group_fd : Nat]]
  /\ phase \in [Setup!ClockThreads -> Phases]
  /\ birth \in [Setup!ClockThreads -> Nat] /\ executed \in [Setup!ClockThreads -> Nat]
  /\ clock_ids \in Nat
  /\ fds \subseteq Nat /\ IsFiniteSet(fds)

(* A thread that runs, or whose process has yet to start, has a clock that *)
(* began at its birth; one that does not has none.                         *)
OwnClock(t) ==
  /\ phase[t] \in {"none", "parked"} => clocks[t].initialized = FALSE
  /\ phase[t] = "none" => birth[t] = 0 /\ executed[t] = 0
  /\ t \in Setup!Live => clocks[t].initialized = TRUE /\ Setup!Clock(clocks, t) = birth[t] + executed[t]
  /\ phase[t] = "running" => clocks[t].count_ticks = TRUE

HasFile(t) == phase[t] \notin {"none", "cloned", "gone"}

SetupInv ==
  /\ SetupTypes
  /\ phase[0] = "none" => clock_ids = 0
  /\ \A t \in Setup!ClockThreads : OwnClock(t)
  /\ \A t \in Setup!ClockThreads : HasFile(t) => info[t].fd \in fds
  /\ \A t, u \in Setup!ClockThreads : HasFile(t) /\ HasFile(u) /\ info[t].fd = info[u].fd => t = u

-----------------------------------------------------------------------------
(* perf_event_open finds a free number.                                    *)
LEMMA NewFileIsFree ==
  ASSUME SetupTypes PROVE Setup!NewFile \in Nat /\ Setup!NewFile \notin fds
<1>1. fds \subseteq Nat /\ IsFiniteSet(fds) /\ Cardinality(fds) \in Nat
  BY FS_CardinalityType DEF SetupTypes
<1> DEFINE n == Cardinality(fds)
           Free == {f \in 0 .. n : f \notin fds}
<1>2. Free # {}
  <2> SUFFICES ASSUME Free = {} PROVE FALSE
    OBVIOUS
  <2>1. 0 .. n \subseteq fds
    OBVIOUS
  <2>2. Cardinality(0 .. n) <= Cardinality(fds)
    BY <1>1, <2>1, FS_Subset
  <2>3. Cardinality(0 .. n) = n + 1
    BY <1>1, FS_Interval
  <2> QED
    BY <1>1, <2>2, <2>3
<1>3. Free \subseteq Nat
  BY <1>1
<1>4. PICK f \in Free : \A g \in Free : f <= g
  BY <1>2, <1>3, LeastNatural
<1>5. f \in 0 .. n /\ f \notin fds /\ \A g \in 0 .. f - 1 : g \in fds
  BY <1>1, <1>4
<1>6. \E h \in 0 .. n : h \notin fds /\ \A g \in 0 .. h - 1 : g \in fds
  BY <1>5
<1>7. Setup!Cardinality(fds) = n
  BY DEF Setup!Cardinality, Cardinality
<1> HIDE DEF n
<1> QED
  BY <1>1, <1>6, <1>7 DEF Setup!NewFile, n

(* What a step that gives no process a new place or file, and changes the  *)
(* clock of one thread at most, has to show.                               *)
LEMMA SetupKept ==
  ASSUME SetupInv, NEW t \in Setup!ClockThreads, SetupTypes', fds' = fds,
         \A u \in Setup!ClockThreads \ {t} :
           clocks'[u] = clocks[u] /\ phase'[u] = phase[u] /\ birth'[u] = birth[u] /\ executed'[u] = executed[u],
         \A u \in Setup!ClockThreads : HasFile(u)' => HasFile(u) /\ info'[u].fd = info[u].fd,
         OwnClock(t)', phase'[0] = "none" => clock_ids' = 0
  PROVE  SetupInv'
<1>1. ASSUME NEW u \in Setup!ClockThreads PROVE OwnClock(u)'
  <2>1. CASE u = t
    BY <2>1
  <2>2. CASE u # t
    <3>1. OwnClock(u)
      BY DEF SetupInv
    <3>2. u \in Setup!Live' <=> u \in Setup!Live
      BY <2>2 DEF Setup!Live
    <3> QED
      BY <2>2, <3>1, <3>2 DEF OwnClock, Setup!Clock
  <2> QED
    BY <2>1, <2>2
<1> QED
  BY <1>1 DEF SetupInv


ClockRecord == [initialized : BOOLEAN, base_ticks : Nat, ticks : Nat, inactive : BOOLEAN, count_ticks : BOOLEAN]
InfoRecord  == [tid : Nat, disabled : BOOLEAN, started : BOOLEAN, fd : Nat, group_fd : Nat]

(* The types of one thread's cells.                                        *)
LEMMA SetupCell ==
  ASSUME SetupTypes, NEW t \in Setup!ClockThreads
  PROVE  /\ clocks[t] \in ClockRecord /\ info[t] \in InfoRecord
         /\ birth[t] \in Nat /\ executed[t] \in Nat /\ phase[t] \in Phases
BY DEF SetupTypes, ClockRecord, InfoRecord

(* Writing one thread's cells keeps the types.                             *)
LEMMA SetupTyped ==
  ASSUME SetupTypes, NEW t \in Setup!ClockThreads, NEW c \in ClockRecord, NEW i \in InfoRecord,
         NEW p \in Phases, NEW b \in Nat, NEW e \in Nat,
         clocks' = [clocks EXCEPT ![t] = c], info' = [info EXCEPT ![t] = i], phase' = [phase EXCEPT ![t] = p],
         birth' = [birth EXCEPT ![t] = b], executed' = [executed EXCEPT ![t] = e],
         clock_ids' \in Nat, fds' \subseteq Nat, IsFiniteSet(fds')
  PROVE  SetupTypes'
BY DEF SetupTypes, ClockRecord, InfoRecord

(* A step of a process that does not concern its file.                     *)
LEMMA SetupOwnStep ==
  ASSUME SetupInv, NEW t \in Setup!ClockThreads, NEW c \in ClockRecord, NEW i \in InfoRecord,
         NEW p \in Phases, NEW e \in Nat,
         clocks' = [clocks EXCEPT ![t] = c], info' = [info EXCEPT ![t] = i], phase' = [phase EXCEPT ![t] = p],
         birth' = birth, executed' = [executed EXCEPT ![t] = e],
         clock_ids' = clock_ids, fds' = fds,
         i.fd = info[t].fd, HasFile(t), p # "none",
         p = "parked" => c.initialized = FALSE,
         p \notin {"parked", "gone"} =>
           c.initialized = TRUE /\ c.base_ticks + c.ticks = birth[t] + e,
         p = "running" => c.count_ticks = TRUE
  PROVE  SetupInv'
<1>0. SetupTypes
  BY DEF SetupInv
<1>1. birth[t] \in Nat /\ clock_ids \in Nat /\ fds \subseteq Nat /\ IsFiniteSet(fds) /\ birth' = [birth EXCEPT ![t] = birth[t]]
  BY <1>0 DEF SetupTypes
<1>2. SetupTypes'
  BY <1>0, <1>1, SetupTyped, Zenon
<1>3. /\ clocks'[t] = c /\ info'[t] = i /\ phase'[t] = p /\ birth'[t] = birth[t] /\ executed'[t] = e
      /\ \A u \in Setup!ClockThreads \ {t} :
           clocks'[u] = clocks[u] /\ phase'[u] = phase[u] /\ birth'[u] = birth[u] /\ executed'[u] = executed[u]
           /\ info'[u] = info[u]
  BY <1>0 DEF SetupTypes
<1>4. OwnClock(t)'
  <2>1. t \in Setup!Live' <=> p \notin {"none", "parked", "gone"}
    BY <1>3 DEF Setup!Live
  <2>2. Setup!Clock(clocks, t)' = c.base_ticks + c.ticks
    BY <1>3 DEF Setup!Clock
  <2> QED
    BY <1>3, <2>1, <2>2 DEF OwnClock
<1>5. ASSUME NEW u \in Setup!ClockThreads, HasFile(u)' PROVE HasFile(u) /\ info'[u].fd = info[u].fd
  BY <1>3, <1>5 DEF HasFile
<1>6. phase'[0] = "none" => phase[0] = "none"
  <2>1. CASE t = 0
    BY <2>1, <1>3
  <2>2. CASE t # 0
    <3>1. phase'[0] = phase[0]
      BY <2>2, <1>0 DEF SetupTypes
    <3> QED
      BY <3>1
  <2> QED
    BY <2>1, <2>2
<1>7. phase'[0] = "none" => clock_ids' = 0
  BY <1>6 DEF SetupInv
<1> QED
  BY <1>2, <1>3, <1>4, <1>5, <1>7, SetupKept

(* start, an instruction, stop, sleep, activate and deregisterThread.      *)
LEMMA SetupSteps ==
  ASSUME SetupInv, NEW t \in Setup!ClockThreads,
         Setup!Start(t) \/ Setup!Run(t) \/ Setup!Stop(t) \/ Setup!Sleep(t) \/ Setup!Activate(t) \/ Setup!Deregister(t)
  PROVE  SetupInv'
<1>0. SetupTypes /\ OwnClock(t)
  BY DEF SetupInv
<1>t. /\ clocks[t] \in ClockRecord /\ info[t] \in InfoRecord
      /\ birth[t] \in Nat /\ executed[t] \in Nat /\ phase[t] \in Phases
  BY <1>0, SetupCell
<1>u. /\ clocks = [clocks EXCEPT ![t] = clocks[t]] /\ info = [info EXCEPT ![t] = info[t]]
      /\ phase = [phase EXCEPT ![t] = phase[t]] /\ executed = [executed EXCEPT ![t] = executed[t]]
  BY <1>0 DEF SetupTypes
<1>o. phase[t] \notin {"none", "parked", "gone"} =>
        clocks[t].initialized = TRUE /\ clocks[t].base_ticks + clocks[t].ticks = birth[t] + executed[t]
  BY <1>0 DEF OwnClock, Setup!Live, Setup!Clock
<1>1. CASE Setup!Start(t)
  <2>1. PICK c : c = [clocks[t] EXCEPT !.count_ticks = TRUE]
    OBVIOUS
  <2>2. PICK i : i = [info[t] EXCEPT !.disabled = FALSE, !.started = TRUE]
    OBVIOUS
  <2>3. /\ clocks' = [clocks EXCEPT ![t] = c] /\ info' = [info EXCEPT ![t] = i]
        /\ phase' = [phase EXCEPT ![t] = "running"] /\ birth' = birth /\ executed' = [executed EXCEPT ![t] = executed[t]]
        /\ clock_ids' = clock_ids /\ fds' = fds /\ phase[t] = "stopped"
    <3>1. executed' = executed /\ executed = [executed EXCEPT ![t] = executed[t]]
      BY <1>0, <1>1, <1>t, <1>u DEF Setup!Start, SetupTypes
    <3> QED
      BY <1>1, <2>1, <2>2, <3>1 DEF Setup!Start
  <2>6. i \in InfoRecord /\ i.fd = info[t].fd
    BY <1>t, <2>2 DEF InfoRecord
  <2>7. c \in ClockRecord /\ c.initialized = clocks[t].initialized /\ c.count_ticks = TRUE
        /\ c.base_ticks = clocks[t].base_ticks /\ c.ticks = clocks[t].ticks
    BY <1>t, <2>1 DEF ClockRecord
  <2>4. c \in ClockRecord /\ i \in InfoRecord /\ i.fd = info[t].fd /\ c.initialized = TRUE /\ c.count_ticks = TRUE
        /\ c.base_ticks + c.ticks = birth[t] + executed[t]
    BY <1>o, <2>3, <2>6, <2>7
  <2>5. HasFile(t) /\ "running" \in Phases /\ "running" # "none" /\ "running" # "parked"
    BY <2>3 DEF HasFile, Phases
  <2> QED
    BY <1>t, <2>3, <2>4, <2>5, SetupOwnStep
<1>2. CASE Setup!Run(t)
  <2>1. PICK c : c = [clocks[t] EXCEPT !.ticks = @ + 1]
    OBVIOUS
  <2>2. phase[t] = "running" /\ clocks[t].count_ticks = TRUE
    BY <1>0, <1>2 DEF Setup!Run, OwnClock
  <2>3. /\ clocks' = [clocks EXCEPT ![t] = c] /\ info' = [info EXCEPT ![t] = info[t]]
        /\ phase' = [phase EXCEPT ![t] = "running"] /\ birth' = birth /\ executed' = [executed EXCEPT ![t] = executed[t] + 1]
        /\ clock_ids' = clock_ids /\ fds' = fds
    BY <1>0, <1>2, <1>t, <1>u, <2>1, <2>2 DEF Setup!Run, SetupTypes, ClockRecord, InfoRecord, Setup!process
  <2>6. c \in ClockRecord /\ c.initialized = clocks[t].initialized /\ c.count_ticks = clocks[t].count_ticks
        /\ c.base_ticks = clocks[t].base_ticks /\ c.ticks = clocks[t].ticks + 1
        /\ clocks[t].base_ticks \in Nat /\ clocks[t].ticks \in Nat
    BY <1>t, <2>1 DEF ClockRecord
  <2>7. clocks[t].initialized = TRUE /\ clocks[t].base_ticks + clocks[t].ticks = birth[t] + executed[t]
    BY <1>o, <2>2
  <2>8. c.base_ticks + c.ticks = birth[t] + (executed[t] + 1) /\ executed[t] + 1 \in Nat
    BY <1>t, <2>6, <2>7
  <2>4. c \in ClockRecord /\ c.initialized = TRUE /\ c.count_ticks = TRUE
        /\ c.base_ticks + c.ticks = birth[t] + (executed[t] + 1) /\ executed[t] + 1 \in Nat
    BY <2>2, <2>6, <2>7, <2>8
  <2>5. HasFile(t) /\ "running" \in Phases /\ "running" # "none" /\ "running" # "parked"
    BY <2>2 DEF HasFile, Phases
  <2> QED
    BY <1>t, <2>3, <2>4, <2>5, SetupOwnStep
<1>3. CASE Setup!Stop(t)
  <2>1. PICK c : c = [clocks[t] EXCEPT !.count_ticks = FALSE]
    OBVIOUS
  <2>3. /\ clocks' = [clocks EXCEPT ![t] = c] /\ info' = [info EXCEPT ![t] = info[t]]
        /\ phase' = [phase EXCEPT ![t] = "stopped"] /\ birth' = birth /\ executed' = [executed EXCEPT ![t] = executed[t]]
        /\ clock_ids' = clock_ids /\ fds' = fds /\ phase[t] = "running"
    BY <1>0, <1>3, <1>t, <1>u, <2>1 DEF Setup!Stop, SetupTypes, ClockRecord, InfoRecord, Setup!process
  <2>4. c \in ClockRecord /\ c.initialized = TRUE /\ c.base_ticks + c.ticks = birth[t] + executed[t]
    BY <1>t, <1>o, <2>1, <2>3 DEF ClockRecord
  <2>5. HasFile(t) /\ "stopped" \in Phases /\ "stopped" # "none" /\ "stopped" # "parked" /\ "stopped" # "running"
    BY <2>3 DEF HasFile, Phases
  <2> QED
    BY <1>t, <2>3, <2>4, <2>5, SetupOwnStep
<1>4. CASE Setup!Sleep(t)
  <2>1. PICK c : c = [clocks[t] EXCEPT !.inactive = TRUE]
    OBVIOUS
  <2>2. PICK i : i = [info[t] EXCEPT !.disabled = TRUE, !.started = FALSE]
    OBVIOUS
  <2>3. /\ clocks' = [clocks EXCEPT ![t] = c] /\ info' = [info EXCEPT ![t] = i]
        /\ phase' = [phase EXCEPT ![t] = "halted"] /\ birth' = birth /\ executed' = [executed EXCEPT ![t] = executed[t]]
        /\ clock_ids' = clock_ids /\ fds' = fds /\ phase[t] = "stopped"
    <3>1. executed' = executed /\ executed = [executed EXCEPT ![t] = executed[t]]
      BY <1>0, <1>4, <1>t, <1>u DEF Setup!Sleep, Setup!Halt, SetupTypes
    <3> QED
      BY <1>4, <2>1, <2>2, <3>1 DEF Setup!Sleep, Setup!Halt
  <2>6. i \in InfoRecord /\ i.fd = info[t].fd
    BY <1>t, <2>2 DEF InfoRecord
  <2>7. c \in ClockRecord /\ c.initialized = clocks[t].initialized
        /\ c.base_ticks = clocks[t].base_ticks /\ c.ticks = clocks[t].ticks
    BY <1>t, <2>1 DEF ClockRecord
  <2>4. c \in ClockRecord /\ i \in InfoRecord /\ i.fd = info[t].fd /\ c.initialized = TRUE
        /\ c.base_ticks + c.ticks = birth[t] + executed[t]
    BY <1>o, <2>3, <2>6, <2>7
  <2>5. HasFile(t) /\ "halted" \in Phases /\ "halted" # "none" /\ "halted" # "parked" /\ "halted" # "running"
    BY <2>3 DEF HasFile, Phases
  <2> QED
    BY <1>t, <2>3, <2>4, <2>5, SetupOwnStep
<1>5. CASE Setup!Activate(t)
  <2>1. PICK c : c = [clocks[t] EXCEPT !.inactive = FALSE]
    OBVIOUS
  <2>2. PICK i : i = [info[t] EXCEPT !.disabled = FALSE]
    OBVIOUS
  <2>3. /\ clocks' = [clocks EXCEPT ![t] = c] /\ info' = [info EXCEPT ![t] = i]
        /\ phase' = [phase EXCEPT ![t] = "stopped"] /\ birth' = birth /\ executed' = [executed EXCEPT ![t] = executed[t]]
        /\ clock_ids' = clock_ids /\ fds' = fds /\ phase[t] = "halted"
    BY <1>0, <1>5, <1>t, <1>u, <2>1, <2>2 DEF Setup!Activate, SetupTypes, ClockRecord, InfoRecord
  <2>6. i \in InfoRecord /\ i.fd = info[t].fd
    BY <1>t, <2>2 DEF InfoRecord
  <2>7. c \in ClockRecord /\ c.initialized = clocks[t].initialized
        /\ c.base_ticks = clocks[t].base_ticks /\ c.ticks = clocks[t].ticks
    BY <1>t, <2>1 DEF ClockRecord
  <2>4. c \in ClockRecord /\ i \in InfoRecord /\ i.fd = info[t].fd /\ c.initialized = TRUE
        /\ c.base_ticks + c.ticks = birth[t] + executed[t]
    BY <1>o, <2>3, <2>6, <2>7
  <2>5. HasFile(t) /\ "stopped" \in Phases /\ "stopped" # "none" /\ "stopped" # "parked" /\ "stopped" # "running"
    BY <2>3 DEF HasFile, Phases
  <2> QED
    BY <1>t, <2>3, <2>4, <2>5, SetupOwnStep
<1>6. CASE Setup!Deregister(t)
  <2>1. PICK c : c = [clocks[t] EXCEPT !.inactive = TRUE, !.initialized = FALSE]
    OBVIOUS
  <2>2. PICK i : i = [info[t] EXCEPT !.disabled = TRUE, !.started = FALSE]
    OBVIOUS
  <2>6. clocks' = [clocks EXCEPT ![t] = c]
    <3>1. clocks' = [clocks EXCEPT ![t].inactive = TRUE, ![t].initialized = FALSE]
      BY <1>6 DEF Setup!Deregister
    <3> QED
      BY <1>0, <1>t, <2>1, <3>1 DEF SetupTypes, ClockRecord
  <2>3. /\ clocks' = [clocks EXCEPT ![t] = c] /\ info' = [info EXCEPT ![t] = i]
        /\ phase' = [phase EXCEPT ![t] = "parked"] /\ birth' = birth /\ executed' = [executed EXCEPT ![t] = executed[t]]
        /\ clock_ids' = clock_ids /\ fds' = fds /\ phase[t] = "stopped"
    <3>1. /\ info' = [info EXCEPT ![t].disabled = TRUE, ![t].started = FALSE]
          /\ phase' = [phase EXCEPT ![t] = "parked"] /\ birth' = birth /\ executed' = executed
          /\ clock_ids' = clock_ids /\ fds' = fds /\ phase[t] = "stopped"
      BY <1>6, Zenon DEF Setup!Deregister, Setup!Halt
    <3>2. info' = [info EXCEPT ![t] = i]
      BY <1>0, <1>t, <2>2, <3>1 DEF SetupTypes, InfoRecord
    <3> QED
      BY <1>u, <2>6, <3>1, <3>2, Zenon
  <2>4. c \in ClockRecord /\ i \in InfoRecord /\ i.fd = info[t].fd /\ c.initialized = FALSE
    BY <1>t, <2>1, <2>2, <2>3 DEF ClockRecord, InfoRecord
  <2>5. HasFile(t) /\ "parked" \in Phases /\ "parked" # "none" /\ "parked" # "running"
    BY <2>3 DEF HasFile, Phases
  <2> QED
    BY <1>t, <2>3, <2>4, <2>5, SetupOwnStep
<1> QED
  BY <1>1, <1>2, <1>3, <1>4, <1>5, <1>6


-----------------------------------------------------------------------------
(* A process that opens a counter gets a file that no other has.           *)
LEMMA SetupOpens ==
  ASSUME SetupInv, NEW t \in Setup!ClockThreads, NEW g \in Nat,
         Setup!InitWithId(t, g), phase' = [phase EXCEPT ![t] = "stopped"], birth' = birth, executed' = executed,
         clock_ids' \in Nat, phase[t] \in {"none", "cloned"},
         phase'[0] = "none" => clock_ids' = 0,
         phase[t] = "none" => birth[t] = 0 /\ executed[t] = 0
  PROVE  SetupInv'
<1>0. SetupTypes /\ OwnClock(t)
  BY DEF SetupInv
<1>t. /\ clocks[t] \in ClockRecord /\ info[t] \in InfoRecord
      /\ birth[t] \in Nat /\ executed[t] \in Nat /\ phase[t] \in Phases
  BY <1>0, SetupCell
<1>f. PICK f : f = Setup!NewFile
  OBVIOUS
<1>g. f \in Nat /\ f \notin fds /\ fds \subseteq Nat /\ IsFiniteSet(fds)
  BY <1>0, <1>f, NewFileIsFree DEF SetupTypes
<1>1. PICK i : i = [tid |-> t, disabled |-> FALSE, started |-> FALSE, fd |-> f,
                    group_fd |-> IF t = Setup!Main THEN Setup!NoFile ELSE g]
  OBVIOUS
<1>2. i \in InfoRecord /\ i.fd = f
  BY <1>g, <1>1 DEF InfoRecord, Setup!NoFile, Setup!ClockThreads
<1>3. PICK e : e = IF clocks[t].initialized THEN clocks[t] ELSE [clocks[t] EXCEPT !.ticks = 0, !.base_ticks = 0]
  OBVIOUS
<1>4. PICK c : c = [e EXCEPT !.initialized = TRUE, !.inactive = FALSE, !.count_ticks = FALSE]
  OBVIOUS
<1>5. e \in ClockRecord
  BY <1>t, <1>3 DEF ClockRecord
<1>6. c \in ClockRecord /\ c.initialized = TRUE /\ c.base_ticks = e.base_ticks /\ c.ticks = e.ticks
  BY <1>4, <1>5 DEF ClockRecord
<1>7. /\ clocks' = [clocks EXCEPT ![t] = c] /\ info' = [info EXCEPT ![t] = i] /\ fds' = fds \cup {f}
  BY <1>f, <1>1, <1>3, <1>4, Zenon DEF Setup!InitWithId, Setup!EntryInit
<1>8. birth' = [birth EXCEPT ![t] = birth[t]] /\ executed' = [executed EXCEPT ![t] = executed[t]]
  BY <1>0 DEF SetupTypes
<1>9. fds' \subseteq Nat /\ IsFiniteSet(fds') /\ "stopped" \in Phases
  <2>1. IsFiniteSet(fds \cup {f})
    BY <1>g, FS_AddElement
  <2> QED
    BY <1>g, <1>7, <2>1 DEF Phases
<1>10. SetupTypes'
  BY <1>0, <1>2, <1>6, <1>7, <1>8, <1>9, <1>t DEF SetupTypes, ClockRecord, InfoRecord
<1>11. /\ clocks'[t] = c /\ info'[t] = i /\ phase'[t] = "stopped" /\ birth'[t] = birth[t] /\ executed'[t] = executed[t]
       /\ \A u \in Setup!ClockThreads \ {t} :
            clocks'[u] = clocks[u] /\ phase'[u] = phase[u] /\ birth'[u] = birth[u] /\ executed'[u] = executed[u]
            /\ info'[u] = info[u]
  BY <1>0, <1>7 DEF SetupTypes
<1>12. c.base_ticks + c.ticks = birth[t] + executed[t]
  <2>1. CASE phase[t] = "none"
    <3>1. clocks[t].initialized = FALSE
      BY <1>0, <2>1 DEF OwnClock
    <3>2. e.base_ticks = 0 /\ e.ticks = 0
      BY <1>3, <1>t, <3>1 DEF ClockRecord
    <3> QED
      BY <1>6, <2>1, <3>2
  <2>2. CASE phase[t] = "cloned"
    <3>1. clocks[t].initialized = TRUE /\ clocks[t].base_ticks + clocks[t].ticks = birth[t] + executed[t]
      BY <1>0, <2>2 DEF OwnClock, Setup!Live, Setup!Clock
    <3>2. e = clocks[t]
      BY <1>3, <3>1
    <3> QED
      BY <1>6, <3>1, <3>2
  <2> QED
    BY <2>1, <2>2
<1>13. ASSUME NEW u \in Setup!ClockThreads PROVE OwnClock(u)'
  <2>1. CASE u = t
    <3>1. Setup!Clock(clocks, t)' = c.base_ticks + c.ticks
      BY <1>11 DEF Setup!Clock
    <3> QED
      BY <2>1, <3>1, <1>6, <1>11, <1>12 DEF OwnClock
  <2>2. CASE u # t
    <3>1. OwnClock(u)
      BY DEF SetupInv
    <3>2. u \in Setup!Live' <=> u \in Setup!Live
      BY <1>11, <2>2 DEF Setup!Live
    <3> QED
      BY <1>11, <2>2, <3>1, <3>2 DEF OwnClock, Setup!Clock
  <2> QED
    BY <2>1, <2>2
<1>14. ASSUME NEW u \in Setup!ClockThreads \ {t}, HasFile(u)' PROVE HasFile(u) /\ info'[u].fd = info[u].fd /\ info[u].fd \in fds
  <2>1. HasFile(u) /\ info'[u].fd = info[u].fd
    BY <1>11, <1>14 DEF HasFile
  <2> QED
    BY <2>1 DEF SetupInv
<1>15. ASSUME NEW u \in Setup!ClockThreads, HasFile(u)' PROVE info'[u].fd \in fds'
  BY <1>2, <1>7, <1>11, <1>14, <1>15
<1>16. ASSUME NEW u \in Setup!ClockThreads, NEW v \in Setup!ClockThreads, HasFile(u)', HasFile(v)', info'[u].fd = info'[v].fd
       PROVE  u = v
  <2>1. CASE u # t /\ v # t
    <3>1. HasFile(u) /\ HasFile(v) /\ info[u].fd = info[v].fd
      BY <1>14, <1>16, <2>1
    <3> QED
      BY <3>1 DEF SetupInv
  <2>2. CASE u = t \/ v = t
    BY <1>2, <1>g, <1>11, <1>14, <1>16, <2>2
  <2> QED
    BY <2>1, <2>2
<1> QED
  BY <1>10, <1>13, <1>15, <1>16 DEF SetupInv

-----------------------------------------------------------------------------
(* pthread_create: the new thread's clock begins right after the creator's. *)
LEMMA SetupCreates ==
  ASSUME SetupInv, NEW p \in Setup!ClockThreads, NEW t \in Setup!ClockThreads, Setup!Create(p, t)
  PROVE  SetupInv'
<1>0. SetupTypes /\ OwnClock(t)
  BY DEF SetupInv
<1>t. /\ clocks[t] \in ClockRecord /\ info[t] \in InfoRecord /\ birth[t] \in Nat /\ executed[t] \in Nat
      /\ clocks[p] \in ClockRecord /\ info[p] \in InfoRecord
  BY <1>0, SetupCell
<1>a. phase[p] = "stopped" /\ phase[t] \in {"none", "parked"} /\ t # 0 /\ fds' = fds /\ clock_ids' = clock_ids
  BY DEF Setup!Create, Setup!Main
<1>n. clocks[t].initialized = FALSE
  BY <1>0, <1>a DEF OwnClock
<1>b. PICK b : b = Setup!Clock(clocks, p) + 1
  OBVIOUS
<1>c. b \in Nat
  BY <1>b, <1>t DEF Setup!Clock, ClockRecord
<1>1. PICK i : i = IF phase[t] = "none" THEN info[p] ELSE info[t]
  OBVIOUS
<1>2. i \in InfoRecord /\ (phase[t] = "parked" => i = info[t])
  BY <1>1, <1>t
<1>3. PICK e : e = [clocks[t] EXCEPT !.base_ticks = b, !.ticks = 0]
  OBVIOUS
<1>4. PICK c : c = [e EXCEPT !.initialized = TRUE, !.inactive = FALSE]
  OBVIOUS
<1>5. e \in ClockRecord /\ e.base_ticks = b /\ e.ticks = 0
  BY <1>c, <1>t, <1>3 DEF ClockRecord
<1>6. c \in ClockRecord /\ c.initialized = TRUE /\ c.base_ticks = b /\ c.ticks = 0
  BY <1>4, <1>5 DEF ClockRecord
<1>7. clocks' = [clocks EXCEPT ![t] = c]
  BY <1>n, <1>b, <1>3, <1>4, Zenon DEF Setup!Create, Setup!ActivateOther
<1>8. PICK q : q = IF phase[t] = "none" THEN "cloned" ELSE "woken"
  OBVIOUS
<1>9. /\ info' = [info EXCEPT ![t] = i] /\ phase' = [phase EXCEPT ![t] = q]
      /\ birth' = [birth EXCEPT ![t] = b] /\ executed' = [executed EXCEPT ![t] = 0]
  BY <1>0, <1>b, <1>1, <1>8 DEF Setup!Create, SetupTypes
<1>10. q \in Phases /\ q \notin {"none", "parked", "gone", "running"} /\ fds \subseteq Nat /\ IsFiniteSet(fds) /\ clock_ids \in Nat
       /\ (q # "cloned" => phase[t] = "parked")
  BY <1>0, <1>a, <1>8 DEF Phases, SetupTypes
<1>11. SetupTypes'
  BY <1>0, <1>a, <1>c, <1>2, <1>6, <1>7, <1>9, <1>10 DEF SetupTypes, ClockRecord, InfoRecord
<1>12. /\ clocks'[t] = c /\ info'[t] = i /\ phase'[t] = q /\ birth'[t] = b /\ executed'[t] = 0
       /\ \A u \in Setup!ClockThreads \ {t} :
            clocks'[u] = clocks[u] /\ phase'[u] = phase[u] /\ birth'[u] = birth[u] /\ executed'[u] = executed[u]
            /\ info'[u] = info[u]
  BY <1>0, <1>7, <1>9 DEF SetupTypes
<1>13. OwnClock(t)'
  <2>1. Setup!Clock(clocks, t)' = b + 0
    BY <1>6, <1>12 DEF Setup!Clock
  <2> QED
    BY <2>1, <1>6, <1>10, <1>12 DEF OwnClock
<1>14. ASSUME NEW u \in Setup!ClockThreads, HasFile(u)' PROVE HasFile(u) /\ info'[u].fd = info[u].fd
  <2>1. CASE u = t
    BY <2>1, <1>2, <1>10, <1>12, <1>14 DEF HasFile
  <2>2. CASE u # t
    BY <2>2, <1>12, <1>14 DEF HasFile
  <2> QED
    BY <2>1, <2>2
<1>15. phase'[0] = "none" => clock_ids' = 0
  <2>1. phase'[0] = phase[0]
    BY <1>0, <1>a, <1>9 DEF SetupTypes
  <2> QED
    BY <1>a, <2>1 DEF SetupInv
<1> QED
  BY <1>a, <1>11, <1>12, <1>13, <1>14, <1>15, SetupKept

(* do_work: a new process opens its counter, one of the pool has it.       *)
LEMMA SetupWorks ==
  ASSUME SetupInv, NEW t \in Setup!ClockThreads, Setup!DoWork(t)
  PROVE  SetupInv'
<1>0. SetupTypes /\ OwnClock(t)
  BY DEF SetupInv
<1>t. /\ clocks[t] \in ClockRecord /\ info[t] \in InfoRecord
      /\ birth[t] \in Nat /\ executed[t] \in Nat /\ phase[t] \in Phases
  BY <1>0, SetupCell
<1>u. /\ clocks = [clocks EXCEPT ![t] = clocks[t]] /\ executed = [executed EXCEPT ![t] = executed[t]]
  BY <1>0 DEF SetupTypes
<1>1. phase' = [phase EXCEPT ![t] = "stopped"] /\ birth' = birth /\ executed' = executed /\ clock_ids' = clock_ids
  BY Zenon DEF Setup!DoWork
<1>2. CASE phase[t] = "cloned" /\ Setup!InitWithId(t, info[t].fd)
  <2>1. phase'[0] = "none" => phase[0] = "none"
    <3>1. CASE t = 0
      BY <3>1, <1>0, <1>1 DEF SetupTypes
    <3>2. CASE t # 0
      BY <3>2, <1>0, <1>1 DEF SetupTypes
    <3> QED
      BY <3>1, <3>2
  <2>2. phase'[0] = "none" => clock_ids' = 0
    BY <1>1, <2>1 DEF SetupInv
  <2>3. info[t].fd \in Nat /\ clock_ids' \in Nat
    BY <1>t, <1>0, <1>1 DEF SetupTypes, InfoRecord
  <2> QED
    BY <1>1, <1>2, <2>2, <2>3, SetupOpens
<1>3. CASE phase[t] = "woken" /\ info' = [info EXCEPT ![t].disabled = FALSE] /\ clocks' = clocks /\ fds' = fds
  <2>1. PICK i : i = [info[t] EXCEPT !.disabled = FALSE]
    OBVIOUS
  <2>2. i \in InfoRecord /\ i.fd = info[t].fd /\ info' = [info EXCEPT ![t] = i]
    BY <1>0, <1>3, <1>t, <2>1 DEF InfoRecord, SetupTypes
  <2>3. clocks[t].initialized = TRUE /\ clocks[t].base_ticks + clocks[t].ticks = birth[t] + executed[t]
    BY <1>0, <1>3 DEF OwnClock, Setup!Live, Setup!Clock
  <2>4. HasFile(t) /\ "stopped" \in Phases /\ "stopped" # "none" /\ "stopped" # "parked" /\ "stopped" # "running"
    BY <1>3 DEF HasFile, Phases
  <2> QED
    BY <1>t, <1>u, <1>1, <1>3, <2>2, <2>3, <2>4, SetupOwnStep
<1> QED
  BY <1>2, <1>3, Zenon DEF Setup!DoWork, Setup!kernel

(* finalThreadExit closes the process' own file only.                      *)
LEMMA SetupExits ==
  ASSUME SetupInv, NEW t \in Setup!ClockThreads, Setup!Exit(t)
  PROVE  SetupInv'
<1>0. SetupTypes
  BY DEF SetupInv
<1>1. /\ phase[t] = "parked" /\ phase' = [phase EXCEPT ![t] = "gone"] /\ fds' = fds \ {info[t].fd}
      /\ clocks' = clocks /\ info' = info /\ birth' = birth /\ executed' = executed /\ clock_ids' = clock_ids
  BY Zenon DEF Setup!Exit, Setup!kernel
<1>2. phase'[t] = "gone" /\ \A u \in Setup!ClockThreads \ {t} : phase'[u] = phase[u]
  BY <1>0, <1>1 DEF SetupTypes
<1>3. SetupTypes'
  <2>1. IsFiniteSet(fds')
    BY <1>0, <1>1, FS_Subset DEF SetupTypes
  <2> QED
    BY <1>0, <1>1, <2>1 DEF SetupTypes, Phases
<1>4. ASSUME NEW u \in Setup!ClockThreads PROVE OwnClock(u)'
  <2>0. OwnClock(u)
    BY DEF SetupInv
  <2>1. CASE u = t
    BY <2>1, <1>2 DEF OwnClock, Setup!Live
  <2>2. CASE u # t
    <3>1. u \in Setup!Live' <=> u \in Setup!Live
      BY <1>2, <2>2 DEF Setup!Live
    <3> QED
      BY <1>1, <1>2, <2>0, <2>2, <3>1 DEF OwnClock, Setup!Clock
  <2> QED
    BY <2>1, <2>2
<1>5. ASSUME NEW u \in Setup!ClockThreads, HasFile(u)' PROVE u # t /\ HasFile(u)
  BY <1>2, <1>5 DEF HasFile
<1>6. ASSUME NEW u \in Setup!ClockThreads, HasFile(u)' PROVE info'[u].fd \in fds'
  <2>1. u # t /\ HasFile(u) /\ HasFile(t)
    BY <1>1, <1>5, <1>6 DEF HasFile
  <2>2. info[u].fd \in fds /\ info[u].fd # info[t].fd
    BY <2>1 DEF SetupInv
  <2> QED
    BY <1>1, <2>2
<1>7. ASSUME NEW u \in Setup!ClockThreads, NEW v \in Setup!ClockThreads, HasFile(u)', HasFile(v)', info'[u].fd = info'[v].fd
      PROVE  u = v
  BY <1>1, <1>5, <1>7 DEF SetupInv
<1>8. phase'[0] = "none" => clock_ids' = 0
  <2>1. CASE t = 0
    BY <2>1, <1>2
  <2>2. CASE t # 0
    <3>1. phase'[0] = phase[0]
      BY <2>2, <1>0, <1>1 DEF SetupTypes
    <3> QED
      BY <1>1, <3>1 DEF SetupInv
  <2> QED
    BY <2>1, <2>2
<1> QED
  BY <1>3, <1>4, <1>6, <1>7, <1>8 DEF SetupInv

(* The steps of the main process alone, and of the kernel module.          *)
LEMMA SetupMain ==
  ASSUME NumThreads \in Nat \ {0}, SetupInv, Setup!Constructor \/ Setup!Done
  PROVE  SetupInv'
<1>0. SetupTypes /\ 0 \in Setup!ClockThreads
  BY DEF SetupInv, Setup!ClockThreads
<1>t. /\ clocks[0] \in ClockRecord /\ info[0] \in InfoRecord
      /\ birth[0] \in Nat /\ executed[0] \in Nat /\ phase[0] \in Phases
  BY <1>0, SetupCell
<1>u. /\ clocks = [clocks EXCEPT ![0] = clocks[0]] /\ executed = [executed EXCEPT ![0] = executed[0]]
      /\ info = [info EXCEPT ![0] = info[0]]
  BY <1>0 DEF SetupTypes
<1>o. OwnClock(0)
  BY <1>0 DEF SetupInv
<1>1. CASE Setup!Constructor
  <2>1. phase[0] = "none" /\ clock_ids = 0
    BY <1>1 DEF Setup!Constructor, Setup!Main, SetupInv
  <2>2. /\ Setup!InitWithId(0, Setup!NoFile) /\ clock_ids' = 0 + 1 /\ phase' = [phase EXCEPT ![0] = "stopped"]
        /\ birth' = birth /\ executed' = executed
    BY <1>1, <2>1, Zenon DEF Setup!Constructor
  <2>3. Setup!NoFile \in Nat /\ clock_ids' \in Nat /\ phase'[0] # "none"
    BY <1>0, <2>2 DEF Setup!NoFile, SetupTypes
  <2>4. birth[0] = 0 /\ executed[0] = 0
    BY <1>o, <2>1 DEF OwnClock
  <2> QED
    BY <1>0, <2>1, <2>2, <2>3, <2>4, SetupOpens
<1>2. CASE Setup!Done
  <2>1. /\ phase[0] = "stopped" /\ phase' = [phase EXCEPT ![0] = "gone"] /\ clocks' = clocks /\ info' = info
        /\ fds' = fds /\ clock_ids' = clock_ids /\ birth' = birth /\ executed' = executed
    BY <1>2, Zenon DEF Setup!Done, Setup!Main, Setup!kernel, Setup!process
  <2>2. HasFile(0) /\ "gone" \in Phases /\ "gone" # "none" /\ "gone" # "parked" /\ "gone" # "running"
    BY <2>1 DEF HasFile, Phases
  <2> QED
    BY <1>0, <1>t, <1>u, <2>1, <2>2, SetupOwnStep
<1> QED
  BY <1>1, <1>2

(* A step that leaves every process alone.                                 *)
LEMMA SetupStill ==
  ASSUME SetupInv, clocks' = clocks, info' = info, phase' = phase, birth' = birth, executed' = executed,
         clock_ids' = clock_ids, fds' = fds
  PROVE  SetupInv'
BY DEF SetupInv, SetupTypes, OwnClock, HasFile, Setup!Live, Setup!Clock

-----------------------------------------------------------------------------
(* determ_clock.c, perf_counter.c and the kernel module (ClockSetup):      *)
(* however many threads are created, parked, reused and ended, each live   *)
(* thread's clock is its creator's plus one at birth and has counted each  *)
(* of its own instructions once, through a file no other live process has. *)
THEOREM ClockBelongsToThread ==
  ASSUME NumThreads \in Nat \ {0} PROVE Setup!Spec => []ClockIsOwn
<1>1. Setup!Init => SetupInv
  <2> SUFFICES ASSUME Setup!Init PROVE SetupInv
    OBVIOUS
  <2>1. IsFiniteSet({0, 1, 2})
    <3>1. IsFiniteSet({}) /\ IsFiniteSet({} \cup {0})
      BY FS_EmptySet, FS_AddElement
    <3>2. IsFiniteSet(({} \cup {0}) \cup {1})
      BY <3>1, FS_AddElement
    <3>3. IsFiniteSet((({} \cup {0}) \cup {1}) \cup {2})
      BY <3>2, FS_AddElement
    <3>4. (({} \cup {0}) \cup {1}) \cup {2} = {0, 1, 2}
      OBVIOUS
    <3> QED
      BY <3>3, <3>4
  <2>2. SetupTypes
    BY <2>1 DEF Setup!Init, SetupTypes, Phases, Setup!NoFile
  <2>3. ASSUME NEW t \in Setup!ClockThreads
        PROVE  clocks[t].initialized = FALSE /\ phase[t] = "none" /\ birth[t] = 0 /\ executed[t] = 0
    BY DEF Setup!Init
  <2>4. ASSUME NEW t \in Setup!ClockThreads PROVE OwnClock(t) /\ ~HasFile(t)
    BY <2>3 DEF OwnClock, HasFile, Setup!Live
  <2>5. clock_ids = 0
    BY DEF Setup!Init
  <2> QED
    BY <2>2, <2>4, <2>5 DEF SetupInv
<1>2. SetupInv /\ [Setup!Next]_Setup!vars => SetupInv'
  <2> SUFFICES ASSUME SetupInv, [Setup!Next]_Setup!vars PROVE SetupInv'
    OBVIOUS
  <2>1. CASE Setup!InitModule \/ Setup!CleanupModule \/ UNCHANGED Setup!vars
    <3>1. clocks' = clocks /\ info' = info /\ phase' = phase /\ birth' = birth /\ executed' = executed
          /\ clock_ids' = clock_ids /\ fds' = fds
      BY <2>1, Zenon DEF Setup!InitModule, Setup!CleanupModule, Setup!vars, Setup!kernel, Setup!process
    <3> QED
      BY <3>1, SetupStill
  <2>2. CASE Setup!Constructor \/ Setup!Done
    BY <2>2, SetupMain
  <2>3. ASSUME NEW t \in Setup!ClockThreads, Setup!DoWork(t) PROVE SetupInv'
    BY <2>3, SetupWorks
  <2>4. ASSUME NEW t \in Setup!ClockThreads,
               Setup!Start(t) \/ Setup!Run(t) \/ Setup!Stop(t) \/ Setup!Sleep(t) \/ Setup!Activate(t) \/ Setup!Deregister(t)
        PROVE  SetupInv'
    BY <2>4, SetupSteps
  <2>5. ASSUME NEW t \in Setup!ClockThreads, Setup!Exit(t) PROVE SetupInv'
    BY <2>5, SetupExits
  <2>6. ASSUME NEW t \in Setup!ClockThreads, NEW p \in Setup!ClockThreads, Setup!Create(p, t) PROVE SetupInv'
    BY <2>6, SetupCreates
  <2> QED
    BY <2>1, <2>2, <2>3, <2>4, <2>5, <2>6, Zenon DEF Setup!Next
<1>3. SetupInv => Setup!ClockIsOwn
  <2> SUFFICES ASSUME SetupInv, NEW t \in Setup!Live
               PROVE  /\ Setup!Clock(clocks, t) = birth[t] + executed[t]
                      /\ phase[t] \notin {"cloned"} =>
                           info[t].fd \in fds /\ \A u \in Setup!Live \ {t} : phase[u] # "cloned" => info[u].fd # info[t].fd
    BY Zenon DEF Setup!ClockIsOwn
  <2>1. t \in Setup!ClockThreads /\ phase[t] \notin {"none", "parked", "gone"} /\ OwnClock(t)
    BY DEF Setup!Live, SetupInv
  <2>2. Setup!Clock(clocks, t) = birth[t] + executed[t]
    BY <2>1 DEF OwnClock
  <2>3. ASSUME phase[t] # "cloned" PROVE info[t].fd \in fds
    BY <2>1, <2>3 DEF HasFile, SetupInv
  <2>4. ASSUME phase[t] # "cloned", NEW u \in Setup!Live \ {t}, phase[u] # "cloned" PROVE info[u].fd # info[t].fd
    <3>1. u \in Setup!ClockThreads /\ phase[u] \notin {"none", "parked", "gone"}
      BY DEF Setup!Live
    <3>2. HasFile(t) /\ HasFile(u)
      BY <2>1, <2>4, <3>1 DEF HasFile
    <3> QED
      BY <2>1, <2>4, <3>1, <3>2 DEF SetupInv
  <2> QED
    BY <2>2, <2>3, <2>4
<1> QED
  BY <1>1, <1>2, <1>3, PTL DEF ClockIsOwn, Setup!Spec

-----------------------------------------------------------------------------
(***************************************************************************)
(* Coarsening: the clock and the commits of coarsened transactions.        *)
(***************************************************************************)
(* The fields of the record; what the estimator says is arbitrary here.    *)
Statics(x) ==
  x = [estimator |-> x.estimator, tx_current_coarsening_level |-> x.tx_current_coarsening_level,
       ticks |-> x.ticks, coarsened_ticks_counter |-> x.coarsened_ticks_counter,
       last_clock_value |-> x.last_clock_value, last_raw_perf |-> x.last_raw_perf,
       raw |-> x.raw, prev_count |-> x.prev_count, tx_coarsening_counter |-> x.tx_coarsening_counter,
       count_ticks |-> x.count_ticks, in_coarsened_tx |-> x.in_coarsened_tx, tx_monitor_next |-> x.tx_monitor_next,
       token_holding |-> x.token_holding, single_active_thread |-> x.single_active_thread,
       last_putter_is_me |-> x.last_putter_is_me, last_holder_is_me |-> x.last_holder_is_me,
       held |-> x.held, dirty |-> x.dirty, unpublished |-> x.unpublished]

(* The fields that the clock is made of are numbers.                       *)
Counters(x) ==
  /\ x.ticks \in Int /\ x.coarsened_ticks_counter \in Int /\ x.last_clock_value \in Int /\ x.last_raw_perf \in Int
  /\ x.raw \in Int /\ x.prev_count \in Int /\ x.tx_coarsening_counter \in Int

(* The fields that say who may see what.                                   *)
SameFlags(x, y) ==
  /\ y.token_holding = x.token_holding /\ y.single_active_thread = x.single_active_thread
  /\ y.last_holder_is_me = x.last_holder_is_me /\ y.last_putter_is_me = x.last_putter_is_me
  /\ y.unpublished = x.unpublished /\ y.dirty = x.dirty

SameClock(x, y) ==
  /\ y.ticks = x.ticks /\ y.coarsened_ticks_counter = x.coarsened_ticks_counter
  /\ y.last_clock_value = x.last_clock_value /\ y.last_raw_perf = x.last_raw_perf
  /\ y.raw = x.raw /\ y.prev_count = x.prev_count /\ y.tx_coarsening_counter = x.tx_coarsening_counter
  /\ y.count_ticks = x.count_ticks /\ y.in_coarsened_tx = x.in_coarsened_tx

(* The clock is stopped and has read n instructions.                       *)
Read(x, n) ==
  /\ Statics(x) /\ Counters(x)
  /\ n = x.ticks + x.coarsened_ticks_counter
  /\ x.last_clock_value <= n /\ x.prev_count <= x.raw
  /\ x.in_coarsened_tx => x.tx_coarsening_counter > 0 /\ x.last_raw_perf <= x.raw

(* The clock runs: what it has not read yet is in the counter, which the   *)
(* library reads in a coarsened transaction and the kernel otherwise.      *)
Counting(x, n) ==
  /\ Statics(x) /\ Counters(x)
  /\ x.in_coarsened_tx <=> x.tx_coarsening_counter > 0
  /\ x.in_coarsened_tx \/ x.count_ticks
  /\ x.last_clock_value <= x.ticks + x.coarsened_ticks_counter /\ x.prev_count <= x.raw
  /\ x.in_coarsened_tx => x.last_raw_perf <= x.raw /\ n = x.ticks + x.coarsened_ticks_counter + (x.raw - x.last_raw_perf)
  /\ ~x.in_coarsened_tx => n = x.ticks + x.coarsened_ticks_counter + (x.raw - x.prev_count)

(* Data of a critical section that is over is not behind the others' back. *)
Kept(x) == x.unpublished => x.token_holding \/ x.single_active_thread

CoarseInv ==
  /\ tx_ran \in Int
  /\ tx_pc \in {"user", "op"} => Counting(tx, tx_ran)
  /\ tx_pc \notin {"user", "op"} => Read(tx, tx_ran)
  /\ tx_pc # "barrier_wait" => Kept(tx)

-----------------------------------------------------------------------------
(* A reading of the clock: the library's or the kernel's.                  *)
LEMMA ClockStops ==
  ASSUME NEW x, NEW n \in Int, Counting(x, n), NEW id, NEW y, y = Coarse!StopClock(x, id)
  PROVE  Read(y, n) /\ SameFlags(x, y)
<1>0. Statics(x) /\ Counters(x)
  BY DEF Counting
<1>1. CASE Coarse!InCoarsenedTx(x)
  <2>1. PICK z : z = [x EXCEPT !.coarsened_ticks_counter = @ + (x.raw - x.last_raw_perf)]
    OBVIOUS
  <2>2. PICK e : y = [z EXCEPT !.estimator = e]
    BY <1>1, <2>1 DEF Coarse!StopClock, Coarse!Observe, Statics
  <2>3. Statics(y) /\ SameFlags(x, y)
    BY <1>0, <2>1, <2>2 DEF Statics, SameFlags
  <2>4. /\ y.coarsened_ticks_counter = x.coarsened_ticks_counter + (x.raw - x.last_raw_perf)
        /\ y.ticks = x.ticks /\ y.last_clock_value = x.last_clock_value /\ y.last_raw_perf = x.last_raw_perf
        /\ y.raw = x.raw /\ y.prev_count = x.prev_count /\ y.tx_coarsening_counter = x.tx_coarsening_counter
        /\ y.in_coarsened_tx = x.in_coarsened_tx
    BY <1>0, <2>1, <2>2 DEF Statics
  <2> QED
    BY <1>0, <1>1, <2>3, <2>4 DEF Read, Counting, Counters, Coarse!InCoarsenedTx
<1>2. CASE ~Coarse!InCoarsenedTx(x)
  <2>1. x.count_ticks /\ ~x.in_coarsened_tx
    BY <1>2 DEF Counting, Coarse!InCoarsenedTx
  <2>2. PICK z : z = [x EXCEPT !.ticks = @ + x.raw - x.prev_count, !.prev_count = x.raw, !.count_ticks = FALSE]
    OBVIOUS
  <2>3. PICK e : y = [z EXCEPT !.estimator = e]
    BY <1>2, <2>1, <2>2 DEF Coarse!StopClock, Coarse!Observe, Statics
  <2>4. Statics(y) /\ SameFlags(x, y)
    BY <1>0, <2>2, <2>3 DEF Statics, SameFlags
  <2>5. /\ y.ticks = x.ticks + x.raw - x.prev_count /\ y.prev_count = x.raw
        /\ y.coarsened_ticks_counter = x.coarsened_ticks_counter
        /\ y.last_clock_value = x.last_clock_value /\ y.last_raw_perf = x.last_raw_perf
        /\ y.raw = x.raw /\ y.tx_coarsening_counter = x.tx_coarsening_counter
        /\ y.in_coarsened_tx = x.in_coarsened_tx
    BY <1>0, <2>2, <2>3 DEF Statics
  <2> QED
    BY <1>0, <2>1, <2>4, <2>5 DEF Read, Counting, Counters
<1> QED
  BY <1>1, <1>2

(* determ_task_clock_start and determ_task_clock_start_no_notify.          *)
LEMMA ClockStarts ==
  ASSUME NEW x, NEW n \in Int, Read(x, n), NEW y, y = Coarse!StartClock(x)
  PROVE  Counting(y, n) /\ SameFlags(x, y)
<1>0. Statics(x) /\ Counters(x)
  BY DEF Read
<1>1. CASE Coarse!InCoarsenedTx(x) /\ x.in_coarsened_tx
  <2>1. y = [x EXCEPT !.last_clock_value = x.ticks + x.coarsened_ticks_counter, !.last_raw_perf = x.raw]
    BY <1>1 DEF Coarse!StartClock, Coarse!StartNoNotify, Coarse!ClockRead
  <2>2. Statics(y) /\ SameFlags(x, y)
    BY <1>0, <2>1 DEF Statics, SameFlags
  <2>3. /\ y.last_clock_value = x.ticks + x.coarsened_ticks_counter /\ y.last_raw_perf = x.raw
        /\ y.ticks = x.ticks /\ y.coarsened_ticks_counter = x.coarsened_ticks_counter /\ y.raw = x.raw
        /\ y.prev_count = x.prev_count /\ y.tx_coarsening_counter = x.tx_coarsening_counter
        /\ y.in_coarsened_tx = x.in_coarsened_tx
    BY <1>0, <2>1 DEF Statics
  <2> QED
    BY <1>0, <1>1, <2>2, <2>3 DEF Read, Counting, Counters, Coarse!InCoarsenedTx
<1>2. CASE Coarse!InCoarsenedTx(x) /\ ~x.in_coarsened_tx
  <2>1. PICK z : z = [x EXCEPT !.in_coarsened_tx = TRUE, !.raw = 0, !.prev_count = 0, !.count_ticks = FALSE]
    OBVIOUS
  <2>2. Statics(z) /\ SameFlags(x, z)
    BY <1>0, <2>1 DEF Statics, SameFlags
  <2>3. /\ z.raw = 0 /\ z.prev_count = 0 /\ z.in_coarsened_tx /\ z.tx_coarsening_counter = x.tx_coarsening_counter
        /\ z.ticks = x.ticks /\ z.coarsened_ticks_counter = x.coarsened_ticks_counter
    BY <1>0, <2>1 DEF Statics
  <2>4. y = [z EXCEPT !.last_clock_value = x.ticks + x.coarsened_ticks_counter, !.last_raw_perf = z.raw]
    BY <1>2, <2>1 DEF Coarse!StartClock, Coarse!StartNoNotify, Coarse!ClockRead
  <2>5. Statics(y) /\ SameFlags(z, y)
    BY <2>2, <2>4 DEF Statics, SameFlags
  <2>6. /\ y.last_clock_value = x.ticks + x.coarsened_ticks_counter /\ y.last_raw_perf = 0
        /\ y.raw = 0 /\ y.prev_count = 0 /\ y.in_coarsened_tx /\ y.tx_coarsening_counter = x.tx_coarsening_counter
        /\ y.ticks = x.ticks /\ y.coarsened_ticks_counter = x.coarsened_ticks_counter
    BY <2>2, <2>3, <2>4 DEF Statics
  <2>7. Counting(y, n)
    BY <1>0, <1>2, <2>5, <2>6 DEF Read, Counting, Counters, Coarse!InCoarsenedTx
  <2> QED
    BY <2>2, <2>5, <2>7 DEF SameFlags
<1>3. CASE ~Coarse!InCoarsenedTx(x)
  <2>1. y = [x EXCEPT !.last_clock_value = x.ticks + x.coarsened_ticks_counter, !.raw = 0, !.prev_count = 0, !.count_ticks = TRUE]
    BY <1>3 DEF Coarse!StartClock, Coarse!StartNotify, Coarse!ClockRead
  <2>2. Statics(y) /\ SameFlags(x, y)
    BY <1>0, <2>1 DEF Statics, SameFlags
  <2>3. /\ y.last_clock_value = x.ticks + x.coarsened_ticks_counter /\ y.raw = 0 /\ y.prev_count = 0 /\ y.count_ticks
        /\ y.ticks = x.ticks /\ y.coarsened_ticks_counter = x.coarsened_ticks_counter /\ y.last_raw_perf = x.last_raw_perf
        /\ y.tx_coarsening_counter = x.tx_coarsening_counter /\ y.in_coarsened_tx = x.in_coarsened_tx
    BY <1>0, <2>1 DEF Statics
  <2> QED
    BY <1>0, <1>3, <2>2, <2>3 DEF Read, Counting, Counters, Coarse!InCoarsenedTx
<1> QED
  BY <1>1, <1>2, <1>3

(* A step that leaves the clock's fields alone leaves the reading alone.   *)
LEMMA SameReading ==
  ASSUME NEW x, NEW y, NEW n, Read(x, n), Statics(y), SameClock(x, y) PROVE Read(y, n)
BY DEF Read, SameClock, Counters

(* endTXCoarsening: the ticks of the library become the kernel's.          *)
LEMMA TxEnds ==
  ASSUME NEW x, NEW n \in Int, Read(x, n), NEW y, y = Coarse!EndTx(x)
  PROVE  Read(y, n) /\ SameFlags(x, y)
<1>0. Statics(x) /\ Counters(x)
  BY DEF Read
<1>1. CASE Coarse!InCoarsenedTx(x)
  <2>1. y = [x EXCEPT !.ticks = x.ticks + x.coarsened_ticks_counter, !.in_coarsened_tx = FALSE,
                      !.coarsened_ticks_counter = 0, !.tx_coarsening_counter = 0]
    BY <1>1 DEF Coarse!EndTx
  <2>2. Statics(y) /\ SameFlags(x, y)
    BY <1>0, <2>1 DEF Statics, SameFlags
  <2>3. /\ y.ticks = x.ticks + x.coarsened_ticks_counter /\ ~y.in_coarsened_tx /\ y.coarsened_ticks_counter = 0
        /\ y.tx_coarsening_counter = 0 /\ y.last_raw_perf = x.last_raw_perf
        /\ y.last_clock_value = x.last_clock_value /\ y.prev_count = x.prev_count /\ y.raw = x.raw
    BY <1>0, <2>1 DEF Statics
  <2> QED
    BY <1>0, <2>2, <2>3 DEF Read, Counters
<1>2. CASE ~Coarse!InCoarsenedTx(x)
  BY <1>2 DEF Coarse!EndTx, SameFlags
<1> QED
  BY <1>1, <1>2

(* useTxCoarsening: the budget used grows by a reading, which is not       *)
(* negative, so a coarsened transaction stays one.                         *)
LEMMA TxUsed ==
  ASSUME NEW x, NEW n \in Int, Read(x, n), NEW id, NEW y, y = Coarse!UseTxCoarsening(x, id)
  PROVE  Read(y, n) /\ SameFlags(x, y)
<1>0. Statics(x) /\ Counters(x)
  BY DEF Read
<1>1. CASE Coarse!UsesCoarsening(x, id)
  <2>0. PICK b : b = Coarse!LastTxSize(x)
    OBVIOUS
  <2>1. y = [x EXCEPT !.tx_coarsening_counter = @ + b]
    BY <1>1, <2>0 DEF Coarse!UseTxCoarsening
  <2>2. b \in Int /\ b >= 0
    BY <1>0, <2>0 DEF Coarse!LastTxSize, Coarse!ClockRead, Counters, Read
  <2>3. Statics(y) /\ SameFlags(x, y)
    BY <1>0, <2>1 DEF Statics, SameFlags
  <2>4. /\ y.tx_coarsening_counter = x.tx_coarsening_counter + b
        /\ y.ticks = x.ticks /\ y.coarsened_ticks_counter = x.coarsened_ticks_counter /\ y.raw = x.raw
        /\ y.last_clock_value = x.last_clock_value /\ y.last_raw_perf = x.last_raw_perf
        /\ y.prev_count = x.prev_count /\ y.in_coarsened_tx = x.in_coarsened_tx
    BY <1>0, <2>1 DEF Statics
  <2> QED
    BY <1>0, <2>2, <2>3, <2>4 DEF Read, Counters
<1>2. CASE ~Coarse!UsesCoarsening(x, id)
  <2>1. y = x \/ y = Coarse!EndTx(x) \/ y = [x EXCEPT !.tx_monitor_next = TRUE]
    BY <1>2 DEF Coarse!UseTxCoarsening
  <2>2. CASE y = x
    BY <2>2 DEF SameFlags
  <2>3. CASE y = Coarse!EndTx(x)
    BY <2>3, TxEnds
  <2>4. CASE y = [x EXCEPT !.tx_monitor_next = TRUE]
    <3>1. Statics(y) /\ SameFlags(x, y) /\ SameClock(x, y)
      BY <1>0, <2>4 DEF Statics, SameFlags, SameClock
    <3> QED
      BY <3>1, SameReading
  <2> QED
    BY <2>1, <2>2, <2>3, <2>4
<1> QED
  BY <1>1, <1>2

(* waitToken                                                               *)
LEMMA TokenTaken ==
  ASSUME NEW x, NEW n \in Int, Read(x, n), NEW y, y = Coarse!WaitToken(x)
  PROVE  /\ Read(y, n) /\ y.token_holding
         /\ y.single_active_thread = x.single_active_thread /\ y.unpublished = x.unpublished /\ y.dirty = x.dirty
<1>0. Statics(x)
  BY DEF Read
<1>1. CASE x.token_holding
  BY <1>1 DEF Coarse!WaitToken
<1>2. CASE ~x.token_holding
  <2>1. PICK l : y = [x EXCEPT !.token_holding = TRUE, !.last_holder_is_me = TRUE, !.tx_monitor_next = FALSE,
                               !.tx_current_coarsening_level = l]
    BY <1>2 DEF Coarse!WaitToken
  <2>2. /\ Statics(y) /\ SameClock(x, y) /\ y.token_holding
        /\ y.single_active_thread = x.single_active_thread /\ y.unpublished = x.unpublished /\ y.dirty = x.dirty
    BY <1>0, <2>1 DEF Statics, SameClock
  <2> QED
    BY <2>2, SameReading
<1> QED
  BY <1>1, <1>2

(* putToken, which ends a coarsened transaction.                           *)
LEMMA TokenPut ==
  ASSUME NEW x, NEW n \in Int, Read(x, n), NEW y, y = Coarse!PutToken(x)
  PROVE  Read(y, n) /\ y.single_active_thread = x.single_active_thread /\ y.unpublished = x.unpublished
<1>1. PICK z : z = Coarse!EndTx(x)
  OBVIOUS
<1>2. Read(z, n) /\ SameFlags(x, z)
  BY <1>1, TxEnds
<1>3. y = z \/ y = [z EXCEPT !.token_holding = FALSE, !.last_putter_is_me = TRUE]
  BY <1>1 DEF Coarse!PutToken
<1>4. CASE y = z
  BY <1>2, <1>4 DEF SameFlags
<1>5. CASE y = [z EXCEPT !.token_holding = FALSE, !.last_putter_is_me = TRUE]
  <2>0. Statics(z)
    BY <1>2 DEF Read
  <2>1. Statics(y) /\ SameClock(z, y) /\ y.single_active_thread = z.single_active_thread /\ y.unpublished = z.unpublished
    BY <1>5, <2>0 DEF Statics, SameClock
  <2> QED
    BY <1>2, <2>1, SameReading DEF SameFlags
<1> QED
  BY <1>3, <1>4, <1>5

(* A commit.                                                               *)
LEMMA Commits ==
  ASSUME NEW x, NEW n \in Int, Read(x, n), NEW y, y = Coarse!Commit(x)
  PROVE  /\ Read(y, n) /\ ~y.unpublished
         /\ y.token_holding = x.token_holding /\ y.single_active_thread = x.single_active_thread
         /\ y.last_holder_is_me = x.last_holder_is_me /\ y.last_putter_is_me = x.last_putter_is_me
<1>0. Statics(x)
  BY DEF Read
<1>1. /\ Statics(y) /\ SameClock(x, y) /\ ~y.unpublished
      /\ y.token_holding = x.token_holding /\ y.single_active_thread = x.single_active_thread
      /\ y.last_holder_is_me = x.last_holder_is_me /\ y.last_putter_is_me = x.last_putter_is_me
  BY <1>0 DEF Coarse!Commit, Statics, SameClock
<1> QED
  BY <1>1, SameReading

-----------------------------------------------------------------------------
(* The clock starts again at the end of an operation.                      *)
LEMMA OperationEnds ==
  ASSUME NEW x, tx_ran \in Int, Read(x, tx_ran), Kept(x), Coarse!End(x), tx_ran' = tx_ran
  PROVE  CoarseInv'
<1>1. PICK y : y = Coarse!StartClock(x)
  OBVIOUS
<1>2. tx' = y /\ tx_pc' = "user"
  BY <1>1 DEF Coarse!End
<1>3. Counting(y, tx_ran) /\ SameFlags(x, y)
  BY <1>1, ClockStarts
<1>4. Counting(tx', tx_ran') /\ Kept(tx')
  BY <1>2, <1>3 DEF Kept, SameFlags
<1> QED
  BY <1>2, <1>4 DEF CoarseInv

(* The thread goes to wait with the clock stopped and its data committed.  *)
LEMMA OperationWaits ==
  ASSUME tx_ran \in Int, Read(tx', tx_ran), ~tx'.unpublished \/ tx_pc' = "barrier_wait",
         tx_pc' \in {"wait_on_lock", "cond_wait", "barrier_wait"}, tx_ran' = tx_ran
  PROVE  CoarseInv'
BY DEF CoarseInv, Kept

(* An operation begins with a reading.                                     *)
LEMMA OperationBegins ==
  ASSUME CoarseInv, NEW op, Coarse!Begin(op), NEW id, NEW x, x = Coarse!StopClock(tx, id)
  PROVE  Read(x, tx_ran) /\ SameFlags(tx, x) /\ Kept(x) /\ tx_ran \in Int /\ tx_ran' = tx_ran
<1>1. Counting(tx, tx_ran) /\ tx_ran \in Int /\ tx_ran' = tx_ran /\ Kept(tx)
  BY DEF CoarseInv, Coarse!Begin
<1>2. Read(x, tx_ran) /\ SameFlags(tx, x)
  BY <1>1, ClockStops
<1> QED
  BY <1>1, <1>2 DEF Kept, SameFlags

(* waitToken, commitAndUpdateMemory, putToken, startClock                  *)
LEMMA OperationCommits ==
  ASSUME NEW x, tx_ran \in Int, Read(x, tx_ran), Coarse!CommitWithToken(x), tx_ran' = tx_ran
  PROVE  CoarseInv'
<1>1. PICK y : y = Coarse!WaitToken(x)
  OBVIOUS
<1>2. PICK z : z = Coarse!Commit(y)
  OBVIOUS
<1>3. PICK w : w = Coarse!PutToken(z)
  OBVIOUS
<1>4. Read(y, tx_ran)
  BY <1>1, TokenTaken
<1>5. Read(z, tx_ran) /\ ~z.unpublished
  BY <1>2, <1>4, Commits
<1>6. Read(w, tx_ran) /\ ~w.unpublished
  BY <1>3, <1>5, TokenPut
<1>7. Coarse!End(w) /\ Kept(w)
  BY <1>1, <1>2, <1>3, <1>6 DEF Coarse!CommitWithToken, Kept
<1> QED
  BY <1>6, <1>7, OperationEnds

(* The mutex is marked as held; nothing else changes.                      *)
LEMMA MarksHeld ==
  ASSUME NEW x, NEW n \in Int, Read(x, n), NEW b, NEW y, y = [x EXCEPT !.held = b]
  PROVE  Read(y, n) /\ SameFlags(x, y)
<1>0. Statics(x)
  BY DEF Read
<1>1. Statics(y) /\ SameFlags(x, y) /\ SameClock(x, y)
  BY <1>0 DEF Statics, SameFlags, SameClock
<1> QED
  BY <1>1, SameReading

(* The thread is said not to be the only active one.                       *)
LEMMA NotAlone ==
  ASSUME NEW x, NEW n \in Int, Read(x, n), NEW b, NEW y, y = [x EXCEPT !.single_active_thread = b]
  PROVE  Read(y, n) /\ y.token_holding = x.token_holding /\ y.unpublished = x.unpublished
<1>0. Statics(x)
  BY DEF Read
<1>1. Statics(y) /\ SameClock(x, y) /\ y.token_holding = x.token_holding /\ y.unpublished = x.unpublished
  BY <1>0 DEF Statics, SameClock
<1> QED
  BY <1>1, SameReading

(* __mutex_lock_inner                                                      *)
LEMMA LockKeeps ==
  ASSUME NEW x, NEW n \in Int, Read(x, n), Kept(x), NEW allow \in BOOLEAN, NEW l, l = Coarse!LockInner(x, allow)
  PROVE  Read(l, n) /\ Kept(l)
<1>1. PICK y : y = Coarse!UseTxCoarsening(x, "mutex")
  OBVIOUS
<1>2. Read(y, n) /\ SameFlags(x, y) /\ Kept(y)
  <2>1. Read(y, n) /\ SameFlags(x, y)
    BY <1>1, TxUsed
  <2> QED
    BY <2>1 DEF Kept, SameFlags
<1> DEFINE using  == Coarse!UsesCoarsening(x, "mutex") /\ allow
           single == Coarse!SingleActiveThread(y)
<1>3. PICK z : z = IF ~single /\ ~y.token_holding THEN Coarse!WaitToken(y) ELSE y
  OBVIOUS
<1>4. Read(z, n) /\ Kept(z) /\ (single => z.single_active_thread) /\ (~single => z.token_holding)
  <2>1. CASE ~single /\ ~y.token_holding
    <3>1. Read(z, n) /\ z.token_holding
      BY <1>2, <1>3, <2>1, TokenTaken
    <3> QED
      BY <2>1, <3>1 DEF Kept
  <2>2. CASE single
    BY <1>2, <1>3, <2>2 DEF Coarse!SingleActiveThread
  <2>3. CASE ~single /\ y.token_holding
    BY <1>2, <1>3, <2>3
  <2> QED
    BY <2>1, <2>2, <2>3
<1>5. PICK w : w = IF (~single /\ ~using) \/ Coarse!ShouldUpdate(z) THEN Coarse!Commit(z) ELSE z
  OBVIOUS
<1>6. Read(w, n) /\ Kept(w) /\ (~single /\ ~using => ~w.unpublished)
  <2>1. CASE w = Coarse!Commit(z)
    <3>1. Read(w, n) /\ ~w.unpublished
      BY <1>4, <2>1, Commits
    <3> QED
      BY <3>1 DEF Kept
  <2>2. CASE w = z /\ ~(~single /\ ~using)
    BY <1>4, <2>2
  <2> QED
    BY <1>5, <2>1, <2>2
<1>7. PICK k : k = [w EXCEPT !.held = TRUE]
  OBVIOUS
<1>8. Read(k, n) /\ SameFlags(w, k)
  BY <1>6, <1>7, MarksHeld
<1>9. l = IF ~single /\ ~using THEN Coarse!PutToken(k) ELSE k
  BY <1>1, <1>3, <1>5, <1>7, Zenon DEF Coarse!LockInner
<1>10. CASE ~single /\ ~using
  <2>1. Read(l, n) /\ l.unpublished = k.unpublished
    BY <1>8, <1>9, <1>10, TokenPut
  <2> QED
    BY <1>6, <1>8, <1>10, <2>1 DEF Kept, SameFlags
<1>11. CASE ~(~single /\ ~using)
  BY <1>6, <1>8, <1>9, <1>11 DEF Kept, SameFlags
<1> QED
  BY <1>10, <1>11

(* pthread_mutex_lock: got at once, refused, and got when woken.           *)
LEMMA CoarseLocks ==
  ASSUME CoarseInv, Coarse!MutexLock \/ Coarse!MutexLockFails \/ Coarse!MutexLockRetry
  PROVE  CoarseInv'
<1>1. CASE Coarse!MutexLock
  <2>1. PICK x : x = Coarse!StopClock(tx, "none")
    OBVIOUS
  <2>2. PICK l : l = Coarse!LockInner(x, TRUE)
    OBVIOUS
  <2>3. Coarse!Begin("lock") /\ Coarse!End(l)
    BY <1>1, <2>1, <2>2 DEF Coarse!MutexLock
  <2>4. Read(x, tx_ran) /\ Kept(x) /\ tx_ran \in Int /\ tx_ran' = tx_ran
    BY <2>1, <2>3, OperationBegins
  <2>5. Read(l, tx_ran) /\ Kept(l)
    BY <2>2, <2>4, LockKeeps
  <2> QED
    BY <2>3, <2>4, <2>5, OperationEnds
<1>2. CASE Coarse!MutexLockFails
  <2>1. PICK x : x = Coarse!StopClock(tx, "none")
    OBVIOUS
  <2>2. PICK y : y = Coarse!UseTxCoarsening(x, "mutex")
    OBVIOUS
  <2>3. PICK z : z = IF y.token_holding THEN y ELSE Coarse!WaitToken(y)
    OBVIOUS
  <2>4. PICK w : w = Coarse!Commit(z)
    OBVIOUS
  <2>5. PICK v : v = Coarse!EndTx(w)
    OBVIOUS
  <2>6. /\ Coarse!Begin("lock") /\ tx_pc' = "wait_on_lock"
        /\ tx' = [v EXCEPT !.token_holding = FALSE, !.last_putter_is_me = TRUE]
    BY <1>2, <2>1, <2>2, <2>3, <2>4, <2>5, Zenon DEF Coarse!MutexLockFails
  <2>7. Read(x, tx_ran) /\ tx_ran \in Int /\ tx_ran' = tx_ran
    BY <2>1, <2>6, OperationBegins
  <2>8. Read(y, tx_ran)
    BY <2>2, <2>7, TxUsed
  <2>9. Read(z, tx_ran)
    BY <2>3, <2>7, <2>8, TokenTaken
  <2>10. Read(w, tx_ran) /\ ~w.unpublished
    BY <2>4, <2>7, <2>9, Commits
  <2>11. Read(v, tx_ran) /\ ~v.unpublished
    BY <2>5, <2>7, <2>10, TxEnds DEF SameFlags
  <2>12. Statics(v)
    BY <2>11 DEF Read
  <2>13. Statics(tx') /\ SameClock(v, tx') /\ ~tx'.unpublished
    BY <2>6, <2>11, <2>12 DEF Statics, SameClock
  <2>14. Read(tx', tx_ran)
    BY <2>11, <2>13, SameReading
  <2> QED
    BY <2>6, <2>7, <2>13, <2>14, OperationWaits
<1>3. CASE Coarse!MutexLockRetry
  <2> DEFINE single == Coarse!SingleActiveThread(tx)
  <2>0. Read(tx, tx_ran) /\ Kept(tx) /\ tx_ran \in Int /\ tx_ran' = tx_ran
    BY <1>3 DEF CoarseInv, Coarse!MutexLockRetry
  <2>1. PICK z : z = Coarse!WaitToken(tx)
    OBVIOUS
  <2>2. PICK w : w = IF ~single \/ Coarse!ShouldUpdate(z) THEN Coarse!Commit(z) ELSE z
    OBVIOUS
  <2>3. PICK k : k = [w EXCEPT !.held = TRUE]
    OBVIOUS
  <2>4. PICK l : l = IF single THEN k ELSE Coarse!PutToken(k)
    OBVIOUS
  <2>5. Coarse!End(l)
    BY <1>3, <2>1, <2>2, <2>3, <2>4, Zenon DEF Coarse!MutexLockRetry
  <2>6. Read(z, tx_ran) /\ z.token_holding
    BY <2>0, <2>1, TokenTaken
  <2>7. Read(w, tx_ran) /\ Kept(w) /\ (~single => ~w.unpublished)
    <3>1. CASE w = Coarse!Commit(z)
      <4>1. Read(w, tx_ran) /\ ~w.unpublished
        BY <2>0, <2>6, <3>1, Commits
      <4> QED
        BY <4>1 DEF Kept
    <3>2. CASE w = z /\ single
      BY <2>6, <3>2 DEF Kept
    <3> QED
      BY <2>2, <3>1, <3>2
  <2>8. Read(k, tx_ran) /\ SameFlags(w, k)
    BY <2>0, <2>3, <2>7, MarksHeld
  <2>9. Read(l, tx_ran) /\ Kept(l)
    <3>1. CASE single
      BY <2>4, <2>7, <2>8, <3>1 DEF Kept, SameFlags
    <3>2. CASE ~single
      <4>1. Read(l, tx_ran) /\ l.unpublished = k.unpublished
        BY <2>0, <2>4, <2>8, <3>2, TokenPut
      <4> QED
        BY <2>7, <2>8, <3>2, <4>1 DEF Kept, SameFlags
    <3> QED
      BY <3>1, <3>2
  <2> QED
    BY <2>0, <2>5, <2>9, OperationEnds
<1> QED
  BY <1>1, <1>2, <1>3

(* pthread_mutex_unlock: without a commit, either the token is kept or no  *)
(* other thread is active.                                                 *)
LEMMA CoarseUnlocks ==
  ASSUME CoarseInv, Coarse!MutexUnlock PROVE CoarseInv'
<1>1. PICK x : x = Coarse!StopClock(tx, "mutex")
  OBVIOUS
<1> DEFINE single == Coarse!SingleActiveThread(x)
           using  == Coarse!UsesCoarsening(x, "none")
<1>2. PICK y : y = Coarse!UseTxCoarsening(x, "none")
  OBVIOUS
<1>3. PICK z : z = IF ~single /\ ~y.token_holding THEN Coarse!WaitToken(y) ELSE y
  OBVIOUS
<1>4. PICK waiters \in BOOLEAN :
        LET c == IF Coarse!UnlockCommits(z, using, waiters) THEN Coarse!Commit(z) ELSE z
            w == [c EXCEPT !.held = FALSE, !.unpublished = c.dirty]
        IN  Coarse!End(IF ~single /\ ~using THEN Coarse!PutToken(w) ELSE w)
  BY <1>1, <1>2, <1>3, Zenon DEF Coarse!MutexUnlock
<1>5. PICK c : c = IF Coarse!UnlockCommits(z, using, waiters) THEN Coarse!Commit(z) ELSE z
  OBVIOUS
<1>6. PICK w : w = [c EXCEPT !.held = FALSE, !.unpublished = c.dirty]
  OBVIOUS
<1>7. PICK l : l = IF ~single /\ ~using THEN Coarse!PutToken(w) ELSE w
  OBVIOUS
<1>8. Coarse!End(l)
  BY <1>4, <1>5, <1>6, <1>7, Zenon
<1>9. Read(x, tx_ran) /\ tx_ran \in Int /\ tx_ran' = tx_ran
  <2>1. Coarse!Begin("unlock")
    BY Zenon DEF Coarse!MutexUnlock
  <2> QED
    BY <1>1, <2>1, OperationBegins
<1>10. Read(y, tx_ran) /\ SameFlags(x, y)
  BY <1>2, <1>9, TxUsed
<1>11. Read(z, tx_ran) /\ (~single => z.token_holding) /\ (single => z.single_active_thread)
  <2>1. CASE ~single /\ ~y.token_holding
    BY <1>3, <1>9, <1>10, <2>1, TokenTaken
  <2>2. CASE single \/ y.token_holding
    BY <1>3, <1>10, <2>2 DEF Coarse!SingleActiveThread, SameFlags
  <2> QED
    BY <2>1, <2>2
<1>12. /\ Read(c, tx_ran) /\ c.token_holding = z.token_holding /\ c.single_active_thread = z.single_active_thread
       /\ ~single /\ ~using => ~c.dirty \/ z.single_active_thread
  <2>1. CASE Coarse!UnlockCommits(z, using, waiters)
    <3>1. c = Coarse!Commit(z)
      BY <1>5, <2>1
    <3>2. Read(c, tx_ran) /\ c.token_holding = z.token_holding /\ c.single_active_thread = z.single_active_thread
      BY <1>9, <1>11, <3>1, Commits
    <3>3. Statics(z)
      BY <1>11 DEF Read
    <3>4. ~c.dirty
      BY <3>1, <3>3 DEF Coarse!Commit, Statics
    <3> QED
      BY <3>2, <3>4
  <2>2. CASE ~Coarse!UnlockCommits(z, using, waiters)
    BY <1>5, <1>11, <2>2 DEF Coarse!UnlockCommits, Coarse!SingleActiveThread
  <2> QED
    BY <2>1, <2>2
<1>13. /\ Read(w, tx_ran) /\ w.token_holding = c.token_holding /\ w.single_active_thread = c.single_active_thread
       /\ w.unpublished = c.dirty
  <2>1. Statics(c)
    BY <1>12 DEF Read
  <2>2. /\ Statics(w) /\ SameClock(c, w) /\ w.token_holding = c.token_holding
        /\ w.single_active_thread = c.single_active_thread /\ w.unpublished = c.dirty
    BY <1>6, <2>1 DEF Statics, SameClock
  <2> QED
    BY <1>12, <2>2, SameReading
<1>14. Read(l, tx_ran) /\ Kept(l)
  <2>1. CASE ~single /\ ~using
    <3>1. Read(l, tx_ran) /\ l.single_active_thread = w.single_active_thread /\ l.unpublished = w.unpublished
      BY <1>7, <1>9, <1>13, <2>1, TokenPut
    <3> QED
      BY <1>12, <1>13, <2>1, <3>1 DEF Kept
  <2>2. CASE ~(~single /\ ~using)
    BY <1>7, <1>11, <1>12, <1>13, <2>2 DEF Kept
  <2> QED
    BY <2>1, <2>2
<1> QED
  BY <1>8, <1>9, <1>14, OperationEnds

(* resetTXCoarsening                                                       *)
LEMMA TxReset ==
  ASSUME NEW x, NEW n \in Int, Read(x, n), NEW y, y = Coarse!ResetTx(x)
  PROVE  Read(y, n) /\ SameFlags(x, y)
<1>1. PICK z : z = [x EXCEPT !.tx_monitor_next = FALSE, !.tx_current_coarsening_level = MinLevel]
  OBVIOUS
<1>2. Statics(x)
  BY DEF Read
<1>3. Statics(z) /\ SameClock(x, z) /\ SameFlags(x, z)
  BY <1>1, <1>2 DEF Statics, SameClock, SameFlags
<1>4. Read(z, n)
  BY <1>3, SameReading
<1>5. y = Coarse!EndTx(z)
  BY <1>1 DEF Coarse!ResetTx
<1>6. Read(y, n) /\ SameFlags(z, y)
  BY <1>4, <1>5, TxEnds
<1> QED
  BY <1>3, <1>6 DEF SameFlags

(* cond_signal and cond_broadcast.                                         *)
LEMMA CoarseSignals ==
  ASSUME CoarseInv, Coarse!CondBroadcast \/ Coarse!CondSignal PROVE CoarseInv'
<1>1. PICK x : x = Coarse!StopClock(tx, "none")
  OBVIOUS
<1>2. Read(x, tx_ran) /\ tx_ran \in Int /\ tx_ran' = tx_ran
  <2>1. Coarse!Begin("broadcast") \/ Coarse!Begin("signal")
    BY Zenon DEF Coarse!CondBroadcast, Coarse!CondSignal
  <2> QED
    BY <1>1, <2>1, OperationBegins
<1>3. PICK r : r = Coarse!ResetTx(x)
  OBVIOUS
<1>4. Read(r, tx_ran)
  BY <1>2, <1>3, TxReset
<1>5. CASE Coarse!CondBroadcast
  <2>1. PICK t : t = Coarse!WaitToken(r)
    OBVIOUS
  <2>2. PICK y : y = [t EXCEPT !.single_active_thread = FALSE]
    OBVIOUS
  <2>3. PICK c : c = Coarse!Commit(y)
    OBVIOUS
  <2>4. PICK l : l = Coarse!PutToken(c)
    OBVIOUS
  <2>5. Coarse!End(l)
    BY <1>1, <1>3, <1>5, <2>1, <2>2, <2>3, <2>4, Zenon DEF Coarse!CondBroadcast
  <2>6. Read(t, tx_ran)
    BY <1>2, <1>4, <2>1, TokenTaken
  <2>7. Read(y, tx_ran)
    BY <1>2, <2>2, <2>6, NotAlone
  <2>8. Read(c, tx_ran) /\ ~c.unpublished
    BY <1>2, <2>3, <2>7, Commits
  <2>9. Read(l, tx_ran) /\ ~l.unpublished
    BY <1>2, <2>4, <2>8, TokenPut
  <2>10. Kept(l)
    BY <2>9 DEF Kept
  <2> QED
    BY <1>2, <2>5, <2>9, <2>10, OperationEnds
<1>6. CASE Coarse!CondSignal
  <2>1. PICK y : y = [r EXCEPT !.single_active_thread = FALSE]
    OBVIOUS
  <2>2. Read(y, tx_ran) /\ y.token_holding = r.token_holding
    BY <1>2, <1>4, <2>1, NotAlone
  <2>3. CASE r.token_holding
    <3>1. Coarse!End(y)
      BY <1>1, <1>3, <1>6, <2>1, <2>3, Zenon DEF Coarse!CondSignal
    <3>2. Kept(y)
      BY <2>2, <2>3 DEF Kept
    <3> QED
      BY <1>2, <2>2, <3>1, <3>2, OperationEnds
  <2>4. CASE ~r.token_holding
    <3>1. Coarse!CommitWithToken(y)
      BY <1>1, <1>3, <1>6, <2>1, <2>4, Zenon DEF Coarse!CondSignal, Coarse!CommitWithToken
    <3> QED
      BY <1>2, <2>2, <3>1, OperationCommits
  <2> QED
    BY <2>3, <2>4
<1> QED
  BY <1>5, <1>6

(* cond_wait and the return from it.                                       *)
LEMMA CoarseWaits ==
  ASSUME CoarseInv, Coarse!CondWait \/ Coarse!CondWoken PROVE CoarseInv'
<1>1. CASE Coarse!CondWait
  <2>1. PICK x : x = Coarse!StopClock(tx, "none")
    OBVIOUS
  <2>2. PICK t : t = Coarse!WaitToken(x)
    OBVIOUS
  <2>3. PICK c : c = Coarse!Commit(t)
    OBVIOUS
  <2>4. PICK e : e = Coarse!EndTx(c)
    OBVIOUS
  <2>5. /\ Coarse!Begin("wait") /\ tx_pc' = "cond_wait"
        /\ tx' = [e EXCEPT !.token_holding = FALSE, !.last_putter_is_me = TRUE, !.held = FALSE]
    BY <1>1, <2>1, <2>2, <2>3, <2>4, Zenon DEF Coarse!CondWait
  <2>6. Read(x, tx_ran) /\ tx_ran \in Int /\ tx_ran' = tx_ran
    BY <2>1, <2>5, OperationBegins
  <2>7. Read(t, tx_ran)
    BY <2>2, <2>6, TokenTaken
  <2>8. Read(c, tx_ran) /\ ~c.unpublished
    BY <2>3, <2>6, <2>7, Commits
  <2>9. Read(e, tx_ran) /\ ~e.unpublished
    BY <2>4, <2>6, <2>8, TxEnds DEF SameFlags
  <2>10. Statics(e)
    BY <2>9 DEF Read
  <2>11. Statics(tx') /\ SameClock(e, tx') /\ ~tx'.unpublished
    BY <2>5, <2>9, <2>10 DEF Statics, SameClock
  <2>12. Read(tx', tx_ran)
    BY <2>9, <2>11, SameReading
  <2> QED
    BY <2>5, <2>6, <2>11, <2>12, OperationWaits
<1>2. CASE Coarse!CondWoken
  <2>1. Read(tx, tx_ran) /\ tx_ran \in Int /\ tx_ran' = tx_ran
    BY <1>2 DEF CoarseInv, Coarse!CondWoken
  <2>2. PICK c : c = Coarse!Commit(tx)
    OBVIOUS
  <2>3. PICK l : l = Coarse!LockInner(c, FALSE)
    OBVIOUS
  <2>4. Read(c, tx_ran) /\ ~c.unpublished
    BY <2>1, <2>2, Commits
  <2>5. Kept(c)
    BY <2>4 DEF Kept
  <2>6. Read(l, tx_ran) /\ Kept(l)
    BY <2>1, <2>3, <2>4, <2>5, LockKeeps
  <2>7. Coarse!End(l)
    BY <1>2, <2>2, <2>3, Zenon DEF Coarse!CondWoken
  <2> QED
    BY <2>1, <2>6, <2>7, OperationEnds
<1> QED
  BY <1>1, <1>2

(* barrier_wait: the one operation that gives the token back before it     *)
(* commits.                                                                *)
LEMMA CoarseBarrier ==
  ASSUME CoarseInv, Coarse!BarrierWait \/ Coarse!BarrierMet PROVE CoarseInv'
<1>1. CASE Coarse!BarrierWait
  <2>1. PICK x : x = Coarse!StopClock(tx, "none")
    OBVIOUS
  <2>2. Coarse!Begin("barrier") /\ tx' = Coarse!PutToken(x) /\ tx_pc' = "barrier_wait"
    BY <1>1, <2>1 DEF Coarse!BarrierWait
  <2>3. Read(x, tx_ran) /\ tx_ran \in Int /\ tx_ran' = tx_ran
    BY <2>1, <2>2, OperationBegins
  <2>4. Read(tx', tx_ran)
    BY <2>2, <2>3, TokenPut
  <2> QED
    BY <2>2, <2>3, <2>4, OperationWaits
<1>2. CASE Coarse!BarrierMet
  <2>1. Read(tx, tx_ran) /\ tx_ran \in Int /\ tx_ran' = tx_ran
    BY <1>2 DEF CoarseInv, Coarse!BarrierMet
  <2>2. PICK last \in BOOLEAN :
          Coarse!End([Coarse!Commit(tx) EXCEPT !.last_putter_is_me = last, !.last_holder_is_me = last])
    BY <1>2, Zenon DEF Coarse!BarrierMet
  <2>3. PICK c : c = Coarse!Commit(tx)
    OBVIOUS
  <2>4. PICK l : l = [c EXCEPT !.last_putter_is_me = last, !.last_holder_is_me = last]
    OBVIOUS
  <2>5. Coarse!End(l)
    BY <2>2, <2>3, <2>4, Zenon
  <2>6. Read(c, tx_ran) /\ ~c.unpublished
    BY <2>1, <2>3, Commits
  <2>7. Statics(c)
    BY <2>6 DEF Read
  <2>8. Statics(l) /\ SameClock(c, l) /\ ~l.unpublished
    BY <2>4, <2>6, <2>7 DEF Statics, SameClock
  <2>9. Read(l, tx_ran) /\ Kept(l)
    BY <2>6, <2>8, SameReading DEF Kept
  <2> QED
    BY <2>1, <2>5, <2>9, OperationEnds
<1> QED
  BY <1>1, <1>2

(* spawn, cancel, the init calls and the signal of a bounded chunk.        *)
LEMMA CoarseCommits ==
  ASSUME CoarseInv, Coarse!Create \/ Coarse!Cancel \/ Coarse!InitObject \/ Coarse!sigstopHandle PROVE CoarseInv'
<1>1. PICK x : x = Coarse!StopClock(tx, "none")
  OBVIOUS
<1>2. Read(x, tx_ran) /\ tx_ran \in Int /\ tx_ran' = tx_ran
  <2>1. PICK op : Coarse!Begin(op)
    BY Zenon DEF Coarse!Create, Coarse!Cancel, Coarse!InitObject, Coarse!sigstopHandle
  <2> QED
    BY <1>1, <2>1, OperationBegins
<1>3. PICK e : e = Coarse!EndTx(x)
  OBVIOUS
<1>4. Read(e, tx_ran)
  BY <1>2, <1>3, TxEnds
<1>5. PICK y : y = [e EXCEPT !.single_active_thread = FALSE]
  OBVIOUS
<1>6. Read(y, tx_ran)
  BY <1>2, <1>4, <1>5, NotAlone
<1>7. Coarse!CommitWithToken(x) \/ Coarse!CommitWithToken(e) \/ Coarse!CommitWithToken(y)
  BY <1>1, <1>3, <1>5, Zenon
     DEF Coarse!Create, Coarse!Cancel, Coarse!InitObject, Coarse!sigstopHandle, Coarse!StopClockNoCoarsen
<1> QED
  BY <1>2, <1>4, <1>6, <1>7, OperationCommits

(* The program between two operations, and what the other threads do.      *)
LEMMA CoarseRuns ==
  ASSUME Chunks \subseteq Nat, CoarseInv, Coarse!RunChunk \/ Coarse!OtherThread \/ Coarse!OthersHalt PROVE CoarseInv'
<1>1. CASE Coarse!RunChunk
  <2>1. PICK n \in Chunks : tx' = [tx EXCEPT !.raw = @ + n, !.dirty = TRUE] /\ tx_ran' = tx_ran + n
    BY <1>1 DEF Coarse!RunChunk
  <2>7. tx_pc = "user" /\ tx_pc' = "op"
    BY <1>1 DEF Coarse!RunChunk
  <2>8. n \in Int /\ n >= 0
    OBVIOUS
  <2>2. Counting(tx, tx_ran) /\ tx_ran \in Int /\ Kept(tx) /\ tx_pc' = "op" /\ n \in Int /\ n >= 0
    BY <2>7, <2>8 DEF CoarseInv
  <2>3. Statics(tx) /\ Counters(tx)
    BY <2>2 DEF Counting
  <2>4. Statics(tx')
    BY <2>1, <2>3 DEF Statics
  <2>5. /\ tx'.raw = tx.raw + n /\ tx'.ticks = tx.ticks /\ tx'.coarsened_ticks_counter = tx.coarsened_ticks_counter
        /\ tx'.last_clock_value = tx.last_clock_value /\ tx'.last_raw_perf = tx.last_raw_perf
        /\ tx'.prev_count = tx.prev_count /\ tx'.tx_coarsening_counter = tx.tx_coarsening_counter
        /\ tx'.count_ticks = tx.count_ticks /\ tx'.in_coarsened_tx = tx.in_coarsened_tx
        /\ tx'.token_holding = tx.token_holding /\ tx'.single_active_thread = tx.single_active_thread
        /\ tx'.unpublished = tx.unpublished
    BY <2>1, <2>3 DEF Statics
  <2>6. Counting(tx', tx_ran')
    BY <2>1, <2>2, <2>3, <2>4, <2>5 DEF Counting, Counters
  <2> QED
    BY <2>1, <2>2, <2>5, <2>6 DEF CoarseInv, Kept
<1>2. CASE Coarse!OtherThread \/ Coarse!OthersHalt
  <2>0. Statics(tx)
    BY DEF CoarseInv, Counting, Read
  <2>1. Statics(tx') /\ SameClock(tx, tx') /\ tx'.token_holding = tx.token_holding /\ tx'.unpublished = tx.unpublished
        /\ (tx.single_active_thread => tx'.single_active_thread)
    BY <1>2, <2>0 DEF Statics, SameClock, Coarse!OtherThread, Coarse!OthersHalt
  <2>2. Counting(tx, tx_ran) => Counting(tx', tx_ran)
    BY <2>1 DEF SameClock, Counting, Counters
  <2>3. Read(tx, tx_ran) => Read(tx', tx_ran)
    BY <2>1, SameReading
  <2>4. tx_pc' = tx_pc /\ tx_ran' = tx_ran
    BY <1>2 DEF Coarse!OtherThread, Coarse!OthersHalt
  <2> QED
    BY <2>1, <2>2, <2>3, <2>4 DEF CoarseInv, Kept
<1> QED
  BY <1>1, <1>2

-----------------------------------------------------------------------------
(* The invariant holds in every reachable state.                           *)
LEMMA CoarseAlways ==
  ASSUME Chunks \subseteq Nat PROVE Coarse!Spec => []CoarseInv
<1>1. Coarse!Init => CoarseInv
  <2> SUFFICES ASSUME Coarse!Init PROVE CoarseInv
    OBVIOUS
  <2>1. Statics(tx)
    BY DEF Coarse!Init, Statics
  <2>2. /\ tx.ticks = 0 /\ tx.coarsened_ticks_counter = 0 /\ tx.last_clock_value = 0 /\ tx.last_raw_perf = 0 /\ tx.raw = 0
        /\ tx.prev_count = 0 /\ tx.tx_coarsening_counter = 0 /\ tx.count_ticks /\ ~tx.in_coarsened_tx /\ ~tx.unpublished
        /\ tx_pc = "user" /\ tx_ran = 0
    BY DEF Coarse!Init
  <2>3. Counting(tx, tx_ran)
    BY <2>1, <2>2 DEF Counting, Counters
  <2> QED
    BY <2>2, <2>3 DEF CoarseInv, Kept
<1>2. CoarseInv /\ [Coarse!Next]_Coarse!vars => CoarseInv'
  <2> SUFFICES ASSUME CoarseInv, [Coarse!Next]_Coarse!vars PROVE CoarseInv'
    OBVIOUS
  <2>1. CASE UNCHANGED Coarse!vars
    BY <2>1 DEF CoarseInv, Coarse!vars
  <2>2. CASE Coarse!RunChunk \/ Coarse!OtherThread \/ Coarse!OthersHalt
    BY <2>2, CoarseRuns
  <2>3. CASE Coarse!MutexLock \/ Coarse!MutexLockFails \/ Coarse!MutexLockRetry
    BY <2>3, CoarseLocks
  <2>4. CASE Coarse!MutexUnlock
    BY <2>4, CoarseUnlocks
  <2>5. CASE Coarse!CondBroadcast \/ Coarse!CondSignal
    BY <2>5, CoarseSignals
  <2>6. CASE Coarse!CondWait \/ Coarse!CondWoken
    BY <2>6, CoarseWaits
  <2>7. CASE Coarse!BarrierWait \/ Coarse!BarrierMet
    BY <2>7, CoarseBarrier
  <2>8. CASE Coarse!Create \/ Coarse!Cancel \/ Coarse!InitObject \/ Coarse!sigstopHandle
    BY <2>8, CoarseCommits
  <2> QED
    BY <2>1, <2>2, <2>3, <2>4, <2>5, <2>6, <2>7, <2>8 DEF Coarse!Next, Coarse!Finished
<1> QED
  BY <1>1, <1>2, PTL DEF Coarse!Spec

(* determ_clock.c with USE_TX_COARSENING: whatever the estimator predicts  *)
(* and in whatever order a thread's operations come, the ticks of the      *)
(* kernel and of the library, and what neither has read yet, are all the   *)
(* instructions that the thread has executed.                              *)
THEOREM CoarsenedTicksExact ==
  ASSUME Chunks \subseteq Nat PROVE Coarse!Spec => []TicksExact
<1>1. CoarseInv => Coarse!TicksExact
  <2> SUFFICES ASSUME CoarseInv, tx_pc \in {"user", "op"}
               PROVE  tx_ran = Coarse!ClockRead(tx) + (IF tx.in_coarsened_tx THEN tx.raw - tx.last_raw_perf
                                                   ELSE IF tx.count_ticks THEN tx.raw - tx.prev_count ELSE 0)
    BY DEF Coarse!TicksExact
  <2> QED
    BY DEF CoarseInv, Counting, Counters, Coarse!ClockRead
<1> QED
  BY <1>1, CoarseAlways, PTL DEF TicksExact

(* xrun.h with USE_TX_COARSENING: what a thread wrote before an unlock it  *)
(* has not committed is seen by nobody else: it keeps the token, or no     *)
(* other thread is active, except inside barrier_wait.                     *)
THEOREM CoarsenedDataCommitted ==
  ASSUME Chunks \subseteq Nat PROVE Coarse!Spec => []UnlockedDataCommitted
<1>1. CoarseInv => Coarse!UnlockedDataCommitted
  BY DEF CoarseInv, Kept, Coarse!UnlockedDataCommitted, Coarse!CommitsBeforeGivingUpToken
<1> QED
  BY <1>1, CoarseAlways, PTL DEF UnlockedDataCommitted

-----------------------------------------------------------------------------
(***************************************************************************)
(* EventLog: the events of an index are one after the other.               *)
(***************************************************************************)
EventTypes == Types \cup {"transaction", "coarse"}

Events ==
  [begin_time : Nat, end_time : Nat, event_type : EventTypes, begin_clock : Nat, end_clock : Nat,
   dirty_pages : Nat, coarsening_counter : Nat]

(* The types of the variables of module EventLog.                          *)
LogTypes ==
  /\ events \in [0 .. MaxEvents - 1 -> Events]
  /\ event_counter \in 0 .. MaxEvents
  /\ time \in Nat \ {0} /\ clock \in Nat

(* What an event may not come before: the end of the one in front of it.   *)
EndBefore(i) == IF i = 0 THEN 0 ELSE events[i - 1].end_time

(* An event that has ended.                                                *)
Ended(i) == EndBefore(i) <= events[i].begin_time /\ events[i].begin_time <= events[i].end_time

(* The slot that the next event takes: it was begun, perhaps by an event   *)
(* that another was begun inside of, or is as mmap gave it.                *)
Open(i) ==
  \/ events[i].begin_time = 0 /\ events[i].begin_clock = 0
  \/ EndBefore(i) <= events[i].begin_time /\ events[i].begin_time \in 1 .. time

LogInv ==
  /\ LogTypes
  /\ EndBefore(event_counter) <= time
  /\ \A i \in 0 .. event_counter - 1 : Ended(i)
  /\ event_counter < MaxEvents => Open(event_counter)
  /\ \A i \in event_counter + 1 .. MaxEvents - 1 : events[i].begin_time = 0 /\ events[i].begin_clock = 0

(* The record at the counter is replaced by an event that has ended.       *)
LEMMA LogEnds ==
  ASSUME MaxEvents \in Nat, LogInv, event_counter < MaxEvents, NEW e \in Events,
         events' = [events EXCEPT ![event_counter] = e], event_counter' = event_counter + 1,
         time' = time, clock' = clock,
         EndBefore(event_counter) <= e.begin_time, e.begin_time <= e.end_time, e.end_time = time
  PROVE  LogInv'
<1> USE DEF LogInv, LogTypes
<1>1. LogTypes'
  OBVIOUS
<1>2. ASSUME NEW i \in 0 .. MaxEvents - 1, i # event_counter PROVE events'[i] = events[i]
  BY <1>2
<1>3. events'[event_counter] = e
  OBVIOUS
<1>4. ASSUME NEW i \in 0 .. event_counter PROVE EndBefore(i)' = EndBefore(i)
  BY <1>2 DEF EndBefore
<1>5. EndBefore(event_counter)' = e.end_time
  <2>1. event_counter' - 1 = event_counter /\ event_counter' # 0
    OBVIOUS
  <2> QED
    BY <1>3, <2>1 DEF EndBefore
<1>6. ASSUME NEW i \in 0 .. event_counter' - 1 PROVE Ended(i)'
  BY <1>2, <1>3, <1>4 DEF Ended
<1>7. event_counter' < MaxEvents => Open(event_counter)'
  BY <1>2 DEF Open
<1> QED
  BY <1>1, <1>2, <1>5, <1>6, <1>7

(* The record at the counter is replaced by one that is begun now, or      *)
(* keeps its beginning.                                                    *)
LEMMA LogBegins ==
  ASSUME MaxEvents \in Nat, LogInv, event_counter < MaxEvents, NEW e \in Events,
         events' = [events EXCEPT ![event_counter] = e], event_counter' = event_counter,
         time' = time, clock' = clock,
         \/ e.begin_time = time
         \/ e.begin_time = events[event_counter].begin_time /\ e.begin_clock = events[event_counter].begin_clock
  PROVE  LogInv'
<1> USE DEF LogInv, LogTypes
<1>1. LogTypes'
  OBVIOUS
<1>2. ASSUME NEW i \in 0 .. MaxEvents - 1, i # event_counter PROVE events'[i] = events[i]
  BY <1>2
<1>3. events'[event_counter] = e
  OBVIOUS
<1>4. ASSUME NEW i \in 0 .. event_counter PROVE EndBefore(i)' = EndBefore(i)
  BY <1>2 DEF EndBefore
<1>6. ASSUME NEW i \in 0 .. event_counter - 1 PROVE Ended(i)'
  BY <1>2, <1>4 DEF Ended
<1>7. Open(event_counter)'
  BY <1>3, <1>4 DEF Open
<1> QED
  BY <1>1, <1>2, <1>4, <1>6, <1>7

(* Every step keeps the invariant.                                         *)
LEMMA LogInvStep ==
  ASSUME MaxEvents \in Nat, LogInv, [Log!Next]_Log!vars PROVE LogInv'
<1> USE DEF Log!ThreadTime, Log!HasRoom, Log!Slot, Log!Write
<1>0. CASE UNCHANGED Log!vars
  BY <1>0 DEF Log!vars, LogInv, LogTypes, EndBefore, Ended, Open
<1>s. event_counter < MaxEvents => Log!Slot \in Events
  BY DEF LogInv, LogTypes
<1>1. ASSUME NEW t \in Types, Log!StartEvent(t) PROVE LogInv'
  <2>1. CASE event_counter < MaxEvents
    <3> DEFINE e == [Log!Slot EXCEPT !.event_type = t, !.begin_time = time, !.begin_clock = clock]
    <3>1. e \in Events /\ e.begin_time = time
      BY <1>s, <2>1 DEF Events, EventTypes, LogInv, LogTypes
    <3> QED
      BY <1>1, <2>1, <3>1, LogBegins DEF Log!StartEvent
  <2> QED
    BY <1>0, <1>1, <2>1 DEF Log!StartEvent, Log!vars
<1>2. ASSUME NEW t \in Types, Log!EndEvent(t, 1) PROVE LogInv'
  <2>1. CASE event_counter < MaxEvents
    <3> DEFINE b == Log!Begun(t)
               e == [b EXCEPT !.end_time = time, !.end_clock = clock, !.coarsening_counter = 1]
    <3>1. event_counter > 0 => events[event_counter - 1] \in Events
      BY <2>1 DEF LogInv, LogTypes
    <3>2. b \in Events
      BY <1>s, <2>1, <3>1 DEF Log!Begun, Events, EventTypes
    <3>3. EndBefore(event_counter) <= b.begin_time /\ b.begin_time <= time
      <4>1. CASE Log!Slot.begin_time = 0 /\ Log!Slot.begin_clock = 0 /\ event_counter > 0
        <5>1. b.begin_time = events[event_counter - 1].end_time
          BY <1>s, <2>1, <4>1 DEF Log!Begun, Events
        <5>2. b.begin_time = EndBefore(event_counter) /\ EndBefore(event_counter) \in Nat
          BY <3>1, <4>1, <5>1 DEF EndBefore, Events, LogInv, LogTypes
        <5> QED
          BY <5>2 DEF LogInv
      <4>2. CASE ~(Log!Slot.begin_time = 0 /\ Log!Slot.begin_clock = 0 /\ event_counter > 0)
        <5>1. b = events[event_counter]
          BY <4>2 DEF Log!Begun
        <5>2. /\ Open(event_counter) /\ time \in Nat \ {0} /\ event_counter \in Nat
              /\ Log!Slot = events[event_counter] /\ events[event_counter].begin_time \in Nat
          BY <1>s, <2>1 DEF LogInv, LogTypes, Events
        <5>3. CASE events[event_counter].begin_time = 0 /\ events[event_counter].begin_clock = 0
          <6>1. event_counter = 0
            BY <4>2, <5>2, <5>3
          <6> QED
            BY <5>1, <5>2, <5>3, <6>1 DEF EndBefore
        <5>4. CASE ~(events[event_counter].begin_time = 0 /\ events[event_counter].begin_clock = 0)
          BY <5>1, <5>2, <5>4 DEF Open
        <5> QED
          BY <5>3, <5>4
      <4> QED
        BY <4>1, <4>2
    <3>4. e \in Events /\ e.begin_time = b.begin_time /\ e.end_time = time
      <4> HIDE DEF b
      <4> QED
        BY <3>2 DEF Events, LogInv, LogTypes
    <3>5. events' = [events EXCEPT ![event_counter] = e] /\ event_counter' = event_counter + 1
          /\ UNCHANGED <<time, clock>>
      BY <1>2, <2>1 DEF Log!EndEvent
    <3> HIDE DEF b, e
    <3> QED
      BY <2>1, <3>3, <3>4, <3>5, LogEnds
  <2> QED
    BY <1>0, <1>2, <2>1 DEF Log!EndEvent, Log!vars
<1>3. ASSUME NEW t \in Types, Log!AddAtomicEvent(t) PROVE LogInv'
  <2>1. CASE event_counter < MaxEvents
    <3> DEFINE e == [Log!Slot EXCEPT !.event_type = t, !.begin_time = time, !.end_time = time,
                                     !.begin_clock = clock, !.end_clock = clock]
    <3>1. e \in Events /\ e.begin_time = time /\ e.end_time = time
      BY <1>s, <2>1 DEF Events, EventTypes, LogInv, LogTypes
    <3>2. EndBefore(event_counter) <= time /\ time \in Nat
      BY DEF LogInv, LogTypes
    <3>3. events' = [events EXCEPT ![event_counter] = e] /\ event_counter' = event_counter + 1
          /\ UNCHANGED <<time, clock>>
      BY <1>3, <2>1 DEF Log!AddAtomicEvent
    <3>4. EndBefore(event_counter) <= e.begin_time /\ e.begin_time <= e.end_time
      <4> HIDE DEF e
      <4> QED
        BY <3>1, <3>2
    <3> HIDE DEF e
    <3> QED
      BY <2>1, <3>1, <3>3, <3>4, LogEnds
  <2> QED
    BY <1>0, <1>3, <2>1 DEF Log!AddAtomicEvent, Log!vars
<1>4. CASE Log!AddEventCommitStats(1)
  <2> DEFINE e == [Log!Slot EXCEPT !.dirty_pages = 1]
  <2>1. event_counter < MaxEvents
    BY <1>4 DEF Log!AddEventCommitStats
  <2>2. e \in Events /\ e.begin_time = Log!Slot.begin_time /\ e.begin_clock = Log!Slot.begin_clock
    BY <1>s, <2>1 DEF Events
  <2> QED
    BY <1>4, <2>1, <2>2, LogBegins DEF Log!AddEventCommitStats
<1>5. CASE Log!AddCoarseningStats(2)
  <2>1. CASE event_counter < MaxEvents
    <3> DEFINE e == [Log!Slot EXCEPT !.event_type = "coarse", !.begin_time = time, !.begin_clock = clock,
                                !.end_time = time, !.end_clock = clock, !.coarsening_counter = 2]
    <3>1. e \in Events /\ e.begin_time = time /\ e.end_time = time
      BY <1>s, <2>1 DEF Events, EventTypes, LogInv, LogTypes
    <3>2. EndBefore(event_counter) <= time /\ time \in Nat
      BY DEF LogInv, LogTypes
    <3>3. events' = [events EXCEPT ![event_counter] = e] /\ event_counter' = event_counter + 1
          /\ UNCHANGED <<time, clock>>
      BY <1>5, <2>1 DEF Log!AddCoarseningStats
    <3>4. EndBefore(event_counter) <= e.begin_time /\ e.begin_time <= e.end_time
      <4> HIDE DEF e
      <4> QED
        BY <3>1, <3>2
    <3> HIDE DEF e
    <3> QED
      BY <2>1, <3>1, <3>3, <3>4, LogEnds
  <2> QED
    BY <1>0, <1>5, <2>1 DEF Log!AddCoarseningStats, Log!vars
<1>6. CASE Log!TimePasses
  <2>1. time' = time + 1 /\ clock' \in Nat /\ UNCHANGED <<events, event_counter>>
    BY <1>6 DEF Log!TimePasses, LogInv, LogTypes
  <2>2. LogTypes'
    BY <2>1 DEF LogInv, LogTypes
  <2>3. \A i : EndBefore(i)' = EndBefore(i)
    BY <2>1 DEF EndBefore
  <2>4. \A i : Ended(i)' <=> Ended(i)
    BY <2>1, <2>3 DEF Ended
  <2>5. Open(event_counter) => Open(event_counter)'
    BY <2>1, <2>3 DEF Open, LogInv, LogTypes
  <2>6. (EndBefore(event_counter) <= time)'
    <3>1. EndBefore(event_counter) \in Nat
      BY DEF EndBefore, LogInv, LogTypes, Events
    <3>2. EndBefore(event_counter)' = EndBefore(event_counter)
      BY <2>1 DEF EndBefore
    <3> QED
      BY <2>1, <3>1, <3>2 DEF LogInv, LogTypes
  <2> QED
    BY <2>1, <2>2, <2>3, <2>4, <2>5, <2>6 DEF LogInv
<1> QED
  BY <1>0, <1>1, <1>2, <1>3, <1>4, <1>5, <1>6 DEF Log!Next

(* For any length of the log and any times: whatever way a thread nests    *)
(* its events, leaves them open or ends what it never began, and whoever   *)
(* uses the index after it, the log that is printed is a sequence of       *)
(* intervals, one after the other.                                         *)
THEOREM EventLogInOrder ==
  ASSUME MaxEvents \in Nat PROVE Log!Spec => []EventsInOrder
<1>1. Log!Init => LogInv
  <2> SUFFICES ASSUME Log!Init PROVE LogInv
    OBVIOUS
  <2>1. Log!Empty \in Events /\ Log!Empty.begin_time = 0 /\ Log!Empty.begin_clock = 0
    BY DEF Log!Empty, Events, EventTypes
  <2>2. LogTypes
    BY <2>1 DEF Log!Init, LogTypes
  <2> QED
    BY <2>1, <2>2 DEF Log!Init, LogInv, EndBefore, Open
<1>2. LogInv /\ [Log!Next]_Log!vars => LogInv'
  BY LogInvStep
<1>3. LogInv => Log!EventsInOrder
  <2> SUFFICES ASSUME LogInv, NEW i \in 0 .. event_counter - 1
               PROVE  /\ Log!PrintAllEvents[i].begin_time <= Log!PrintAllEvents[i].end_time
                      /\ i > 0 => Log!PrintAllEvents[i - 1].end_time <= Log!PrintAllEvents[i].begin_time
    BY DEF Log!EventsInOrder, Log!PrintAllEvents
  <2>1. Log!PrintAllEvents[i] = events[i] /\ (i > 0 => Log!PrintAllEvents[i - 1] = events[i - 1])
    BY DEF Log!PrintAllEvents, LogInv, LogTypes
  <2>2. Ended(i)
    BY DEF LogInv
  <2> QED
    BY <2>1, <2>2 DEF Ended, EndBefore
<1> QED
  BY <1>1, <1>2, <1>3, PTL DEF EventsInOrder, Log!Spec

-----------------------------------------------------------------------------
(***************************************************************************)
(* Memory: heap and globals of one moment.                                 *)
(***************************************************************************)
MemPlaces ==
  {"none", "start", "run", "wait", "heap", "globals", "holds", "sleeping", "wokeheap", "wokeglobals", "done"}

(* The types of the variables of module Memory.                            *)
MemTypes ==
  /\ version \in [Mem!Segments -> Nat]
  /\ view \in [MemThreads -> [Mem!Segments -> Nat]]
  /\ moment \in [MemThreads -> [Mem!Segments -> Nat]]
  /\ dirty \in [MemThreads -> SUBSET Mem!Segments]
  /\ asleep \in [MemThreads -> BOOLEAN]
  /\ at \in [MemThreads -> MemPlaces]

(* A thread has the token exactly while it commits with it and until it    *)
(* gives it back; it has unwritten data only before that commit, so the    *)
(* commit of a thread that wakes up has nothing to add.                    *)
MemPlace(t) ==
  /\ at[t] \in {"heap", "globals", "holds"} <=> holder = t
  /\ asleep[t] <=> at[t] \in {"sleeping", "done"}
  /\ dirty[t] # {} => at[t] \in {"run", "wait", "heap", "globals"}
  /\ at[t] = "globals" => "heap" \notin dirty[t]

(* What it sees: the committed heap from its commit on, as nobody else     *)
(* makes a version before it gives the token back.                         *)
MemView(t) ==
  /\ at[t] = "globals" => view[t]["heap"] = version["heap"]
  /\ at[t] \in {"start", "holds", "run"} => view[t] = moment[t]

MemInv == MemTypes /\ \A t \in MemThreads : MemPlace(t) /\ MemView(t)

-----------------------------------------------------------------------------
(* Initially the invariant holds.                                          *)
LEMMA MemInvInit ==
  ASSUME NoHolder \notin MemThreads, Mem!Init PROVE MemInv
BY DEF Mem!Init, MemInv, MemTypes, MemPlaces, MemPlace, MemView

(* A step of t that neither commits nor sleeps and ends at place l.        *)
LEMMA MemMove ==
  ASSUME MemInv, NEW t \in MemThreads, NEW l \in MemPlaces, at' = [at EXCEPT ![t] = l],
         UNCHANGED <<version, view, moment>>,
         dirty' \in [MemThreads -> SUBSET Mem!Segments], asleep' \in [MemThreads -> BOOLEAN],
         \A u \in MemThreads \ {t} : dirty'[u] = dirty[u] /\ asleep'[u] = asleep[u]
                                     /\ (holder' = u <=> holder = u),
         MemPlace(t)', MemView(t)'
  PROVE  MemInv'
<1>1. ASSUME NEW u \in MemThreads \ {t} PROVE MemPlace(u)' /\ MemView(u)'
  <2>1. at'[u] = at[u] /\ dirty'[u] = dirty[u] /\ asleep'[u] = asleep[u] /\ (holder' = u <=> holder = u)
    BY <1>1 DEF MemInv, MemTypes
  <2>2. MemPlace(u) /\ MemView(u)
    BY <1>1 DEF MemInv
  <2>3. MemPlace(u)'
    BY <2>1, <2>2 DEF MemPlace
  <2> QED
    BY <2>1, <2>2, <2>3 DEF MemView
<1>2. MemTypes'
  BY DEF MemInv, MemTypes
<1> QED
  BY <1>1, <1>2 DEF MemInv

(* conv_commit_and_update makes a version only of what the thread wrote,   *)
(* and what is at stake for the others stays as it is.                     *)
LEMMA MemCommits ==
  ASSUME MemInv, NEW t \in MemThreads, NEW s \in Mem!Segments, Mem!CommitAndUpdate(t, s)
  PROVE  /\ version' \in [Mem!Segments -> Nat] /\ view' \in [MemThreads -> [Mem!Segments -> Nat]]
         /\ dirty' \in [MemThreads -> SUBSET Mem!Segments]
         /\ s \notin dirty[t] => version' = version
         /\ \A q \in Mem!Segments \ {s} : version'[q] = version[q] /\ view'[t][q] = view[t][q]
         /\ view'[t][s] = version'[s] /\ dirty'[t] = dirty[t] \ {s}
         /\ \A u \in MemThreads \ {t} : view'[u] = view[u] /\ dirty'[u] = dirty[u]
<1>1. version \in [Mem!Segments -> Nat] /\ view \in [MemThreads -> [Mem!Segments -> Nat]]
      /\ dirty \in [MemThreads -> SUBSET Mem!Segments]
  BY DEF MemInv, MemTypes
<1>2. version' \in [Mem!Segments -> Nat]
  BY <1>1 DEF Mem!CommitAndUpdate
<1>3. view' \in [MemThreads -> [Mem!Segments -> Nat]]
  BY <1>1, <1>2 DEF Mem!CommitAndUpdate
<1>4. dirty' \in [MemThreads -> SUBSET Mem!Segments]
  BY <1>1 DEF Mem!CommitAndUpdate
<1>5. s \notin dirty[t] => version' = version
  BY <1>1 DEF Mem!CommitAndUpdate
<1>6. ASSUME NEW q \in Mem!Segments \ {s} PROVE version'[q] = version[q] /\ view'[t][q] = view[t][q]
  BY <1>1 DEF Mem!CommitAndUpdate
<1>7. view'[t][s] = version'[s] /\ dirty'[t] = dirty[t] \ {s}
  BY <1>1 DEF Mem!CommitAndUpdate
<1>8. ASSUME NEW u \in MemThreads \ {t} PROVE view'[u] = view[u] /\ dirty'[u] = dirty[u]
  BY <1>1 DEF Mem!CommitAndUpdate
<1> QED
  BY <1>2, <1>3, <1>4, <1>5, <1>6, <1>7, <1>8

(* CommitHeap and WokenGlobals: the former with the token or, like the     *)
(* latter, by a thread that has written nothing.                           *)
LEMMA MemCommitHeap ==
  ASSUME MemInv, NEW t \in MemThreads, Mem!CommitHeap(t) PROVE MemInv'
<1>1. "heap" \in Mem!Segments /\ Mem!CommitAndUpdate(t, "heap") /\ UNCHANGED <<asleep, holder, moment>>
      /\ at[t] \in {"heap", "wokeheap"}
      /\ at' = [at EXCEPT ![t] = IF at[t] = "heap" THEN "globals" ELSE "wokeglobals"]
  BY DEF Mem!CommitHeap, Mem!Segments, Mem!Goto
<1>2. MemTypes'
  <2>1. at' \in [MemThreads -> MemPlaces]
    BY <1>1 DEF MemInv, MemTypes, MemPlaces
  <2> QED
    BY <1>1, <2>1, MemCommits DEF MemInv, MemTypes
<1>3. MemPlace(t)' /\ MemView(t)'
  <2>1. at'[t] = IF at[t] = "heap" THEN "globals" ELSE "wokeglobals"
    BY <1>1 DEF MemInv, MemTypes
  <2>2. dirty'[t] = dirty[t] \ {"heap"} /\ view'[t]["heap"] = version'["heap"]
    BY <1>1, MemCommits
  <2>3. MemPlace(t)
    BY DEF MemInv
  <2>4. MemPlace(t)'
    BY <1>1, <2>1, <2>2, <2>3 DEF MemPlace
  <2> QED
    BY <2>1, <2>2, <2>4 DEF MemView
<1>4. ASSUME NEW u \in MemThreads \ {t} PROVE MemPlace(u)' /\ MemView(u)'
  <2>1. at'[u] = at[u] /\ view'[u] = view[u] /\ dirty'[u] = dirty[u]
    BY <1>1, MemCommits DEF MemInv, MemTypes
  <2>2. MemPlace(u) /\ MemView(u) /\ MemPlace(t)
    BY DEF MemInv
  <2>3. at[u] = "globals" => version' = version
    BY <1>1, <2>2, MemCommits DEF MemPlace
  <2>4. MemPlace(u)'
    BY <1>1, <2>1, <2>2 DEF MemPlace
  <2> QED
    BY <1>1, <2>1, <2>2, <2>3, <2>4 DEF MemView
<1> QED
  BY <1>2, <1>3, <1>4 DEF MemInv

(* The same of the globals; the thread that has the token now sees both    *)
(* segments as they are.                                                   *)
LEMMA MemCommitGlobals ==
  ASSUME MemInv, NEW t \in MemThreads, Mem!CommitGlobals(t) PROVE MemInv'
<1>1. "globals" \in Mem!Segments /\ Mem!CommitAndUpdate(t, "globals") /\ UNCHANGED <<asleep, holder>>
      /\ at[t] = "globals" /\ at' = [at EXCEPT ![t] = "holds"]
      /\ moment' = [moment EXCEPT ![t] = version']
  BY DEF Mem!CommitGlobals, Mem!Segments, Mem!Goto
<1>2. MemTypes'
  <2>1. at' \in [MemThreads -> MemPlaces]
    BY <1>1 DEF MemInv, MemTypes, MemPlaces
  <2>2. moment' \in [MemThreads -> [Mem!Segments -> Nat]]
    BY <1>1, MemCommits DEF MemInv, MemTypes
  <2> QED
    BY <1>1, <2>1, <2>2, MemCommits DEF MemInv, MemTypes
<1>3. MemPlace(t)'
  <2>1. at'[t] = "holds" /\ MemPlace(t)
    BY <1>1 DEF MemInv, MemTypes
  <2>2. dirty'[t] = dirty[t] \ {"globals"} /\ dirty[t] \subseteq {"heap", "globals"}
    BY <1>1, MemCommits DEF MemInv, MemTypes, Mem!Segments
  <2>3. dirty'[t] = {}
    BY <1>1, <2>1, <2>2 DEF MemPlace
  <2> QED
    BY <1>1, <2>1, <2>3 DEF MemPlace
<1>4. MemView(t)'
  <2>1. view'[t] \in [Mem!Segments -> Nat] /\ version' \in [Mem!Segments -> Nat]
    BY <1>1, MemCommits
  <2>2. view'[t]["heap"] = version'["heap"] /\ view'[t]["globals"] = version'["globals"]
    BY <1>1, MemCommits DEF MemInv, MemView, Mem!Segments
  <2>3. view'[t] = version' /\ moment'[t] = version' /\ at'[t] = "holds"
    BY <1>1, <2>1, <2>2 DEF MemInv, MemTypes, Mem!Segments
  <2> QED
    BY <2>3 DEF MemView
<1>5. ASSUME NEW u \in MemThreads \ {t} PROVE MemPlace(u)' /\ MemView(u)'
  <2>1. at'[u] = at[u] /\ view'[u] = view[u] /\ dirty'[u] = dirty[u] /\ moment'[u] = moment[u]
    BY <1>1, MemCommits DEF MemInv, MemTypes
  <2>2. MemPlace(u) /\ MemView(u) /\ MemPlace(t)
    BY DEF MemInv
  <2>3. at[u] # "globals"
    BY <1>1, <2>2 DEF MemPlace
  <2>4. MemPlace(u)'
    BY <1>1, <2>1, <2>2 DEF MemPlace
  <2> QED
    BY <1>1, <2>1, <2>2, <2>3, <2>4 DEF MemView
<1> QED
  BY <1>2, <1>3, <1>5, <1>4 DEF MemInv

(* cond_wait's commit without the token makes no version.                  *)
LEMMA MemWokenGlobals ==
  ASSUME MemInv, NEW t \in MemThreads, Mem!WokenGlobals(t) PROVE MemInv' /\ version' = version
<1>1. "globals" \in Mem!Segments /\ Mem!CommitAndUpdate(t, "globals") /\ UNCHANGED <<asleep, holder, moment>>
      /\ at[t] = "wokeglobals" /\ at' = [at EXCEPT ![t] = "wait"]
  BY DEF Mem!WokenGlobals, Mem!Segments, Mem!Goto, Mem!WokeAndLocks
<1>2. MemTypes'
  <2>1. at' \in [MemThreads -> MemPlaces]
    BY <1>1 DEF MemInv, MemTypes, MemPlaces
  <2> QED
    BY <1>1, <2>1, MemCommits DEF MemInv, MemTypes
<1>3. version' = version
  <2>1. dirty[t] = {}
    BY <1>1 DEF MemInv, MemPlace
  <2> QED
    BY <1>1, <2>1, MemCommits
<1>4. MemPlace(t)' /\ MemView(t)'
  BY <1>1, MemCommits DEF MemInv, MemTypes, MemPlace, MemView
<1>5. ASSUME NEW u \in MemThreads \ {t} PROVE MemPlace(u)' /\ MemView(u)'
  <2>1. at'[u] = at[u] /\ view'[u] = view[u] /\ dirty'[u] = dirty[u]
    BY <1>1, MemCommits DEF MemInv, MemTypes
  <2>2. MemPlace(u) /\ MemView(u)
    BY DEF MemInv
  <2>3. MemPlace(u)'
    BY <1>1, <2>1, <2>2 DEF MemPlace
  <2> QED
    BY <1>1, <1>3, <2>1, <2>2, <2>3 DEF MemView
<1> QED
  BY <1>2, <1>3, <1>4, <1>5 DEF MemInv

(* forkSpawn's child starts in its creator's version and waits for the     *)
(* token before it runs.                                                   *)
LEMMA MemClone ==
  ASSUME MemInv, NEW p \in MemThreads, NEW t \in MemThreads, Mem!Clone(p, t) PROVE MemInv'
<1>1. at[t] = "none" /\ view' = [view EXCEPT ![t] = view[p]] /\ at' = [at EXCEPT ![t] = "wait"]
      /\ UNCHANGED <<version, dirty, asleep, holder, moment>>
  BY DEF Mem!Clone, Mem!Goto
<1>2. MemTypes'
  <2>1. at' \in [MemThreads -> MemPlaces]
    BY <1>1 DEF MemInv, MemTypes, MemPlaces
  <2>2. view' \in [MemThreads -> [Mem!Segments -> Nat]]
    BY <1>1 DEF MemInv, MemTypes
  <2> QED
    BY <1>1, <2>1, <2>2 DEF MemInv, MemTypes
<1>3. MemPlace(t)' /\ MemView(t)'
  BY <1>1 DEF MemInv, MemTypes, MemPlace, MemView
<1>4. ASSUME NEW u \in MemThreads \ {t} PROVE MemPlace(u)' /\ MemView(u)'
  <2>1. at'[u] = at[u] /\ view'[u] = view[u]
    BY <1>1 DEF MemInv, MemTypes
  <2>2. MemPlace(u) /\ MemView(u)
    BY DEF MemInv
  <2>3. MemPlace(u)'
    BY <1>1, <2>1, <2>2 DEF MemPlace
  <2> QED
    BY <1>1, <2>1, <2>2, <2>3 DEF MemView
<1> QED
  BY <1>2, <1>3, <1>4 DEF MemInv

(* Every step keeps the invariant.                                         *)
LEMMA MemInvStep ==
  ASSUME NoHolder \notin MemThreads, First \in MemThreads, MemInv, [Mem!Next]_Mem!vars PROVE MemInv'
<1> USE DEF Mem!Goto, Mem!conv, MemPlaces
<1>1. CASE UNCHANGED Mem!vars
  BY <1>1 DEF Mem!vars, MemInv, MemTypes, MemPlace, MemView
<1>2. CASE Mem!Constructor
  <2>1. dirty' \in [MemThreads -> SUBSET Mem!Segments]
    BY <1>2 DEF Mem!Constructor, MemInv, MemTypes, Mem!Segments
  <2>2. MemPlace(First)' /\ MemView(First)'
    BY <1>2 DEF Mem!Constructor, MemInv, MemTypes, MemPlace, MemView
  <2>3. \A u \in MemThreads \ {First} : dirty'[u] = dirty[u] /\ asleep'[u] = asleep[u] /\ (holder' = u <=> holder = u)
    BY <1>2 DEF Mem!Constructor, MemInv, MemTypes
  <2>4. at' = [at EXCEPT ![First] = "run"] /\ UNCHANGED <<version, view, moment, asleep>>
    BY <1>2 DEF Mem!Constructor
  <2> QED
    BY <2>1, <2>2, <2>3, <2>4, MemMove DEF MemInv, MemTypes
<1>3. CASE \E p, t \in MemThreads : Mem!Clone(p, t)
  BY <1>3, MemClone
<1>4. ASSUME NEW t \in MemThreads, Mem!Write(t) PROVE MemInv'
  <2>0. PICK a \in Addresses : dirty' = [dirty EXCEPT ![t] = @ \cup Mem!Target(a)]
    BY <1>4 DEF Mem!Write
  <2>1. dirty' \in [MemThreads -> SUBSET Mem!Segments]
    BY <2>0 DEF Mem!Target, MemInv, MemTypes
  <2>4. at[t] = "run" /\ UNCHANGED <<version, view, moment, asleep, at, holder>>
    BY <1>4 DEF Mem!Write
  <2>5. at' = [at EXCEPT ![t] = "run"]
    BY <2>4 DEF MemInv, MemTypes
  <2>2. MemPlace(t)' /\ MemView(t)'
    BY <2>4, <2>5 DEF MemInv, MemTypes, MemPlace, MemView
  <2>3. \A u \in MemThreads \ {t} : dirty'[u] = dirty[u] /\ asleep'[u] = asleep[u] /\ (holder' = u <=> holder = u)
    BY <2>0, <2>4 DEF MemInv, MemTypes
  <2> QED
    BY <2>1, <2>2, <2>3, <2>4, <2>5, MemMove DEF MemInv, MemTypes
<1>5. ASSUME NEW t \in MemThreads, Mem!WaitToken(t) \/ Mem!GetToken(t) \/ Mem!PutToken(t) PROVE MemInv'
  <2>1. PICK l \in MemPlaces : at' = [at EXCEPT ![t] = l]
    BY <1>5 DEF Mem!WaitToken, Mem!GetToken, Mem!PutToken
  <2>2. UNCHANGED <<version, view, moment, dirty, asleep>>
    BY <1>5 DEF Mem!WaitToken, Mem!GetToken, Mem!PutToken
  <2>3. MemPlace(t)' /\ MemView(t)'
    BY <1>5 DEF Mem!WaitToken, Mem!GetToken, Mem!PutToken, MemInv, MemTypes, MemPlace, MemView
  <2>4. \A u \in MemThreads \ {t} : holder' = u <=> holder = u
    BY <1>5 DEF Mem!WaitToken, Mem!GetToken, Mem!PutToken, MemInv, MemPlace
  <2> QED
    BY <2>1, <2>2, <2>3, <2>4, MemMove DEF MemInv, MemTypes
<1>6. ASSUME NEW t \in MemThreads, Mem!Sleep(t) \/ Mem!Wake(t) \/ Mem!Finish(t) PROVE MemInv'
  <2>1. PICK l \in MemPlaces : at' = [at EXCEPT ![t] = l]
    BY <1>6 DEF Mem!Sleep, Mem!Wake, Mem!Finish
  <2>2. UNCHANGED <<version, view, moment, dirty>>
    BY <1>6 DEF Mem!Sleep, Mem!Wake, Mem!Finish
  <2>3. asleep' \in [MemThreads -> BOOLEAN] /\ \A u \in MemThreads \ {t} : asleep'[u] = asleep[u]
    BY <1>6 DEF Mem!Sleep, Mem!Wake, Mem!Finish, MemInv, MemTypes
  <2>4. MemPlace(t)' /\ MemView(t)'
    BY <1>6 DEF Mem!Sleep, Mem!Wake, Mem!Finish, MemInv, MemTypes, MemPlace, MemView
  <2>5. \A u \in MemThreads \ {t} : holder' = u <=> holder = u
    BY <1>6 DEF Mem!Sleep, Mem!Wake, Mem!Finish, MemInv, MemPlace
  <2> QED
    BY <2>1, <2>2, <2>3, <2>4, <2>5, MemMove DEF MemInv, MemTypes
<1> QED
  BY <1>1, <1>2, <1>3, <1>4, <1>5, <1>6, MemCommitHeap, MemCommitGlobals, MemWokenGlobals DEF Mem!Next

(* For any number of threads and any addresses the program writes to: what *)
(* a thread sees of the heap and of the globals while it runs is what they *)
(* were when it last committed with the token, although other threads that *)
(* wake up commit without it.                                              *)
THEOREM MemoryOfOneMoment ==
  ASSUME NoHolder \notin MemThreads, First \in MemThreads
  PROVE  Mem!Spec => []OneMoment
<1>1. Mem!Init => MemInv
  BY MemInvInit
<1>2. MemInv /\ [Mem!Next]_Mem!vars => MemInv'
  BY MemInvStep
<1>3. MemInv => Mem!OneMoment
  BY DEF MemInv, MemPlace, MemView, Mem!OneMoment
<1> QED
  BY <1>1, <1>2, <1>3, PTL DEF OneMoment, Mem!Spec

(* A commit that a thread makes without the token, after it was woken,     *)
(* makes no version of either segment: only the holder of the token does.  *)
VersionsByHolder == [][version' # version => holder \in MemThreads /\ holder' = holder]_Mem!vars

(* In any execution, the token orders the versions of both segments,       *)
(* although cond_wait commits without it.                                  *)
THEOREM HolderMakesVersions ==
  ASSUME NoHolder \notin MemThreads, First \in MemThreads
  PROVE  Mem!Spec => VersionsByHolder
<1>1. Mem!Init => MemInv
  BY MemInvInit
<1>2. MemInv /\ [Mem!Next]_Mem!vars => MemInv'
  BY MemInvStep
<1>3. MemInv /\ [Mem!Next]_Mem!vars => [version' # version => holder \in MemThreads /\ holder' = holder]_Mem!vars
  <2> SUFFICES ASSUME MemInv, Mem!Next, version' # version PROVE holder \in MemThreads /\ holder' = holder
    BY DEF Mem!vars, Mem!conv
  <2>1. PICK t \in MemThreads : Mem!CommitHeap(t) \/ Mem!CommitGlobals(t)
    BY MemWokenGlobals DEF Mem!Next, Mem!Constructor, Mem!Clone, Mem!Write, Mem!WaitToken, Mem!GetToken, Mem!PutToken,
                           Mem!Sleep, Mem!Wake, Mem!Finish, Mem!vars, Mem!conv
  <2>2. MemPlace(t) /\ holder' = holder
    BY <2>1 DEF MemInv, Mem!CommitHeap, Mem!CommitGlobals
  <2>3. at[t] # "wokeheap"
    <3> SUFFICES ASSUME at[t] = "wokeheap" PROVE FALSE
      OBVIOUS
    <3>1. dirty[t] = {} /\ Mem!CommitAndUpdate(t, "heap") /\ "heap" \in Mem!Segments
      BY <2>1, <2>2 DEF MemPlace, Mem!CommitHeap, Mem!CommitGlobals, Mem!Segments
    <3> QED
      BY <3>1, MemCommits
  <2> QED
    BY <2>1, <2>2, <2>3 DEF MemPlace, Mem!CommitHeap, Mem!CommitGlobals
<1> QED
  BY <1>1, <1>2, <1>3, PTL DEF Mem!Spec, VersionsByHolder

-----------------------------------------------------------------------------
(***************************************************************************)
(* SyncEntries: one entry per mutex, whatever version of memory a thread   *)
(* looks at.                                                               *)
(***************************************************************************)
Numbers == 1 .. NumEntries
Made    == Dynamic \cup Conds

(* The kinds of objects are apart.                                         *)
SyncBounds == NumEntries \in Nat /\ Static \notin Made /\ Dynamic \cap Conds = {}

Ptr(o)   == <<"ptr", o>>
Flag(o)  == <<"ready", o>>
M(o)     == master[Ptr(o)]

(* The types of the variables that the argument uses.                      *)
SyncTypes ==
  /\ DOMAIN master = Sync!Cells /\ \A o \in Sync!Objects : M(o) \in Numbers \cup {0}
  /\ DOMAIN snap = SyncThreads /\ DOMAIN own = SyncThreads
  /\ \A t \in SyncThreads :
       DOMAIN snap[t] = Sync!Cells /\ \A o \in Sync!Objects : snap[t][Ptr(o)] \in Numbers \cup {0}
  /\ DOMAIN acquired = Numbers
  /\ free \in Seq(Numbers)
  /\ DOMAIN place = SyncThreads /\ DOMAIN obj = SyncThreads
  /\ DOMAIN entry = SyncThreads /\ \A t \in SyncThreads : DOMAIN entry[t] = Sync!Mutexes

(* What a thread has written and not committed: the pointers and flags of  *)
(* mutexes it destroyed.  Only a thread in the section has such writes.    *)
OwnWrites(t) ==
  /\ DOMAIN own[t] \subseteq {"ptr", "ready"} \X Dynamic
  /\ \A m \in Dynamic : Ptr(m) \in DOMAIN own[t] <=> Flag(m) \in DOMAIN own[t]
  /\ \A m \in Dynamic : Ptr(m) \in DOMAIN own[t] => own[t][Ptr(m)] = 0 /\ own[t][Flag(m)] = FALSE
  /\ IF Sync!InSection(t) THEN \A c \in Sync!Cells : snap[t][c] = master[c] ELSE DOMAIN own[t] = {}

Gone(o) == \E t \in SyncThreads : Ptr(o) \in DOMAIN own[t]

(* The committed pointers: an object that is ready has an entry, which no  *)
(* other object has and which is not free.                                 *)
Pointers ==
  /\ \A o \in Made : master[Flag(o)] = (M(o) # 0)
  /\ \A o, q \in Sync!Objects : M(o) = M(q) /\ M(o) # 0 => o = q
  /\ \A o \in Sync!Objects, i \in DOMAIN free : ~Gone(o) => free[i] # M(o)
  /\ \A i, j \in DOMAIN free : free[i] = free[j] => i = j

(* A mutex that a thread has: the thread's pointer is the committed one,   *)
(* and its entry is acquired.                                              *)
HeldEntries ==
  \A t \in SyncThreads, m \in Sync!Mutexes :
    entry[t][m] # 0 =>
      entry[t][m] = M(m) /\ snap[t][Ptr(m)] = M(m) /\ ~Gone(m) /\ acquired[M(m)] = TRUE

HeldByOne == \A t, u \in SyncThreads, m \in Sync!Mutexes : entry[t][m] # 0 /\ entry[u][m] # 0 => t = u

StaticPointer == \A t \in SyncThreads : snap[t][Ptr(Static)] \in {0, M(Static)}

Holds == HeldEntries /\ HeldByOne /\ StaticPointer

(* The object of the call a thread is in.                                  *)
Calls(t) ==
  /\ place[t] \in {"run", "lock", "retry", "unlock", "init", "use"}
  /\ place[t] \in {"lock", "retry"} =>
       obj[t] \in Sync!Mutexes /\ entry[t][obj[t]] = 0 /\ (obj[t] # Static => Sync!InSection(t) /\ Sync!Ready(t, obj[t]))
  /\ place[t] = "unlock" => obj[t] \in Sync!Mutexes /\ entry[t][obj[t]] # 0
  /\ place[t] = "init" => Sync!InSection(t) /\ obj[t] \in Made /\ ~Sync!Ready(t, obj[t])
  /\ place[t] = "use" => Sync!InSection(t) /\ obj[t] \in Conds /\ Sync!Ready(t, obj[t])

SyncInv ==
  /\ SyncTypes /\ Pointers /\ Holds /\ ~crashed
  /\ \A t \in SyncThreads : OwnWrites(t) /\ Calls(t)

-----------------------------------------------------------------------------
(* The cells of an object.                                                 *)
LEMMA CellsOf ==
  /\ \A o \in Sync!Objects : Ptr(o) \in Sync!Cells /\ Flag(o) \in Sync!Cells
  /\ \A o, q : Ptr(o) # Flag(q) /\ (Ptr(o) = Ptr(q) => o = q) /\ (Flag(o) = Flag(q) => o = q)
  /\ {"ptr", "ready"} \X Dynamic \subseteq Sync!Cells
  /\ Static \in Sync!Mutexes /\ Sync!Mutexes \subseteq Sync!Objects /\ Made \subseteq Sync!Objects
  /\ Dynamic \subseteq Made /\ Conds \subseteq Made /\ \A m \in Sync!Mutexes : m # Static => m \in Dynamic
  /\ \A o \in Made : o # Static => o \in Dynamic \cup Conds
BY DEF Ptr, Flag, Sync!Cells, Sync!Objects, Sync!Mutexes, Made

(* What a thread sees, by cell.                                            *)
LEMMA Views ==
  ASSUME SyncInv, NEW t \in SyncThreads, NEW o \in Sync!Objects
  PROVE  /\ Sync!getSyncEntry(Sync!View(t), o) = IF Ptr(o) \in DOMAIN own[t] THEN 0 ELSE snap[t][Ptr(o)]
         /\ Sync!getSyncEntry(Sync!Committed(t), o) = IF Ptr(o) \in DOMAIN own[t] THEN 0 ELSE M(o)
         /\ Sync!Ready(t, o) <=> (IF Flag(o) \in DOMAIN own[t] THEN own[t][Flag(o)] ELSE snap[t][Flag(o)])
<1>1. SyncTypes /\ OwnWrites(t)
  BY DEF SyncInv
<1>2. DOMAIN snap[t] = Sync!Cells /\ DOMAIN master = Sync!Cells /\ DOMAIN own[t] \subseteq Sync!Cells
  BY <1>1, CellsOf DEF SyncTypes, OwnWrites
<1>3. Ptr(o) \in Sync!Cells /\ Flag(o) \in Sync!Cells
  BY CellsOf
<1>4. Ptr(o) \in DOMAIN own[t] => own[t][Ptr(o)] = 0
  BY <1>1 DEF OwnWrites, Ptr
<1>5. Sync!View(t)[Ptr(o)] = IF Ptr(o) \in DOMAIN own[t] THEN own[t][Ptr(o)] ELSE snap[t][Ptr(o)]
  BY <1>2, <1>3 DEF Sync!View, Sync!Over
<1>6. Sync!Committed(t)[Ptr(o)] = IF Ptr(o) \in DOMAIN own[t] THEN own[t][Ptr(o)] ELSE master[Ptr(o)]
  BY <1>2, <1>3 DEF Sync!Committed, Sync!Over
<1>7. Sync!View(t)[Flag(o)] = IF Flag(o) \in DOMAIN own[t] THEN own[t][Flag(o)] ELSE snap[t][Flag(o)]
  BY <1>2, <1>3 DEF Sync!View, Sync!Over
<1> QED
  BY <1>4, <1>5, <1>6, <1>7 DEF Sync!getSyncEntry, Sync!Ready, M, Ptr, Flag

(* In the section a thread sees what is committed, but for what it has     *)
(* destroyed.                                                              *)
LEMMA SectionViews ==
  ASSUME SyncInv, NEW t \in SyncThreads, Sync!InSection(t), NEW o \in Sync!Objects
  PROVE  /\ Sync!getSyncEntry(Sync!View(t), o) = IF Ptr(o) \in DOMAIN own[t] THEN 0 ELSE M(o)
         /\ o \in Made => (Sync!Ready(t, o) <=> (Ptr(o) \notin DOMAIN own[t] /\ M(o) # 0))
         /\ Gone(o) <=> Ptr(o) \in DOMAIN own[t]
<1>1. OwnWrites(t) /\ Pointers /\ Holds
  BY DEF SyncInv
<1>2. snap[t][Ptr(o)] = master[Ptr(o)] /\ snap[t][Flag(o)] = master[Flag(o)]
  BY <1>1, CellsOf DEF OwnWrites
<1>3. ASSUME o \in Made PROVE Sync!Ready(t, o) <=> (Ptr(o) \notin DOMAIN own[t] /\ M(o) # 0)
  <2>1. Flag(o) \in DOMAIN own[t] <=> Ptr(o) \in DOMAIN own[t]
    BY <1>1 DEF OwnWrites, Ptr, Flag
  <2>2. Flag(o) \in DOMAIN own[t] => own[t][Flag(o)] = FALSE
    BY <1>1 DEF OwnWrites, Ptr, Flag
  <2>3. master[Flag(o)] = (M(o) # 0)
    BY <1>1, <1>3 DEF Pointers
  <2>4. Sync!Ready(t, o) <=> (IF Flag(o) \in DOMAIN own[t] THEN own[t][Flag(o)] ELSE snap[t][Flag(o)])
    BY Views
  <2> QED
    BY <1>2, <2>1, <2>2, <2>3, <2>4
<1>4. ASSUME NEW u \in SyncThreads, u # t PROVE DOMAIN own[u] = {}
  <2>1. ~Sync!InSection(u)
    BY <1>1, <1>4, CellsOf DEF Holds, HeldEntries, HeldByOne, StaticPointer, Sync!InSection, Sync!Null
  <2> QED
    BY <2>1 DEF SyncInv, OwnWrites
<1>5. Gone(o) <=> Ptr(o) \in DOMAIN own[t]
  BY <1>4 DEF Gone
<1> QED
  BY <1>2, <1>3, <1>5, Views DEF M

(* A commit, by cell.                                                      *)
LEMMA Committing ==
  ASSUME SyncInv, NEW t \in SyncThreads, NEW w, DOMAIN w \subseteq Sync!Cells, Sync!CommitWrites(t, w)
  PROVE  /\ DOMAIN master' = Sync!Cells
         /\ \A c \in Sync!Cells : master'[c] = IF c \in DOMAIN w THEN w[c]
                                               ELSE IF c \in DOMAIN own[t] THEN own[t][c] ELSE master[c]
         /\ DOMAIN snap' = SyncThreads /\ snap'[t] = master' /\ \A u \in SyncThreads \ {t} : snap'[u] = snap[u]
         /\ DOMAIN own' = SyncThreads /\ DOMAIN own'[t] = {} /\ \A u \in SyncThreads \ {t} : own'[u] = own[u]
<1>1. SyncTypes /\ OwnWrites(t)
  BY DEF SyncInv
<1>2. DOMAIN snap = SyncThreads /\ DOMAIN own = SyncThreads /\ DOMAIN master = Sync!Cells /\ DOMAIN own[t] \subseteq Sync!Cells
  BY <1>1, CellsOf DEF SyncTypes, OwnWrites
<1>3. /\ master' = Sync!Over(Sync!Over(w, own[t]), master)
      /\ snap' = [snap EXCEPT ![t] = master'] /\ own' = [own EXCEPT ![t] = <<>>]
  BY DEF Sync!CommitWrites
<1>4. /\ DOMAIN Sync!Over(w, own[t]) = DOMAIN w \cup DOMAIN own[t]
      /\ \A c \in DOMAIN w \cup DOMAIN own[t] : Sync!Over(w, own[t])[c] = IF c \in DOMAIN w THEN w[c] ELSE own[t][c]
  BY DEF Sync!Over
<1>5. /\ DOMAIN master' = DOMAIN Sync!Over(w, own[t]) \cup DOMAIN master
      /\ \A c \in DOMAIN Sync!Over(w, own[t]) \cup DOMAIN master :
           master'[c] = IF c \in DOMAIN Sync!Over(w, own[t]) THEN Sync!Over(w, own[t])[c] ELSE master[c]
  BY <1>3 DEF Sync!Over
<1>6. DOMAIN master' = Sync!Cells
  BY <1>2, <1>4, <1>5
<1>7. \A c \in Sync!Cells : master'[c] = IF c \in DOMAIN w THEN w[c]
                                        ELSE IF c \in DOMAIN own[t] THEN own[t][c] ELSE master[c]
  BY <1>2, <1>4, <1>5
<1>8. DOMAIN snap' = SyncThreads /\ snap'[t] = master' /\ \A u \in SyncThreads \ {t} : snap'[u] = snap[u]
  BY <1>2, <1>3
<1>9. DOMAIN own' = SyncThreads /\ own'[t] = <<>> /\ \A u \in SyncThreads \ {t} : own'[u] = own[u]
  BY <1>2, <1>3
<1> QED
  BY <1>6, <1>7, <1>8, <1>9

(* What a step leaves alone of a thread keeps its call.                    *)
LEMMA CallsKept ==
  ASSUME NEW u \in SyncThreads, Calls(u), place'[u] = place[u], obj'[u] = obj[u], entry'[u] = entry[u],
         own'[u] = own[u], snap'[u] = snap[u]
  PROVE  Calls(u)'
BY DEF Calls, Sync!InSection, Sync!Ready, Sync!View, Sync!Over, Sync!Null

(* Nobody else is in the section.                                          *)
LEMMA AloneInSection ==
  ASSUME SyncInv, NEW t \in SyncThreads, Sync!InSection(t), NEW u \in SyncThreads, u # t
  PROVE  ~Sync!InSection(u) /\ DOMAIN own[u] = {}
<1>1. ~Sync!InSection(u)
  BY CellsOf DEF SyncInv, Holds, HeldEntries, HeldByOne, StaticPointer, Sync!InSection, Sync!Null
<1> QED
  BY <1>1 DEF SyncInv, OwnWrites

(* A commit with nothing new: what the thread destroyed loses its pointer, *)
(* everything else stays.                                                  *)
LEMMA QuietCommit ==
  ASSUME SyncBounds, SyncInv, NEW t \in SyncThreads, Sync!CommitWrites(t, <<>>)
  PROVE  /\ \A o \in Sync!Objects : M(o)' = IF Ptr(o) \in DOMAIN own[t] THEN 0 ELSE M(o)
         /\ \A o \in Sync!Objects : Gone(o)' <=> \E u \in SyncThreads \ {t} : Ptr(o) \in DOMAIN own[u]
         /\ \A u \in SyncThreads, m \in Sync!Mutexes :
              entry[u][m] # 0 => M(m)' = M(m) /\ snap'[u][Ptr(m)] = M(m) /\ ~Gone(m)'
         /\ \A u \in SyncThreads : snap'[u][Ptr(Static)] \in {0, M(Static)'}
         /\ \A u \in SyncThreads : u = t \/ Sync!InSection(u) => \A c \in Sync!Cells : snap'[u][c] = master'[c]
         /\ free' = free => Pointers'
<1>1. /\ DOMAIN master' = Sync!Cells
      /\ \A c \in Sync!Cells : master'[c] = IF c \in DOMAIN own[t] THEN own[t][c] ELSE master[c]
      /\ snap'[t] = master' /\ \A u \in SyncThreads \ {t} : snap'[u] = snap[u]
      /\ DOMAIN own'[t] = {} /\ \A u \in SyncThreads \ {t} : own'[u] = own[u]
  <2>1. DOMAIN <<>> = {} /\ DOMAIN <<>> \subseteq Sync!Cells
    OBVIOUS
  <2> QED
    BY <2>1, Committing
<1>2. SyncTypes /\ Pointers /\ Holds /\ OwnWrites(t)
  BY DEF SyncInv
<1>3. \A o \in Sync!Objects : M(o)' = IF Ptr(o) \in DOMAIN own[t] THEN 0 ELSE M(o)
  BY <1>1, <1>2, CellsOf DEF M, OwnWrites, Ptr
<1>4. \A o \in Sync!Objects : Gone(o)' <=> \E u \in SyncThreads \ {t} : Ptr(o) \in DOMAIN own[u]
  BY <1>1 DEF Gone
<1>5. ASSUME NEW u \in SyncThreads, NEW m \in Sync!Mutexes, entry[u][m] # 0
      PROVE  M(m)' = M(m) /\ snap'[u][Ptr(m)] = M(m) /\ ~Gone(m)'
  <2>1. snap[u][Ptr(m)] = M(m) /\ ~Gone(m)
    BY <1>2, <1>5 DEF Holds, HeldEntries, HeldByOne, StaticPointer
  <2>2. Ptr(m) \notin DOMAIN own[t] /\ m \in Sync!Objects
    BY <2>1, CellsOf DEF Gone
  <2>3. M(m)' = M(m)
    BY <1>3, <2>2
  <2>4. ~Gone(m)'
    BY <1>4, <2>1, <2>2 DEF Gone
  <2>5. snap'[u][Ptr(m)] = M(m)
    BY <1>1, <2>1, <2>3 DEF M
  <2> QED
    BY <2>3, <2>4, <2>5
<1>6. ASSUME NEW u \in SyncThreads PROVE snap'[u][Ptr(Static)] \in {0, M(Static)'}
  <2>1. Ptr(Static) \notin DOMAIN own[t] /\ Static \in Sync!Objects
    BY <1>2, CellsOf DEF OwnWrites, Ptr, SyncBounds, Made
  <2>2. M(Static)' = M(Static)
    BY <1>3, <2>1
  <2> QED
    BY <1>1, <1>2, <2>2 DEF Holds, HeldEntries, HeldByOne, StaticPointer, M
<1>7. ASSUME NEW u \in SyncThreads, u = t \/ Sync!InSection(u) PROVE \A c \in Sync!Cells : snap'[u][c] = master'[c]
  <2>1. CASE u = t
    BY <1>1, <2>1
  <2>2. CASE u # t
    <3>1. DOMAIN own[t] = {}
      BY <1>7, <2>2, AloneInSection
    <3>2. \A c \in Sync!Cells : snap[u][c] = master[c]
      BY <1>7, <2>2 DEF SyncInv, OwnWrites
    <3> QED
      BY <1>1, <2>2, <3>1, <3>2
  <2> QED
    BY <2>1, <2>2
<1>8. ASSUME free' = free PROVE Pointers'
  <2>1. \A o \in Made : master'[Flag(o)] = (M(o)' # 0)
    <3> SUFFICES ASSUME NEW o \in Made PROVE master'[Flag(o)] = (M(o)' # 0)
      OBVIOUS
    <3>1. o \in Sync!Objects /\ Flag(o) \in Sync!Cells
      BY CellsOf
    <3>2. CASE Ptr(o) \in DOMAIN own[t]
      <4>1. Flag(o) \in DOMAIN own[t] /\ own[t][Flag(o)] = FALSE
        BY <1>2, <3>2 DEF OwnWrites, Ptr, Flag
      <4> QED
        BY <1>1, <1>3, <3>1, <3>2, <4>1
    <3>3. CASE Ptr(o) \notin DOMAIN own[t]
      <4>1. Flag(o) \notin DOMAIN own[t]
        BY <1>2, <3>3 DEF OwnWrites, Ptr, Flag
      <4>2. master[Flag(o)] = (M(o) # 0)
        BY <1>2 DEF Pointers
      <4>3. master'[Flag(o)] = master[Flag(o)] /\ M(o)' = M(o)
        BY <1>1, <1>3, <3>1, <3>3, <4>1
      <4> QED
        BY <4>2, <4>3
    <3> QED
      BY <3>2, <3>3
  <2>2. \A o, q \in Sync!Objects : M(o)' = M(q)' /\ M(o)' # 0 => o = q
    BY <1>2, <1>3 DEF Pointers
  <2>3. ASSUME NEW o \in Sync!Objects, NEW i \in DOMAIN free, ~Gone(o)' PROVE free[i] # M(o)'
    <3>1. CASE Ptr(o) \in DOMAIN own[t]
      <4>1. M(o)' = 0
        BY <1>3, <3>1
      <4>2. free[i] \in Numbers
        BY <1>2 DEF SyncTypes
      <4> QED
        BY <4>1, <4>2 DEF Numbers, SyncBounds
    <3>2. CASE Ptr(o) \notin DOMAIN own[t]
      <4>1. ~Gone(o)
        BY <1>4, <2>3, <3>2 DEF Gone
      <4> QED
        BY <1>2, <1>3, <3>2, <4>1 DEF Pointers
    <3> QED
      BY <3>1, <3>2
  <2>4. \A i, j \in DOMAIN free : free[i] = free[j] => i = j
    BY <1>2 DEF Pointers
  <2> QED
    BY <1>8, <2>1, <2>2, <2>3, <2>4 DEF Pointers
<1> QED
  BY <1>3, <1>4, <1>5, <1>6, <1>7, <1>8

(* A commit of the pointer to a new entry, by the only thread that may be  *)
(* in the section.                                                         *)
LEMMA NewEntryCommit ==
  ASSUME SyncBounds, SyncInv, NEW t \in SyncThreads, NEW w, Sync!CommitWrites(t, w), NEW o \in Sync!Objects,
         DOMAIN w \subseteq {Ptr(o), Flag(o)}, Ptr(o) \in DOMAIN w, w[Ptr(o)] = Head(free),
         o \in Made => Flag(o) \in DOMAIN w /\ w[Flag(o)] = TRUE,
         free # <<>>, M(o) = 0 \/ Ptr(o) \in DOMAIN own[t],
         \A u \in SyncThreads \ {t} : ~Sync!InSection(u)
  PROVE  /\ \A q \in Sync!Objects : M(q)' = IF q = o THEN Head(free) ELSE IF Ptr(q) \in DOMAIN own[t] THEN 0 ELSE M(q)
         /\ \A q \in Sync!Objects : ~Gone(q)'
         /\ \A u \in SyncThreads, m \in Sync!Mutexes :
              entry[u][m] # 0 => m # o /\ M(m)' = M(m) /\ snap'[u][Ptr(m)] = M(m) /\ M(m) # Head(free)
         /\ \A u \in SyncThreads : snap'[u][Ptr(Static)] \in {0, M(Static)'}
         /\ \A c \in Sync!Cells : snap'[t][c] = master'[c]
         /\ free' = Tail(free) => Pointers'
<1>0. DOMAIN w \subseteq Sync!Cells
  BY CellsOf
<1>1. /\ DOMAIN master' = Sync!Cells
      /\ \A c \in Sync!Cells : master'[c] = IF c \in DOMAIN w THEN w[c] ELSE IF c \in DOMAIN own[t] THEN own[t][c] ELSE master[c]
      /\ snap'[t] = master' /\ \A u \in SyncThreads \ {t} : snap'[u] = snap[u]
      /\ DOMAIN own'[t] = {} /\ \A u \in SyncThreads \ {t} : own'[u] = own[u]
  BY <1>0, Committing
<1>2. SyncTypes /\ Pointers /\ Holds /\ OwnWrites(t)
  BY DEF SyncInv
<1>a. \A u \in SyncThreads \ {t} : DOMAIN own[u] = {}
  BY DEF SyncInv, OwnWrites
<1>f. Head(free) \in Numbers /\ Head(free) # 0 /\ Head(free) = free[1] /\ 1 \in DOMAIN free
  <2>1. Head(free) \in Numbers /\ Head(free) = free[1] /\ 1 \in DOMAIN free
    BY <1>2 DEF SyncTypes
  <2> QED
    BY <2>1 DEF Numbers, SyncBounds
<1>3. \A q \in Sync!Objects : M(q)' = IF q = o THEN Head(free) ELSE IF Ptr(q) \in DOMAIN own[t] THEN 0 ELSE M(q)
  <2> SUFFICES ASSUME NEW q \in Sync!Objects
               PROVE  M(q)' = IF q = o THEN Head(free) ELSE IF Ptr(q) \in DOMAIN own[t] THEN 0 ELSE M(q)
    OBVIOUS
  <2>1. Ptr(q) \in Sync!Cells /\ (Ptr(q) \in DOMAIN w <=> q = o)
    BY CellsOf
  <2>2. Ptr(q) \in DOMAIN own[t] => own[t][Ptr(q)] = 0
    BY <1>2 DEF OwnWrites, Ptr
  <2> QED
    BY <1>1, <2>1, <2>2 DEF M
<1>4. \A q \in Sync!Objects : ~Gone(q)'
  BY <1>1, <1>a DEF Gone
<1>5. \A q \in Sync!Objects : Gone(q) <=> Ptr(q) \in DOMAIN own[t]
  BY <1>a DEF Gone
<1>6. ASSUME NEW u \in SyncThreads, NEW m \in Sync!Mutexes, entry[u][m] # 0
      PROVE  m # o /\ M(m)' = M(m) /\ snap'[u][Ptr(m)] = M(m) /\ M(m) # Head(free)
  <2>1. snap[u][Ptr(m)] = M(m) /\ ~Gone(m) /\ M(m) # 0 /\ m \in Sync!Objects
    BY <1>2, <1>6, CellsOf DEF Holds, HeldEntries, HeldByOne, StaticPointer
  <2>2. m # o /\ Ptr(m) \notin DOMAIN own[t]
    BY <1>5, <2>1
  <2>3. M(m)' = M(m)
    BY <1>3, <2>1, <2>2
  <2>4. M(m) # Head(free)
    BY <1>2, <1>f, <2>1 DEF Pointers
  <2>5. snap'[u][Ptr(m)] = M(m)
    BY <1>1, <2>1, <2>3 DEF M
  <2> QED
    BY <2>2, <2>3, <2>4, <2>5
<1>7. ASSUME NEW u \in SyncThreads PROVE snap'[u][Ptr(Static)] \in {0, M(Static)'}
  <2>1. Ptr(Static) \notin DOMAIN own[t] /\ Static \in Sync!Objects
    BY <1>2, CellsOf DEF OwnWrites, Ptr, SyncBounds, Made
  <2>2. snap[u][Ptr(Static)] \in {0, M(Static)}
    BY <1>2 DEF Holds, HeldEntries, HeldByOne, StaticPointer
  <2>3. CASE o = Static
    BY <1>1, <2>1, <2>2, <2>3 DEF M
  <2>4. CASE o # Static
    BY <1>1, <1>3, <2>1, <2>2, <2>4 DEF M
  <2> QED
    BY <2>3, <2>4
<1>8. ASSUME free' = Tail(free) PROVE Pointers'
  <2>1. ASSUME NEW q \in Made PROVE master'[Flag(q)] = (M(q)' # 0)
    <3>1. q \in Sync!Objects /\ Flag(q) \in Sync!Cells /\ (q # o => Flag(q) \notin DOMAIN w)
      BY CellsOf
    <3>2. CASE q = o
      BY <1>1, <1>3, <1>f, <3>1, <3>2
    <3>3. CASE q # o /\ Ptr(q) \in DOMAIN own[t]
      <4>1. Flag(q) \in DOMAIN own[t] /\ own[t][Flag(q)] = FALSE
        BY <1>2, <3>3 DEF OwnWrites, Ptr, Flag
      <4>2. M(q)' = 0
        BY <1>3, <3>1, <3>3
      <4>3. master'[Flag(q)] = FALSE
        BY <1>1, <3>1, <3>3, <4>1
      <4> QED
        BY <4>2, <4>3
    <3>4. CASE q # o /\ Ptr(q) \notin DOMAIN own[t]
      <4>1. Flag(q) \notin DOMAIN own[t]
        BY <1>2, <3>4 DEF OwnWrites, Ptr, Flag
      <4>2. master[Flag(q)] = (M(q) # 0)
        BY <1>2 DEF Pointers
      <4>3. master'[Flag(q)] = master[Flag(q)] /\ M(q)' = M(q)
        BY <1>1, <1>3, <3>1, <3>4, <4>1
      <4> QED
        BY <4>2, <4>3
    <3> QED
      BY <3>2, <3>3, <3>4
  <2>2. ASSUME NEW p \in Sync!Objects, NEW i \in DOMAIN free PROVE p # o => free[i] # M(p)'
    <3>1. free[i] # 0
      <4>1. free[i] \in Numbers
        BY <1>2 DEF SyncTypes
      <4> QED
        BY <4>1 DEF Numbers, SyncBounds
    <3> QED
      BY <1>2, <1>3, <1>5, <3>1 DEF Pointers
  <2>3. \A p, q \in Sync!Objects : M(p)' = M(q)' /\ M(p)' # 0 => p = q
    <3>1. \A p \in Sync!Objects : p # o => M(p)' # Head(free)
      BY <1>f, <2>2
    <3> QED
      BY <1>2, <1>3, <3>1 DEF Pointers
  <2>4. ASSUME NEW i \in DOMAIN Tail(free)
        PROVE  i + 1 \in DOMAIN free /\ Tail(free)[i] = free[i + 1] /\ i + 1 # 1 /\ i \in Nat
    BY <1>2 DEF SyncTypes
  <2>5. \A i, j \in DOMAIN Tail(free) : Tail(free)[i] = Tail(free)[j] => i = j
    BY <1>2, <2>4 DEF Pointers
  <2>6. ASSUME NEW p \in Sync!Objects, NEW i \in DOMAIN Tail(free) PROVE Tail(free)[i] # M(p)'
    <3>1. CASE p = o
      BY <1>2, <1>3, <1>f, <2>4, <3>1 DEF Pointers
    <3>2. CASE p # o
      BY <2>2, <2>4, <3>2
    <3> QED
      BY <3>1, <3>2
  <2> QED
    BY <1>8, <2>1, <2>3, <2>5, <2>6 DEF Pointers
<1> QED
  BY <1>1, <1>3, <1>4, <1>6, <1>7, <1>8

(* What every step that commits has in common: types, the threads' own     *)
(* writes, and the calls of the others.                                    *)
LEMMA CommitStep ==
  ASSUME SyncBounds, SyncInv, NEW t \in SyncThreads, NEW w, DOMAIN w \subseteq Sync!Cells, Sync!CommitWrites(t, w),
         \A o \in Sync!Objects : M(o)' \in Numbers \cup {0},
         \A u \in SyncThreads \ {t} : Sync!InSection(u) => \A c \in Sync!Cells : snap'[u][c] = master'[c],
         DOMAIN acquired' = Numbers, free' \in Seq(Numbers), NEW l, Sync!Goes(t, l), obj' = obj,
         DOMAIN entry' = SyncThreads, \A u \in SyncThreads : DOMAIN entry'[u] = Sync!Mutexes,
         \A u \in SyncThreads \ {t} : entry'[u] = entry[u]
  PROVE  /\ SyncTypes' /\ \A u \in SyncThreads : OwnWrites(u)'
         /\ \A u \in SyncThreads \ {t} : Calls(u)'
         /\ place'[t] = l
<1>1. /\ DOMAIN master' = Sync!Cells
      /\ DOMAIN snap' = SyncThreads /\ snap'[t] = master' /\ \A u \in SyncThreads \ {t} : snap'[u] = snap[u]
      /\ DOMAIN own' = SyncThreads /\ DOMAIN own'[t] = {} /\ \A u \in SyncThreads \ {t} : own'[u] = own[u]
  BY Committing
<1>2. SyncTypes
  BY DEF SyncInv
<1>3. DOMAIN place' = SyncThreads /\ place'[t] = l /\ \A u \in SyncThreads \ {t} : place'[u] = place[u]
  BY <1>2 DEF Sync!Goes, SyncTypes
<1>4. SyncTypes'
  <2>1. ASSUME NEW u \in SyncThreads
        PROVE  DOMAIN snap'[u] = Sync!Cells /\ \A o \in Sync!Objects : snap'[u][Ptr(o)] \in Numbers \cup {0}
    BY <1>1, <1>2 DEF SyncTypes, M, Numbers
  <2>2. Numbers' = Numbers /\ Sync!Objects' = Sync!Objects
    OBVIOUS
  <2>3. \A o \in Sync!Objects : M(o)' \in Numbers \cup {0}
    OBVIOUS
  <2> QED
    BY <1>1, <1>2, <1>3, <2>1, <2>3 DEF SyncTypes
<1>5. ASSUME NEW u \in SyncThreads PROVE OwnWrites(u)'
  <2>1. CASE u = t
    BY <1>1, <2>1 DEF OwnWrites
  <2>2. CASE u # t
    <3>1. OwnWrites(u)
      BY DEF SyncInv
    <3>2. own'[u] = own[u] /\ (Sync!InSection(u)' <=> Sync!InSection(u))
      BY <1>1, <2>2 DEF Sync!InSection
    <3> QED
      BY <2>2, <3>1, <3>2 DEF OwnWrites
  <2> QED
    BY <2>1, <2>2
<1>6. ASSUME NEW u \in SyncThreads \ {t} PROVE Calls(u)'
  <2>1. Calls(u)
    BY DEF SyncInv
  <2> QED
    BY <1>1, <1>3, <2>1, CallsKept
<1> QED
  BY <1>3, <1>4, <1>5, <1>6

(* Going back to the program ends the call.                                *)
LEMMA BackInProgram ==
  ASSUME NEW t \in SyncThreads, place'[t] = "run" PROVE Calls(t)'
BY DEF Calls

(* A step that commits nothing new leaves pointers as they were.           *)
LEMMA QuietStep ==
  ASSUME SyncBounds, SyncInv, NEW t \in SyncThreads, Sync!CommitWrites(t, <<>>),
         DOMAIN acquired' = Numbers, free' = free, NEW l, Sync!Goes(t, l), obj' = obj,
         DOMAIN entry' = SyncThreads, \A u \in SyncThreads : DOMAIN entry'[u] = Sync!Mutexes,
         \A u \in SyncThreads \ {t} : entry'[u] = entry[u]
  PROVE  /\ SyncTypes' /\ \A u \in SyncThreads : OwnWrites(u)'
         /\ \A u \in SyncThreads \ {t} : Calls(u)'
         /\ place'[t] = l /\ Pointers'
<1>1. DOMAIN <<>> \subseteq Sync!Cells
  OBVIOUS
<1>2. SyncTypes
  BY DEF SyncInv
<1>3. \A o \in Sync!Objects : M(o)' \in Numbers \cup {0}
  BY <1>2, QuietCommit DEF SyncTypes
<1>4. free' \in Seq(Numbers)
  BY <1>2 DEF SyncTypes
<1>5. \A u \in SyncThreads \ {t} : Sync!InSection(u) => \A c \in Sync!Cells : snap'[u][c] = master'[c]
  BY QuietCommit
<1>6. Pointers'
  BY QuietCommit
<1> QED
  BY <1>1, <1>3, <1>4, <1>5, <1>6, CommitStep

(* The beginning of a call changes only the thread's place.                *)
LEMMA CallBegins ==
  ASSUME SyncInv, NEW t \in SyncThreads, NEW l, NEW o, Sync!Call(t, l, o),
         place'[t] = l /\ obj'[t] = o => Calls(t)'
  PROVE  SyncInv'
<1>1. UNCHANGED <<master, snap, own, acquired, free, entry, crashed>>
  BY DEF Sync!Call
<1>2. SyncTypes
  BY DEF SyncInv
<1>3. /\ DOMAIN place' = SyncThreads /\ place'[t] = l /\ \A u \in SyncThreads \ {t} : place'[u] = place[u]
      /\ DOMAIN obj' = SyncThreads /\ obj'[t] = o /\ \A u \in SyncThreads \ {t} : obj'[u] = obj[u]
  BY <1>2 DEF Sync!Call, Sync!Goes, SyncTypes
<1>4. SyncTypes'
  BY <1>1, <1>2, <1>3 DEF SyncTypes, M
<1>5. Pointers' /\ Holds' /\ ~crashed'
  BY <1>1 DEF SyncInv, Pointers, Holds, HeldEntries, HeldByOne, StaticPointer, M, Gone
<1>6. ASSUME NEW u \in SyncThreads PROVE OwnWrites(u)'
  BY <1>1 DEF SyncInv, OwnWrites, Sync!InSection
<1>7. ASSUME NEW u \in SyncThreads PROVE Calls(u)'
  <2>1. CASE u = t
    BY <1>3, <2>1
  <2>2. CASE u # t
    <3>1. Calls(u)
      BY DEF SyncInv
    <3> QED
      BY <1>1, <1>3, <2>2, <3>1, CallsKept
  <2> QED
    BY <2>1, <2>2
<1> QED
  BY <1>4, <1>5, <1>6, <1>7 DEF SyncInv

(* The calls of the program: what they ask for is what the call needs.     *)
LEMMA SyncCalls ==
  ASSUME SyncBounds, SyncInv, NEW t \in SyncThreads,
         Sync!Lock(t) \/ Sync!Retry(t) \/ Sync!Unlock(t) \/ Sync!InitObject(t) \/ Sync!Use(t)
  PROVE  SyncInv'
<1>0. SyncTypes /\ Calls(t)
  BY DEF SyncInv
<1>k. ASSUME NEW l, NEW o, Sync!Call(t, l, o)
      PROVE  entry' = entry /\ (Sync!InSection(t)' <=> Sync!InSection(t)) /\ \A q : Sync!Ready(t, q)' <=> Sync!Ready(t, q)
  BY <1>k DEF Sync!Call, Sync!InSection, Sync!Ready, Sync!View, Sync!Over
<1>1. CASE Sync!Lock(t)
  <2>1. PICK m \in Sync!Mutexes : entry[t][m] = 0 /\ (m # Static => Sync!InSection(t) /\ Sync!Ready(t, m)) /\ Sync!Call(t, "lock", m)
    BY <1>1 DEF Sync!Lock, Sync!Null
  <2>2. place'[t] = "lock" /\ obj'[t] = m => Calls(t)'
    BY <1>k, <2>1 DEF Calls
  <2> QED
    BY <2>1, <2>2, CallBegins
<1>2. CASE Sync!Retry(t)
  <2>1. place[t] = "retry" /\ Sync!Call(t, "lock", obj[t])
    BY <1>2 DEF Sync!Retry
  <2>2. place'[t] = "lock" /\ obj'[t] = obj[t] => Calls(t)'
    BY <1>0, <1>k, <2>1 DEF Calls
  <2> QED
    BY <2>1, <2>2, CallBegins
<1>3. CASE Sync!Unlock(t)
  <2>1. PICK m \in Sync!Mutexes : entry[t][m] # 0 /\ Sync!Call(t, "unlock", m)
    BY <1>3 DEF Sync!Unlock, Sync!Null
  <2>2. place'[t] = "unlock" /\ obj'[t] = m => Calls(t)'
    BY <1>k, <2>1 DEF Calls
  <2> QED
    BY <2>1, <2>2, CallBegins
<1>4. CASE Sync!InitObject(t)
  <2>1. PICK o \in Made : Sync!InSection(t) /\ ~Sync!Ready(t, o) /\ Sync!Call(t, "init", o)
    BY <1>4 DEF Sync!InitObject, Made
  <2>2. place'[t] = "init" /\ obj'[t] = o => Calls(t)'
    BY <1>k, <2>1 DEF Calls
  <2> QED
    BY <2>1, <2>2, CallBegins
<1>5. CASE Sync!Use(t)
  <2>1. PICK c \in Conds : Sync!InSection(t) /\ Sync!Ready(t, c) /\ Sync!Call(t, "use", c)
    BY <1>5 DEF Sync!Use
  <2>2. place'[t] = "use" /\ obj'[t] = c => Calls(t)'
    BY <1>k, <2>1 DEF Calls
  <2> QED
    BY <2>1, <2>2, CallBegins
<1> QED
  BY <1>1, <1>2, <1>3, <1>4, <1>5

(* lock_acquire: an entry is made only for a mutex that has none, and only *)
(* a free one is taken.                                                    *)
LEMMA SyncLockAcquire ==
  ASSUME SyncBounds, SyncInv, NEW t \in SyncThreads, Sync!LockAcquire(t) PROVE SyncInv'
<1>p. PICK m : m = obj[t]
  OBVIOUS
<1> DEFINE e == IF Sync!getSyncEntry(Sync!View(t), m) # 0 THEN Sync!getSyncEntry(Sync!View(t), m)
                ELSE Sync!getSyncEntry(Sync!Committed(t), m)
<1>0. SyncTypes /\ Pointers /\ Holds /\ OwnWrites(t) /\ Calls(t) /\ place[t] = "lock" /\ obj' = obj /\ crashed' = crashed
  BY DEF SyncInv, Sync!LockAcquire
<1>1. m \in Sync!Mutexes /\ m \in Sync!Objects /\ entry[t][m] = 0 /\ (m # Static => Sync!InSection(t) /\ Sync!Ready(t, m))
  BY <1>0, <1>p, CellsOf DEF Calls
<1>2. DOMAIN acquired = Numbers /\ DOMAIN entry = SyncThreads /\ \A u \in SyncThreads : DOMAIN entry[u] = Sync!Mutexes
  BY <1>0 DEF SyncTypes
<1>3. m # Static => Ptr(m) \notin DOMAIN own[t] /\ M(m) # 0 /\ Sync!getSyncEntry(Sync!View(t), m) = M(m)
  BY <1>1, SectionViews, CellsOf
<1>4. m = Static => DOMAIN own[t] = {}
  BY <1>0, <1>1 DEF OwnWrites, Sync!InSection, Sync!Null
<1>5. Sync!NeedsEntry(t, m) <=> m = Static /\ M(Static) = 0
  <2>1. m = Static => Sync!getSyncEntry(Sync!View(t), m) \in {0, M(m)} /\ Sync!getSyncEntry(Sync!Committed(t), m) = M(m)
    BY <1>0, <1>1, <1>4, Views DEF Holds, HeldEntries, HeldByOne, StaticPointer
  <2> QED
    BY <1>3, <2>1 DEF Sync!NeedsEntry, Sync!Null
<1>6. ~Sync!NeedsEntry(t, m) => e = M(m) /\ M(m) \in Numbers /\ M(m) # 0
  <2>1. m = Static => Sync!getSyncEntry(Sync!View(t), m) \in {0, M(m)} /\ Sync!getSyncEntry(Sync!Committed(t), m) = M(m)
    BY <1>0, <1>1, <1>4, Views DEF Holds, HeldEntries, HeldByOne, StaticPointer
  <2>2. M(m) \in Numbers \cup {0}
    BY <1>0, <1>1 DEF SyncTypes
  <2> QED
    BY <1>3, <1>5, <2>1, <2>2
<1>7. CASE Sync!NeedsEntry(t, m)
  <2>n. PICK new : new = Head(free)
    OBVIOUS
  <2>w. PICK w : w = Sync!setSyncEntry(m, new)
    OBVIOUS
  <2>1. /\ free # <<>> /\ free' = Tail(free) /\ acquired' = [acquired EXCEPT ![new] = TRUE]
        /\ entry' = [entry EXCEPT ![t][m] = new] /\ Sync!CommitWrites(t, w) /\ Sync!Goes(t, "run")
    BY <1>7, <1>p, <2>n, <2>w DEF Sync!LockAcquire, Sync!lock_init, Sync!allocSyncEntry
  <2>2. DOMAIN w = {Ptr(m)} /\ w[Ptr(m)] = new
    BY <2>w DEF Sync!setSyncEntry, Ptr
  <2>3. m = Static /\ M(m) = 0 /\ m \notin Made
    BY <1>5, <1>7 DEF SyncBounds
  <2>4. \A u \in SyncThreads : ~Sync!InSection(u)
    BY <1>0, <2>3, CellsOf DEF Holds, HeldEntries, HeldByOne, StaticPointer, Sync!InSection, Sync!Null
  <2>5. DOMAIN w \subseteq {Ptr(m), Flag(m)} /\ Ptr(m) \in DOMAIN w
    BY <2>2
  <2>6. /\ \A q \in Sync!Objects : M(q)' = IF q = m THEN Head(free) ELSE IF Ptr(q) \in DOMAIN own[t] THEN 0 ELSE M(q)
        /\ \A q \in Sync!Objects : ~Gone(q)'
        /\ \A u \in SyncThreads, n \in Sync!Mutexes :
             entry[u][n] # 0 => n # m /\ M(n)' = M(n) /\ snap'[u][Ptr(n)] = M(n) /\ M(n) # Head(free)
        /\ \A u \in SyncThreads : snap'[u][Ptr(Static)] \in {0, M(Static)'}
        /\ \A c \in Sync!Cells : snap'[t][c] = master'[c]
        /\ free' = Tail(free) => Pointers'
    <3>1. w[Ptr(m)] = Head(free) /\ (m \in Made => Flag(m) \in DOMAIN w /\ w[Flag(m)] = TRUE)
      BY <2>2, <2>3, <2>n
    <3>2. M(m) = 0 \/ Ptr(m) \in DOMAIN own[t]
      BY <2>3
    <3>3. \A u \in SyncThreads \ {t} : ~Sync!InSection(u)
      BY <2>4
    <3>4. free # <<>> /\ Sync!CommitWrites(t, w)
      BY <2>1
    <3> HIDE DEF e
    <3> QED
      BY <1>1, <2>5, <3>1, <3>2, <3>3, <3>4, NewEntryCommit, Zenon
  <2>7. new \in Numbers /\ new # 0 /\ free' \in Seq(Numbers)
    <3>1. new \in Numbers /\ free' \in Seq(Numbers)
      BY <1>0, <2>1, <2>n DEF SyncTypes
    <3> QED
      BY <3>1 DEF Numbers, SyncBounds
  <2>8. /\ DOMAIN entry' = SyncThreads /\ (\A u \in SyncThreads : DOMAIN entry'[u] = Sync!Mutexes)
        /\ \A u \in SyncThreads \ {t} : entry'[u] = entry[u]
        /\ entry'[t][m] = new /\ \A n \in Sync!Mutexes : n # m => entry'[t][n] = entry[t][n]
    BY <1>1, <1>2, <2>1
  <2>9. DOMAIN acquired' = Numbers /\ acquired'[new] = TRUE /\ \A i \in Numbers : i # new => acquired'[i] = acquired[i]
    BY <1>2, <2>1, <2>7
  <2>10. \A o \in Sync!Objects : M(o)' \in Numbers \cup {0}
    BY <1>0, <2>6, <2>7, <2>n DEF SyncTypes
  <2>11. DOMAIN w \subseteq Sync!Cells
    BY <1>1, <2>2, CellsOf
  <2>12. /\ SyncTypes' /\ \A u \in SyncThreads : OwnWrites(u)'
         /\ \A u \in SyncThreads \ {t} : Calls(u)'
         /\ place'[t] = "run"
    BY <1>0, <2>1, <2>4, <2>7, <2>8, <2>9, <2>10, <2>11, CommitStep
  <2>13. Holds'
    <3>1. ASSUME NEW u \in SyncThreads, NEW n \in Sync!Mutexes, entry'[u][n] # 0
          PROVE  entry'[u][n] = M(n)' /\ snap'[u][Ptr(n)] = M(n)' /\ ~Gone(n)' /\ acquired'[M(n)'] = TRUE
      <4>0. n \in Sync!Objects /\ Ptr(n) \in Sync!Cells
        BY CellsOf
      <4>1. CASE u = t /\ n = m
        BY <2>6, <2>8, <2>9, <2>n, <4>0, <4>1 DEF M
      <4>2. CASE ~(u = t /\ n = m)
        <5>1. entry[u][n] # 0 /\ entry'[u][n] = entry[u][n]
          BY <2>8, <3>1, <4>2
        <5>2. entry[u][n] = M(n) /\ acquired[M(n)] = TRUE /\ M(n) \in Numbers
          BY <1>0, <4>0, <5>1 DEF Holds, HeldEntries, HeldByOne, StaticPointer, SyncTypes
        <5> QED
          BY <2>6, <2>9, <2>n, <4>0, <5>1, <5>2
      <4> QED
        BY <4>1, <4>2
    <3>2. ASSUME NEW u \in SyncThreads, NEW v \in SyncThreads, NEW n \in Sync!Mutexes, entry'[u][n] # 0, entry'[v][n] # 0
          PROVE  u = v
      <4>1. \A x \in SyncThreads : entry[x][m] = 0
        BY <1>1, <2>6
      <4> QED
        BY <1>0, <2>8, <3>2, <4>1 DEF Holds, HeldEntries, HeldByOne, StaticPointer
    <3>x. HeldEntries'
      BY <1>0, <3>1 DEF HeldEntries
    <3>y. HeldByOne'
      BY <1>0, <3>2 DEF Holds, HeldByOne
    <3>z. StaticPointer'
      BY <2>6 DEF StaticPointer
    <3> QED
      BY <3>x, <3>y, <3>z DEF Holds
  <2> QED
    BY <1>0, <2>1, <2>6, <2>12, <2>13, BackInProgram DEF SyncInv
<1>8. CASE ~Sync!NeedsEntry(t, m) /\ ~acquired[e]
  <2>1. /\ acquired' = [acquired EXCEPT ![e] = TRUE] /\ entry' = [entry EXCEPT ![t][m] = e]
        /\ Sync!CommitWrites(t, <<>>) /\ Sync!Goes(t, "run") /\ free' = free
    BY <1>8, <1>p DEF Sync!LockAcquire, Sync!Null
  <2>2. e = M(m) /\ M(m) \in Numbers /\ M(m) # 0 /\ ~acquired[M(m)]
    BY <1>6, <1>8
  <2> HIDE DEF e
  <2>3. /\ DOMAIN entry' = SyncThreads /\ (\A u \in SyncThreads : DOMAIN entry'[u] = Sync!Mutexes)
        /\ \A u \in SyncThreads \ {t} : entry'[u] = entry[u]
        /\ entry'[t][m] = M(m) /\ \A n \in Sync!Mutexes : n # m => entry'[t][n] = entry[t][n]
    BY <1>1, <1>2, <2>1, <2>2
  <2>4. DOMAIN acquired' = Numbers /\ acquired'[M(m)] = TRUE /\ \A i \in Numbers : i # M(m) => acquired'[i] = acquired[i]
    BY <1>2, <2>1, <2>2
  <2>5. /\ SyncTypes' /\ \A u \in SyncThreads : OwnWrites(u)'
        /\ \A u \in SyncThreads \ {t} : Calls(u)'
        /\ place'[t] = "run" /\ Pointers'
    BY <1>0, <2>1, <2>3, <2>4, QuietStep
  <2>6. \A u \in SyncThreads : entry[u][m] = 0
    BY <1>0, <1>1, <2>2 DEF Holds, HeldEntries, HeldByOne, StaticPointer
  <2>7. Ptr(m) \notin DOMAIN own[t] /\ ~Gone(m)'
    <3>1. CASE m = Static
      <4>1. \A u \in SyncThreads : Ptr(m) \notin DOMAIN own[u]
        BY <3>1 DEF SyncInv, OwnWrites, Ptr, SyncBounds, Made
      <4> QED
        BY <1>1, <4>1, QuietCommit, <2>1
    <3>2. CASE m # Static
      <4>1. Ptr(m) \notin DOMAIN own[t] /\ \A u \in SyncThreads \ {t} : DOMAIN own[u] = {}
        BY <1>1, <1>3, <3>2, AloneInSection
      <4> QED
        BY <1>1, <4>1, QuietCommit, <2>1
    <3> QED
      BY <3>1, <3>2
  <2>8. M(m)' = M(m) /\ snap'[t][Ptr(m)] = M(m)
    <3>1. M(m)' = M(m)
      BY <1>1, <2>1, <2>7, QuietCommit
    <3>2. \A c \in Sync!Cells : snap'[t][c] = master'[c]
      BY <2>1, QuietCommit
    <3> QED
      BY <1>1, <3>1, <3>2, CellsOf DEF M
  <2>9. Holds'
    <3>1. ASSUME NEW u \in SyncThreads, NEW n \in Sync!Mutexes, entry'[u][n] # 0
          PROVE  entry'[u][n] = M(n)' /\ snap'[u][Ptr(n)] = M(n)' /\ ~Gone(n)' /\ acquired'[M(n)'] = TRUE
      <4>0. n \in Sync!Objects
        BY CellsOf
      <4>1. CASE u = t /\ n = m
        BY <2>3, <2>4, <2>7, <2>8, <4>1
      <4>2. CASE ~(u = t /\ n = m)
        <5>1. entry[u][n] # 0 /\ entry'[u][n] = entry[u][n] /\ n # m
          BY <2>3, <2>6, <3>1, <4>2
        <5>2. entry[u][n] = M(n) /\ acquired[M(n)] = TRUE /\ M(n) \in Numbers
          BY <1>0, <4>0, <5>1 DEF Holds, HeldEntries, HeldByOne, StaticPointer, SyncTypes
        <5>3. M(n)' = M(n) /\ snap'[u][Ptr(n)] = M(n) /\ ~Gone(n)'
          BY <2>1, <5>1, QuietCommit
        <5> QED
          BY <2>4, <5>1, <5>2, <5>3
      <4> QED
        BY <4>1, <4>2
    <3>2. ASSUME NEW u \in SyncThreads, NEW v \in SyncThreads, NEW n \in Sync!Mutexes, entry'[u][n] # 0, entry'[v][n] # 0
          PROVE  u = v
      BY <1>0, <2>3, <2>6, <3>2 DEF Holds, HeldEntries, HeldByOne, StaticPointer
    <3>3. \A u \in SyncThreads : snap'[u][Ptr(Static)] \in {0, M(Static)'}
      BY <2>1, QuietCommit
    <3>x. HeldEntries'
      BY <1>0, <3>1 DEF HeldEntries
    <3>y. HeldByOne'
      BY <1>0, <3>2 DEF Holds, HeldByOne
    <3>z. StaticPointer'
      BY <3>3 DEF StaticPointer
    <3> QED
      BY <3>x, <3>y, <3>z DEF Holds
  <2> QED
    BY <1>0, <2>5, <2>9, BackInProgram DEF SyncInv
<1>9. CASE ~Sync!NeedsEntry(t, m) /\ acquired[e]
  <2>1. acquired' = acquired /\ entry' = entry /\ Sync!CommitWrites(t, <<>>) /\ Sync!Goes(t, "retry") /\ free' = free
    BY <1>9, <1>p DEF Sync!LockAcquire, Sync!Null
  <2> HIDE DEF e
  <2>2. /\ SyncTypes' /\ \A u \in SyncThreads : OwnWrites(u)'
        /\ \A u \in SyncThreads \ {t} : Calls(u)'
        /\ place'[t] = "retry" /\ Pointers'
    BY <1>0, <1>2, <2>1, QuietStep
  <2>3. Holds'
    BY <1>0, <2>1, QuietCommit DEF Holds, HeldEntries, HeldByOne, StaticPointer
  <2>4. Calls(t)'
    <3>1. m # Static => Sync!Ready(t, m)'
      <4> SUFFICES ASSUME m # Static PROVE Sync!Ready(t, m)'
        OBVIOUS
      <4>1. Sync!InSection(t) /\ m \in Made
        BY <1>1, CellsOf
      <4>2. DOMAIN own'[t] = {} /\ DOMAIN snap'[t] = Sync!Cells /\ snap'[t] = master'
        <5>1. DOMAIN <<>> \subseteq Sync!Cells
          OBVIOUS
        <5> QED
          BY <2>1, <5>1, Committing
      <4>3. M(m)' # 0
        BY <1>1, <1>3, <2>1, QuietCommit
      <4>4. master'[Flag(m)] = (M(m)' # 0)
        BY <2>2, <4>1 DEF Pointers
      <4>5. Sync!View(t)'[Flag(m)] = master'[Flag(m)]
        BY <1>1, <4>2, CellsOf DEF Sync!View, Sync!Over
      <4> QED
        BY <4>3, <4>4, <4>5 DEF Sync!Ready, Flag
    <3> QED
      BY <1>0, <1>1, <1>p, <2>1, <2>2, <3>1 DEF Calls, Sync!InSection
  <2> QED
    BY <1>0, <2>2, <2>3, <2>4 DEF SyncInv
<1> QED
  BY <1>7, <1>8, <1>9

(* lock_release finds the entry that was locked.                           *)
LEMMA SyncLockRelease ==
  ASSUME SyncBounds, SyncInv, NEW t \in SyncThreads, Sync!LockRelease(t) PROVE SyncInv'
<1>p. PICK m : m = obj[t]
  OBVIOUS
<1>0. SyncTypes /\ Pointers /\ Holds /\ OwnWrites(t) /\ Calls(t) /\ place[t] = "unlock" /\ obj' = obj /\ crashed' = crashed
  BY DEF SyncInv, Sync!LockRelease
<1>1. m \in Sync!Mutexes /\ m \in Sync!Objects /\ entry[t][m] # 0
  BY <1>0, <1>p, CellsOf DEF Calls
<1>2. DOMAIN acquired = Numbers /\ DOMAIN entry = SyncThreads /\ \A u \in SyncThreads : DOMAIN entry[u] = Sync!Mutexes
  BY <1>0 DEF SyncTypes
<1>3. Sync!getSyncEntry(Sync!View(t), m) = M(m) /\ M(m) \in Numbers
  <2>1. snap[t][Ptr(m)] = M(m) /\ ~Gone(m) /\ M(m) # 0
    BY <1>0, <1>1 DEF Holds, HeldEntries, HeldByOne, StaticPointer
  <2>2. Ptr(m) \notin DOMAIN own[t] /\ M(m) \in Numbers
    BY <1>0, <1>1, <2>1 DEF Gone, SyncTypes
  <2> QED
    BY <1>1, <2>1, <2>2, Views
<1>4. /\ acquired' = [acquired EXCEPT ![M(m)] = FALSE] /\ entry' = [entry EXCEPT ![t][m] = 0]
      /\ Sync!CommitWrites(t, <<>>) /\ Sync!Goes(t, "run") /\ free' = free
  BY <1>3, <1>p DEF Sync!LockRelease, Sync!Null
<1>5. /\ DOMAIN entry' = SyncThreads /\ (\A u \in SyncThreads : DOMAIN entry'[u] = Sync!Mutexes)
      /\ \A u \in SyncThreads \ {t} : entry'[u] = entry[u]
      /\ entry'[t][m] = 0 /\ \A n \in Sync!Mutexes : n # m => entry'[t][n] = entry[t][n]
  BY <1>1, <1>2, <1>4
<1>6. DOMAIN acquired' = Numbers /\ \A i \in Numbers : i # M(m) => acquired'[i] = acquired[i]
  BY <1>2, <1>3, <1>4
<1>7. /\ SyncTypes' /\ \A u \in SyncThreads : OwnWrites(u)'
      /\ \A u \in SyncThreads \ {t} : Calls(u)'
      /\ place'[t] = "run" /\ Pointers'
  BY <1>0, <1>4, <1>5, <1>6, QuietStep
<1>8. Holds'
  <2>1. ASSUME NEW u \in SyncThreads, NEW n \in Sync!Mutexes, entry'[u][n] # 0
        PROVE  /\ entry[u][n] # 0
               /\ entry'[u][n] = M(n)' /\ snap'[u][Ptr(n)] = M(n)' /\ ~Gone(n)' /\ acquired'[M(n)'] = TRUE
    <3>1. entry[u][n] # 0 /\ entry'[u][n] = entry[u][n]
      BY <1>1, <1>5, <2>1
    <3>2. n # m
      BY <1>0, <1>1, <1>5, <2>1, <3>1 DEF Holds, HeldEntries, HeldByOne, StaticPointer
    <3>3. entry[u][n] = M(n) /\ acquired[M(n)] = TRUE /\ M(n) \in Numbers /\ M(n) # 0
      BY <1>0, <3>1, CellsOf DEF Holds, HeldEntries, HeldByOne, StaticPointer, SyncTypes
    <3>4. M(n) # M(m)
      BY <1>0, <1>1, <3>2, <3>3, CellsOf DEF Pointers
    <3>5. M(n)' = M(n) /\ snap'[u][Ptr(n)] = M(n) /\ ~Gone(n)'
      BY <1>4, <3>1, QuietCommit
    <3> QED
      BY <1>6, <3>1, <3>3, <3>4, <3>5
  <2>2. \A u \in SyncThreads : snap'[u][Ptr(Static)] \in {0, M(Static)'}
    BY <1>4, QuietCommit
  <2>x. HeldEntries'
    BY <1>0, <2>1 DEF HeldEntries
  <2>y. HeldByOne'
    <3>1. HeldByOne
      BY <1>0 DEF Holds
    <3>2. \A u \in SyncThreads, n \in Sync!Mutexes : entry'[u][n] # 0 => entry[u][n] # 0
      BY <2>1
    <3> QED
      BY <3>1, <3>2 DEF HeldByOne
  <2>z. StaticPointer'
    BY <2>2 DEF StaticPointer
  <2> QED
    BY <2>x, <2>y, <2>z DEF Holds
<1> QED
  BY <1>0, <1>7, <1>8, BackInProgram DEF SyncInv

(* cond_wait, cond_signal, barrier_wait ... find an entry.                 *)
LEMMA SyncUseEntry ==
  ASSUME SyncBounds, SyncInv, NEW t \in SyncThreads, Sync!UseEntry(t) PROVE SyncInv'
<1>0. /\ SyncTypes /\ Holds /\ Calls(t) /\ place[t] = "use" /\ obj' = obj
      /\ UNCHANGED <<acquired, free, entry>> /\ Sync!CommitWrites(t, <<>>) /\ Sync!Goes(t, "run")
  BY DEF SyncInv, Sync!UseEntry
<1>1. Sync!InSection(t) /\ obj[t] \in Made /\ obj[t] \in Sync!Objects /\ Sync!Ready(t, obj[t])
  BY <1>0, CellsOf DEF Calls
<1>2. Sync!getSyncEntry(Sync!View(t), obj[t]) # 0
  BY <1>1, SectionViews
<1>3. ~crashed'
  BY <1>2 DEF Sync!UseEntry, Sync!Null
<1>4. DOMAIN acquired' = Numbers /\ DOMAIN entry' = SyncThreads /\ \A u \in SyncThreads : DOMAIN entry'[u] = Sync!Mutexes
  BY <1>0 DEF SyncTypes
<1>5. /\ SyncTypes' /\ \A u \in SyncThreads : OwnWrites(u)'
      /\ \A u \in SyncThreads \ {t} : Calls(u)'
      /\ place'[t] = "run" /\ Pointers'
  BY <1>0, <1>4, QuietStep
<1>6. Holds'
  BY <1>0, QuietCommit DEF Holds, HeldEntries, HeldByOne, StaticPointer
<1> QED
  BY <1>3, <1>5, <1>6, BackInProgram DEF SyncInv

(* mutex_init, cond_init, barrier_init: an object that is not ready gets a *)
(* new entry.                                                              *)
LEMMA SyncSyncInit ==
  ASSUME SyncBounds, SyncInv, NEW t \in SyncThreads, Sync!SyncInit(t) PROVE SyncInv'
<1>p. PICK o : o = obj[t]
  OBVIOUS
<1>n. PICK new : new = Head(free)
  OBVIOUS
<1>w. PICK w : w = Sync!Over(Sync!setSyncEntry(o, new), Sync!SetReady(o, TRUE))
  OBVIOUS
<1>0. /\ SyncTypes /\ Pointers /\ Holds /\ OwnWrites(t) /\ Calls(t) /\ place[t] = "init"
      /\ obj' = obj /\ crashed' = crashed /\ entry' = entry
  BY DEF SyncInv, Sync!SyncInit
<1>1. Sync!InSection(t) /\ o \in Made /\ o \in Sync!Objects /\ ~Sync!Ready(t, o)
  BY <1>0, <1>p, CellsOf DEF Calls
<1>2. /\ free # <<>> /\ free' = Tail(free) /\ acquired' = [acquired EXCEPT ![new] = FALSE]
      /\ Sync!CommitWrites(t, w) /\ Sync!Goes(t, "run")
  BY <1>n, <1>p, <1>w DEF Sync!SyncInit, Sync!lock_init, Sync!allocSyncEntry
<1>3. DOMAIN w = {Ptr(o), Flag(o)} /\ w[Ptr(o)] = new /\ w[Flag(o)] = TRUE
  BY <1>w DEF Sync!Over, Sync!setSyncEntry, Sync!SetReady, Ptr, Flag
<1>4. M(o) = 0 \/ Ptr(o) \in DOMAIN own[t]
  BY <1>1, SectionViews
<1>5. \A u \in SyncThreads \ {t} : ~Sync!InSection(u)
  BY <1>1, AloneInSection
<1>6. /\ \A q \in Sync!Objects : M(q)' = IF q = o THEN Head(free) ELSE IF Ptr(q) \in DOMAIN own[t] THEN 0 ELSE M(q)
      /\ \A q \in Sync!Objects : ~Gone(q)'
      /\ \A u \in SyncThreads, n \in Sync!Mutexes :
           entry[u][n] # 0 => n # o /\ M(n)' = M(n) /\ snap'[u][Ptr(n)] = M(n) /\ M(n) # Head(free)
      /\ \A u \in SyncThreads : snap'[u][Ptr(Static)] \in {0, M(Static)'}
      /\ \A c \in Sync!Cells : snap'[t][c] = master'[c]
      /\ free' = Tail(free) => Pointers'
  <2>1. /\ DOMAIN w \subseteq {Ptr(o), Flag(o)} /\ Ptr(o) \in DOMAIN w /\ w[Ptr(o)] = Head(free)
        /\ (o \in Made => Flag(o) \in DOMAIN w /\ w[Flag(o)] = TRUE)
    BY <1>3, <1>n
  <2>2. free # <<>> /\ Sync!CommitWrites(t, w)
    BY <1>2
  <2> QED
    BY <1>1, <1>4, <1>5, <2>1, <2>2, NewEntryCommit, Zenon
<1>7. new \in Numbers /\ free' \in Seq(Numbers)
  BY <1>0, <1>2, <1>n DEF SyncTypes
<1>8. DOMAIN acquired' = Numbers /\ \A i \in Numbers : i # new => acquired'[i] = acquired[i]
  BY <1>0, <1>2, <1>7 DEF SyncTypes
<1>9. \A q \in Sync!Objects : M(q)' \in Numbers \cup {0}
  BY <1>0, <1>6, <1>7, <1>n DEF SyncTypes
<1>10. DOMAIN w \subseteq Sync!Cells
  BY <1>1, <1>3, CellsOf
<1>11. DOMAIN entry' = SyncThreads /\ \A u \in SyncThreads : DOMAIN entry'[u] = Sync!Mutexes
  BY <1>0 DEF SyncTypes
<1>12. /\ SyncTypes' /\ \A u \in SyncThreads : OwnWrites(u)'
       /\ \A u \in SyncThreads \ {t} : Calls(u)'
       /\ place'[t] = "run"
  BY <1>0, <1>2, <1>5, <1>7, <1>8, <1>9, <1>10, <1>11, CommitStep
<1>13. Holds'
  <2>1. ASSUME NEW u \in SyncThreads, NEW n \in Sync!Mutexes, entry[u][n] # 0
        PROVE  entry[u][n] = M(n)' /\ snap'[u][Ptr(n)] = M(n)' /\ ~Gone(n)' /\ acquired'[M(n)'] = TRUE
    <3>1. entry[u][n] = M(n) /\ acquired[M(n)] = TRUE /\ M(n) \in Numbers /\ n \in Sync!Objects
      BY <1>0, <2>1, CellsOf DEF Holds, HeldEntries, HeldByOne, StaticPointer, SyncTypes
    <3>2. M(n)' = M(n) /\ snap'[u][Ptr(n)] = M(n) /\ M(n) # new /\ ~Gone(n)'
      BY <1>6, <1>n, <2>1, <3>1
    <3> QED
      BY <1>8, <3>1, <3>2
  <2>2. \A u \in SyncThreads : snap'[u][Ptr(Static)] \in {0, M(Static)'}
    BY <1>6
  <2>3. entry' = entry /\ \A u, v \in SyncThreads, n \in Sync!Mutexes : entry[u][n] # 0 /\ entry[v][n] # 0 => u = v
    BY <1>0 DEF Holds, HeldEntries, HeldByOne, StaticPointer
  <2>x. HeldEntries'
    BY <2>1, <2>3 DEF HeldEntries
  <2>y. HeldByOne'
    BY <1>0, <2>3 DEF Holds, HeldByOne
  <2>z. StaticPointer'
    BY <2>2 DEF StaticPointer
  <2> QED
    BY <2>x, <2>y, <2>z DEF Holds
<1> QED
  BY <1>0, <1>2, <1>6, <1>12, <1>13, BackInProgram DEF SyncInv

(* mutex_destroy: the entry of a mutex that nobody has becomes free.       *)
LEMMA SyncMutexDestroy ==
  ASSUME SyncBounds, SyncInv, NEW t \in SyncThreads, Sync!MutexDestroy(t) PROVE SyncInv'
<1>0. /\ SyncTypes /\ Pointers /\ Holds /\ OwnWrites(t) /\ place[t] = "run" /\ Sync!InSection(t)
      /\ UNCHANGED <<acquired, place, obj, entry, crashed, master, snap>>
  BY DEF SyncInv, Sync!MutexDestroy, Sync!Write
<1>1. PICK m \in Dynamic :
        /\ Sync!Ready(t, m) /\ \A u \in SyncThreads : entry[u][m] = 0
        /\ free' = Sync!freeSyncEntry(Sync!getSyncEntry(Sync!View(t), m))
        /\ Sync!Write(t, Sync!Over(Sync!clearSyncEntry(m), Sync!SetReady(m, FALSE)))
  BY DEF Sync!MutexDestroy, Sync!Null
<1>w. PICK w : w = Sync!Over(Sync!clearSyncEntry(m), Sync!SetReady(m, FALSE))
  OBVIOUS
<1>2. DOMAIN w = {Ptr(m), Flag(m)} /\ w[Ptr(m)] = 0 /\ w[Flag(m)] = FALSE
  BY <1>w DEF Sync!Over, Sync!clearSyncEntry, Sync!SetReady, Ptr, Flag, Sync!Null
<1>3. m \in Made /\ m \in Sync!Mutexes /\ m \in Sync!Objects
  BY CellsOf DEF Sync!Mutexes
<1>4. Ptr(m) \notin DOMAIN own[t] /\ M(m) # 0 /\ ~Gone(m) /\ Sync!getSyncEntry(Sync!View(t), m) = M(m)
  BY <1>0, <1>1, <1>3, SectionViews
<1>5. M(m) \in Numbers
  BY <1>0, <1>3, <1>4 DEF SyncTypes
<1>6. free' = <<M(m)>> \o free
  BY <1>1, <1>4 DEF Sync!freeSyncEntry
<1>7. free' \in Seq(Numbers) /\ DOMAIN free' = 1 .. Len(free) + 1 /\ DOMAIN free = 1 .. Len(free) /\ Len(free) \in Nat
      /\ free'[1] = M(m) /\ \A i \in DOMAIN free' : i # 1 => i - 1 \in DOMAIN free /\ free'[i] = free[i - 1]
  <2>1. free \in Seq(Numbers)
    BY <1>0 DEF SyncTypes
  <2> QED
    BY <1>5, <1>6, <2>1
<1>8. /\ DOMAIN own' = SyncThreads /\ \A u \in SyncThreads \ {t} : own'[u] = own[u]
      /\ DOMAIN own'[t] = DOMAIN own[t] \cup {Ptr(m), Flag(m)}
      /\ own'[t][Ptr(m)] = 0 /\ own'[t][Flag(m)] = FALSE
      /\ \A c \in DOMAIN own[t] : c \notin {Ptr(m), Flag(m)} => own'[t][c] = own[t][c]
  <2>1. own' = [own EXCEPT ![t] = Sync!Over(w, own[t])] /\ DOMAIN own = SyncThreads
    BY <1>0, <1>1, <1>w DEF Sync!Write, SyncTypes
  <2>2. own'[t] = Sync!Over(w, own[t])
    BY <2>1
  <2>3. /\ DOMAIN Sync!Over(w, own[t]) = DOMAIN w \cup DOMAIN own[t]
        /\ \A c \in DOMAIN w \cup DOMAIN own[t] : Sync!Over(w, own[t])[c] = IF c \in DOMAIN w THEN w[c] ELSE own[t][c]
    BY DEF Sync!Over
  <2> QED
    BY <1>2, <2>1, <2>2, <2>3
<1>9. SyncTypes'
  BY <1>0, <1>7, <1>8 DEF SyncTypes, M
<1>10. \A o \in Sync!Objects : (Gone(o)' <=> Gone(o) \/ o = m) /\ M(o)' = M(o)
  BY <1>0, <1>8, CellsOf DEF Gone, M
<1>11. ASSUME NEW u \in SyncThreads PROVE OwnWrites(u)'
  <2>1. Sync!InSection(u)' <=> Sync!InSection(u)
    BY <1>0 DEF Sync!InSection
  <2>2. CASE u # t
    <3>1. OwnWrites(u)
      BY DEF SyncInv
    <3> QED
      BY <1>0, <1>8, <2>1, <2>2, <3>1 DEF OwnWrites
  <2>3. CASE u = t
    <3>1. DOMAIN own'[t] \subseteq {"ptr", "ready"} \X Dynamic
      BY <1>0, <1>8 DEF OwnWrites, Ptr, Flag
    <3>2. \A n \in Dynamic : n # m => Ptr(n) \notin {Ptr(m), Flag(m)} /\ Flag(n) \notin {Ptr(m), Flag(m)}
      BY CellsOf
    <3>3. \A n \in Dynamic : Ptr(n) \in DOMAIN own'[t] <=> Flag(n) \in DOMAIN own'[t]
      BY <1>0, <1>8, <3>2 DEF OwnWrites
    <3>4. \A n \in Dynamic : Ptr(n) \in DOMAIN own'[t] => own'[t][Ptr(n)] = 0 /\ own'[t][Flag(n)] = FALSE
      BY <1>0, <1>8, <3>2, <3>3 DEF OwnWrites
    <3> QED
      BY <1>0, <2>1, <2>3, <3>1, <3>3, <3>4 DEF OwnWrites
  <2> QED
    BY <2>2, <2>3
<1>12. Pointers'
  <2>1. \A o \in Made : master'[Flag(o)] = (M(o)' # 0)
    BY <1>0 DEF Pointers, M
  <2>2. \A o, q \in Sync!Objects : M(o)' = M(q)' /\ M(o)' # 0 => o = q
    BY <1>0, <1>10 DEF Pointers
  <2>3. ASSUME NEW o \in Sync!Objects, NEW i \in DOMAIN free', ~Gone(o)' PROVE free'[i] # M(o)'
    <3>1. o # m /\ ~Gone(o) /\ M(o)' = M(o)
      BY <1>10, <2>3
    <3>2. CASE i = 1
      BY <1>0, <1>3, <1>4, <1>7, <3>1, <3>2 DEF Pointers
    <3>3. CASE i # 1
      BY <1>0, <1>7, <3>1, <3>3 DEF Pointers
    <3> QED
      BY <3>2, <3>3
  <2>4. ASSUME NEW i \in DOMAIN free', NEW j \in DOMAIN free', free'[i] = free'[j] PROVE i = j
    <3>1. \A k \in DOMAIN free' : k # 1 => free'[k] # M(m)
      BY <1>0, <1>3, <1>4, <1>7 DEF Pointers
    <3>2. CASE i = 1 \/ j = 1
      BY <1>7, <2>4, <3>1, <3>2
    <3>3. CASE i # 1 /\ j # 1
      BY <1>0, <1>7, <2>4, <3>3 DEF Pointers
    <3> QED
      BY <3>2, <3>3
  <2> QED
    BY <2>1, <2>2, <2>3, <2>4 DEF Pointers
<1>13. Holds'
  <2>1. ASSUME NEW u \in SyncThreads, NEW n \in Sync!Mutexes, entry[u][n] # 0
        PROVE  entry[u][n] = M(n)' /\ snap'[u][Ptr(n)] = M(n)' /\ ~Gone(n)' /\ acquired[M(n)'] = TRUE
    <3>1. n # m /\ n \in Sync!Objects
      BY <1>1, <2>1, CellsOf
    <3>2. entry[u][n] = M(n) /\ snap[u][Ptr(n)] = M(n) /\ ~Gone(n) /\ acquired[M(n)] = TRUE
      BY <1>0, <2>1 DEF Holds, HeldEntries, HeldByOne, StaticPointer
    <3> QED
      BY <1>0, <1>10, <3>1, <3>2
  <2>2. M(Static)' = M(Static)
    BY <1>0 DEF M
  <2>x. HeldEntries'
    BY <1>0, <2>1 DEF HeldEntries
  <2>y. HeldByOne'
    BY <1>0, <2>1 DEF Holds, HeldByOne
  <2>z. StaticPointer'
    BY <1>0, <2>2 DEF Holds, StaticPointer
  <2> QED
    BY <2>x, <2>y, <2>z DEF Holds
<1>14. ASSUME NEW u \in SyncThreads PROVE Calls(u)'
  <2>1. CASE u = t
    BY <1>0, <2>1 DEF Calls
  <2>2. CASE u # t
    <3>1. Calls(u)
      BY DEF SyncInv
    <3> QED
      BY <1>0, <1>8, <2>2, <3>1, CallsKept
  <2> QED
    BY <2>1, <2>2
<1> QED
  BY <1>0, <1>9, <1>11, <1>12, <1>13, <1>14 DEF SyncInv

(* At first there are no pointers, and all entries are free.               *)
LEMMA SyncInvInit ==
  ASSUME SyncBounds, Sync!Init PROVE SyncInv
<1>1. /\ DOMAIN master = Sync!Cells /\ \A o \in Sync!Objects : M(o) = 0 /\ master[Flag(o)] = FALSE
      /\ DOMAIN snap = SyncThreads /\ DOMAIN own = SyncThreads
      /\ \A t \in SyncThreads : snap[t] = master /\ DOMAIN own[t] = {}
  <2>1. master = [c \in Sync!Cells |-> IF c[1] = "ptr" THEN 0 ELSE FALSE]
    BY DEF Sync!Init, Sync!Null
  <2>2. \A o \in Sync!Objects : M(o) = 0 /\ master[Flag(o)] = FALSE
    BY <2>1, CellsOf DEF M, Ptr, Flag
  <2>3. snap = [t \in SyncThreads |-> master] /\ own = [t \in SyncThreads |-> <<>>]
    BY DEF Sync!Init
  <2>4. \A t \in SyncThreads : snap[t] = master /\ own[t] = <<>>
    BY <2>3
  <2>5. DOMAIN <<>> = {}
    OBVIOUS
  <2>6. DOMAIN snap = SyncThreads /\ DOMAIN own = SyncThreads /\ DOMAIN master = Sync!Cells
    BY <2>1, <2>3
  <2> QED
    BY <2>2, <2>4, <2>5, <2>6
<1>2. /\ DOMAIN acquired = Numbers /\ free \in Seq(Numbers) /\ DOMAIN free = Numbers
      /\ \A i \in Numbers : free[i] = i
  BY DEF Sync!Init, Numbers, SyncBounds
<1>3. /\ DOMAIN place = SyncThreads /\ DOMAIN obj = SyncThreads /\ DOMAIN entry = SyncThreads
      /\ \A t \in SyncThreads : place[t] = "run" /\ DOMAIN entry[t] = Sync!Mutexes /\ \A m \in Sync!Mutexes : entry[t][m] = 0
  BY DEF Sync!Init, Sync!Null
<1>4. SyncTypes
  BY <1>1, <1>2, <1>3 DEF SyncTypes, M
<1>5. Pointers
  <2>1. \A i \in Numbers : i # 0
    BY DEF Numbers, SyncBounds
  <2>2. ASSUME NEW o \in Made PROVE master[Flag(o)] = (M(o) # 0)
    <3>1. M(o) = 0 /\ master[Flag(o)] = FALSE
      BY <1>1, CellsOf
    <3> QED
      BY <3>1
  <2>3. \A o \in Sync!Objects : M(o) = 0
    BY <1>1
  <2> QED
    BY <1>2, <2>1, <2>2, <2>3 DEF Pointers
<1>6. Holds
  BY <1>1, <1>3, CellsOf DEF Holds, HeldEntries, HeldByOne, StaticPointer, M
<1>7. ASSUME NEW t \in SyncThreads PROVE OwnWrites(t) /\ Calls(t)
  BY <1>1, <1>3 DEF OwnWrites, Calls
<1> QED
  BY <1>4, <1>5, <1>6, <1>7 DEF SyncInv, Sync!Init

(* Every step keeps the invariant.                                         *)
LEMMA SyncInvStep ==
  ASSUME SyncBounds, SyncInv, [Sync!Next]_Sync!vars PROVE SyncInv'
<1>1. CASE UNCHANGED Sync!vars
  <2>1. UNCHANGED <<master, snap, own, acquired, free, place, obj, entry, crashed>>
    BY <1>1 DEF Sync!vars
  <2>2. SyncTypes' /\ Pointers' /\ Holds' /\ ~crashed'
    BY <2>1 DEF SyncInv, SyncTypes, Pointers, Holds, HeldEntries, HeldByOne, StaticPointer, M, Gone
  <2>3. ASSUME NEW t \in SyncThreads PROVE OwnWrites(t)' /\ Calls(t)'
    <3>1. OwnWrites(t) /\ Calls(t)
      BY DEF SyncInv
    <3> QED
      BY <2>1, <3>1, CallsKept DEF OwnWrites, Sync!InSection
  <2> QED
    BY <2>2, <2>3 DEF SyncInv
<1>2. CASE Sync!Next
  <2>1. PICK t \in SyncThreads : Sync!Step(t)
    BY <1>2 DEF Sync!Next
  <2> QED
    BY <2>1, SyncCalls, SyncLockAcquire, SyncLockRelease, SyncUseEntry, SyncSyncInit, SyncMutexDestroy DEF Sync!Step
<1> QED
  BY <1>1, <1>2

(* For any threads and objects: however old the version of a mutex is that *)
(* a thread looks at, lock_acquire finds or makes the one entry of it, so  *)
(* that no two threads are inside one mutex, and unlock finds that entry   *)
(* again; a condition variable's or a barrier's is always found.           *)
THEOREM OneEntry ==
  ASSUME SyncBounds PROVE Sync!Spec => []OneEntryPerMutex
<1>1. Sync!Init => SyncInv
  BY SyncInvInit
<1>2. SyncInv /\ [Sync!Next]_Sync!vars => SyncInv'
  BY SyncInvStep
<1>3. SyncInv => Sync!OneEntryPerMutex
  <2> SUFFICES ASSUME SyncInv PROVE Sync!OneEntryPerMutex
    OBVIOUS
  <2>1. ASSUME NEW t \in SyncThreads, NEW m \in Sync!Mutexes, entry[t][m] # 0
        PROVE  Sync!getSyncEntry(Sync!View(t), m) = entry[t][m]
    <3>1. entry[t][m] = M(m) /\ snap[t][Ptr(m)] = M(m) /\ Ptr(m) \notin DOMAIN own[t] /\ m \in Sync!Objects
      BY <2>1, CellsOf DEF SyncInv, Holds, HeldEntries, HeldByOne, StaticPointer, Gone
    <3> QED
      BY <3>1, Views
  <2>2. Sync!FindsItsEntry
    BY <2>1 DEF SyncInv, Sync!FindsItsEntry, Sync!Null
  <2> QED
    BY <2>2 DEF SyncInv, Holds, HeldEntries, HeldByOne, StaticPointer, Sync!OneEntryPerMutex, Sync!Null
<1> QED
  BY <1>1, <1>2, <1>3, PTL DEF OneEntryPerMutex, Sync!Spec

(* And no two objects share an entry, nor is one in use on the free list,  *)
(* although a destroyed mutex leaves old pointers behind in the versions   *)
(* that others still look at.                                              *)
THEOREM EntriesKeptApart ==
  ASSUME SyncBounds PROVE Sync!Spec => []EntriesApart
<1>1. Sync!Init => SyncInv
  BY SyncInvInit
<1>2. SyncInv /\ [Sync!Next]_Sync!vars => SyncInv'
  BY SyncInvStep
<1>3. SyncInv => Sync!EntriesApart
  <2> SUFFICES ASSUME SyncInv, NEW t \in SyncThreads, NEW m \in Sync!Mutexes, entry[t][m] # 0
               PROVE  /\ \A i \in 1 .. Len(free) : free[i] # entry[t][m]
                      /\ \A u \in SyncThreads, n \in Sync!Mutexes : n # m => entry[u][n] # entry[t][m]
    BY DEF Sync!EntriesApart, Sync!Null
  <2>1. SyncTypes /\ Pointers /\ Holds
    BY DEF SyncInv
  <2>2. entry[t][m] = M(m) /\ ~Gone(m) /\ m \in Sync!Objects
    BY <2>1, CellsOf DEF Holds, HeldEntries, HeldByOne, StaticPointer
  <2>3. \A i \in 1 .. Len(free) : free[i] # entry[t][m]
    BY <2>1, <2>2 DEF SyncTypes, Pointers
  <2>4. \A u \in SyncThreads, n \in Sync!Mutexes : n # m => entry[u][n] # entry[t][m]
    BY <2>1, <2>2, CellsOf DEF Pointers, Holds, HeldEntries, HeldByOne, StaticPointer
  <2> QED
    BY <2>3, <2>4
<1> QED
  BY <1>1, <1>2, <1>3, PTL DEF EntriesApart, Sync!Spec
=============================================================================

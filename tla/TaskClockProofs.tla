-------------------------- MODULE TaskClockProofs ---------------------------
(***************************************************************************)
(* The logical clock for any number of threads, in both kernel builds:     *)
(* every variable keeps its type, in particular each search returns a      *)
(* thread or NULL, and the list of active threads that a system call walks *)
(* holds exactly the entries that an interrupt finds when it walks them    *)
(* all.                                                                    *)
(***************************************************************************)
EXTENDS TaskClock, WellFoundedInduction, TLAPS

USE NAssumption

-----------------------------------------------------------------------------
(* A non-empty set of numbers has a least one.                             *)
LEMMA LeastNumber ==
  ASSUME NEW S \in SUBSET Nat, S # {}
  PROVE  \E n \in S : \A k \in S : n <= k
<1> DEFINE R == OpToRel(<, Nat)
<1>1. IsWellFoundedOn(R, Nat)
  BY NatLessThanWellFounded, Zenon
<1>2. \A j, k \in Nat : j < k => <<j, k>> \in R
  BY DEF OpToRel
<1> HIDE DEF R
<1>3. PICK n \in S : \A k \in S : ~(<<k, n>> \in R)
  BY <1>1, WFMin
<1>4. ASSUME NEW k \in S PROVE n <= k
  <2>1. n \in Nat /\ k \in Nat
    OBVIOUS
  <2>2. ~(k < n)
    BY <1>2, <1>3, <2>1
  <2> QED
    BY <2>1, <2>2
<1> QED
  BY <1>4

(* A search of the entries finds one of them unless there is none: among   *)
(* the lowest clocks the lowest thread id is lower than every other entry. *)
LEMMA LowestFound ==
  ASSUME NEW g \in Group, NEW S \in SUBSET Threads, S # {}
  PROVE  /\ LowestOf(g, S) \in S
         /\ \A u \in S \ {LowestOf(g, S)} : ClockIsLower(g, LowestOf(g, S), u)
<1>1. g.ticks \in [Threads -> Nat] /\ Threads \subseteq Nat
  BY DEF Group, Threads
<1> DEFINE Clocks == {g.ticks[t] : t \in S}
<1>2. Clocks \in SUBSET Nat /\ Clocks # {}
  BY <1>1
<1>3. PICK c \in Clocks : \A k \in Clocks : c <= k
  <2> HIDE DEF Clocks
  <2> QED BY <1>2, LeastNumber
<1> DEFINE First == {t \in S : g.ticks[t] = c}
<1>4. First \in SUBSET Nat /\ First # {}
  BY <1>1, <1>3
<1>5. PICK f \in First : \A k \in First : f <= k
  <2> HIDE DEF First
  <2> QED BY <1>4, LeastNumber
<1>6. f \in S /\ g.ticks[f] = c
  BY <1>5
<1>7. ASSUME NEW u \in S \ {f} PROVE ClockIsLower(g, f, u)
  <2>1. g.ticks[u] \in Clocks
    OBVIOUS
  <2>2. c <= g.ticks[u] /\ c \in Nat /\ g.ticks[u] \in Nat
    BY <1>1, <1>2, <1>3, <2>1
  <2>3. f \in Nat /\ u \in Nat
    BY <1>1, <1>6
  <2>4. CASE g.ticks[u] = c
    <3>1. f <= u
      BY <1>5, <2>4
    <3> QED
      BY <3>1, <2>3, <2>4, <1>6 DEF ClockIsLower
  <2>5. CASE g.ticks[u] # c
    BY <2>2, <2>5, <1>6 DEF ClockIsLower
  <2> QED
    BY <2>4, <2>5
<1>8. \E t \in S : \A u \in S \ {t} : ClockIsLower(g, t, u)
  BY <1>6, <1>7
<1> QED
  BY <1>8 DEF LowestOf

(* The two walks, and the search among those that wait, return a thread of *)
(* the race or NULL.                                                       *)
LEMMA SearchType ==
  ASSUME NEW g \in Group, NEW garbage \in BOOLEAN
  PROVE  /\ SearchForLowest(g) \in {t \in g.active_threads : InRace(g, t)} \cup {NULL}
         /\ SearchForLowestWaiting(g, garbage)
              \in {t \in g.active_threads : InRace(g, t)} \cup {NULL}
         /\ SearchForLowestNmi(g) \in Threads \cup {NULL}
<1>1. g.active_threads \subseteq Threads
  BY DEF Group
<1> DEFINE S == {t \in g.active_threads : InRace(g, t)}
           A == {t \in Threads : InRace(g, t)}
<1>2. S \in SUBSET Threads /\ A \in SUBSET Threads
  BY <1>1
<1> HIDE DEF S, A
<1>3. LowestOf(g, S) \in S \cup {NULL}
  <2>1. CASE S = {}
    BY <2>1 DEF LowestOf
  <2>2. CASE S # {}
    BY <1>2, <2>2, LowestFound
  <2> QED
    BY <2>1, <2>2
<1>4. LowestOf(g, A) \in A \cup {NULL}
  <2>1. CASE A = {}
    BY <2>1 DEF LowestOf
  <2>2. CASE A # {}
    BY <1>2, <2>2, LowestFound
  <2> QED
    BY <2>1, <2>2
<1>5. SearchForLowest(g) \in S \cup {NULL} /\ SearchForLowestNmi(g) \in Threads \cup {NULL}
  BY <1>2, <1>3, <1>4 DEF SearchForLowest, SearchForLowestNmi, S, A
<1>6. SearchForLowestWaiting(g, garbage) \in S \cup {NULL}
  BY <1>5 DEF SearchForLowestWaiting
<1> QED
  BY <1>5, <1>6 DEF S

-----------------------------------------------------------------------------
(* The fields of g that decide who is in the race are those of h.          *)
SameRace(g, h) ==
  /\ g.initialized = h.initialized
  /\ g.inactive = h.inactive
  /\ g.active_threads = h.active_threads

(* __clear_entry_state puts its thread back into the race.                 *)
LEMMA ClearType ==
  ASSUME NEW g \in Group, NEW t \in Threads
  PROVE  /\ ClearEntryState(g, t) \in Group
         /\ ClearEntryState(g, t).ticks = g.ticks
         /\ ClearEntryState(g, t).initialized = g.initialized
         /\ ClearEntryState(g, t).active_threads = g.active_threads
         /\ ClearEntryState(g, t).inactive = [g.inactive EXCEPT ![t] = FALSE]
         /\ ~g.inactive[t] => ClearEntryState(g, t).inactive = g.inactive
<1> DEFINE c == ClearEntryState(g, t)
<1>1. c = [g EXCEPT !.inactive = [@ EXCEPT ![t] = FALSE],
                    !.waiting = [@ EXCEPT ![t] = FALSE],
                    !.sleeping = [@ EXCEPT ![t] = FALSE]]
  BY DEF ClearEntryState
<1> HIDE DEF c
<1>2. c \in Group
  BY <1>1 DEF Group
<1>3. /\ c.ticks = g.ticks /\ c.initialized = g.initialized
      /\ c.active_threads = g.active_threads
      /\ c.inactive = [g.inactive EXCEPT ![t] = FALSE]
  BY <1>1 DEF Group
<1>4. ~g.inactive[t] => [g.inactive EXCEPT ![t] = FALSE] = g.inactive
  BY DEF Group
<1> QED
  BY <1>2, <1>3, <1>4 DEF c

(* __determine_lowest_and_notify_or_wait changes nobody's place in the     *)
(* race: it clears the caller's state only if the caller is in the race.   *)
LEMMA DetermineKeepsRace ==
  ASSUME NEW g \in Group, NEW t \in Threads, NEW garbage \in BOOLEAN
  PROVE  /\ DetermineLowest(g, t, garbage) \in Group
         /\ SameRace(DetermineLowest(g, t, garbage), g)
         /\ DetermineLowest(g, t, garbage).ticks = g.ticks
         /\ ThreadToWakeUp(g, t, garbage) \in Threads \cup {NULL}
<1> DEFINE w == [g EXCEPT !.waiting[t] = TRUE]
           s == Searched(g, t, garbage)
           low == SearchForLowestWaiting(w, garbage)
           d == DetermineLowest(g, t, garbage)
<1>1. w \in Group /\ SameRace(w, g) /\ w.ticks = g.ticks
  BY DEF Group, SameRace
<1>2. low \in {u \in w.active_threads : InRace(w, u)} \cup {NULL}
  BY <1>1, SearchType
<1>3. low # NULL => low \in Threads /\ ~g.inactive[low]
  BY <1>1, <1>2 DEF Group, SameRace, InRace
<1>4. s = [w EXCEPT !.notification_needed = @ \/ low # g.lowest_tid, !.lowest_tid = low]
  BY DEF Searched
<1> HIDE DEF low, w
<1>5. /\ s \in Group /\ SameRace(s, g) /\ s.ticks = g.ticks /\ s.lowest_tid = low
  BY <1>1, <1>3, <1>4 DEF Group, SameRace
<1> HIDE DEF s
<1>6. ASSUME NEW h \in Group, SameRace(h, g), h.ticks = g.ticks, ~g.inactive[t]
      PROVE  /\ SetCurrentThreadToLowest(h, t) \in Group
             /\ SameRace(SetCurrentThreadToLowest(h, t), g)
             /\ SetCurrentThreadToLowest(h, t).ticks = g.ticks
  <2> DEFINE e == [h EXCEPT !.lowest_clock[t] = TRUE, !.notification_needed = FALSE]
             c == ClearEntryState(e, t)
  <2>1. e \in Group /\ SameRace(e, g) /\ e.ticks = g.ticks
    BY <1>6 DEF Group, SameRace
  <2> HIDE DEF e
  <2>2. c \in Group /\ c.ticks = g.ticks
    BY <2>1, ClearType DEF SameRace
  <2>3. SameRace(c, g)
    BY <1>6, <2>1, ClearType DEF SameRace
  <2> QED
    BY <2>2, <2>3 DEF SetCurrentThreadToLowest, e
<1>7. CASE OnlyActiveThread(g, t)
  <2>1. d = SetCurrentThreadToLowest(g, t)
    BY <1>7 DEF DetermineLowest
  <2>2. ~g.inactive[t] /\ SameRace(g, g)
    BY <1>7 DEF OnlyActiveThread, SameRace
  <2>3. ThreadToWakeUp(g, t, garbage) = NULL
    BY <1>7 DEF ThreadToWakeUp, MustNotify
  <2> HIDE DEF d
  <2>4. d \in Group /\ SameRace(d, g) /\ d.ticks = g.ticks
    BY <1>6, <2>1, <2>2
  <2> QED
    BY <2>3, <2>4 DEF d
<1>8. CASE ~OnlyActiveThread(g, t) /\ s.lowest_tid = t
  <2>1. d = SetCurrentThreadToLowest(s, t)
    BY <1>8 DEF DetermineLowest, s
  <2>2. ~g.inactive[t]
    BY <1>3, <1>5, <1>8 DEF NULL, Threads
  <2>3. ThreadToWakeUp(g, t, garbage) = NULL
    BY <1>8 DEF ThreadToWakeUp, MustNotify, s
  <2> HIDE DEF d
  <2>4. d \in Group /\ SameRace(d, g) /\ d.ticks = g.ticks
    BY <1>5, <1>6, <2>1, <2>2
  <2> QED
    BY <2>3, <2>4 DEF d
<1>9. CASE ~OnlyActiveThread(g, t) /\ s.lowest_tid # t
  <2>1. \/ d = [s EXCEPT !.lowest_clock[t] = FALSE, !.nmi_new_low = FALSE,
                         !.notification_needed = FALSE]
        \/ d = [s EXCEPT !.lowest_clock[t] = FALSE]
    BY <1>9 DEF DetermineLowest, s
  <2>2. ThreadToWakeUp(g, t, garbage) \in {low, NULL}
    BY <1>5 DEF ThreadToWakeUp, s
  <2> HIDE DEF d
  <2>3. d \in Group /\ SameRace(d, g) /\ d.ticks = g.ticks
    <3>1. CASE d = [s EXCEPT !.lowest_clock[t] = FALSE]
      BY <1>5, <3>1 DEF Group, SameRace
    <3>2. CASE d = [s EXCEPT !.lowest_clock[t] = FALSE, !.nmi_new_low = FALSE,
                             !.notification_needed = FALSE]
      BY <1>5, <3>2 DEF Group, SameRace
    <3> QED
      BY <2>1, <3>1, <3>2
  <2> QED
    BY <1>3, <2>2, <2>3 DEF d
<1> QED
  BY <1>7, <1>8, <1>9


-----------------------------------------------------------------------------
(* Out of the race.                                                        *)
Outside == {"parked", "blocked", "joining", "release"}

(* The list of active threads holds t exactly if its entry is in the race, *)
(* and it is from the moment that it is activated until it halts; a thread *)
(* that is joining keeps its entry, and one that leaves knows why.         *)
Placed(t) ==
  /\ t \in group.active_threads <=> InRace(group, t)
  /\ pc[t] \notin Outside => InRace(group, t)
  /\ pc[t] = "joining" => group.initialized[t]
  /\ pc[t] = "release" /\ after[t] = "joining" => group.initialized[t]
  /\ pc[t] \in {"disable", "halt", "release"} => after[t] # "none"

ClockInv == TypeOK /\ \A t \in Threads : Placed(t)

(* A look at the counter adds no less than nothing.                        *)
LEMMA ElapsedNat ==
  ASSUME NEW t, NEW d \in Elapsed(t) PROVE d \in Nat
<1>1. d \in Work \/ d = 0
  BY Zenon DEF Elapsed
<1>2. d \in Work => d \in Nat
  BY WorkAssumption, Zenon
<1>3. 0 \in Nat
  OBVIOUS
<1> QED
  BY <1>1, <1>2, <1>3, Zenon

(* One field of an entry changes that the race does not depend on.         *)
LEMMA TicksSet ==
  ASSUME NEW g \in Group, NEW t \in Threads, NEW d \in Nat
  PROVE  /\ [g EXCEPT !.ticks[t] = @ + d] \in Group
         /\ SameRace([g EXCEPT !.ticks[t] = @ + d], g)
<1> DEFINE f == [g.ticks EXCEPT ![t] = @ + d]
<1>1. f \in [Threads -> Nat]
  BY DEF Group
<1>2. [g EXCEPT !.ticks[t] = @ + d] = [g EXCEPT !.ticks = f]
  BY DEF Group
<1> HIDE DEF f
<1>3. [g EXCEPT !.ticks = f] \in Group
  BY <1>1 DEF Group
<1>4. SameRace([g EXCEPT !.ticks = f], g)
  BY DEF Group, SameRace
<1> QED
  BY <1>2, <1>3, <1>4

(* The same for the flag lowest_clock of the user's page.                   *)
LEMMA LowestClockSet ==
  ASSUME NEW g \in Group, NEW t \in Threads, NEW b \in BOOLEAN
  PROVE  /\ [g EXCEPT !.lowest_clock[t] = b] \in Group
         /\ SameRace([g EXCEPT !.lowest_clock[t] = b], g)
<1> DEFINE f == [g.lowest_clock EXCEPT ![t] = b]
<1>1. f \in [Threads -> BOOLEAN]
  BY DEF Group
<1>2. [g EXCEPT !.lowest_clock[t] = b] = [g EXCEPT !.lowest_clock = f]
  BY DEF Group
<1> HIDE DEF f
<1>3. [g EXCEPT !.lowest_clock = f] \in Group
  BY <1>1 DEF Group
<1>4. SameRace([g EXCEPT !.lowest_clock = f], g)
  BY DEF Group, SameRace
<1> QED
  BY <1>2, <1>3, <1>4

(* A system call that leaves the race as it found it.                      *)
LEMMA CallType ==
  ASSUME TypeOK, NEW t \in Threads, NEW g \in Group, KernelCall(t, g, Same)
  PROVE  /\ group' \in Group /\ SameRace(group', g)
         /\ wake' \in [Threads -> Threads \cup {NULL}]
<1>1. PICK garbage \in BOOLEAN :
        /\ group' = DetermineLowest(g, t, garbage)
        /\ wake' = [wake EXCEPT ![t] = ThreadToWakeUp(g, t, garbage)]
  BY DEF KernelCall, Same
<1>2. /\ DetermineLowest(g, t, garbage) \in Group
      /\ SameRace(DetermineLowest(g, t, garbage), g)
      /\ ThreadToWakeUp(g, t, garbage) \in Threads \cup {NULL}
  BY DetermineKeepsRace
<1> QED
  BY <1>1, <1>2 DEF TypeOK

(* A step that leaves the race as it is and keeps its thread in it.        *)
LEMMA RaceKept ==
  ASSUME ClockInv, SameRace(group', group), NEW t \in Threads, NEW l \in Labels,
         pc' = [pc EXCEPT ![t] = l], UNCHANGED after,
         pc[t] \notin Outside, l \notin Outside,
         l \in {"disable", "halt"} => after[t] # "none"
  PROVE  \A u \in Threads : Placed(u)'
<1> SUFFICES ASSUME NEW u \in Threads PROVE Placed(u)'
  OBVIOUS
<1>1. InRace(group', u) = InRace(group, u)
  BY DEF SameRace, InRace
<1>2. Placed(u) /\ pc \in [Threads -> Labels]
  BY DEF ClockInv, TypeOK
<1>3. CASE u = t
  <2>1. pc'[u] = l
    BY <1>2, <1>3
  <2> QED
    BY <1>1, <1>2, <1>3, <2>1 DEF Placed, SameRace, Outside
<1>4. CASE u # t
  <2>1. pc'[u] = pc[u]
    BY <1>2, <1>4
  <2> QED
    BY <1>1, <1>2, <2>1 DEF Placed, SameRace
<1> QED
  BY <1>3, <1>4

(* A step that leaves the threads where they are and the race as it is.    *)
LEMMA RaceSame ==
  ASSUME ClockInv, SameRace(group', group), UNCHANGED <<pc, after>>
  PROVE  \A u \in Threads : Placed(u)'
<1> SUFFICES ASSUME NEW u \in Threads PROVE Placed(u)'
  OBVIOUS
<1>1. InRace(group', u) = InRace(group, u)
  BY DEF SameRace, InRace
<1> QED
  BY <1>1 DEF ClockInv, Placed, SameRace

-----------------------------------------------------------------------------
(* The interrupt and the wake-ups after an unlock.                         *)
LEMMA InterruptStep ==
  ASSUME ClockInv, NEW t \in Threads, Interrupts(t), UNCHANGED counting
  PROVE  ClockInv'
<1> USE DEF NULL
<1>0. TypeOK
  BY DEF ClockInv
<1>1. ASSUME NEW d \in Work, Overflow(t, d) PROVE ClockInv'
  <2> DEFINE g == [group EXCEPT !.ticks[t] = @ + d]
  <2>1. d \in Nat
    BY WorkAssumption
  <2>2. g \in Group /\ SameRace(g, group)
    BY <1>0, <2>1, TicksSet DEF TypeOK
  <2>3. \E b \in BOOLEAN : group' = [g EXCEPT !.nmi_new_low = b]
    <3> HIDE DEF g
    <3>1. g.nmi_new_low \in BOOLEAN
      BY <2>2 DEF Group
    <3> QED
      BY <1>1, <3>1 DEF Overflow, g
  <2> HIDE DEF g
  <2>4. group' \in Group /\ SameRace(group', group)
    BY <2>2, <2>3 DEF Group, SameRace
  <2>5. irq' \in Threads \cup {NULL}
    BY <1>0, <1>1 DEF Overflow, TypeOK
  <2>6. UNCHANGED <<pollin, disabled, pc, wake, tokenpos, outdated, last_token, ops, after, stray>>
    BY <1>1 DEF Overflow
  <2>7. TypeOK'
    BY <1>0, <2>4, <2>5, <2>6 DEF TypeOK
  <2> QED
    BY <2>4, <2>6, <2>7, RaceSame DEF ClockInv
<1>2. ASSUME NotifyWaitingThreads(t) PROVE ClockInv'
  <2>1. PICK garbage \in BOOLEAN :
          LET low == SearchForLowestWaiting(group, garbage)
              g   == [group EXCEPT !.lowest_tid = low]
          IN  IF ~ThreadIsWaiting(group, low) THEN UNCHANGED <<group, wake>>
              ELSE IF g.notification_needed \/ g.nmi_new_low
              THEN /\ group' = [g EXCEPT !.nmi_new_low = FALSE, !.notification_needed = FALSE]
                   /\ wake' = [wake EXCEPT ![t] = low]
              ELSE group' = g /\ UNCHANGED wake
    BY <1>2 DEF NotifyWaitingThreads
  <2> DEFINE low == SearchForLowestWaiting(group, garbage)
             g == [group EXCEPT !.lowest_tid = low]
  <2>2. group \in Group /\ group.active_threads \subseteq Threads
    BY <1>0 DEF TypeOK, Group
  <2>3. low \in Threads \cup {NULL}
    BY <2>2, SearchType
  <2>4. \/ UNCHANGED <<group, wake>>
        \/ /\ group' = [g EXCEPT !.nmi_new_low = FALSE, !.notification_needed = FALSE]
           /\ wake' = [wake EXCEPT ![t] = low]
        \/ group' = g /\ UNCHANGED wake
    BY <2>1
  <2> HIDE DEF low
  <2>5. g \in Group /\ SameRace(g, group) /\ SameRace(group, group)
    BY <2>2, <2>3 DEF Group, SameRace
  <2> HIDE DEF g
  <2>6. group' \in Group /\ SameRace(group', group) /\ wake' \in [Threads -> Threads \cup {NULL}]
    <3>1. wake \in [Threads -> Threads \cup {NULL}]
      BY <1>0 DEF TypeOK
    <3>2. CASE UNCHANGED <<group, wake>>
      BY <2>2, <2>5, <3>1, <3>2
    <3>3. CASE /\ group' = [g EXCEPT !.nmi_new_low = FALSE, !.notification_needed = FALSE]
               /\ wake' = [wake EXCEPT ![t] = low]
      BY <2>3, <2>5, <3>1, <3>3 DEF Group, SameRace
    <3>4. CASE group' = g /\ UNCHANGED wake
      BY <2>5, <3>1, <3>4
    <3> QED
      BY <2>4, <3>2, <3>3, <3>4
  <2>7. /\ irq' = NULL
        /\ UNCHANGED <<pollin, disabled, pc, tokenpos, outdated, last_token, ops, after, stray>>
    BY <1>2 DEF NotifyWaitingThreads
  <2>8. TypeOK'
    BY <1>0, <2>6, <2>7 DEF TypeOK
  <2> QED
    BY <2>6, <2>7, <2>8, RaceSame DEF ClockInv
<1>3. ASSUME WakeUpWaitingThread(t) PROVE ClockInv'
  <2>1. /\ wake' = [wake EXCEPT ![t] = NULL]
        /\ wake[t] \in Threads
        /\ UNCHANGED <<disabled, pc, irq, tokenpos, outdated, last_token, ops, after>>
    BY <1>0, <1>3 DEF WakeUpWaitingThread, TypeOK
  <2>2. group' \in Group /\ SameRace(group', group)
    <3>1. group \in Group /\ SameRace(group, group)
      BY <1>0 DEF TypeOK, SameRace
    <3>2. \/ UNCHANGED group
          \/ \E low \in Threads : group' = [group EXCEPT !.lowest_clock[low] = TRUE]
      BY <3>1, <1>3 DEF WakeUpWaitingThread, Group
    <3> QED
      BY <3>1, <3>2, LowestClockSet
  <2>3. pollin' \in [Threads -> BOOLEAN] /\ stray' \in BOOLEAN
    BY <1>0, <1>3, <2>1 DEF WakeUpWaitingThread, TypeOK
  <2>4. TypeOK'
    BY <1>0, <2>1, <2>2, <2>3 DEF TypeOK
  <2> QED
    BY <2>1, <2>2, <2>4, RaceSame DEF ClockInv
<1> QED
  BY <1>1, <1>2, <1>3 DEF Interrupts


-----------------------------------------------------------------------------
(* task_clock_add_ticks only moves the caller's clock.                     *)
LEMMA AddTicksType ==
  ASSUME TypeOK, NEW t \in Threads, NEW d \in Nat, AddTicks(t, d)
  PROVE  /\ group' \in Group /\ SameRace(group', group)
         /\ wake' \in [Threads -> Threads \cup {NULL}]
<1> DEFINE g == [group EXCEPT !.ticks[t] = @ + d]
<1>1. g \in Group /\ SameRace(g, group)
  BY TicksSet DEF TypeOK
<1>2. KernelCall(t, g, Same)
  BY DEF AddTicks
<1> HIDE DEF g
<1> QED
  BY <1>1, <1>2, CallType DEF SameRace

(* A step of a thread that stays in the race, given what it does to the    *)
(* clock and the variables' types.                                         *)
LEMMA StaysInRace ==
  ASSUME ClockInv, NEW t \in Threads, NEW l \in Labels, Goto(t, l),
         UNCHANGED <<counting, after>>,
         pc[t] \notin Outside, l \notin Outside,
         l \in {"disable", "halt"} => after[t] # "none",
         group' \in Group, SameRace(group', group),
         wake' \in [Threads -> Threads \cup {NULL}],
         pollin' \in [Threads -> BOOLEAN], disabled' \in [Threads -> BOOLEAN],
         irq' \in Threads \cup {NULL}, tokenpos' \in Threads \cup {NULL},
         outdated' \in [Threads -> BOOLEAN], last_token' \in Nat,
         ops' \in [Threads -> Nat], stray' \in BOOLEAN
  PROVE  ClockInv'
<1>1. TypeOK'
  BY DEF ClockInv, TypeOK, Goto
<1>2. \A u \in Threads : Placed(u)'
  BY RaceKept DEF Goto
<1> QED
  BY <1>1, <1>2 DEF ClockInv

(* __getToken.                                                             *)
LEMMA GetTokenStepKeeps ==
  ASSUME ClockInv, NEW t \in Threads, GetTokenStep(t), UNCHANGED counting
  PROVE  ClockInv'
<1> USE DEF NULL
<1>0. TypeOK /\ group \in Group /\ SameRace(group, group)
  BY DEF ClockInv, TypeOK, SameRace
<1>1. ASSUME EntryStop(t) PROVE ClockInv'
  <2>1. PICK d \in Elapsed(t) :
          KernelCall(t, [group EXCEPT !.ticks[t] = @ + d, !.count_ticks[t] = FALSE], Same)
    BY <1>1 DEF EntryStop
  <2>2. d \in Nat
    BY ElapsedNat
  <2> DEFINE g == [group EXCEPT !.ticks[t] = @ + d, !.count_ticks[t] = FALSE]
  <2>3. g \in Group /\ SameRace(g, group)
    <3> DEFINE h == [group EXCEPT !.ticks[t] = @ + d]
    <3>1. h \in Group /\ SameRace(h, group)
      BY <1>0, <2>2, TicksSet
    <3>2. g = [h EXCEPT !.count_ticks[t] = FALSE]
      BY <1>0 DEF Group
    <3> HIDE DEF g, h
    <3> QED
      BY <3>1, <3>2 DEF Group, SameRace
  <2> HIDE DEF g
  <2>4. KernelCall(t, g, Same)
    BY <2>1 DEF g
  <2>5. /\ group' \in Group /\ SameRace(group', group)
        /\ wake' \in [Threads -> Threads \cup {NULL}]
    BY <1>0, <2>3, <2>4, CallType DEF SameRace
  <2>6. /\ pc[t] = "run" /\ Goto(t, "is_lowest")
        /\ UNCHANGED <<pollin, disabled, irq, tokenpos, outdated, last_token, ops, after, stray>>
    BY <1>1 DEF EntryStop
  <2> QED
    BY <1>0, <2>5, <2>6, StaysInRace DEF TypeOK, Outside, Labels
<1>2. ASSUME IsLowest(t) PROVE ClockInv'
  <2>1. /\ group' \in Group /\ SameRace(group', group)
        /\ wake' \in [Threads -> Threads \cup {NULL}]
    <3>1. CASE KernelCall(t, group, Same)
      BY <1>0, <3>1, CallType
    <3>2. CASE UNCHANGED <<group, wake>>
      BY <1>0, <3>2 DEF TypeOK
    <3> QED
      BY <1>2, <3>1, <3>2 DEF IsLowest
  <2>2. disabled' \in [Threads -> BOOLEAN]
    BY <1>0, <1>2 DEF IsLowest, TypeOK
  <2>3. /\ pc[t] = "is_lowest" /\ Goto(t, "spin")
        /\ UNCHANGED <<pollin, irq, tokenpos, outdated, last_token, ops, after, stray>>
    BY <1>2 DEF IsLowest
  <2> QED
    BY <1>0, <2>1, <2>2, <2>3, StaysInRace DEF TypeOK, Outside, Labels
<1>3. ASSUME WokenUp(t)
      PROVE  /\ group' \in Group /\ SameRace(group', group)
             /\ disabled' \in [Threads -> BOOLEAN]
  BY <1>0, <1>3 DEF WokenUp, TypeOK, Group, SameRace
<1>4. ASSUME Answer(t) PROVE ClockInv'
  <2>1. /\ group' \in Group /\ SameRace(group', group)
        /\ disabled' \in [Threads -> BOOLEAN]
    <3>1. CASE WokenUp(t)
      BY <1>3, <3>1
    <3>2. CASE UNCHANGED <<group, disabled>>
      BY <1>0, <3>2 DEF TypeOK
    <3> QED
      BY <1>4, <3>1, <3>2 DEF Answer
  <2>2. /\ pc[t] = "spin" /\ (Goto(t, "read_lowest") \/ Goto(t, "read_higher"))
        /\ UNCHANGED <<pollin, wake, irq, tokenpos, outdated, last_token, ops, after, stray>>
    BY <1>4 DEF Answer
  <2> QED
    BY <1>0, <2>1, <2>2, StaysInRace DEF TypeOK, Outside, Labels
<1>5. ASSUME ReadActivation(t) PROVE ClockInv'
  <2>1. /\ pc[t] \in {"read_lowest", "read_higher"}
        /\ \E l \in {"cas", "is_lowest", "lw_wait"} : Goto(t, l)
        /\ outdated' = [outdated EXCEPT ![t] = FALSE]
        /\ UNCHANGED <<group, pollin, disabled, wake, irq, tokenpos, last_token, ops, after, stray>>
    BY <1>5 DEF ReadActivation
  <2>2. outdated' \in [Threads -> BOOLEAN]
    BY <1>0, <2>1 DEF TypeOK
  <2> QED
    BY <1>0, <2>1, <2>2, StaysInRace DEF TypeOK, Outside, Labels
<1>6. ASSUME IsLowestWait(t) PROVE ClockInv'
  <2>1. /\ pc[t] = "lw_wait" /\ KernelCall(t, group, Same) /\ Goto(t, "lw_spin")
        /\ disabled' = [disabled EXCEPT ![t] = TRUE]
        /\ UNCHANGED <<pollin, irq, tokenpos, outdated, last_token, ops, after, stray>>
    BY <1>6 DEF IsLowestWait
  <2>2. /\ group' \in Group /\ SameRace(group', group)
        /\ wake' \in [Threads -> Threads \cup {NULL}]
    BY <1>0, <2>1, CallType
  <2>3. disabled' \in [Threads -> BOOLEAN]
    BY <1>0, <2>1 DEF TypeOK
  <2> QED
    BY <1>0, <2>1, <2>2, <2>3, StaysInRace DEF TypeOK, Outside, Labels
<1>7. ASSUME WaitSpun(t) \/ EnterPoll(t) PROVE ClockInv'
  <2>1. /\ pc[t] \in {"lw_spin", "lw_check"} /\ (Goto(t, "lw_woke") \/ Goto(t, "poll"))
        /\ UNCHANGED <<group, pollin, disabled, wake, irq, tokenpos, outdated, last_token,
                       ops, after, stray>>
    BY <1>7 DEF WaitSpun, EnterPoll
  <2> QED
    BY <1>0, <2>1, StaysInRace DEF TypeOK, Outside, Labels
<1>8. ASSUME EntrySleep(t) PROVE ClockInv'
  <2>1. PICK garbage \in BOOLEAN :
          /\ group' = Sleeps(DetermineLowest(group, t, garbage), t)
          /\ wake' = [wake EXCEPT ![t] = ThreadToWakeUp(group, t, garbage)]
    BY <1>8 DEF EntrySleep, KernelCall
  <2> DEFINE g == DetermineLowest(group, t, garbage)
  <2>2. /\ g \in Group /\ SameRace(g, group)
        /\ ThreadToWakeUp(group, t, garbage) \in Threads \cup {NULL}
    BY <1>0, DetermineKeepsRace
  <2>3. group' = Sleeps(g, t)
    BY <2>1
  <2> HIDE DEF g
  <2>4. group' \in Group /\ SameRace(group', group)
    BY <2>2, <2>3 DEF Sleeps, Group, SameRace
  <2>5. wake' \in [Threads -> Threads \cup {NULL}]
    BY <1>0, <2>1, <2>2 DEF TypeOK
  <2>6. /\ pc[t] = "lw_spin" /\ Goto(t, "lw_check")
        /\ UNCHANGED <<pollin, disabled, irq, tokenpos, outdated, last_token, ops, after, stray>>
    BY <1>8 DEF EntrySleep
  <2> QED
    BY <1>0, <2>4, <2>5, <2>6, StaysInRace DEF TypeOK, Outside, Labels
<1>9. ASSUME PollReturns(t) PROVE ClockInv'
  <2>1. /\ pc[t] = "poll" /\ Goto(t, "lw_woke") /\ pollin' = [pollin EXCEPT ![t] = FALSE]
        /\ UNCHANGED <<group, disabled, wake, irq, tokenpos, outdated, last_token, ops, after, stray>>
    BY <1>9 DEF PollReturns
  <2>2. pollin' \in [Threads -> BOOLEAN]
    BY <1>0, <2>1 DEF TypeOK
  <2> QED
    BY <1>0, <2>1, <2>2, StaysInRace DEF TypeOK, Outside, Labels
<1>10. ASSUME WaitReturns(t) PROVE ClockInv'
  <2>1. /\ pc[t] = "lw_woke" /\ WokenUp(t) /\ Goto(t, "cas")
        /\ UNCHANGED <<pollin, wake, irq, tokenpos, outdated, last_token, ops, after, stray>>
    BY <1>10 DEF WaitReturns
  <2> QED
    BY <1>0, <1>3, <2>1, StaysInRace DEF TypeOK, Outside, Labels
<1>11. ASSUME CompareAndSwap(t) PROVE ClockInv'
  <2>1. /\ pc[t] = "cas" /\ tokenpos' = t /\ Goto(t, "check")
        /\ UNCHANGED <<group, pollin, disabled, wake, irq, outdated, last_token, ops, after, stray>>
    BY <1>11 DEF CompareAndSwap
  <2> QED
    BY <1>0, <2>1, StaysInRace DEF TypeOK, Outside, Labels
<1>12. ASSUME CheckActivation(t) PROVE ClockInv'
  <2>1. /\ pc[t] = "check" /\ (Goto(t, "is_lowest") \/ Goto(t, "fast_forward"))
        /\ outdated' = [outdated EXCEPT ![t] = FALSE]
        /\ UNCHANGED <<pollin, wake, irq, last_token, ops, after, stray>>
    BY <1>12 DEF CheckActivation
  <2>2. /\ tokenpos' \in Threads \cup {NULL} /\ disabled' \in [Threads -> BOOLEAN]
        /\ outdated' \in [Threads -> BOOLEAN]
    BY <1>0, <1>12 DEF CheckActivation, TypeOK
  <2>3. group' \in Group /\ SameRace(group', group)
    <3>1. group' = group \/ group' = [group EXCEPT !.lowest_clock[t] = FALSE]
      BY <1>12 DEF CheckActivation
    <3>2. CASE group' = group
      BY <1>0, <3>2
    <3>3. CASE group' = [group EXCEPT !.lowest_clock[t] = FALSE]
      BY <1>0, <3>3, LowestClockSet
    <3> QED
      BY <3>1, <3>2, <3>3
  <2> QED
    BY <1>0, <2>1, <2>2, <2>3, StaysInRace DEF TypeOK, Outside, Labels
<1>13. ASSUME FastForward(t) PROVE ClockInv'
  <2>1. PICK d \in Nat : AddTicks(t, d)
    <3>1. last_token \in Nat /\ group.ticks[t] \in Nat
      BY <1>0 DEF TypeOK, Group
    <3> QED
      BY <1>13, <3>1 DEF FastForward
  <2>2. /\ group' \in Group /\ SameRace(group', group)
        /\ wake' \in [Threads -> Threads \cup {NULL}]
    BY <1>0, <2>1, AddTicksType
  <2>3. /\ pc[t] = "fast_forward" /\ Goto(t, "token")
        /\ UNCHANGED <<pollin, disabled, irq, tokenpos, outdated, last_token, ops, after, stray>>
    BY <1>13 DEF FastForward
  <2> QED
    BY <1>0, <2>2, <2>3, StaysInRace DEF TypeOK, Outside, Labels
<1> QED
  BY <1>1, <1>2, <1>4, <1>5, <1>6, <1>7, <1>8, <1>9, <1>10, <1>11, <1>12, <1>13
  DEF GetTokenStep


-----------------------------------------------------------------------------
(* What a thread does with the token while it stays in the race.           *)
LEMMA SyncStepKeeps ==
  ASSUME ClockInv, NEW t \in Threads, UNCHANGED counting,
         \/ Sync(t) \/ Finish(t) \/ PutToken(t) \/ EntryStart(t) \/ OnDisable(t)
  PROVE  ClockInv'
<1> USE DEF NULL
<1>0. TypeOK /\ group \in Group /\ SameRace(group, group)
  BY DEF ClockInv, TypeOK, SameRace
<1>1. ASSUME Sync(t) PROVE ClockInv'
  <2>1. /\ AddTicks(t, 1) /\ pc[t] = "token" /\ Goto(t, "put")
        /\ ops' = [ops EXCEPT ![t] = @ + 1]
        /\ UNCHANGED <<pollin, disabled, irq, tokenpos, outdated, last_token, after, stray>>
    BY <1>1 DEF Sync, MayDo, WithToken, Count
  <2>2. /\ group' \in Group /\ SameRace(group', group)
        /\ wake' \in [Threads -> Threads \cup {NULL}]
    BY <1>0, <2>1, AddTicksType
  <2>3. ops' \in [Threads -> Nat]
    BY <1>0, <2>1 DEF TypeOK
  <2> QED
    BY <1>0, <2>1, <2>2, <2>3, StaysInRace DEF TypeOK, Outside, Labels
<1>2. ASSUME Finish(t) PROVE ClockInv'
  <2>1. /\ pc[t] = "token" /\ Goto(t, "gone") /\ tokenpos' = NULL
        /\ UNCHANGED <<group, pollin, disabled, wake, irq, outdated, last_token, ops, after, stray>>
    BY <1>2 DEF Finish, AtEnd, WithToken
  <2> QED
    BY <1>0, <2>1, StaysInRace DEF TypeOK, Outside, Labels
<1>3. ASSUME PutToken(t) PROVE ClockInv'
  <2>1. /\ pc[t] = "put" /\ Goto(t, "start") /\ tokenpos' = NULL
        /\ last_token' = group.ticks[t]
        /\ UNCHANGED <<group, pollin, disabled, wake, irq, outdated, ops, after, stray>>
    BY <1>3 DEF PutToken
  <2>2. last_token' \in Nat
    BY <1>0, <2>1 DEF Group
  <2> QED
    BY <1>0, <2>1, <2>2, StaysInRace DEF TypeOK, Outside, Labels
<1>4. ASSUME EntryStart(t) PROVE ClockInv'
  <2> DEFINE g == [group EXCEPT !.lowest_clock[t] = FALSE, !.count_ticks[t] = TRUE]
  <2>1. PICK garbage \in BOOLEAN :
          /\ group' = Enabled(DetermineLowest(g, t, garbage), t)
          /\ wake' = [wake EXCEPT ![t] = ThreadToWakeUp(g, t, garbage)]
    BY <1>4 DEF EntryStart, KernelCall
  <2>2. g \in Group /\ SameRace(g, group)
    BY <1>0 DEF Group, SameRace
  <2> HIDE DEF g
  <2> DEFINE h == DetermineLowest(g, t, garbage)
             n == IF h.lowest_tid = t
                  THEN [h EXCEPT !.notification_needed = TRUE, !.nmi_new_low = FALSE] ELSE h
  <2>3. /\ h \in Group /\ SameRace(h, group)
        /\ ThreadToWakeUp(g, t, garbage) \in Threads \cup {NULL}
    BY <2>2, DetermineKeepsRace DEF SameRace
  <2>4. group' = ClearEntryState(n, t)
    BY <2>1 DEF Enabled
  <2> HIDE DEF h
  <2>5. n \in Group /\ SameRace(n, group)
    <3>1. CASE n = h
      BY <2>3, <3>1
    <3>2. CASE n = [h EXCEPT !.notification_needed = TRUE, !.nmi_new_low = FALSE]
      <4> HIDE DEF n
      <4> QED BY <2>3, <3>2 DEF Group, SameRace
    <3> QED
      BY <3>1, <3>2
  <2> HIDE DEF n
  <2>6. pc[t] = "start" /\ ~group.inactive[t]
    BY <1>4 DEF EntryStart, ClockInv, Placed, Outside, InRace
  <2>7. group' \in Group /\ SameRace(group', group)
    BY <2>4, <2>5, <2>6, ClearType DEF SameRace
  <2>8. /\ wake' \in [Threads -> Threads \cup {NULL}]
        /\ disabled' \in [Threads -> BOOLEAN]
    BY <1>0, <1>4, <2>1, <2>3 DEF EntryStart, TypeOK
  <2>9. /\ Goto(t, "run")
        /\ UNCHANGED <<pollin, irq, tokenpos, outdated, last_token, ops, after, stray>>
    BY <1>4 DEF EntryStart
  <2> QED
    BY <1>0, <2>6, <2>7, <2>8, <2>9, StaysInRace DEF TypeOK, Outside, Labels
<1>5. ASSUME OnDisable(t) PROVE ClockInv'
  <2> DEFINE g == [group EXCEPT !.count_ticks[t] = FALSE,
                                !.notification_needed = @ \/ counting]
  <2>1. /\ pc[t] = "disable" /\ KernelCall(t, g, Same) /\ Goto(t, "halt")
        /\ disabled' = [disabled EXCEPT ![t] = TRUE]
        /\ UNCHANGED <<pollin, irq, tokenpos, outdated, last_token, ops, after, stray>>
    BY <1>5 DEF OnDisable
  <2>2. g \in Group /\ SameRace(g, group)
    BY <1>0 DEF TypeOK, Group, SameRace
  <2> HIDE DEF g
  <2>3. /\ group' \in Group /\ SameRace(group', group)
        /\ wake' \in [Threads -> Threads \cup {NULL}]
    BY <1>0, <2>1, <2>2, CallType DEF SameRace
  <2>4. disabled' \in [Threads -> BOOLEAN] /\ after[t] # "none"
    BY <1>0, <2>1 DEF TypeOK, ClockInv, Placed
  <2> QED
    BY <1>0, <2>1, <2>3, <2>4, StaysInRace DEF TypeOK, Outside, Labels
<1> QED
  BY <1>1, <1>2, <1>3, <1>4, <1>5

(* A thread decides to leave.                                              *)
LEMMA LeaveStepKeeps ==
  ASSUME ClockInv, NEW t \in Threads, UNCHANGED counting,
         Block(t) \/ Exit(t) \/ JoinNext(t)
  PROVE  ClockInv'
<1>0. TypeOK
  BY DEF ClockInv
<1>1. PICK how \in {"blocked", "parked", "joining"} : Leave(t, how)
  BY DEF Block, Exit, JoinNext
<1>2. pc[t] = "token" /\ ops' \in [Threads -> Nat]
  BY <1>0 DEF Block, Exit, JoinNext, MayDo, AtEnd, WithToken, Count, TypeOK
<1>3. /\ pc' = [pc EXCEPT ![t] = "disable"] /\ after' = [after EXCEPT ![t] = how]
      /\ UNCHANGED <<group, pollin, disabled, wake, irq, tokenpos, outdated, last_token, stray>>
  BY <1>1 DEF Leave, Goto
<1>4. TypeOK'
  BY <1>0, <1>2, <1>3 DEF TypeOK, Labels
<1>5. ASSUME NEW u \in Threads PROVE Placed(u)'
  <2>1. CASE u = t
    <3>1. pc'[u] = "disable" /\ after'[u] = how
      BY <1>0, <1>3, <2>1 DEF TypeOK
    <3>2. InRace(group, u) /\ u \in group.active_threads
      BY <1>2, <2>1 DEF ClockInv, Placed, Outside
    <3> QED
      BY <1>3, <3>1, <3>2 DEF Placed, InRace
  <2>2. CASE u # t
    <3>1. pc'[u] = pc[u] /\ after'[u] = after[u]
      BY <1>0, <1>3, <2>2 DEF TypeOK
    <3> QED
      BY <1>3, <3>1 DEF ClockInv, Placed, InRace
  <2> QED
    BY <2>1, <2>2
<1> QED
  BY <1>4, <1>5 DEF ClockInv


(* A thread halts: its entry and its place in the list go together, and    *)
(* the search that follows cannot find it any more.                        *)
LEMMA HaltStepKeeps ==
  ASSUME ClockInv, NEW t \in Threads, UNCHANGED counting, EntryHalt(t)
  PROVE  ClockInv'
<1> USE DEF NULL
<1>0. TypeOK /\ group \in Group /\ after[t] # "none"
  BY DEF ClockInv, TypeOK, EntryHalt, Placed
<1> DEFINE g == MarkAsInactive(group, t)
<1>1. PICK garbage \in BOOLEAN :
        LET h == DetermineLowest(g, t, garbage)
        IN  /\ group' = [h EXCEPT !.waiting[t] = FALSE,
                                  !.initialized[t] = @ /\ after[t] # "parked"]
            /\ wake' = [wake EXCEPT ![t] = ThreadToWakeUp(g, t, garbage)]
  BY DEF EntryHalt, KernelCall
<1>2. /\ g \in Group /\ g.initialized = group.initialized
      /\ g.inactive = [group.inactive EXCEPT ![t] = TRUE]
      /\ g.active_threads = group.active_threads \ {t}
  BY <1>0 DEF MarkAsInactive, Group
<1> HIDE DEF g
<1> DEFINE h == DetermineLowest(g, t, garbage)
<1>3. /\ h \in Group /\ SameRace(h, g)
      /\ ThreadToWakeUp(g, t, garbage) \in Threads \cup {NULL}
  BY <1>2, DetermineKeepsRace
<1>4. group' = [h EXCEPT !.waiting[t] = FALSE, !.initialized[t] = @ /\ after[t] # "parked"]
  BY <1>1
<1> HIDE DEF h
<1>5. /\ group' \in Group
      /\ group'.inactive = [group.inactive EXCEPT ![t] = TRUE]
      /\ group'.active_threads = group.active_threads \ {t}
      /\ group'.initialized = [group.initialized EXCEPT ![t] = @ /\ after[t] # "parked"]
  <2>1. h.initialized[t] \in BOOLEAN
    BY <1>3 DEF Group
  <2>2. group' \in Group
    BY <1>3, <1>4, <2>1 DEF Group
  <2>3. /\ group'.inactive = h.inactive /\ group'.active_threads = h.active_threads
        /\ group'.initialized = [h.initialized EXCEPT ![t] = @ /\ after[t] # "parked"]
    BY <1>3, <1>4 DEF Group
  <2> QED
    BY <1>2, <1>3, <2>2, <2>3 DEF SameRace
<1>6. wake' \in [Threads -> Threads \cup {NULL}]
  BY <1>0, <1>1, <1>3 DEF TypeOK
<1>7. /\ pc[t] = "halt" /\ pc' = [pc EXCEPT ![t] = "release"]
      /\ UNCHANGED <<pollin, disabled, irq, tokenpos, outdated, last_token, ops, after, stray>>
  BY DEF EntryHalt, Goto
<1>8. TypeOK'
  BY <1>0, <1>5, <1>6, <1>7 DEF TypeOK, Labels
<1>9. ASSUME NEW u \in Threads PROVE Placed(u)'
  <2>1. CASE u = t
    <3>1. pc'[u] = "release" /\ after'[u] = after[t]
      BY <1>0, <1>7, <2>1 DEF TypeOK
    <3>2. ~InRace(group', u) /\ u \notin group'.active_threads
      BY <1>0, <1>5, <2>1 DEF InRace, Group
    <3>3. group.initialized[t]
      BY <1>7 DEF ClockInv, Placed, InRace, Outside
    <3>4. after[t] = "joining" => group'.initialized[u]
      BY <1>0, <1>5, <2>1, <3>3 DEF Group
    <3> QED
      BY <1>0, <3>1, <3>2, <3>4 DEF Placed, Outside
  <2>2. CASE u # t
    <3>1. pc'[u] = pc[u] /\ after'[u] = after[u]
      BY <1>0, <1>7, <2>2 DEF TypeOK
    <3>2. /\ group'.initialized[u] = group.initialized[u]
          /\ group'.inactive[u] = group.inactive[u]
          /\ u \in group'.active_threads <=> u \in group.active_threads
      BY <1>0, <1>5, <2>2 DEF Group
    <3> QED
      BY <3>1, <3>2 DEF ClockInv, Placed, InRace
  <2> QED
    BY <2>1, <2>2
<1> QED
  BY <1>8, <1>9 DEF ClockInv

(* It gives the token back and is where it wanted to go.                   *)
LEMMA ReleaseStepKeeps ==
  ASSUME ClockInv, NEW t \in Threads, UNCHANGED counting, Release(t)
  PROVE  ClockInv'
<1> USE DEF NULL
<1>0. TypeOK /\ pc[t] = "release" /\ after[t] \in {"blocked", "parked", "joining"}
  BY DEF ClockInv, TypeOK, Release, Placed
<1>1. /\ pc' = [pc EXCEPT ![t] = after[t]] /\ after' = [after EXCEPT ![t] = "none"]
      /\ tokenpos' = NULL /\ last_token' = group.ticks[t]
      /\ UNCHANGED <<group, pollin, disabled, wake, irq, outdated, ops, stray>>
  BY DEF Release, Goto
<1>2. last_token' \in Nat
  BY <1>0, <1>1 DEF TypeOK, Group
<1>3. TypeOK'
  BY <1>0, <1>1, <1>2 DEF TypeOK, Labels
<1>4. ASSUME NEW u \in Threads PROVE Placed(u)'
  <2>1. CASE u = t
    <3>1. pc'[u] = after[t]
      BY <1>0, <1>1, <2>1 DEF TypeOK
    <3> QED
      BY <1>0, <1>1, <2>1, <3>1 DEF ClockInv, Placed, InRace, Outside
  <2>2. CASE u # t
    <3>1. pc'[u] = pc[u] /\ after'[u] = after[u]
      BY <1>0, <1>1, <2>2 DEF TypeOK
    <3> QED
      BY <1>1, <3>1 DEF ClockInv, Placed, InRace
  <2> QED
    BY <2>1, <2>2
<1> QED
  BY <1>3, <1>4 DEF ClockInv

(* A thread comes back into the race.                                      *)
LEMMA BackInRace ==
  ASSUME ClockInv, NEW u \in Threads, NEW t \in Threads, t # u => pc[t] = "token",
         group' \in Group, pc' = IF t = u THEN [pc EXCEPT ![u] = "is_lowest"]
                                 ELSE [pc EXCEPT ![t] = "put", ![u] = "is_lowest"],
         UNCHANGED after,
         group'.initialized = [group.initialized EXCEPT ![u] = TRUE],
         group'.inactive = [group.inactive EXCEPT ![u] = FALSE],
         group'.active_threads = group.active_threads \cup {u},
         NEW v \in Threads
  PROVE  Placed(v)'
<1>0. TypeOK /\ group \in Group
  BY DEF ClockInv, TypeOK
<1>1. CASE v = u
  <2>1. pc'[v] = "is_lowest"
    BY <1>0, <1>1 DEF TypeOK
  <2>2. InRace(group', v) /\ v \in group'.active_threads
    BY <1>0, <1>1 DEF InRace, Group
  <2> QED
    BY <2>1, <2>2 DEF Placed
<1>2. CASE v # u
  <2>1. /\ group'.initialized[v] = group.initialized[v]
        /\ group'.inactive[v] = group.inactive[v]
        /\ v \in group'.active_threads <=> v \in group.active_threads
    BY <1>0, <1>2 DEF Group
  <2>2. CASE v # t
    <3>1. pc'[v] = pc[v]
      BY <1>0, <1>2, <2>2 DEF TypeOK
    <3> QED
      BY <2>1, <3>1 DEF ClockInv, Placed, InRace
  <2>3. CASE v = t
    <3>1. pc'[v] = "put" /\ pc[v] = "token"
      BY <1>0, <1>2, <2>3 DEF TypeOK
    <3> QED
      BY <2>1, <3>1 DEF ClockInv, Placed, InRace, Outside
  <2> QED
    BY <2>2, <2>3
<1> QED
  BY <1>1, <1>2


(* task_clock_entry_activate_other: an entry that was reset starts one     *)
(* tick after its activator, any entry is back in the list.                *)
LEMMA ActivateStepKeeps ==
  ASSUME ClockInv, NEW t \in Threads, NEW u \in Threads, UNCHANGED counting,
         ActivateOther(t, u)
  PROVE  ClockInv'
<1>0. TypeOK /\ group \in Group
  BY DEF ClockInv, TypeOK
<1> DEFINE n == IF group.initialized[u] THEN group
                ELSE [group EXCEPT !.ticks[u] = group.ticks[t] + 1, !.initialized[u] = TRUE]
           c == ClearEntryState(n, u)
           g == Activated(group, t, u)
<1>1. /\ n \in Group /\ n.inactive = group.inactive
      /\ n.active_threads = group.active_threads
      /\ n.initialized = [group.initialized EXCEPT ![u] = TRUE]
  <2>1. CASE group.initialized[u]
    <3>1. n = group
      BY <2>1
    <3> HIDE DEF n
    <3> QED
      BY <1>0, <2>1, <3>1 DEF Group
  <2>2. CASE ~group.initialized[u]
    <3>1. n = [group EXCEPT !.ticks[u] = group.ticks[t] + 1, !.initialized[u] = TRUE]
      BY <2>2
    <3> HIDE DEF n
    <3>2. group.ticks[t] + 1 \in Nat
      BY <1>0 DEF Group
    <3> QED
      BY <1>0, <3>1, <3>2 DEF Group
  <2> QED
    BY <2>1, <2>2
<1>2. g = MarkAsActive(c, u)
  BY DEF Activated
<1> HIDE DEF n
<1>3. /\ c \in Group /\ c.initialized = n.initialized
      /\ c.active_threads = n.active_threads /\ c.inactive = [n.inactive EXCEPT ![u] = FALSE]
  BY <1>1, ClearType
<1> HIDE DEF c
<1>4. /\ g \in Group /\ g.initialized = [group.initialized EXCEPT ![u] = TRUE]
      /\ g.inactive = [group.inactive EXCEPT ![u] = FALSE]
      /\ g.active_threads = group.active_threads \cup {u}
  <2>1. g = [c EXCEPT !.inactive = [@ EXCEPT ![u] = FALSE], !.active_threads = @ \cup {u}]
    BY <1>2 DEF MarkAsActive
  <2> HIDE DEF g
  <2>2. g \in Group
    BY <1>3, <2>1 DEF Group
  <2>3. /\ g.initialized = c.initialized /\ g.active_threads = c.active_threads \cup {u}
        /\ g.inactive = [c.inactive EXCEPT ![u] = FALSE]
    BY <1>3, <2>1 DEF Group
  <2>4. [[group.inactive EXCEPT ![u] = FALSE] EXCEPT ![u] = FALSE]
           = [group.inactive EXCEPT ![u] = FALSE]
    BY <1>0 DEF Group
  <2> QED
    BY <1>1, <1>3, <2>2, <2>3, <2>4
<1>5. /\ pc[t] = "token" /\ u # t /\ group' = [g EXCEPT !.lowest_clock[u] = FALSE]
      /\ pc' = [pc EXCEPT ![t] = "put", ![u] = "is_lowest"]
      /\ ops' = [ops EXCEPT ![t] = @ + 1]
      /\ disabled' = [disabled EXCEPT ![u] = FALSE]
      /\ outdated' \in [Threads -> BOOLEAN]
      /\ UNCHANGED <<pollin, wake, irq, tokenpos, last_token, after, stray>>
  BY <1>0 DEF ActivateOther, WithToken, Count, CountActivation, TypeOK
<1> HIDE DEF g
<1>6. /\ group' \in Group /\ group'.initialized = g.initialized
      /\ group'.inactive = g.inactive /\ group'.active_threads = g.active_threads
  BY <1>4, <1>5 DEF Group
<1>7. TypeOK'
  BY <1>0, <1>5, <1>6 DEF TypeOK, Labels
<1>8. ASSUME NEW v \in Threads PROVE Placed(v)'
  BY <1>4, <1>5, <1>6, BackInRace
<1> QED
  BY <1>7, <1>8 DEF ClockInv

(* task_clock_entry_activate, by a thread that was joining.                *)
LEMMA EntryActivateKeeps ==
  ASSUME ClockInv, NEW t \in Threads, UNCHANGED counting, EntryActivate(t)
  PROVE  ClockInv'
<1>0. TypeOK /\ group \in Group /\ pc[t] = "joining" /\ group.initialized[t]
  BY DEF ClockInv, TypeOK, EntryActivate, Placed
<1> DEFINE c == ClearEntryState(group, t)
           h == [c EXCEPT !.lowest_clock[t] = FALSE]
           g == MarkAsActive(h, t)
<1>1. /\ c \in Group /\ c.initialized = group.initialized
      /\ c.active_threads = group.active_threads
      /\ c.inactive = [group.inactive EXCEPT ![t] = FALSE]
  BY <1>0, ClearType
<1>2. /\ \/ group' = g
         \/ group' = [g EXCEPT !.notification_needed = FALSE, !.lowest_tid = t,
                               !.lowest_clock[t] = TRUE]
      /\ disabled' = [disabled EXCEPT ![t] = FALSE] /\ pc' = [pc EXCEPT ![t] = "is_lowest"]
      /\ UNCHANGED <<pollin, wake, irq, tokenpos, outdated, last_token, ops, after, stray>>
  BY DEF EntryActivate, Goto
<1> HIDE DEF c
<1>3. /\ h \in Group /\ h.initialized = c.initialized
      /\ h.active_threads = c.active_threads /\ h.inactive = c.inactive
  BY <1>1 DEF Group
<1> HIDE DEF h
<1>4. /\ g \in Group /\ g.initialized = h.initialized
      /\ g.active_threads = h.active_threads \cup {t}
      /\ g.inactive = [h.inactive EXCEPT ![t] = FALSE]
  BY <1>3 DEF MarkAsActive, Group
<1> HIDE DEF g
<1>5. /\ group' \in Group /\ group'.initialized = g.initialized
      /\ group'.inactive = g.inactive /\ group'.active_threads = g.active_threads
  <2>1. CASE group' = g
    BY <1>4, <2>1
  <2>2. CASE group' = [g EXCEPT !.notification_needed = FALSE, !.lowest_tid = t,
                                !.lowest_clock[t] = TRUE]
    BY <1>4, <2>2 DEF Group
  <2> QED
    BY <1>2, <2>1, <2>2
<1>6. /\ [[group.inactive EXCEPT ![t] = FALSE] EXCEPT ![t] = FALSE]
           = [group.inactive EXCEPT ![t] = FALSE]
      /\ group.initialized = [group.initialized EXCEPT ![t] = TRUE]
  BY <1>0 DEF Group
<1>7. /\ group'.initialized = [group.initialized EXCEPT ![t] = TRUE]
      /\ group'.inactive = [group.inactive EXCEPT ![t] = FALSE]
      /\ group'.active_threads = group.active_threads \cup {t}
  BY <1>1, <1>3, <1>4, <1>5, <1>6
<1>8. TypeOK'
  BY <1>0, <1>2, <1>5 DEF TypeOK, Labels
<1>9. ASSUME NEW v \in Threads PROVE Placed(v)'
  BY <1>2, <1>5, <1>7, BackInRace
<1> QED
  BY <1>8, <1>9 DEF ClockInv

-----------------------------------------------------------------------------
(* ClockInv holds at first and every step keeps it.                        *)
LEMMA ClockInvInit == Init => ClockInv
<1> SUFFICES ASSUME Init PROVE ClockInv
  OBVIOUS
<1> USE DEF Init, NULL, Master, Threads
<1>1. group \in Group
  BY DEF Group
<1>2. TypeOK
  BY <1>1, BuildAssumption DEF TypeOK, Labels
<1>3. ASSUME NEW t \in Threads PROVE Placed(t)
  BY DEF Placed, InRace, Outside
<1> QED
  BY <1>2, <1>3 DEF ClockInv

(* Every step keeps ClockInv.                                              *)
LEMMA ClockInvStep == ClockInv /\ [Next]_<<vars, counting>> => ClockInv'
<1> SUFFICES ASSUME ClockInv, [Next]_<<vars, counting>> PROVE ClockInv'
  OBVIOUS
<1>1. CASE UNCHANGED <<vars, counting>>
  BY <1>1 DEF vars, ClockInv, TypeOK, Placed, InRace
<1>2. ASSUME Next PROVE ClockInv'
  <2>1. UNCHANGED counting
    BY <1>2 DEF Next
  <2>2. CASE Finished
    BY <1>1, <2>1, <2>2 DEF Finished
  <2>3. ASSUME NEW t \in Threads, Interrupts(t) \/ GetTokenStep(t) \/ TokenStep(t)
        PROVE  ClockInv'
    BY <2>1, <2>3, InterruptStep, GetTokenStepKeeps, SyncStepKeeps, LeaveStepKeeps,
       HaltStepKeeps, ReleaseStepKeeps, ActivateStepKeeps, EntryActivateKeeps DEF TokenStep
  <2> QED
    BY <1>2, <2>2, <2>3 DEF Next
<1> QED
  BY <1>1, <1>2

(* ClockInv holds in every reachable state.                                *)
LEMMA ClockInvAlways == Spec => []ClockInv
  BY ClockInvInit, ClockInvStep, PTL DEF Spec

(* For any number of threads, any program and both builds, every variable  *)
(* keeps its type: a search never returns a thread that is not there, so   *)
(* that a wake-up is only ever sent to a thread, and a thread that leaves  *)
(* the race knows whether it blocks, parks or joins.                       *)
THEOREM ClockTypeCorrect == Spec => []TypeOK
<1>1. ClockInv => TypeOK
  BY DEF ClockInv
<1> QED
  BY <1>1, ClockInvAlways, PTL

(* For any number of threads, any program and both builds, the walk over   *)
(* the list of active threads and the NMI's walk over all entries find the *)
(* same threads: the list and the two flags of an entry change together in *)
(* task_clock_entry_halt, _activate, _activate_other and the reset.        *)
THEOREM WalksAgree == Spec => []ListAgrees
<1>1. ClockInv => ListAgrees
  BY DEF ClockInv, Placed, ListAgrees
<1> QED
  BY <1>1, ClockInvAlways, PTL
=============================================================================

--------------------------- MODULE BarrierProofs ----------------------------
(***************************************************************************)
(* The barrier for every party and every number of rounds: both builds     *)
(* meet as BarrierSpec says, the token is kept while threads come back,    *)
(* who leaves has seen what was written, and the parallel commits are in   *)
(* the order of arrival as long as the versions fit their 16 bits and      *)
(* nobody outside the party commits.                                       *)
(***************************************************************************)
EXTENDS Barrier, FiniteSetTheorems, TLAPS

N == Cardinality(Party)

(* Calls of the real barrier that a thread has made in its round.          *)
Entered(l) ==
  IF l \in {"first", "updated", "sfirst", "activated"} THEN 1
  ELSE IF l \in {"second", "ssecond"} THEN 2 ELSE 0

(* The labels of each build, besides "work".                               *)
ParallelLabels == {"heap", "globals", "commiters", "first", "updated", "second"}
SimpleLabels   == {"arrived", "sfirst", "activated", "ssecond"}

(* From here on a thread knows that everyone has come, ...                 *)
PastFirst == {"updated", "second", "activated", "ssecond"}

(* ... and up to here it is halted, unless it came last.                   *)
Halted == {"heap", "globals", "commiters", "first", "arrived", "sfirst"}

AtLast == {"work", "second", "ssecond"}

BaseType ==
  /\ pc \in [Party -> Labels] /\ token \in Party \cup {Nobody}
  /\ active \in SUBSET Party
  /\ counter \in Nat /\ committed \in Nat
  /\ base \in [Segments -> Nat] /\ target \in [Party -> [Segments -> Nat]]
  /\ dirty \in [Party -> SUBSET Segments]
  /\ version \in [Segments -> Nat] /\ seen \in [Party -> [Segments -> Nat]]
  /\ came \in [Party -> Nat] /\ left \in [Party -> Nat] /\ reached \in [Party -> Nat]
  /\ wrote \in [1 .. Rounds -> [Segments -> Nat]]
  /\ arrivals \in Seq(Party) /\ log \in [Segments -> Seq(Party)]

(* How far a thread is, in calls of the real barrier.                      *)
CountInv ==
  \A t \in Party :
    /\ came[t] <= Rounds
    /\ pc[t] = "work" => left[t] = came[t] /\ reached[t] = 2 * came[t]
    /\ pc[t] # "work" => came[t] = left[t] + 1 /\ reached[t] = 2 * left[t] + Entered(pc[t])
    /\ build = "parallel" => pc[t] \in ParallelLabels \cup {"work"}
    /\ build = "simple" => pc[t] \in SimpleLabels \cup {"work"}

(* What the real barrier's opening told those that are past it.            *)
OpenInv ==
  \A t, u \in Party :
    /\ left[t] <= came[u]
    /\ pc[t] \in PastFirst => reached[u] >= 2 * came[t] - 1

Arrived(r) == {t \in Party : came[t] = r + 1}

(* r rounds are over: those that came to the next are counted, the rest    *)
(* has nothing left to do in the last one, and the token is kept from the  *)
(* last arrival until the counter is cleared.                              *)
RoundInv(r) ==
  /\ \A t \in Party :
       /\ came[t] \in {r, r + 1}
       /\ came[t] = r => pc[t] \in AtLast
  /\ counter = Cardinality(Arrived(r))
  /\ token = Nobody <=> counter # N
  /\ token # Nobody => pc[token] # "work"

HaltInv == \A t \in Party : t \in active /\ pc[t] \in Halted => token = t

WroteInv ==
  /\ \A k \in 1 .. Rounds : \A s \in Segments : wrote[k][s] <= version[s]
  /\ \A t \in Party : pc[t] \in {"updated", "second"} =>
       \A s \in Segments : seen[t][s] >= wrote[came[t]][s]

(* What a thread still has to commit in the round.                         *)
DirtyInv ==
  \A t \in Party :
    /\ pc[t] # "heap" => "heap" \notin dirty[t]
    /\ pc[t] \notin {"heap", "globals"} => dirty[t] = {}

MeetInv ==
  /\ BaseType /\ CountInv /\ OpenInv
  /\ \E r \in 0 .. Rounds : RoundInv(r)
  /\ HaltInv /\ WroteInv /\ DirtyInv

(* The round and the arrivals in it are one thing, and no two steps count  *)
(* it differently.                                                         *)
KeepsRound == \A r \in 0 .. Rounds : RoundInv(r) => RoundInv(r)'

-----------------------------------------------------------------------------
(* The versions of one run fit the 16 bits, and nobody outside the party   *)
(* commits.                                                                *)
Fits == FirstVersion + N * Rounds < Width /\ "parallel" \notin Shared

Here(t) == \E p \in 1 .. Len(arrivals) : arrivals[p] = t

InLog(t, s) == \E i \in 1 .. Len(log[s]) : log[s][i] = t

(* The versions of s that t makes in this round.                           *)
Makes(t, s) == IF s \in dirty[t] \/ InLog(t, s) THEN 1 ELSE 0

(* The commits so far are in the order of arrival.                         *)
ListInv ==
  /\ \A p, q \in 1 .. Len(arrivals) : arrivals[p] = arrivals[q] => p = q
  /\ \A s \in Segments : \A i \in 1 .. Len(log[s]) : Here(log[s][i])
  /\ \A s \in Segments : \A i, j \in 1 .. Len(log[s]) : \A p, q \in 1 .. Len(arrivals) :
       i < j /\ arrivals[p] = log[s][i] /\ arrivals[q] = log[s][j] => p < q
  /\ \A t \in Party : pc[t] \in {"heap", "globals"} => build = "parallel"

(* The targets of the arrivals are tickets: everyone's is above those of   *)
(* the dirty arrivals before it, and Conversion's version is below those   *)
(* still to be served.                                                     *)
TicketInv(s) ==
  /\ version[s] <= base[s]
  /\ \A p \in 1 .. Len(arrivals) :
       /\ target[arrivals[p]][s] + Makes(arrivals[p], s) <= base[s]
       /\ s \in dirty[arrivals[p]] => version[s] <= target[arrivals[p]][s]
       /\ InLog(arrivals[p], s) => target[arrivals[p]][s] < version[s]
  /\ \A p, q \in 1 .. Len(arrivals) :
       p < q => target[arrivals[p]][s] + Makes(arrivals[p], s) <= target[arrivals[q]][s]

OrderInv(r) ==
  /\ counter > 0 => \A t \in Party : Here(t) <=> came[t] = r + 1
  /\ build = "parallel" => \A s \in Segments :
       /\ counter = 0 => version[s] <= FirstVersion + N * r
       /\ counter > 0 => base[s] <= FirstVersion + N * r + counter /\ TicketInv(s)

CommitInv == MeetInv /\ ListInv /\ \E r \in 0 .. Rounds : RoundInv(r) /\ OrderInv(r)

-----------------------------------------------------------------------------
(***************************************************************************)
(* Types and counting.                                                     *)
(***************************************************************************)
LEMMA Numbers == /\ N \in Nat \ {0} /\ Rounds \in Nat /\ FirstVersion \in Nat /\ Width \in Nat \ {0}
                 /\ IsFiniteSet(Party) /\ Nobody \notin Party
<1>1. N \in Nat
  BY PartyAssumption, FS_CardinalityType DEF N
<1>2. N # 0
  BY PartyAssumption, FS_EmptySet DEF N
<1> QED
  BY <1>1, <1>2, PartyAssumption, NumberAssumption

(* What a round wrote is no later than the latest version.                 *)
LEMMA WroteBound ==
  ASSUME BaseType, WroteInv, NEW k \in 1 .. Rounds, NEW s \in Segments
  PROVE  wrote[k][s] <= version[s] /\ wrote[k][s] \in Nat /\ version[s] \in Nat
<1>1. version \in [Segments -> Nat] /\ wrote \in [1 .. Rounds -> [Segments -> Nat]]
  BY DEF BaseType
<1>2. wrote[k] \in [Segments -> Nat]
  BY <1>1
<1>3. wrote[k][s] <= version[s]
  BY DEF WroteInv
<1> QED
  BY <1>1, <1>2, <1>3

(* What 16 bits keep.                                                      *)
LEMMA Modulo == \A x \in Nat : x % Width \in 0 .. Width - 1 /\ (x < Width => x % Width = x)
BY Numbers, Z3

(* The arrivals are some of the party; they are all of it when they are    *)
(* as many.                                                                *)
LEMMA Counting ==
  ASSUME NEW r \in Nat
  PROVE  /\ IsFiniteSet(Arrived(r)) /\ Cardinality(Arrived(r)) \in 0 .. N
         /\ Cardinality(Arrived(r)) = N <=> \A t \in Party : came[t] = r + 1
         /\ (\A t \in Party : came[t] # r + 1) <=> Cardinality(Arrived(r)) = 0
<1> DEFINE A == Arrived(r)
<1>1. A \in SUBSET Party
  BY DEF Arrived
<1>2. IsFiniteSet(A) /\ Cardinality(A) <= N /\ (Cardinality(A) = N => A = Party)
  BY <1>1, Numbers, FS_Subset DEF N
<1>3. Cardinality(A) \in Nat
  BY <1>2, FS_CardinalityType
<1>4. A = Party <=> \A t \in Party : came[t] = r + 1
  BY DEF Arrived
<1>5. (\A t \in Party : came[t] # r + 1) <=> A = {}
  BY DEF Arrived
<1> QED
  BY <1>2, <1>3, <1>4, <1>5, Numbers, FS_EmptySet DEF N

(* One more arrival.                                                       *)
LEMMA OneMore ==
  ASSUME NEW r \in Nat, NEW t \in Party, came \in [Party -> Nat], came[t] = r,
         came' = [came EXCEPT ![t] = @ + 1]
  PROVE  Cardinality(Arrived(r)') = Cardinality(Arrived(r)) + 1
<1>1. Arrived(r)' = Arrived(r) \cup {t}
  BY DEF Arrived
<1>2. t \notin Arrived(r)
  BY DEF Arrived
<1>3. IsFiniteSet(Arrived(r))
  BY Counting
<1>4. Cardinality(Arrived(r) \cup {t}) = Cardinality(Arrived(r)) + 1
  BY <1>2, <1>3, FS_AddElement
<1> QED
  BY <1>1, <1>4

(* A commit keeps the types of the versions, the logs and what was written *)
(* and seen.                                                               *)
LEMMA CommitType ==
  ASSUME BaseType, NEW t \in Party, NEW S \in SUBSET Segments, Commit(t, S), UNCHANGED came,
         came[t] \in 1 .. Rounds
  PROVE  /\ version' \in [Segments -> Nat] /\ log' \in [Segments -> Seq(Party)]
         /\ seen' \in [Party -> [Segments -> Nat]] /\ dirty' \in [Party -> SUBSET Segments]
         /\ wrote' \in [1 .. Rounds -> [Segments -> Nat]]
<1>1. version' \in [Segments -> Nat]
  <2>1. version \in [Segments -> Nat]
    BY DEF BaseType
  <2>2. version' = [s \in Segments |-> IF s \in S \cap dirty[t] THEN version[s] + 1 ELSE version[s]]
    BY DEF Commit
  <2> QED
    BY <2>1, <2>2
<1>2. log' \in [Segments -> Seq(Party)]
  BY DEF Commit, BaseType
<1>3. seen' \in [Party -> [Segments -> Nat]]
  BY <1>1 DEF Commit, BaseType
<1>4. dirty' \in [Party -> SUBSET Segments]
  BY DEF Commit, BaseType
<1>5. wrote' \in [1 .. Rounds -> [Segments -> Nat]]
  BY <1>1 DEF Commit, BaseType
<1> QED
  BY <1>1, <1>2, <1>3, <1>4, <1>5
-----------------------------------------------------------------------------
(***************************************************************************)
(* One step of each kind keeps MeetInv.                                    *)
(***************************************************************************)

(* A round that a thread is in is one of the Rounds.                       *)
LEMMA InRound ==
  ASSUME BaseType, CountInv, NEW t \in Party, pc[t] # "work"
  PROVE  came[t] \in 1 .. Rounds
BY Numbers DEF BaseType, CountInv

(* The round is determined by who came and the counter.                    *)
LEMMA OneRound ==
  ASSUME BaseType, NEW r \in 0 .. Rounds, NEW q \in 0 .. Rounds, RoundInv(r), RoundInv(q)
  PROVE  r = q
<1>1. r \in Nat /\ q \in Nat
  BY Numbers
<1>2. PICK t \in Party : TRUE
  BY PartyAssumption
<1>3. ASSUME NEW k \in Nat, NEW l \in Nat, RoundInv(k), RoundInv(l), k < l PROVE FALSE
  <2>1. \A u \in Party : came[u] = l /\ came[u] = k + 1
    BY <1>3 DEF RoundInv
  <2>2. \A u \in Party : came[u] # l + 1
    BY <2>1, <1>3
  <2>3. counter = 0 /\ counter = N
    BY <1>3, <2>1, <2>2, Counting DEF RoundInv
  <2> QED
    BY <2>3, Numbers
<1> QED
  BY <1>1, <1>3

(* Nobody can have left a round that is not full.                          *)
LEMMA Newcomer ==
  ASSUME MeetInv, NEW t \in Party, pc[t] = "work", token = Nobody,
         NEW r \in 0 .. Rounds, RoundInv(r)
  PROVE  came[t] = r
<1>1. r \in Nat
  BY Numbers
<1>2. left[t] = came[t] /\ \A u \in Party : left[t] <= came[u] /\ came[u] \in {r, r + 1}
  BY DEF MeetInv, CountInv, OpenInv, RoundInv
<1>3. came[t] = r + 1 => \A u \in Party : came[u] = r + 1
  BY <1>1, <1>2 DEF MeetInv, BaseType
<1>4. counter # N
  BY DEF RoundInv
<1> QED
  BY <1>1, <1>2, <1>3, <1>4, Counting DEF RoundInv

(* A thread comes to the barrier: it is counted in the round that is open, *)
(* and the last one keeps the token.                                       *)
LEMMA ArriveStep ==
  ASSUME MeetInv, NEW t \in Party, Arrive(t) \/ SimpleArrive(t), UNCHANGED build
  PROVE  MeetInv' /\ KeepsRound
<1>0. PICK r \in 0 .. Rounds : RoundInv(r)
  BY DEF MeetInv
<1>1. r \in Nat /\ BaseType /\ CountInv /\ OpenInv /\ HaltInv /\ WroteInv /\ DirtyInv
  BY Numbers DEF MeetInv
<1>2. PICK l \in {"heap", "arrived"} :
        /\ pc' = [pc EXCEPT ![t] = l]
        /\ build = "parallel" => l = "heap"
        /\ build = "simple" => l = "arrived"
  BY DEF Arrive, SimpleArrive, Goto
<1>3. /\ pc[t] = "work" /\ token = Nobody /\ came[t] < Rounds
      /\ StartRound(t) /\ LeaveToken(t)
      /\ UNCHANGED <<committed, left, reached>>
  BY DEF Arrive, SimpleArrive, GetToken
<1>4. came[t] = r
  BY <1>0, <1>3, Newcomer
<1>5. /\ came' = [came EXCEPT ![t] = @ + 1] /\ counter' = counter + 1
      /\ came'[t] = r + 1 /\ \A u \in Party \ {t} : came'[u] = came[u] /\ pc'[u] = pc[u]
      /\ pc'[t] = l
  BY <1>1, <1>2, <1>3, <1>4 DEF StartRound, BaseType
<1>6. Cardinality(Arrived(r)') = counter + 1
  BY <1>0, <1>1, <1>4, <1>5, OneMore DEF BaseType, RoundInv
<1>7. BaseType'
  <2>1. /\ pc' \in [Party -> Labels] /\ token' \in Party \cup {Nobody} /\ active' \in SUBSET Party
        /\ counter' \in Nat /\ committed' \in Nat /\ came' \in [Party -> Nat]
        /\ left' \in [Party -> Nat] /\ reached' \in [Party -> Nat]
    BY <1>1, <1>2, <1>3, <1>5 DEF BaseType, LeaveToken, Labels
  <2>2. arrivals' \in Seq(Party)
    BY <1>1, <1>3 DEF BaseType, StartRound
  <2>3. CASE Arrive(t)
    <3>1. PICK d \in SUBSET Segments :
            /\ dirty' = [dirty EXCEPT ![t] = d]
            /\ target' = [target EXCEPT ![t] = BaseVersions(t)]
            /\ base' = NextBase(BaseVersions(t), d)
      BY <2>3 DEF Arrive
    <3>2. BaseVersions(t) \in [Segments -> Nat]
      <4>1. base \in [Segments -> Nat] /\ version \in [Segments -> Nat]
        BY <1>1 DEF BaseType
      <4> QED
        BY <4>1, Numbers DEF BaseVersions
    <3>3. dirty' \in [Party -> SUBSET Segments] /\ target' \in [Party -> [Segments -> Nat]]
      BY <1>1, <3>1, <3>2 DEF BaseType
    <3>5. base' \in [Segments -> Nat]
      <4>1. \A s \in Segments : BaseVersions(t)[s] + (IF s \in d THEN 1 ELSE 0) \in Nat
        BY <3>2
      <4> QED
        BY <3>1, <4>1, Modulo, Numbers DEF NextBase
    <3>4. log' \in [Segments -> Seq(Party)] /\ UNCHANGED <<version, seen, wrote>>
      BY <1>1, <2>3 DEF BaseType, Arrive
    <3> QED
      BY <1>1, <2>1, <2>2, <3>3, <3>4, <3>5 DEF BaseType
  <2>4. CASE SimpleArrive(t)
    <3>1. version' \in [Segments -> Nat] /\ log' \in [Segments -> Seq(Party)]
      BY <1>1, <2>4 DEF BaseType, SimpleArrive
    <3>2. seen' \in [Party -> [Segments -> Nat]] /\ wrote' \in [1 .. Rounds -> [Segments -> Nat]]
      BY <1>1, <2>4, <3>1 DEF BaseType, SimpleArrive
    <3>3. UNCHANGED <<base, target, dirty>>
      BY <2>4 DEF SimpleArrive
    <3> QED
      BY <1>1, <2>1, <2>2, <3>1, <3>2, <3>3 DEF BaseType
  <2> QED
    BY <2>3, <2>4
<1>8. CountInv'
  BY <1>1, <1>2, <1>3, <1>4, <1>5, Numbers DEF CountInv, BaseType, Entered, ParallelLabels, SimpleLabels
<1>9. OpenInv'
  BY <1>1, <1>2, <1>3, <1>4, <1>5 DEF OpenInv, BaseType, PastFirst
<1>10. RoundInv(r)'
  <2>1. /\ \A u \in Party : came'[u] \in {r, r + 1} /\ (came'[u] = r => pc'[u] \in AtLast)
        /\ counter' = Cardinality(Arrived(r)')
    BY <1>0, <1>1, <1>2, <1>4, <1>5, <1>6 DEF RoundInv
  <2>2. token' = Nobody <=> counter' # N
    BY <1>3, <1>5, Numbers DEF LeaveToken, KeepsToken, N
  <2>3. token' # Nobody => pc'[token'] # "work"
    BY <1>3, <1>5, Numbers DEF LeaveToken
  <2> QED
    BY <2>1, <2>2, <2>3 DEF RoundInv
<1>11. HaltInv'
  BY <1>1, <1>2, <1>3, <1>5, Numbers DEF HaltInv, LeaveToken, BaseType
<1>12. WroteInv'
  <2>1. CASE Arrive(t)
    <3>1. UNCHANGED <<wrote, version, seen>>
      BY <2>1 DEF Arrive
    <3> QED
      BY <1>1, <1>2, <1>5, <3>1 DEF WroteInv
  <2>2. CASE SimpleArrive(t)
    <3>1. /\ \A s \in Segments : version'[s] \in Nat /\ version[s] <= version'[s]
          /\ wrote' = [wrote EXCEPT ![r + 1] = version'] /\ r + 1 \in 1 .. Rounds
      BY <1>1, <1>3, <1>4, <1>5, <2>2, Numbers DEF SimpleArrive, BaseType
    <3>2. \A k \in 1 .. Rounds : \A s \in Segments : wrote'[k][s] <= version'[s]
      <4> SUFFICES ASSUME NEW k \in 1 .. Rounds, NEW s \in Segments
                   PROVE  wrote'[k][s] <= version'[s]
        OBVIOUS
      <4>1. CASE k = r + 1
        <5>1. wrote'[k] = version'
          BY <1>1, <3>1, <4>1 DEF BaseType
        <5> QED
          BY <3>1, <5>1
      <4>2. CASE k # r + 1
        <5>1. wrote'[k] = wrote[k]
          BY <1>1, <3>1, <4>2 DEF BaseType
        <5>2. wrote[k][s] <= version[s] /\ wrote[k][s] \in Nat /\ version[s] \in Nat
          BY <1>1, WroteBound
        <5> QED
          BY <3>1, <5>1, <5>2
      <4> QED
        BY <4>1, <4>2
    <3>3. ASSUME NEW u \in Party, pc'[u] \in {"updated", "second"}
          PROVE  \A s \in Segments : seen'[u][s] >= wrote'[came'[u]][s]
      <4>1. u # t /\ pc[u] \in {"updated", "second"} /\ came'[u] = came[u]
        BY <1>2, <1>5, <3>3
      <4>2. reached[t] = 2 * r /\ reached[t] >= 2 * came[u] - 1
        BY <1>1, <1>3, <1>4, <4>1 DEF CountInv, OpenInv, PastFirst
      <4>3. came[u] # r + 1 /\ came[u] \in 1 .. Rounds
        <5>1. pc[u] # "work"
          BY <4>1
        <5>2. came[u] \in 1 .. Rounds
          BY <1>1, <5>1, InRound
        <5> QED
          BY <1>1, <4>2, <5>2, Numbers
      <4>4. wrote'[came[u]] = wrote[came[u]] /\ seen'[u] = seen[u]
        BY <1>1, <2>2, <3>1, <4>1, <4>3 DEF BaseType, SimpleArrive
      <4> QED
        BY <1>1, <4>1, <4>4 DEF WroteInv
    <3> QED
      BY <3>2, <3>3 DEF WroteInv
  <2> QED
    BY <2>1, <2>2
<1>13. DirtyInv'
  BY <1>1, <1>2, <1>3, <1>5 DEF DirtyInv, Arrive, SimpleArrive, BaseType
<1> QED
  BY <1>0, <1>1, <1>7, <1>8, <1>9, <1>10, <1>11, <1>12, <1>13, OneRound DEF MeetInv, KeepsRound
(* A step inside the round: t goes from one label to a later one.          *)
Advance(t, from, to) ==
  /\ pc[t] = from /\ from # "work" /\ to \in Labels \ {"work"}
  /\ pc' = [pc EXCEPT ![t] = to]
  /\ from \in ParallelLabels <=> to \in ParallelLabels
  /\ from \in AtLast => to \in AtLast
  /\ UNCHANGED <<build, token, counter, came, left>>

(* Within a round it is enough to know how far the step takes t.           *)
LEMMA AdvanceStep ==
  ASSUME MeetInv, BaseType', NEW t \in Party, NEW from \in Labels, NEW to \in Labels, Advance(t, from, to),
         reached' = [reached EXCEPT ![t] = @ + Entered(to) - Entered(from)],
         to \in PastFirst => from \in PastFirst \/ RealBarrierOpen(t),
         Entered(to) \in {Entered(from), Entered(from) + 1},
         from \notin PastFirst /\ to \in PastFirst => Entered(from) = 1
  PROVE  CountInv' /\ OpenInv' /\ KeepsRound
<1>1. BaseType /\ CountInv /\ OpenInv
  BY DEF MeetInv
<1>2. /\ pc[t] # "work" /\ pc'[t] = to /\ \A u \in Party \ {t} : pc'[u] = pc[u]
      /\ \A u \in Party \ {t} : reached'[u] = reached[u]
      /\ reached'[t] = reached[t] + Entered(to) - Entered(from)
      /\ came' = came /\ left' = left
  BY <1>1 DEF Advance, BaseType
<1>3. CountInv'
  <2>1. to \in ParallelLabels <=> to \notin SimpleLabels
    BY DEF Advance, Labels, ParallelLabels, SimpleLabels
  <2>2. from \in ParallelLabels <=> from \notin SimpleLabels
    BY DEF Advance, Labels, ParallelLabels, SimpleLabels
  <2>3. Entered(to) \in Nat /\ Entered(from) \in Nat
    BY DEF Entered
  <2>4. reached'[t] = 2 * left[t] + Entered(to)
    BY <1>1, <1>2, <2>3 DEF CountInv, Advance, BaseType
  <2> QED
    BY <1>1, <1>2, <2>1, <2>2, <2>4 DEF CountInv, Advance
<1>4. OpenInv'
  <2> SUFFICES ASSUME NEW v \in Party, NEW u \in Party, pc'[v] \in PastFirst
               PROVE  reached'[u] >= 2 * came[v] - 1
    BY <1>1, <1>2 DEF OpenInv
  <2>1. reached'[u] >= reached[u] /\ reached[u] \in Nat /\ reached'[u] \in Nat /\ came[v] \in Nat
    <3>1. Entered(from) \in Nat /\ Entered(to) >= Entered(from)
      BY DEF Entered
    <3>2. reached[u] \in Nat /\ reached'[u] \in Nat /\ came[v] \in Nat
      BY <1>1 DEF BaseType
    <3> QED
      BY <1>2, <3>1, <3>2
  <2>2. CASE pc[v] \in PastFirst
    BY <1>1, <2>1, <2>2 DEF OpenInv
  <2>3. CASE pc[v] \notin PastFirst
    <3>1. v = t /\ RealBarrierOpen(t) /\ Entered(pc[t]) = 1
      BY <1>2, <2>3 DEF Advance
    <3>2. reached[t] = 2 * came[t] - 1
      BY <1>1, <1>2, <3>1 DEF CountInv, BaseType
    <3> QED
      BY <2>1, <3>1, <3>2 DEF RealBarrierOpen
  <2> QED
    BY <2>2, <2>3
<1>6. ASSUME NEW r \in 0 .. Rounds, RoundInv(r) PROVE RoundInv(r)'
  <2>1. Arrived(r)' = Arrived(r)
    BY <1>2 DEF Arrived
  <2>2. \A u \in Party : came[u] = r => pc'[u] \in AtLast
    BY <1>2, <1>6 DEF RoundInv, Advance
  <2>3. token # Nobody => pc'[token] # "work"
    BY <1>1, <1>2, <1>6 DEF RoundInv, Advance, BaseType
  <2> QED
    BY <1>2, <1>6, <2>1, <2>2, <2>3 DEF RoundInv, Advance
<1> QED
  BY <1>3, <1>4, <1>6 DEF KeepsRound

(* A thread calls the real barrier.                                        *)
LEMMA EnterStep ==
  ASSUME MeetInv, NEW t \in Party, UNCHANGED build,
         \/ EnterRealBarrier(t, "commiters", "first") \/ EnterRealBarrier(t, "updated", "second")
         \/ EnterRealBarrier(t, "arrived", "sfirst") \/ EnterRealBarrier(t, "activated", "ssecond")
  PROVE  MeetInv' /\ KeepsRound
<1>1. BaseType /\ HaltInv /\ WroteInv /\ DirtyInv
  BY DEF MeetInv
<1>2. PICK from \in Labels, to \in Labels :
        /\ <<from, to>> \in {<<"commiters", "first">>, <<"updated", "second">>,
                              <<"arrived", "sfirst">>, <<"activated", "ssecond">>}
        /\ EnterRealBarrier(t, from, to)
  BY DEF Labels
<1>3. Advance(t, from, to)
  BY <1>2 DEF EnterRealBarrier, Advance, Goto, Labels, ParallelLabels, AtLast
<1>4. /\ Entered(to) = Entered(from) + 1 /\ Entered(from) \in Nat
      /\ to \in PastFirst => from \in PastFirst
      /\ to \in Halted => from \in Halted
      /\ to \in {"updated", "second"} => from \in {"updated", "second"}
      /\ from \notin {"heap", "globals"}
  BY <1>2 DEF Entered, PastFirst, Halted
<1>5. /\ reached' = [reached EXCEPT ![t] = @ + Entered(to) - Entered(from)]
      /\ UNCHANGED <<token, active, counter, base, committed, target, conv, arrivals, came, left>>
  <2>1. reached[t] + Entered(to) - Entered(from) = reached[t] + 1
    BY <1>1, <1>4 DEF BaseType
  <2> QED
    BY <1>2, <2>1 DEF EnterRealBarrier
<1>6. BaseType'
  BY <1>1, <1>2, <1>5 DEF EnterRealBarrier, Goto, BaseType, conv
<1>7. CountInv' /\ OpenInv' /\ KeepsRound
  BY <1>3, <1>4, <1>5, <1>6, AdvanceStep
<1>8. HaltInv'
  BY <1>1, <1>3, <1>4, <1>5 DEF HaltInv, Advance, BaseType
<1>9. WroteInv'
  BY <1>1, <1>3, <1>4, <1>5 DEF WroteInv, Advance, BaseType, conv
<1>10. DirtyInv'
  BY <1>1, <1>3, <1>4, <1>5 DEF DirtyInv, Advance, BaseType, conv
<1> QED
  BY <1>6, <1>7, <1>8, <1>9, <1>10 DEF MeetInv, KeepsRound

(* A commit of the heap or of the globals, between the arrival and the     *)
(* first call of the real barrier.                                         *)
LEMMA CommitStep ==
  ASSUME MeetInv, NEW t \in Party, UNCHANGED build, CommitHeap(t) \/ CommitGlobals(t)
  PROVE  MeetInv' /\ KeepsRound
<1>1. BaseType /\ HaltInv /\ WroteInv /\ CountInv /\ OpenInv /\ DirtyInv
  BY DEF MeetInv
<1>2. PICK from \in Labels, to \in Labels, S \in SUBSET Segments :
        /\ <<from, to>> \in {<<"heap", "globals">>, <<"globals", "commiters">>}
        /\ pc[t] = from /\ Goto(t, to) /\ Commit(t, S)
        /\ committed' \in Nat
        /\ UNCHANGED <<token, active, counter, base, target, arrivals, came, left, reached>>
  <2>1. CASE CommitHeap(t)
    <3>1. "heap" \in Labels /\ "globals" \in Labels /\ {"heap"} \in SUBSET Segments
      BY DEF Labels, Segments
    <3> QED
      BY <1>1, <2>1, <3>1 DEF CommitHeap, BaseType
  <2>2. CASE CommitGlobals(t)
    <3>1. "globals" \in Labels /\ "commiters" \in Labels /\ {"globals"} \in SUBSET Segments
      BY DEF Labels, Segments
    <3> QED
      BY <1>1, <2>2, <3>1 DEF CommitGlobals, BaseType
  <2> QED
    BY <2>1, <2>2
<1>3. Advance(t, from, to)
  BY <1>2 DEF Advance, Goto, Labels, ParallelLabels, AtLast
<1>4. Entered(to) = 0 /\ Entered(from) = 0 /\ to \notin PastFirst /\ from \in Halted
  BY <1>2 DEF Entered, PastFirst, Halted
<1>5. came[t] \in 1 .. Rounds
  BY <1>1, <1>2, InRound
<1>6. BaseType'
  BY <1>1, <1>2, <1>5, CommitType DEF Goto, BaseType
<1>7. reached' = [reached EXCEPT ![t] = @ + Entered(to) - Entered(from)]
  BY <1>1, <1>2, <1>4 DEF BaseType
<1>8. CountInv' /\ OpenInv' /\ KeepsRound
  BY <1>3, <1>4, <1>6, <1>7, AdvanceStep
<1>9. HaltInv'
  BY <1>1, <1>2, <1>3, <1>4 DEF HaltInv, Advance, BaseType
<1>10. WroteInv'
  <2>1. \A s \in Segments : version[s] <= version'[s] /\ version[s] \in Nat /\ version'[s] \in Nat
    BY <1>1, <1>2, <1>6 DEF Commit, BaseType
  <2>2. wrote' = wrote \/ wrote' = [wrote EXCEPT ![came[t]] = version']
    BY <1>2 DEF Commit
  <2>3. ASSUME NEW k \in 1 .. Rounds, NEW s \in Segments
        PROVE  wrote'[k][s] <= version'[s]
    <3>1. wrote'[k] = wrote[k] \/ wrote'[k] = version'
      BY <1>1, <1>5, <2>2 DEF BaseType
    <3>2. wrote[k][s] <= version[s] /\ wrote[k][s] \in Nat
      BY <1>1, WroteBound
    <3> QED
      BY <2>1, <3>1, <3>2
  <2>4. ASSUME NEW u \in Party, pc'[u] \in {"updated", "second"}
        PROVE  \A s \in Segments : seen'[u][s] >= wrote'[came'[u]][s]
    <3>1. u # t /\ pc[u] = pc'[u] /\ came'[u] = came[u]
      BY <1>1, <1>2, <2>4 DEF Goto, BaseType
    <3>2. reached[t] = 2 * left[t] /\ came[t] = left[t] + 1 /\ reached[t] >= 2 * came[u] - 1
      BY <1>1, <1>2, <1>4, <2>4, <3>1 DEF CountInv, OpenInv, PastFirst, BaseType
    <3>3. pc[u] # "work"
      BY <2>4, <3>1
    <3>4. came[u] \in 1 .. Rounds
      BY <1>1, <3>3, InRound
    <3>5. came[u] # came[t]
      BY <1>1, <3>2, <3>4, Numbers DEF BaseType
    <3>6. wrote'[came[u]] = wrote[came[u]] /\ seen'[u] = seen[u]
      BY <1>1, <1>2, <1>5, <2>2, <3>1, <3>4, <3>5 DEF BaseType, Commit
    <3> QED
      BY <1>1, <2>4, <3>1, <3>6 DEF WroteInv
  <2> QED
    BY <2>3, <2>4 DEF WroteInv
<1>11. DirtyInv'
  <2>1. CASE CommitHeap(t)
    BY <1>1, <2>1 DEF DirtyInv, CommitHeap, Commit, Goto, BaseType, Segments
  <2>2. CASE CommitGlobals(t)
    <3>1. pc[t] = "globals" /\ pc' = [pc EXCEPT ![t] = "commiters"]
          /\ dirty' = [dirty EXCEPT ![t] = @ \ {"globals"}]
      BY <2>2 DEF CommitGlobals, Commit, Goto
    <3>2. dirty[t] \subseteq {"heap", "globals"} /\ "heap" \notin dirty[t]
      BY <1>1, <3>1 DEF DirtyInv, BaseType, Segments
    <3>3. dirty'[t] = {}
      BY <1>1, <3>1, <3>2 DEF BaseType
    <3> QED
      BY <1>1, <3>1, <3>3 DEF DirtyInv, BaseType
  <2> QED
    BY <2>1, <2>2
<1> QED
  BY <1>6, <1>8, <1>9, <1>10, <1>11 DEF MeetInv, KeepsRound
(* Steps that leave the control of the round alone.                        *)
LEMMA QuietStep ==
  ASSUME MeetInv, BaseType', UNCHANGED <<build, pc, token, active, counter, came, left, reached, wrote, dirty>>,
         \A s \in Segments : version[s] <= version'[s],
         \A t \in Party : \A s \in Segments : seen'[t][s] \in {seen[t][s], version[s]}
  PROVE  MeetInv' /\ KeepsRound
<1>1. CountInv' /\ OpenInv' /\ HaltInv' /\ DirtyInv'
  BY DEF MeetInv, CountInv, OpenInv, HaltInv, DirtyInv
<1>2. KeepsRound
  <2>1. SUFFICES ASSUME NEW r \in 0 .. Rounds, RoundInv(r) PROVE RoundInv(r)'
    BY DEF KeepsRound
  <2>2. Arrived(r)' = Arrived(r)
    BY DEF Arrived
  <2> QED
    BY <2>1, <2>2 DEF RoundInv
<1>3. BaseType /\ WroteInv /\ CountInv
  BY DEF MeetInv
<1>4. WroteInv'
  <2>1. ASSUME NEW k \in 1 .. Rounds, NEW s \in Segments
        PROVE  wrote'[k][s] <= version'[s]
    <3>1. wrote[k][s] <= version[s] /\ wrote[k][s] \in Nat /\ version[s] \in Nat /\ version'[s] \in Nat
      BY <1>3, WroteBound DEF BaseType
    <3> QED
      BY <3>1
  <2>2. ASSUME NEW t \in Party, pc'[t] \in {"updated", "second"}, NEW s \in Segments
        PROVE  seen'[t][s] >= wrote'[came'[t]][s]
    <3>1. pc[t] # "work"
      BY <2>2
    <3>2. came[t] \in 1 .. Rounds
      BY <1>3, <3>1, InRound
    <3>3. seen[t][s] >= wrote[came[t]][s] /\ version[s] >= wrote[came[t]][s]
      BY <1>3, <2>2, <3>2 DEF WroteInv, BaseType
    <3> QED
      BY <3>3
  <2> QED
    BY <2>1, <2>2 DEF WroteInv
<1> QED
  BY <1>1, <1>2, <1>4 DEF MeetInv, KeepsRound

(* A thread fetches versions while it waits for those before it.           *)
LEMMA FetchStep ==
  ASSUME MeetInv, NEW t \in Party, UNCHANGED build, FetchMore(t)
  PROVE  MeetInv' /\ KeepsRound
<1>1. BaseType
  BY DEF MeetInv
<1>2. /\ UNCHANGED <<build, pc, token, active, counter, base, committed, target, version, dirty, log, wrote,
                      arrivals, came, left, reached>>
      /\ seen' = [seen EXCEPT ![t] = version]
  BY DEF FetchMore, Update
<1>3. BaseType'
  BY <1>1, <1>2 DEF BaseType
<1>4. \A s \in Segments : version[s] <= version'[s]
  BY <1>1, <1>2 DEF BaseType
<1>5. \A u \in Party : \A s \in Segments : seen'[u][s] \in {seen[u][s], version[s]}
  BY <1>1, <1>2 DEF BaseType
<1> QED
  BY <1>2, <1>3, <1>4, <1>5, QuietStep

(* A thread that is not of the party commits.                              *)
LEMMA OutsiderStep ==
  ASSUME MeetInv, UNCHANGED build, OutsiderCommits
  PROVE  MeetInv' /\ KeepsRound
<1>1. BaseType
  BY DEF MeetInv
<1>2. UNCHANGED <<build, pc, token, active, counter, base, committed, target, seen, dirty, log, wrote, arrivals,
                  came, left, reached>>
  BY DEF OutsiderCommits
<1>3. version' \in [Segments -> Nat] /\ \A s \in Segments : version[s] <= version'[s]
  BY <1>1 DEF BaseType, OutsiderCommits
<1>4. BaseType'
  BY <1>1, <1>2, <1>3 DEF BaseType
<1> QED
  BY <1>2, <1>3, <1>4, QuietStep

(* The first real barrier opens: the thread is active again and, in the    *)
(* parallel build, up to date.                                             *)
LEMMA ActivateStep ==
  ASSUME MeetInv, NEW t \in Party, UNCHANGED build, ActivateAndUpdate(t) \/ SimpleActivate(t)
  PROVE  MeetInv' /\ KeepsRound
<1>1. BaseType /\ HaltInv /\ WroteInv /\ CountInv /\ DirtyInv
  BY DEF MeetInv
<1>2. PICK from \in Labels, to \in Labels :
        /\ <<from, to>> \in {<<"first", "updated">>, <<"sfirst", "activated">>}
        /\ pc[t] = from /\ RealBarrierOpen(t) /\ Goto(t, to) /\ active' = active \cup {t}
        /\ to = "updated" => seen' = [seen EXCEPT ![t] = version]
        /\ to # "updated" => seen' = seen
        /\ UNCHANGED <<build, token, counter, base, committed, target, version, dirty, log, wrote, arrivals,
                       came, left, reached>>
  BY DEF ActivateAndUpdate, SimpleActivate, UpdateAfterBarrier, Update, Labels, conv
<1>3. Advance(t, from, to)
  BY <1>2 DEF Advance, Goto, Labels, ParallelLabels, AtLast
<1>4. Entered(to) = 1 /\ Entered(from) = 1 /\ to \in PastFirst /\ to \notin Halted
  BY <1>2 DEF Entered, PastFirst, Halted
<1>5. BaseType'
  BY <1>1, <1>2 DEF Goto, BaseType
<1>6. reached' = [reached EXCEPT ![t] = @ + Entered(to) - Entered(from)]
  BY <1>1, <1>2, <1>4 DEF BaseType
<1>7. CountInv' /\ OpenInv' /\ KeepsRound
  BY <1>2, <1>3, <1>4, <1>5, <1>6, AdvanceStep
<1>8. HaltInv'
  BY <1>1, <1>2, <1>4 DEF HaltInv, Goto, BaseType
<1>9. WroteInv'
  <2>1. came[t] \in 1 .. Rounds
    BY <1>1, <1>2, InRound
  <2>2. ASSUME NEW u \in Party, pc'[u] \in {"updated", "second"}, NEW s \in Segments
        PROVE  seen'[u][s] >= wrote[came[u]][s]
    <3>1. CASE u = t
      <4>1. to = "updated" /\ seen'[t][s] = version[s]
        BY <1>1, <1>2, <2>2, <3>1 DEF Goto, BaseType
      <4> QED
        BY <1>1, <2>1, <3>1, <4>1 DEF WroteInv, BaseType
    <3>2. CASE u # t
      BY <1>1, <1>2, <2>2, <3>2 DEF Goto, BaseType, WroteInv
    <3> QED
      BY <3>1, <3>2
  <2> QED
    BY <1>1, <1>2, <2>2 DEF WroteInv
<1>10. DirtyInv'
  BY <1>1, <1>2 DEF DirtyInv, Goto, BaseType
<1> QED
  BY <1>5, <1>7, <1>8, <1>9, <1>10 DEF MeetInv, KeepsRound

(* Everyone is at the end when someone may leave.                          *)
LEMMA AllAtLast ==
  ASSUME MeetInv, NEW t \in Party, pc[t] \in {"second", "ssecond"}, RealBarrierOpen(t),
         NEW r \in 0 .. Rounds, RoundInv(r)
  PROVE  /\ \A u \in Party : came[t] <= came[u]
         /\ came[t] = r + 1 => \A u \in Party : came[u] = r + 1 /\ pc[u] \in AtLast
<1>1. BaseType /\ CountInv /\ r \in Nat
  BY Numbers DEF MeetInv
<1>2. reached[t] = 2 * came[t]
  <2>1. Entered(pc[t]) = 2 /\ pc[t] # "work"
    BY DEF Entered
  <2>2. came[t] = left[t] + 1 /\ reached[t] = 2 * left[t] + 2
    BY <1>1, <2>1 DEF CountInv
  <2> QED
    BY <1>1, <2>2 DEF BaseType
<1>3. ASSUME NEW u \in Party
      PROVE  came[t] <= came[u] /\ (came[u] = came[t] => pc[u] \in AtLast)
  <2>1. reached[u] >= 2 * came[t] /\ came[u] \in Nat /\ came[t] \in Nat /\ reached[u] \in Nat
    BY <1>1, <1>2 DEF RealBarrierOpen, BaseType
  <2>2. reached[u] <= 2 * came[u] /\ (reached[u] = 2 * came[u] => pc[u] \in AtLast)
    <3>1. CASE pc[u] = "work"
      BY <1>1, <2>1, <3>1 DEF CountInv, AtLast
    <3>2. CASE pc[u] # "work"
      <4>1. Entered(pc[u]) \in 0 .. 2 /\ (Entered(pc[u]) = 2 => pc[u] \in AtLast)
        BY DEF Entered, AtLast
      <4>2. came[u] = left[u] + 1 /\ reached[u] = 2 * left[u] + Entered(pc[u]) /\ left[u] \in Nat
        BY <1>1, <3>2 DEF CountInv, BaseType
      <4> QED
        BY <2>1, <4>1, <4>2
    <3> QED
      BY <3>1, <3>2
  <2> QED
    BY <2>1, <2>2
<1> QED
  BY <1>1, <1>3 DEF RoundInv, BaseType

(* The second real barrier opens and the thread leaves. The one with the   *)
(* token clears the counter: the round is over.                            *)
LEMMA LeaveStep ==
  ASSUME MeetInv, NEW t \in Party, UNCHANGED build, LeaveBarrier(t) \/ SimpleLeave(t)
  PROVE  /\ MeetInv' /\ \A u \in Party : came[t] <= came[u]
         /\ token # t => KeepsRound
         /\ token = t => counter = N /\ \A r \in 0 .. Rounds : RoundInv(r) => r + 1 \in 0 .. Rounds /\ RoundInv(r + 1)'
<1>0. PICK r \in 0 .. Rounds : RoundInv(r)
  BY DEF MeetInv
<1>1. BaseType /\ CountInv /\ OpenInv /\ HaltInv /\ WroteInv /\ DirtyInv /\ r \in Nat
  BY Numbers DEF MeetInv
<1>2. /\ pc[t] \in {"second", "ssecond"} /\ RealBarrierOpen(t)
      /\ left' = [left EXCEPT ![t] = @ + 1] /\ Goto(t, "work")
      /\ UNCHANGED <<active, target, arrivals, came, reached>>
      /\ \/ /\ token = t /\ token' = Nobody /\ counter' = 0
            /\ committed' \in Nat /\ base' \in [Segments -> Nat]
         \/ /\ token # t /\ UNCHANGED <<token, counter, base, committed>>
  BY <1>1 DEF LeaveBarrier, SimpleLeave, CounterCleared, BaseType, None
<1>3. /\ \A u \in Party : came[t] <= came[u]
      /\ came[t] = r + 1 => \A u \in Party : came[u] = r + 1 /\ pc[u] \in AtLast
  BY <1>0, <1>2, AllAtLast
<1>4. /\ pc[t] # "work" /\ came[t] \in 1 .. Rounds /\ came[t] = left[t] + 1 /\ reached[t] = 2 * came[t]
      /\ pc'[t] = "work" /\ left'[t] = came[t]
      /\ \A u \in Party \ {t} : pc'[u] = pc[u] /\ left'[u] = left[u]
  <2>1. Entered(pc[t]) = 2 /\ pc[t] # "work"
    BY <1>2 DEF Entered
  <2>2. came[t] = left[t] + 1 /\ reached[t] = 2 * left[t] + 2 /\ left[t] \in Nat
    BY <1>1, <2>1 DEF CountInv, BaseType
  <2>3. came[t] \in 1 .. Rounds
    BY <1>1, <2>1, InRound
  <2>4. /\ pc'[t] = "work" /\ left'[t] = left[t] + 1
        /\ \A u \in Party \ {t} : pc'[u] = pc[u] /\ left'[u] = left[u]
    BY <1>1, <1>2 DEF Goto, BaseType
  <2> QED
    BY <2>1, <2>2, <2>3, <2>4
<1>5. /\ version' \in [Segments -> Nat] /\ log' \in [Segments -> Seq(Party)]
      /\ seen' \in [Party -> [Segments -> Nat]] /\ dirty' \in [Party -> SUBSET Segments]
      /\ wrote' \in [1 .. Rounds -> [Segments -> Nat]]
  <2>1. CASE LeaveBarrier(t)
    BY <1>1, <2>1 DEF LeaveBarrier, conv, BaseType
  <2>2. CASE SimpleLeave(t)
    BY <1>1, <1>2, <1>4, <2>2, CommitType DEF SimpleLeave, CommitAndUpdate
  <2> QED
    BY <2>1, <2>2
<1>6. BaseType'
  <2>1. pc' \in [Party -> Labels] /\ left' \in [Party -> Nat]
    BY <1>1, <1>2 DEF BaseType, Goto, Labels
  <2>2. counter' \in Nat /\ committed' \in Nat /\ base' \in [Segments -> Nat] /\ token' \in Party \cup {Nobody}
    BY <1>1, <1>2 DEF BaseType
  <2>3. UNCHANGED <<active, target, arrivals, came, reached>>
    BY <1>2
  <2> QED
    BY <1>1, <1>5, <2>1, <2>2, <2>3 DEF BaseType
<1>7. CountInv'
  BY <1>1, <1>2, <1>4 DEF CountInv
<1>8. OpenInv'
  <2> SUFFICES ASSUME NEW v \in Party, NEW u \in Party
               PROVE  left'[v] <= came[u] /\ (pc'[v] \in PastFirst => reached[u] >= 2 * came[v] - 1)
    BY <1>2 DEF OpenInv
  <2>1. left'[v] <= came[u]
    BY <1>1, <1>3, <1>4 DEF OpenInv
  <2>2. pc'[v] \in PastFirst => pc[v] \in PastFirst
    BY <1>4 DEF PastFirst
  <2> QED
    BY <1>1, <2>1, <2>2 DEF OpenInv
<1>9. /\ token # t => RoundInv(r)'
      /\ token = t => counter = N /\ r + 1 \in 0 .. Rounds /\ RoundInv(r + 1)'
  <2>1. CASE token = t
    <3>1. counter = N
      BY <1>0, <2>1, Numbers DEF RoundInv
    <3>2. \A u \in Party : came[u] = r + 1 /\ pc[u] \in AtLast
      BY <1>0, <1>1, <1>3, <3>1, Counting DEF RoundInv
    <3>3. r + 1 \in 0 .. Rounds /\ r + 1 # r + 2 /\ r + 1 \in Nat
      BY <1>1, <1>4, <3>2, Numbers
    <3>4. Arrived(r + 1)' = {}
      BY <1>1, <1>2, <3>2 DEF Arrived
    <3>5. Cardinality(Arrived(r + 1)') = 0
      BY <3>4, FS_EmptySet
    <3>6. \A u \in Party : came'[u] = r + 1 /\ pc'[u] \in AtLast
      BY <1>2, <1>4, <3>2 DEF AtLast
    <3>7. token' = Nobody /\ counter' = 0
      BY <1>2, <2>1
    <3>8. RoundInv(r + 1)'
      BY <3>5, <3>6, <3>7, Numbers DEF RoundInv
    <3> QED
      BY <2>1, <3>1, <3>3, <3>8
  <2>2. CASE token # t
    <3>1. UNCHANGED <<token, counter, came>>
      BY <1>2, <2>2
    <3>2. Arrived(r)' = Arrived(r)
      BY <3>1 DEF Arrived
    <3>3. \A u \in Party : came[u] = r => pc'[u] \in AtLast
      BY <1>0, <1>4 DEF RoundInv, AtLast
    <3>4. token # Nobody => pc'[token] # "work"
      BY <1>0, <1>1, <1>4, <2>2 DEF RoundInv, BaseType
    <3>5. RoundInv(r)'
      BY <1>0, <3>1, <3>2, <3>3, <3>4 DEF RoundInv
    <3> QED
      BY <2>2, <3>5
  <2> QED
    BY <2>1, <2>2
<1>10. HaltInv'
  <2> SUFFICES ASSUME NEW u \in Party, u \in active, pc'[u] \in Halted PROVE token' = u
    BY <1>2 DEF HaltInv
  <2>1. u # t /\ pc[u] \in Halted
    BY <1>4 DEF Halted
  <2>2. token = u
    BY <1>1, <2>1 DEF HaltInv
  <2> QED
    BY <1>2, <2>1, <2>2
<1>11. WroteInv'
  <2>1. CASE LeaveBarrier(t)
    BY <1>1, <1>2, <1>4, <2>1 DEF LeaveBarrier, conv, WroteInv
  <2>2. CASE SimpleLeave(t)
    <3>1. Commit(t, Segments) /\ UNCHANGED came /\ pc[t] = "ssecond"
      BY <2>2 DEF SimpleLeave, CommitAndUpdate
    <3>2. \A s \in Segments : version[s] <= version'[s] /\ version[s] \in Nat /\ version'[s] \in Nat
      BY <1>1, <1>5, <3>1 DEF Commit, BaseType
    <3>3. wrote' = wrote \/ wrote' = [wrote EXCEPT ![came[t]] = version']
      BY <3>1 DEF Commit
    <3>4. ASSUME NEW k \in 1 .. Rounds, NEW s \in Segments
          PROVE  wrote'[k][s] <= version'[s]
      <4>1. wrote'[k] = wrote[k] \/ wrote'[k] = version'
        BY <1>1, <1>4, <3>3 DEF BaseType
      <4>2. wrote[k][s] <= version[s] /\ wrote[k][s] \in Nat
        BY <1>1, WroteBound
      <4> QED
        BY <3>2, <4>1, <4>2
    <3>5. wrote' = wrote
      <4>1. Segments \cap dirty[t] = {}
        BY <1>1, <3>1 DEF DirtyInv
      <4> QED
        BY <3>1, <4>1 DEF Commit
    <3>6. ASSUME NEW u \in Party, pc'[u] \in {"updated", "second"}, NEW s \in Segments
          PROVE  seen'[u][s] >= wrote'[came'[u]][s]
      <4>1. u # t /\ pc[u] = pc'[u] /\ seen'[u] = seen[u]
        BY <1>1, <1>4, <3>1, <3>6 DEF Commit, BaseType
      <4> QED
        BY <1>1, <3>1, <3>5, <3>6, <4>1 DEF WroteInv
    <3> QED
      BY <3>4, <3>6 DEF WroteInv
  <2> QED
    BY <2>1, <2>2
<1>12. DirtyInv'
  <2>1. dirty[t] = {}
    BY <1>1, <1>2 DEF DirtyInv
  <2>2. dirty' = dirty \/ dirty' = [dirty EXCEPT ![t] = @ \ Segments]
    BY DEF LeaveBarrier, SimpleLeave, CommitAndUpdate, Commit, conv
  <2>3. dirty'[t] = {} /\ \A u \in Party \ {t} : dirty'[u] = dirty[u]
    BY <1>1, <2>1, <2>2 DEF BaseType
  <2> QED
    BY <1>1, <1>4, <2>3 DEF DirtyInv
<1> QED
  BY <1>0, <1>1, <1>3, <1>6, <1>7, <1>8, <1>9, <1>10, <1>11, <1>12, OneRound DEF MeetInv, KeepsRound
-----------------------------------------------------------------------------
(***************************************************************************)
(* The invariant and what follows from it.                                 *)
(***************************************************************************)
LEMMA MeetInit == Init => MeetInv
<1> SUFFICES ASSUME Init PROVE MeetInv
  OBVIOUS
<1>1. BaseType
  BY Numbers DEF Init, BaseType, Labels, None, Segments
<1>2. CountInv /\ OpenInv /\ HaltInv /\ DirtyInv
  BY Numbers DEF Init, CountInv, OpenInv, HaltInv, DirtyInv, PastFirst, Halted
<1>3. WroteInv
  BY Numbers DEF Init, WroteInv, None
<1>4. RoundInv(0)
  <2>1. Arrived(0) = {}
    BY DEF Init, Arrived
  <2>2. Cardinality(Arrived(0)) = 0
    BY <2>1, FS_EmptySet
  <2> QED
    BY <2>2, Numbers DEF Init, RoundInv, AtLast
<1> QED
  BY <1>1, <1>2, <1>3, <1>4, Numbers DEF MeetInv

(* Every step keeps MeetInv.                                               *)
LEMMA MeetStep == MeetInv /\ [Next]_<<vars, build>> => MeetInv'
<1> SUFFICES ASSUME MeetInv, [Next]_<<vars, build>> PROVE MeetInv'
  OBVIOUS
<1>1. CASE UNCHANGED <<vars, build>> \/ (Done /\ UNCHANGED build)
  <2>1. UNCHANGED <<vars, build>>
    BY <1>1 DEF Done
  <2>2. BaseType' /\ BaseType
    BY <2>1 DEF MeetInv, BaseType, vars, conv
  <2>3. UNCHANGED <<build, pc, token, active, counter, came, left, reached, wrote, dirty, version, seen>>
    BY <2>1 DEF vars, conv
  <2>4. \A s \in Segments : version[s] <= version'[s]
    BY <2>2, <2>3 DEF BaseType
  <2> QED
    BY <2>2, <2>3, <2>4, QuietStep
<1>2. CASE OutsiderCommits /\ UNCHANGED build
  BY <1>2, OutsiderStep
<1>3. ASSUME NEW t \in Party, Step(t), UNCHANGED build PROVE MeetInv'
  BY <1>3, ArriveStep, CommitStep, FetchStep, EnterStep, ActivateStep, LeaveStep DEF Step
<1>4. ASSUME NEW t \in Party, SimpleStep(t), UNCHANGED build PROVE MeetInv'
  BY <1>4, ArriveStep, EnterStep, ActivateStep, LeaveStep DEF SimpleStep
<1> QED
  BY <1>1, <1>2, <1>3, <1>4 DEF Next

(* MeetInv holds in every reachable state.                                 *)
LEMMA MeetAlways == Spec => []MeetInv
BY MeetInit, MeetStep, PTL DEF Spec

(* Every step leaves came and left alone, or is an arrival or a departure. *)
LEMMA StepKinds ==
  ASSUME MeetInv, [Next]_<<vars, build>>
  PROVE  \/ UNCHANGED <<came, left>>
         \/ \E t \in Party : Arrive(t) \/ SimpleArrive(t)
         \/ (UNCHANGED build /\ \E t \in Party : LeaveBarrier(t) \/ SimpleLeave(t))
<1>1. ASSUME NEW t \in Party, Step(t), UNCHANGED build
      PROVE  UNCHANGED <<came, left>> \/ Arrive(t) \/ LeaveBarrier(t)
  BY <1>1 DEF Step, CommitHeap, CommitGlobals, FetchMore, EnterRealBarrier, ActivateAndUpdate
<1>2. ASSUME NEW t \in Party, SimpleStep(t), UNCHANGED build
      PROVE  UNCHANGED <<came, left>> \/ SimpleArrive(t) \/ SimpleLeave(t)
  BY <1>2 DEF SimpleStep, SimpleActivate, EnterRealBarrier
<1>3. OutsiderCommits => UNCHANGED <<came, left>>
  BY DEF OutsiderCommits
<1>4. UNCHANGED <<vars, build>> \/ Done => UNCHANGED <<came, left>>
  BY DEF vars, Done
<1> QED
  BY <1>1, <1>2, <1>3, <1>4 DEF Next

(* determ::barrier_wait, in both builds and for every party and number of  *)
(* rounds, is the barrier POSIX promises: nobody leaves a meeting before   *)
(* everybody has come to it, also when it is used again at once.           *)
THEOREM BarrierRefinement == Spec => MeetsAtBarrier
<1>1. Init => Meeting!Init
  BY DEF Init, Meeting!Init
<1>2. MeetInv /\ [Next]_<<vars, build>> => [Meeting!Next]_<<came, left>>
  <2> SUFFICES ASSUME MeetInv, [Next]_<<vars, build>>, ~ UNCHANGED <<came, left>>
               PROVE  Meeting!Next
    OBVIOUS
  <2>1. BaseType /\ CountInv
    BY DEF MeetInv
  <2>2. ASSUME NEW t \in Party, Arrive(t) \/ SimpleArrive(t)
        PROVE  Meeting!Enter(t)
    <3>1. pc[t] = "work" /\ StartRound(t) /\ UNCHANGED left
      BY <2>2 DEF Arrive, SimpleArrive
    <3> QED
      BY <2>1, <3>1 DEF Meeting!Enter, StartRound, CountInv
  <2>3. ASSUME NEW t \in Party, LeaveBarrier(t) \/ SimpleLeave(t), UNCHANGED build
        PROVE  Meeting!Leave(t)
    <3>1. pc[t] # "work" /\ left' = [left EXCEPT ![t] = @ + 1] /\ UNCHANGED came
      BY <2>3 DEF LeaveBarrier, SimpleLeave
    <3>2. \A u \in Party : came[t] <= came[u]
      BY <2>3, LeaveStep
    <3>3. left[t] < came[t]
      BY <2>1, <3>1 DEF CountInv, BaseType
    <3>4. \A u \in Party : came[u] >= came[t]
      BY <2>1, <3>2 DEF BaseType
    <3> QED
      BY <3>1, <3>3, <3>4 DEF Meeting!Leave
  <2> QED
    BY <2>2, <2>3, StepKinds DEF Meeting!Next
<1> QED
  BY <1>1, <1>2, MeetAlways, PTL DEF Spec, MeetsAtBarrier, Meeting!Spec

(* While threads of a round come back and others are still halted, the     *)
(* last arrival has the token: no thread outside the barrier can take it.  *)
THEOREM TokenKeptTheorem == Spec => []TokenKept
<1>1. MeetInv => TokenKept
  <2> SUFFICES ASSUME MeetInv, NEW t \in Party, pc[t] \in {"updated", "sfirst"}, t \in active
               PROVE  token # Nobody
    BY DEF TokenKept
  <2>1. BaseType /\ CountInv /\ OpenInv /\ HaltInv
    BY DEF MeetInv
  <2>2. PICK r \in 0 .. Rounds : RoundInv(r)
    BY DEF MeetInv
  <2>3. CASE pc[t] = "sfirst"
    BY <2>1, <2>3, Numbers DEF HaltInv, Halted
  <2>4. CASE pc[t] = "updated"
    <3> SUFFICES ASSUME NEW u \in Party, came[u] # r + 1 PROVE FALSE
      BY <2>2, Counting, Numbers DEF RoundInv
    <3>1. came[t] = r + 1
      BY <2>2, <2>4 DEF RoundInv, AtLast
    <3>2. came[u] = r /\ pc[u] \in AtLast
      BY <2>2 DEF RoundInv
    <3>3. reached[u] >= 2 * came[t] - 1
      BY <2>1, <2>4 DEF OpenInv, PastFirst
    <3>4. reached[u] = 2 * r
      <4>1. CASE pc[u] = "work"
        BY <2>1, <3>2, <4>1 DEF CountInv
      <4>2. CASE pc[u] # "work"
        <5>1. Entered(pc[u]) = 2
          BY <3>2, <4>2 DEF Entered, AtLast
        <5>2. came[u] = left[u] + 1 /\ reached[u] = 2 * left[u] + 2 /\ left[u] \in Nat
          BY <2>1, <4>2, <5>1 DEF CountInv, BaseType
        <5> QED
          BY <3>2, <5>2
      <4> QED
        BY <4>1, <4>2
    <3> QED
      BY <3>1, <3>3, <3>4, Numbers
  <2> QED
    BY <2>3, <2>4
<1> QED
  BY <1>1, MeetAlways, PTL

(* Who leaves the barrier has in its view every version that the arrivals  *)
(* of its round made.                                                      *)
THEOREM LeavesUpToDateTheorem == Spec => LeavesUpToDate
<1>1. MeetInv /\ [Next]_<<vars, build>> =>
        [\A t \in Party : left'[t] > left[t] =>
           \A s \in Segments : seen'[t][s] >= wrote[came[t]][s]]_vars
  <2> SUFFICES ASSUME MeetInv, [Next]_<<vars, build>>, NEW t \in Party, left'[t] > left[t], NEW s \in Segments
               PROVE  seen'[t][s] >= wrote[came[t]][s]
    OBVIOUS
  <2>1. BaseType /\ WroteInv /\ CountInv
    BY DEF MeetInv
  <2>2. left' # left
    BY <2>1 DEF BaseType
  <2>3. PICK u \in Party : LeaveBarrier(u) \/ SimpleLeave(u)
    BY <2>2, StepKinds DEF Arrive, SimpleArrive
  <2>4. u = t
    BY <2>1, <2>3 DEF LeaveBarrier, SimpleLeave, BaseType
  <2>5. CASE LeaveBarrier(t)
    BY <2>1, <2>5 DEF LeaveBarrier, WroteInv, conv
  <2>6. CASE SimpleLeave(t)
    <3>1. seen'[t][s] = version'[s] /\ version'[s] >= version[s] /\ version[s] \in Nat /\ version'[s] \in Nat
      <4>1. /\ version' = [z \in Segments |-> IF z \in Segments \cap dirty[t] THEN version[z] + 1 ELSE version[z]]
            /\ seen' = [seen EXCEPT ![t] = [z \in Segments |-> IF z \in Segments THEN version'[z] ELSE @[z]]]
        BY <2>6 DEF SimpleLeave, CommitAndUpdate, Commit
      <4>2. version \in [Segments -> Nat] /\ seen \in [Party -> [Segments -> Nat]]
        BY <2>1 DEF BaseType
      <4>3. version[s] \in Nat /\ version'[s] \in Nat /\ version'[s] >= version[s]
        BY <4>1, <4>2
      <4> QED
        BY <4>1, <4>2, <4>3
    <3>2. pc[t] # "work"
      BY <2>6 DEF SimpleLeave
    <3>3. came[t] \in 1 .. Rounds
      BY <2>1, <3>2, InRound
    <3>4. wrote[came[t]][s] <= version[s] /\ wrote[came[t]][s] \in Nat
      BY <2>1, <3>3, WroteBound
    <3> QED
      BY <3>1, <3>4
  <2> QED
    BY <2>3, <2>4, <2>5, <2>6
<1> QED
  BY <1>1, MeetAlways, PTL DEF Spec, LeavesUpToDate

-----------------------------------------------------------------------------
(***************************************************************************)
(* The order of the commits.                                               *)
(***************************************************************************)

(* The versions of one more round still fit.                               *)
LEMMA Room ==
  ASSUME Fits, NEW r \in Nat, r < Rounds
  PROVE  /\ N * r \in Nat /\ N * (r + 1) = N * r + N
         /\ FirstVersion + N * r + N < Width
<1>1. N * r \in Nat /\ N * (r + 1) = N * r + N
  BY Numbers, Z3
<1>2. N * (r + 1) <= N * Rounds
  BY Numbers, Z3
<1> QED
  BY <1>1, <1>2, Numbers DEF Fits

(* The list of arrivals after t's: the round's so far, and t.              *)
LEMMA NewList ==
  ASSUME CommitInv, NEW t \in Party, StartRound(t), NEW r \in 0 .. Rounds, RoundInv(r), OrderInv(r), came[t] = r
  PROVE  /\ Len(arrivals') \in Nat \ {0} /\ arrivals'[Len(arrivals')] = t
         /\ counter > 0 => Len(arrivals') = Len(arrivals) + 1 /\ ~ Here(t)
         /\ \A p \in 1 .. Len(arrivals') : p # Len(arrivals') =>
              counter > 0 /\ p \in 1 .. Len(arrivals) /\ arrivals'[p] = arrivals[p] /\ arrivals[p] # t
         /\ counter = 0 => Len(arrivals') = 1
         /\ counter > 0 => \A p \in 1 .. Len(arrivals) : p \in 1 .. Len(arrivals') /\ arrivals'[p] = arrivals[p]
         /\ counter > 0 => \A p \in 1 .. Len(arrivals) : p # Len(arrivals')
<1>1. arrivals \in Seq(Party) /\ Len(arrivals) \in Nat /\ counter \in Nat /\ r \in Nat
  BY Numbers DEF CommitInv, MeetInv, BaseType
<1>2. CASE counter = 0
  <2>1. arrivals' = <<t>>
    BY <1>2 DEF StartRound
  <2> QED
    BY <1>2, <2>1
<1>3. CASE counter > 0
  <2>1. arrivals' = Append(arrivals, t)
    BY <1>1, <1>3 DEF StartRound
  <2>2. ~ Here(t)
    BY <1>1, <1>3 DEF OrderInv
  <2>3. \A p \in 1 .. Len(arrivals) : arrivals[p] # t
    BY <2>2 DEF Here
  <2>4. Len(arrivals') = Len(arrivals) + 1 /\ arrivals'[Len(arrivals) + 1] = t
    BY <1>1, <2>1
  <2>5. \A p \in 1 .. Len(arrivals) : arrivals'[p] = arrivals[p]
    BY <1>1, <2>1
  <2> QED
    BY <1>1, <1>3, <2>2, <2>3, <2>4, <2>5
<1> QED
  BY <1>1, <1>2, <1>3

(* An arrival gets the highest ticket.                                     *)
LEMMA ArriveOrder ==
  ASSUME Fits, CommitInv, NEW t \in Party, Arrive(t) \/ SimpleArrive(t), UNCHANGED build
  PROVE  CommitInv'
<1>0. PICK r \in 0 .. Rounds : RoundInv(r) /\ OrderInv(r)
  BY DEF CommitInv
<1>1. MeetInv /\ BaseType /\ ListInv /\ r \in Nat
  BY Numbers DEF CommitInv, MeetInv
<1>2. /\ pc[t] = "work" /\ token = Nobody /\ came[t] < Rounds /\ StartRound(t)
  BY DEF Arrive, SimpleArrive, GetToken
<1>3. came[t] = r
  BY <1>0, <1>1, <1>2, Newcomer
<1>4. MeetInv' /\ RoundInv(r)'
  BY <1>0, <1>1, ArriveStep DEF KeepsRound
<1> DEFINE K == Len(arrivals')
<1>5. /\ K \in Nat \ {0} /\ arrivals'[K] = t
      /\ counter > 0 => K = Len(arrivals) + 1 /\ ~ Here(t)
      /\ \A p \in 1 .. K : p # K =>
           counter > 0 /\ p \in 1 .. Len(arrivals) /\ arrivals'[p] = arrivals[p] /\ arrivals[p] # t
      /\ counter = 0 => K = 1
      /\ counter > 0 => \A p \in 1 .. Len(arrivals) : p \in 1 .. K /\ arrivals'[p] = arrivals[p]
      /\ counter > 0 => \A p \in 1 .. Len(arrivals) : p # K
  BY <1>0, <1>2, <1>3, NewList
<1> HIDE DEF K
<1>6. /\ counter \in Nat /\ counter' = counter + 1
      /\ came'[t] = r + 1 /\ \A u \in Party \ {t} : came'[u] = came[u]
  BY <1>1, <1>2, <1>3 DEF StartRound, BaseType
<1>7. ASSUME NEW s \in Segments, NEW i \in 1 .. Len(log'[s])
      PROVE  \/ counter > 0 /\ i \in 1 .. Len(log[s]) /\ log'[s][i] = log[s][i]
             \/ i = Len(log'[s]) /\ log'[s][i] = t
  <2> DEFINE old == IF counter = 0 THEN <<>> ELSE log[s]
  <2>1. old \in Seq(Party) /\ Len(old) \in Nat
    BY <1>1 DEF BaseType
  <2>2. log'[s] = old \/ log'[s] = Append(old, t)
    BY DEF Arrive, SimpleArrive
  <2> HIDE DEF old
  <2>3. \/ i \in 1 .. Len(old) /\ log'[s][i] = old[i]
        \/ i = Len(log'[s]) /\ log'[s][i] = t
    BY <2>1, <2>2
  <2> QED
    BY <1>6, <2>3 DEF old
<1>8. ListInv'
  <2>1. \A p, q \in 1 .. Len(arrivals') : arrivals'[p] = arrivals'[q] => p = q
    BY <1>1, <1>5 DEF ListInv, K
  <2>2. ASSUME NEW s \in Segments, NEW i \in 1 .. Len(log'[s])
        PROVE  /\ \E p \in 1 .. Len(arrivals') : arrivals'[p] = log'[s][i]
               /\ log'[s][i] # t => counter > 0 /\ i \in 1 .. Len(log[s]) /\ log'[s][i] = log[s][i]
    BY SMTT(20), <1>1, <1>5, <1>7 DEF ListInv, Here, K
  <2>3. ASSUME NEW s \in Segments, NEW i \in 1 .. Len(log'[s]), NEW j \in 1 .. Len(log'[s]),
               NEW p \in 1 .. Len(arrivals'), NEW q \in 1 .. Len(arrivals'),
               i < j, arrivals'[p] = log'[s][i], arrivals'[q] = log'[s][j]
        PROVE  p < q
    <3>0. i # Len(log'[s])
      BY <1>4, <2>3 DEF MeetInv, BaseType
    <3>1. counter > 0 /\ i \in 1 .. Len(log[s]) /\ log'[s][i] = log[s][i]
      BY <1>7, <3>0
    <3>2. Here(log[s][i])
      BY <1>1, <3>1 DEF ListInv
    <3>3. p # K
      BY <1>5, <2>3, <3>1, <3>2
    <3>4. p \in 1 .. Len(arrivals) /\ arrivals'[p] = arrivals[p] /\ p < K
      BY <1>5, <3>3 DEF K
    <3>5. CASE log'[s][j] = t
      <4>1. q = K
        BY <1>5, <2>3, <3>5 DEF K
      <4> QED
        BY <3>4, <4>1
    <3>6. CASE log'[s][j] # t
      <4>1. j \in 1 .. Len(log[s]) /\ log'[s][j] = log[s][j]
        BY <2>2, <3>6
      <4>2. q # K
        BY <1>5, <2>3, <3>6
      <4>3. q \in 1 .. Len(arrivals) /\ arrivals'[q] = arrivals[q]
        BY <1>5, <4>2 DEF K
      <4> QED
        BY <1>1, <2>3, <3>1, <3>4, <4>1, <4>3 DEF ListInv
    <3> QED
      BY <3>5, <3>6
  <2>4. \A u \in Party : pc'[u] \in {"heap", "globals"} => build = "parallel"
    BY <1>1 DEF ListInv, Arrive, SimpleArrive, Goto, BaseType
  <2> QED
    BY <2>1, <2>2, <2>3, <2>4 DEF ListInv, Here
<1>9. \A u \in Party : Here(u)' <=> came'[u] = r + 1
  <2>1. counter = 0 => \A u \in Party : came[u] # r + 1
    BY <1>0, <1>1, Counting DEF RoundInv
  <2>2. Here(t)'
    BY <1>5 DEF Here, K
  <2>3. ASSUME NEW u \in Party, u # t PROVE Here(u)' <=> counter > 0 /\ Here(u)
    BY <1>5, <2>3 DEF Here, K
  <2> QED
    BY <1>0, <1>6, <2>1, <2>2, <2>3 DEF OrderInv
<1>10. ASSUME build = "parallel", NEW s \in Segments
       PROVE  base'[s] <= FirstVersion + N * r + counter' /\ TicketInv(s)'
  <2>1. Arrive(t)
    BY <1>10 DEF SimpleArrive
  <2>2. PICK d \in SUBSET Segments :
          /\ dirty' = [dirty EXCEPT ![t] = d]
          /\ target' = [target EXCEPT ![t] = BaseVersions(t)]
          /\ base' = NextBase(BaseVersions(t), d)
    BY <2>1 DEF Arrive
  <2> DEFINE b == BaseVersions(t)[s]
             e == IF s \in d THEN 1 ELSE 0
             Logged(u) == \E i \in 1 .. Len(log'[s]) : log'[s][i] = u
             Made(u) == IF s \in dirty'[u] \/ Logged(u) THEN 1 ELSE 0
  <2> HIDE DEF Logged, Made
  <2>3. N * r \in Nat /\ FirstVersion + N * r + N < Width
    BY <1>1, <1>2, <1>3, Room
  <2>4. counter + 1 <= N
    <3>1. counter # N /\ counter \in 0 .. N
      BY <1>0, <1>1, <1>2, Counting DEF RoundInv
    <3> QED
      BY <3>1, Numbers
  <2>5. b \in Nat /\ version[s] <= b /\ b <= FirstVersion + N * r + counter
    <3>1. CASE counter = 0
      <4>1. version[s] \in Nat /\ version[s] <= FirstVersion + N * r
        BY <1>0, <1>1, <1>10, <3>1 DEF OrderInv, BaseType
      <4>2. version[s] < Width
        BY <2>3, <2>4, <4>1, Numbers
      <4>3. b = version[s]
        BY <3>1, <4>1, <4>2, Modulo DEF BaseVersions
      <4> QED
        BY <2>3, <3>1, <4>1, <4>3, Numbers
    <3>2. CASE counter > 0
      BY <1>0, <1>1, <1>10, <3>2 DEF OrderInv, TicketInv, BaseVersions, BaseType
    <3> QED
      BY <1>6, <3>1, <3>2
  <2>6. base'[s] = b + e
    <3>1. b + e \in Nat /\ b + e < Width
      BY <2>3, <2>4, <2>5, <1>6, Numbers
    <3>2. base'[s] = (b + e) % Width
      BY <2>2 DEF NextBase
    <3> QED
      BY <3>1, <3>2, Modulo
  <2>7. /\ target'[t][s] = b /\ version' = version /\ (s \in dirty'[t] <=> s \in d)
        /\ \A u \in Party \ {t} : target'[u] = target[u] /\ dirty'[u] = dirty[u]
    BY <1>1, <2>1, <2>2 DEF Arrive, BaseType
  <2>8. log'[s] = IF counter = 0 THEN <<>> ELSE log[s]
    BY <2>1 DEF Arrive
  <2>9. ~ Logged(t) /\ (counter > 0 => \A u : Logged(u) <=> InLog(u, s))
    <3>1. counter > 0 => ~ InLog(t, s)
      BY <1>1, <1>5 DEF InLog, ListInv
    <3>2. counter = 0 => Len(log'[s]) = 0
      BY <2>8
    <3> QED
      BY <1>6, <2>8, <3>1, <3>2 DEF InLog, Logged
  <2>10. Made(t) = e /\ (counter > 0 => \A u \in Party \ {t} : Made(u) = Makes(u, s))
    BY <2>7, <2>9 DEF Makes, Made
  <2>11. ASSUME NEW p \in 1 .. K, p # K
         PROVE  /\ TicketInv(s) /\ p \in 1 .. Len(arrivals) /\ base[s] = b
                /\ arrivals'[p] = arrivals[p] /\ arrivals[p] \in Party \ {t}
                /\ target'[arrivals'[p]][s] + Made(arrivals'[p]) = target[arrivals[p]][s] + Makes(arrivals[p], s)
                /\ target[arrivals[p]][s] \in Nat /\ Makes(arrivals[p], s) \in {0, 1}
    <3>1. counter > 0 /\ p \in 1 .. Len(arrivals) /\ arrivals'[p] = arrivals[p] /\ arrivals[p] # t
      BY <1>5, <2>11
    <3>2. arrivals[p] \in Party
      BY <1>1, <3>1 DEF BaseType
    <3>3. TicketInv(s) /\ base[s] = b
      BY <1>0, <1>10, <3>1 DEF OrderInv, BaseVersions
    <3>4. target[arrivals[p]][s] \in Nat /\ Makes(arrivals[p], s) \in {0, 1}
      BY <1>1, <3>2 DEF BaseType, Makes
    <3> QED
      BY <2>7, <2>10, <3>1, <3>2, <3>3, <3>4
  <2>12. ASSUME NEW p \in 1 .. K
         PROVE  /\ target'[arrivals'[p]][s] + Made(arrivals'[p]) <= base'[s]
                /\ s \in dirty'[arrivals'[p]] => version'[s] <= target'[arrivals'[p]][s]
                /\ Logged(arrivals'[p]) => target'[arrivals'[p]][s] < version'[s]
    <3>1. CASE p = K
      BY <1>5, <2>5, <2>6, <2>7, <2>9, <2>10, <3>1
    <3>2. CASE p # K
      <4>1. counter > 0
        BY <1>5, <3>2
      <4>2. /\ target[arrivals[p]][s] + Makes(arrivals[p], s) <= b
            /\ s \in dirty[arrivals[p]] => version[s] <= target[arrivals[p]][s]
            /\ InLog(arrivals[p], s) => target[arrivals[p]][s] < version[s]
        BY <2>11, <3>2 DEF TicketInv
      <4>3. base'[s] >= b /\ base'[s] \in Nat
        BY <2>5, <2>6
      <4> QED
        BY <2>5, <2>7, <2>9, <2>11, <3>2, <4>1, <4>2, <4>3
    <3> QED
      BY <3>1, <3>2
  <2>13. ASSUME NEW p \in 1 .. K, NEW q \in 1 .. K, p < q
         PROVE  target'[arrivals'[p]][s] + Made(arrivals'[p]) <= target'[arrivals'[q]][s]
    <3>0. p # K
      BY <1>5, <2>13
    <3>1. CASE q = K
      BY <1>5, <2>7, <2>11, <3>0, <3>1 DEF TicketInv
    <3>2. CASE q # K
      BY <2>7, <2>11, <2>13, <3>0, <3>2 DEF TicketInv
    <3> QED
      BY <3>1, <3>2
  <2>14. version'[s] <= base'[s] /\ base'[s] <= FirstVersion + N * r + counter'
    <3>1. version[s] \in Nat
      BY <1>1 DEF BaseType
    <3> QED
      BY <1>6, <2>3, <2>5, <2>6, <2>7, <3>1, Numbers
  <2> QED
    BY <2>12, <2>13, <2>14 DEF TicketInv, Makes, InLog, Made, Logged, K
<1>11. OrderInv(r)'
  BY <1>6, <1>9, <1>10 DEF OrderInv
<1> QED
  BY <1>4, <1>8, <1>11 DEF CommitInv

(* Steps that leave the lists and the tickets alone.                       *)
LEMMA QuietOrder ==
  ASSUME CommitInv, MeetInv', KeepsRound,
         UNCHANGED <<build, counter, base, target, arrivals, came, dirty, log>>,
         build = "parallel" => version' = version,
         \A t \in Party : pc'[t] \in {"heap", "globals"} => pc[t] \in {"heap", "globals"}
  PROVE  CommitInv'
<1>1. PICK r \in 0 .. Rounds : RoundInv(r) /\ OrderInv(r)
  BY DEF CommitInv
<1>2. ListInv'
  BY DEF CommitInv, ListInv, Here
<1>3. ASSUME NEW s \in Segments, build = "parallel", TicketInv(s) PROVE TicketInv(s)'
  <2>1. UNCHANGED <<version, base, target, arrivals, dirty, log>>
    BY <1>3
  <2> QED
    BY <1>3, <2>1 DEF TicketInv, Makes, InLog
<1>4. OrderInv(r)'
  BY <1>1, <1>3 DEF OrderInv, Here
<1> QED
  BY <1>1, <1>2, <1>4 DEF CommitInv, KeepsRound

(* Someone who is about to commit has arrived in the round.                *)
LEMMA CommitterIsHere ==
  ASSUME CommitInv, NEW t \in Party, pc[t] \in {"heap", "globals"},
         NEW r \in 0 .. Rounds, RoundInv(r), OrderInv(r)
  PROVE  counter > 0 /\ Here(t) /\ build = "parallel"
<1>1. came[t] = r + 1
  BY DEF RoundInv, AtLast
<1>2. r \in Nat /\ counter # 0 /\ counter \in Nat
  <2>1. r \in Nat /\ counter \in Nat
    BY Numbers DEF CommitInv, MeetInv, BaseType
  <2> QED
    BY <1>1, <2>1, Counting DEF RoundInv
<1> QED
  BY <1>1, <1>2 DEF OrderInv, CommitInv, ListInv

(* Who commits has the lowest ticket of those that still have to.          *)
LEMMA CommitOrder ==
  ASSUME CommitInv, NEW t \in Party, UNCHANGED build, CommitHeap(t) \/ CommitGlobals(t)
  PROVE  CommitInv'
<1>0. PICK r \in 0 .. Rounds : RoundInv(r) /\ OrderInv(r)
  BY DEF CommitInv
<1>1. MeetInv /\ BaseType /\ ListInv
  BY DEF CommitInv, MeetInv
<1>2. MeetInv' /\ KeepsRound
  BY <1>1, CommitStep
<1>3. PICK z \in Segments :
        /\ Commit(t, {z}) /\ MayCommit(t, z) /\ pc[t] \in {"heap", "globals"}
        /\ \A u \in Party : pc'[u] \in {"heap", "globals"} => pc[u] \in {"heap", "globals"}
        /\ UNCHANGED <<counter, base, target, arrivals, came>>
  <2>1. CASE CommitHeap(t)
    <3>1. "heap" \in Segments
      BY DEF Segments
    <3>2. \A u \in Party : pc'[u] \in {"heap", "globals"} => pc[u] \in {"heap", "globals"}
      BY <1>1, <2>1 DEF CommitHeap, Goto, BaseType
    <3> QED
      BY <2>1, <3>1, <3>2 DEF CommitHeap
  <2>2. CASE CommitGlobals(t)
    <3>1. "globals" \in Segments
      BY DEF Segments
    <3>2. \A u \in Party : pc'[u] \in {"heap", "globals"} => pc[u] \in {"heap", "globals"}
      BY <1>1, <2>2 DEF CommitGlobals, Goto, BaseType
    <3> QED
      BY <2>2, <3>1, <3>2 DEF CommitGlobals
  <2> QED
    BY <2>1, <2>2
<1>4. counter > 0 /\ Here(t) /\ build = "parallel"
  BY <1>0, <1>3, CommitterIsHere
<1>5. PICK k \in 1 .. Len(arrivals) : arrivals[k] = t
  BY <1>4 DEF Here
<1>6. CASE z \notin dirty[t]
  <2>1. {z} \cap dirty[t] = {}
    BY <1>6
  <2>2. version' = version /\ log' = log
    BY <1>1, <1>3, <2>1 DEF Commit, BaseType
  <2>3. dirty' = dirty
    <3>1. dirty[t] \ {z} = dirty[t]
      BY <1>6
    <3> QED
      BY <1>1, <1>3, <3>1 DEF Commit, BaseType
  <2> QED
    BY <1>2, <1>3, <2>2, <2>3, QuietOrder
<1>7. CASE z \in dirty[t]
  <2>1. /\ version'[z] = version[z] + 1 /\ log'[z] = Append(log[z], t)
        /\ \A s \in Segments \ {z} : version'[s] = version[s] /\ log'[s] = log[s]
        /\ \A u \in Party : \A s \in Segments : s \in dirty'[u] <=> s \in dirty[u] /\ ~ (u = t /\ s = z)
    BY <1>1, <1>3, <1>7 DEF Commit, BaseType
  <2>2. /\ log[z] \in Seq(Party) /\ Len(log[z]) \in Nat /\ version[z] \in Nat /\ base[z] \in Nat
        /\ arrivals \in Seq(Party) /\ \A p \in 1 .. Len(arrivals) : arrivals[p] \in Party
        /\ \A u \in Party : target[u][z] \in Nat
    <3>1. arrivals \in Seq(Party) /\ \A p \in 1 .. Len(arrivals) : arrivals[p] \in Party
      BY <1>1 DEF BaseType
    <3>2. log[z] \in Seq(Party) /\ Len(log[z]) \in Nat
      BY <1>1 DEF BaseType
    <3>3. version[z] \in Nat /\ base[z] \in Nat /\ \A u \in Party : target[u][z] \in Nat
      BY <1>1 DEF BaseType
    <3> QED
      BY <3>1, <3>2, <3>3
  <2>3. /\ Len(log'[z]) = Len(log[z]) + 1 /\ log'[z][Len(log[z]) + 1] = t
        /\ \A i \in 1 .. Len(log[z]) : log'[z][i] = log[z][i]
    BY <2>1, <2>2
  <2>4. \A s \in Segments : TicketInv(s)
    BY <1>0, <1>4 DEF OrderInv
  <2>5. version[z] = target[t][z] /\ Makes(t, z) = 1 /\ target[t][z] + 1 <= base[z]
    <3>1. version[z] <= target[t][z] /\ target[t][z] <= version[z]
      BY <1>3, <1>5, <1>7, <2>2, <2>4 DEF TicketInv, MayCommit
    <3>2. Makes(t, z) = 1
      BY <1>7 DEF Makes
    <3>3. target[t][z] + Makes(t, z) <= base[z]
      BY <1>5, <2>4 DEF TicketInv
    <3> QED
      BY <2>2, <3>1, <3>2, <3>3
  <2>6. ASSUME NEW p \in 1 .. Len(arrivals), InLog(arrivals[p], z) PROVE p < k
    <3>1. target[arrivals[p]][z] < target[t][z]
      BY <2>4, <2>5, <2>6 DEF TicketInv
    <3>2. p # k
      BY <1>5, <2>2, <3>1
    <3>3. k < p => target[t][z] + 1 <= target[arrivals[p]][z]
      BY <1>5, <2>4, <2>5 DEF TicketInv
    <3>4. target[arrivals[p]][z] \in Nat
      BY <2>2
    <3> QED
      BY <2>2, <3>1, <3>2, <3>3, <3>4
  <2>7. ListInv'
    <3>1. ASSUME NEW s \in Segments, NEW i \in 1 .. Len(log'[s])
          PROVE  /\ Here(log'[s][i])
                 /\ \/ s = z /\ i = Len(log[z]) + 1 /\ log'[s][i] = t
                    \/ i \in 1 .. Len(log[s]) /\ log'[s][i] = log[s][i]
      <4>1. CASE s = z
        <5>1. Here(t)
          BY <1>5, <2>2 DEF Here
        <5>2. \/ i = Len(log[z]) + 1 /\ log'[s][i] = t
              \/ i \in 1 .. Len(log[z]) /\ log'[s][i] = log[z][i]
          BY <2>2, <2>3, <4>1
        <5>3. \A j \in 1 .. Len(log[z]) : Here(log[z][j])
          BY <1>1 DEF ListInv
        <5> QED
          BY <4>1, <5>1, <5>2, <5>3
      <4>2. CASE s # z
        BY <1>1, <2>1, <4>2 DEF ListInv
      <4> QED
        BY <4>1, <4>2
    <3>2. ASSUME NEW s \in Segments, NEW i \in 1 .. Len(log'[s]), NEW j \in 1 .. Len(log'[s]),
                 NEW p \in 1 .. Len(arrivals), NEW q \in 1 .. Len(arrivals),
                 i < j, arrivals[p] = log'[s][i], arrivals[q] = log'[s][j]
          PROVE  p < q
      <4>1. i \in 1 .. Len(log[s]) /\ log'[s][i] = log[s][i]
        BY <2>2, <2>3, <3>1, <3>2
      <4>2. CASE j \in 1 .. Len(log[s]) /\ log'[s][j] = log[s][j]
        BY <1>1, <3>2, <4>1, <4>2 DEF ListInv
      <4>3. CASE s = z /\ log'[s][j] = t
        <5>1. q = k
          BY <1>1, <1>5, <3>2, <4>3 DEF ListInv
        <5>2. InLog(arrivals[p], z)
          BY <3>2, <4>1, <4>3 DEF InLog
        <5> QED
          BY <2>6, <5>1, <5>2
      <4> QED
        BY <3>1, <4>2, <4>3
    <3>3. \A u \in Party : pc'[u] \in {"heap", "globals"} => build = "parallel"
      BY <1>4
    <3>4. UNCHANGED <<build, arrivals>>
      BY <1>3
    <3> QED
      BY <1>1, <3>1, <3>2, <3>3, <3>4 DEF ListInv, Here
  <2>8. ASSUME NEW s \in Segments PROVE TicketInv(s)'
    <3> DEFINE Logged(u) == \E i \in 1 .. Len(log'[s]) : log'[s][i] = u
               Made(u) == IF s \in dirty'[u] \/ Logged(u) THEN 1 ELSE 0
    <3> HIDE DEF Logged, Made
    <3>1. \A u : Logged(u) <=> InLog(u, s) \/ (u = t /\ s = z)
      <4>1. CASE s = z
        <5>1. ASSUME NEW u, Logged(u) PROVE InLog(u, z) \/ u = t
          BY SMTT(20), <2>2, <2>3, <4>1, <5>1 DEF InLog, Logged
        <5>2. ASSUME NEW u, InLog(u, z) \/ u = t PROVE Logged(u)
          <6>1. CASE u = t
            <7>1. Len(log[z]) + 1 \in 1 .. Len(log'[z])
              BY <2>2, <2>3
            <7> QED
              BY <2>3, <4>1, <6>1, <7>1 DEF Logged
          <6>2. CASE InLog(u, z)
            <7>1. PICK i \in 1 .. Len(log[z]) : log[z][i] = u
              BY <6>2 DEF InLog
            <7>2. i \in 1 .. Len(log'[z]) /\ log'[z][i] = u
              BY <2>2, <2>3, <7>1
            <7> QED
              BY <4>1, <7>2 DEF Logged
          <6> QED
            BY <5>2, <6>1, <6>2
        <5> QED
          BY <4>1, <5>1, <5>2
      <4>2. CASE s # z
        BY <2>1, <4>2 DEF InLog, Logged
      <4> QED
        BY <4>1, <4>2
    <3>2. \A u \in Party : Made(u) = Makes(u, s)
      BY <1>7, <2>1, <3>1 DEF Makes, Made
    <3>3. \A p \in 1 .. Len(arrivals) : arrivals[p] \in Party
      BY <2>2
    <3>4. version'[s] <= base[s]
      BY <2>1, <2>2, <2>4, <2>5 DEF TicketInv
    <3>5. ASSUME NEW p \in 1 .. Len(arrivals)
          PROVE  /\ target[arrivals[p]][s] + Made(arrivals[p]) <= base[s]
                 /\ s \in dirty'[arrivals[p]] => version'[s] <= target[arrivals[p]][s]
                 /\ Logged(arrivals[p]) => target[arrivals[p]][s] < version'[s]
      <4>1. target[arrivals[p]][s] + Made(arrivals[p]) <= base[s]
        BY <2>4, <3>2, <3>3 DEF TicketInv
      <4>2. CASE s # z
        BY <2>1, <2>4, <3>1, <3>3, <4>1, <4>2 DEF TicketInv
      <4>3. CASE s = z
        <5>1. ASSUME z \in dirty'[arrivals[p]] PROVE version'[z] <= target[arrivals[p]][z]
          <6>1. arrivals[p] # t /\ z \in dirty[arrivals[p]] /\ p # k
            BY <1>5, <2>1, <3>3, <5>1
          <6>2. Makes(arrivals[p], z) = 1
            BY <6>1 DEF Makes
          <6>3. version[z] <= target[arrivals[p]][z] /\ target[arrivals[p]][z] \in Nat
            BY <2>2, <2>4, <6>1 DEF TicketInv
          <6>4. CASE p < k
            <7>1. target[arrivals[p]][z] + 1 <= target[t][z]
              BY <1>5, <2>4, <6>2, <6>4 DEF TicketInv
            <7> QED
              BY <2>2, <2>5, <6>3, <7>1
          <6>5. CASE k < p
            <7>1. target[t][z] + 1 <= target[arrivals[p]][z]
              BY <1>5, <2>4, <2>5, <6>5 DEF TicketInv
            <7> QED
              BY <2>1, <2>5, <7>1
          <6> QED
            BY <6>1, <6>4, <6>5
        <5>2. ASSUME Logged(arrivals[p]) PROVE target[arrivals[p]][z] < version'[z]
          <6>1. CASE InLog(arrivals[p], z)
            <7>1. target[arrivals[p]][z] < version[z] /\ target[arrivals[p]][z] \in Nat
              BY <2>2, <2>4, <6>1 DEF TicketInv
            <7> QED
              BY <2>1, <2>2, <7>1
          <6>2. CASE arrivals[p] = t
            BY <2>1, <2>2, <2>5, <6>2
          <6> QED
            BY <3>1, <4>3, <5>2, <6>1, <6>2
        <5> QED
          BY <4>1, <4>3, <5>1, <5>2
      <4> QED
        BY <4>2, <4>3
    <3>6. \A p, q \in 1 .. Len(arrivals) :
            p < q => target[arrivals[p]][s] + Made(arrivals[p]) <= target[arrivals[q]][s]
      BY <2>4, <3>2, <3>3 DEF TicketInv
    <3> QED
      BY <1>3, <3>4, <3>5, <3>6 DEF TicketInv, Makes, InLog, Made, Logged
  <2>9. OrderInv(r)'
    BY <1>0, <1>3, <1>4, <2>8 DEF OrderInv, Here
  <2> QED
    BY <1>0, <1>2, <2>7, <2>9 DEF CommitInv, KeepsRound
<1> QED
  BY <1>6, <1>7

(* The last to leave with the token ends the round.                        *)
LEMMA LeaveOrder ==
  ASSUME CommitInv, NEW t \in Party, UNCHANGED build, LeaveBarrier(t) \/ SimpleLeave(t)
  PROVE  CommitInv'
<1>0. PICK r \in 0 .. Rounds : RoundInv(r) /\ OrderInv(r)
  BY DEF CommitInv
<1>1. MeetInv /\ BaseType /\ ListInv /\ DirtyInv /\ r \in Nat
  BY Numbers DEF CommitInv, MeetInv
<1>2. /\ MeetInv' /\ (token # t => KeepsRound)
      /\ token = t => counter = N /\ r + 1 \in 0 .. Rounds /\ RoundInv(r + 1)'
  BY <1>0, <1>1, LeaveStep
<1>3. UNCHANGED <<build, target, arrivals, came, dirty, log, version>>
  <2>1. CASE LeaveBarrier(t)
    BY <2>1 DEF LeaveBarrier, conv
  <2>2. CASE SimpleLeave(t)
    <3>1. Segments \cap dirty[t] = {} /\ dirty[t] \ Segments = dirty[t]
      BY <1>1, <2>2 DEF DirtyInv, SimpleLeave
    <3>2. Commit(t, Segments)
      BY <2>2 DEF SimpleLeave, CommitAndUpdate
    <3>3. version' = version /\ log' = log /\ dirty' = dirty
      BY <1>1, <3>1, <3>2 DEF Commit, BaseType
    <3> QED
      BY <2>2, <3>3 DEF SimpleLeave
  <2> QED
    BY <2>1, <2>2
<1>4. \A u \in Party : pc'[u] \in {"heap", "globals"} => pc[u] \in {"heap", "globals"}
  BY <1>1 DEF LeaveBarrier, SimpleLeave, Goto, BaseType
<1>5. CASE token # t
  <2>1. UNCHANGED <<counter, base>>
    BY <1>5 DEF LeaveBarrier, SimpleLeave
  <2> QED
    BY <1>2, <1>3, <1>4, <1>5, <2>1, QuietOrder
<1>6. CASE token = t
  <2>1. counter' = 0
    BY <1>6 DEF LeaveBarrier, SimpleLeave, CounterCleared
  <2>2. ListInv'
    <3>1. \A p, q \in 1 .. Len(arrivals') : arrivals'[p] = arrivals'[q] => p = q
      BY <1>1, <1>3 DEF ListInv
    <3>2. \A s \in Segments : \A i \in 1 .. Len(log'[s]) : Here(log[s][i])'
      BY <1>1, <1>3 DEF ListInv, Here
    <3>3. \A s \in Segments : \A i, j \in 1 .. Len(log'[s]) : \A p, q \in 1 .. Len(arrivals') :
            i < j /\ arrivals'[p] = log'[s][i] /\ arrivals'[q] = log'[s][j] => p < q
      BY <1>1, <1>3 DEF ListInv
    <3>4. \A u \in Party : pc'[u] \in {"heap", "globals"} => build' = "parallel"
      BY <1>1, <1>3, <1>4 DEF ListInv
    <3> QED
      BY <3>1, <3>2, <3>3, <3>4 DEF ListInv
  <2>3. ASSUME build = "parallel", NEW s \in Segments
        PROVE  version'[s] <= FirstVersion + N * (r + 1)
    <3>1. version[s] <= base[s] /\ base[s] <= FirstVersion + N * r + N
      BY <1>0, <1>2, <1>6, <2>3, Numbers DEF OrderInv, TicketInv
    <3>2. version[s] \in Nat /\ base[s] \in Nat
      BY <1>1 DEF BaseType
    <3>3. N * r \in Nat /\ N * (r + 1) = N * r + N
      BY <1>1, Numbers, Z3
    <3> QED
      BY <1>3, <3>1, <3>2, <3>3, Numbers
  <2>4. OrderInv(r + 1)'
    BY <1>3, <2>1, <2>3 DEF OrderInv
  <2> QED
    BY <1>2, <1>6, <2>2, <2>4 DEF CommitInv
<1> QED
  BY <1>5, <1>6

(* Before anyone arrives nothing is in the list of arrivals.               *)
LEMMA CommitInit == Init => CommitInv
<1> SUFFICES ASSUME Init PROVE CommitInv
  OBVIOUS
<1>1. MeetInv /\ \E r \in 0 .. Rounds : RoundInv(r)
  BY MeetInit DEF MeetInv
<1>2. PICK r \in 0 .. Rounds : RoundInv(r)
  BY <1>1
<1>3. ListInv
  BY DEF Init, ListInv
<1>4. N * r \in Nat
  BY Numbers, Z3
<1>5. OrderInv(r)
  BY <1>4, Numbers DEF Init, OrderInv
<1> QED
  BY <1>1, <1>2, <1>3, <1>5 DEF CommitInv

(* Every step keeps CommitInv as long as the versions fit.                 *)
LEMMA OrderStep ==
  ASSUME Fits, CommitInv, [Next]_<<vars, build>>
  PROVE  CommitInv'
<1>0. MeetInv /\ BaseType
  BY DEF CommitInv, MeetInv
<1>1. CASE UNCHANGED <<vars, build>> \/ (Done /\ UNCHANGED build)
  <2>1. UNCHANGED <<vars, build>>
    BY <1>1 DEF Done
  <2>2. MeetInv'
    BY <1>0, MeetStep
  <2>3. UNCHANGED <<build, counter, base, target, arrivals, came, dirty, log, version, pc, token>>
    BY <2>1 DEF vars, conv
  <2>4. KeepsRound
    BY <2>3 DEF KeepsRound, RoundInv, Arrived
  <2> QED
    BY <2>2, <2>3, <2>4, QuietOrder
<1>2. CASE OutsiderCommits /\ UNCHANGED build
  <2>1. MeetInv' /\ KeepsRound
    BY <1>0, <1>2, OutsiderStep
  <2>2. UNCHANGED <<counter, base, target, arrivals, came, dirty, log, pc>> /\ build # "parallel"
    BY <1>2 DEF OutsiderCommits, Fits
  <2> QED
    BY <1>2, <2>1, <2>2, QuietOrder
<1>3. ASSUME NEW t \in Party, UNCHANGED build,
             \/ FetchMore(t) \/ ActivateAndUpdate(t) \/ SimpleActivate(t)
             \/ EnterRealBarrier(t, "commiters", "first") \/ EnterRealBarrier(t, "updated", "second")
             \/ EnterRealBarrier(t, "arrived", "sfirst") \/ EnterRealBarrier(t, "activated", "ssecond")
      PROVE  CommitInv'
  <2>1. MeetInv' /\ KeepsRound
    BY <1>0, <1>3, FetchStep, ActivateStep, EnterStep
  <2>2. UNCHANGED <<counter, base, target, arrivals, came, dirty, log, version>>
    BY <1>3 DEF FetchMore, ActivateAndUpdate, SimpleActivate, EnterRealBarrier, conv
  <2>3. \A u \in Party : pc'[u] \in {"heap", "globals"} => pc[u] \in {"heap", "globals"}
    BY <1>0, <1>3 DEF FetchMore, ActivateAndUpdate, SimpleActivate, EnterRealBarrier, Goto, BaseType
  <2> QED
    BY <1>3, <2>1, <2>2, <2>3, QuietOrder
<1>4. ASSUME NEW t \in Party, Step(t), UNCHANGED build PROVE CommitInv'
  BY <1>3, <1>4, ArriveOrder, CommitOrder, LeaveOrder DEF Step
<1>5. ASSUME NEW t \in Party, SimpleStep(t), UNCHANGED build PROVE CommitInv'
  BY <1>3, <1>5, ArriveOrder, LeaveOrder DEF SimpleStep
<1> QED
  BY <1>1, <1>2, <1>4, <1>5 DEF Next

(* Determinism of the parallel commit, for every party: while the versions *)
(* of the run fit in barr->heapVersion and no thread outside the party     *)
(* commits, the pages are merged in the order in which the threads had the *)
(* token on arrival.  (Without either condition they need not be.)         *)
THEOREM CommitOrderTheorem ==
  ASSUME FirstVersion + Cardinality(Party) * Rounds < Width, "parallel" \notin Shared
  PROVE  Spec => []CommitsInArrivalOrder
<1>1. Fits
  BY DEF Fits, N
<1>2. CommitInv /\ [Next]_<<vars, build>> => CommitInv'
  BY <1>1, OrderStep
<1>3. CommitInv => CommitsInArrivalOrder
  <2> SUFFICES ASSUME CommitInv, NEW s \in Segments, NEW i \in 1 .. Len(log[s]), NEW j \in 1 .. Len(log[s]), i < j
               PROVE  Position(log[s][i]) < Position(log[s][j])
    BY DEF CommitsInArrivalOrder
  <2>1. ASSUME NEW k \in 1 .. Len(log[s])
        PROVE  Position(log[s][k]) \in 1 .. Len(arrivals) /\ arrivals[Position(log[s][k])] = log[s][k]
    <3>1. \E p \in 1 .. Len(arrivals) : arrivals[p] = log[s][k]
      BY DEF CommitInv, ListInv, Here
    <3> QED
      BY <3>1 DEF Position
  <2>2. \A p, q \in 1 .. Len(arrivals) : arrivals[p] = log[s][i] /\ arrivals[q] = log[s][j] => p < q
    BY DEF CommitInv, ListInv
  <2>3. /\ Position(log[s][i]) \in 1 .. Len(arrivals) /\ arrivals[Position(log[s][i])] = log[s][i]
        /\ Position(log[s][j]) \in 1 .. Len(arrivals) /\ arrivals[Position(log[s][j])] = log[s][j]
    BY <2>1
  <2> QED
    BY <2>2, <2>3
<1> QED
  BY <1>2, <1>3, CommitInit, PTL DEF Spec
=============================================================================

------------------------------- MODULE Barrier ------------------------------
(***************************************************************************)
(* pthread_barrier_wait: xrun::barrier_wait and determ::barrier_wait with  *)
(* the parallel commit of xmemory::commit_parallel, or the                 *)
(* variant of USE_SIMPLE_BARRIER.                                          *)
(*                                                                         *)
(* The threads of the party arrive one by one, with the token, but commit  *)
(* at the same time, each one waiting until Conversion has reached the     *)
(* version the arrivals before it will have made.  The last to arrive      *)
(* keeps the token until everybody has everything.                         *)
(*                                                                         *)
(* Conversion is external: a commit of a segment with dirty pages makes    *)
(* one new version of it, and brings the committer's view up to date.      *)
(***************************************************************************)
EXTENDS Naturals, Sequences, FiniteSets

CONSTANTS
  Party,         \* the threads that meet at the barrier
  Builds,        \* "parallel" commits, or "simple" (USE_SIMPLE_BARRIER)
  Shared,        \* builds whose program has threads outside the party
  Rounds,        \* how often they meet (bounds the model)
  FirstVersion,  \* Conversion's version when they start
  Width,         \* barr->heapVersion counts modulo this (2^16 in the code)
  Nobody

ASSUME PartyAssumption  == IsFiniteSet(Party) /\ Party # {} /\ Nobody \notin Party
ASSUME NumberAssumption == Rounds \in Nat /\ FirstVersion \in Nat /\ Width \in Nat \ {0}

Segments == {"heap", "globals"}
None     == [s \in Segments |-> 0]

VARIABLES
  build,     \* the build and program at hand
  pc,        \* where each thread of the party is
  token,     \* the holder of determ::_tokenpos
  active,    \* the threads the clock takes into account
  counter,   \* barr->counter
  base,      \* barr->heapVersion and barr->globalsVersion
  committed, \* barr->committed
  target,    \* heapVersion and globalsVersion of barrier_wait
  dirty,     \* the segments in which each thread has dirty pages
  version,   \* Conversion's committed version of each segment
  seen,      \* the version each thread has of it
  arrivals,  \* who arrived in this round, in order (history)
  log,       \* who committed to each segment in this round (history)
  wrote,     \* the versions the arrivals of each round made (history)
  came, left,\* rounds each thread came to and left
  reached    \* how often each thread called the real pthread_barrier_wait

conv == <<version, seen, dirty, log, wrote>>
vars == <<pc, token, active, counter, base, committed, target, conv, arrivals, came, left, reached>>

Goto(t, l) == pc' = [pc EXCEPT ![t] = l]

(* conv_commit_and_update of one segment: one version if it is dirty.      *)
Commit(t, S) ==
  LET new == S \cap dirty[t] IN
  /\ version' = [s \in Segments |-> IF s \in new THEN version[s] + 1 ELSE version[s]]
  /\ log' = [s \in Segments |-> IF s \in new THEN Append(log[s], t) ELSE log[s]]
  /\ seen' = [seen EXCEPT ![t] = [s \in Segments |-> IF s \in S THEN version'[s] ELSE @[s]]]
  /\ dirty' = [dirty EXCEPT ![t] = @ \ S]
  /\ wrote' = IF new = {} THEN wrote ELSE [wrote EXCEPT ![came[t]] = version']

-----------------------------------------------------------------------------
(***************************************************************************)
(* Arrival, with the token.                                                *)
(***************************************************************************)
GetToken(t) == token = Nobody

(* The versions to wait for: what the segment has when the first arrives,  *)
(* kept in 16 bits, and one more for every dirty arrival.                  *)
BaseVersions(t) ==
  IF counter = 0 THEN [s \in Segments |-> version[s] % Width] ELSE base

(* Mutant: every arrival counts, dirty or not.                             *)
NextBaseAlways(b, d) == [s \in Segments |-> (b[s] + 1) % Width]

NextBase(b, d) == [s \in Segments |-> (b[s] + (IF s \in d THEN 1 ELSE 0)) % Width]

(* Mutant: the last to arrive lets the token go as well.                   *)
KeepsTokenNever == FALSE

KeepsToken == counter + 1 = Cardinality(Party)

(* All but the last one halt their clock and give the token back.          *)
LeaveToken(t) ==
  IF KeepsToken THEN token' = t /\ UNCHANGED active
  ELSE token' = Nobody /\ active' = active \ {t}

StartRound(t) ==
  /\ arrivals' = IF counter = 0 THEN <<t>> ELSE Append(arrivals, t)
  /\ came' = [came EXCEPT ![t] = @ + 1]
  /\ counter' = counter + 1

(* determ::barrier_wait up to putToken.  What the thread wrote since the   *)
(* last round is decided here.                                             *)
Arrive(t) ==
  /\ build = "parallel" /\ pc[t] = "work" /\ GetToken(t)
  /\ came[t] < Rounds
  /\ StartRound(t) /\ LeaveToken(t)
  /\ \E d \in SUBSET Segments :
       /\ dirty' = [dirty EXCEPT ![t] = d]
       /\ target' = [target EXCEPT ![t] = BaseVersions(t)]
       /\ base' = NextBase(BaseVersions(t), d)
  /\ log' = IF counter = 0 THEN [s \in Segments |-> <<>>] ELSE log
  /\ Goto(t, "heap")
  /\ UNCHANGED <<committed, version, seen, wrote, left, reached>>

-----------------------------------------------------------------------------
(***************************************************************************)
(* The parallel commit: xpersist::commit_parallel, heap before globals.    *)
(***************************************************************************)

(* Mutant: nobody waits for the linearized version.                        *)
MayCommitAtOnce(t, s) == TRUE

MayCommit(t, s) == version[s] >= target[t][s]

CommitHeap(t) ==
  /\ pc[t] = "heap" /\ MayCommit(t, "heap")
  /\ Commit(t, {"heap"})
  /\ Goto(t, "globals")
  /\ UNCHANGED <<token, active, counter, base, committed, target, arrivals, came, left, reached>>

CommitGlobals(t) ==
  /\ pc[t] = "globals" /\ MayCommit(t, "globals")
  /\ Commit(t, {"globals"})
  /\ committed' = committed + 1
  /\ Goto(t, "commiters")
  /\ UNCHANGED <<token, active, counter, base, target, arrivals, came, left, reached>>

Update(t) == seen' = [seen EXCEPT ![t] = version]

(* __wait_for_commiters fetches new versions ...                           *)
FetchMore(t) ==
  /\ pc[t] = "commiters"
  /\ committed < Cardinality(Party) - 1
  /\ \E s \in Segments : version[s] > seen[t][s]
  /\ Update(t)
  /\ UNCHANGED <<pc, token, active, counter, base, committed, target, version, dirty, log, wrote, arrivals, came, left, reached>>

(* ... until it has waited long enough or few pages are missing.           *)
EnterRealBarrier(t, from, to) ==
  /\ pc[t] = from
  /\ reached' = [reached EXCEPT ![t] = @ + 1]
  /\ Goto(t, to)
  /\ UNCHANGED <<token, active, counter, base, committed, target, conv, arrivals, came, left>>

(* Mutant: the real barrier is made for one thread less.                   *)
RealBarrierTooSmall(t) == \E v \in Party : \A u \in Party \ {v} : reached[u] >= reached[t]

(* The real barrier opens when everyone has called it as often as t has.   *)
RealBarrierOpen(t) == \A u \in Party : reached[u] >= reached[t]

-----------------------------------------------------------------------------
(***************************************************************************)
(* Everybody has committed.                                                *)
(***************************************************************************)

(* Mutant: one update, before the others have committed, is enough.        *)
UpdatedEarly(t) == seen' = seen

UpdateAfterBarrier(t) == Update(t)

(* The halted threads are active again, then everyone updates.             *)
ActivateAndUpdate(t) ==
  /\ pc[t] = "first" /\ RealBarrierOpen(t)
  /\ active' = active \cup {t}
  /\ UpdateAfterBarrier(t)
  /\ Goto(t, "updated")
  /\ UNCHANGED <<token, counter, base, committed, target, version, dirty, log, wrote, arrivals, came, left, reached>>

CounterCleared == 0

(* The token holder cleans up; the others leave at once.                   *)
LeaveBarrier(t) ==
  /\ pc[t] = "second" /\ RealBarrierOpen(t)
  /\ left' = [left EXCEPT ![t] = @ + 1]
  /\ Goto(t, "work")
  /\ IF token = t
     THEN /\ counter' = CounterCleared /\ base' = None /\ committed' = 0
          /\ token' = Nobody
     ELSE UNCHANGED <<counter, base, committed, token>>
  /\ UNCHANGED <<active, target, conv, arrivals, came, reached>>

-----------------------------------------------------------------------------
(***************************************************************************)
(* USE_SIMPLE_BARRIER: commit with the token, on arrival and on departure. *)
(***************************************************************************)
SimpleArrive(t) ==
  /\ build = "simple" /\ pc[t] = "work" /\ GetToken(t)
  /\ came[t] < Rounds
  /\ StartRound(t) /\ LeaveToken(t)
  /\ \E d \in SUBSET Segments :
       /\ version' = [s \in Segments |-> IF s \in d THEN version[s] + 1 ELSE version[s]]
       /\ log' = [s \in Segments |-> LET l == IF counter = 0 THEN <<>> ELSE log[s]
                                     IN  IF s \in d THEN Append(l, t) ELSE l]
  /\ seen' = [seen EXCEPT ![t] = version']
  /\ wrote' = [wrote EXCEPT ![came'[t]] = version']
  /\ Goto(t, "arrived")
  /\ UNCHANGED <<base, committed, target, dirty, left, reached>>

SimpleActivate(t) ==
  /\ pc[t] = "sfirst" /\ RealBarrierOpen(t)
  /\ active' = active \cup {t}
  /\ Goto(t, "activated")
  /\ UNCHANGED <<token, counter, base, committed, target, conv, arrivals, came, left, reached>>

CommitAndUpdate(t) == Commit(t, Segments)

(* The last to arrive still has the token, the others ask for it again.    *)
SimpleLeave(t) ==
  /\ pc[t] = "ssecond" /\ RealBarrierOpen(t)
  /\ token \in {t, Nobody}
  /\ counter' = IF token = t THEN 0 ELSE counter
  /\ CommitAndUpdate(t)
  /\ token' = Nobody
  /\ left' = [left EXCEPT ![t] = @ + 1]
  /\ Goto(t, "work")
  /\ UNCHANGED <<active, base, committed, target, arrivals, came, reached>>

-----------------------------------------------------------------------------
(* A thread outside the party commits whenever it has the token.           *)
OutsiderCommits ==
  /\ build \in Shared /\ token = Nobody
  /\ \E s \in Segments :
       /\ version[s] < FirstVersion + Rounds
       /\ version' = [version EXCEPT ![s] = @ + 1]
  /\ UNCHANGED <<pc, token, active, counter, base, committed, target, seen, dirty, log, wrote, arrivals, came, left, reached>>

Init ==
  /\ build \in Builds
  /\ pc = [t \in Party |-> "work"]
  /\ token = Nobody
  /\ active = Party
  /\ counter = 0 /\ base = None /\ committed = 0
  /\ target = [t \in Party |-> None]
  /\ dirty = [t \in Party |-> {}]
  /\ version = [s \in Segments |-> FirstVersion]
  /\ seen = [t \in Party |-> version]
  /\ arrivals = <<>>
  /\ log = [s \in Segments |-> <<>>]
  /\ wrote = [k \in 1 .. Rounds |-> None]
  /\ came = [t \in Party |-> 0] /\ left = [t \in Party |-> 0]
  /\ reached = [t \in Party |-> 0]

Step(t) ==
  \/ Arrive(t) \/ CommitHeap(t) \/ CommitGlobals(t) \/ FetchMore(t)
  \/ EnterRealBarrier(t, "commiters", "first") \/ ActivateAndUpdate(t)
  \/ EnterRealBarrier(t, "updated", "second") \/ LeaveBarrier(t)

SimpleStep(t) ==
  \/ SimpleArrive(t) \/ SimpleActivate(t) \/ SimpleLeave(t)
  \/ EnterRealBarrier(t, "arrived", "sfirst")
  \/ EnterRealBarrier(t, "activated", "ssecond")

Done == (\A t \in Party : left[t] = Rounds) /\ UNCHANGED vars

Next ==
  /\ (\E t \in Party : Step(t) \/ SimpleStep(t)) \/ OutsiderCommits \/ Done
  /\ UNCHANGED build

(* The threads of the party keep running; nobody has to fetch early.       *)
Fairness ==
  \A t \in Party :
    /\ WF_vars(SimpleStep(t))
    /\ WF_vars(Arrive(t) \/ CommitHeap(t) \/ CommitGlobals(t) \/ ActivateAndUpdate(t) \/ LeaveBarrier(t))
    /\ WF_vars(EnterRealBarrier(t, "commiters", "first"))
    /\ WF_vars(EnterRealBarrier(t, "updated", "second"))

Spec     == Init /\ [][Next]_<<vars, build>>
FairSpec == Spec /\ Fairness

-----------------------------------------------------------------------------
Labels == {"work", "heap", "globals", "commiters", "first", "updated", "second",
           "arrived", "sfirst", "activated", "ssecond"}

(* Every variable has its type; counter and committed never exceed the     *)
(* size of the party.                                                      *)
TypeOK ==
  /\ pc \in [Party -> Labels] /\ token \in Party \cup {Nobody}
  /\ active \subseteq Party
  /\ counter \in 0 .. Cardinality(Party) /\ committed \in 0 .. Cardinality(Party)
  /\ base \in [Segments -> 0 .. Width - 1] /\ target \in [Party -> [Segments -> 0 .. Width - 1]]
  /\ dirty \in [Party -> SUBSET Segments]
  /\ version \in [Segments -> Nat] /\ seen \in [Party -> [Segments -> Nat]]
  /\ came \in [Party -> Nat] /\ left \in [Party -> Nat] /\ reached \in [Party -> Nat]

(* The meeting of the threads is the one POSIX promises, also when it is   *)
(* used again at once.                                                     *)
Meeting == INSTANCE BarrierSpec
MeetsAtBarrier == Meeting!Spec

Position(t) == CHOOSE i \in 1 .. Len(arrivals) : arrivals[i] = t

(* Determinism: although they commit without the token, the threads' pages *)
(* are merged in the order in which they had it.                           *)
CommitsInArrivalOrder ==
  \A s \in Segments : \A i, j \in 1 .. Len(log[s]) :
    i < j => Position(log[s][i]) < Position(log[s][j])

(* Who leaves the barrier sees what every other thread wrote before it.    *)
LeavesUpToDate ==
  [][\A t \in Party : left'[t] > left[t] =>
       \A s \in Segments : seen'[t][s] >= wrote[came[t]][s]]_vars

(* "one of us holds the token so nothing can go wrong": while some thread  *)
(* of the round is active again and others are not, no one else can get it.*)
TokenKept ==
  (\E t \in Party : pc[t] \in {"updated", "sfirst"} /\ t \in active) /\ active # Party
    => token # Nobody

(* Every round ends; nobody waits for a version that is never made.        *)
EveryRoundEnds == \A t \in Party : came[t] > left[t] ~> came[t] = left[t]
=============================================================================

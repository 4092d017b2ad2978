-------------------------- MODULE DetermWaitProofs --------------------------
(***************************************************************************)
(* Waiting in module Determ, for a build without SINGLE_THREAD_OPT: the    *)
(* queues of the mutexes and of the condition variables hold exactly the   *)
(* threads that wait, no wake-up is lost, no queue is forgotten, an        *)
(* exiting thread hands over to the parent that joins on it, nobody is     *)
(* left parked and nobody gives up.                                        *)
(***************************************************************************)
EXTENDS DetermProofs

(* Where a thread is in its operation, subroutines left aside.             *)
Where(t) == IF pc[t] \in SubLabels THEN ret[t] ELSE pc[t]

(* The operations whose code a label belongs to.                           *)
UnlockLabels == {"unlock_try", "unlock_commit", "unlock_release"}
WaitingLabels == {"cw_enqueue", "cw_halt", "cw_asleep", "cw_woken"}

KindOK(t) ==
  /\ Where(t) \in UnlockLabels => CurOp(t).kind = "unlock"
  /\ Where(t) \in WaitingLabels => CurOp(t).kind = "wait"
  /\ Where(t) \in {"get_thread", "error"} => CurOp(t).kind = "spawn"

KindInv == \A t \in Threads : KindOK(t)

(* Queued for a mutex, or on the way out of the queue.                     *)
QueueLabels == {"wl_halt", "wl_put", "wl_spin", "wl_asleep"}

LockQueueInv ==
  /\ \A m \in Mutexes : \A i \in 1 .. Len(lockq[m]) :
       /\ pc[lockq[m][i]] \in QueueLabels
       /\ CurOp(lockq[m][i]).m = m
       /\ status[lockq[m][i]] \in {"WAITING_ON_LOCK", "ON_DECK"}
  /\ \A m \in Mutexes : \A i, j \in 1 .. Len(lockq[m]) : lockq[m][i] = lockq[m][j] => i = j
  /\ \A t \in Threads : pc[t] \in QueueLabels =>
       \/ t \in LockWaiters(CurOp(t).m)
       \/ status[t] = "READY" /\ pc[t] \in {"wl_spin", "wl_asleep"}

(* The same for a condition variable.                                      *)
InCondWait(t) ==
  pc[t] \in {"cw_halt", "cw_asleep"} \/ (pc[t] = "signal_waiters" /\ CurOp(t).kind = "wait")

CondQueueInv ==
  /\ \A c \in Conds : \A i \in 1 .. Len(condq[c]) :
       /\ InCondWait(condq[c][i])
       /\ CurOp(condq[c][i]).c = c
       /\ status[condq[c][i]] = "COND_WAITING"
  /\ \A c \in Conds : \A i, j \in 1 .. Len(condq[c]) : condq[c][i] = condq[c][j] => i = j
  /\ \A t \in Threads : InCondWait(t) =>
       \/ t \in CondWaiters(CurOp(t).c)
       \/ status[t] = "READY" /\ pc[t] = "cw_asleep"

(* A sleeper that was made READY is about to be signalled.                 *)
SleepInv ==
  \A t \in Threads : asleep[t] =>
    /\ pc[t] \in {"wl_asleep", "cw_asleep", "join_asleep"}
    /\ status[t] = "READY" =>
         pc[t] = "wl_asleep" /\ \E u \in Threads : pc[u] = "signal_waiters" /\ t \in to_signal[u]

JoinInv ==
  /\ \A t \in Threads : status[t] \in {"JOINING", "OTHERS_NEED_TO_WAIT"} <=> pc[t] = "join_asleep"
  /\ \A t \in Threads : pc[t] \in {"ex_spin", "ex_release"} => status[t] = "EXIT"
  /\ \A t \in Threads :
       /\ pc[t] \in {"ex_spin", "ex_release"}
       /\ pc[tid_parent[t]] = "join_asleep" /\ joinee[tid_parent[t]] = t
       => pc[t] = "ex_spin" /\ status[tid_parent[t]] = "OTHERS_NEED_TO_WAIT"

(* A queue that is not empty is somebody's business.                       *)
HandInv ==
  /\ LockHandOff
  /\ \A t \in Threads : pc[t] = "wl_enqueue" => is_acquired[CurOp(t).m]

WaitInv == KindInv /\ LockQueueInv /\ CondQueueInv /\ SleepInv /\ JoinInv /\ HandInv

-----------------------------------------------------------------------------
(***************************************************************************)
(* What a step of one thread has to show, conjunct by conjunct.            *)
(***************************************************************************)

(* Only t moves; a thread that is outside every call may get a new start   *)
(* routine, a new process may start.                                       *)
Elsewhere(t) ==
  \A u \in Threads \ {t} :
    \/ pc'[u] = pc[u] /\ ret'[u] = ret[u] /\ fn'[u] = fn[u] /\ ip'[u] = ip[u]
    \/ pc[u] \in OutLabels /\ pc'[u] = pc[u]
    \/ pc[u] = "unborn" /\ pc'[u] = "register"

(* The call and the place of every other thread stay.                      *)
LEMMA ElsewhereOp ==
  ASSUME NEW t, Elsewhere(t), NEW u \in Threads, u # t
  PROVE  /\ KindOK(u) => KindOK(u)'
         /\ pc'[u] \notin OutLabels =>
              /\ CurOp(u)' = CurOp(u) /\ (AtEnd(u)' <=> AtEnd(u))
              /\ pc'[u] = pc[u] /\ ret'[u] = ret[u]
         /\ pc[u] \notin OutLabels => pc'[u] = pc[u]
         /\ pc'[u] = pc[u] \/ (pc[u] = "unborn" /\ pc'[u] = "register")
<1>1. CASE pc'[u] = pc[u] /\ ret'[u] = ret[u] /\ fn'[u] = fn[u] /\ ip'[u] = ip[u]
  BY <1>1 DEF CurOp, Where, AtEnd, KindOK
<1>2. CASE pc[u] \in OutLabels /\ pc'[u] = pc[u]
  BY <1>2 DEF OutLabels, PoolLabels, KindOK, Where, SubLabels, UnlockLabels, WaitingLabels
<1>3. CASE pc[u] = "unborn" /\ pc'[u] = "register"
  BY <1>3 DEF OutLabels, PoolLabels, KindOK, Where, SubLabels, UnlockLabels, WaitingLabels
<1> QED
  BY <1>1, <1>2, <1>3 DEF Elsewhere

(* So does the link between their places and their calls.                  *)
LEMMA KindMove ==
  ASSUME KindInv, NEW t \in Threads, Elsewhere(t), KindOK(t)'
  PROVE  KindInv'
BY ElsewhereOp DEF KindInv

(* t is in no queue of a mutex, before and after.                          *)
LEMMA LockQueueMove ==
  ASSUME TypeOK, LockQueueInv, NEW t \in Threads, Elsewhere(t), UNCHANGED lockq,
         \A u \in Threads \ {t} : pc[u] \in QueueLabels => status'[u] = status[u],
         pc[t] \notin QueueLabels \/ status[t] = "READY", pc'[t] \notin QueueLabels
  PROVE  LockQueueInv'
<1>1. ASSUME NEW u \in Threads \ {t}, pc[u] \in QueueLabels \/ pc'[u] \in QueueLabels
      PROVE  pc'[u] = pc[u] /\ CurOp(u)' = CurOp(u) /\ status'[u] = status[u]
  BY <1>1, ElsewhereOp DEF QueueLabels, OutLabels, PoolLabels
<1>2. \A m \in Mutexes : \A i \in 1 .. Len(lockq[m]) : lockq[m][i] \in Threads \ {t}
  <2> SUFFICES ASSUME NEW m \in Mutexes, NEW i \in 1 .. Len(lockq[m])
               PROVE  lockq[m][i] \in Threads /\ lockq[m][i] # t
    OBVIOUS
  <2>1. lockq[m] \in Seq(Threads)
    BY DEF TypeOK, SyncsType
  <2>2. /\ pc[lockq[m][i]] \in QueueLabels
        /\ status[lockq[m][i]] \in {"WAITING_ON_LOCK", "ON_DECK"}
    BY DEF LockQueueInv
  <2> QED
    BY <2>1, <2>2
<1>3. \A m \in Mutexes : \A i \in 1 .. Len(lockq[m]) :
        /\ pc'[lockq[m][i]] \in QueueLabels
        /\ CurOp(lockq[m][i])'.m = m
        /\ status'[lockq[m][i]] \in {"WAITING_ON_LOCK", "ON_DECK"}
  BY <1>1, <1>2 DEF LockQueueInv
<1>4. ASSUME NEW u \in Threads, pc'[u] \in QueueLabels
      PROVE  \/ u \in LockWaiters(CurOp(u).m)'
             \/ status'[u] = "READY" /\ pc'[u] \in {"wl_spin", "wl_asleep"}
  BY <1>1, <1>4 DEF LockQueueInv, LockWaiters
<1> QED
  BY <1>3, <1>4 DEF LockQueueInv

(* t stays where it is in the queues.                                      *)
LEMMA LockQueueStay ==
  ASSUME TypeOK, LockQueueInv, NEW t \in Threads, Elsewhere(t), UNCHANGED <<lockq, status>>,
         pc[t] \in QueueLabels, pc'[t] \in QueueLabels, CurOp(t)' = CurOp(t),
         status[t] = "READY" => pc'[t] \in {"wl_spin", "wl_asleep"}
  PROVE  LockQueueInv'
<1>1. ASSUME NEW u \in Threads, pc[u] \in QueueLabels \/ pc'[u] \in QueueLabels
      PROVE  /\ CurOp(u)' = CurOp(u) /\ pc[u] \in QueueLabels /\ pc'[u] \in QueueLabels
             /\ u # t => pc'[u] = pc[u]
  BY <1>1, ElsewhereOp DEF QueueLabels, OutLabels, PoolLabels
<1>2. \A m \in Mutexes : \A i \in 1 .. Len(lockq[m]) : lockq[m][i] \in Threads
  BY DEF TypeOK, SyncsType
<1>3. \A m \in Mutexes : \A i \in 1 .. Len(lockq[m]) :
        /\ pc'[lockq[m][i]] \in QueueLabels
        /\ CurOp(lockq[m][i])'.m = m
        /\ status'[lockq[m][i]] \in {"WAITING_ON_LOCK", "ON_DECK"}
  BY <1>1, <1>2 DEF LockQueueInv
<1>4. ASSUME NEW u \in Threads, pc'[u] \in QueueLabels
      PROVE  \/ u \in LockWaiters(CurOp(u).m)'
             \/ status'[u] = "READY" /\ pc'[u] \in {"wl_spin", "wl_asleep"}
  BY <1>1, <1>4 DEF LockQueueInv, LockWaiters
<1> QED
  BY <1>3, <1>4 DEF LockQueueInv

(* t waits for no condition variable, before and after.                    *)
LEMMA CondQueueMove ==
  ASSUME TypeOK, CondQueueInv, NEW t \in Threads, Elsewhere(t), UNCHANGED condq,
         \A u \in Threads \ {t} : InCondWait(u) => status'[u] = status[u],
         ~ InCondWait(t) \/ status[t] = "READY", ~ InCondWait(t)'
  PROVE  CondQueueInv'
<1>1. ASSUME NEW u \in Threads \ {t}, InCondWait(u) \/ InCondWait(u)'
      PROVE  /\ pc'[u] = pc[u] /\ CurOp(u)' = CurOp(u) /\ status'[u] = status[u]
             /\ InCondWait(u) /\ InCondWait(u)'
  BY <1>1, ElsewhereOp DEF InCondWait, OutLabels, PoolLabels
<1>2. \A c \in Conds : \A i \in 1 .. Len(condq[c]) : condq[c][i] \in Threads \ {t}
  BY DEF CondQueueInv, TypeOK, SyncsType
<1>4. ASSUME NEW c \in Conds, NEW i \in 1 .. Len(condq[c])
      PROVE  /\ InCondWait(condq[c][i])'
             /\ CurOp(condq[c][i])'.c = c
             /\ status'[condq[c][i]] = "COND_WAITING"
  <2>1. condq[c][i] \in Threads \ {t} /\ InCondWait(condq[c][i])
    BY <1>2 DEF CondQueueInv
  <2>2. InCondWait(condq[c][i])'
    BY <1>1, <2>1 DEF InCondWait
  <2> QED
    BY <1>1, <2>1, <2>2 DEF CondQueueInv
<1>5. ASSUME NEW u \in Threads, InCondWait(u)'
      PROVE  \/ u \in CondWaiters(CurOp(u).c)'
             \/ status'[u] = "READY" /\ pc'[u] = "cw_asleep"
  BY <1>1, <1>5 DEF CondQueueInv, CondWaiters
<1> QED
  BY <1>4, <1>5 DEF CondQueueInv

(* Nobody else falls asleep or is made READY in its sleep, and t is not    *)
(* the one that had to signal.                                             *)
LEMMA SleepMove ==
  ASSUME SleepInv, NEW t \in Threads, Elsewhere(t),
         \A u \in Threads \ {t} : /\ asleep'[u] => asleep[u] /\ status'[u] = status[u]
                                  /\ to_signal'[u] = to_signal[u],
         pc[t] # "signal_waiters",
         asleep'[t] => /\ pc'[t] \in {"wl_asleep", "cw_asleep", "join_asleep"}
                       /\ status'[t] # "READY"
  PROVE  SleepInv'
<1> SUFFICES ASSUME NEW u \in Threads, u # t, asleep'[u]
             PROVE  /\ pc'[u] \in {"wl_asleep", "cw_asleep", "join_asleep"}
                    /\ status'[u] = "READY" =>
                         pc'[u] = "wl_asleep"
                         /\ \E v \in Threads : pc'[v] = "signal_waiters" /\ u \in to_signal'[v]
  BY DEF SleepInv
<1>1. asleep[u] /\ status'[u] = status[u]
  OBVIOUS
<1>2. pc'[u] = pc[u]
  BY <1>1, ElsewhereOp DEF SleepInv, OutLabels, PoolLabels
<1>3. ASSUME NEW v \in Threads, pc[v] = "signal_waiters", u \in to_signal[v]
      PROVE  pc'[v] = "signal_waiters" /\ u \in to_signal'[v]
  BY <1>3, ElsewhereOp DEF OutLabels, PoolLabels
<1> QED
  BY <1>1, <1>2, <1>3 DEF SleepInv

(* t neither joins nor exits with a parent to wake.                        *)
LEMMA JoinMove ==
  ASSUME TypeOK, JoinInv, NEW t \in Threads, Elsewhere(t),
         \A u \in Threads \ {t} :
           /\ tid_parent'[u] = tid_parent[u] /\ joinee'[u] = joinee[u]
           /\ \/ status'[u] = status[u]
              \/ pc[u] \in QueueLabels \cup {"cw_asleep"} /\ status'[u] \in {"READY", "ON_DECK"},
         pc[t] # "join_asleep", pc'[t] # "join_asleep",
         status'[t] \notin {"JOINING", "OTHERS_NEED_TO_WAIT"},
         pc'[t] \notin {"ex_spin", "ex_release"}
  PROVE  JoinInv'
<1>1. \A u \in Threads : pc'[u] = "join_asleep" =>
        u # t /\ pc[u] = "join_asleep" /\ status'[u] = status[u]
  BY DEF Elsewhere, QueueLabels
<1>2. \A u \in Threads : pc'[u] \in {"ex_spin", "ex_release"} =>
        u # t /\ pc[u] = pc'[u] /\ status'[u] = status[u]
  BY DEF Elsewhere, QueueLabels
<1>3. \A u \in Threads : status'[u] \in {"JOINING", "OTHERS_NEED_TO_WAIT"} <=> pc'[u] = "join_asleep"
  BY DEF JoinInv, Elsewhere, QueueLabels
<1>4. tid_parent \in [Threads -> Threads]
  BY DEF TypeOK, EntriesType
<1>5. ASSUME NEW u \in Threads, pc'[u] \in {"ex_spin", "ex_release"}
      PROVE  /\ status'[u] = "EXIT"
             /\ pc'[tid_parent'[u]] = "join_asleep" /\ joinee'[tid_parent'[u]] = u
                => pc'[u] = "ex_spin" /\ status'[tid_parent'[u]] = "OTHERS_NEED_TO_WAIT"
  <2>1. /\ u # t /\ pc[u] = pc'[u] /\ tid_parent'[u] = tid_parent[u] /\ tid_parent[u] \in Threads
        /\ status'[u] = status[u]
    BY <1>2, <1>4, <1>5
  <2> QED
    BY <1>1, <1>5, <2>1 DEF JoinInv
<1> QED
  BY <1>3, <1>5 DEF JoinInv

(* Whoever was on the way to a free mutex still is, or has it.             *)
LEMMA HandMove ==
  ASSUME HandInv, NEW t \in Threads, Elsewhere(t), UNCHANGED lockq,
         \A u \in Threads \ {t} : status[u] = "READY" => status'[u] = "READY",
         \A m \in Mutexes : is_acquired[m] => is_acquired'[m],
         \A u \in Threads \ {t} : pc[u] = "wl_enqueue" => is_acquired'[CurOp(u).m],
         \A m \in Mutexes : OnTheWay(t, m) => OnTheWay(t, m)' \/ is_acquired'[m],
         pc'[t] = "wl_enqueue" => is_acquired'[CurOp(t)'.m]
  PROVE  HandInv'
<1>1. \A u \in Threads \ {t} : \A m \in Mutexes : OnTheWay(u, m) => OnTheWay(u, m)'
  BY ElsewhereOp DEF OnTheWay, OutLabels, PoolLabels
<1>2. ASSUME NEW m \in Mutexes, LockWaiters(m)' # {}, ~ is_acquired'[m]
      PROVE  \E u \in Threads : OnTheWay(u, m)'
  <2>1. LockWaiters(m) # {} /\ ~ is_acquired[m]
    BY <1>2 DEF LockWaiters
  <2>2. PICK u \in Threads : OnTheWay(u, m)
    BY <2>1 DEF HandInv, LockHandOff
  <2> QED
    BY <1>1, <1>2, <2>2
<1>3. \A u \in Threads : pc'[u] = "wl_enqueue" => is_acquired'[CurOp(u)'.m]
  BY ElsewhereOp DEF OutLabels, PoolLabels
<1> QED
  BY <1>2, <1>3 DEF HandInv, LockHandOff

-----------------------------------------------------------------------------
(***************************************************************************)
(* Steps that neither queue, sleep, wake nor exit.                         *)
(***************************************************************************)

(* The places that the queues, the sleepers and the exits are about.       *)
Special == QueueLabels \cup {"cw_halt", "cw_asleep", "signal_waiters", "join_asleep", "ex_spin",
                             "ex_release"}

(* Nothing about queues and sleepers changes.                              *)
Quiet == UNCHANGED <<status, asleep, to_signal, lockq, condq, joinee, tid_parent>>

(* A quiet step of t outside the special places.                           *)
LEMMA QuietMove ==
  ASSUME IndInv, WaitInv, NEW t \in Threads, Elsewhere(t), Quiet, KindOK(t)',
         pc[t] \notin Special \ {"ex_spin", "ex_release"}, pc'[t] \notin Special,
         \A m \in Mutexes : is_acquired[m] => is_acquired'[m],
         \A m \in Mutexes : OnTheWay(t, m) => OnTheWay(t, m)' \/ is_acquired'[m],
         pc'[t] = "wl_enqueue" => is_acquired'[CurOp(t)'.m]
  PROVE  WaitInv'
<1> USE DEF Quiet
<1>1. TypeOK /\ FlowOK /\ KindInv /\ LockQueueInv /\ CondQueueInv /\ SleepInv /\ JoinInv /\ HandInv
  BY DEF IndInv, WaitInv
<1>2. KindInv'
  BY <1>1, KindMove
<1>3. LockQueueInv'
  BY <1>1, LockQueueMove DEF Special, QueueLabels
<1>4. CondQueueInv'
  BY <1>1, CondQueueMove DEF Special, InCondWait
<1>5. SleepInv'
  <2>1. ~asleep[t]
    BY <1>1 DEF SleepInv, Special, QueueLabels
  <2> QED
    BY <1>1, <2>1, SleepMove DEF Special
<1>6. JoinInv'
  <2>1. status[t] \notin {"JOINING", "OTHERS_NEED_TO_WAIT"}
    BY <1>1 DEF JoinInv, Special
  <2> QED
    BY <1>1, <2>1, JoinMove DEF Special
<1>7. HandInv'
  <2>1. ASSUME NEW u \in Threads, pc[u] = "wl_enqueue" PROVE is_acquired'[CurOp(u).m]
    <3>1. CurOp(u).m \in Mutexes
      BY <1>1, <2>1, InOpType DEF OpLabels, Op
    <3> QED
      BY <1>1, <2>1, <3>1 DEF HandInv
  <2> QED
    BY <1>1, <2>1, HandMove
<1> QED
  BY <1>2, <1>3, <1>4, <1>5, <1>6, <1>7 DEF WaitInv

(* A move to l, or by way of a subroutine that goes on at l.               *)
LEMMA WhereMoves ==
  ASSUME TypeOK, NEW t \in Threads, NEW l, Moves(t, l), l \notin SubLabels
  PROVE  /\ Where(t)' = l
         /\ pc'[t] \in {l, "put", "is_lowest"}
         /\ \A u \in Threads \ {t} : pc'[u] = pc[u] /\ ret'[u] = ret[u]
<1>1. pc \in [Threads -> Labels] /\ ret \in [Threads -> Labels]
  BY DEF TypeOK, FlowType
<1> QED
  BY <1>1 DEF Moves, Goto, Call, WaitToken, Where, SubLabels

(* On no way to a mutex.                                                   *)
WayLabels == {"lock_try", "lock_acquire", "lock_set"} \cup WaitLabels

(* A quiet move outside the special places and the ways to a mutex.        *)
LEMMA PlainMove ==
  ASSUME IndInv, WaitInv, NEW t \in Threads, NEW l, Moves(t, l), Quiet, UNCHANGED is_acquired,
         \A u \in Threads \ {t} : (fn'[u] = fn[u] /\ ip'[u] = ip[u]) \/ pc[u] \in OutLabels,
         l \notin SubLabels, l \notin Special, l # "wl_enqueue",
         pc[t] \notin Special \ {"ex_spin", "ex_release"}, pc[t] \notin WayLabels,
         l \in UnlockLabels => CurOp(t)'.kind = "unlock",
         l \in WaitingLabels => CurOp(t)'.kind = "wait",
         l \in {"get_thread", "error"} => CurOp(t)'.kind = "spawn"
  PROVE  WaitInv'
<1>1. /\ Where(t)' = l
      /\ pc'[t] \in {l, "put", "is_lowest"}
      /\ \A u \in Threads \ {t} : pc'[u] = pc[u] /\ ret'[u] = ret[u]
  BY WhereMoves DEF IndInv
<1>2. Elsewhere(t)
  BY <1>1 DEF Elsewhere
<1>3. KindOK(t)'
  BY <1>1 DEF KindOK
<1>4. pc'[t] \notin Special /\ pc'[t] # "wl_enqueue"
  BY <1>1 DEF Special, QueueLabels
<1>5. \A m \in Mutexes : ~OnTheWay(t, m)
  BY DEF OnTheWay, WayLabels, WaitLabels, Special, QueueLabels
<1> QED
  BY <1>2, <1>3, <1>4, <1>5, QuietMove

(* A quiet step inside getToken or putToken, or its return.                *)
LEMMA SubQuiet ==
  ASSUME IndInv, SafeInv, WaitInv, NEW t \in Threads, pc[t] \in SubLabels, Quiet,
         UNCHANGED <<fn, ip, is_acquired>>, NEW l, Goto(t, l),
         l = ret[t] \/ (l \in WaitLabels /\ pc[t] \in WaitLabels)
  PROVE  WaitInv'
<1>1. pc \in [Threads -> Labels] /\ ret \in [Threads -> Labels]
  BY DEF IndInv, TypeOK, FlowType
<1>2. /\ pc'[t] = l /\ ret'[t] = ret[t] /\ CurOp(t)' = CurOp(t) /\ (AtEnd(t)' <=> AtEnd(t))
      /\ Elsewhere(t)
  BY <1>1 DEF Goto, Elsewhere, CurOp, AtEnd
<1>3. /\ pc[t] \in WaitLabels => ret[t] \in WaitRets
      /\ pc[t] \notin WaitLabels => ret[t] \in PutRets
  BY DEF SafeInv, TokenInv, Local, SubLabels, WaitLabels
<1>4. KindOK(t)'
  <2>1. Where(t)' = Where(t)
    BY <1>2, <1>3 DEF Where, SubLabels, WaitLabels, WaitRets, PutRets
  <2> QED
    BY <1>2, <2>1 DEF WaitInv, KindInv, KindOK
<1>5. pc[t] \notin Special /\ pc'[t] \notin Special /\ pc'[t] # "wl_enqueue"
  BY <1>2, <1>3 DEF Special, QueueLabels, SubLabels, WaitLabels, WaitRets, PutRets
<1>6. ASSUME NEW m \in Mutexes, OnTheWay(t, m) PROVE OnTheWay(t, m)'
  <2>1. pc[t] \in WaitLabels /\ ret[t] = "lock_acquire" /\ ~AtEnd(t) /\ CurOp(t).m = m
    BY <1>5, <1>6 DEF OnTheWay, SubLabels, WaitLabels
  <2> QED
    BY <1>2, <2>1 DEF OnTheWay, WaitLabels
<1> QED
  BY <1>2, <1>4, <1>5, <1>6, QuietMove

(* WaitInv, through every step of getToken, waitToken, putToken and        *)
(* startClock.                                                             *)
LEMMA GetTokenStepWait ==
  ASSUME IndInv, SafeInv, WaitInv, NEW t \in Threads, GetTokenStep(t)
  PROVE  WaitInv'
<1> USE DEF locals, entries, syncs, Quiet
<1>1. ASSUME NEW low \in BOOLEAN, IsLowest(t, low) PROVE WaitInv'
  BY <1>1, SubQuiet DEF IsLowest, SubLabels, WaitLabels
<1>2. CASE ReadActivation(t)
  BY <1>2, SubQuiet DEF ReadActivation, SubLabels, WaitLabels
<1>3. CASE IsLowestWait(t)
  BY <1>3, SubQuiet DEF IsLowestWait, SubLabels, WaitLabels
<1>4. CASE CompareAndSwap(t)
  BY <1>4, SubQuiet DEF CompareAndSwap, SubLabels, WaitLabels
<1>5. CASE CheckActivation(t)
  BY <1>5, SubQuiet DEF CheckActivation, SubLabels, WaitLabels
<1>6. CASE FastForward(t)
  BY <1>6, SubQuiet DEF FastForward, SubLabels
<1>7. CASE PutToken(t)
  BY <1>7, SubQuiet DEF PutToken, SubLabels
<1>8. CASE StartClock(t)
  <2>1. \A u \in Threads \ {t} : fn'[u] = fn[u] /\ ip'[u] = ip[u]
    BY <1>8 DEF StartClock, IndInv, TypeOK, LocalsType
  <2>2. Moves(t, "run") /\ UNCHANGED is_acquired /\ Quiet
    BY <1>8 DEF StartClock, Moves
  <2>3. pc[t] \notin Special /\ pc[t] \notin WayLabels
    BY <1>8 DEF StartClock, Special, QueueLabels, WayLabels, WaitLabels
  <2> QED
    BY <2>1, <2>2, <2>3, PlainMove DEF SubLabels, Special, QueueLabels, UnlockLabels, WaitingLabels
<1> QED
  BY <1>1, <1>2, <1>3, <1>4, <1>5, <1>6, <1>7, <1>8 DEF GetTokenStep

(* The same when no call changes.                                          *)
LEMMA PlainGo ==
  ASSUME IndInv, WaitInv, NEW t \in Threads, NEW l, Moves(t, l), Quiet,
         UNCHANGED <<fn, ip, is_acquired>>,
         l \notin SubLabels, l \notin Special, l # "wl_enqueue",
         pc[t] \notin Special \ {"ex_spin", "ex_release"}, pc[t] \notin WayLabels,
         l \in UnlockLabels => CurOp(t).kind = "unlock",
         l \in WaitingLabels => CurOp(t).kind = "wait",
         l \in {"get_thread", "error"} => CurOp(t).kind = "spawn"
  PROVE  WaitInv'
<1>1. CurOp(t)' = CurOp(t)
  BY DEF CurOp
<1> QED
  BY <1>1, PlainMove

-----------------------------------------------------------------------------
(***************************************************************************)
(* mutex_lock, mutex_unlock.                                               *)
(***************************************************************************)

(* While t has the token, nobody else is where the token is needed.        *)
LEMMA Alone ==
  ASSUME SafeInv, NEW t \in Threads, pc[t] \in SyncLabels, NEW u \in Threads, pc[u] \in SyncLabels
  PROVE  u = t
<1>1. pc[t] # "error" /\ pc[u] # "error"
  BY DEF SyncLabels, TokenLabels, LoneLabels
<1> QED
  BY <1>1 DEF SafeInv, TokenInv, Global

(* __mutex_lock_inner up to the enqueueing.                                *)
LEMMA LockSteps ==
  ASSUME SingleThreadOpt = FALSE, IndInv, SafeInv, WaitInv, NEW t \in Threads,
         LockTry(t) \/ LockAcquire(t) \/ LockSet(t) \/ LockFailed(t)
  PROVE  WaitInv'
<1> USE DEF locals, entries, syncs, Quiet
<1>1. /\ pc \in [Threads -> Labels] /\ ret \in [Threads -> Labels]
      /\ is_acquired \in [Mutexes -> BOOLEAN]
  BY DEF IndInv, TypeOK, FlowType, SyncsType
<1>2. UNCHANGED <<fn, ip>> /\ Quiet /\ pc[t] \in {"lock_try", "lock_acquire", "lock_set"}
  BY DEF LockTry, LockAcquire, LockSet, LockFailed
<1>3. CurOp(t)' = CurOp(t) /\ (AtEnd(t)' <=> AtEnd(t)) /\ CurOp(t).m \in Mutexes
  BY <1>2, InOpType DEF IndInv, CurOp, AtEnd, OpLabels, Op
<1>4. ~is_single[t]
  BY DEF SafeInv, TokenInv, Local
<1>5. pc[t] \notin Special
  BY <1>2 DEF Special, QueueLabels
<1>6. CASE LockTry(t)
  <2>1. Moves(t, "lock_acquire") /\ UNCHANGED is_acquired
    BY <1>6 DEF LockTry, Moves
  <2>2. Elsewhere(t) /\ pc'[t] \in {"lock_acquire", "is_lowest", "put"} /\ Where(t)' = "lock_acquire"
    BY <1>2, <2>1, WhereMoves DEF IndInv, Elsewhere, SubLabels
  <2>3. pc'[t] = "lock_acquire" \/ (pc'[t] = "is_lowest" /\ ret'[t] = "lock_acquire")
    BY <1>6, <1>1 DEF LockTry, WaitToken, Goto, Call
  <2>4. KindOK(t)'
    BY <2>2 DEF KindOK, UnlockLabels, WaitingLabels
  <2>5. ASSUME NEW m \in Mutexes, OnTheWay(t, m) PROVE OnTheWay(t, m)'
    BY <1>2, <1>3, <2>3, <2>5 DEF OnTheWay
  <2> QED
    BY <1>2, <1>5, <2>1, <2>2, <2>3, <2>4, <2>5, QuietMove DEF Special, QueueLabels
<1>7. CASE LockAcquire(t)
  <2>1. pc'[t] = "lock_set" /\ Elsewhere(t) /\ UNCHANGED is_acquired
    BY <1>7, <1>1, <1>2 DEF LockAcquire, Goto, Elsewhere
  <2>2. KindOK(t)'
    BY <2>1 DEF KindOK, Where, SubLabels, UnlockLabels, WaitingLabels
  <2>3. ASSUME NEW m \in Mutexes, OnTheWay(t, m) PROVE OnTheWay(t, m)'
    BY <1>2, <1>3, <2>1, <2>3 DEF OnTheWay
  <2> QED
    BY <1>2, <1>5, <2>1, <2>2, <2>3, QuietMove DEF Special, QueueLabels
<1>8. CASE LockSet(t)
  <2>1. Moves(t, "start") /\ is_acquired' = [is_acquired EXCEPT ![CurOp(t).m] = TRUE]
    BY <1>8 DEF LockSet, Moves
  <2>2. Elsewhere(t) /\ pc'[t] \in {"start", "is_lowest", "put"} /\ Where(t)' = "start"
    BY <1>2, <2>1, WhereMoves DEF IndInv, Elsewhere, SubLabels
  <2>3. KindOK(t)'
    BY <2>2 DEF KindOK, UnlockLabels, WaitingLabels
  <2>4. \A m \in Mutexes : /\ is_acquired[m] => is_acquired'[m]
                           /\ OnTheWay(t, m) => is_acquired'[m]
    BY <1>1, <1>3, <2>1 DEF OnTheWay
  <2> QED
    BY <1>2, <1>5, <2>2, <2>3, <2>4, QuietMove DEF Special, QueueLabels
<1>9. CASE LockFailed(t)
  <2>1. pc'[t] = "wl_enqueue" /\ Elsewhere(t) /\ UNCHANGED is_acquired /\ is_acquired[CurOp(t).m]
    BY <1>9, <1>1, <1>2, <1>4 DEF LockFailed, Goto, Elsewhere
  <2>2. KindOK(t)'
    BY <2>1 DEF KindOK, Where, SubLabels, UnlockLabels, WaitingLabels
  <2>3. \A m \in Mutexes : OnTheWay(t, m) => is_acquired'[m]
    BY <2>1 DEF OnTheWay
  <2> QED
    BY <1>2, <1>3, <1>5, <2>1, <2>2, <2>3, QuietMove DEF Special, QueueLabels
<1> QED
  BY <1>6, <1>7, <1>8, <1>9

(* wait_on_lock_and_release_token: t takes its place in the queue.         *)
LEMMA EnqueueStep ==
  ASSUME IndInv, SafeInv, WaitInv, NEW t \in Threads, WaitOnLockEnqueue(t)
  PROVE  WaitInv'
<1> DEFINE m == CurOp(t).m
<1>1. /\ pc \in [Threads -> Labels] /\ ret \in [Threads -> Labels]
      /\ lockq \in [Mutexes -> Seq(Threads)] /\ status \in [Threads -> Statuses]
      /\ TypeOK /\ FlowOK
  BY DEF IndInv, TypeOK, FlowType, SyncsType, EntriesType
<1>2. KindInv /\ LockQueueInv /\ CondQueueInv /\ SleepInv /\ JoinInv /\ HandInv
  BY DEF WaitInv
<1>3. /\ pc[t] = "wl_enqueue" /\ pc' = [pc EXCEPT ![t] = "wl_halt"]
      /\ lockq' = [lockq EXCEPT ![m] = Append(@, t)]
      /\ status' = [status EXCEPT ![t] = "WAITING_ON_LOCK"]
      /\ UNCHANGED <<ret, fn, ip, tid_parent, joinee, asleep, to_signal, is_acquired, condq>>
  BY DEF WaitOnLockEnqueue, Goto, locals
<1>4. m \in Mutexes /\ is_acquired[m]
  BY <1>1, <1>2, <1>3, InOpType DEF HandInv, OpLabels, Op
<1>5. /\ Elsewhere(t) /\ \A u \in Threads : CurOp(u)' = CurOp(u) /\ (AtEnd(u)' <=> AtEnd(u))
      /\ pc'[t] = "wl_halt" /\ status'[t] = "WAITING_ON_LOCK"
      /\ \A u \in Threads \ {t} : status'[u] = status[u] /\ pc'[u] = pc[u]
  BY <1>1, <1>3 DEF Elsewhere, CurOp, AtEnd
<1> HIDE DEF m
<1>6. KindInv'
  BY <1>2, <1>5, KindMove DEF KindOK, Where, SubLabels, UnlockLabels, WaitingLabels
<1>7. LockQueueInv'
  <2>1. /\ lockq[m] \in Seq(Threads) /\ lockq'[m] = Append(lockq[m], t)
        /\ \A k \in Mutexes \ {m} : lockq'[k] = lockq[k]
    BY <1>1, <1>3, <1>4
  <2>2. \A k \in Mutexes : \A i \in 1 .. Len(lockq[k]) : lockq[k][i] \in Threads \ {t}
    BY <1>1, <1>2, <1>3 DEF LockQueueInv, QueueLabels
  <2>3. /\ Len(lockq'[m]) = Len(lockq[m]) + 1 /\ Len(lockq[m]) \in Nat
        /\ lockq'[m][Len(lockq[m]) + 1] = t
        /\ \A i \in 1 .. Len(lockq[m]) : lockq'[m][i] = lockq[m][i]
    BY <2>1
  <2>4. ASSUME NEW k \in Mutexes, NEW i \in 1 .. Len(lockq'[k])
        PROVE  \/ k = m /\ i = Len(lockq[m]) + 1 /\ lockq'[k][i] = t
               \/ i \in 1 .. Len(lockq[k]) /\ lockq'[k][i] = lockq[k][i] /\ lockq[k][i] \in Threads \ {t}
    BY <2>1, <2>2, <2>3
  <2>5. ASSUME NEW k \in Mutexes, NEW i \in 1 .. Len(lockq'[k])
        PROVE  /\ pc'[lockq'[k][i]] \in QueueLabels
               /\ CurOp(lockq[k][i])'.m = k
               /\ status'[lockq'[k][i]] \in {"WAITING_ON_LOCK", "ON_DECK"}
    <3>1. CASE k = m /\ i = Len(lockq[m]) + 1 /\ lockq'[k][i] = t
      BY <1>5, <3>1 DEF m, QueueLabels, CurOp
    <3>2. CASE /\ i \in 1 .. Len(lockq[k]) /\ lockq'[k][i] = lockq[k][i]
               /\ lockq[k][i] \in Threads \ {t}
      BY <1>2, <1>3, <1>5, <3>2 DEF LockQueueInv, CurOp
    <3> QED
      BY <2>4, <3>1, <3>2
  <2>6. ASSUME NEW k \in Mutexes, NEW i \in 1 .. Len(lockq'[k]), NEW j \in 1 .. Len(lockq'[k]),
               lockq'[k][i] = lockq'[k][j]
        PROVE  i = j
    BY <1>2, <2>4, <2>6 DEF LockQueueInv
  <2>7. ASSUME NEW u \in Threads, pc'[u] \in QueueLabels
        PROVE  \/ u \in LockWaiters(CurOp(u).m)'
               \/ status'[u] = "READY" /\ pc'[u] \in {"wl_spin", "wl_asleep"}
    <3>1. CASE u = t
      <4>1. t \in {lockq'[m][i] : i \in DOMAIN lockq'[m]}
        BY <2>1, <2>3
      <4> QED
        BY <1>5, <3>1, <4>1 DEF LockWaiters, m
    <3>2. CASE u # t /\ u \in LockWaiters(CurOp(u).m)
      <4>0. CurOp(u).m \in Mutexes
        BY <1>1, <1>5, <2>7, <3>2, InOpType DEF QueueLabels, OpLabels, Op
      <4>1. LockWaiters(CurOp(u).m) \subseteq {lockq'[CurOp(u).m][i] : i \in DOMAIN lockq'[CurOp(u).m]}
        <5>1. CASE CurOp(u).m = m
          <6>1. DOMAIN lockq[m] \subseteq DOMAIN lockq'[m] /\ DOMAIN lockq[m] = 1 .. Len(lockq[m])
            BY <2>1
          <6> QED
            BY <2>3, <5>1, <6>1 DEF LockWaiters
        <5>2. CASE CurOp(u).m # m
          BY <2>1, <4>0, <5>2 DEF LockWaiters
        <5> QED
          BY <5>1, <5>2
      <4> QED
        BY <1>5, <3>2, <4>1 DEF LockWaiters
    <3> QED
      BY <1>2, <1>5, <2>7, <3>1, <3>2 DEF LockQueueInv
  <2> QED
    BY <2>5, <2>6, <2>7 DEF LockQueueInv
<1>8. CondQueueInv'
  BY <1>1, <1>2, <1>3, <1>5, CondQueueMove DEF InCondWait
<1>9. SleepInv'
  BY <1>2, <1>3, <1>5, SleepMove DEF SleepInv
<1>10. JoinInv'
  BY <1>1, <1>2, <1>3, <1>5, JoinMove
<1>11. HandInv'
  <2>1. ASSUME NEW k \in Mutexes, LockWaiters(k)' # {}, ~is_acquired[k]
        PROVE  \E u \in Threads : OnTheWay(u, k)'
    <3>1. k # m /\ LockWaiters(k) # {}
      BY <1>1, <1>3, <1>4, <2>1 DEF LockWaiters
    <3>2. PICK u \in Threads : OnTheWay(u, k)
      BY <1>2, <2>1, <3>1 DEF HandInv, LockHandOff
    <3>3. u # t
      BY <1>3, <3>2 DEF OnTheWay
    <3> QED
      BY <1>3, <1>5, <3>2, <3>3 DEF OnTheWay
  <2> QED
    BY <1>2, <1>3, <1>5, <2>1 DEF HandInv, LockHandOff
<1> QED
  BY <1>6, <1>7, <1>8, <1>9, <1>10, <1>11 DEF WaitInv

(* wait_on_lock: leaving the race, releasing the token, spinning, falling  *)
(* asleep and coming back.                                                 *)
LEMMA QueueSteps ==
  ASSUME IndInv, SafeInv, WaitInv, NEW t \in Threads,
         \/ WaitOnLockHalt(t) \/ WaitOnLockPut(t) \/ WaitOnLockSleep(t) \/ WaitOnLockAwake(t)
         \/ WaitOnLockReturn(t)
  PROVE  WaitInv'
<1> USE DEF flow, locals, entries, syncs
<1>1. /\ pc \in [Threads -> Labels] /\ ret \in [Threads -> Labels]
      /\ asleep \in [Threads -> BOOLEAN] /\ TypeOK
  BY DEF IndInv, TypeOK, FlowType, EntriesType
<1>2. KindInv /\ LockQueueInv /\ CondQueueInv /\ SleepInv /\ JoinInv /\ HandInv
  BY DEF WaitInv
<1>3. /\ UNCHANGED <<ret, fn, ip, status, tid_parent, joinee, to_signal, is_acquired, lockq, condq>>
      /\ \A u \in Threads \ {t} : pc'[u] = pc[u] /\ asleep'[u] = asleep[u]
      /\ pc[t] \in QueueLabels
  BY <1>1 DEF WaitOnLockHalt, WaitOnLockPut, WaitOnLockSleep, WaitOnLockAwake, WaitOnLockReturn,
     Goto, QueueLabels
<1>4. Elsewhere(t) /\ \A u \in Threads : CurOp(u)' = CurOp(u) /\ (AtEnd(u)' <=> AtEnd(u))
  BY <1>3 DEF Elsewhere, CurOp, AtEnd
<1>5. \/ /\ pc'[t] \in QueueLabels
         /\ pc'[t] \in {"wl_spin", "wl_asleep"} \/ (pc[t] = "wl_halt" /\ pc'[t] = "wl_put")
      \/ pc'[t] = "lock_try" /\ status[t] = "READY"
  BY <1>1 DEF WaitOnLockHalt, WaitOnLockPut, WaitOnLockSleep, WaitOnLockAwake, WaitOnLockReturn,
     Goto, QueueLabels
<1>6. asleep'[t] => pc'[t] = "wl_asleep" /\ status[t] # "READY"
  <2>1. asleep[t] => pc[t] \notin {"wl_halt", "wl_put", "wl_spin"}
    BY <1>2 DEF SleepInv
  <2> QED
    BY <1>1, <2>1 DEF WaitOnLockHalt, WaitOnLockPut, WaitOnLockSleep, WaitOnLockAwake,
       WaitOnLockReturn, Goto, MaySleep
<1>7. KindInv'
  BY <1>2, <1>4, <1>5, KindMove DEF KindOK, Where, SubLabels, UnlockLabels, WaitingLabels, QueueLabels
<1>8. LockQueueInv'
  <2>1. CASE pc'[t] = "lock_try" /\ status[t] = "READY"
    BY <1>1, <1>2, <1>3, <1>4, <2>1, LockQueueMove DEF QueueLabels
  <2>2. CASE /\ pc'[t] \in QueueLabels
             /\ pc'[t] \in {"wl_spin", "wl_asleep"} \/ (pc[t] = "wl_halt" /\ pc'[t] = "wl_put")
    <3>1. status[t] = "READY" => pc[t] \in {"wl_spin", "wl_asleep"}
      <4>1. CurOp(t).m \in Mutexes
        BY <1>3, InOpType DEF IndInv, QueueLabels, OpLabels, Op
      <4>2. lockq[CurOp(t).m] \in Seq(Threads)
        BY <1>1, <4>1 DEF TypeOK, SyncsType
      <4>3. t \in LockWaiters(CurOp(t).m) => status[t] \in {"WAITING_ON_LOCK", "ON_DECK"}
        BY <1>2, <4>1, <4>2 DEF LockQueueInv, LockWaiters
      <4> QED
        BY <1>2, <1>3, <4>3 DEF LockQueueInv
    <3> QED
      BY <1>1, <1>2, <1>3, <1>4, <2>2, <3>1, LockQueueStay
  <2> QED
    BY <1>5, <2>1, <2>2
<1>9. CondQueueInv'
  BY <1>1, <1>2, <1>3, <1>4, <1>5, CondQueueMove DEF InCondWait, QueueLabels
<1>10. SleepInv'
  BY <1>2, <1>3, <1>4, <1>6, SleepMove DEF QueueLabels
<1>11. JoinInv'
  <2>1. pc[t] # "join_asleep" /\ status[t] \notin {"JOINING", "OTHERS_NEED_TO_WAIT"}
    BY <1>2, <1>3 DEF JoinInv, QueueLabels
  <2> QED
    BY <1>1, <1>2, <1>3, <1>4, <1>5, <2>1, JoinMove DEF QueueLabels
<1>12. HandInv'
  <2>1. ASSUME NEW m \in Mutexes, OnTheWay(t, m) PROVE OnTheWay(t, m)'
    <3>1. pc[t] \in {"wl_spin", "wl_asleep"} /\ status[t] = "READY" /\ ~AtEnd(t) /\ CurOp(t).m = m
      BY <1>3, <2>1 DEF OnTheWay, QueueLabels
    <3> QED
      BY <1>3, <1>4, <1>5, <3>1 DEF OnTheWay
  <2>2. pc'[t] # "wl_enqueue"
    BY <1>5 DEF QueueLabels
  <2>3. \A u \in Threads \ {t} : pc[u] = "wl_enqueue" => is_acquired'[CurOp(u).m]
    BY <1>2, <1>3 DEF HandInv
  <2> QED
    BY <1>2, <1>3, <1>4, <2>1, <2>2, <2>3, HandMove
<1> QED
  BY <1>7, <1>8, <1>9, <1>10, <1>11, <1>12 DEF WaitInv

-----------------------------------------------------------------------------
(***************************************************************************)
(* lock_release, called by mutex_unlock and by cond_wait.                  *)
(***************************************************************************)

(* What both callers do around it.                                         *)
Releases(t, m, st, newLow) ==
  /\ LockRelease(t, m, st, newLow)
  /\ pc[t] \in {"unlock_release", "cw_enqueue"}
  /\ m = CurOp(t).m
  /\ st \in [Threads -> Statuses]
  /\ \A u \in Threads \ {t} : st[u] = status[u]
  /\ st[t] \notin {"JOINING", "OTHERS_NEED_TO_WAIT"}
  /\ pc' = [pc EXCEPT ![t] = "signal_waiters"]
  /\ UNCHANGED <<ret, fn, ip, tid_parent, joinee, asleep>>

(* Who is released, and who is not.                                        *)
LEMMA ReleaseFacts ==
  ASSUME IndInv, SafeInv, WaitInv, NEW t \in Threads, NEW m, NEW st, NEW newLow,
         Releases(t, m, st, newLow)
  PROVE  /\ m \in Mutexes /\ lockq[m] \in Seq(Threads)
         /\ \A k \in Mutexes \ {m} : lockq'[k] = lockq[k] /\ is_acquired'[k] = is_acquired[k]
         /\ lockq[m] = <<>> =>
              lockq' = lockq /\ to_signal' = to_signal /\ \A u \in Threads : status'[u] = st[u]
         /\ lockq[m] # <<>> =>
              /\ lockq[m][1] \in Threads \ {t} /\ pc[lockq[m][1]] \in {"wl_spin", "wl_asleep"}
              /\ CurOp(lockq[m][1]).m = m
              /\ lockq'[m] = Tail(lockq[m])
              /\ lockq[m][1] \in to_signal'[t]
              /\ status'[lockq[m][1]] = "READY"
              /\ \A u \in Threads \ {lockq[m][1]} :
                   \/ status'[u] = st[u]
                   \/ 2 \in 1 .. Len(lockq[m]) /\ u = lockq[m][2] /\ status'[u] = "ON_DECK"
         /\ \A u \in Threads \ {t} : to_signal'[u] = to_signal[u]
<1>1. /\ lockq \in [Mutexes -> Seq(Threads)] /\ is_acquired \in [Mutexes -> BOOLEAN]
      /\ to_signal \in [Threads -> SUBSET Threads] /\ TypeOK /\ LockQueueInv /\ st \in [Threads -> Statuses]
  BY DEF IndInv, TypeOK, SyncsType, EntriesType, WaitInv, Releases
<1>2. m \in Mutexes
  BY InOpType DEF IndInv, Releases, OpLabels, Op
<1>3. lockq[m] \in Seq(Threads)
  BY <1>1, <1>2
<1>4. \A k \in Mutexes \ {m} : is_acquired'[k] = is_acquired[k]
  BY <1>1, <1>2 DEF Releases, LockRelease
<1>5. CASE lockq[m] = <<>>
  <2>1. status' = st /\ UNCHANGED <<lockq, to_signal>>
    BY <1>5 DEF Releases, LockRelease, HasWaiters
  <2> QED
    BY <1>2, <1>3, <1>4, <1>5, <2>1
<1>6. CASE lockq[m] # <<>>
  <2> DEFINE w    == Head(lockq[m])
             rest == Tail(lockq[m])
  <2>1. /\ lockq' = [lockq EXCEPT ![m] = rest]
        /\ IF rest = <<>>
           THEN /\ status' = [st EXCEPT ![w] = "READY"]
                /\ to_signal' = [to_signal EXCEPT ![t] = {w}]
           ELSE /\ status' = [st EXCEPT ![w] = "READY", ![Head(rest)] = "ON_DECK"]
                /\ to_signal' = [to_signal EXCEPT ![t] = {w, Head(rest)}]
    BY <1>6 DEF Releases, LockRelease, HasWaiters
  <2>2. /\ w = lockq[m][1] /\ w \in Threads /\ 1 \in 1 .. Len(lockq[m])
        /\ rest # <<>> => 2 \in 1 .. Len(lockq[m]) /\ Head(rest) = lockq[m][2] /\ Head(rest) \in Threads
    BY <1>3, <1>6
  <2>3. rest # <<>> => Head(rest) # w
    <3>1. \A i, j \in 1 .. Len(lockq[m]) : lockq[m][i] = lockq[m][j] => i = j
      BY <1>1, <1>2 DEF LockQueueInv
    <3> QED
      BY <2>2, <3>1
  <2>4. pc[w] \in QueueLabels /\ CurOp(w).m = m
    BY <1>1, <1>2, <2>2 DEF LockQueueInv
  <2> HIDE DEF w, rest
  <2>5. w # t /\ pc[w] \in {"wl_spin", "wl_asleep"}
    <3>1. pc[t] \in SyncLabels /\ pc[t] \notin QueueLabels
      BY DEF Releases, SyncLabels, TokenLabels, LoneLabels, QueueLabels
    <3>2. pc[w] \notin SyncLabels
      BY <2>2, <2>4, <3>1, Alone
    <3> QED
      BY <2>4, <3>1, <3>2 DEF QueueLabels, SyncLabels, TokenLabels
  <2>6. status'[w] = "READY" /\ w \in to_signal'[t] /\ \A u \in Threads \ {t} : to_signal'[u] = to_signal[u]
    BY <1>1, <2>1, <2>2, <2>3
  <2>7. ASSUME NEW u \in Threads, u # w
        PROVE  \/ status'[u] = st[u]
               \/ 2 \in 1 .. Len(lockq[m]) /\ u = lockq[m][2] /\ status'[u] = "ON_DECK"
    BY <1>1, <2>1, <2>2, <2>3, <2>7
  <2>8. lockq'[m] = rest /\ \A k \in Mutexes \ {m} : lockq'[k] = lockq[k]
    BY <1>1, <1>2, <2>1
  <2>9. lockq'[m] = Tail(lockq[m])
    BY <2>8 DEF rest
  <2>10. w = lockq[m][1]
    BY <2>2
  <2> QED
    BY <1>2, <1>3, <1>4, <1>6, <2>2, <2>4, <2>5, <2>6, <2>7, <2>8, <2>9, <2>10
<1> QED
  BY <1>5, <1>6

(* The status of the others: the first waiter is READY, the second at most *)
(* ON_DECK, nothing else changes.                                          *)
LEMMA ReleaseOthers ==
  ASSUME IndInv, SafeInv, WaitInv, NEW t \in Threads, NEW m, NEW st, NEW newLow,
         Releases(t, m, st, newLow), NEW u \in Threads, u # t
  PROVE  /\ pc'[u] = pc[u] /\ CurOp(u)' = CurOp(u) /\ (AtEnd(u)' <=> AtEnd(u))
         /\ \/ status'[u] = status[u]
            \/ /\ pc[u] \in QueueLabels /\ status'[u] \in {"READY", "ON_DECK"}
               /\ status[u] # "READY" /\ lockq[m] # <<>>
               /\ status'[u] = "READY" => u = lockq[m][1]
         /\ lockq[m] # <<>> /\ u = lockq[m][1] => status'[u] = "READY"
<1>1. pc \in [Threads -> Labels]
  BY DEF IndInv, TypeOK, FlowType
<1>2. pc'[u] = pc[u] /\ CurOp(u)' = CurOp(u) /\ (AtEnd(u)' <=> AtEnd(u)) /\ st[u] = status[u]
  BY <1>1 DEF Releases, CurOp, AtEnd
<1>3. m \in Mutexes /\ lockq[m] \in Seq(Threads)
  BY ReleaseFacts
<1>4. CASE lockq[m] = <<>>
  <2>1. status'[u] = st[u]
    BY <1>4, ReleaseFacts
  <2> QED
    BY <1>2, <1>4, <2>1
<1>5. CASE lockq[m] # <<>>
  <2>1. \A i \in 1 .. Len(lockq[m]) : /\ pc[lockq[m][i]] \in QueueLabels
                                      /\ status[lockq[m][i]] \in {"WAITING_ON_LOCK", "ON_DECK"}
    BY <1>3 DEF WaitInv, LockQueueInv
  <2>2. 1 \in 1 .. Len(lockq[m])
    BY <1>3, <1>5
  <2>3. CASE u = lockq[m][1]
    <3>1. status'[u] = "READY"
      BY <1>5, <2>3, ReleaseFacts
    <3> QED
      BY <1>2, <1>5, <2>1, <2>2, <2>3, <3>1
  <2>4. CASE u # lockq[m][1]
    <3>1. \/ status'[u] = st[u]
          \/ 2 \in 1 .. Len(lockq[m]) /\ u = lockq[m][2] /\ status'[u] = "ON_DECK"
      BY <1>5, <2>4, ReleaseFacts
    <3> QED
      BY <1>2, <1>5, <2>1, <2>4, <3>1
  <2> QED
    BY <2>3, <2>4
<1> QED
  BY <1>4, <1>5

(* The queues after lock_release.                                          *)
LEMMA ReleaseQueues ==
  ASSUME IndInv, SafeInv, WaitInv, NEW t \in Threads, NEW m, NEW st, NEW newLow,
         Releases(t, m, st, newLow)
  PROVE  LockQueueInv'
<1>1. /\ pc \in [Threads -> Labels] /\ lockq \in [Mutexes -> Seq(Threads)] /\ TypeOK /\ LockQueueInv
  BY DEF IndInv, TypeOK, FlowType, SyncsType, WaitInv
<1>2. /\ m \in Mutexes /\ lockq[m] \in Seq(Threads)
      /\ \A k \in Mutexes \ {m} : lockq'[k] = lockq[k]
  BY ReleaseFacts
<1>3. pc'[t] = "signal_waiters" /\ pc[t] \notin QueueLabels
  BY <1>1 DEF Releases, QueueLabels
<1>4. \A k \in Mutexes : \A i \in 1 .. Len(lockq[k]) :
        /\ lockq[k][i] \in Threads \ {t} /\ pc[lockq[k][i]] \in QueueLabels
        /\ CurOp(lockq[k][i]).m = k /\ status[lockq[k][i]] \in {"WAITING_ON_LOCK", "ON_DECK"}
  BY <1>1, <1>3 DEF LockQueueInv
<1>a. \A k \in Mutexes : \A i, j \in 1 .. Len(lockq[k]) : lockq[k][i] = lockq[k][j] => i = j
  BY <1>1 DEF LockQueueInv
<1>5. ASSUME NEW k \in Mutexes, NEW i \in 1 .. Len(lockq'[k])
      PROVE  /\ \E j \in 1 .. Len(lockq[k]) :
                  /\ lockq'[k][i] = lockq[k][j] /\ j = (IF lockq'[k] = lockq[k] THEN i ELSE i + 1)
                  /\ k = m => j > 1
             /\ k = m => lockq[m] # <<>>
  <2>1. CASE k # m
    BY <1>2, <2>1
  <2>2. CASE k = m /\ lockq[m] = <<>>
    <3>1. lockq' = lockq
      BY <2>2, ReleaseFacts
    <3> QED
      BY <2>2, <3>1
  <2>3. CASE k = m /\ lockq[m] # <<>>
    <3>1. lockq'[m] = Tail(lockq[m])
      BY <2>3, ReleaseFacts
    <3>a. Len(lockq[m]) \in Nat \ {0} /\ Len(Tail(lockq[m])) = Len(lockq[m]) - 1
      BY <1>2, <2>3
    <3>2. Len(lockq[m]) \in Nat \ {0} /\ Len(lockq'[m]) = Len(lockq[m]) - 1 /\ lockq'[m] # lockq[m]
      <4>1. Len(lockq'[m]) = Len(lockq[m]) - 1
        BY <3>1, <3>a
      <4>2. Len(lockq[m]) - 1 # Len(lockq[m])
        BY <3>a
      <4>3. lockq'[m] # lockq[m]
        BY <4>1, <4>2
      <4> QED
        BY <3>a, <4>1, <4>3
    <3>3. lockq'[m][i] = lockq[m][i + 1] /\ i + 1 \in 1 .. Len(lockq[m]) /\ i + 1 > 1
      BY <1>2, <2>3, <3>1, <3>2
    <3> QED
      BY <2>3, <3>2, <3>3
  <2> QED
    BY <2>1, <2>2, <2>3
<1>6. ASSUME NEW k \in Mutexes, NEW i \in 1 .. Len(lockq'[k])
      PROVE  /\ lockq'[k][i] \in Threads \ {t}
             /\ pc'[lockq'[k][i]] \in QueueLabels
             /\ CurOp(lockq[k][i])'.m = k
             /\ status'[lockq'[k][i]] \in {"WAITING_ON_LOCK", "ON_DECK"}
  <2>1. PICK j \in 1 .. Len(lockq[k]) : lockq'[k][i] = lockq[k][j] /\ (k = m => j > 1)
    BY <1>5
  <2>a. /\ lockq[k][j] \in Threads \ {t} /\ pc[lockq[k][j]] \in QueueLabels
        /\ CurOp(lockq[k][j]).m = k /\ status[lockq[k][j]] \in {"WAITING_ON_LOCK", "ON_DECK"}
    BY <1>4
  <2>2. PICK x \in Threads \ {t} : x = lockq[k][j] /\ x = lockq'[k][i]
    BY <2>1, <2>a
  <2>3. pc[x] \in QueueLabels /\ CurOp(x).m = k /\ status[x] \in {"WAITING_ON_LOCK", "ON_DECK"}
    BY <2>2, <2>a DEF CurOp
  <2>4. lockq[m] # <<>> => x # lockq[m][1]
    <3> SUFFICES ASSUME lockq[m] # <<>>, x = lockq[m][1] PROVE FALSE
      OBVIOUS
    <3>1. 1 \in 1 .. Len(lockq[m])
      BY <1>2
    <3>2. k = m
      BY <1>2, <1>4, <2>3, <3>1
    <3> QED
      <4>1. lockq[m][j] = lockq[m][1] /\ j \in 1 .. Len(lockq[m]) /\ j > 1
        BY <2>1, <2>2, <3>2
      <4> QED
        BY <1>a, <1>2, <3>1, <4>1
  <2>5. /\ pc'[x] = pc[x] /\ CurOp(x)' = CurOp(x)
        /\ \/ status'[x] = status[x]
           \/ status'[x] \in {"READY", "ON_DECK"} /\ (status'[x] = "READY" => x = lockq[m][1])
              /\ lockq[m] # <<>>
    BY ReleaseOthers
  <2>6. CurOp(lockq[k][i])' = CurOp(x)
    BY <2>2 DEF Releases, CurOp
  <2> QED
    BY <2>2, <2>3, <2>4, <2>5, <2>6
<1>7. ASSUME NEW k \in Mutexes, NEW i \in 1 .. Len(lockq'[k]), NEW j \in 1 .. Len(lockq'[k]),
             lockq'[k][i] = lockq'[k][j]
      PROVE  i = j
  <2>1. PICK a \in 1 .. Len(lockq[k]) :
          lockq'[k][i] = lockq[k][a] /\ a = (IF lockq'[k] = lockq[k] THEN i ELSE i + 1)
    BY <1>5
  <2>2. PICK b \in 1 .. Len(lockq[k]) :
          lockq'[k][j] = lockq[k][b] /\ b = (IF lockq'[k] = lockq[k] THEN j ELSE j + 1)
    BY <1>5
  <2>3. a = b
    <3>1. lockq[k][a] = lockq[k][b]
      BY <1>7, <2>1, <2>2
    <3> QED
      BY <3>1, <1>a
  <2> QED
    BY <2>1, <2>2, <2>3
<1>8. ASSUME NEW u \in Threads, pc'[u] \in QueueLabels
      PROVE  \/ u \in LockWaiters(CurOp(u).m)'
             \/ status'[u] = "READY" /\ pc'[u] \in {"wl_spin", "wl_asleep"}
  <2>1. u # t
    BY <1>3, <1>8 DEF QueueLabels
  <2>2. pc'[u] = pc[u] /\ CurOp(u)' = CurOp(u)
    BY <2>1, ReleaseOthers
  <2>3. CASE status[u] = "READY" /\ pc[u] \in {"wl_spin", "wl_asleep"}
    <3>1. status'[u] = "READY"
      BY <2>1, <2>3, ReleaseOthers
    <3> QED
      BY <2>2, <2>3, <3>1
  <2>4. CASE u \in LockWaiters(CurOp(u).m)
    <3>1. CurOp(u).m \in Mutexes
      BY <1>8, <2>2, InOpType DEF IndInv, QueueLabels, OpLabels, Op
    <3>2. CASE CurOp(u).m # m \/ lockq[m] = <<>>
      <4>1. lockq'[CurOp(u).m] = lockq[CurOp(u).m]
        BY <1>2, <3>1, <3>2, ReleaseFacts
      <4> QED
        BY <2>2, <2>4, <4>1 DEF LockWaiters
    <3>3. CASE CurOp(u).m = m /\ lockq[m] # <<>>
      <4>1. PICK i \in 1 .. Len(lockq[m]) : u = lockq[m][i]
        BY <1>2, <2>4, <3>3 DEF LockWaiters
      <4>2. CASE i = 1
        <5>1. status'[u] = "READY" /\ pc[u] \in {"wl_spin", "wl_asleep"}
          BY <3>3, <4>1, <4>2, ReleaseFacts
        <5> QED
          BY <2>2, <5>1
      <4>3. CASE i # 1
        <5>1. lockq'[m] = Tail(lockq[m])
          BY <3>3, ReleaseFacts
        <5>2. Tail(lockq[m]) \in Seq(Threads) /\ i - 1 \in 1 .. Len(Tail(lockq[m])) /\ Tail(lockq[m])[i - 1] = u
          BY <1>2, <3>3, <4>1, <4>3
        <5>3. i - 1 \in DOMAIN lockq'[m] /\ lockq'[m][i - 1] = u
          BY <5>1, <5>2
        <5> QED
          BY <2>2, <3>3, <5>3 DEF LockWaiters
      <4> QED
        BY <4>2, <4>3
    <3> QED
      BY <3>2, <3>3
  <2> QED
    BY <1>1, <1>8, <2>2, <2>3, <2>4 DEF LockQueueInv
<1> QED
  BY <1>6, <1>7, <1>8 DEF LockQueueInv

(* The released waiter, if it sleeps, is on the list of those to signal,   *)
(* and it is on its way to the mutex.                                      *)
LEMMA ReleaseRest ==
  ASSUME IndInv, SafeInv, WaitInv, NEW t \in Threads, NEW m, NEW st, NEW newLow,
         Releases(t, m, st, newLow)
  PROVE  SleepInv' /\ JoinInv' /\ HandInv' /\ Elsewhere(t) /\ status'[t] = st[t]
<1>1. /\ pc \in [Threads -> Labels] /\ is_acquired \in [Mutexes -> BOOLEAN] /\ TypeOK /\ FlowOK
      /\ LockQueueInv /\ SleepInv /\ JoinInv /\ HandInv
  BY DEF IndInv, TypeOK, FlowType, SyncsType, WaitInv
<1>2. m \in Mutexes /\ lockq[m] \in Seq(Threads)
  BY ReleaseFacts
<1>3. /\ pc'[t] = "signal_waiters" /\ pc[t] \in {"unlock_release", "cw_enqueue"}
      /\ UNCHANGED <<ret, fn, ip, tid_parent, joinee, asleep>>
      /\ \A u \in Threads \ {t} : pc'[u] = pc[u]
      /\ st[t] \notin {"JOINING", "OTHERS_NEED_TO_WAIT"}
  BY <1>1 DEF Releases
<1>4. Elsewhere(t)
  BY <1>3 DEF Elsewhere
<1>5. status'[t] = st[t]
  <2>1. \A i \in 1 .. Len(lockq[m]) : lockq[m][i] # t
    BY <1>1, <1>2, <1>3 DEF LockQueueInv, QueueLabels
  <2>2. CASE lockq[m] = <<>>
    BY <2>2, ReleaseFacts
  <2>3. CASE lockq[m] # <<>>
    <3>1. 1 \in 1 .. Len(lockq[m])
      BY <1>2, <2>3
    <3>2. t # lockq[m][1]
      BY <2>1, <3>1
    <3>3. \/ status'[t] = st[t]
          \/ 2 \in 1 .. Len(lockq[m]) /\ t = lockq[m][2] /\ status'[t] = "ON_DECK"
      BY <2>3, <3>2, ReleaseFacts
    <3> QED
      BY <2>1, <3>3
  <2> QED
    BY <2>2, <2>3
<1>6. SleepInv'
  <2> SUFFICES ASSUME NEW u \in Threads, asleep[u]
               PROVE  /\ pc'[u] \in {"wl_asleep", "cw_asleep", "join_asleep"}
                      /\ status'[u] = "READY" =>
                           pc'[u] = "wl_asleep"
                           /\ \E v \in Threads : pc'[v] = "signal_waiters" /\ u \in to_signal'[v]
    BY <1>3 DEF SleepInv
  <2>1. pc[u] \in {"wl_asleep", "cw_asleep", "join_asleep"} /\ u # t
    BY <1>1, <1>3 DEF SleepInv
  <2>2. pc'[u] = pc[u]
    BY <1>3, <2>1
  <2>3. CASE status'[u] = "READY" /\ status'[u] = status[u]
    <3>1. pc[u] = "wl_asleep"
      BY <1>1, <2>3 DEF SleepInv
    <3>2. PICK v \in Threads : pc[v] = "signal_waiters" /\ u \in to_signal[v]
      BY <1>1, <2>3 DEF SleepInv
    <3>3. v # t
      BY <1>3, <3>2
    <3>4. to_signal'[v] = to_signal[v]
      BY <3>3, ReleaseFacts
    <3> QED
      BY <1>3, <2>2, <3>1, <3>2, <3>3, <3>4
  <2>4. CASE status'[u] = "READY" /\ status'[u] # status[u]
    <3>1. pc[u] \in QueueLabels /\ lockq[m] # <<>> /\ u = lockq[m][1]
      BY <2>1, <2>4, ReleaseOthers
    <3>2. u \in to_signal'[t]
      BY <3>1, ReleaseFacts
    <3>3. pc[u] = "wl_asleep"
      BY <2>1, <3>1 DEF QueueLabels
    <3> QED
      BY <1>3, <2>2, <3>2, <3>3
  <2> QED
    BY <2>1, <2>2, <2>3, <2>4
<1>7. JoinInv'
  <2>1. \A u \in Threads \ {t} :
          \/ status'[u] = status[u]
          \/ pc[u] \in QueueLabels \cup {"cw_asleep"} /\ status'[u] \in {"READY", "ON_DECK"}
    BY ReleaseOthers
  <2> QED
    BY <1>1, <1>3, <1>4, <1>5, <2>1, JoinMove
<1>8. HandInv'
  <2>1. ASSUME NEW k \in Mutexes, LockWaiters(k)' # {}, ~is_acquired'[k]
        PROVE  \E u \in Threads : OnTheWay(u, k)'
    <3>1. CASE k = m /\ lockq[m] # <<>>
      <4>1. PICK w \in Threads \ {t} : /\ w = lockq[m][1] /\ pc[w] \in {"wl_spin", "wl_asleep"}
                                       /\ status'[w] = "READY"
        BY <3>1, ReleaseFacts
      <4>2. CurOp(w).m = m
        BY <3>1, <4>1, ReleaseFacts DEF CurOp
      <4>3. ~AtEnd(w)
        <5>1. ip[w] <= Len(Code[fn[w]]) /\ fn[w] \in FnNames /\ ip[w] \in Nat
          BY <1>1, <4>1, InOpType DEF OpLabels, TypeOK, LocalsType
        <5>2. Len(Code[fn[w]]) \in Nat
          BY <5>1, CodeAssumption
        <5> QED
          BY <5>1, <5>2 DEF AtEnd
      <4>4. pc'[w] = pc[w] /\ CurOp(w)' = CurOp(w) /\ (AtEnd(w)' <=> AtEnd(w))
        BY ReleaseOthers
      <4>5. OnTheWay(w, m)'
        BY <4>1, <4>2, <4>3, <4>4 DEF OnTheWay
      <4> QED
        BY <3>1, <4>5
    <3>2. CASE k # m \/ lockq[m] = <<>>
      <4>1. lockq'[k] = lockq[k] /\ (k # m => is_acquired'[k] = is_acquired[k])
        BY <3>2, ReleaseFacts
      <4>2. k # m
        BY <2>1, <3>2, <4>1 DEF LockWaiters
      <4>3. LockWaiters(k) # {}
        BY <2>1, <4>1 DEF LockWaiters
      <4>4. PICK u \in Threads : OnTheWay(u, k)
        BY <1>1, <2>1, <4>1, <4>2, <4>3 DEF HandInv, LockHandOff
      <4>5. u # t
        BY <1>3, <4>4 DEF OnTheWay
      <4>6. /\ pc'[u] = pc[u] /\ CurOp(u)' = CurOp(u) /\ (AtEnd(u)' <=> AtEnd(u))
            /\ status[u] = "READY" => status'[u] = "READY"
        BY <4>5, ReleaseOthers
      <4> QED
        BY <1>3, <4>4, <4>6 DEF OnTheWay
    <3> QED
      BY <3>1, <3>2
  <2>2. \A u \in Threads : pc'[u] # "wl_enqueue"
    <3>1. pc[t] \in SyncLabels
      BY <1>3 DEF SyncLabels, TokenLabels, LoneLabels
    <3>2. \A u \in Threads \ {t} : pc[u] # "wl_enqueue"
      BY <3>1, Alone DEF SyncLabels, TokenLabels
    <3> QED
      BY <1>3, <3>2
  <2> QED
    BY <2>1, <2>2 DEF HandInv, LockHandOff
<1> QED
  BY <1>4, <1>5, <1>6, <1>7, <1>8

(* mutex_unlock releases the mutex.                                        *)
LEMMA UnlockReleaseStep ==
  ASSUME IndInv, SafeInv, WaitInv, NEW t \in Threads, NEW newLow \in BOOLEAN, UnlockRelease(t, newLow)
  PROVE  WaitInv'
<1>1. /\ pc \in [Threads -> Labels] /\ status \in [Threads -> Statuses] /\ TypeOK
      /\ KindInv /\ CondQueueInv /\ JoinInv
  BY DEF IndInv, TypeOK, FlowType, EntriesType, WaitInv
<1>2. Releases(t, CurOp(t).m, status, newLow)
  BY <1>1 DEF UnlockRelease, Releases, Goto, JoinInv
<1>3. LockQueueInv' /\ SleepInv' /\ JoinInv' /\ HandInv' /\ Elsewhere(t)
  BY <1>2, ReleaseQueues, ReleaseRest
<1>4. pc[t] = "unlock_release" /\ pc'[t] = "signal_waiters" /\ UNCHANGED <<fn, ip, condq>>
  BY <1>1 DEF UnlockRelease, Goto
<1>5. CurOp(t).kind = "unlock" /\ CurOp(t)' = CurOp(t)
  BY <1>1, <1>4 DEF KindInv, KindOK, Where, SubLabels, UnlockLabels, CurOp
<1>6. KindInv'
  BY <1>1, <1>3, <1>4, KindMove DEF KindOK, Where, SubLabels, UnlockLabels, WaitingLabels
<1>7. CondQueueInv'
  <2>1. \A u \in Threads \ {t} : InCondWait(u) => status'[u] = status[u]
    BY <1>2, ReleaseOthers DEF InCondWait, QueueLabels
  <2> QED
    BY <1>1, <1>3, <1>4, <1>5, <2>1, CondQueueMove DEF InCondWait
<1> QED
  BY <1>3, <1>6, <1>7 DEF WaitInv

(* t stays where it is in the queue of a condition variable.               *)
LEMMA CondQueueStay ==
  ASSUME TypeOK, CondQueueInv, NEW t \in Threads, Elsewhere(t), UNCHANGED <<condq, status>>,
         InCondWait(t), InCondWait(t)', CurOp(t)' = CurOp(t),
         status[t] = "READY" => pc'[t] = "cw_asleep"
  PROVE  CondQueueInv'
<1>1. ASSUME NEW u \in Threads, InCondWait(u) \/ InCondWait(u)'
      PROVE  /\ CurOp(u)' = CurOp(u) /\ InCondWait(u) /\ InCondWait(u)'
             /\ u # t => pc'[u] = pc[u]
  <2>1. CASE u = t
    BY <2>1
  <2>2. CASE u # t
    BY <1>1, <2>2, ElsewhereOp DEF InCondWait, OutLabels, PoolLabels
  <2> QED
    BY <2>1, <2>2
<1>2. \A c \in Conds : \A i \in 1 .. Len(condq[c]) : condq[c][i] \in Threads
  BY DEF TypeOK, SyncsType
<1>3. ASSUME NEW c \in Conds, NEW i \in 1 .. Len(condq[c])
      PROVE  /\ InCondWait(condq[c][i])'
             /\ CurOp(condq[c][i])'.c = c
             /\ status'[condq[c][i]] = "COND_WAITING"
  <2>1. condq[c][i] \in Threads /\ InCondWait(condq[c][i])
    BY <1>2 DEF CondQueueInv
  <2>2. InCondWait(condq[c][i])'
    BY <1>1, <2>1 DEF InCondWait
  <2> QED
    BY <1>1, <2>1, <2>2 DEF CondQueueInv
<1>4. ASSUME NEW u \in Threads, InCondWait(u)'
      PROVE  \/ u \in CondWaiters(CurOp(u).c)'
             \/ status'[u] = "READY" /\ pc'[u] = "cw_asleep"
  BY <1>1, <1>4 DEF CondQueueInv, CondWaiters
<1> QED
  BY <1>3, <1>4 DEF CondQueueInv

(* pthread_cond_signal on the chosen threads, after the release: the       *)
(* sleepers that were READY and had to be signalled by t are awake.        *)
LEMMA SignalStep ==
  ASSUME IndInv, SafeInv, WaitInv, NEW t \in Threads, SignalWaiters(t)
  PROVE  WaitInv'
<1> USE DEF locals, syncs
<1>1. /\ pc \in [Threads -> Labels] /\ ret \in [Threads -> Labels] /\ TypeOK
      /\ asleep \in [Threads -> BOOLEAN] /\ to_signal \in [Threads -> SUBSET Threads]
      /\ KindInv /\ LockQueueInv /\ CondQueueInv /\ SleepInv /\ JoinInv /\ HandInv
  BY DEF IndInv, TypeOK, FlowType, EntriesType, WaitInv
<1>2. /\ pc[t] = "signal_waiters"
      /\ \A u \in Threads : asleep'[u] <=> asleep[u] /\ ~(u \in to_signal[t] /\ pc[u] = "wl_asleep")
      /\ \A u \in Threads \ {t} : to_signal'[u] = to_signal[u]
      /\ UNCHANGED <<fn, ip, status, tid_parent, joinee, is_acquired, lockq, condq>>
  BY <1>1 DEF SignalWaiters
<1>3. \A u \in Threads \ {t} : pc'[u] = pc[u] /\ ret'[u] = ret[u]
  BY <1>1 DEF SignalWaiters, Goto, Call
<1>4. \/ pc'[t] = "cw_halt" /\ CurOp(t).kind = "wait"
      \/ pc'[t] = "start" /\ CurOp(t).kind # "wait"
      \/ pc'[t] = "put" /\ ret'[t] = "start" /\ CurOp(t).kind # "wait"
  BY <1>1 DEF SignalWaiters, Goto, Call
<1>5. Elsewhere(t) /\ CurOp(t)' = CurOp(t)
  BY <1>2, <1>3 DEF Elsewhere, CurOp
<1>6. KindInv'
  BY <1>1, <1>4, <1>5, KindMove DEF KindOK, Where, SubLabels, UnlockLabels, WaitingLabels
<1>7. LockQueueInv'
  BY <1>1, <1>2, <1>4, <1>5, LockQueueMove DEF QueueLabels
<1>8. CondQueueInv'
  <2>1. CASE CurOp(t).kind = "wait"
    <3>1. status[t] # "READY"
      <4>1. CurOp(t).c \in Conds
        BY <1>2, InOpType DEF IndInv, OpLabels, Op
      <4>2. condq[CurOp(t).c] \in Seq(Threads)
        BY <1>1, <4>1 DEF TypeOK, SyncsType
      <4>3. t \in CondWaiters(CurOp(t).c) => status[t] = "COND_WAITING"
        BY <1>1, <4>1, <4>2 DEF CondQueueInv, CondWaiters
      <4> QED
        BY <1>1, <1>2, <2>1, <4>3 DEF CondQueueInv, InCondWait
    <3>2. InCondWait(t) /\ InCondWait(t)'
      BY <1>2, <1>4, <2>1 DEF InCondWait
    <3> QED
      BY <1>1, <1>2, <1>5, <3>1, <3>2, CondQueueStay
  <2>2. CASE CurOp(t).kind # "wait"
    <3>1. ~InCondWait(t) /\ ~InCondWait(t)'
      BY <1>2, <1>4, <2>2 DEF InCondWait
    <3> QED
      BY <1>1, <1>2, <1>5, <3>1, CondQueueMove
  <2> QED
    BY <2>1, <2>2
<1>9. SleepInv'
  <2> SUFFICES ASSUME NEW u \in Threads, asleep'[u]
               PROVE  /\ pc'[u] \in {"wl_asleep", "cw_asleep", "join_asleep"}
                      /\ status'[u] = "READY" =>
                           pc'[u] = "wl_asleep"
                           /\ \E v \in Threads : pc'[v] = "signal_waiters" /\ u \in to_signal'[v]
    BY DEF SleepInv
  <2>1. asleep[u] /\ pc[u] \in {"wl_asleep", "cw_asleep", "join_asleep"} /\ u # t
    BY <1>1, <1>2 DEF SleepInv
  <2>2. ASSUME status[u] = "READY"
        PROVE  pc[u] = "wl_asleep" /\ \E v \in Threads : pc'[v] = "signal_waiters" /\ u \in to_signal'[v]
    <3>1. pc[u] = "wl_asleep"
      BY <1>1, <2>1, <2>2 DEF SleepInv
    <3>2. PICK v \in Threads : pc[v] = "signal_waiters" /\ u \in to_signal[v]
      BY <1>1, <2>1, <2>2 DEF SleepInv
    <3>3. v # t
      BY <1>2, <2>1, <3>1, <3>2
    <3> QED
      BY <1>2, <1>3, <3>1, <3>2, <3>3
  <2> QED
    BY <1>2, <1>3, <2>1, <2>2
<1>10. JoinInv'
  <2>1. status[t] \notin {"JOINING", "OTHERS_NEED_TO_WAIT"}
    BY <1>1, <1>2 DEF JoinInv
  <2> QED
    BY <1>1, <1>2, <1>4, <1>5, <2>1, JoinMove
<1>11. HandInv'
  <2>1. \A m \in Mutexes : ~OnTheWay(t, m)
    BY <1>2 DEF OnTheWay
  <2>2. \A u \in Threads \ {t} : pc[u] = "wl_enqueue" => is_acquired'[CurOp(u).m]
    BY <1>1, <1>2 DEF HandInv
  <2> QED
    BY <1>1, <1>2, <1>4, <1>5, <2>1, <2>2, HandMove
<1> QED
  BY <1>6, <1>7, <1>8, <1>9, <1>10, <1>11 DEF WaitInv

(* WaitInv, through every step of mutex_lock and mutex_unlock.             *)
LEMMA MutexStepWait ==
  ASSUME SingleThreadOpt = FALSE, IndInv, SafeInv, WaitInv, NEW t \in Threads, MutexStep(t)
  PROVE  WaitInv'
<1> USE DEF locals, entries, syncs, Quiet, Moves, SubLabels, Special, QueueLabels, WayLabels, WaitLabels,
        UnlockLabels, WaitingLabels
<1>1. CASE MutexLock(t)
  BY <1>1, PlainGo DEF MutexLock, Calls
<1>2. CASE MutexUnlock(t)
  BY <1>2, PlainGo DEF MutexUnlock, Calls
<1>3. CASE UnlockTry(t)
  <2>1. CurOp(t).kind = "unlock"
    BY <1>3 DEF UnlockTry, WaitInv, KindInv, KindOK, Where
  <2> QED
    BY <1>3, <2>1, PlainGo DEF UnlockTry
<1>4. CASE UnlockCommit(t)
  <2>1. CurOp(t).kind = "unlock"
    BY <1>4 DEF UnlockCommit, WaitInv, KindInv, KindOK, Where
  <2> QED
    BY <1>4, <2>1, PlainGo DEF UnlockCommit
<1> QED
  BY <1>1, <1>2, <1>3, <1>4, LockSteps, EnqueueStep, QueueSteps, UnlockReleaseStep, SignalStep
     DEF MutexStep

-----------------------------------------------------------------------------
(***************************************************************************)
(* cond_wait, cond_signal, cond_broadcast.                                 *)
(***************************************************************************)

(* cond_wait: t takes its place in the queue and releases the mutex.       *)
LEMMA CondEnqueueStep ==
  ASSUME IndInv, SafeInv, WaitInv, NEW t \in Threads, NEW newLow \in BOOLEAN,
         CondWaitEnqueue(t, newLow)
  PROVE  WaitInv'
<1> DEFINE st == [status EXCEPT ![t] = "COND_WAITING"]
           c  == CurOp(t).c
<1>1. /\ pc \in [Threads -> Labels] /\ status \in [Threads -> Statuses] /\ TypeOK /\ FlowOK
      /\ condq \in [Conds -> Seq(Threads)] /\ KindInv /\ CondQueueInv /\ JoinInv
  BY DEF IndInv, TypeOK, FlowType, EntriesType, SyncsType, WaitInv
<1>2. Releases(t, CurOp(t).m, st, newLow)
  BY <1>1, StatusFacts DEF CondWaitEnqueue, Releases, Goto
<1>3. LockQueueInv' /\ SleepInv' /\ JoinInv' /\ HandInv' /\ Elsewhere(t)
  BY <1>2, ReleaseQueues, ReleaseRest
<1>4. /\ pc[t] = "cw_enqueue" /\ pc'[t] = "signal_waiters" /\ UNCHANGED <<fn, ip>>
      /\ condq' = [condq EXCEPT ![c] = Append(@, t)]
      /\ \A u \in Threads \ {t} : pc'[u] = pc[u]
  BY <1>1 DEF CondWaitEnqueue, Goto
<1>5. CurOp(t).kind = "wait" /\ \A u \in Threads : CurOp(u)' = CurOp(u)
  BY <1>1, <1>4 DEF KindInv, KindOK, Where, SubLabels, WaitingLabels, CurOp
<1>6. c \in Conds
  BY <1>1, <1>4, InOpType DEF OpLabels, Op
<1>7. KindInv'
  BY <1>1, <1>3, <1>4, KindMove DEF KindOK, Where, SubLabels, UnlockLabels, WaitingLabels
<1>8. status'[t] = "COND_WAITING"
  <2> HIDE DEF st
  <2>4. status'[t] = st[t]
    BY <1>2, ReleaseRest
  <2> QED
    BY <1>1, <2>4 DEF st
<1>9. ASSUME NEW u \in Threads, u # t PROVE InCondWait(u) => status'[u] = status[u]
  BY <1>2, <1>9, ReleaseOthers DEF InCondWait, QueueLabels
<1> HIDE DEF c, st
<1>10. CondQueueInv'
  <2>1. /\ condq[c] \in Seq(Threads) /\ condq'[c] = Append(condq[c], t)
        /\ \A k \in Conds \ {c} : condq'[k] = condq[k]
    BY <1>1, <1>4, <1>6
  <2>2. \A k \in Conds : \A i \in 1 .. Len(condq[k]) : condq[k][i] \in Threads \ {t}
    BY <1>1, <1>4 DEF CondQueueInv, InCondWait
  <2>3. /\ Len(condq'[c]) = Len(condq[c]) + 1 /\ Len(condq[c]) \in Nat
        /\ condq'[c][Len(condq[c]) + 1] = t
        /\ \A i \in 1 .. Len(condq[c]) : condq'[c][i] = condq[c][i]
    BY <2>1
  <2>4. ASSUME NEW k \in Conds, NEW i \in 1 .. Len(condq'[k])
        PROVE  \/ k = c /\ i = Len(condq[c]) + 1 /\ condq'[k][i] = t
               \/ i \in 1 .. Len(condq[k]) /\ condq'[k][i] = condq[k][i] /\ condq[k][i] \in Threads \ {t}
    <3>1. CASE k # c
      <4>1. condq'[k] = condq[k]
        BY <2>1, <3>1
      <4> QED
        BY <2>2, <4>1
    <3>2. CASE k = c
      <4>1. i = Len(condq[c]) + 1 \/ i \in 1 .. Len(condq[c])
        BY <2>3, <3>2
      <4> QED
        BY <2>2, <2>3, <3>2, <4>1
    <3> QED
      BY <3>1, <3>2
  <2>5. ASSUME NEW k \in Conds, NEW i \in 1 .. Len(condq'[k])
        PROVE  /\ InCondWait(condq[k][i])'
               /\ CurOp(condq[k][i])'.c = k
               /\ status'[condq'[k][i]] = "COND_WAITING"
    <3>1. CASE k = c /\ i = Len(condq[c]) + 1 /\ condq'[k][i] = t
      BY <1>4, <1>5, <1>8, <3>1 DEF c, InCondWait, CurOp
    <3>2. CASE /\ i \in 1 .. Len(condq[k]) /\ condq'[k][i] = condq[k][i]
               /\ condq[k][i] \in Threads \ {t}
      <4>1. PICK x \in Threads \ {t} : x = condq[k][i] /\ x = condq'[k][i]
        BY <3>2
      <4>2. InCondWait(x) /\ CurOp(x).c = k /\ status[x] = "COND_WAITING"
        <5>1. /\ InCondWait(condq[k][i]) /\ CurOp(condq[k][i]).c = k
              /\ status[condq[k][i]] = "COND_WAITING"
          BY <1>1, <3>2 DEF CondQueueInv
        <5> QED
          BY <4>1, <5>1 DEF InCondWait, CurOp
      <4>3. status'[x] = "COND_WAITING" /\ pc'[x] = pc[x] /\ CurOp(x)' = CurOp(x)
        BY <1>4, <1>5, <1>9, <4>2
      <4> QED
        BY <1>4, <4>1, <4>2, <4>3 DEF InCondWait, CurOp
    <3> QED
      BY <2>4, <3>1, <3>2
  <2>6. ASSUME NEW k \in Conds, NEW i \in 1 .. Len(condq'[k]), NEW j \in 1 .. Len(condq'[k]),
               condq'[k][i] = condq'[k][j]
        PROVE  i = j
    <3>1. \A a, b \in 1 .. Len(condq[k]) : condq[k][a] = condq[k][b] => a = b
      BY <1>1 DEF CondQueueInv
    <3> QED
      BY <2>4, <2>6, <3>1
  <2>7. ASSUME NEW u \in Threads, InCondWait(u)'
        PROVE  \/ u \in CondWaiters(CurOp(u).c)'
               \/ status'[u] = "READY" /\ pc'[u] = "cw_asleep"
    <3>1. CASE u = t
      <4>1. t \in {condq'[c][i] : i \in DOMAIN condq'[c]}
        BY <2>1, <2>3
      <4> QED
        BY <1>5, <3>1, <4>1 DEF CondWaiters, c
    <3>2. CASE u # t
      <4>1. InCondWait(u) /\ pc'[u] = pc[u] /\ status'[u] = status[u] /\ CurOp(u)' = CurOp(u)
        BY <1>4, <1>5, <1>9, <2>7, <3>2 DEF InCondWait
      <4>2. CASE u \in CondWaiters(CurOp(u).c)
        <5>1. CurOp(u).c \in Conds
          BY <1>1, <4>1, InOpType DEF InCondWait, OpLabels, Op
        <5>2. CASE CurOp(u).c = c
          <6>1. PICK i \in 1 .. Len(condq[c]) : u = condq[c][i]
            BY <2>1, <4>2, <5>2 DEF CondWaiters
          <6>2. i \in DOMAIN condq'[c] /\ condq'[c][i] = u
            BY <2>1, <2>3, <6>1
          <6> QED
            BY <4>1, <5>2, <6>2 DEF CondWaiters
        <5>3. CASE CurOp(u).c # c
          BY <2>1, <4>1, <4>2, <5>1, <5>3 DEF CondWaiters
        <5> QED
          BY <5>2, <5>3
      <4> QED
        BY <1>1, <4>1, <4>2 DEF CondQueueInv
    <3> QED
      BY <3>1, <3>2
  <2> QED
    BY <2>5, <2>6, <2>7 DEF CondQueueInv
<1> QED
  BY <1>3, <1>7, <1>10 DEF WaitInv

(* cond_wait: falling asleep, sleeping on and coming back.                 *)
LEMMA CondSleepSteps ==
  ASSUME IndInv, SafeInv, WaitInv, NEW t \in Threads,
         CondWaitHalt(t) \/ CondWaitAwake(t) \/ CondWaitReturn(t)
  PROVE  WaitInv'
<1> USE DEF flow, locals, entries, syncs
<1>1. /\ pc \in [Threads -> Labels] /\ ret \in [Threads -> Labels] /\ TypeOK
      /\ asleep \in [Threads -> BOOLEAN]
      /\ KindInv /\ LockQueueInv /\ CondQueueInv /\ SleepInv /\ JoinInv /\ HandInv
  BY DEF IndInv, TypeOK, FlowType, EntriesType, WaitInv
<1>2. /\ pc[t] \in {"cw_halt", "cw_asleep"}
      /\ UNCHANGED <<ret, fn, ip, status, tid_parent, joinee, to_signal, is_acquired, lockq, condq>>
      /\ \A u \in Threads \ {t} : pc'[u] = pc[u] /\ asleep'[u] = asleep[u]
      /\ pc'[t] = "cw_asleep" \/ (pc'[t] = "cw_woken" /\ status[t] = "READY")
      /\ asleep'[t] => pc'[t] = "cw_asleep" /\ status[t] # "READY"
  BY <1>1 DEF CondWaitHalt, CondWaitAwake, CondWaitReturn, Goto
<1>3. Elsewhere(t) /\ CurOp(t)' = CurOp(t)
  BY <1>2 DEF Elsewhere, CurOp
<1>4. KindInv'
  <2>1. CurOp(t).kind = "wait"
    BY <1>1, <1>2 DEF KindInv, KindOK, Where, SubLabels, WaitingLabels
  <2> QED
    BY <1>1, <1>2, <1>3, <2>1, KindMove DEF KindOK, Where, SubLabels, UnlockLabels
<1>5. LockQueueInv'
  BY <1>1, <1>2, <1>3, LockQueueMove DEF QueueLabels
<1>6. CondQueueInv'
  <2>1. CASE pc'[t] = "cw_asleep"
    BY <1>1, <1>2, <1>3, <2>1, CondQueueStay DEF InCondWait
  <2>2. CASE pc'[t] = "cw_woken" /\ status[t] = "READY"
    BY <1>1, <1>2, <1>3, <2>2, CondQueueMove DEF InCondWait
  <2> QED
    BY <1>2, <2>1, <2>2
<1>7. SleepInv'
  BY <1>1, <1>2, <1>3, SleepMove
<1>8. JoinInv'
  <2>1. status[t] \notin {"JOINING", "OTHERS_NEED_TO_WAIT"}
    BY <1>1, <1>2 DEF JoinInv
  <2> QED
    BY <1>1, <1>2, <1>3, <2>1, JoinMove
<1>9. HandInv'
  <2>1. \A m \in Mutexes : ~OnTheWay(t, m)
    BY <1>2 DEF OnTheWay
  <2>2. \A u \in Threads \ {t} : pc[u] = "wl_enqueue" => is_acquired'[CurOp(u).m]
    BY <1>1, <1>2 DEF HandInv
  <2> QED
    BY <1>1, <1>2, <1>3, <2>1, <2>2, HandMove
<1> QED
  BY <1>4, <1>5, <1>6, <1>7, <1>8, <1>9 DEF WaitInv

(* cond_signal and cond_broadcast: the first n waiters are READY and awake. *)
LEMMA CondWakeStep ==
  ASSUME IndInv, SafeInv, WaitInv, NEW t \in Threads, NEW newLow \in BOOLEAN, CondWake(t, newLow)
  PROVE  WaitInv'
<1> DEFINE c == CurOp(t).c
           q == condq[c]
           n == IF CurOp(t).kind = "signal" THEN 1 ELSE Len(q)
           woken == {q[i] : i \in 1 .. n}
<1>1. /\ pc \in [Threads -> Labels] /\ ret \in [Threads -> Labels] /\ TypeOK /\ FlowOK
      /\ asleep \in [Threads -> BOOLEAN] /\ status \in [Threads -> Statuses]
      /\ condq \in [Conds -> Seq(Threads)]
      /\ KindInv /\ LockQueueInv /\ CondQueueInv /\ SleepInv /\ JoinInv /\ HandInv
  BY DEF IndInv, TypeOK, FlowType, EntriesType, SyncsType, WaitInv
<1>2. /\ pc[t] = "cond_wake" /\ pc'[t] = "put" /\ ret'[t] = "start"
      /\ \A u \in Threads \ {t} : pc'[u] = pc[u] /\ ret'[u] = ret[u]
      /\ UNCHANGED <<fn, ip, tid_parent, joinee, to_signal, is_acquired, lockq>>
  BY <1>1 DEF CondWake, Call, locals
<1>3. /\ Elsewhere(t) /\ \A u \in Threads : CurOp(u)' = CurOp(u)
  BY <1>2 DEF Elsewhere, CurOp
<1>4. c \in Conds /\ q \in Seq(Threads)
  BY <1>1, <1>2, InOpType DEF OpLabels, Op
<1>5. CASE q = <<>>
  <2>1. UNCHANGED <<condq, status, asleep>>
    BY <1>5 DEF CondWake
  <2>2. Moves(t, "start")
    BY DEF CondWake, Moves
  <2>3. Quiet /\ pc[t] \notin Special /\ pc[t] \notin WayLabels
    BY <1>2, <2>1 DEF Quiet, Special, QueueLabels, WayLabels, WaitLabels
  <2> QED
    BY <1>2, <2>2, <2>3, PlainGo DEF SubLabels, Special, QueueLabels, UnlockLabels, WaitingLabels
<1>6. CASE q # <<>>
  <2>1. /\ condq' = [condq EXCEPT ![c] = SubSeq(q, n + 1, Len(q))]
        /\ status' = [u \in Threads |-> IF u \in woken THEN "READY" ELSE status[u]]
        /\ asleep' = [u \in Threads |-> asleep[u] /\ u \notin RealcondBroadcast(c)]
    BY <1>6 DEF CondWake
  <2>2. n \in 1 .. Len(q) /\ Len(q) \in Nat
    BY <1>4, <1>6
  <2>3. /\ \A k \in Conds : \A i \in 1 .. Len(condq[k]) :
             /\ condq[k][i] \in Threads \ {t} /\ InCondWait(condq[k][i])
             /\ CurOp(condq[k][i]).c = k /\ status[condq[k][i]] = "COND_WAITING"
        /\ \A k \in Conds : \A i, j \in 1 .. Len(condq[k]) : condq[k][i] = condq[k][j] => i = j
    BY <1>1, <1>2 DEF CondQueueInv, InCondWait
  <2> HIDE DEF n, q, c
  <2>4. \A u \in woken : \E i \in 1 .. n : u = q[i]
    OBVIOUS
  <2>5. ASSUME NEW u \in Threads, u \in woken
        PROVE  /\ u # t /\ pc[u] = "cw_asleep" /\ CurOp(u).c = c /\ status[u] = "COND_WAITING"
               /\ status'[u] = "READY" /\ ~asleep'[u]
    <3>1. PICK i \in 1 .. n : u = q[i]
      BY <2>4, <2>5
    <3>2. i \in 1 .. Len(q)
      BY <2>2
    <3>3. /\ condq[c][i] \in Threads \ {t} /\ InCondWait(condq[c][i])
          /\ CurOp(condq[c][i]).c = c /\ status[condq[c][i]] = "COND_WAITING"
      BY <1>4, <2>3, <3>2 DEF q
    <3>4. u # t /\ InCondWait(u) /\ CurOp(u).c = c /\ status[u] = "COND_WAITING"
      BY <3>1, <3>3 DEF q, InCondWait, CurOp
    <3>5. pc[u] = "cw_asleep"
      <4>1. pc[t] \in SyncLabels
        BY <1>2 DEF SyncLabels, TokenLabels
      <4>2. pc[u] \notin SyncLabels
        BY <3>4, <4>1, Alone
      <4> QED
        BY <3>4, <4>2 DEF InCondWait, SyncLabels, TokenLabels, LoneLabels
    <3> QED
      BY <2>1, <2>5, <3>4, <3>5 DEF RealcondBroadcast
  <2>6. ASSUME NEW u \in Threads, u \notin woken
        PROVE  status'[u] = status[u] /\ (asleep'[u] => asleep[u])
    BY <2>1, <2>6
  <2>7. ASSUME NEW k \in Conds, NEW i \in 1 .. Len(condq'[k])
        PROVE  \E j \in 1 .. Len(condq[k]) :
                 /\ condq'[k][i] = condq[k][j] /\ j = IF k = c THEN i + n ELSE i
                 /\ condq[k][j] \notin woken
    <3>1. CASE k = c
      <4>1. condq'[c] = SubSeq(q, n + 1, Len(q))
        BY <1>1, <1>4, <2>1
      <4>2. /\ Len(SubSeq(q, n + 1, Len(q))) = Len(q) - n
            /\ \A a \in 1 .. Len(q) - n : SubSeq(q, n + 1, Len(q))[a] = q[a + n]
        BY <1>4, <2>2
      <4>3. i \in 1 .. Len(q) - n
        BY <3>1, <4>1, <4>2
      <4>4. i + n \in 1 .. Len(q) /\ condq'[k][i] = q[i + n] /\ i + n > n
        BY <2>2, <3>1, <4>1, <4>2, <4>3
      <4>5. q[i + n] \notin woken
        <5> SUFFICES ASSUME q[i + n] \in woken PROVE FALSE
          OBVIOUS
        <5>1. PICK j \in 1 .. n : q[i + n] = q[j]
          BY <2>4
        <5>2. j \in 1 .. Len(q) /\ j # i + n
          BY <2>2, <4>4, <5>1
        <5> QED
          BY <1>4, <2>3, <4>4, <5>1, <5>2 DEF q
      <4> QED
        BY <3>1, <4>4, <4>5 DEF q
    <3>2. CASE k # c
      <4>1. condq'[k] = condq[k]
        BY <1>1, <2>1, <3>2
      <4>2. condq[k][i] \in Threads /\ CurOp(condq[k][i]).c = k
        BY <2>3, <4>1
      <4>3. condq[k][i] \notin woken
        <5> DEFINE x == condq[k][i]
        <5>1. x \in Threads /\ CurOp(x).c = k
          BY <4>2
        <5> HIDE DEF x
        <5>2. x \notin woken
          BY <2>5, <3>2, <5>1
        <5> QED
          BY <5>2 DEF x
      <4> QED
        BY <3>2, <4>1, <4>3
    <3> QED
      BY <3>1, <3>2
  <2>8. ASSUME NEW u \in Threads, u \in CondWaiters(c)
        PROVE  u \in woken \/ u \in {condq'[c][i] : i \in DOMAIN condq'[c]}
    <3>1. PICK i \in 1 .. Len(q) : u = q[i]
      BY <1>4, <2>8 DEF CondWaiters, q
    <3>2. CASE i \in 1 .. n
      BY <3>1, <3>2
    <3>3. CASE i \notin 1 .. n
      <4>1. condq'[c] = SubSeq(q, n + 1, Len(q))
        BY <1>1, <1>4, <2>1
      <4>2. /\ SubSeq(q, n + 1, Len(q)) \in Seq(Threads)
            /\ Len(SubSeq(q, n + 1, Len(q))) = Len(q) - n
            /\ \A a \in 1 .. Len(q) - n : SubSeq(q, n + 1, Len(q))[a] = q[a + n]
        BY <1>4, <2>2
      <4>3. i - n \in 1 .. Len(q) - n /\ (i - n) + n = i
        BY <2>2, <3>3
      <4>4. i - n \in DOMAIN condq'[c] /\ condq'[c][i - n] = u
        BY <3>1, <4>1, <4>2, <4>3
      <4> QED
        BY <4>4
    <3> QED
      BY <3>2, <3>3
  <2>9. \A k \in Conds \ {c} : condq'[k] = condq[k]
    BY <1>1, <2>1
  <2> HIDE DEF woken
  <2>10. KindInv'
    BY <1>1, <1>2, <1>3, KindMove DEF KindOK, Where, SubLabels, UnlockLabels, WaitingLabels
  <2>11. LockQueueInv'
    <3>1. \A u \in Threads \ {t} : pc[u] \in QueueLabels => status'[u] = status[u]
      BY <2>5, <2>6 DEF QueueLabels
    <3> QED
      BY <1>1, <1>2, <1>3, <3>1, LockQueueMove DEF QueueLabels
  <2>12. CondQueueInv'
    <3>1. ASSUME NEW k \in Conds, NEW i \in 1 .. Len(condq'[k])
          PROVE  /\ InCondWait(condq[k][i])'
                 /\ CurOp(condq[k][i])'.c = k
                 /\ status'[condq'[k][i]] = "COND_WAITING"
      <4>1. PICK j \in 1 .. Len(condq[k]) : condq'[k][i] = condq[k][j] /\ condq[k][j] \notin woken
        BY <2>7
      <4>2. /\ condq[k][j] \in Threads \ {t} /\ InCondWait(condq[k][j])
            /\ CurOp(condq[k][j]).c = k /\ status[condq[k][j]] = "COND_WAITING"
        BY <2>3
      <4>3. PICK x \in Threads \ {t} : x = condq[k][j] /\ x = condq'[k][i] /\ x \notin woken
        BY <4>1, <4>2
      <4>4. /\ InCondWait(x) /\ CurOp(x).c = k /\ status'[x] = "COND_WAITING"
            /\ pc'[x] = pc[x] /\ CurOp(x)' = CurOp(x)
        BY <1>2, <1>3, <2>6, <4>2, <4>3 DEF InCondWait, CurOp
      <4> QED
        BY <1>2, <4>3, <4>4 DEF InCondWait, CurOp
    <3>2. ASSUME NEW k \in Conds, NEW i \in 1 .. Len(condq'[k]), NEW j \in 1 .. Len(condq'[k]),
                 condq'[k][i] = condq'[k][j]
          PROVE  i = j
      <4>1. PICK a \in 1 .. Len(condq[k]) : condq'[k][i] = condq[k][a] /\ a = IF k = c THEN i + n ELSE i
        BY <2>7
      <4>2. PICK b \in 1 .. Len(condq[k]) : condq'[k][j] = condq[k][b] /\ b = IF k = c THEN j + n ELSE j
        BY <2>7
      <4>3. condq[k][a] = condq[k][b]
        BY <3>2, <4>1, <4>2
      <4>4. a = b
        BY <2>3, <4>3
      <4> QED
        BY <2>2, <4>1, <4>2, <4>4
    <3>3. ASSUME NEW u \in Threads, InCondWait(u)'
          PROVE  \/ u \in CondWaiters(CurOp(u).c)'
                 \/ status'[u] = "READY" /\ pc'[u] = "cw_asleep"
      <4>1. u # t
        BY <1>2, <3>3 DEF InCondWait
      <4>2. InCondWait(u) /\ pc'[u] = pc[u] /\ CurOp(u)' = CurOp(u)
        BY <1>2, <1>3, <3>3, <4>1 DEF InCondWait
      <4>3. CASE u \in woken
        BY <2>5, <4>2, <4>3
      <4>4. CASE u \notin woken /\ u \in CondWaiters(CurOp(u).c)
        <5>1. CurOp(u).c \in Conds
          BY <1>1, <4>2, InOpType DEF InCondWait, OpLabels, Op
        <5>2. CASE CurOp(u).c = c
          <6>1. u \in {condq'[c][i] : i \in DOMAIN condq'[c]}
            BY <2>8, <4>4, <5>2
          <6> QED
            BY <4>2, <5>2, <6>1 DEF CondWaiters
        <5>3. CASE CurOp(u).c # c
          <6>1. condq'[CurOp(u).c] = condq[CurOp(u).c]
            BY <2>9, <5>1, <5>3
          <6> QED
            BY <4>2, <4>4, <6>1 DEF CondWaiters
        <5> QED
          BY <5>2, <5>3
      <4>5. CASE u \notin woken /\ status[u] = "READY" /\ pc[u] = "cw_asleep"
        BY <2>6, <4>2, <4>5
      <4> QED
        BY <1>1, <4>2, <4>3, <4>4, <4>5 DEF CondQueueInv
    <3> QED
      BY <3>1, <3>2, <3>3 DEF CondQueueInv
  <2>13. SleepInv'
    <3>1. \A u \in Threads \ {t} : asleep'[u] => asleep[u] /\ status'[u] = status[u]
      BY <2>5, <2>6
    <3>2. ~asleep'[t]
      BY <1>1, <1>2, <2>5, <2>6 DEF SleepInv
    <3> QED
      BY <1>1, <1>2, <1>3, <3>1, <3>2, SleepMove
  <2>14. JoinInv'
    <3>1. \A u \in Threads \ {t} :
            \/ status'[u] = status[u]
            \/ pc[u] \in QueueLabels \cup {"cw_asleep"} /\ status'[u] \in {"READY", "ON_DECK"}
      BY <2>5, <2>6
    <3>2. status'[t] \notin {"JOINING", "OTHERS_NEED_TO_WAIT"}
      BY <1>1, <1>2, <2>5, <2>6 DEF JoinInv
    <3> QED
      BY <1>1, <1>2, <1>3, <3>1, <3>2, JoinMove
  <2>15. HandInv'
    <3>1. \A m \in Mutexes : ~OnTheWay(t, m)
      BY <1>2 DEF OnTheWay
    <3>2. \A u \in Threads \ {t} : pc[u] = "wl_enqueue" => is_acquired'[CurOp(u).m]
      BY <1>1, <1>2 DEF HandInv
    <3>3. \A u \in Threads \ {t} : status[u] = "READY" => status'[u] = "READY"
      BY <2>5, <2>6
    <3> QED
      BY <1>1, <1>2, <1>3, <3>1, <3>2, <3>3, HandMove
  <2> QED
    BY <2>10, <2>11, <2>12, <2>13, <2>14, <2>15 DEF WaitInv
<1> QED
  BY <1>5, <1>6

(* WaitInv, through every step of cond_wait, cond_signal and               *)
(* cond_broadcast.                                                         *)
LEMMA CondStepWait ==
  ASSUME IndInv, SafeInv, WaitInv, NEW t \in Threads, CondStep(t)
  PROVE  WaitInv'
<1> USE DEF locals, entries, syncs, Quiet, Moves, SubLabels, Special, QueueLabels, WayLabels, WaitLabels,
        UnlockLabels, WaitingLabels
<1>1. CASE CondWait(t)
  BY <1>1, PlainGo DEF CondWait, Calls
<1>2. CASE PredicateHolds(t)
  <2>1. \A u \in Threads \ {t} : fn'[u] = fn[u] /\ ip'[u] = ip[u]
    BY <1>2 DEF PredicateHolds, IndInv, TypeOK, LocalsType
  <2>2. Moves(t, "run")
    BY <1>2 DEF PredicateHolds, Calls, Goto, flow, IndInv, TypeOK, FlowType
  <2>3. Quiet /\ UNCHANGED is_acquired /\ pc[t] = "run"
    BY <1>2 DEF PredicateHolds, Calls
  <2> QED
    BY <2>1, <2>2, <2>3, PlainMove
<1>3. CASE CondWaitRelock(t)
  BY <1>3, PlainGo DEF CondWaitRelock
<1>4. CASE CondSignal(t)
  BY <1>4, PlainGo DEF CondSignal, Calls
<1> QED
  BY <1>1, <1>2, <1>3, <1>4, CondEnqueueStep, CondSleepSteps, CondWakeStep DEF CondStep

-----------------------------------------------------------------------------
(***************************************************************************)
(* Creation, end and join of threads.                                      *)
(***************************************************************************)

(* WaitInv, through every step of spawn and of a new thread.               *)
LEMMA SpawnStepWait ==
  ASSUME IndInv, SafeInv, WaitInv, NEW t \in Threads, SpawnStep(t)
  PROVE  WaitInv'
<1> USE DEF locals, entries, syncs, Quiet, Moves, SubLabels, Special, QueueLabels, WayLabels, WaitLabels,
        UnlockLabels, WaitingLabels
<1>a. /\ pc \in [Threads -> Labels] /\ ret \in [Threads -> Labels] /\ TypeOK
      /\ fn \in [Threads -> FnNames] /\ ip \in [Threads -> Nat \ {0}]
  BY DEF IndInv, TypeOK, FlowType, LocalsType
<1>1. CASE Spawn(t)
  BY <1>1, PlainGo DEF Spawn, Calls
<1>2. CASE GetThread(t)
  <2> DEFINE c == IF pool # <<>> THEN Head(pool) ELSE id_counter + 1
  <2>1. pc[c] \in OutLabels
    <3>1. pool \in Seq(Threads) /\ id_counter \in Nat /\ PoolInv /\ PoolSize \in Nat
      BY PoolAssumption DEF IndInv, TypeOK, PoolingType
    <3>2. CASE pool # <<>>
      <4>1. 1 \in 1 .. Len(pool) /\ Head(pool) = pool[1]
        BY <3>1, <3>2
      <4> QED
        BY <3>1, <3>2, <4>1 DEF PoolInv, OutLabels
    <3>3. CASE pool = <<>>
      <4>1. id_counter + 1 \in Threads /\ id_counter + 1 > id_counter
        BY <1>2, <3>1, <3>3 DEF GetThread, PoolHasRoom, Threads
      <4> QED
        BY <3>1, <3>3, <4>1 DEF PoolInv, OutLabels
    <3> QED
      BY <3>2, <3>3
  <2>2. fn' = [fn EXCEPT ![c] = CurOp(t).fn] /\ ip' = [ip EXCEPT ![c] = 1]
    BY <1>2 DEF GetThread
  <2>3. Moves(t, "fork") /\ Quiet /\ UNCHANGED is_acquired /\ pc[t] = "get_thread"
    BY <1>2 DEF GetThread
  <2> HIDE DEF c
  <2>4. \A u \in Threads : (fn'[u] = fn[u] /\ ip'[u] = ip[u]) \/ pc[u] \in OutLabels
    BY <1>a, <2>1, <2>2
  <2> QED
    BY <2>3, <2>4, PlainMove
<1>3. CASE PoolExhausted(t)
  <2>1. CurOp(t).kind = "spawn"
    BY <1>3 DEF PoolExhausted, WaitInv, KindInv, KindOK, Where
  <2> QED
    BY <1>3, <2>1, PlainGo DEF PoolExhausted
<1>4. CASE Fork(t)
  <2> DEFINE c == child[t]
             fresh == pool_status[c] = "INIT"
  <2>1. pc' = [pc EXCEPT ![t] = "is_lowest", ![c] = IF fresh THEN "register" ELSE @]
    BY <1>4 DEF Fork
  <2>2. fresh => pc[c] = "unborn"
    BY <1>4 DEF Fork, SafeInv, ForkInv, At
  <2>3. c \in Threads
    BY DEF IndInv, TypeOK, LocalsType
  <2>4. /\ pc[t] = "fork" /\ ret' = [ret EXCEPT ![t] = "spawn_done"] /\ Quiet
        /\ UNCHANGED <<fn, ip, is_acquired>>
    BY <1>4 DEF Fork
  <2> HIDE DEF c, fresh
  <2>5. pc'[t] = "is_lowest" \/ (c = t /\ ~fresh /\ pc'[t] = "is_lowest")
    BY <1>a, <2>1, <2>2, <2>3, <2>4
  <2>6. Elsewhere(t)
    <3> SUFFICES ASSUME NEW u \in Threads, u # t
                 PROVE  \/ pc'[u] = pc[u] /\ ret'[u] = ret[u] /\ fn'[u] = fn[u] /\ ip'[u] = ip[u]
                        \/ pc[u] = "unborn" /\ pc'[u] = "register"
      BY DEF Elsewhere
    <3> QED
      BY <1>a, <2>1, <2>2, <2>3, <2>4
  <2>7. KindOK(t)'
    BY <1>a, <2>4, <2>5 DEF KindOK, Where
  <2>8. \A m \in Mutexes : ~OnTheWay(t, m)
    BY <2>4 DEF OnTheWay
  <2> QED
    BY <2>4, <2>5, <2>6, <2>7, <2>8, QuietMove
<1>5. CASE SpawnDone(t)
  BY <1>5, PlainGo DEF SpawnDone
<1>6. CASE Register(t)
  <2>1. KindInv /\ LockQueueInv /\ CondQueueInv /\ SleepInv /\ JoinInv /\ HandInv
    BY DEF WaitInv
  <2>2. /\ pc[t] = "register" /\ UNCHANGED <<fn, ip, joinee, asleep, to_signal, is_acquired, lockq, condq>>
        /\ status'[t] = "READY"
        /\ \A u \in Threads \ {t} : status'[u] = status[u] /\ tid_parent'[u] = tid_parent[u]
    BY <1>6, <1>a DEF Register, TypeOK, EntriesType
  <2>3. Moves(t, "registered")
    BY <1>6 DEF Register
  <2>4. /\ pc'[t] \in {"registered", "put", "is_lowest"} /\ Where(t)' = "registered"
        /\ \A u \in Threads \ {t} : pc'[u] = pc[u] /\ ret'[u] = ret[u]
    BY <1>a, <2>3, WhereMoves
  <2>5. Elsewhere(t)
    BY <2>2, <2>4 DEF Elsewhere
  <2>6. KindInv'
    BY <2>1, <2>4, <2>5, KindMove DEF KindOK
  <2>7. LockQueueInv'
    BY <1>a, <2>1, <2>2, <2>4, <2>5, LockQueueMove
  <2>8. CondQueueInv'
    BY <1>a, <2>1, <2>2, <2>4, <2>5, CondQueueMove DEF InCondWait
  <2>9. SleepInv'
    <3>1. ~asleep[t]
      BY <2>1, <2>2 DEF SleepInv
    <3> QED
      BY <2>1, <2>2, <2>5, <3>1, SleepMove
  <2>10. JoinInv'
    BY <1>a, <2>1, <2>2, <2>4, <2>5, JoinMove
  <2>11. HandInv'
    <3>1. \A m \in Mutexes : ~OnTheWay(t, m)
      BY <2>2 DEF OnTheWay
    <3>2. \A u \in Threads \ {t} : pc[u] = "wl_enqueue" => is_acquired'[CurOp(u).m]
      BY <2>1, <2>2 DEF HandInv
    <3> QED
      BY <2>1, <2>2, <2>4, <2>5, <3>1, <3>2, HandMove
  <2> QED
    BY <2>6, <2>7, <2>8, <2>9, <2>10, <2>11 DEF WaitInv
<1>7. CASE Registered(t)
  BY <1>7, PlainGo DEF Registered
<1>8. CASE RunThread(t)
  BY <1>8, PlainGo DEF RunThread
<1> QED
  BY <1>1, <1>2, <1>3, <1>4, <1>5, <1>6, <1>7, <1>8 DEF SpawnStep

(* A step of t that changes status, joinee or the sleepers in join only,   *)
(* and queues nobody.                                                      *)
LEMMA JoinSideMove ==
  ASSUME IndInv, WaitInv, NEW t \in Threads, Elsewhere(t), KindOK(t)',
         UNCHANGED <<fn, ip, to_signal, is_acquired, lockq, condq>>,
         pc[t] \in {"deregister", "ex_spin", "ex_release", "join_check", "join_asleep"},
         pc'[t] \notin QueueLabels, ~InCondWait(t)', pc'[t] # "wl_enqueue",
         \A u \in Threads \ {t} :
           /\ status'[u] = status[u] \/ pc[u] = "join_asleep"
           /\ asleep'[u] => asleep[u] /\ status'[u] = status[u],
         asleep'[t] => pc'[t] = "join_asleep" /\ status'[t] # "READY",
         JoinInv'
  PROVE  WaitInv'
<1>1. TypeOK /\ KindInv /\ LockQueueInv /\ CondQueueInv /\ SleepInv /\ JoinInv /\ HandInv
  BY DEF WaitInv, IndInv
<1>2. KindInv'
  BY <1>1, KindMove
<1>3. LockQueueInv'
  BY <1>1, LockQueueMove DEF QueueLabels
<1>4. CondQueueInv'
  BY <1>1, CondQueueMove DEF InCondWait
<1>5. SleepInv'
  BY <1>1, SleepMove
<1>6. HandInv'
  <2>1. \A m \in Mutexes : ~OnTheWay(t, m)
    BY DEF OnTheWay
  <2>2. \A u \in Threads \ {t} : pc[u] = "wl_enqueue" => is_acquired'[CurOp(u).m]
    BY <1>1 DEF HandInv
  <2>3. \A u \in Threads \ {t} : status[u] = "READY" => status'[u] = "READY"
    BY <1>1 DEF JoinInv
  <2> QED
    BY <1>1, <2>1, <2>2, <2>3, HandMove
<1> QED
  BY <1>2, <1>3, <1>4, <1>5, <1>6 DEF WaitInv

(* WaitInv, through every step of threadDeregister, park_thread and done.  *)
LEMMA ExitStepWait ==
  ASSUME IndInv, SafeInv, WaitInv, NEW t \in Threads, ExitStep(t)
  PROVE  WaitInv'
<1> USE DEF locals, entries, syncs, Quiet, Moves, SubLabels, Special, QueueLabels, WayLabels, WaitLabels,
        UnlockLabels, WaitingLabels
<1>a. /\ pc \in [Threads -> Labels] /\ ret \in [Threads -> Labels] /\ TypeOK
      /\ status \in [Threads -> Statuses] /\ asleep \in [Threads -> BOOLEAN]
      /\ tid_parent \in [Threads -> Threads] /\ SleepInv /\ JoinInv
  BY DEF IndInv, TypeOK, FlowType, EntriesType, WaitInv
<1>1. CASE ThreadDeregister(t)
  BY <1>1, PlainGo DEF ThreadDeregister
<1>2. CASE PoolAdd(t)
  BY <1>2, PlainGo DEF PoolAdd
<1>3. CASE Deregister(t)
  <2>1. /\ pc[t] = "deregister" /\ pc' = [pc EXCEPT ![t] = "set_retval"]
        /\ status' = [status EXCEPT ![t] = "EXIT"]
        /\ UNCHANGED <<ret, fn, ip, tid_parent, joinee, asleep, to_signal, is_acquired, lockq, condq>>
    BY <1>3 DEF Deregister, LeaveForGood, Goto
  <2>2. /\ Elsewhere(t) /\ pc'[t] = "set_retval" /\ status'[t] = "EXIT"
        /\ \A u \in Threads \ {t} : status'[u] = status[u]
    BY <1>a, <2>1 DEF Elsewhere
  <2>3. JoinInv'
    BY <1>a, <2>1, <2>2, JoinMove
  <2>4. KindOK(t)' /\ ~InCondWait(t)' /\ ~asleep[t]
    BY <1>a, <2>1, <2>2 DEF KindOK, Where, InCondWait, SleepInv
  <2> QED
    BY <2>1, <2>2, <2>3, <2>4, JoinSideMove
<1>4. CASE DeregisterWake(t)
  <2> DEFINE p == tid_parent[t]
  <2>1. /\ pc[t] = "deregister" /\ pc' = [pc EXCEPT ![t] = "ex_spin"]
        /\ status[p] = "JOINING" /\ joinee[p] = t
        /\ status' = [status EXCEPT ![t] = "EXIT", ![p] = "OTHERS_NEED_TO_WAIT"]
        /\ asleep' = [u \in Threads |-> asleep[u] /\ pc[u] # "join_asleep"]
        /\ UNCHANGED <<ret, fn, ip, tid_parent, joinee, to_signal, is_acquired, lockq, condq>>
    BY <1>4 DEF DeregisterWake, Goto, ParentJoins
  <2>2. p \in Threads
    BY <1>a
  <2> HIDE DEF p
  <2>3. pc[p] = "join_asleep" /\ p # t
    BY <1>a, <2>1, <2>2 DEF JoinInv
  <2>4. /\ Elsewhere(t) /\ pc'[t] = "ex_spin" /\ status'[t] = "EXIT"
        /\ status'[p] = "OTHERS_NEED_TO_WAIT" /\ pc'[p] = "join_asleep"
        /\ \A u \in Threads \ {t, p} : status'[u] = status[u]
        /\ \A u \in Threads \ {t} : pc'[u] = pc[u]
    BY <1>a, <2>1, <2>2, <2>3 DEF Elsewhere
  <2>5. JoinInv'
    <3>1. \A u \in Threads : status'[u] \in {"JOINING", "OTHERS_NEED_TO_WAIT"} <=> pc'[u] = "join_asleep"
      BY <1>a, <2>3, <2>4 DEF JoinInv
    <3>2. ASSUME NEW u \in Threads, pc'[u] \in {"ex_spin", "ex_release"} PROVE u = t
      <4>1. pc[t] \in SyncLabels
        BY <2>1 DEF SyncLabels, TokenLabels
      <4>2. CASE u # t
        <5>1. pc[u] \in SyncLabels
          BY <2>4, <3>2, <4>2 DEF SyncLabels, TokenLabels
        <5> QED
          BY <4>1, <5>1, Alone
      <4> QED
        BY <4>2
    <3>3. tid_parent'[t] = p
      BY <2>1 DEF p
    <3> QED
      BY <2>4, <3>1, <3>2, <3>3 DEF JoinInv
  <2>6. KindOK(t)' /\ ~InCondWait(t)' /\ ~asleep'[t]
    BY <1>a, <2>1, <2>4 DEF KindOK, Where, InCondWait, SleepInv
  <2>7. \A u \in Threads \ {t} : /\ status'[u] = status[u] \/ pc[u] = "join_asleep"
                                 /\ asleep'[u] => asleep[u] /\ status'[u] = status[u]
    BY <2>1, <2>3, <2>4
  <2> QED
    BY <2>1, <2>4, <2>5, <2>6, <2>7, JoinSideMove
<1>5. CASE DeregisterSpin(t)
  <2>1. /\ pc[t] = "ex_spin" /\ pc' = [pc EXCEPT ![t] = "ex_release"]
        /\ status[tid_parent[t]] # "OTHERS_NEED_TO_WAIT"
        /\ UNCHANGED <<ret, fn, ip, tid_parent, joinee, to_signal, is_acquired, lockq, condq, status, asleep>>
    BY <1>5 DEF DeregisterSpin, Goto, ParentAwake
  <2>2. Elsewhere(t) /\ pc'[t] = "ex_release" /\ \A u \in Threads \ {t} : pc'[u] = pc[u]
    BY <1>a, <2>1 DEF Elsewhere
  <2>3. JoinInv'
    <3>1. \A u \in Threads : status[u] \in {"JOINING", "OTHERS_NEED_TO_WAIT"} <=> pc'[u] = "join_asleep"
      BY <1>a, <2>1, <2>2 DEF JoinInv
    <3>2. \A u \in Threads : pc'[u] \in {"ex_spin", "ex_release"} => status[u] = "EXIT"
      BY <1>a, <2>1, <2>2 DEF JoinInv
    <3>3. \A u \in Threads : pc'[u] = "join_asleep" <=> pc[u] = "join_asleep"
      BY <2>1, <2>2
    <3>4. ASSUME NEW u \in Threads, pc'[u] \in {"ex_spin", "ex_release"},
                 pc'[tid_parent[u]] = "join_asleep", joinee[tid_parent[u]] = u
          PROVE  pc'[u] = "ex_spin" /\ status[tid_parent[u]] = "OTHERS_NEED_TO_WAIT"
      <4>1. pc[u] \in {"ex_spin", "ex_release"} /\ pc[tid_parent[u]] = "join_asleep"
        BY <1>a, <2>1, <2>2, <3>3, <3>4
      <4>2. pc[u] = "ex_spin" /\ status[tid_parent[u]] = "OTHERS_NEED_TO_WAIT"
        BY <1>a, <3>4, <4>1 DEF JoinInv
      <4> QED
        BY <2>1, <2>2, <4>2
    <3> QED
      BY <2>1, <3>1, <3>2, <3>4 DEF JoinInv
  <2>4. KindOK(t)' /\ ~InCondWait(t)' /\ ~asleep[t]
    BY <1>a, <2>1, <2>2 DEF KindOK, Where, InCondWait, SleepInv
  <2> QED
    BY <2>1, <2>2, <2>3, <2>4, JoinSideMove
<1>6. CASE DeregisterRelease(t)
  BY <1>6, PlainGo DEF DeregisterRelease, LeaveForGood
<1>7. CASE SetRetval(t)
  BY <1>7, PlainGo DEF SetRetval
<1>8. CASE Unpark(t)
  BY <1>8, PlainGo DEF Unpark
<1>9. CASE Done(t)
  BY <1>9, PlainGo DEF Done
<1>10. CASE Finalize(t)
  BY <1>10, PlainGo DEF Finalize
<1> QED
  BY <1>1, <1>2, <1>3, <1>4, <1>5, <1>6, <1>7, <1>8, <1>9, <1>10 DEF ExitStep

(* WaitInv, through every step of join.                                    *)
LEMMA JoinStepWait ==
  ASSUME IndInv, SafeInv, WaitInv, NEW t \in Threads, JoinStep(t)
  PROVE  WaitInv'
<1> USE DEF locals, entries, syncs, Quiet, Moves, SubLabels, Special, QueueLabels, WayLabels, WaitLabels,
        UnlockLabels, WaitingLabels
<1>a. /\ pc \in [Threads -> Labels] /\ ret \in [Threads -> Labels] /\ TypeOK
      /\ status \in [Threads -> Statuses] /\ asleep \in [Threads -> BOOLEAN]
      /\ joinee \in [Threads -> Threads]
      /\ tid_parent \in [Threads -> Threads] /\ SleepInv /\ JoinInv
  BY DEF IndInv, TypeOK, FlowType, EntriesType, WaitInv
<1>1. CASE Join(t)
  BY <1>1, PlainGo DEF Join, Calls
<1>2. CASE JoinCheck(t)
  <2>1. /\ pc[t] = "join_check"
        /\ UNCHANGED <<fn, ip, ret, to_signal, is_acquired, lockq, condq, tid_parent>>
        /\ \A u \in Threads \ {t} : /\ pc'[u] = pc[u] /\ status'[u] = status[u] /\ joinee'[u] = joinee[u]
                                    /\ asleep'[u] = asleep[u]
        /\ \/ pc'[t] = "join_asleep" /\ status'[t] = "JOINING"
           \/ pc'[t] = "join_woken" /\ status'[t] = "READY" /\ asleep'[t] = asleep[t]
    BY <1>2, <1>a DEF JoinCheck, Goto
  <2>2. Elsewhere(t)
    BY <2>1 DEF Elsewhere
  <2>3. \A u \in Threads : pc'[u] \notin {"ex_spin", "ex_release"}
    <3>1. pc[t] \in SyncLabels
      BY <2>1 DEF SyncLabels, TokenLabels
    <3>2. \A u \in Threads \ {t} : pc[u] \notin {"ex_spin", "ex_release"}
      BY <3>1, Alone DEF SyncLabels, TokenLabels
    <3> QED
      BY <2>1, <3>2
  <2>4. JoinInv'
    <3>1. \A u \in Threads : status'[u] \in {"JOINING", "OTHERS_NEED_TO_WAIT"} <=> pc'[u] = "join_asleep"
      BY <1>a, <2>1 DEF JoinInv
    <3> QED
      BY <2>3, <3>1 DEF JoinInv
  <2>5. KindOK(t)' /\ ~InCondWait(t)' /\ ~asleep[t]
    BY <1>a, <2>1 DEF KindOK, Where, InCondWait, SleepInv
  <2> QED
    BY <2>1, <2>2, <2>4, <2>5, JoinSideMove
<1>3. CASE JoinAwake(t)
  <2>1. /\ pc[t] = "join_asleep" /\ ~asleep[t]
        /\ UNCHANGED <<fn, ip, to_signal, is_acquired, lockq, condq, tid_parent, joinee>>
        /\ \A u \in Threads \ {t} : /\ pc'[u] = pc[u] /\ ret'[u] = ret[u] /\ status'[u] = status[u]
                                    /\ asleep'[u] = asleep[u]
        /\ \/ /\ pc'[t] = "join_asleep" /\ status'[t] = "JOINING" /\ status[joinee[t]] # "EXIT"
           \/ /\ pc'[t] = "is_lowest" /\ ret'[t] = "join_woken" /\ status'[t] = "READY"
              /\ asleep'[t] = asleep[t]
    BY <1>3, <1>a DEF JoinAwake, Call, flow
  <2>2. Elsewhere(t)
    BY <2>1 DEF Elsewhere
  <2>3. JoinInv'
    <3>1. \A u \in Threads : status'[u] \in {"JOINING", "OTHERS_NEED_TO_WAIT"} <=> pc'[u] = "join_asleep"
      BY <1>a, <2>1 DEF JoinInv
    <3>2. ASSUME NEW u \in Threads, pc'[u] \in {"ex_spin", "ex_release"}
          PROVE  u # t /\ pc[u] = pc'[u] /\ status[u] = "EXIT" /\ status'[u] = "EXIT"
      BY <1>a, <2>1, <3>2 DEF JoinInv
    <3>3. ASSUME NEW u \in Threads, pc'[u] \in {"ex_spin", "ex_release"},
                 pc'[tid_parent[u]] = "join_asleep", joinee[tid_parent[u]] = u
          PROVE  pc'[u] = "ex_spin" /\ status'[tid_parent[u]] = "OTHERS_NEED_TO_WAIT"
      <4>1. tid_parent[u] # t
        BY <2>1, <3>2, <3>3
      <4>2. tid_parent[u] \in Threads
        BY <1>a
      <4>3. pc[tid_parent[u]] = "join_asleep" /\ status'[tid_parent[u]] = status[tid_parent[u]]
        BY <2>1, <3>3, <4>1, <4>2
      <4>4. pc[u] = pc'[u]
        BY <3>2, <3>3
      <4>5. pc[u] = "ex_spin" /\ status[tid_parent[u]] = "OTHERS_NEED_TO_WAIT"
        BY <1>a, <3>3, <4>3, <4>4 DEF JoinInv
      <4> QED
        BY <4>3, <4>4, <4>5
    <3> QED
      BY <2>1, <3>1, <3>2, <3>3 DEF JoinInv
  <2>4. KindOK(t)' /\ ~InCondWait(t)'
    BY <1>a, <2>1 DEF KindOK, Where, InCondWait
  <2> QED
    BY <2>1, <2>2, <2>3, <2>4, JoinSideMove
<1>4. CASE JoinWoken(t)
  BY <1>4, PlainGo DEF JoinWoken
<1>5. CASE JoinResult(t)
  BY <1>5, PlainGo DEF JoinResult
<1> QED
  BY <1>1, <1>2, <1>3, <1>4, <1>5 DEF JoinStep

-----------------------------------------------------------------------------
(***************************************************************************)
(* The invariant and the theorems.                                         *)
(***************************************************************************)

(* Nobody waits for anything when main starts.                             *)
LEMMA WaitInit ==
  Init => WaitInv
<1> SUFFICES ASSUME Init PROVE WaitInv
  OBVIOUS
<1>1. \A t \in Threads : /\ pc[t] \in {"run", "unborn"} /\ ~asleep[t]
                         /\ status[t] \in {"READY", "COND_WAITING"}
  BY DEF Init
<1>2. (\A m \in Mutexes : lockq[m] = <<>>) /\ (\A c \in Conds : condq[c] = <<>>)
  BY DEF Init
<1>3. KindInv
  BY <1>1 DEF KindInv, KindOK, Where, SubLabels, UnlockLabels, WaitingLabels
<1>4. LockQueueInv
  <2>1. \A m \in Mutexes : 1 .. Len(lockq[m]) = {}
    BY <1>2
  <2> QED
    BY <1>1, <2>1 DEF LockQueueInv, QueueLabels
<1>5. CondQueueInv
  <2>1. \A c \in Conds : 1 .. Len(condq[c]) = {}
    BY <1>2
  <2> QED
    BY <1>1, <2>1 DEF CondQueueInv, InCondWait
<1>6. SleepInv /\ JoinInv
  BY <1>1 DEF SleepInv, JoinInv
<1>7. HandInv
  <2>1. \A m \in Mutexes : LockWaiters(m) = {}
    BY <1>2 DEF LockWaiters
  <2> QED
    BY <1>1, <2>1 DEF HandInv, LockHandOff
<1> QED
  BY <1>3, <1>4, <1>5, <1>6, <1>7 DEF WaitInv

(* Nothing WaitInv speaks of has changed, but sleepers may be awake.       *)
LEMMA WaitSame ==
  ASSUME WaitInv, UNCHANGED <<pc, ret, fn, ip, status, tid_parent, joinee, to_signal, is_acquired,
                              lockq, condq>>,
         \A u \in Threads : asleep'[u] => asleep[u]
  PROVE  WaitInv'
<1>1. KindInv'
  BY DEF WaitInv, KindInv, KindOK, Where, CurOp
<1>2. LockQueueInv'
  BY DEF WaitInv, LockQueueInv, LockWaiters, CurOp
<1>3. CondQueueInv'
  BY DEF WaitInv, CondQueueInv, CondWaiters, InCondWait, CurOp
<1>4. SleepInv' /\ JoinInv'
  BY DEF WaitInv, SleepInv, JoinInv
<1>5. HandInv'
  <2>1. Elsewhere(Master) /\ Master \in Threads /\ HandInv
    BY MasterThread DEF Elsewhere, WaitInv
  <2>2. \A u \in Threads : CurOp(u)' = CurOp(u)
    BY DEF CurOp
  <2>3. \A m \in Mutexes : OnTheWay(Master, m) => OnTheWay(Master, m)'
    BY DEF OnTheWay, AtEnd, CurOp
  <2>4. \A u \in Threads : pc[u] = "wl_enqueue" => is_acquired'[CurOp(u).m]
    BY <2>1 DEF HandInv
  <2> QED
    BY <2>1, <2>2, <2>3, <2>4, HandMove
<1> QED
  BY <1>1, <1>2, <1>3, <1>4, <1>5 DEF WaitInv

(* Every step keeps WaitInv.                                               *)
LEMMA WaitStep ==
  ASSUME SingleThreadOpt = FALSE, IndInv, SafeInv, WaitInv, [Next]_vars
  PROVE  WaitInv'
<1>1. ASSUME NEW t \in Threads, ThreadStep(t) PROVE WaitInv'
  BY <1>1, GetTokenStepWait, MutexStepWait, CondStepWait, SpawnStepWait, ExitStepWait,
     JoinStepWait DEF ThreadStep
<1>2. ASSUME NEW t \in Threads, SpuriousWakeup(t) PROVE WaitInv'
  <2>1. \A u \in Threads : asleep'[u] => asleep[u]
    BY <1>2 DEF SpuriousWakeup, IndInv, TypeOK, EntriesType
  <2> QED
    BY <1>2, <2>1, WaitSame DEF SpuriousWakeup, flow, locals, syncs
<1>3. CASE UNCHANGED vars
  BY <1>3, WaitSame DEF vars, flow, locals, entries, syncs
<1> QED
  BY <1>1, <1>2, <1>3 DEF Next, Terminated

(* WaitInv is an invariant; it is inductive only together with IndInv and  *)
(* SafeInv: whoever is in the queue but not yet past its putToken cannot   *)
(* be released by another thread, because that would need the token too.   *)
LEMMA WaitAlways ==
  ASSUME SingleThreadOpt = FALSE PROVE Spec => [](IndInv /\ SafeInv /\ WaitInv)
<1>1. Init => IndInv /\ SafeInv /\ WaitInv
  BY IndInit, SafeInit, WaitInit
<1>2. IndInv /\ SafeInv /\ WaitInv /\ [Next]_vars => (IndInv /\ SafeInv /\ WaitInv)'
  BY IndStep, SafeStep, WaitStep
<1> QED
  BY <1>1, <1>2, PTL DEF Spec

(* No wake-up is lost: a thread that sleeps although it was made READY is  *)
(* about to be signalled.                                                  *)
THEOREM WakeUpsKept ==
  ASSUME SingleThreadOpt = FALSE PROVE Spec => []NoLostWakeup
<1>1. WaitInv => NoLostWakeup
  BY DEF WaitInv, SleepInv, NoLostWakeup
<1> QED
  BY <1>1, WaitAlways, PTL

(* No queue of a mutex is forgotten: while threads wait the mutex is       *)
(* locked or somebody is about to try it.                                  *)
THEOREM LocksHandedOff ==
  ASSUME SingleThreadOpt = FALSE PROVE Spec => []LockHandOff
<1>1. WaitInv => LockHandOff
  BY DEF WaitInv, HandInv
<1> QED
  BY <1>1, WaitAlways, PTL

(* An exiting thread keeps the token until the parent that joins on it is  *)
(* back in the race.                                                       *)
THEOREM JoinsHandedOff ==
  ASSUME SingleThreadOpt = FALSE PROVE Spec => []JoinHandOff
<1>1. WaitInv => JoinHandOff
  BY DEF WaitInv, JoinInv, JoinHandOff
<1> QED
  BY <1>1, WaitAlways, PTL

(* Nobody calls exit(-1) but in pthread_create.                            *)
THEOREM NobodyGivesUp ==
  ASSUME SingleThreadOpt = FALSE PROVE Spec => []NoError
<1>1. WaitInv => NoError
  BY DEF WaitInv, KindInv, KindOK, Where, SubLabels, NoError
<1> QED
  BY <1>1, WaitAlways, PTL

(* Once main has returned nobody stays parked: terminate_all tells those   *)
(* that wait in the pool, add_thread those that come later.                *)
THEOREM NobodyParked == Spec => []NobodyLeftParked
<1>1. Init => IndInv /\ NobodyLeftParked
  BY IndInit DEF Init, NobodyLeftParked
<1>2. ASSUME IndInv, NobodyLeftParked, [Next]_vars PROVE NobodyLeftParked'
  <2> USE DEF locals, entries, syncs, pooling
  <2>a. pool_status \in [Threads -> PoolStatuses]
    BY <1>2 DEF IndInv, TypeOK, PoolingType
  <2>1. ASSUME UNCHANGED <<pool_status, master_finished>> PROVE NobodyLeftParked'
    BY <1>2, <2>1 DEF NobodyLeftParked
  <2>2. ASSUME NEW t \in Threads, GetTokenStep(t) PROVE NobodyLeftParked'
    BY <2>1, <2>2 DEF GetTokenStep, IsLowest, ReadActivation, IsLowestWait, CompareAndSwap,
       CheckActivation, FastForward, PutToken, StartClock
  <2>3. ASSUME NEW t \in Threads, MutexStep(t) PROVE NobodyLeftParked'
    BY <2>1, <2>3 DEF MutexStep, MutexLock, LockTry, LockAcquire, LockSet, LockFailed,
       WaitOnLockEnqueue, WaitOnLockHalt, WaitOnLockPut, WaitOnLockSleep, WaitOnLockAwake,
       WaitOnLockReturn, MutexUnlock, UnlockTry, UnlockCommit, UnlockRelease, SignalWaiters
  <2>4. ASSUME NEW t \in Threads, CondStep(t) PROVE NobodyLeftParked'
    BY <2>1, <2>4 DEF CondStep, CondWait, PredicateHolds, CondWaitHalt, CondWaitAwake,
       CondWaitReturn, CondWaitRelock, CondSignal, CondWaitEnqueue, CondWake
  <2>5. ASSUME NEW t \in Threads, SpawnStep(t) PROVE NobodyLeftParked'
    <3>1. CASE GetThread(t)
      BY <3>1 DEF GetThread, NobodyLeftParked
    <3> QED
      BY <2>1, <2>5, <3>1 DEF SpawnStep, Spawn, PoolExhausted, Fork, SpawnDone, Register, Registered,
         RunThread
  <2>6. ASSUME NEW t \in Threads, ExitStep(t) PROVE NobodyLeftParked'
    <3>1. CASE PoolAdd(t)
      BY <1>2, <2>a, <3>1 DEF PoolAdd, MasterThreadFinished, NobodyLeftParked
    <3>2. CASE Finalize(t)
      BY <2>a, <3>2 DEF Finalize, NobodyLeftParked
    <3> QED
      BY <2>1, <2>6, <3>1, <3>2 DEF ExitStep, ThreadDeregister, Deregister, DeregisterWake,
         DeregisterSpin, DeregisterRelease, SetRetval, Unpark, Done
  <2>7. ASSUME NEW t \in Threads, JoinStep(t) PROVE NobodyLeftParked'
    BY <2>1, <2>7 DEF JoinStep, Join, JoinCheck, JoinAwake, JoinWoken, JoinResult
  <2>8. ASSUME NEW t \in Threads, SpuriousWakeup(t) PROVE NobodyLeftParked'
    BY <2>1, <2>8 DEF SpuriousWakeup
  <2>9. CASE UNCHANGED vars
    BY <2>1, <2>9 DEF vars
  <2> QED
    BY <1>2, <2>2, <2>3, <2>4, <2>5, <2>6, <2>7, <2>8, <2>9 DEF Next, Terminated, ThreadStep
<1>3. IndInv /\ NobodyLeftParked /\ [Next]_vars => (IndInv /\ NobodyLeftParked)'
  BY <1>2, IndStep
<1> QED
  BY <1>1, <1>3, PTL DEF Spec
=============================================================================

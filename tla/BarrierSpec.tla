----------------------------- MODULE BarrierSpec ----------------------------
(***************************************************************************)
(* What pthread_barrier_wait promises: the threads of a party meet again   *)
(* and again, and nobody leaves a meeting before everybody has come to it. *)
(***************************************************************************)
EXTENDS Naturals

CONSTANT Party

VARIABLES
  came,   \* how many meetings each thread has come to
  left    \* how many it has left

Init ==
  /\ came = [t \in Party |-> 0]
  /\ left = [t \in Party |-> 0]

Enter(t) ==
  /\ came[t] = left[t]
  /\ came' = [came EXCEPT ![t] = @ + 1]
  /\ UNCHANGED left

Leave(t) ==
  /\ left[t] < came[t]
  /\ \A u \in Party : came[u] >= came[t]
  /\ left' = [left EXCEPT ![t] = @ + 1]
  /\ UNCHANGED came

Next == \E t \in Party : Enter(t) \/ Leave(t)

Spec == Init /\ [][Next]_<<came, left>>
=============================================================================

------------------------------ MODULE MCDeterm ------------------------------
(***************************************************************************)
(* Instances of Determ for TLC: small programs over one or two mutexes.    *)
(***************************************************************************)
EXTENDS Determ, TLC

CONSTANTS m1, m2, c1, h1, h2, h3

Blank == [kind |-> "lock", m |-> m1, c |-> c1, h |-> h1, fn |-> "work", until |-> 0]

Lock(m)    == [Blank EXCEPT !.kind = "lock", !.m = m]
Unlock(m)  == [Blank EXCEPT !.kind = "unlock", !.m = m]
Wait(n)    == [Blank EXCEPT !.kind = "wait", !.until = n]
Signal     == [Blank EXCEPT !.kind = "signal"]
Broadcast  == [Blank EXCEPT !.kind = "broadcast"]
Create(h, f) == [Blank EXCEPT !.kind = "spawn", !.h = h, !.fn = f]
JoinOn(h)  == [Blank EXCEPT !.kind = "join", !.h = h]

Section(m) == <<Lock(m), Unlock(m)>>

(* A worker, one that waits for data, one that does nothing, and one that  *)
(* creates and joins a thread of its own.                                  *)
Starters ==
  [work     |-> Section(m1),
   consumer |-> <<Lock(m1), Wait(1), Unlock(m1)>>,
   idle     |-> <<>>,
   parent   |-> <<Create(h3, "idle"), JoinOn(h3)>>]

(* Main programs.                                                          *)
Mains ==
  [signal   |-> <<Create(h1, "consumer")>> \o Section(m1) \o <<Signal, JoinOn(h1)>>,
   announce |-> <<Create(h1, "consumer"), Create(h2, "consumer")>> \o Section(m1)
                  \o <<Broadcast>>,
   alone    |-> Section(m1) \o <<Create(h1, "work")>> \o Section(m1)
                  \o <<JoinOn(h1)>> \o Section(m1),
   crossed  |-> <<Create(h1, "work"), Lock(m1)>> \o Section(m2) \o <<Unlock(m1), JoinOn(h1)>>,
   reuse    |-> <<Create(h1, "work"), JoinOn(h1), Create(h1, "work")>> \o Section(m1)
                  \o <<JoinOn(h1)>>,
   nested   |-> <<Create(h1, "parent"), JoinOn(h1)>>,
   pooled   |-> <<Create(h1, "idle"), Create(h2, "parent"), JoinOn(h1), JoinOn(h2)>>,
   many     |-> <<Create(h1, "idle"), Create(h2, "idle"), Create(h3, "idle"), JoinOn(h1)>>,
   careless |-> <<Lock(m1), Create(h1, "work")>>]

MCCode == Starters @@ Mains
=============================================================================

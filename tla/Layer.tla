-------------------------------- MODULE Layer -------------------------------
(***************************************************************************)
(* What the models of the heap layers (thread_lib/include/heaplayers) have *)
(* in common: heap is the layer's own state, live is what its callers hold *)
(* (history), calls counts their calls.  A heap layer is sequential: the   *)
(* heaps around it lock.  Addresses and sizes are in bytes.                *)
(***************************************************************************)
EXTENDS Integers, FiniteSets, TLC

CONSTANT MaxRequests    \* calls in all (bounds the model)

VARIABLES heap, live, calls

vars == <<heap, live, calls>>

Null   == 0
Word   == 8             \* sizeof(double), the alignment everywhere

Align(sz) == Word * ((sz + Word - 1) \div Word)

(* What f says at a, or d.                                                 *)
At(f, a, d) == IF a \in DOMAIN f THEN f[a] ELSE d

Call == calls < MaxRequests /\ calls' = calls + 1

(* The callers get an object, or NULL; n tells two at one address apart.   *)
Gives(ptr, size) ==
  live' = IF ptr = Null THEN live
          ELSE live \cup {[ptr |-> ptr, size |-> size,
                           n |-> Cardinality({o \in live : o.ptr = ptr})]}

Takes(o) == live' = live \ {o}

(* Objects do not overlap.                                                 *)
Apart(objects) ==
  \A a, b \in objects : a # b => a.ptr + a.size <= b.ptr \/ b.ptr + b.size <= a.ptr

Within(objects, from, to) == \A o \in objects : from <= o.ptr /\ o.ptr + o.size <= to
=============================================================================

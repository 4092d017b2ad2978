----------------------------- MODULE NestedHeap -----------------------------
(***************************************************************************)
(* NestedHeap (heaplayers/nestedheap.h): heaps with child heaps, linked as *)
(* siblings; clearing one clears those below it.  live is the tree as the  *)
(* callers know it: each heap's parent, or NULL, for the heaps that exist; *)
(* heap.full the heaps with something in them.                             *)
(***************************************************************************)
EXTENDS Layer, Sequences, SequencesExt

CONSTANT NestedHeaps

Unlinked == [n \in NestedHeaps |-> Null]

Init ==
  /\ heap = [parent |-> Unlinked, child |-> Unlinked, prev |-> Unlinked, next |-> Unlinked, full |-> {}]
  /\ live = [n \in {} |-> Null] /\ calls = 0

(* NestedHeap::NestedHeap; calls is not used.                              *)
Create(n) ==
  /\ n \notin DOMAIN live
  /\ heap' = [heap EXCEPT !.parent[n] = Null, !.child[n] = Null, !.prev[n] = Null, !.next[n] = Null]
  /\ live' = (n :> Null) @@ live /\ UNCHANGED calls

RECURSIVE Above(_)
Above(n) == IF n = Null THEN {} ELSE {n} \cup Above(live[n])

addChild(p, ch) ==
  LET first == heap.child[p] IN
  /\ {p, ch} \subseteq DOMAIN live /\ live[ch] = Null /\ ch \notin Above(p)
  /\ heap' = LET a == [heap EXCEPT !.prev[ch] = Null, !.next[ch] = first, !.child[p] = ch, !.parent[ch] = p]
             IN  IF first = Null THEN a ELSE [a EXCEPT !.prev[first] = ch]
  /\ live' = [live EXCEPT ![ch] = p] /\ UNCHANGED calls

removeSibling(h, sib) ==
  LET p == h.prev[sib]
      n == h.next[sib]
      a == IF p # Null THEN [h EXCEPT !.next[p] = n] ELSE h
  IN  IF n # Null THEN [a EXCEPT !.prev[n] = p] ELSE a

removeChild(h, p, ch) ==
  LET new == IF h.prev[ch] # Null THEN h.prev[ch] ELSE h.next[ch] IN
  removeSibling(IF h.child[p] = ch THEN [h EXCEPT !.child[p] = new] ELSE h, ch)

(* The heaps that clear clears, from the siblings of n on.                 *)
RECURSIVE Cleared(_, _)
Cleared(h, n) ==
  IF n = Null THEN {} ELSE {n} \cup Cleared(h, h.child[n]) \cup Cleared(h, h.next[n])

clear(h, n) == [h EXCEPT !.full = @ \ ({n} \cup Cleared(h, h.child[n]))]

Clear(n) == n \in DOMAIN live /\ heap' = clear(heap, n) /\ UNCHANGED <<live, calls>>

Use(n) == n \in DOMAIN live /\ heap' = [heap EXCEPT !.full = @ \cup {n}] /\ UNCHANGED <<live, calls>>

(* ~NestedHeap, of a heap without children: theirs would keep its address. *)
(* The fields of the dead heap are nobody's (zeros here).                  *)
Destroy(n) ==
  LET a == clear(heap, n)
      b == IF a.parent[n] # Null THEN removeChild(a, a.parent[n], n) ELSE a
      c == removeSibling(b, n)
  IN  /\ n \in DOMAIN live /\ \A m \in DOMAIN live : live[m] # n
      /\ heap' = [c EXCEPT !.parent[n] = Null, !.child[n] = Null, !.prev[n] = Null, !.next[n] = Null]
      /\ live' = [m \in DOMAIN live \ {n} |-> live[m]] /\ UNCHANGED calls

Next == \/ \E n \in NestedHeaps : Create(n) \/ Clear(n) \/ Use(n) \/ Destroy(n)
        \/ \E n, m \in NestedHeaps : addChild(n, m)

Spec == Init /\ [][Next]_vars

-----------------------------------------------------------------------------
RECURSIVE Siblings(_)
Siblings(n) == IF n = Null THEN <<>> ELSE <<n>> \o Siblings(heap.next[n])

(* The links are the tree: a heap's list has each of its children once,    *)
(* linked both ways, and clear would reach exactly what is below it.       *)
LinksAreTree ==
  \A n \in DOMAIN live :
    LET list == Siblings(heap.child[n]) IN
    /\ heap.parent[n] = live[n]
    /\ ToSet(list) = {m \in DOMAIN live : live[m] = n} /\ Len(list) = Cardinality(ToSet(list))
    /\ \A k \in 1 .. Len(list) : heap.prev[list[k]] = IF k = 1 THEN Null ELSE list[k - 1]
    /\ Cleared(heap, heap.child[n]) = {m \in DOMAIN live : m # n /\ n \in Above(m)}
=============================================================================

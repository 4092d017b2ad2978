-------------------------------- MODULE Treap -------------------------------
(***************************************************************************)
(* Treap (heaplayers/experimental/treap.h): a search tree on keys that is  *)
(* a heap on priorities, smallest at the root, kept so by rotations.  A    *)
(* node has parent and child pointers, and equal keys are allowed.  live   *)
(* is the set of nodes inserted and not removed.                           *)
(***************************************************************************)
EXTENDS Layer

CONSTANTS TreapNodes, TreapKeys, Priorities

Sides == {"left", "right"}
Other(s) == IF s = "left" THEN "right" ELSE "left"

(* Treap::Node and Treap::Treap                                            *)
Empty == [root |-> Null,
          child |-> [s \in Sides |-> [n \in TreapNodes |-> Null]],
          parent |-> [n \in TreapNodes |-> Null],
          key |-> [n \in TreapNodes |-> Null],
          priority |-> [n \in TreapNodes |-> Null]]

(* The pointer to node, in its parent or at the root, becomes one to new.  *)
Replaced(t, node, new) ==
  LET p == t.parent[node] IN
  IF p = Null THEN [t EXCEPT !.root = new]
  ELSE IF t.child["left"][p] = node THEN [t EXCEPT !.child["left"][p] = new]
  ELSE [t EXCEPT !.child["right"][p] = new]

(* Mutant: the child that changes its parent keeps the old parent pointer. *)
AdoptedNot(t, node, n) == t

(* n, if it is a node, has node for a parent.                              *)
Adopted(t, node, n) == IF n = Null THEN t ELSE [t EXCEPT !.parent[n] = node]

(* The child of node on side s takes its place, and node becomes its child *)
(* on the other side.                                                      *)
Rotated(t, node, s) ==
  LET up    == t.child[s][node]
      inner == t.child[Other(s)][up]
      a     == Adopted([t EXCEPT !.child[s][node] = inner], node, inner)
      b     == Replaced([a EXCEPT !.parent[up] = t.parent[node]], node, up)
  IN  [b EXCEPT !.child[Other(s)][up] = node, !.parent[node] = up]

rotateLeft(t, node)  == Rotated(t, node, "right")
rotateRight(t, node) == Rotated(t, node, "left")

-----------------------------------------------------------------------------
RECURSIVE InsertionParent(_, _, _, _)
InsertionParent(t, key, parent, node) ==
  IF node = Null THEN parent
  ELSE InsertionParent(t, key, node, t.child[IF key < t.key[node] THEN "left" ELSE "right"][node])

RECURSIVE MovedUp(_, _)
MovedUp(t, node) ==
  LET p == t.parent[node] IN
  IF p = Null \/ t.priority[p] <= t.priority[node] THEN t
  ELSE MovedUp(IF t.child["left"][p] = node THEN rotateRight(t, p) ELSE rotateLeft(t, p), node)

insert(t, n, key, priority) ==
  LET p == InsertionParent(t, key, Null, t.root)
      a == [t EXCEPT !.key[n] = key, !.priority[n] = priority, !.parent[n] = p,
                     !.child["left"][n] = Null, !.child["right"][n] = Null]
  IN  MovedUp(IF p = Null THEN [a EXCEPT !.root = n]
              ELSE [a EXCEPT !.child[IF key < t.key[p] THEN "left" ELSE "right"][p] = n], n)

RECURSIVE MovedDown(_, _)
MovedDown(t, node) ==
  LET l == t.child["left"][node]
      r == t.child["right"][node]
  IN  IF l = Null /\ r = Null THEN t
      ELSE IF r = Null \/ (l # Null /\ t.priority[l] < t.priority[r])
           THEN MovedDown(rotateRight(t, node), node)
           ELSE MovedDown(rotateLeft(t, node), node)

(* The fields of a node that left the tree are the caller's (zeros here).  *)
Forgotten(t, n) == [t EXCEPT !.key[n] = Null, !.priority[n] = Null, !.parent[n] = Null]

remove(t, node) == LET a == MovedDown(t, node) IN Forgotten(Replaced(a, node, Null), node)

RECURSIVE lookup(_, _, _)
lookup(t, key, node) ==
  IF node = Null \/ t.key[node] = key THEN node
  ELSE lookup(t, key, t.child[IF key < t.key[node] THEN "left" ELSE "right"][node])

RECURSIVE lookupGeq(_, _, _, _)
lookupGeq(t, key, node, best) ==
  IF node = Null THEN best
  ELSE IF t.key[node] = key THEN node
  ELSE IF t.key[node] < key THEN lookupGeq(t, key, t.child["right"][node], best)
  ELSE lookupGeq(t, key, t.child["left"][node],
                 IF best = Null \/ t.key[best] > t.key[node] THEN node ELSE best)

(* The nodes that deleteTreap deletes.                                     *)
RECURSIVE Deleted(_, _)
Deleted(t, node) ==
  IF node = Null THEN {}
  ELSE {node} \cup Deleted(t, t.child["left"][node]) \cup Deleted(t, t.child["right"][node])

-----------------------------------------------------------------------------
Init == heap = Empty /\ live = {} /\ calls = 0

Insert(n, key, priority) ==
  /\ n \notin live /\ heap' = insert(heap, n, key, priority) /\ live' = live \cup {n}

Remove(n) == n \in live /\ heap' = remove(heap, n) /\ live' = live \ {n}

Delete == live # {} /\ live' = live \ Deleted(heap, heap.root) /\ heap' = Empty

Next ==
  /\ calls' = calls
  /\ \/ \E n \in TreapNodes, key \in TreapKeys, priority \in Priorities : Insert(n, key, priority)
     \/ \E n \in TreapNodes : Remove(n)
     \/ Delete

Spec == Init /\ [][Next]_vars

-----------------------------------------------------------------------------
RECURSIVE heapProperty(_, _)
heapProperty(node, lbound) ==
  node # Null =>
    /\ heap.priority[node] >= lbound
    /\ \A s \in Sides : heapProperty(heap.child[s][node], heap.priority[node])

RECURSIVE bstProperty(_, _, _)
bstProperty(node, lbound, ubound) ==
  node # Null =>
    /\ heap.key[node] \in lbound .. ubound
    /\ bstProperty(heap.child["left"][node], lbound, heap.key[node])
    /\ bstProperty(heap.child["right"][node], heap.key[node], ubound)

(* After any inserts and removals the tree is a treap of exactly the nodes *)
(* put in, its parent pointers lead back, and a lookup finds a key that is *)
(* there, or the smallest one that is not less.                            *)
TreapIsOrdered ==
  /\ Deleted(heap, heap.root) = live
  /\ heapProperty(heap.root, 0) /\ bstProperty(heap.root, 0, 1000)
  /\ \A n \in live, s \in Sides :
       heap.child[s][n] # Null => heap.parent[heap.child[s][n]] = n
  /\ \A k \in TreapKeys :
       LET Geq == {heap.key[n] : n \in live} \ (0 .. k - 1)
           g   == lookupGeq(heap, k, heap.root, Null)
       IN  /\ (lookup(heap, k, heap.root) # Null) = (k \in Geq)
           /\ IF Geq = {} THEN g = Null
              ELSE g \in live /\ heap.key[g] \in Geq /\ \A q \in Geq : heap.key[g] <= q
=============================================================================

----------------------------- MODULE Containers -----------------------------
(***************************************************************************)
(* The containers that heap layers keep their own data in: a hash map and  *)
(* a stack on an array that grows and shrinks.                             *)
(***************************************************************************)
EXTENDS Layer, Sequences, SequencesExt

-----------------------------------------------------------------------------
(***************************************************************************)
(* MyHashMap (heaplayers/util/myhashmap.h): bins of linked nodes.  The     *)
(* allocator is external and gives any node that is not in use; live is    *)
(* the map that the calls made (history), calls what the last get found.   *)
(***************************************************************************)
CONSTANTS HashKeys, HashValues, HashNodes, HashBins

BinOf(k) == k % HashBins            \* hash(k) % num_bins

Bins == 0 .. HashBins - 1

(* MyHashMap                                                               *)
HashInit ==
  /\ heap = [bins |-> [i \in Bins |-> Null], key |-> [n \in HashNodes |-> Null],
             value |-> [n \in HashNodes |-> Null], next |-> [n \in HashNodes |-> Null]]
  /\ live = [k \in {} |-> Null] /\ calls = 0

(* The node of key k from n on, or NULL.                                   *)
RECURSIVE Found(_, _, _)
Found(h, k, n) == IF n = Null \/ h.key[n] = k THEN n ELSE Found(h, k, h.next[n])

RECURSIVE NodesFrom(_, _)
NodesFrom(h, n) == IF n = Null THEN <<>> ELSE <<n>> \o NodesFrom(h, h.next[n])

Allocated(h) == UNION {ToSet(NodesFrom(h, h.bins[i])) : i \in Bins}

insert(h, k, v, n) ==
  [h EXCEPT !.key[n] = k, !.value[n] = v, !.next[n] = h.bins[BinOf(k)], !.bins[BinOf(k)] = n]

set(k, v) ==
  LET n == Found(heap, k, heap.bins[BinOf(k)]) IN
  /\ IF n # Null THEN heap' = [heap EXCEPT !.value[n] = v]
     ELSE \E m \in HashNodes \ Allocated(heap) : heap' = insert(heap, k, v, m)
  /\ live' = (k :> v) @@ live /\ UNCHANGED calls

(* The memory of a freed node is the allocator's (zeros here).             *)
Freed(h, n) == [h EXCEPT !.key[n] = Null, !.value[n] = Null, !.next[n] = Null]

RECURSIVE Before(_, _, _)
Before(h, n, m) == IF h.next[m] = n THEN m ELSE Before(h, n, h.next[m])

erase(k) ==
  LET first == heap.bins[BinOf(k)]
      n     == Found(heap, k, first)
  IN  /\ heap' = IF n = Null THEN heap
                 ELSE IF n = first THEN Freed([heap EXCEPT !.bins[BinOf(k)] = heap.next[n]], n)
                 ELSE Freed([heap EXCEPT !.next[Before(heap, n, first)] = heap.next[n]], n)
      /\ live' = [j \in DOMAIN live \ {k} |-> live[j]] /\ UNCHANGED calls

clear ==
  /\ heap' = [bins |-> [i \in Bins |-> Null], key |-> [n \in HashNodes |-> Null],
              value |-> [n \in HashNodes |-> Null], next |-> [n \in HashNodes |-> Null]]
  /\ live' = [k \in {} |-> Null] /\ UNCHANGED calls

HashNext ==
  \/ \E k \in HashKeys : erase(k) \/ \E v \in HashValues : set(k, v)
  \/ clear

-----------------------------------------------------------------------------
(* get and find_bool: the value of k, or none.                             *)
get(k) == LET n == Found(heap, k, heap.bins[BinOf(k)]) IN IF n = Null THEN Null ELSE heap.value[n]

(* What ++ visits from node n of bin i on.                                 *)
RECURSIVE Iteration(_, _)
Iteration(n, i) ==
  LET later == {j \in Bins : j > i /\ heap.bins[j] # Null} IN
  IF n = Null THEN <<>>
  ELSE <<n>> \o IF heap.next[n] # Null THEN Iteration(heap.next[n], i)
                ELSE IF later = {} THEN <<>> ELSE Iteration(heap.bins[Min(later)], Min(later))

(* The hash map is the map that its calls made, with one node for each     *)
(* key; and an iteration from the first node of bin 0 meets each once.     *)
HashMapIsMap ==
  /\ \A k \in HashKeys : get(k) = IF k \in DOMAIN live THEN live[k] ELSE Null
  /\ Cardinality(Allocated(heap)) = Cardinality(DOMAIN live)
  /\ heap.bins[0] # Null =>
       LET it == Iteration(heap.bins[0], 0) IN
       Len(it) = Cardinality(DOMAIN live) /\ ToSet(it) = Allocated(heap)

-----------------------------------------------------------------------------
(***************************************************************************)
(* DynStack (heaplayers/obstackreap.h) on the DynamicArray of              *)
(* util/dynarray.h, which grows when an index is past its end and shrinks  *)
(* when a quarter is enough.  live is the stack as its callers know it.    *)
(***************************************************************************)
CONSTANTS Items, MaxDepth

Undefined == 99        \* what new memory holds

(* DynamicArray: the element at index i of the code is element i + 1.      *)
Grown(array, index) ==
  IF index >= Len(array)
  THEN array \o [k \in 1 .. (index * 2 + 1) - Len(array) |-> Undefined]
  ELSE array

AtPut(array, index, x) == [Grown(array, index) EXCEPT ![index + 1] = x]

(* memcpy of nelts elements to an array of 2 * nelts.                      *)
trim(array, nelts) ==
  IF array # <<>> /\ nelts * 4 < Len(array)
  THEN SubSeq(array, 1, nelts) \o [k \in 1 .. nelts |-> Undefined]
  ELSE array

StackInit == heap = [items |-> AtPut(<<>>, 0, Null), numItems |-> 0] /\ live = <<>> /\ calls = 0

push(x) ==
  /\ heap.numItems < MaxDepth
  /\ heap' = [items |-> AtPut(heap.items, heap.numItems + 1, x), numItems |-> heap.numItems + 1]
  /\ live' = Append(live, x) /\ UNCHANGED calls

(* pop, and what it returns.                                               *)
pop ==
  /\ calls' = 0
  /\ IF heap.numItems = 0 THEN UNCHANGED <<heap, live>>
     ELSE /\ heap' = [items |-> trim(heap.items, heap.numItems), numItems |-> heap.numItems - 1]
          /\ live' = Front(live)

top == IF heap.numItems > 0 THEN heap.items[heap.numItems + 1] ELSE Null

StackNext == pop \/ \E x \in Items : push(x)

-----------------------------------------------------------------------------
(* However the array grew and shrank, the stack has what was pushed and    *)
(* not popped, and room in its array, of which a quarter may be in use.    *)
StackIsKept ==
  /\ SubSeq(heap.items, 2, heap.numItems + 1) = live
  /\ top = IF live = <<>> THEN Null ELSE Last(live)
  /\ Len(heap.items) <= 4 * (heap.numItems + 1) + 1
=============================================================================

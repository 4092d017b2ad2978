---------------------------- MODULE CircularList ----------------------------
(***************************************************************************)
(* The circular doubly linked list of thread_lib/include/list.h, in which  *)
(* class determ keeps waiters, active threads and condition variables.  An *)
(* operation moves pointers of up to three entries and perhaps the head;   *)
(* queue is the sequence the list stands for (history).                    *)
(***************************************************************************)
EXTENDS Naturals, Sequences, SequencesExt

CONSTANTS Entries, Lists, NoEntry

VARIABLES head, next, prev, queue

vars == <<head, next, prev, queue>>

Linked == UNION {ToSet(queue[l]) : l \in Lists}

(* An empty list gets its first entry.                                     *)
Alone(e, l) ==
  /\ head' = [head EXCEPT ![l] = e]
  /\ next' = [next EXCEPT ![e] = e]
  /\ prev' = [prev EXCEPT ![e] = e]

(* e goes between p and p->next.                                           *)
LinkAfter(e, p) ==
  /\ next' = [next EXCEPT ![p] = e, ![e] = next[p]]
  /\ prev' = [prev EXCEPT ![next[p]] = e, ![e] = p]
  /\ UNCHANGED head

insertTail(e, l) ==
  /\ e \notin Linked
  /\ IF head[l] = NoEntry THEN Alone(e, l) ELSE LinkAfter(e, prev[head[l]])
  /\ queue' = [queue EXCEPT ![l] = Append(@, e)]

(* The list is not empty, and the entry comes second.                      *)
insertHead(e, l) ==
  /\ e \notin Linked /\ head[l] # NoEntry
  /\ LinkAfter(e, head[l])
  /\ queue' = [queue EXCEPT ![l] = <<Head(@), e>> \o Tail(@)]

insertNext(e, l, i) ==
  /\ e \notin Linked /\ i \in 1 .. Len(queue[l])
  /\ LinkAfter(e, queue[l][i])
  /\ queue' = [queue EXCEPT ![l] = InsertAt(@, i + 1, e)]

(* Mutant: a list whose head is removed keeps its head pointer.            *)
HeadKept(e, l) == head[l]

NewHead(e, l) == IF head[l] = e THEN next[e] ELSE head[l]

Unlink(e, l) ==
  IF prev[e] = e /\ next[e] = e
  THEN head' = [head EXCEPT ![l] = NoEntry] /\ UNCHANGED <<next, prev>>
  ELSE /\ next' = [next EXCEPT ![prev[e]] = next[e]]
       /\ prev' = [prev EXCEPT ![next[e]] = prev[e]]
       /\ head' = [head EXCEPT ![l] = NewHead(e, l)]

removeEntry(e, l) ==
  /\ e \in ToSet(queue[l])
  /\ Unlink(e, l)
  /\ queue' = [queue EXCEPT ![l] = RemoveFirst(@, e)]

removeHeadEntry(l) ==
  /\ head[l] # NoEntry
  /\ Unlink(head[l], l)
  /\ queue' = [queue EXCEPT ![l] = Tail(@)]

(* The whole of src goes behind the entry p of l.                          *)
moveWholeList(l, i, src) ==
  LET p == queue[l][i]
      n == next[p]
      srchead == head[src]
      srctail == prev[srchead] IN
  /\ src # l /\ head[src] # NoEntry /\ i \in 1 .. Len(queue[l])
  /\ next' = [next EXCEPT ![srctail] = n, ![p] = srchead]
  /\ prev' = [prev EXCEPT ![n] = srctail, ![srchead] = p]
  /\ head' = [head EXCEPT ![src] = NoEntry]
  /\ queue' = [queue EXCEPT ![l] = SubSeq(@, 1, i) \o queue[src] \o SubSeq(@, i + 1, Len(@)),
                            ![src] = <<>>]

Init ==
  /\ head = [l \in Lists |-> NoEntry]
  /\ next = [e \in Entries |-> NoEntry] /\ prev = [e \in Entries |-> NoEntry]
  /\ queue = [l \in Lists |-> <<>>]

Next ==
  \E l \in Lists :
    \/ removeHeadEntry(l)
    \/ \E e \in Entries : insertTail(e, l) \/ insertHead(e, l) \/ removeEntry(e, l)
    \/ \E e \in Entries, i \in DOMAIN queue[l] : insertNext(e, l, i)
    \/ \E src \in Lists, i \in DOMAIN queue[l] : moveWholeList(l, i, src)

Spec == Init /\ [][Next]_vars

-----------------------------------------------------------------------------
Successor(q, i) == q[(i % Len(q)) + 1]

(* The ring is the queue: from the head, forwards and backwards, exactly   *)
(* the entries that were inserted and not removed, in order.               *)
RingIsQueue ==
  \A l \in Lists :
    /\ head[l] = IF queue[l] = <<>> THEN NoEntry ELSE Head(queue[l])
    /\ \A i \in DOMAIN queue[l] :
         /\ next[queue[l][i]] = Successor(queue[l], i)
         /\ prev[Successor(queue[l], i)] = queue[l][i]
=============================================================================

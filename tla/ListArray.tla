----------------------------- MODULE ListArray ------------------------------
(***************************************************************************)
(* The array-based list of active threads in the kernel module             *)
(* (listarray.h).  The system calls change it under group_info->lock; an   *)
(* NMI does not follow its links but visits 0 .. max_index.                *)
(* members is the sequence the list stands for (history).                  *)
(***************************************************************************)
EXTENDS Integers, Sequences, SequencesExt

CONSTANT MaxSize      \* LISTARRAY_MAX_SIZE

NULL    == -1
DEAD    == MaxSize + 1
Indices == 0 .. MaxSize - 1

VARIABLES head, tail, next, prev, count, max_index, members

vars == <<head, tail, next, prev, count, max_index, members>>

in_list(i) == next[i] # DEAD /\ prev[i] # DEAD

(* listarray_insert; its BUG_ON asks that i is not in the list.            *)
insert(i) ==
  /\ next[i] = DEAD /\ prev[i] = DEAD
  /\ head' = IF tail = NULL THEN i ELSE head
  /\ next' = IF tail = NULL THEN [next EXCEPT ![i] = NULL]
             ELSE [next EXCEPT ![tail] = i, ![i] = NULL]
  /\ prev' = [prev EXCEPT ![i] = tail]
  /\ tail' = i
  /\ count' = count + 1
  /\ max_index' = IF i > max_index THEN i ELSE max_index
  /\ members' = Append(members, i)

NewTail(i) == IF next[i] = NULL THEN prev[i] ELSE tail

(* listarray_remove: the only, the first, the last, or one in between.     *)
remove(i) ==
  /\ count > 0 /\ in_list(i)
  /\ head' = IF prev[i] = NULL THEN next[i] ELSE head
  /\ tail' = NewTail(i)
  /\ next' = [j \in Indices |-> IF j = i THEN DEAD ELSE IF j = prev[i] THEN next[i] ELSE next[j]]
  /\ prev' = [j \in Indices |-> IF j = i THEN DEAD ELSE IF j = next[i] THEN prev[i] ELSE prev[j]]
  /\ count' = count - 1
  /\ members' = RemoveFirst(members, i)
  /\ UNCHANGED max_index

Init ==
  /\ head = NULL /\ tail = NULL
  /\ next = [i \in Indices |-> DEAD] /\ prev = [i \in Indices |-> DEAD]
  /\ count = 0 /\ max_index = 0
  /\ members = <<>>

Next == \E i \in Indices : insert(i) \/ remove(i)

Spec == Init /\ [][Next]_vars

-----------------------------------------------------------------------------
At(i) == IF i \in DOMAIN members THEN members[i] ELSE NULL

(* The links are the list, both ways; an entry is marked dead exactly when *)
(* it is not in it; and the NMI's walk visits every member.                *)
LinksAreMembers ==
  /\ head = At(1) /\ tail = At(Len(members)) /\ count = Len(members)
  /\ \A i \in DOMAIN members :
       next[members[i]] = At(i + 1) /\ prev[members[i]] = At(i - 1)
  /\ \A i \in Indices : in_list(i) <=> i \in ToSet(members)
  /\ \A i \in ToSet(members) : i <= max_index
=============================================================================

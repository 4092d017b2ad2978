-------------------------- MODULE SharedPartsProofs -------------------------
(***************************************************************************)
(* What the threads share, each part for all values of its constants that  *)
(* the theorem allows: lists whose links are queues, a pool that hands     *)
(* arguments over, and mutexes that exclude.                               *)
(***************************************************************************)
EXTENDS SharedParts, SequenceTheorems, FiniteSetTheorems, TLAPS

-----------------------------------------------------------------------------
(***************************************************************************)
(* Sequences without one of their elements.                                *)
(***************************************************************************)
(* A sequence without its k-th element.                                    *)
Without(r, q, k) ==
  Len(r) = Len(q) - 1 /\ \A j \in 1 .. Len(q) - 1 : r[j] = IF j < k THEN q[j] ELSE q[j + 1]

(* SubSeq and \o make one.                                                 *)
LEMMA SeqRemoved ==
  ASSUME NEW S, NEW q \in Seq(S), NEW k \in 1 .. Len(q), NEW r, r = SubSeq(q, 1, k - 1) \o SubSeq(q, k + 1, Len(q))
  PROVE  r \in Seq(S) /\ Without(r, q, k)
<1>0. PICK n \in Nat : n = Len(q)
  OBVIOUS
<1>1. k \in Int /\ k - 1 \in Int /\ k + 1 \in Int /\ n \in Int /\ 1 \in Int /\ 1 <= k /\ k <= n
  BY <1>0
<1>2. (\A i \in 1 .. k - 1 : q[i] \in S) /\ (\A i \in k + 1 .. n : q[i] \in S)
  BY <1>0, <1>1
<1>a. PICK a : a = SubSeq(q, 1, k - 1)
  OBVIOUS
<1>b. PICK b : b = SubSeq(q, k + 1, n)
  OBVIOUS
<1>3. /\ a \in Seq(S) /\ Len(a) = k - 1 /\ \A i \in 1 .. k - 1 : a[i] = q[i]
  <2>1. PICK m \in Int : m = k - 1
    BY <1>1
  <2>2. /\ a \in Seq(S) /\ Len(a) = (IF 1 <= m THEN m - 1 + 1 ELSE 0)
        /\ \A i \in 1 .. m - 1 + 1 : a[i] = q[1 + i - 1]
    BY <1>1, <1>2, <1>a, <2>1, SubSeqProperties
  <2>3. m >= 0 /\ m - 1 + 1 = m /\ \A i \in 1 .. m : 1 + i - 1 = i
    BY <1>1, <2>1
  <2> QED
    BY <2>1, <2>2, <2>3
<1>4. /\ b \in Seq(S) /\ Len(b) = n - k /\ \A i \in 1 .. n - k : b[i] = q[k + i]
  <2>1. PICK m \in Int : m = k + 1
    BY <1>1
  <2>2. /\ b \in Seq(S) /\ Len(b) = (IF m <= n THEN n - m + 1 ELSE 0)
        /\ \A i \in 1 .. n - m + 1 : b[i] = q[m + i - 1]
    BY <1>1, <1>2, <1>b, <2>1, SubSeqProperties
  <2>3. n - m + 1 = n - k /\ (\A i \in 1 .. n - k : m + i - 1 = k + i) /\ (IF m <= n THEN n - m + 1 ELSE 0) = n - k
    BY <1>1, <2>1
  <2> QED
    BY <2>2, <2>3
<1>5. r = a \o b
  BY <1>0, <1>a, <1>b
<1>6. /\ r \in Seq(S) /\ Len(r) = Len(a) + Len(b)
      /\ \A i \in 1 .. Len(a) + Len(b) : r[i] = IF i <= Len(a) THEN a[i] ELSE b[i - Len(a)]
  <2>1. a \in Seq(S) /\ b \in Seq(S)
    BY <1>3, <1>4
  <2>2. /\ a \o b \in Seq(S) /\ Len(a \o b) = Len(a) + Len(b)
        /\ \A i \in 1 .. Len(a) + Len(b) : (a \o b)[i] = IF i <= Len(a) THEN a[i] ELSE b[i - Len(a)]
    BY <2>1, ConcatProperties
  <2> QED
    BY <1>5, <2>2, Zenon
<1>7. Len(a) + Len(b) = n - 1 /\ Len(a) = k - 1
  BY <1>1, <1>3, <1>4
<1>8. ASSUME NEW i \in 1 .. n - 1 PROVE r[i] = IF i < k THEN q[i] ELSE q[i + 1]
  <2>0. r[i] = IF i <= k - 1 THEN a[i] ELSE b[i - (k - 1)]
    BY <1>6, <1>7
  <2>1. CASE i < k
    <3>1. i <= k - 1 /\ i \in 1 .. k - 1
      BY <1>1, <2>1
    <3> QED
      BY <1>3, <2>0, <2>1, <3>1
  <2>2. CASE ~(i < k)
    <3>1. ~(i <= k - 1) /\ i - (k - 1) \in 1 .. n - k /\ k + (i - (k - 1)) = i + 1
      BY <1>1, <2>2
    <3>2. PICK j \in 1 .. n - k : j = i - (k - 1)
      BY <3>1
    <3> QED
      BY <1>4, <2>0, <2>2, <3>1, <3>2
  <2> QED
    BY <2>1, <2>2
<1> QED
  BY <1>0, <1>6, <1>7, <1>8 DEF Without

-----------------------------------------------------------------------------
(***************************************************************************)
(* ListArray: the kernel's list of active threads.                         *)
(***************************************************************************)
(* The links are those of the sequence, and every index is in it or dead.  *)
ArrayLinks(q) ==
  /\ first = (IF Len(q) = 0 THEN -1 ELSE q[1]) /\ last = (IF Len(q) = 0 THEN -1 ELSE q[Len(q)])
  /\ active = Len(q)
  /\ \A i \in 1 .. Len(q) :
       /\ following[q[i]] = (IF i = Len(q) THEN -1 ELSE q[i + 1])
       /\ preceding[q[i]] = (IF i = 1 THEN -1 ELSE q[i - 1])

ArrayInv ==
  /\ following \in [Array!Indices -> Int] /\ preceding \in [Array!Indices -> Int] /\ max_index \in Int
  /\ members \in Seq(Array!Indices)
  /\ \A i, j \in 1 .. Len(members) : members[i] = members[j] => i = j
  /\ ArrayLinks(members)
  /\ \A i \in Array!Indices :
       (\E k \in 1 .. Len(members) : members[k] = i) \/ (following[i] = MaxSize + 1 /\ preceding[i] = MaxSize + 1)
  /\ \A k \in 1 .. Len(members) : members[k] <= max_index

(* RemoveFirst takes the only occurrence.                                  *)
LEMMA ArrayRemoved ==
  ASSUME NEW S, NEW q \in Seq(S), NEW k \in 1 .. Len(q), \A i \in 1 .. Len(q) : q[i] = q[k] => i = k,
         NEW r, r = Array!RemoveFirst(q, q[k])
  PROVE  r \in Seq(S) /\ Without(r, q, k)
<1>1. {i \in 1 .. Len(q) : q[i] = q[k]} = {k}
  OBVIOUS
<1>2. Array!SelectInSeq(q, LAMBDA v : v = q[k]) = k
  BY <1>1 DEF Array!SelectInSeq, Array!Min
<1>3. r = SubSeq(q, 1, k - 1) \o SubSeq(q, k + 1, Len(q))
  BY <1>2 DEF Array!RemoveFirst, Array!RemoveAt
<1> QED
  BY <1>3, SeqRemoved

(* The links of a sequence lead to indices or to NULL, never to DEAD.      *)
LEMMA ArrayAlive ==
  ASSUME MaxSize \in Nat, ArrayInv
  PROVE  /\ \A k \in 1 .. Len(members) : following[members[k]] # MaxSize + 1 /\ preceding[members[k]] # MaxSize + 1
         /\ \A k \in 1 .. Len(members) : members[k] \in Array!Indices /\ members[k] \in Int /\ members[k] # -1
         /\ \A i \in Array!Indices : Array!in_list(i) <=> \E k \in 1 .. Len(members) : members[k] = i
<1>1. \A k \in 1 .. Len(members) : members[k] \in Array!Indices
  BY DEF ArrayInv
<1>2. \A i \in Array!Indices : i \in Int /\ i # -1 /\ i # MaxSize + 1
  BY DEF Array!Indices
<1>3. ASSUME NEW k \in 1 .. Len(members)
      PROVE  following[members[k]] # MaxSize + 1 /\ preceding[members[k]] # MaxSize + 1
  <2>0. Len(members) \in Nat /\ -1 # MaxSize + 1
    BY DEF ArrayInv
  <2>1. following[members[k]] = (IF k = Len(members) THEN -1 ELSE members[k + 1])
        /\ preceding[members[k]] = (IF k = 1 THEN -1 ELSE members[k - 1])
    BY DEF ArrayInv, ArrayLinks
  <2>2. (k # Len(members) => k + 1 \in 1 .. Len(members)) /\ (k # 1 => k - 1 \in 1 .. Len(members))
    BY <2>0
  <2> QED
    BY <1>1, <1>2, <2>0, <2>1, <2>2
<1>4. ASSUME NEW i \in Array!Indices PROVE Array!in_list(i) <=> \E k \in 1 .. Len(members) : members[k] = i
  BY <1>3 DEF Array!in_list, Array!DEAD, ArrayInv
<1> QED
  BY <1>1, <1>2, <1>3, <1>4

(* Initially the list is empty.                                            *)
LEMMA ArrayInitially ==
  ASSUME MaxSize \in Nat, Array!Init PROVE ArrayInv
<1>1. MaxSize + 1 \in Int /\ Len(<<>>) = 0 /\ <<>> \in Seq(Array!Indices)
  OBVIOUS
<1> QED
  BY <1>1 DEF Array!Init, ArrayInv, ArrayLinks, Array!NULL, Array!DEAD

(* listarray_insert adds at the tail.                                      *)
LEMMA ArrayInserts ==
  ASSUME MaxSize \in Nat, ArrayInv, NEW i \in Array!Indices, Array!insert(i)
  PROVE  ArrayInv'
<1>0. PICK q \in Seq(Array!Indices) : q = members
  BY DEF ArrayInv
<1>n. PICK n \in Nat : n = Len(q)
  OBVIOUS
<1>r. PICK r : r = members'
  OBVIOUS
<1>1. /\ r \in Seq(Array!Indices) /\ Len(r) = n + 1 /\ r[n + 1] = i /\ \A j \in 1 .. n : r[j] = q[j]
  BY <1>0, <1>n, <1>r DEF Array!insert
<1>2. i \in Int /\ i # -1
  BY DEF Array!Indices
<1>3. \A j \in 1 .. n : q[j] # i /\ q[j] \in Array!Indices /\ q[j] # -1 /\ q[j] \in Int
  BY <1>0, <1>n, ArrayAlive DEF Array!insert, Array!DEAD
<1>4. last = IF n = 0 THEN -1 ELSE q[n]
  BY <1>0, <1>n DEF ArrayInv, ArrayLinks
<1>5. following' = [j \in Array!Indices |-> IF j = i THEN -1 ELSE IF n > 0 /\ j = last THEN i ELSE following[j]]
  <2>1. last = -1 <=> n = 0
    BY <1>3, <1>4, <1>n
  <2>2. n > 0 => last \in Array!Indices /\ last # i
    BY <1>3, <1>4, <1>n
  <2>3. following \in [Array!Indices -> Int]
    BY DEF ArrayInv
  <2>4. CASE n = 0
    <3>1. following' = [following EXCEPT ![i] = -1]
      BY <2>1, <2>4 DEF Array!insert, Array!NULL
    <3>2. following' = [j \in Array!Indices |-> IF j = i THEN -1 ELSE following[j]]
      BY <2>3, <3>1
    <3>3. ~(n > 0)
      BY <2>4
    <3> QED
      BY <3>2, <3>3, Zenon
  <2>5. CASE n > 0
    <3>1. following' = [following EXCEPT ![last] = i, ![i] = -1]
      BY <2>1, <2>5 DEF Array!insert, Array!NULL
    <3> QED
      BY <2>2, <2>3, <2>5, <3>1
  <2> QED
    BY <2>4, <2>5, <1>n
<1>6. preceding' = [j \in Array!Indices |-> IF j = i THEN last ELSE preceding[j]]
  BY DEF ArrayInv, Array!insert
<1>7. last \in Int
  BY <1>3, <1>4, <1>n
<1>8. following' \in [Array!Indices -> Int] /\ preceding' \in [Array!Indices -> Int]
  BY <1>2, <1>5, <1>6, <1>7 DEF ArrayInv
<1>9. max_index' \in Int /\ \A j \in 1 .. n + 1 : r[j] <= max_index'
  <2>1. \A j \in 1 .. n : q[j] <= max_index
    BY <1>0, <1>n DEF ArrayInv
  <2>2. max_index' \in Int /\ i <= max_index' /\ max_index <= max_index' /\ max_index \in Int
    BY <1>2 DEF ArrayInv, Array!insert
  <2>3. \A j \in 1 .. n : q[j] <= max_index'
    BY <1>3, <2>1, <2>2
  <2>4. \A j \in 1 .. n + 1 : j = n + 1 \/ j \in 1 .. n
    BY <1>n
  <2> QED
    BY <1>1, <2>2, <2>3, <2>4
<1>10. \A j, k \in 1 .. n + 1 : r[j] = r[k] => j = k
  <2>1. \A j, k \in 1 .. n : q[j] = q[k] => j = k
    BY <1>0, <1>n DEF ArrayInv
  <2>2. \A j \in 1 .. n + 1 : j = n + 1 \/ j \in 1 .. n
    BY <1>n
  <2> QED
    BY <1>1, <1>3, <2>1, <2>2
<1>11. \A j \in Array!Indices :
         (\E k \in 1 .. n + 1 : r[k] = j) \/ (following'[j] = MaxSize + 1 /\ preceding'[j] = MaxSize + 1)
  <2> SUFFICES ASSUME NEW j \in Array!Indices, \A k \in 1 .. n + 1 : r[k] # j
               PROVE  following'[j] = MaxSize + 1 /\ preceding'[j] = MaxSize + 1
    OBVIOUS
  <2>1. j # i /\ \A k \in 1 .. n : q[k] # j
    BY <1>1, <1>n
  <2>2. following[j] = MaxSize + 1 /\ preceding[j] = MaxSize + 1
    BY <1>0, <1>n, <2>1 DEF ArrayInv
  <2>3. n > 0 => last # j
    BY <1>4, <1>n, <2>1
  <2> QED
    BY <1>5, <1>6, <2>1, <2>2, <2>3
<1>12. /\ first' = r[1] /\ last' = r[n + 1] /\ active' = n + 1
  <2>1. last = -1 <=> n = 0
    BY <1>3, <1>4, <1>n
  <2>2. (n # 0 => first = q[1]) /\ active = n
    BY <1>0, <1>n DEF ArrayInv, ArrayLinks
  <2>3. n # 0 => 1 \in 1 .. n
    BY <1>n
  <2> QED
    BY <1>1, <2>1, <2>2, <2>3 DEF Array!insert, Array!NULL
<1>13. ASSUME NEW j \in 1 .. n + 1
       PROVE  /\ following'[r[j]] = (IF j = n + 1 THEN -1 ELSE r[j + 1])
              /\ preceding'[r[j]] = (IF j = 1 THEN -1 ELSE r[j - 1])
  <2>1. CASE j = n + 1
    <3>1. r[j] = i
      BY <1>1, <2>1
    <3>2. following'[r[j]] = -1 /\ preceding'[r[j]] = last
      BY <1>5, <1>6, <3>1
    <3>3. j # 1 => n \in 1 .. n /\ j - 1 = n /\ r[j - 1] = q[n]
      BY <1>1, <1>n, <2>1
    <3>4. j = 1 <=> n = 0
      BY <1>n, <2>1
    <3> QED
      BY <1>4, <2>1, <3>2, <3>3, <3>4
  <2>2. CASE j # n + 1
    <3>1. j \in 1 .. n /\ r[j] = q[j] /\ q[j] # i /\ q[j] \in Array!Indices /\ n > 0
      BY <1>1, <1>3, <1>n, <2>2
    <3>2. following[q[j]] = (IF j = n THEN -1 ELSE q[j + 1]) /\ preceding[q[j]] = (IF j = 1 THEN -1 ELSE q[j - 1])
      BY <1>0, <1>n, <3>1 DEF ArrayInv, ArrayLinks
    <3>3. preceding'[r[j]] = preceding[q[j]]
          /\ following'[r[j]] = (IF q[j] = last THEN i ELSE following[q[j]])
      BY <1>5, <1>6, <3>1
    <3>4. q[j] = last <=> j = n
      <4>1. \A k \in 1 .. n : q[j] = q[k] => j = k
        BY <1>0, <1>n, <3>1 DEF ArrayInv
      <4> QED
        BY <1>4, <1>n, <3>1, <4>1
    <3>5. (j # n => j + 1 \in 1 .. n /\ r[j + 1] = q[j + 1]) /\ (j # 1 => j - 1 \in 1 .. n /\ r[j - 1] = q[j - 1])
      BY <1>1, <1>n, <3>1
    <3> QED
      BY <1>1, <2>2, <3>2, <3>3, <3>4, <3>5
  <2> QED
    BY <2>1, <2>2
<1> QED
  <2>1. Len(r) = n + 1 /\ n + 1 # 0
    BY <1>1, <1>n
  <2>2. ArrayLinks(members)'
    BY <1>12, <1>13, <1>r, <2>1 DEF ArrayLinks
  <2> QED
    BY <1>1, <1>8, <1>9, <1>10, <1>11, <1>r, <2>1, <2>2 DEF ArrayInv

(* listarray_remove takes out the only occurrence and joins its neighbours.*)
LEMMA ArrayRemoves ==
  ASSUME MaxSize \in Nat, ArrayInv, NEW i \in Array!Indices, Array!remove(i)
  PROVE  ArrayInv'
<1>0. PICK q \in Seq(Array!Indices) : q = members
  BY DEF ArrayInv
<1>n. PICK n \in Nat : n = Len(q)
  OBVIOUS
<1>u. \A j, k \in 1 .. n : q[j] = q[k] => j = k
  BY <1>0, <1>n DEF ArrayInv
<1>k. PICK k \in 1 .. n : q[k] = i
  BY <1>0, <1>n, ArrayAlive DEF Array!remove
<1>r. PICK r : r = members'
  OBVIOUS
<1>1. /\ r \in Seq(Array!Indices) /\ Len(r) = n - 1
      /\ \A j \in 1 .. n - 1 : r[j] = IF j < k THEN q[j] ELSE q[j + 1]
  <2>1. r = Array!RemoveFirst(q, q[k])
    BY <1>0, <1>k, <1>r DEF Array!remove
  <2>2. k \in 1 .. Len(q) /\ \A j \in 1 .. Len(q) : q[j] = q[k] => j = k
    BY <1>n, <1>u
  <2>3. r \in Seq(Array!Indices) /\ Without(r, q, k)
    BY <2>1, <2>2, ArrayRemoved
  <2> QED
    BY <1>n, <2>3 DEF Without
<1>2. \A j \in 1 .. n : q[j] \in Array!Indices /\ q[j] # -1 /\ q[j] \in Int
  BY <1>0, <1>n, ArrayAlive
<1>3. \A j \in 1 .. n :
        following[q[j]] = (IF j = n THEN -1 ELSE q[j + 1]) /\ preceding[q[j]] = (IF j = 1 THEN -1 ELSE q[j - 1])
  BY <1>0, <1>n DEF ArrayInv, ArrayLinks
<1>4. following' = [j \in Array!Indices |-> IF j = i THEN MaxSize + 1
                                            ELSE IF j = preceding[i] THEN following[i] ELSE following[j]]
      /\ preceding' = [j \in Array!Indices |-> IF j = i THEN MaxSize + 1
                                               ELSE IF j = following[i] THEN preceding[i] ELSE preceding[j]]
  BY DEF Array!remove, Array!DEAD
<1>5. following \in [Array!Indices -> Int] /\ preceding \in [Array!Indices -> Int]
  BY DEF ArrayInv
<1>6. following' \in [Array!Indices -> Int] /\ preceding' \in [Array!Indices -> Int]
  BY <1>4, <1>5
<1>7. ASSUME NEW j \in 1 .. n - 1
      PROVE  \E m \in 1 .. n : m # k /\ r[j] = q[m] /\ m = (IF j < k THEN j ELSE j + 1)
  BY <1>1, <1>k, <1>n
<1>8. ASSUME NEW m \in 1 .. n, m # k
      PROVE  \E j \in 1 .. n - 1 : r[j] = q[m]
  <2>1. CASE m < k
    <3>1. m \in 1 .. n - 1
      BY <1>n, <1>k, <2>1
    <3> QED
      BY <1>1, <2>1, <3>1
  <2>2. CASE m > k
    <3>1. m - 1 \in 1 .. n - 1 /\ ~(m - 1 < k) /\ (m - 1) + 1 = m
      BY <1>n, <1>k, <2>2
    <3>2. PICK j \in 1 .. n - 1 : j = m - 1
      BY <3>1
    <3> QED
      BY <1>1, <3>1, <3>2
  <2> QED
    BY <1>8, <1>k, <1>n, <2>1, <2>2
<1>9. max_index' \in Int /\ \A j \in 1 .. n - 1 : r[j] <= max_index'
  <2>1. max_index' = max_index /\ max_index \in Int /\ \A j \in 1 .. n : q[j] <= max_index
    BY <1>0, <1>n DEF ArrayInv, Array!remove
  <2> QED
    BY <1>7, <2>1
<1>10. \A j, m \in 1 .. n - 1 : r[j] = r[m] => j = m
  <2> SUFFICES ASSUME NEW j \in 1 .. n - 1, NEW m \in 1 .. n - 1, r[j] = r[m] PROVE j = m
    OBVIOUS
  <2>1. PICK jj \in 1 .. n : r[j] = q[jj] /\ jj = (IF j < k THEN j ELSE j + 1)
    BY <1>7
  <2>2. PICK mm \in 1 .. n : r[m] = q[mm] /\ mm = (IF m < k THEN m ELSE m + 1)
    BY <1>7
  <2>3. jj = mm
    BY <1>u, <2>1, <2>2
  <2> QED
    BY <1>k, <1>n, <2>1, <2>2, <2>3
<1>11. \A j \in Array!Indices :
         (\E m \in 1 .. n - 1 : r[m] = j) \/ (following'[j] = MaxSize + 1 /\ preceding'[j] = MaxSize + 1)
  <2> SUFFICES ASSUME NEW j \in Array!Indices, \A m \in 1 .. n - 1 : r[m] # j
               PROVE  following'[j] = MaxSize + 1 /\ preceding'[j] = MaxSize + 1
    OBVIOUS
  <2>1. CASE j = i
    BY <1>4, <2>1
  <2>2. CASE j # i
    <3>1. \A m \in 1 .. n : q[m] # j
      BY <1>8, <1>k, <2>2
    <3>2. following[j] = MaxSize + 1 /\ preceding[j] = MaxSize + 1
      BY <1>0, <1>n, <3>1 DEF ArrayInv
    <3>3. j # -1
      BY DEF Array!Indices
    <3>4. (k # n => k + 1 \in 1 .. n) /\ (k # 1 => k - 1 \in 1 .. n)
      BY <1>k, <1>n
    <3>5. following[i] = (IF k = n THEN -1 ELSE q[k + 1]) /\ preceding[i] = (IF k = 1 THEN -1 ELSE q[k - 1])
      BY <1>3, <1>k
    <3>6. (k # n => q[k + 1] # j) /\ (k # 1 => q[k - 1] # j)
      BY <3>1, <3>4
    <3>7. j # following[i] /\ j # preceding[i]
      BY <3>3, <3>5, <3>6
    <3> QED
      BY <1>4, <2>2, <3>2, <3>7
  <2> QED
    BY <2>1, <2>2
<1>12. /\ active' = n - 1
       /\ first' = (IF n - 1 = 0 THEN -1 ELSE r[1])
       /\ last' = (IF n - 1 = 0 THEN -1 ELSE r[n - 1])
  <2>1. first = q[1] /\ last = q[n] /\ active = n
    BY <1>0, <1>k, <1>n DEF ArrayInv, ArrayLinks
  <2>2. /\ active' = active - 1
        /\ first' = (IF preceding[i] = -1 THEN following[i] ELSE first)
        /\ last' = (IF following[i] = -1 THEN preceding[i] ELSE last)
    BY DEF Array!remove, Array!NULL, Array!NewTail
  <2>3. following[i] = (IF k = n THEN -1 ELSE q[k + 1]) /\ preceding[i] = (IF k = 1 THEN -1 ELSE q[k - 1])
    BY <1>3, <1>k
  <2>4. (k # n => k + 1 \in 1 .. n) /\ (k # 1 => k - 1 \in 1 .. n)
    BY <1>k, <1>n
  <2>5. following[i] = -1 <=> k = n
    BY <1>2, <2>3, <2>4
  <2>6. preceding[i] = -1 <=> k = 1
    BY <1>2, <2>3, <2>4
  <2>7. n - 1 # 0 => 1 \in 1 .. n - 1 /\ n - 1 \in 1 .. n - 1
    BY <1>k, <1>n
  <2>8. n - 1 # 0 => r[1] = (IF k = 1 THEN q[k + 1] ELSE q[1])
    BY <1>1, <1>k, <1>n, <2>7
  <2>9. n - 1 # 0 => r[n - 1] = (IF k = n THEN q[k - 1] ELSE q[n])
    <3>1. n - 1 < k <=> k = n
      BY <1>k, <1>n
    <3>2. (n - 1) + 1 = n /\ (k = n => k - 1 = n - 1)
      BY <1>n
    <3> QED
      BY <1>1, <2>7, <3>1, <3>2
  <2>10. n - 1 = 0 => k = 1 /\ k = n
    <3>1. n = 1 => k = 1
      OBVIOUS
    <3>2. n - 1 = 0 => n = 1
      OBVIOUS
    <3> QED
      BY <3>1, <3>2
  <2>11. n - 1 # 0 => ~(k = 1 /\ k = n)
    BY <1>k, <1>n
  <2> QED
    BY <2>1, <2>2, <2>3, <2>5, <2>6, <2>8, <2>9, <2>10, <2>11
<1>13. ASSUME NEW j \in 1 .. n - 1
       PROVE  /\ following'[r[j]] = (IF j = n - 1 THEN -1 ELSE r[j + 1])
              /\ preceding'[r[j]] = (IF j = 1 THEN -1 ELSE r[j - 1])
  <2>1. PICK m \in 1 .. n : m # k /\ r[j] = q[m] /\ m = (IF j < k THEN j ELSE j + 1)
    BY <1>7
  <2>2. q[m] # i /\ q[m] \in Array!Indices /\ q[m] # -1
    BY <1>2, <1>k, <1>u, <2>1
  <2>3. following[i] = (IF k = n THEN -1 ELSE q[k + 1]) /\ preceding[i] = (IF k = 1 THEN -1 ELSE q[k - 1])
    BY <1>3, <1>k
  <2>4. (k # n => k + 1 \in 1 .. n) /\ (k # 1 => k - 1 \in 1 .. n)
    BY <1>k, <1>n
  <2>5. q[m] = preceding[i] <=> k # 1 /\ m = k - 1
    BY <1>u, <2>2, <2>3, <2>4
  <2>6. q[m] = following[i] <=> k # n /\ m = k + 1
    BY <1>u, <2>2, <2>3, <2>4
  <2>7. following'[r[j]] = (IF k # 1 /\ m = k - 1 THEN following[i] ELSE following[q[m]])
    BY <1>4, <2>1, <2>2, <2>5
  <2>8. preceding'[r[j]] = (IF k # n /\ m = k + 1 THEN preceding[i] ELSE preceding[q[m]])
    BY <1>4, <2>1, <2>2, <2>6
  <2>9. following[q[m]] = (IF m = n THEN -1 ELSE q[m + 1]) /\ preceding[q[m]] = (IF m = 1 THEN -1 ELSE q[m - 1])
    BY <1>3
  <2>10. following'[r[j]] = (IF j = n - 1 THEN -1 ELSE r[j + 1])
    <3>1. CASE j < k
      <4>1. m = j
        BY <2>1, <3>1
      <4>2. CASE j = k - 1
        <5>1. k # 1 /\ m = k - 1 /\ (j = n - 1 <=> k = n)
          BY <1>k, <1>n, <4>1, <4>2
        <5>2. j # n - 1 => j + 1 \in 1 .. n - 1 /\ ~(j + 1 < k) /\ (j + 1) + 1 = k + 1
          BY <1>k, <1>n, <4>2
        <5>3. PICK p \in Int : p = j + 1
          BY <1>n
        <5>4. j # n - 1 => r[p] = q[k + 1]
          BY <1>1, <5>2, <5>3
        <5> QED
          BY <2>3, <2>7, <5>1, <5>3, <5>4
      <4>3. CASE j # k - 1
        <5>1. ~(m = k - 1) /\ j # n - 1 /\ m # n /\ j + 1 \in 1 .. n - 1 /\ j + 1 < k
          BY <1>k, <1>n, <3>1, <4>1, <4>3
        <5>2. PICK p \in 1 .. n - 1 : p = j + 1
          BY <5>1
        <5>3. r[p] = q[p]
          BY <1>1, <5>1, <5>2
        <5> QED
          BY <2>7, <2>9, <4>1, <5>1, <5>2, <5>3
      <4> QED
        BY <4>2, <4>3
    <3>2. CASE ~(j < k)
      <4>1. m = j + 1 /\ ~(m = k - 1) /\ (m = n <=> j = n - 1)
        BY <1>k, <1>n, <2>1, <3>2
      <4>2. j # n - 1 => j + 1 \in 1 .. n - 1 /\ ~(j + 1 < k) /\ (j + 1) + 1 = m + 1
        BY <1>k, <1>n, <3>2, <4>1
      <4>3. PICK p \in Int : p = j + 1
        BY <1>n
      <4>4. j # n - 1 => r[p] = q[m + 1]
        BY <1>1, <4>2, <4>3
      <4> QED
        BY <2>7, <2>9, <4>1, <4>3, <4>4
    <3> QED
      BY <3>1, <3>2
  <2>11. preceding'[r[j]] = (IF j = 1 THEN -1 ELSE r[j - 1])
    <3>1. CASE j < k
      <4>1. m = j /\ ~(m = k + 1)
        BY <1>k, <1>n, <2>1, <3>1
      <4>2. j # 1 => j - 1 \in 1 .. n - 1 /\ j - 1 < k
        BY <1>k, <1>n, <3>1
      <4>3. PICK p \in Int : p = j - 1
        BY <1>n
      <4>4. j # 1 => r[p] = q[p]
        BY <1>1, <4>2, <4>3
      <4> QED
        BY <2>8, <2>9, <4>1, <4>3, <4>4
    <3>2. CASE j = k
      <4>1. m = k + 1 /\ k # n
        BY <1>k, <1>n, <2>1, <3>2
      <4>2. j # 1 => j - 1 \in 1 .. n - 1 /\ j - 1 < k
        BY <1>k, <1>n, <3>2
      <4>3. PICK p \in Int : p = j - 1
        BY <1>n
      <4>4. j # 1 => r[p] = q[p]
        BY <1>1, <4>2, <4>3
      <4> QED
        BY <2>3, <2>8, <3>2, <4>1, <4>3, <4>4
    <3>3. CASE j > k
      <4>1. m = j + 1 /\ ~(m = k + 1) /\ m # 1 /\ j # 1
        BY <1>k, <1>n, <2>1, <3>3
      <4>2. j - 1 \in 1 .. n - 1 /\ ~(j - 1 < k) /\ (j - 1) + 1 = m - 1
        BY <1>k, <1>n, <3>3, <4>1
      <4>3. PICK p \in 1 .. n - 1 : p = j - 1
        BY <4>2
      <4>4. r[p] = q[m - 1]
        BY <1>1, <4>2, <4>3
      <4> QED
        BY <2>8, <2>9, <4>1, <4>3, <4>4
    <3> QED
      BY <1>k, <1>n, <3>1, <3>2, <3>3
  <2> QED
    BY <2>10, <2>11
<1> QED
  <2>1. Len(r) = n - 1
    BY <1>1
  <2>2. ArrayLinks(members)'
    BY <1>12, <1>13, <1>r, <2>1 DEF ArrayLinks
  <2> QED
    BY <1>1, <1>6, <1>9, <1>10, <1>11, <1>r, <2>1, <2>2 DEF ArrayInv

(* listarray.h: the links are the list, both ways, an index is marked dead *)
(* exactly when it is not in it, and max_index bounds the NMI's walk.      *)
THEOREM ActiveListIsQueue ==
  ASSUME MaxSize \in Nat
  PROVE  Array!Spec => []Array!LinksAreMembers
<1>1. Array!Init => ArrayInv
  BY ArrayInitially
<1>2. ArrayInv /\ [Array!Next]_Array!vars => ArrayInv'
  <2> SUFFICES ASSUME ArrayInv, [Array!Next]_Array!vars PROVE ArrayInv'
    OBVIOUS
  <2>1. CASE Array!Next
    BY <2>1, ArrayInserts, ArrayRemoves DEF Array!Next
  <2>2. CASE UNCHANGED Array!vars
    BY <2>2 DEF Array!vars, ArrayInv, ArrayLinks
  <2> QED
    BY <2>1, <2>2
<1>3. ArrayInv => Array!LinksAreMembers
  <2> SUFFICES ASSUME ArrayInv PROVE Array!LinksAreMembers
    OBVIOUS
  <2>0. PICK n \in Nat : n = Len(members) /\ DOMAIN members = 1 .. n
    BY DEF ArrayInv
  <2>1. Array!ToSet(members) = {members[i] : i \in 1 .. n}
    BY <2>0 DEF Array!ToSet
  <2>2. first = Array!At(1) /\ last = Array!At(n) /\ active = n
    BY <2>0 DEF ArrayInv, ArrayLinks, Array!At, Array!NULL
  <2>3. ASSUME NEW i \in 1 .. n
        PROVE  following[members[i]] = Array!At(i + 1) /\ preceding[members[i]] = Array!At(i - 1)
    <3>1. following[members[i]] = (IF i = n THEN -1 ELSE members[i + 1])
          /\ preceding[members[i]] = (IF i = 1 THEN -1 ELSE members[i - 1])
      BY <2>0 DEF ArrayInv, ArrayLinks
    <3>2. (i + 1 \in 1 .. n <=> i # n) /\ (i - 1 \in 1 .. n <=> i # 1)
      BY <2>0
    <3> QED
      BY <2>0, <3>1, <3>2 DEF Array!At, Array!NULL
  <2>4. \A i \in Array!Indices : Array!in_list(i) <=> i \in Array!ToSet(members)
    BY <2>0, <2>1, ArrayAlive
  <2>5. \A i \in Array!ToSet(members) : i <= max_index
    BY <2>0, <2>1 DEF ArrayInv
  <2> QED
    BY <2>0, <2>2, <2>3, <2>4, <2>5 DEF Array!LinksAreMembers
<1> QED
  BY <1>1, <1>2, <1>3, PTL DEF Array!Spec

-----------------------------------------------------------------------------
(***************************************************************************)
(* CircularList: rings.                                                    *)
(***************************************************************************)
(* The entry after the i-th, and the sequences that have no entry twice.   *)
After(q, i) == IF i = Len(q) THEN q[1] ELSE q[i + 1]
Different(q) == \A i, j \in 1 .. Len(q) : q[i] = q[j] => i = j

(* The links nx and pv make q a ring, or a piece of one.                   *)
RingOf(q, nx, pv) == \A i \in 1 .. Len(q) : nx[q[i]] = After(q, i) /\ pv[After(q, i)] = q[i]
ChainOf(q, nx, pv) == \A i \in 1 .. Len(q) - 1 : nx[q[i]] = q[i + 1] /\ pv[q[i + 1]] = q[i]

(* A sequence with another one put behind its i-th element.                *)
Joined(r, q, i, s) ==
  /\ Len(r) = Len(q) + Len(s)
  /\ \A j \in 1 .. Len(q) + Len(s) :
       r[j] = IF j <= i THEN q[j] ELSE IF j <= i + Len(s) THEN s[j - i] ELSE q[j - Len(s)]

(* No entry of q is in s; all of r are in q, or in one of q and s.         *)
Apart(q, s) == \A a \in 1 .. Len(q) : \A b \in 1 .. Len(s) : q[a] # s[b]
OfOne(r, q) == \A j \in 1 .. Len(r) : \E a \in 1 .. Len(q) : r[j] = q[a]

(* The links nx2 and pv2 are nx and pv with the chain s put behind the     *)
(* i-th entry of q, or with the entry x taken out.                         *)
LinkedIn(S, nx2, pv2, nx, pv, q, i, s) ==
  \A e \in S : /\ nx2[e] = IF e = s[Len(s)] THEN After(q, i) ELSE IF e = q[i] THEN s[1] ELSE nx[e]
               /\ pv2[e] = IF e = After(q, i) THEN s[Len(s)] ELSE IF e = s[1] THEN q[i] ELSE pv[e]
CutOut(S, nx2, pv2, nx, pv, x) ==
  \A e \in S : /\ nx2[e] = IF e = pv[x] THEN nx[x] ELSE nx[e]
               /\ pv2[e] = IF e = nx[x] THEN pv[x] ELSE pv[e]

OfBoth(r, q, s) ==
  \A j \in 1 .. Len(r) : (\E a \in 1 .. Len(q) : r[j] = q[a]) \/ (\E b \in 1 .. Len(s) : r[j] = s[b])

(* The entry after is one of them, and no two have the same.               *)
LEMMA AfterIsIn ==
  ASSUME NEW S, NEW q \in Seq(S), NEW i \in 1 .. Len(q)
  PROVE  \E j \in 1 .. Len(q) : After(q, i) = q[j]
<1>1. PICK n \in Nat : n = Len(q)
  OBVIOUS
<1>2. i # n => i + 1 \in 1 .. n
  BY <1>1
<1>3. 1 \in 1 .. n
  BY <1>1
<1> QED
  BY <1>1, <1>2, <1>3 DEF After

(* Entries that are all different are followed by different entries.       *)
LEMMA AfterOnce ==
  ASSUME NEW S, NEW q \in Seq(S), Different(q), NEW i \in 1 .. Len(q), NEW j \in 1 .. Len(q), After(q, i) = After(q, j)
  PROVE  i = j
<1>1. PICK n \in Nat : n = Len(q)
  OBVIOUS
<1>2. (i # n => i + 1 \in 1 .. n) /\ (j # n => j + 1 \in 1 .. n) /\ 1 \in 1 .. n
  BY <1>1
<1>3. \A a, b \in 1 .. n : q[a] = q[b] => a = b
  BY <1>1 DEF Different
<1>4. CASE i = n /\ j = n
  BY <1>4
<1>5. CASE i = n /\ j # n
  <2>1. q[1] = q[j + 1]
    BY <1>1, <1>5 DEF After
  <2>2. 1 = j + 1
    BY <1>2, <1>3, <1>5, <2>1
  <2> QED
    BY <1>1, <2>2
<1>6. CASE i # n /\ j = n
  <2>1. q[1] = q[i + 1]
    BY <1>1, <1>6 DEF After
  <2>2. 1 = i + 1
    BY <1>2, <1>3, <1>6, <2>1
  <2> QED
    BY <1>1, <2>2
<1>7. CASE i # n /\ j # n
  <2>1. q[i + 1] = q[j + 1]
    BY <1>1, <1>7 DEF After
  <2>2. i + 1 = j + 1
    BY <1>2, <1>3, <1>7, <2>1
  <2> QED
    BY <1>1, <2>2
<1> QED
  BY <1>4, <1>5, <1>6, <1>7

(* A chain put into a ring makes a ring.                                   *)
LEMMA RingJoins ==
  ASSUME NEW S, NEW q \in Seq(S), NEW s \in Seq(S), NEW r, NEW i \in 1 .. Len(q), Len(s) > 0,
         Joined(r, q, i, s), Different(q),
         Different(s), Apart(q, s),
         NEW nx, NEW pv, NEW nx2, NEW pv2, RingOf(q, nx, pv), ChainOf(s, nx, pv),
         LinkedIn(S, nx2, pv2, nx, pv, q, i, s)
  PROVE  RingOf(r, nx2, pv2)
<1>0. PICK n \in Nat, m \in Nat : n = Len(q) /\ m = Len(s) /\ m > 0 /\ n > 0
  OBVIOUS
<1>1. Len(r) = n + m
      /\ \A j \in 1 .. n + m : r[j] = IF j <= i THEN q[j] ELSE IF j <= i + m THEN s[j - i] ELSE q[j - m]
  BY <1>0 DEF Joined
<1>2. (\A a \in 1 .. n : q[a] \in S) /\ (\A b \in 1 .. m : s[b] \in S)
      /\ \A a \in 1 .. n : \A b \in 1 .. m : q[a] # s[b]
  BY <1>0 DEF Apart
<1>3. 1 \in 1 .. m /\ m \in 1 .. m /\ i \in 1 .. n
  BY <1>0
<1>4. \A a \in 1 .. n : \E b \in 1 .. n : After(q, a) = q[b]
  BY <1>0, AfterIsIn
<1>a. \A e \in S : /\ nx2[e] = IF e = s[m] THEN After(q, i) ELSE IF e = q[i] THEN s[1] ELSE nx[e]
                   /\ pv2[e] = IF e = After(q, i) THEN s[m] ELSE IF e = s[1] THEN q[i] ELSE pv[e]
  BY <1>0 DEF LinkedIn
<1>5. \A a \in 1 .. n : After(q, a) \in S /\ \A b \in 1 .. m : After(q, a) # s[b]
  BY <1>2, <1>4
<1>6. \A a \in 1 .. n : nx[q[a]] = After(q, a) /\ pv[After(q, a)] = q[a]
  BY <1>0 DEF RingOf
<1>7. ASSUME NEW a \in 1 .. n, a # i
      PROVE  nx2[q[a]] = After(q, a) /\ pv2[After(q, a)] = q[a]
  <2>1. q[a] # s[m] /\ q[a] # q[i] /\ q[a] \in S
    BY <1>0, <1>2, <1>3, <1>7 DEF Different
  <2>2. After(q, a) # After(q, i)
    BY <1>0, <1>7, AfterOnce
  <2>3. After(q, a) # s[1] /\ After(q, a) \in S
    BY <1>3, <1>5
  <2> QED
    BY <1>6, <1>a, <2>1, <2>2, <2>3
<1>8. nx2[q[i]] = s[1] /\ pv2[s[1]] = q[i] /\ nx2[s[m]] = After(q, i) /\ pv2[After(q, i)] = s[m]
  BY <1>2, <1>3, <1>5, <1>a
<1>9. ASSUME NEW b \in 1 .. m, b # m
      PROVE  nx2[s[b]] = s[b + 1] /\ pv2[s[b + 1]] = s[b]
  <2>1. b \in 1 .. m - 1 /\ b + 1 \in 1 .. m /\ b + 1 # 1
    BY <1>0, <1>9
  <2>2. nx[s[b]] = s[b + 1] /\ pv[s[b + 1]] = s[b]
    BY <1>0, <2>1 DEF ChainOf
  <2>3. PICK c \in 1 .. m : c = b + 1
    BY <2>1
  <2>4. s[b] # s[m] /\ s[b] # q[i] /\ s[b] \in S /\ s[c] # s[1] /\ s[c] \in S /\ s[c] # After(q, i)
    BY <1>0, <1>2, <1>3, <1>5, <1>9, <2>1, <2>3 DEF Different
  <2> QED
    BY <1>a, <2>2, <2>3, <2>4
<1>10. ASSUME NEW j \in 1 .. n + m
       PROVE  nx2[r[j]] = After(r, j) /\ pv2[After(r, j)] = r[j]
  <2>0. After(r, j) = IF j = n + m THEN r[1] ELSE r[j + 1]
    BY <1>1 DEF After
  <2>1. CASE j < i
    <3>1. j \in 1 .. n /\ j # i /\ r[j] = q[j]
      BY <1>0, <1>1, <1>3, <2>1
    <3>2. j # n + m /\ j # n /\ j + 1 \in 1 .. n + m /\ j + 1 <= i
      BY <1>0, <1>3, <2>1
    <3>3. r[j + 1] = q[j + 1]
      BY <1>1, <3>2
    <3>4. After(r, j) = After(q, j)
      BY <1>0, <2>0, <3>2, <3>3 DEF After
    <3> QED
      BY <1>7, <3>1, <3>4
  <2>2. CASE j = i
    <3>1. r[j] = q[i]
      BY <1>0, <1>1, <1>3, <2>2
    <3>2. j # n + m /\ j + 1 \in 1 .. n + m /\ ~(j + 1 <= i) /\ j + 1 <= i + m /\ (j + 1) - i = 1
      BY <1>0, <1>3, <2>2
    <3>3. r[j + 1] = s[1]
      BY <1>1, <3>2
    <3> QED
      BY <1>8, <2>0, <3>1, <3>2, <3>3
  <2>3. CASE i < j /\ j < i + m
    <3>1. PICK b \in 1 .. m : b = j - i /\ b # m
      BY <1>0, <1>3, <2>3
    <3>2. ~(j <= i) /\ j <= i + m /\ j # n + m /\ j + 1 \in 1 .. n + m /\ ~(j + 1 <= i) /\ j + 1 <= i + m
          /\ (j + 1) - i = b + 1
      BY <1>0, <1>3, <2>3, <3>1
    <3>3. r[j] = s[b] /\ r[j + 1] = s[b + 1]
      BY <1>1, <3>1, <3>2
    <3>4. nx2[s[b]] = s[b + 1] /\ pv2[s[b + 1]] = s[b]
      BY <1>9, <3>1
    <3> QED
      BY <2>0, <3>2, <3>3, <3>4
  <2>4. CASE j = i + m
    <3>1. r[j] = s[m]
      <4>1. ~(j <= i) /\ j <= i + m /\ j - i = m
        BY <1>0, <1>3, <2>4
      <4> QED
        BY <1>1, <4>1
    <3>2. After(r, j) = After(q, i)
      <4>1. CASE i = n
        <5>1. j = n + m /\ 1 \in 1 .. n + m /\ 1 <= i
          BY <1>0, <1>3, <2>4, <4>1
        <5>2. r[1] = q[1]
          BY <1>1, <5>1
        <5> QED
          BY <1>0, <2>0, <4>1, <5>1, <5>2 DEF After
      <4>2. CASE i # n
        <5>1. j # n + m /\ j + 1 \in 1 .. n + m /\ ~(j + 1 <= i) /\ ~(j + 1 <= i + m) /\ (j + 1) - m = i + 1
          BY <1>0, <1>3, <2>4, <4>2
        <5>2. r[j + 1] = q[i + 1]
          BY <1>1, <5>1
        <5> QED
          BY <1>0, <2>0, <4>2, <5>1, <5>2 DEF After
      <4> QED
        BY <4>1, <4>2
    <3> QED
      BY <1>8, <3>1, <3>2
  <2>5. CASE i + m < j
    <3>0. j - m \in 1 .. n /\ j - m # i
      BY <1>0, <1>3, <2>5
    <3>1. PICK a \in 1 .. n : a = j - m /\ a # i
      BY <3>0
    <3>2. ~(j <= i) /\ ~(j <= i + m)
      BY <1>0, <1>3, <2>5
    <3>3. r[j] = q[a]
      BY <1>1, <3>1, <3>2
    <3>4. After(r, j) = After(q, a)
      <4>1. CASE j = n + m
        <5>1. a = n /\ 1 \in 1 .. n + m /\ 1 <= i
          BY <1>0, <1>3, <3>1, <4>1
        <5>2. r[1] = q[1]
          BY <1>1, <5>1
        <5> QED
          BY <1>0, <2>0, <4>1, <5>1, <5>2 DEF After
      <4>2. CASE j # n + m
        <5>1. a # n /\ j + 1 \in 1 .. n + m /\ ~(j + 1 <= i) /\ ~(j + 1 <= i + m) /\ (j + 1) - m = a + 1
          BY <1>0, <1>3, <2>5, <3>1, <4>2
        <5>2. r[j + 1] = q[a + 1]
          BY <1>1, <5>1
        <5> QED
          BY <1>0, <2>0, <4>2, <5>1, <5>2 DEF After
      <4> QED
        BY <4>1, <4>2
    <3> QED
      BY <1>7, <3>1, <3>3, <3>4
  <2>6. j < i \/ j = i \/ (i < j /\ j < i + m) \/ j = i + m \/ i + m < j
    BY <1>0, <1>3
  <2> QED
    BY <2>1, <2>2, <2>3, <2>4, <2>5, <2>6
<1> QED
  BY <1>1, <1>10 DEF RingOf

(* Of different entries, too.                                              *)
LEMMA JoinDiffers ==
  ASSUME NEW S, NEW q \in Seq(S), NEW s \in Seq(S), NEW r, NEW i \in 1 .. Len(q), Joined(r, q, i, s), Different(q),
         Different(s), Apart(q, s)
  PROVE  Different(r) /\ OfBoth(r, q, s)
<1>0. PICK n \in Nat, m \in Nat : n = Len(q) /\ m = Len(s)
  OBVIOUS
<1>1. Len(r) = n + m
      /\ \A j \in 1 .. n + m : r[j] = IF j <= i THEN q[j] ELSE IF j <= i + m THEN s[j - i] ELSE q[j - m]
  BY <1>0 DEF Joined
<1>2. i \in 1 .. n
  BY <1>0
<1>3. ASSUME NEW j \in 1 .. n + m
      PROVE  \/ j <= i /\ \E a \in 1 .. n : a = j /\ r[j] = q[a]
             \/ i < j /\ j <= i + m /\ \E b \in 1 .. m : b = j - i /\ r[j] = s[b]
             \/ i + m < j /\ \E a \in 1 .. n : a = j - m /\ r[j] = q[a]
  <2>1. CASE j <= i
    <3>1. j \in 1 .. n
      BY <1>0, <1>2, <2>1
    <3> QED
      BY <1>1, <2>1, <3>1
  <2>2. CASE i < j /\ j <= i + m
    <3>1. ~(j <= i) /\ j - i \in 1 .. m
      BY <1>0, <1>2, <2>2
    <3> QED
      BY <1>1, <2>2, <3>1
  <2>3. CASE i + m < j
    <3>1. ~(j <= i) /\ ~(j <= i + m) /\ j - m \in 1 .. n
      BY <1>0, <1>2, <2>3
    <3> QED
      BY <1>1, <2>3, <3>1
  <2>4. j <= i \/ (i < j /\ j <= i + m) \/ i + m < j
    BY <1>0, <1>2
  <2> QED
    BY <2>1, <2>2, <2>3, <2>4
<1>k. \A j \in 1 .. n + m :
        \/ \E b \in 1 .. m : b = j - i /\ r[j] = s[b]
        \/ \E a \in 1 .. n : r[j] = q[a] /\ ((a = j /\ j <= i) \/ (a = j - m /\ i + m < j))
  BY <1>3
<1>4. ASSUME NEW j \in 1 .. n + m, NEW k \in 1 .. n + m, r[j] = r[k]
      PROVE  j = k
  <2>1. (\A a, b \in 1 .. n : q[a] = q[b] => a = b) /\ (\A a, b \in 1 .. m : s[a] = s[b] => a = b)
        /\ \A a \in 1 .. n : \A b \in 1 .. m : q[a] # s[b]
    BY <1>0 DEF Different, Apart
  <2>2. CASE i < j /\ j <= i + m
    <3>1. PICK b \in 1 .. m : b = j - i /\ r[j] = s[b]
      BY <1>0, <1>2, <1>3, <2>2
    <3>2. PICK c \in 1 .. m : c = k - i /\ r[k] = s[c]
      <4>1. ~\E a \in 1 .. n : r[k] = q[a]
        BY <1>4, <2>1, <3>1
      <4> QED
        BY <1>k, <4>1
    <3>3. b = c
      BY <1>4, <2>1, <3>1, <3>2
    <3> QED
      BY <1>2, <3>1, <3>2, <3>3
  <2>3. CASE ~(i < j /\ j <= i + m)
    <3>1. PICK a \in 1 .. n : r[j] = q[a] /\ ((a = j /\ j <= i) \/ (a = j - m /\ i + m < j))
      BY <1>3, <2>3
    <3>2. PICK c \in 1 .. n : r[k] = q[c] /\ ((c = k /\ k <= i) \/ (c = k - m /\ i + m < k))
      <4>1. ~\E b \in 1 .. m : r[k] = s[b]
        BY <1>4, <2>1, <3>1
      <4> QED
        BY <1>k, <4>1
    <3>3. a = c
      BY <1>4, <2>1, <3>1, <3>2
    <3> QED
      BY <1>0, <1>2, <3>1, <3>2, <3>3
  <2> QED
    BY <2>2, <2>3
<1> QED
  BY <1>0, <1>1, <1>3, <1>4 DEF Different, OfBoth

(* A ring without one entry is a ring.                                     *)
LEMMA RingCuts ==
  ASSUME NEW S, NEW q \in Seq(S), NEW k \in 1 .. Len(q), NEW r, Len(q) > 1, Different(q),
         Without(r, q, k),
         NEW nx, NEW pv, NEW nx2, NEW pv2, RingOf(q, nx, pv),
         CutOut(S, nx2, pv2, nx, pv, q[k])
  PROVE  RingOf(r, nx2, pv2) /\ Different(r) /\ OfOne(r, q)
<1>0. PICK n \in Nat : n = Len(q) /\ n > 1
  OBVIOUS
<1>1. Len(r) = n - 1 /\ \A j \in 1 .. n - 1 : r[j] = IF j < k THEN q[j] ELSE q[j + 1]
  BY <1>0 DEF Without
<1>2. k \in 1 .. n /\ \A a, b \in 1 .. n : q[a] = q[b] => a = b
  BY <1>0 DEF Different
<1>3. PICK p \in 1 .. n : p = (IF k = 1 THEN n ELSE k - 1)
  <2>1. (IF k = 1 THEN n ELSE k - 1) \in 1 .. n
    BY <1>0, <1>2
  <2> QED
    BY <2>1
<1>4. p # k /\ After(q, p) = q[k]
  BY <1>0, <1>2, <1>3 DEF After
<1>5. \A a \in 1 .. n : nx[q[a]] = After(q, a) /\ pv[After(q, a)] = q[a] /\ After(q, a) \in S /\ q[a] \in S
  <2>1. \A a \in 1 .. n : \E b \in 1 .. n : After(q, a) = q[b]
    BY <1>0, AfterIsIn
  <2> QED
    BY <1>0, <2>1 DEF RingOf
<1>6. nx[q[k]] = After(q, k) /\ pv[q[k]] = q[p]
  BY <1>2, <1>4, <1>5
<1>c. \A e \in S : /\ nx2[e] = IF e = q[p] THEN After(q, k) ELSE nx[e]
                   /\ pv2[e] = IF e = After(q, k) THEN q[p] ELSE pv[e]
  BY <1>6 DEF CutOut
<1>7. ASSUME NEW j \in 1 .. n - 1
      PROVE  \E a \in 1 .. n : a = (IF j < k THEN j ELSE j + 1) /\ a # k /\ r[j] = q[a]
  <2>1. CASE j < k
    <3>1. j \in 1 .. n /\ j # k
      BY <1>0, <1>2, <2>1
    <3> QED
      BY <1>1, <2>1, <3>1
  <2>2. CASE ~(j < k)
    <3>1. j + 1 \in 1 .. n /\ j + 1 # k
      BY <1>0, <1>2, <2>2
    <3> QED
      BY <1>1, <2>2, <3>1
  <2> QED
    BY <2>1, <2>2
<1>8. Different(r)
  <2> SUFFICES ASSUME NEW j \in 1 .. n - 1, NEW l \in 1 .. n - 1, r[j] = r[l] PROVE j = l
    BY <1>1 DEF Different
  <2>1. PICK a \in 1 .. n : a = (IF j < k THEN j ELSE j + 1) /\ r[j] = q[a]
    BY <1>7
  <2>2. PICK b \in 1 .. n : b = (IF l < k THEN l ELSE l + 1) /\ r[l] = q[b]
    BY <1>7
  <2>3. a = b
    BY <1>2, <2>1, <2>2
  <2> QED
    BY <1>0, <1>2, <2>1, <2>2, <2>3
<1>9. ASSUME NEW j \in 1 .. n - 1, NEW a \in 1 .. n, a = (IF j < k THEN j ELSE j + 1)
      PROVE  After(r, j) = IF a = p THEN After(q, k) ELSE After(q, a)
  <2>0. After(r, j) = IF j = n - 1 THEN r[1] ELSE r[j + 1]
    BY <1>1 DEF After
  <2>a. After(q, k) = (IF k = n THEN q[1] ELSE q[k + 1]) /\ After(q, a) = (IF a = n THEN q[1] ELSE q[a + 1])
    BY <1>0 DEF After
  <2>1. CASE j = n - 1
    <3>1. 1 \in 1 .. n - 1
      BY <1>0
    <3>2. r[1] = IF 1 < k THEN q[1] ELSE q[2]
      BY <1>1, <3>1
    <3>3. CASE k = n
      <4>1. a = p /\ 1 < k
        BY <1>0, <1>2, <1>3, <1>9, <2>1, <3>3
      <4> QED
        BY <2>0, <2>1, <2>a, <3>2, <3>3, <4>1
    <3>4. CASE k # n
      <4>1. a = n /\ (a = p <=> k = 1) /\ (~(1 < k) <=> k = 1)
        BY <1>0, <1>2, <1>3, <1>9, <2>1, <3>4
      <4>2. k = 1 => k + 1 = 2
        OBVIOUS
      <4> QED
        BY <2>0, <2>1, <2>a, <3>2, <3>4, <4>1, <4>2
    <3> QED
      BY <3>3, <3>4
  <2>2. CASE j # n - 1
    <3>1. PICK h \in 1 .. n - 1 : h = j + 1
      BY <1>0, <2>2
    <3>2. r[h] = IF h < k THEN q[h] ELSE q[h + 1]
      BY <1>1
    <3>3. After(r, j) = r[h]
      BY <2>0, <2>2, <3>1
    <3>4. CASE h < k
      <4>1. a = j /\ a # p /\ a # n
        BY <1>0, <1>2, <1>3, <1>9, <3>1, <3>4
      <4> QED
        BY <2>a, <3>1, <3>2, <3>3, <3>4, <4>1
    <3>5. CASE h = k
      <4>1. a = p /\ k # n /\ ~(h < k)
        BY <1>0, <1>2, <1>3, <1>9, <3>1, <3>5
      <4> QED
        BY <2>a, <3>2, <3>3, <3>5, <4>1
    <3>6. CASE h > k
      <4>1. a = h /\ a # p /\ a # n /\ ~(h < k)
        BY <1>0, <1>2, <1>3, <1>9, <3>1, <3>6
      <4> QED
        BY <2>a, <3>2, <3>3, <4>1
    <3> QED
      BY <1>0, <1>2, <3>4, <3>5, <3>6
  <2> QED
    BY <2>1, <2>2
<1>10. ASSUME NEW j \in 1 .. n - 1
       PROVE  nx2[r[j]] = After(r, j) /\ pv2[After(r, j)] = r[j]
  <2>1. PICK a \in 1 .. n : a = (IF j < k THEN j ELSE j + 1) /\ a # k /\ r[j] = q[a]
    BY <1>7
  <2>2. After(r, j) = IF a = p THEN After(q, k) ELSE After(q, a)
    BY <1>9, <2>1
  <2>3. CASE a = p
    <3>1. nx2[q[p]] = After(q, k) /\ pv2[After(q, k)] = q[p]
      BY <1>2, <1>5, <1>6, <1>c
    <3> QED
      BY <2>1, <2>2, <2>3, <3>1
  <2>4. CASE a # p
    <3>1. q[a] # q[p] /\ q[a] \in S /\ After(q, a) \in S
      BY <1>2, <1>5, <2>4
    <3>2. After(q, a) # After(q, k)
      BY <1>0, <1>2, <2>1, AfterOnce
    <3>3. nx2[q[a]] = nx[q[a]] /\ pv2[After(q, a)] = pv[After(q, a)]
      BY <1>6, <1>c, <3>1, <3>2
    <3> QED
      BY <1>5, <2>1, <2>2, <2>4, <3>3
  <2> QED
    BY <2>3, <2>4
<1> QED
  BY <1>0, <1>1, <1>7, <1>8, <1>10 DEF RingOf, OfOne

(* SubSeq and \o put one sequence into another.                            *)
LEMMA SeqJoined ==
  ASSUME NEW S, NEW q \in Seq(S), NEW s \in Seq(S), NEW i \in 1 .. Len(q), NEW r,
         r = SubSeq(q, 1, i) \o s \o SubSeq(q, i + 1, Len(q))
  PROVE  r \in Seq(S) /\ Joined(r, q, i, s)
<1>0. PICK n \in Nat : n = Len(q)
  OBVIOUS
<1>m. PICK m \in Nat : m = Len(s)
  OBVIOUS
<1>1. i \in Int /\ i + 1 \in Int /\ n \in Int /\ 1 \in Int /\ 1 <= i /\ i <= n
  BY <1>0
<1>2. (\A j \in 1 .. i : q[j] \in S) /\ (\A j \in i + 1 .. n : q[j] \in S)
  BY <1>0, <1>1
<1>a. PICK a : a = SubSeq(q, 1, i)
  OBVIOUS
<1>b. PICK b : b = SubSeq(q, i + 1, n)
  OBVIOUS
<1>3. /\ a \in Seq(S) /\ Len(a) = i /\ \A j \in 1 .. i : a[j] = q[j]
  <2>1. PICK h \in Int : h = i
    BY <1>1
  <2>2. /\ a \in Seq(S) /\ Len(a) = (IF 1 <= h THEN h - 1 + 1 ELSE 0)
        /\ \A j \in 1 .. h - 1 + 1 : a[j] = q[1 + j - 1]
    BY <1>1, <1>2, <1>a, <2>1, SubSeqProperties
  <2>3. h - 1 + 1 = h /\ \A j \in 1 .. h : 1 + j - 1 = j
    BY <1>1, <2>1
  <2> QED
    BY <1>1, <2>1, <2>2, <2>3
<1>4. /\ b \in Seq(S) /\ Len(b) = n - i /\ \A j \in 1 .. n - i : b[j] = q[i + j]
  <2>1. PICK h \in Int : h = i + 1
    BY <1>1
  <2>2. /\ b \in Seq(S) /\ Len(b) = (IF h <= n THEN n - h + 1 ELSE 0)
        /\ \A j \in 1 .. n - h + 1 : b[j] = q[h + j - 1]
    BY <1>1, <1>2, <1>b, <2>1, SubSeqProperties
  <2>3. n - h + 1 = n - i /\ (\A j \in 1 .. n - i : h + j - 1 = i + j) /\ (IF h <= n THEN n - h + 1 ELSE 0) = n - i
    BY <1>1, <2>1
  <2> QED
    BY <2>2, <2>3
<1>c. PICK c : c = a \o s
  OBVIOUS
<1>5. r = c \o b
  BY <1>0, <1>a, <1>b, <1>c
<1>6. /\ c \in Seq(S) /\ Len(c) = Len(a) + Len(s)
      /\ \A j \in 1 .. Len(a) + Len(s) : c[j] = IF j <= Len(a) THEN a[j] ELSE s[j - Len(a)]
  <2>1. a \in Seq(S) /\ s \in Seq(S)
    BY <1>3
  <2>2. /\ a \o s \in Seq(S) /\ Len(a \o s) = Len(a) + Len(s)
        /\ \A j \in 1 .. Len(a) + Len(s) : (a \o s)[j] = IF j <= Len(a) THEN a[j] ELSE s[j - Len(a)]
    BY <2>1, ConcatProperties
  <2> QED
    BY <1>c, <2>2, Zenon
<1>7. /\ r \in Seq(S) /\ Len(r) = Len(c) + Len(b)
      /\ \A j \in 1 .. Len(c) + Len(b) : r[j] = IF j <= Len(c) THEN c[j] ELSE b[j - Len(c)]
  <2>1. c \in Seq(S) /\ b \in Seq(S)
    BY <1>4, <1>6
  <2>2. /\ c \o b \in Seq(S) /\ Len(c \o b) = Len(c) + Len(b)
        /\ \A j \in 1 .. Len(c) + Len(b) : (c \o b)[j] = IF j <= Len(c) THEN c[j] ELSE b[j - Len(c)]
    BY <2>1, ConcatProperties
  <2> QED
    BY <1>5, <2>2, Zenon
<1>8. Len(a) = i /\ Len(c) = i + m /\ Len(c) + Len(b) = n + m
  BY <1>1, <1>3, <1>4, <1>6, <1>m
<1>9. ASSUME NEW j \in 1 .. n + m
      PROVE  r[j] = IF j <= i THEN q[j] ELSE IF j <= i + m THEN s[j - i] ELSE q[j - m]
  <2>0. r[j] = IF j <= i + m THEN c[j] ELSE b[j - (i + m)]
    BY <1>7, <1>8
  <2>1. CASE j <= i
    <3>1. j \in 1 .. i /\ j \in 1 .. i + m /\ j <= i + m
      BY <1>1, <1>m, <2>1
    <3>2. c[j] = a[j]
      BY <1>6, <1>8, <1>m, <2>1, <3>1
    <3> QED
      BY <1>3, <2>0, <2>1, <3>1, <3>2
  <2>2. CASE i < j /\ j <= i + m
    <3>1. j \in 1 .. i + m /\ ~(j <= i)
      BY <1>1, <1>m, <2>2
    <3>2. c[j] = s[j - i]
      BY <1>6, <1>8, <1>m, <3>1
    <3> QED
      BY <2>0, <2>2, <3>1, <3>2
  <2>3. CASE i + m < j
    <3>1. ~(j <= i) /\ ~(j <= i + m) /\ j - (i + m) \in 1 .. n - i /\ i + (j - (i + m)) = j - m
      BY <1>1, <1>m, <2>3
    <3>2. PICK h \in 1 .. n - i : h = j - (i + m)
      BY <3>1
    <3>3. b[h] = q[j - m]
      BY <1>4, <3>1, <3>2
    <3> QED
      BY <2>0, <3>1, <3>2, <3>3
  <2>4. j <= i \/ (i < j /\ j <= i + m) \/ i + m < j
    BY <1>1, <1>m
  <2> QED
    BY <2>1, <2>2, <2>3, <2>4
<1> QED
  BY <1>0, <1>7, <1>8, <1>9, <1>m DEF Joined

-----------------------------------------------------------------------------
(* Every list is the ring of its queue, and no entry is in two of them.    *)
RingInv ==
  /\ head \in [Lists -> Entries \cup {NoEntry}] /\ queue \in [Lists -> Seq(Entries)]
  /\ next \in [Entries -> Entries \cup {NoEntry}] /\ prev \in [Entries -> Entries \cup {NoEntry}]
  /\ \A l \in Lists : /\ head[l] = IF Len(queue[l]) = 0 THEN NoEntry ELSE queue[l][1]
                      /\ Different(queue[l]) /\ RingOf(queue[l], next, prev)
  /\ \A l, m \in Lists : l # m =>
       \A i \in 1 .. Len(queue[l]) : \A j \in 1 .. Len(queue[m]) : queue[l][i] # queue[m][j]

(* Two rings have no entry in common.                                      *)
LEMMA RingsApart ==
  ASSUME RingInv, NEW l \in Lists, NEW m \in Lists, l # m, NEW i \in 1 .. Len(queue[l]), NEW j \in 1 .. Len(queue[m])
  PROVE  queue[l][i] # queue[m][j]
BY DEF RingInv

(* A ring of which no link changes is still one.                           *)
LEMMA RingStays ==
  ASSUME NEW S, NEW q \in Seq(S), NEW nx, NEW pv, NEW nx2, NEW pv2, RingOf(q, nx, pv),
         \A a \in 1 .. Len(q) : nx2[q[a]] = nx[q[a]] /\ pv2[q[a]] = pv[q[a]]
  PROVE  RingOf(q, nx2, pv2)
<1>1. \A a \in 1 .. Len(q) : \E b \in 1 .. Len(q) : After(q, a) = q[b]
  BY AfterIsIn
<1>2. ASSUME NEW a \in 1 .. Len(q) PROVE nx2[q[a]] = After(q, a) /\ pv2[After(q, a)] = q[a]
  <2>1. PICK b \in 1 .. Len(q) : After(q, a) = q[b]
    BY <1>1
  <2>2. nx[q[a]] = After(q, a) /\ pv[After(q, a)] = q[a]
    BY DEF RingOf
  <2> QED
    BY <2>1, <2>2
<1> QED
  BY <1>2 DEF RingOf

(* s is in none of the lists L; l takes s in behind its i-th entry, and    *)
(* the lists Emptied lose theirs.                                          *)
NotIn(s, L) == \A x \in L : Apart(queue[x], s)
TakesIn(l, Emptied, s, i, r) ==
  /\ next' = [e \in Entries |-> IF e = s[Len(s)] THEN After(queue[l], i)
                                ELSE IF e = queue[l][i] THEN s[1] ELSE next[e]]
  /\ prev' = [e \in Entries |-> IF e = After(queue[l], i) THEN s[Len(s)]
                                ELSE IF e = s[1] THEN queue[l][i] ELSE prev[e]]
  /\ head' = [x \in Lists |-> IF x \in Emptied THEN NoEntry ELSE head[x]]
  /\ queue' = [x \in Lists |-> IF x = l THEN r ELSE IF x \in Emptied THEN <<>> ELSE queue[x]]

(* What insertTail, insertHead, insertNext and moveWholeList do to l, when *)
(* the lists Emptied lose their entries to it.                             *)
LEMMA RingSpliced ==
  ASSUME NoEntry \notin Entries, RingInv, NEW l \in Lists, NEW Emptied \in SUBSET (Lists \ {l}),
         NEW s \in Seq(Entries), Len(s) > 0, Different(s), ChainOf(s, next, prev),
         NotIn(s, Lists \ Emptied),
         NEW i \in 1 .. Len(queue[l]), NEW r \in Seq(Entries), Joined(r, queue[l], i, s), TakesIn(l, Emptied, s, i, r)
  PROVE  RingInv'
<1>q. PICK q \in Seq(Entries) : q = queue[l]
  BY DEF RingInv
<1>n. PICK nx, pv : nx = next /\ pv = prev
  OBVIOUS
<1>2. PICK nx2, pv2 : nx2 = next' /\ pv2 = prev'
  OBVIOUS
<1>3. /\ i \in 1 .. Len(q) /\ Joined(r, q, i, s) /\ Different(q) /\ RingOf(q, nx, pv) /\ ChainOf(s, nx, pv)
      /\ Apart(q, s)
  BY <1>n, <1>q DEF RingInv, NotIn
<1>4. /\ nx2 = [e \in Entries |-> IF e = s[Len(s)] THEN After(q, i) ELSE IF e = q[i] THEN s[1] ELSE nx[e]]
      /\ pv2 = [e \in Entries |-> IF e = After(q, i) THEN s[Len(s)] ELSE IF e = s[1] THEN q[i] ELSE pv[e]]
  BY <1>2, <1>n, <1>q DEF TakesIn
<1>5. RingOf(r, nx2, pv2)
  <2>1. LinkedIn(Entries, nx2, pv2, nx, pv, q, i, s)
    BY <1>4 DEF LinkedIn
  <2> QED
    BY <1>3, <2>1, RingJoins
<1>6. Different(r) /\ OfBoth(r, q, s)
  BY <1>3, JoinDiffers
<1>7. 1 \in 1 .. Len(s) /\ Len(s) \in 1 .. Len(s) /\ q[i] \in Entries /\ s[1] \in Entries /\ s[Len(s)] \in Entries
      /\ \E b \in 1 .. Len(q) : After(q, i) = q[b]
  <2>1. 1 \in 1 .. Len(s) /\ Len(s) \in 1 .. Len(s)
    OBVIOUS
  <2>2. q[i] \in Entries /\ s[1] \in Entries /\ s[Len(s)] \in Entries
    BY <1>3, <2>1
  <2>3. \E b \in 1 .. Len(q) : After(q, i) = q[b]
    BY <1>3, AfterIsIn
  <2> QED
    BY <2>1, <2>2, <2>3
<1>8. next' \in [Entries -> Entries \cup {NoEntry}] /\ prev' \in [Entries -> Entries \cup {NoEntry}]
  <2>1. After(q, i) \in Entries
    BY <1>7
  <2>2. \A e \in Entries : nx[e] \in Entries \cup {NoEntry} /\ pv[e] \in Entries \cup {NoEntry}
    BY <1>n DEF RingInv
  <2>3. s[1] \in Entries \cup {NoEntry} /\ q[i] \in Entries \cup {NoEntry} /\ s[Len(s)] \in Entries \cup {NoEntry}
        /\ After(q, i) \in Entries \cup {NoEntry}
    BY <1>7, <2>1
  <2>4. nx2 \in [Entries -> Entries \cup {NoEntry}]
    BY <1>4, <2>2, <2>3, Zenon
  <2>5. pv2 \in [Entries -> Entries \cup {NoEntry}]
    BY <1>4, <2>2, <2>3, Zenon
  <2> QED
    BY <1>2, <2>4, <2>5
<1>9. queue' \in [Lists -> Seq(Entries)] /\ head' \in [Lists -> Entries \cup {NoEntry}]
  BY DEF RingInv, TakesIn
<1>10. queue'[l] = r /\ \A x \in Lists : x # l => queue'[x] = IF x \in Emptied THEN <<>> ELSE queue[x]
  BY DEF TakesIn
<1>11. ASSUME NEW x \in Lists, x # l, x \notin Emptied
       PROVE  RingOf(queue[x], nx2, pv2) /\ Different(queue[x])
  <2>0. PICK z \in Seq(Entries) : z = queue[x]
    BY DEF RingInv
  <2>1. RingOf(z, nx, pv) /\ Different(z)
    BY <1>n, <2>0 DEF RingInv
  <2>2. \A a \in 1 .. Len(z) : z[a] \in Entries /\ (\A b \in 1 .. Len(s) : z[a] # s[b]) /\ (\A b \in 1 .. Len(q) : z[a] # q[b])
    BY <1>11, <1>q, <2>0 DEF RingInv, NotIn, Apart
  <2>3. \A a \in 1 .. Len(z) : z[a] # s[Len(s)] /\ z[a] # s[1] /\ z[a] # q[i] /\ z[a] # After(q, i)
    BY <1>3, <1>7, <2>2
  <2>4. \A a \in 1 .. Len(z) : nx2[z[a]] = nx[z[a]] /\ pv2[z[a]] = pv[z[a]]
    BY <1>4, <2>2, <2>3
  <2> QED
    BY <2>0, <2>1, <2>4, RingStays
<1>12. \A x \in Lists : RingOf(queue'[x], nx2, pv2) /\ Different(queue'[x])
  <2>1. RingOf(<<>>, nx2, pv2) /\ Different(<<>>)
    BY DEF RingOf, Different
  <2> QED
    BY <1>5, <1>6, <1>10, <1>11, <2>1
<1>13. \A x \in Lists : head'[x] = IF Len(queue'[x]) = 0 THEN NoEntry ELSE queue'[x][1]
  <2>1. ASSUME NEW x \in Lists PROVE head'[x] = IF Len(queue'[x]) = 0 THEN NoEntry ELSE queue'[x][1]
    <3>1. head'[x] = IF x \in Emptied THEN NoEntry ELSE head[x]
      BY DEF TakesIn
    <3>2. head[x] = IF Len(queue[x]) = 0 THEN NoEntry ELSE queue[x][1]
      BY DEF RingInv
    <3>3. Len(<<>>) = 0
      OBVIOUS
    <3>4. CASE x = l
      <4>1. Len(q) # 0 /\ Len(r) # 0 /\ r[1] = q[1]
        <5>1. PICK n \in Nat, m \in Nat : n = Len(q) /\ m = Len(s) /\ n > 0
          BY <1>3
        <5>2. 1 \in 1 .. n + m /\ 1 <= i /\ n + m # 0
          BY <1>3, <5>1
        <5> QED
          BY <1>3, <5>1, <5>2 DEF Joined
      <4> QED
        BY <1>10, <1>q, <3>1, <3>2, <3>4, <4>1
    <3>5. CASE x # l
      BY <1>10, <3>1, <3>2, <3>3, <3>5
    <3> QED
      BY <3>4, <3>5
  <2> QED
    BY <2>1
<1>14. ASSUME NEW x \in Lists, NEW y \in Lists, x # y, NEW a \in 1 .. Len(queue'[x]), NEW b \in 1 .. Len(queue'[y])
       PROVE  queue'[x][a] # queue'[y][b]
  <2>0. \A z \in Lists : z # l /\ z \notin Emptied =>
          \A c \in 1 .. Len(queue[z]) : \A d \in 1 .. Len(r) : queue[z][c] # r[d]
    <3> SUFFICES ASSUME NEW z \in Lists, z # l, z \notin Emptied, NEW c \in 1 .. Len(queue[z]), NEW d \in 1 .. Len(r)
                 PROVE  queue[z][c] # r[d]
      OBVIOUS
    <3>1. \A e \in 1 .. Len(q) : queue[z][c] # q[e]
      BY <1>q DEF RingInv
    <3>2. \A e \in 1 .. Len(s) : queue[z][c] # s[e]
      BY DEF NotIn, Apart
    <3> QED
      BY <1>6, <3>1, <3>2 DEF OfBoth
  <2>1. x \notin Emptied /\ y \notin Emptied
    <3>1. Len(<<>>) = 0
      OBVIOUS
    <3> QED
      BY <1>10, <1>14, <3>1
  <2>2. CASE x = l
    BY <1>10, <1>14, <2>0, <2>1, <2>2
  <2>3. CASE y = l
    BY <1>10, <1>14, <2>0, <2>1, <2>3
  <2>4. CASE x # l /\ y # l
    <3>1. queue'[x] = queue[x] /\ queue'[y] = queue[y]
      BY <1>10, <2>1, <2>4
    <3>2. queue[x][a] # queue[y][b]
      BY <1>14, <3>1, RingsApart
    <3> QED
      BY <3>1, <3>2
  <2> QED
    BY <2>2, <2>3, <2>4
<1> QED
  BY <1>2, <1>8, <1>9, <1>12, <1>13, <1>14 DEF RingInv

(* What is in no queue is in none of the rings.                            *)
LEMMA NotLinked ==
  ASSUME RingInv, NEW e, e \notin Ring!Linked
  PROVE  \A x \in Lists : \A a \in 1 .. Len(queue[x]) : queue[x][a] # e
<1> SUFFICES ASSUME NEW x \in Lists, NEW a \in 1 .. Len(queue[x]), queue[x][a] = e PROVE FALSE
  OBVIOUS
<1>1. DOMAIN queue[x] = 1 .. Len(queue[x])
  BY DEF RingInv
<1>2. e \in Ring!ToSet(queue[x])
  BY <1>1 DEF Ring!ToSet
<1> QED
  BY <1>2 DEF Ring!Linked

(* LinkAfter(e, p), for an entry p of l and an e that is in no list.       *)
LEMMA RingLinksAfter ==
  ASSUME NoEntry \notin Entries, RingInv, NEW l \in Lists, NEW e \in Entries, e \notin Ring!Linked,
         NEW i \in 1 .. Len(queue[l]), Ring!LinkAfter(e, queue[l][i]),
         NEW r \in Seq(Entries), Joined(r, queue[l], i, <<e>>), queue' = [queue EXCEPT ![l] = r]
  PROVE  RingInv'
<1>q. PICK q \in Seq(Entries) : q = queue[l]
  BY DEF RingInv
<1>e. <<e>> \in Seq(Entries)
  OBVIOUS
<1>s. PICK s \in Seq(Entries) : s = <<e>>
  BY <1>e
<1>1. Len(s) = 1 /\ s[1] = e /\ s[Len(s)] = e
  BY <1>s
<1>2. Len(s) > 0 /\ Different(s) /\ ChainOf(s, next, prev)
  BY <1>1 DEF Different, ChainOf
<1>3. \A x \in Lists : \A a \in 1 .. Len(queue[x]) : queue[x][a] # e
  BY NotLinked
<1>4. NotIn(s, Lists \ {})
  BY <1>1, <1>3 DEF NotIn, Apart
<1>5. i \in 1 .. Len(q) /\ next[q[i]] = After(q, i) /\ \E b \in 1 .. Len(q) : After(q, i) = q[b]
  <2>1. i \in 1 .. Len(q) /\ RingOf(q, next, prev)
    BY <1>q DEF RingInv
  <2>2. next[q[i]] = After(q, i)
    BY <2>1 DEF RingOf
  <2>3. \E b \in 1 .. Len(q) : After(q, i) = q[b]
    BY <2>1, AfterIsIn
  <2> QED
    BY <2>1, <2>2, <2>3
<1>6. q[i] # e /\ After(q, i) # e /\ q[i] \in Entries /\ After(q, i) \in Entries
  BY <1>3, <1>5, <1>q
<1>7. next \in [Entries -> Entries \cup {NoEntry}] /\ prev \in [Entries -> Entries \cup {NoEntry}]
  BY DEF RingInv
<1>8. next' = [next EXCEPT ![q[i]] = e, ![e] = After(q, i)] /\ prev' = [prev EXCEPT ![After(q, i)] = e, ![e] = q[i]]
      /\ head' = head
  BY <1>5, <1>q DEF Ring!LinkAfter
<1>9. next' = [f \in Entries |-> IF f = s[Len(s)] THEN After(q, i) ELSE IF f = q[i] THEN s[1] ELSE next[f]]
  BY <1>1, <1>6, <1>7, <1>8
<1>10. prev' = [f \in Entries |-> IF f = After(q, i) THEN s[Len(s)] ELSE IF f = s[1] THEN q[i] ELSE prev[f]]
  BY <1>1, <1>6, <1>7, <1>8
<1>11. /\ head' = [x \in Lists |-> IF x \in {} THEN NoEntry ELSE head[x]]
       /\ queue' = [x \in Lists |-> IF x = l THEN r ELSE IF x \in {} THEN <<>> ELSE queue[x]]
  BY <1>8 DEF RingInv
<1>12. TakesIn(l, {}, s, i, r) /\ Joined(r, queue[l], i, s) /\ {} \in SUBSET (Lists \ {l})
  BY <1>9, <1>10, <1>11, <1>q, <1>s DEF TakesIn
<1> QED
  BY <1>2, <1>4, <1>12, RingSpliced

(* The first entry of a list is the one before the head of a ring.         *)
LEMMA RingEnds ==
  ASSUME NoEntry \notin Entries, RingInv, NEW l \in Lists, head[l] # NoEntry
  PROVE  Len(queue[l]) > 0 /\ head[l] = queue[l][1] /\ prev[head[l]] = queue[l][Len(queue[l])]
<1>q. PICK q \in Seq(Entries) : q = queue[l]
  BY DEF RingInv
<1>1. head[l] = IF Len(q) = 0 THEN NoEntry ELSE q[1]
  BY <1>q DEF RingInv
<1>2. Len(q) > 0 /\ head[l] = q[1] /\ Len(q) \in 1 .. Len(q)
  BY <1>1
<1>3. After(q, Len(q)) = q[1]
  BY DEF After
<1>4. prev[q[1]] = q[Len(q)]
  BY <1>2, <1>3, <1>q DEF RingInv, RingOf
<1> QED
  BY <1>2, <1>4, <1>q

(* insertTail, into an empty list and into another.                        *)
LEMMA RingInsertsTail ==
  ASSUME NoEntry \notin Entries, RingInv, NEW l \in Lists, NEW e \in Entries, Ring!insertTail(e, l)
  PROVE  RingInv'
<1>q. PICK q \in Seq(Entries) : q = queue[l]
  BY DEF RingInv
<1>r. PICK r : r = Append(q, e)
  OBVIOUS
<1>0. r \in Seq(Entries) /\ Len(r) = Len(q) + 1 /\ r[Len(q) + 1] = e /\ \A j \in 1 .. Len(q) : r[j] = q[j]
  BY <1>r
<1>1. queue' = [queue EXCEPT ![l] = r] /\ e \notin Ring!Linked
  BY <1>q, <1>r DEF Ring!insertTail
<1>2. CASE head[l] # NoEntry
  <2>1. Len(q) > 0 /\ prev[head[l]] = q[Len(q)]
    BY <1>2, <1>q, RingEnds
  <2>2. Ring!LinkAfter(e, q[Len(q)]) /\ Len(q) \in 1 .. Len(q)
    BY <1>2, <2>1 DEF Ring!insertTail
  <2>3. Joined(r, q, Len(q), <<e>>)
    <3>1. PICK n \in Nat : n = Len(q)
      OBVIOUS
    <3>2. Len(<<e>>) = 1 /\ <<e>>[1] = e
      OBVIOUS
    <3>3. ASSUME NEW j \in 1 .. n + 1 PROVE r[j] = IF j <= n THEN q[j] ELSE e
      BY <1>0, <3>1
    <3>4. \A j \in 1 .. n + 1 : j <= n + 1 /\ (~(j <= n) => j - n = 1)
      BY <3>1
    <3> QED
      BY <1>0, <3>1, <3>2, <3>3, <3>4 DEF Joined
  <2> QED
    BY <1>0, <1>1, <1>q, <2>2, <2>3, RingLinksAfter
<1>3. CASE head[l] = NoEntry
  <2>1. head' = [head EXCEPT ![l] = e] /\ next' = [next EXCEPT ![e] = e] /\ prev' = [prev EXCEPT ![e] = e]
    BY <1>3 DEF Ring!insertTail, Ring!Alone
  <2>2. Len(q) = 0
    <3>1. Len(q) # 0 => head[l] = q[1] /\ q[1] \in Entries
      BY <1>q DEF RingInv
    <3> QED
      BY <1>3, <3>1
  <2>3. Len(r) = 1 /\ r[1] = e
    BY <1>0, <2>2
  <2>4. \A x \in Lists : \A a \in 1 .. Len(queue[x]) : queue[x][a] # e
    BY <1>1, NotLinked
  <2>5. queue'[l] = r /\ \A x \in Lists : x # l => queue'[x] = queue[x]
    BY <1>1 DEF RingInv
  <2>6. \A f \in Entries : f # e => next'[f] = next[f] /\ prev'[f] = prev[f]
    BY <2>1 DEF RingInv
  <2>7. next'[e] = e /\ prev'[e] = e
    BY <2>1 DEF RingInv
  <2>n. PICK nx, pv, nx2, pv2 : nx = next /\ pv = prev /\ nx2 = next' /\ pv2 = prev'
    OBVIOUS
  <2>8. \A x \in Lists : RingOf(queue'[x], nx2, pv2) /\ Different(queue'[x])
    <3>1. RingOf(r, nx2, pv2) /\ Different(r)
      BY <2>3, <2>7, <2>n DEF RingOf, Different, After
    <3>2. ASSUME NEW x \in Lists, x # l PROVE RingOf(queue[x], nx2, pv2) /\ Different(queue[x])
      <4>0. PICK z \in Seq(Entries) : z = queue[x]
        BY DEF RingInv
      <4>1. RingOf(z, nx, pv) /\ Different(z)
        BY <2>n, <4>0 DEF RingInv
      <4>2. \A a \in 1 .. Len(z) : z[a] \in Entries /\ z[a] # e
        BY <2>4, <4>0
      <4>3. \A a \in 1 .. Len(z) : nx2[z[a]] = nx[z[a]] /\ pv2[z[a]] = pv[z[a]]
        BY <2>6, <2>n, <4>2
      <4> QED
        BY <4>0, <4>1, <4>3, RingStays
    <3> QED
      BY <2>5, <3>1, <3>2
  <2>9. /\ head' \in [Lists -> Entries \cup {NoEntry}] /\ queue' \in [Lists -> Seq(Entries)]
        /\ next' \in [Entries -> Entries \cup {NoEntry}] /\ prev' \in [Entries -> Entries \cup {NoEntry}]
    BY <1>0, <1>1, <2>1 DEF RingInv
  <2>10. \A x \in Lists : head'[x] = IF Len(queue'[x]) = 0 THEN NoEntry ELSE queue'[x][1]
    <3>1. head'[l] = e /\ \A x \in Lists : x # l => head'[x] = head[x]
      BY <2>1 DEF RingInv
    <3>2. \A x \in Lists : head[x] = IF Len(queue[x]) = 0 THEN NoEntry ELSE queue[x][1]
      BY DEF RingInv
    <3> QED
      BY <2>3, <2>5, <3>1, <3>2
  <2>11. ASSUME NEW x \in Lists, NEW y \in Lists, x # y, NEW a \in 1 .. Len(queue'[x]), NEW b \in 1 .. Len(queue'[y])
         PROVE  queue'[x][a] # queue'[y][b]
    <3>1. \A z \in Lists : z # l => \A c \in 1 .. Len(queue[z]) : \A d \in 1 .. Len(r) : queue[z][c] # r[d]
      BY <2>3, <2>4
    <3>2. CASE x = l
      BY <2>5, <2>11, <3>1, <3>2
    <3>3. CASE y = l
      BY <2>5, <2>11, <3>1, <3>3
    <3>4. CASE x # l /\ y # l
      <4>1. queue'[x] = queue[x] /\ queue'[y] = queue[y]
        BY <2>5, <3>4
      <4> QED
        <5>1. a \in 1 .. Len(queue[x]) /\ b \in 1 .. Len(queue[y]) /\ x # y
          BY <2>11, <4>1
        <5>2. queue[x][a] # queue[y][b]
          BY <5>1, RingsApart
        <5> QED
          BY <4>1, <5>2
    <3> QED
      BY <3>2, <3>3, <3>4
  <2> QED
    BY <2>8, <2>9, <2>10, <2>11, <2>n DEF RingInv
<1> QED
  BY <1>2, <1>3

(* insertHead: the entry comes second.                                     *)
LEMMA RingInsertsHead ==
  ASSUME NoEntry \notin Entries, RingInv, NEW l \in Lists, NEW e \in Entries, Ring!insertHead(e, l)
  PROVE  RingInv'
<1>q. PICK q \in Seq(Entries) : q = queue[l]
  BY DEF RingInv
<1>1. Len(q) > 0 /\ head[l] = q[1]
  BY <1>q, RingEnds DEF Ring!insertHead
<1>2. PICK n \in Nat : n = Len(q) /\ n > 0
  BY <1>1
<1>a. PICK a \in Seq(Entries) : a = <<q[1], e>> /\ Len(a) = 2 /\ a[1] = q[1] /\ a[2] = e
  <2>1. q[1] \in Entries
    BY <1>1
  <2>2. <<q[1], e>> \in Seq(Entries)
    BY <2>1
  <2> QED
    BY <2>2
<1>b. PICK b \in Seq(Entries) : b = Tail(q) /\ Len(b) = n - 1 /\ \A j \in 1 .. n - 1 : b[j] = q[j + 1]
  <2>1. Tail(q) \in Seq(Entries) /\ Len(Tail(q)) = n - 1
    BY <1>2
  <2>2. \A j \in 1 .. n - 1 : Tail(q)[j] = q[j + 1]
    BY <1>2, <2>1
  <2> QED
    BY <2>1, <2>2, Zenon
<1>r. PICK r : r = a \o b
  OBVIOUS
<1>3. /\ r \in Seq(Entries) /\ Len(r) = Len(a) + Len(b)
      /\ \A j \in 1 .. Len(a) + Len(b) : r[j] = IF j <= Len(a) THEN a[j] ELSE b[j - Len(a)]
  <2>1. /\ a \o b \in Seq(Entries) /\ Len(a \o b) = Len(a) + Len(b)
        /\ \A j \in 1 .. Len(a) + Len(b) : (a \o b)[j] = IF j <= Len(a) THEN a[j] ELSE b[j - Len(a)]
    BY ConcatProperties
  <2> QED
    BY <1>r, <2>1, Zenon
<1>4. Len(a) + Len(b) = n + 1
  BY <1>2, <1>a, <1>b
<1>5. Joined(r, q, 1, <<e>>)
  <2>1. Len(<<e>>) = 1 /\ <<e>>[1] = e
    OBVIOUS
  <2>2. ASSUME NEW j \in 1 .. n + 1 PROVE r[j] = IF j <= 1 THEN q[j] ELSE IF j <= 1 + 1 THEN <<e>>[j - 1] ELSE q[j - 1]
    <3>0. r[j] = IF j <= 2 THEN a[j] ELSE b[j - 2]
      BY <1>3, <1>4, <1>a
    <3>1. CASE j = 1
      BY <1>a, <3>0, <3>1
    <3>2. CASE j = 2
      BY <1>a, <2>1, <3>0, <3>2
    <3>3. CASE j > 2
      <4>1. PICK h \in 1 .. n - 1 : h = j - 2
        BY <1>2, <3>3
      <4>2. ~(j <= 2) /\ ~(j <= 1) /\ ~(j <= 1 + 1) /\ h + 1 = j - 1
        BY <3>3, <4>1
      <4> QED
        BY <1>b, <3>0, <4>1, <4>2
    <3> QED
      BY <3>1, <3>2, <3>3
  <2> QED
    BY <1>2, <1>3, <1>4, <2>1, <2>2 DEF Joined
<1>6. Ring!LinkAfter(e, q[1]) /\ queue' = [queue EXCEPT ![l] = r] /\ e \notin Ring!Linked
  <2>1. Head(q) = q[1]
    BY <1>1
  <2>2. Ring!LinkAfter(e, head[l]) /\ queue' = [queue EXCEPT ![l] = <<Head(q), e>> \o Tail(q)] /\ e \notin Ring!Linked
    BY <1>q DEF Ring!insertHead
  <2>3. <<Head(q), e>> \o Tail(q) = r
    BY <1>a, <1>b, <1>r, <2>1, Zenon
  <2> QED
    BY <1>1, <2>2, <2>3
<1>7. 1 \in 1 .. Len(q)
  BY <1>1
<1> QED
  BY <1>3, <1>5, <1>6, <1>7, <1>q, RingLinksAfter

(* insertNext: behind any entry.                                           *)
LEMMA RingInsertsNext ==
  ASSUME NoEntry \notin Entries, RingInv, NEW l \in Lists, NEW e \in Entries, NEW i, Ring!insertNext(e, l, i)
  PROVE  RingInv'
<1>q. PICK q \in Seq(Entries) : q = queue[l]
  BY DEF RingInv
<1>1. i \in 1 .. Len(q) /\ Ring!LinkAfter(e, q[i]) /\ e \notin Ring!Linked
      /\ queue' = [queue EXCEPT ![l] = Ring!InsertAt(q, i + 1, e)]
  BY <1>q DEF Ring!insertNext
<1>e. <<e>> \in Seq(Entries)
  OBVIOUS
<1>s. PICK s \in Seq(Entries) : s = <<e>>
  BY <1>e
<1>r. PICK r : r = SubSeq(q, 1, i) \o s \o SubSeq(q, i + 1, Len(q))
  OBVIOUS
<1>2. r \in Seq(Entries) /\ Joined(r, q, i, s)
  BY <1>1, <1>r, SeqJoined
<1>3. Ring!InsertAt(q, i + 1, e) = r
  <2>1. (i + 1) - 1 = i
    BY <1>1
  <2> QED
    BY <1>r, <1>s, <2>1 DEF Ring!InsertAt
<1> QED
  BY <1>1, <1>2, <1>3, <1>q, <1>s, RingLinksAfter

(* moveWholeList: the chain is the other list.                             *)
LEMMA RingMoves ==
  ASSUME NoEntry \notin Entries, RingInv, NEW l \in Lists, NEW src \in Lists, NEW i, Ring!moveWholeList(l, i, src)
  PROVE  RingInv'
<1>q. PICK q \in Seq(Entries) : q = queue[l]
  BY DEF RingInv
<1>s. PICK s \in Seq(Entries) : s = queue[src]
  BY DEF RingInv
<1>1. src # l /\ head[src] # NoEntry /\ i \in 1 .. Len(q)
  BY <1>q DEF Ring!moveWholeList
<1>2. Len(s) > 0 /\ head[src] = s[1] /\ prev[head[src]] = s[Len(s)]
  BY <1>1, <1>s, RingEnds
<1>3. Different(s) /\ ChainOf(s, next, prev)
  <2>1. RingOf(s, next, prev) /\ Different(s)
    BY <1>s DEF RingInv
  <2>2. ASSUME NEW a \in 1 .. Len(s) - 1 PROVE next[s[a]] = s[a + 1] /\ prev[s[a + 1]] = s[a]
    <3>1. a \in 1 .. Len(s) /\ a # Len(s)
      BY <1>2
    <3>2. After(s, a) = s[a + 1]
      BY <3>1 DEF After
    <3> QED
      BY <2>1, <3>1, <3>2 DEF RingOf
  <2> QED
    BY <2>1, <2>2 DEF ChainOf
<1>4. NotIn(s, Lists \ {src})
  BY <1>s DEF RingInv, NotIn, Apart
<1>5. next[q[i]] = After(q, i) /\ \E b \in 1 .. Len(q) : After(q, i) = q[b]
  <2>1. RingOf(q, next, prev)
    BY <1>q DEF RingInv
  <2>2. next[q[i]] = After(q, i)
    BY <1>1, <2>1 DEF RingOf
  <2> QED
    BY <1>1, <2>2, AfterIsIn
<1>r. PICK r : r = SubSeq(q, 1, i) \o s \o SubSeq(q, i + 1, Len(q))
  OBVIOUS
<1>6. r \in Seq(Entries) /\ Joined(r, q, i, s)
  BY <1>1, <1>r, SeqJoined
<1>7. /\ next' = [next EXCEPT ![s[Len(s)]] = After(q, i), ![q[i]] = s[1]]
      /\ prev' = [prev EXCEPT ![After(q, i)] = s[Len(s)], ![s[1]] = q[i]]
      /\ head' = [head EXCEPT ![src] = NoEntry]
      /\ queue' = [queue EXCEPT ![l] = r, ![src] = <<>>]
  BY <1>2, <1>5, <1>q, <1>r, <1>s DEF Ring!moveWholeList
<1>8. /\ q[i] \in Entries /\ s[1] \in Entries /\ s[Len(s)] \in Entries /\ After(q, i) \in Entries
      /\ q[i] # s[Len(s)] /\ After(q, i) # s[1]
  <2>1. 1 \in 1 .. Len(s) /\ Len(s) \in 1 .. Len(s)
    BY <1>2
  <2>2. \A a \in 1 .. Len(q) : \A b \in 1 .. Len(s) : q[a] # s[b]
    BY <1>1, <1>4, <1>q DEF NotIn, Apart
  <2> QED
    BY <1>1, <1>5, <2>1, <2>2
<1>9. next \in [Entries -> Entries \cup {NoEntry}] /\ prev \in [Entries -> Entries \cup {NoEntry}]
      /\ head \in [Lists -> Entries \cup {NoEntry}] /\ queue \in [Lists -> Seq(Entries)]
  BY DEF RingInv
<1>10. next' = [f \in Entries |-> IF f = s[Len(s)] THEN After(q, i) ELSE IF f = q[i] THEN s[1] ELSE next[f]]
  BY <1>7, <1>8, <1>9
<1>11. prev' = [f \in Entries |-> IF f = After(q, i) THEN s[Len(s)] ELSE IF f = s[1] THEN q[i] ELSE prev[f]]
  BY <1>7, <1>8, <1>9
<1>12. head' = [x \in Lists |-> IF x \in {src} THEN NoEntry ELSE head[x]]
  BY <1>7, <1>9
<1>13. queue' = [x \in Lists |-> IF x = l THEN r ELSE IF x \in {src} THEN <<>> ELSE queue[x]]
  BY <1>1, <1>7, <1>9
<1>14. {src} \in SUBSET (Lists \ {l})
  BY <1>1
<1>15. TakesIn(l, {src}, s, i, r) /\ Joined(r, queue[l], i, s) /\ i \in 1 .. Len(queue[l])
  BY <1>1, <1>6, <1>10, <1>11, <1>12, <1>13, <1>q DEF TakesIn
<1> QED
  BY <1>2, <1>3, <1>4, <1>6, <1>14, <1>15, RingSpliced

(* Unlink of the k-th entry of l.                                          *)
LEMMA RingUnlinks ==
  ASSUME NoEntry \notin Entries, RingInv, NEW l \in Lists, NEW k \in 1 .. Len(queue[l]), Ring!Unlink(queue[l][k], l),
         NEW r \in Seq(Entries), Without(r, queue[l], k), queue' = [queue EXCEPT ![l] = r]
  PROVE  RingInv'
<1>q. PICK q \in Seq(Entries) : q = queue[l]
  BY DEF RingInv
<1>x. PICK x \in Entries : x = q[k]
  BY <1>q
<1>0. PICK n \in Nat : n = Len(q) /\ n > 0 /\ k \in 1 .. n
  BY <1>q
<1>1. RingOf(q, next, prev) /\ Different(q) /\ Without(r, q, k) /\ Len(r) = n - 1
  BY <1>0, <1>q DEF RingInv, Without
<1>2. /\ head \in [Lists -> Entries \cup {NoEntry}] /\ queue \in [Lists -> Seq(Entries)]
      /\ next \in [Entries -> Entries \cup {NoEntry}] /\ prev \in [Entries -> Entries \cup {NoEntry}]
      /\ head[l] = q[1]
  BY <1>0, <1>q DEF RingInv
<1>3. PICK p \in 1 .. n : After(q, p) = q[k] /\ p = (IF k = 1 THEN n ELSE k - 1)
  <2>1. (IF k = 1 THEN n ELSE k - 1) \in 1 .. n
    BY <1>0
  <2>2. PICK p \in 1 .. n : p = (IF k = 1 THEN n ELSE k - 1)
    BY <2>1
  <2>3. After(q, p) = q[k]
    BY <1>0, <2>2 DEF After
  <2> QED
    BY <2>2, <2>3
<1>4. next[x] = After(q, k) /\ prev[x] = q[p] /\ q[p] \in Entries /\ After(q, k) \in Entries
  <2>1. next[q[k]] = After(q, k) /\ prev[After(q, p)] = q[p]
    BY <1>0, <1>1, <1>3 DEF RingOf
  <2>2. \E b \in 1 .. Len(q) : After(q, k) = q[b]
    BY <1>0, AfterIsIn
  <2> QED
    BY <1>0, <1>3, <1>x, <2>1, <2>2
<1>5. Ring!Unlink(x, l)
  BY <1>q, <1>x
<1>6. queue'[l] = r /\ \A y \in Lists : y # l => queue'[y] = queue[y]
  BY <1>2
<1>7. queue' \in [Lists -> Seq(Entries)]
  BY <1>2
<1>n. PICK nx, pv, nx2, pv2 : nx = next /\ pv = prev /\ nx2 = next' /\ pv2 = prev'
  OBVIOUS
<1>8. /\ next' \in [Entries -> Entries \cup {NoEntry}] /\ prev' \in [Entries -> Entries \cup {NoEntry}]
      /\ \A y \in Lists : y # l => head'[y] = head[y]
      /\ head' \in [Lists -> Entries \cup {NoEntry}]
      /\ head'[l] = IF Len(r) = 0 THEN NoEntry ELSE r[1]
      /\ RingOf(r, nx2, pv2) /\ Different(r) /\ OfOne(r, q)
      /\ \A f \in Entries : (\A a \in 1 .. Len(q) : f # q[a]) => nx2[f] = nx[f] /\ pv2[f] = pv[f]
  <2>1. CASE n = 1
    <3>1. k = 1 /\ p = 1 /\ Len(r) = 0
      BY <1>0, <1>1, <1>3, <2>1
    <3>2. After(q, k) = x /\ q[p] = x
      BY <1>0, <1>x, <2>1, <3>1 DEF After
    <3>3. head' = [head EXCEPT ![l] = NoEntry] /\ next' = next /\ prev' = prev
      BY <1>4, <1>5, <3>2 DEF Ring!Unlink
    <3>4. RingOf(r, nx2, pv2) /\ Different(r) /\ OfOne(r, q)
      BY <3>1 DEF RingOf, Different, OfOne
    <3> QED
      BY <1>2, <1>n, <3>1, <3>3, <3>4
  <2>2. CASE n # 1
    <3>0. n > 1
      BY <1>0, <2>2
    <3>1. p # k
      BY <1>0, <1>3, <3>0
    <3>2. q[p] # x
      BY <1>0, <1>1, <1>x, <3>1 DEF Different
    <3>3. /\ next' = [next EXCEPT ![q[p]] = After(q, k)] /\ prev' = [prev EXCEPT ![After(q, k)] = q[p]]
          /\ head' = [head EXCEPT ![l] = IF head[l] = x THEN After(q, k) ELSE head[l]]
      BY <1>4, <1>5, <3>2 DEF Ring!Unlink, Ring!NewHead
    <3>4. CutOut(Entries, nx2, pv2, nx, pv, q[k])
      BY <1>2, <1>4, <1>n, <1>x, <3>3 DEF CutOut
    <3>5. RingOf(r, nx2, pv2) /\ Different(r) /\ OfOne(r, q)
      <4>1. RingOf(q, nx, pv) /\ Different(q) /\ Without(r, q, k) /\ Len(q) > 1 /\ k \in 1 .. Len(q)
        BY <1>0, <1>1, <1>n, <3>0
      <4> QED
        BY <3>4, <4>1, RingCuts
    <3>6. ASSUME NEW f \in Entries, \A a \in 1 .. Len(q) : f # q[a] PROVE nx2[f] = nx[f] /\ pv2[f] = pv[f]
      <4>1. f # q[p] /\ f # After(q, k)
        BY <1>0, <3>6, AfterIsIn
      <4> QED
        BY <1>2, <1>n, <3>3, <4>1
    <3>7. head'[l] = r[1] /\ Len(r) # 0
      <4>1. 1 \in 1 .. n - 1 /\ Len(r) # 0
        BY <1>1, <3>0
      <4>2. r[1] = IF 1 < k THEN q[1] ELSE q[1 + 1]
        BY <1>0, <1>1, <4>1 DEF Without
      <4>3. head'[l] = IF q[1] = x THEN After(q, k) ELSE q[1]
        BY <1>2, <3>3
      <4>4. CASE k = 1
        <5>1. After(q, k) = q[1 + 1] /\ q[1] = x
          BY <1>0, <1>x, <3>0, <4>4 DEF After
        <5> QED
          BY <4>1, <4>2, <4>3, <4>4, <5>1
      <4>5. CASE k # 1
        <5>1. 1 < k /\ q[1] # x
          BY <1>0, <1>1, <1>x, <4>5 DEF Different
        <5> QED
          BY <4>1, <4>2, <4>3, <5>1
      <4> QED
        BY <4>4, <4>5
    <3>8. /\ next' \in [Entries -> Entries \cup {NoEntry}] /\ prev' \in [Entries -> Entries \cup {NoEntry}]
          /\ \A y \in Lists : y # l => head'[y] = head[y]
          /\ head' \in [Lists -> Entries \cup {NoEntry}]
      BY <1>2, <1>4, <3>3
    <3> QED
      BY <3>5, <3>6, <3>7, <3>8
  <2> QED
    BY <2>1, <2>2
<1>9. ASSUME NEW y \in Lists, y # l PROVE RingOf(queue[y], nx2, pv2) /\ Different(queue[y])
  <2>0. PICK z \in Seq(Entries) : z = queue[y]
    BY DEF RingInv
  <2>1. RingOf(z, nx, pv) /\ Different(z)
    BY <1>n, <2>0 DEF RingInv
  <2>2. \A a \in 1 .. Len(z) : z[a] \in Entries /\ \A b \in 1 .. Len(q) : z[a] # q[b]
    BY <1>9, <1>q, <2>0 DEF RingInv
  <2>3. \A a \in 1 .. Len(z) : nx2[z[a]] = nx[z[a]] /\ pv2[z[a]] = pv[z[a]]
    BY <1>8, <2>2
  <2> QED
    BY <2>0, <2>1, <2>3, RingStays
<1>10. \A y \in Lists : RingOf(queue'[y], nx2, pv2) /\ Different(queue'[y])
  BY <1>6, <1>8, <1>9
<1>11. \A y \in Lists : head'[y] = IF Len(queue'[y]) = 0 THEN NoEntry ELSE queue'[y][1]
  <2>1. \A y \in Lists : head[y] = IF Len(queue[y]) = 0 THEN NoEntry ELSE queue[y][1]
    BY DEF RingInv
  <2> QED
    BY <1>6, <1>8, <2>1
<1>12. ASSUME NEW y \in Lists, NEW z \in Lists, y # z, NEW a \in 1 .. Len(queue'[y]), NEW b \in 1 .. Len(queue'[z])
       PROVE  queue'[y][a] # queue'[z][b]
  <2>1. \A w \in Lists : w # l => \A c \in 1 .. Len(queue[w]) : \A d \in 1 .. Len(r) : queue[w][c] # r[d]
    <3> SUFFICES ASSUME NEW w \in Lists, w # l, NEW c \in 1 .. Len(queue[w]), NEW d \in 1 .. Len(r)
                 PROVE  queue[w][c] # r[d]
      OBVIOUS
    <3>1. PICK e \in 1 .. Len(q) : r[d] = q[e]
      BY <1>8 DEF OfOne
    <3>2. queue[w][c] # q[e]
      BY <1>q DEF RingInv
    <3> QED
      BY <3>1, <3>2
  <2>2. CASE y = l
    BY <1>6, <1>12, <2>1, <2>2
  <2>3. CASE z = l
    BY <1>6, <1>12, <2>1, <2>3
  <2>4. CASE y # l /\ z # l
    <3>1. queue'[y] = queue[y] /\ queue'[z] = queue[z]
      BY <1>6, <2>4
    <3> QED
      BY <1>12, <3>1, RingsApart
  <2> QED
    BY <2>2, <2>3, <2>4
<1> QED
  BY <1>7, <1>8, <1>10, <1>11, <1>12, <1>n DEF RingInv

(* removeEntry                                                             *)
LEMMA RingRemoves ==
  ASSUME NoEntry \notin Entries, RingInv, NEW l \in Lists, NEW e \in Entries, Ring!removeEntry(e, l)
  PROVE  RingInv'
<1>q. PICK q \in Seq(Entries) : q = queue[l]
  BY DEF RingInv
<1>1. PICK k \in 1 .. Len(q) : q[k] = e
  BY <1>q DEF Ring!removeEntry, Ring!ToSet
<1>r. PICK r : r = Ring!RemoveFirst(q, e)
  OBVIOUS
<1>2. {i \in 1 .. Len(q) : q[i] = q[k]} = {k}
  BY <1>q DEF RingInv, Different
<1>3. Ring!SelectInSeq(q, LAMBDA v : v = q[k]) = k
  BY <1>2 DEF Ring!SelectInSeq, Ring!Min
<1>4. r = SubSeq(q, 1, k - 1) \o SubSeq(q, k + 1, Len(q))
  <2>1. r = Ring!RemoveFirst(q, q[k])
    BY <1>1, <1>r
  <2> QED
    BY <1>3, <2>1 DEF Ring!RemoveFirst, Ring!RemoveAt
<1>5. r \in Seq(Entries) /\ Without(r, q, k)
  BY <1>4, SeqRemoved
<1>6. Ring!Unlink(q[k], l) /\ queue' = [queue EXCEPT ![l] = r]
  BY <1>1, <1>q, <1>r DEF Ring!removeEntry
<1> QED
  BY <1>5, <1>6, <1>q, RingUnlinks

(* removeHeadEntry                                                         *)
LEMMA RingRemovesHead ==
  ASSUME NoEntry \notin Entries, RingInv, NEW l \in Lists, Ring!removeHeadEntry(l)
  PROVE  RingInv'
<1>q. PICK q \in Seq(Entries) : q = queue[l]
  BY DEF RingInv
<1>1. Len(q) > 0 /\ head[l] = q[1] /\ 1 \in 1 .. Len(q)
  BY <1>q, RingEnds DEF Ring!removeHeadEntry
<1>2. PICK n \in Nat : n = Len(q) /\ n > 0
  BY <1>1
<1>r. PICK r : r = Tail(q)
  OBVIOUS
<1>3. Tail(q) \in Seq(Entries) /\ Len(Tail(q)) = n - 1
  BY <1>2
<1>4. \A j \in 1 .. n - 1 : Tail(q)[j] = q[j + 1] /\ ~(j < 1)
  BY <1>2, <1>3
<1>5. r \in Seq(Entries) /\ Without(r, q, 1)
  BY <1>2, <1>3, <1>4, <1>r DEF Without
<1>6. Ring!Unlink(q[1], l) /\ queue' = [queue EXCEPT ![l] = r]
  BY <1>1, <1>q, <1>r DEF Ring!removeHeadEntry
<1> QED
  BY <1>1, <1>5, <1>6, <1>q, RingUnlinks

(* list.h: from the head, forwards and backwards, the links lead through   *)
(* exactly the entries that were inserted and not removed, in order.       *)
THEOREM ListIsQueue ==
  ASSUME NoEntry \notin Entries
  PROVE  Ring!Spec => []Ring!RingIsQueue
<1>1. Ring!Init => RingInv
  <2>1. Len(<<>>) = 0 /\ <<>> \in Seq(Entries)
    OBVIOUS
  <2>2. \A nx, pv : RingOf(<<>>, nx, pv) /\ Different(<<>>)
    BY DEF RingOf, Different
  <2> QED
    BY <2>1, <2>2 DEF Ring!Init, RingInv
<1>2. RingInv /\ [Ring!Next]_Ring!vars => RingInv'
  <2> SUFFICES ASSUME RingInv, [Ring!Next]_Ring!vars PROVE RingInv'
    OBVIOUS
  <2>1. CASE Ring!Next
    <3>1. PICK l \in Lists :
            \/ Ring!removeHeadEntry(l)
            \/ \E e \in Entries : Ring!insertTail(e, l) \/ Ring!insertHead(e, l) \/ Ring!removeEntry(e, l)
            \/ \E e \in Entries, i \in DOMAIN queue[l] : Ring!insertNext(e, l, i)
            \/ \E src \in Lists, i \in DOMAIN queue[l] : Ring!moveWholeList(l, i, src)
      BY <2>1 DEF Ring!Next
    <3>2. CASE Ring!removeHeadEntry(l)
      BY <3>2, RingRemovesHead
    <3>3. ASSUME NEW e \in Entries, Ring!insertTail(e, l) \/ Ring!insertHead(e, l) \/ Ring!removeEntry(e, l)
          PROVE  RingInv'
      BY <3>3, RingInsertsTail, RingInsertsHead, RingRemoves
    <3>4. ASSUME NEW e \in Entries, NEW i, Ring!insertNext(e, l, i) PROVE RingInv'
      BY <3>4, RingInsertsNext
    <3>5. ASSUME NEW src \in Lists, NEW i, Ring!moveWholeList(l, i, src) PROVE RingInv'
      BY <3>5, RingMoves
    <3> QED
      BY <3>1, <3>2, <3>3, <3>4, <3>5
  <2>2. CASE UNCHANGED Ring!vars
    BY <2>2 DEF Ring!vars, RingInv
  <2> QED
    BY <2>1, <2>2
<1>3. RingInv => Ring!RingIsQueue
  <2> SUFFICES ASSUME RingInv, NEW l \in Lists
               PROVE  /\ head[l] = IF queue[l] = <<>> THEN NoEntry ELSE Head(queue[l])
                      /\ \A i \in DOMAIN queue[l] : /\ next[queue[l][i]] = Ring!Successor(queue[l], i)
                                                    /\ prev[Ring!Successor(queue[l], i)] = queue[l][i]
    BY DEF Ring!RingIsQueue
  <2>0. PICK q \in Seq(Entries) : q = queue[l]
    BY DEF RingInv
  <2>1. PICK n \in Nat : n = Len(q) /\ DOMAIN q = 1 .. n
    OBVIOUS
  <2>2. head[l] = (IF n = 0 THEN NoEntry ELSE q[1]) /\ RingOf(q, next, prev)
    BY <2>0, <2>1 DEF RingInv
  <2>3. ASSUME NEW i \in 1 .. n PROVE Ring!Successor(q, i) = After(q, i)
    <3>1. i % n = IF i = n THEN 0 ELSE i
      OBVIOUS
    <3>2. Ring!Successor(q, i) = q[(i % n) + 1]
      BY <2>1 DEF Ring!Successor
    <3> QED
      BY <2>1, <3>1, <3>2 DEF After
  <2>4. (n = 0 <=> q = <<>>) /\ (n # 0 => Head(q) = q[1])
    BY <2>1
  <2>5. \A i \in 1 .. n : next[q[i]] = Ring!Successor(q, i) /\ prev[Ring!Successor(q, i)] = q[i]
    BY <2>1, <2>2, <2>3 DEF RingOf
  <2> QED
    BY <2>0, <2>1, <2>2, <2>4, <2>5
<1> QED
  BY <1>1, <1>2, <1>3, PTL DEF Ring!Spec

-----------------------------------------------------------------------------
(***************************************************************************)
(* ThreadPool: the pool is a queue of processes that can be woken, and a   *)
(* thread finds its argument.                                              *)
(***************************************************************************)
ByEntry(f) == f = [e \in Pool!PoolEntries |-> f[e]]

PoolTypes ==
  /\ ByEntry(pool_next) /\ ByEntry(pool_prev) /\ ByEntry(status) /\ ByEntry(proc)
  /\ ByEntry(is_stack_allocated_var) /\ ByEntry(stack_space) /\ ByEntry(stack_start_addr) /\ ByEntry(arg)
  /\ ByEntry(frame) /\ ByEntry(given) /\ ByEntry(seen)
  /\ id_counter \in Nat

(* What a process that is to be woken needs: its argument, or the part of  *)
(* its creator's stack that the argument lies on.                          *)
Handed(e) ==
  IF arg[e] = "local"
  THEN is_stack_allocated_var[e] /\ stack_start_addr[e] # "nothing" /\ stack_space[e] = given[e]
  ELSE given[e] = "heap" /\ ~is_stack_allocated_var[e]

(* Where an entry's process is, what is in the entry and what its thread   *)
(* has seen.                                                               *)
EntryInv(e) ==
  /\ proc[e] \in {"none", "unborn", "work", "done", "ended", "asleep", "awake", "gone", "killed"}
  /\ proc[e] = "none" => seen[e] = "nothing" /\ status[e] = "INIT"
  /\ proc[e] = "unborn" => seen[e] = "nothing" /\ given[e] = (IF arg[e] = "local" THEN local ELSE "heap")
  /\ proc[e] = "work" => seen[e] = "nothing" /\ given[e] = (IF arg[e] = "local" THEN frame[e] ELSE "heap")
  /\ proc[e] = "done" => seen[e] = given[e]
  /\ proc[e] \in {"unborn", "work", "done"} => status[e] \in {"INIT", "READY"}
  /\ proc[e] \in {"ended", "asleep", "awake"} /\ status[e] = "READY" => seen[e] = "nothing" /\ Handed(e)
  /\ proc[e] \in {"ended", "asleep", "awake"} /\ status[e] # "READY" => seen[e] = given[e] /\ status[e] \in {"WAITING", "EXIT"}
  /\ proc[e] = "asleep" => status[e] = "WAITING"
  /\ proc[e] = "awake" => status[e] # "WAITING"
  /\ proc[e] = "gone" => seen[e] = given[e] /\ status[e] = "EXIT"
  /\ proc[e] = "killed" => seen[e] = "nothing" \/ given[e] = "cancelled"
  /\ e > id_counter => proc[e] = "none"

(* The links are those of the sequence.                                    *)
Links(q) ==
  /\ pool_head = (IF q = <<>> THEN 0 ELSE Head(q))
  /\ pool_tail = (IF q = <<>> THEN 0 ELSE q[Len(q)])
  /\ \A i \in 1 .. Len(q) :
       /\ pool_next[q[i]] = (IF i = Len(q) THEN 0 ELSE q[i + 1])
       /\ pool_prev[q[i]] = (IF i = 1 THEN 0 ELSE q[i - 1])

(* The entry waits, or its process was killed in the pool.                 *)
Wakeable(e) == status[e] = "WAITING" /\ proc[e] \in {"ended", "asleep", "killed"}

QueueInv ==
  /\ waiting \in Seq(Pool!PoolEntries)
  /\ \A i, j \in 1 .. Len(waiting) : waiting[i] = waiting[j] => i = j
  /\ Links(waiting)
  /\ ~finished => \A i \in 1 .. Len(waiting) : Wakeable(waiting[i])

PoolInv == PoolTypes /\ QueueInv /\ \A e \in Pool!PoolEntries : EntryInv(e)

-----------------------------------------------------------------------------
(* What a step does not touch.                                             *)
SameEntry(e) ==
  /\ proc'[e] = proc[e] /\ status'[e] = status[e] /\ arg'[e] = arg[e]
  /\ is_stack_allocated_var'[e] = is_stack_allocated_var[e] /\ stack_space'[e] = stack_space[e]
  /\ stack_start_addr'[e] = stack_start_addr[e] /\ frame'[e] = frame[e] /\ given'[e] = given[e] /\ seen'[e] = seen[e]

(* Writing one cell.                                                       *)
LEMMA CellSet ==
  ASSUME NEW f, ByEntry(f), NEW e \in Pool!PoolEntries, NEW v, NEW g, g = Pool!Set(f, e, v)
  PROVE  ByEntry(g) /\ g[e] = v /\ \A d \in Pool!PoolEntries \ {e} : g[d] = f[d]
BY DEF ByEntry, Pool!Set

(* An entry that a step leaves alone.                                      *)
LEMMA OtherEntry ==
  ASSUME NEW e \in Pool!PoolEntries, EntryInv(e), SameEntry(e), local' = local \/ proc[e] # "unborn",
         id_counter \in Nat, id_counter' \in Nat, id_counter' >= id_counter
  PROVE  EntryInv(e)'
<1>1. e > id_counter' => e > id_counter
  <2>1. e \in Int
    BY DEF Pool!PoolEntries
  <2> QED
    BY <2>1
<1>2. Handed(e) => Handed(e)'
  BY DEF Handed, SameEntry
<1> QED
  BY <1>1, <1>2 DEF EntryInv, SameEntry

(* A queue that a step leaves alone.                                       *)
LEMMA SameQueue ==
  ASSUME QueueInv, UNCHANGED Pool!list, ~finished' => ~finished,
         \A i \in 1 .. Len(waiting) : ~finished' /\ Wakeable(waiting[i]) => Wakeable(waiting[i])'
  PROVE  QueueInv'
<1>1. /\ waiting' = waiting /\ pool_head' = pool_head /\ pool_tail' = pool_tail /\ pool_next' = pool_next
      /\ pool_prev' = pool_prev
  BY DEF Pool!list
<1>2. Links(waiting)'
  BY <1>1 DEF QueueInv, Links
<1> QED
  BY <1>1, <1>2 DEF QueueInv

-----------------------------------------------------------------------------
(* A process's own step that is not one on the list.                       *)
LEMMA PoolOwnStep ==
  ASSUME PoolInv, NEW e \in Pool!PoolEntries, PoolTypes', UNCHANGED Pool!list, finished' = finished, id_counter' = id_counter,
         local' = local, \A d \in Pool!PoolEntries \ {e} : SameEntry(d),
         EntryInv(e)', ~finished /\ Wakeable(e) => Wakeable(e)'
  PROVE  PoolInv'
<1>1. \A d \in Pool!PoolEntries : EntryInv(d)'
  <2> SUFFICES ASSUME NEW d \in Pool!PoolEntries PROVE EntryInv(d)'
    OBVIOUS
  <2>1. CASE d = e
    BY <2>1
  <2>2. CASE d # e
    <3>1. EntryInv(d) /\ SameEntry(d) /\ id_counter \in Nat /\ id_counter' \in Nat /\ id_counter' >= id_counter
      BY <2>2 DEF PoolInv, PoolTypes
    <3> QED
      BY <3>1, OtherEntry
  <2> QED
    BY <2>1, <2>2
<1>2. QueueInv /\ waiting \in Seq(Pool!PoolEntries) /\ (~finished' => ~finished)
  BY DEF PoolInv, QueueInv
<1>3. ASSUME NEW i \in 1 .. Len(waiting), ~finished', Wakeable(waiting[i]) PROVE Wakeable(waiting[i])'
  <2>0. waiting' = waiting
    BY DEF Pool!list
  <2>1. PICK d \in Pool!PoolEntries : d = waiting[i]
    BY <1>2
  <2>2. Wakeable(d)
    BY <1>3, <2>1
  <2>3. Wakeable(d)'
    <3>1. CASE d = e
      BY <1>3, <2>2, <3>1
    <3>2. CASE d # e
      BY <2>2, <3>2 DEF Wakeable, SameEntry
    <3> QED
      BY <3>1, <3>2
  <2> QED
    BY <2>0, <2>1, <2>3 DEF Wakeable
<1>4. QueueInv'
  BY <1>2, <1>3, SameQueue
<1> QED
  BY <1>1, <1>4 DEF PoolInv

(* The function runs, and finds what is in the process's own frame.        *)
LEMMA PoolRuns ==
  ASSUME PoolInv, NEW e \in Pool!PoolEntries, Pool!RunFunction(e) PROVE PoolInv'
<1>0. PoolTypes /\ EntryInv(e)
  BY DEF PoolInv
<1>1. /\ proc[e] = "work" /\ proc' = Pool!Set(proc, e, "done")
      /\ seen' = Pool!Set(seen, e, IF arg[e] = "local" THEN frame[e] ELSE "heap")
      /\ UNCHANGED Pool!list /\ status' = status /\ id_counter' = id_counter
      /\ is_stack_allocated_var' = is_stack_allocated_var /\ stack_space' = stack_space
      /\ stack_start_addr' = stack_start_addr /\ arg' = arg /\ local' = local /\ frame' = frame
      /\ finished' = finished /\ given' = given
  BY Zenon DEF Pool!RunFunction, Pool!stack
<1>2. ByEntry(proc') /\ proc'[e] = "done" /\ \A d \in Pool!PoolEntries \ {e} : proc'[d] = proc[d]
  BY <1>0, <1>1, CellSet DEF PoolTypes
<1>3. /\ ByEntry(seen') /\ seen'[e] = (IF arg[e] = "local" THEN frame[e] ELSE "heap")
      /\ \A d \in Pool!PoolEntries \ {e} : seen'[d] = seen[d]
  BY <1>0, <1>1, CellSet DEF PoolTypes
<1>4. PoolTypes'
  BY <1>0, <1>1, <1>2, <1>3 DEF PoolTypes, Pool!list
<1>5. \A d \in Pool!PoolEntries \ {e} : SameEntry(d)
  BY <1>1, <1>2, <1>3 DEF SameEntry
<1>6. EntryInv(e)'
  BY <1>0, <1>1, <1>2, <1>3 DEF EntryInv
<1>7. ~Wakeable(e)
  BY <1>1 DEF Wakeable
<1> QED
  BY <1>1, <1>4, <1>5, <1>6, <1>7, PoolOwnStep

(* park_thread                                                             *)
LEMMA PoolParks ==
  ASSUME PoolInv, NEW e \in Pool!PoolEntries, Pool!Park(e) PROVE PoolInv'
<1>0. PoolTypes /\ EntryInv(e)
  BY DEF PoolInv
<1>1. /\ proc[e] = "ended" /\ proc' = Pool!Set(proc, e, IF status[e] = "WAITING" THEN "asleep" ELSE "awake")
      /\ UNCHANGED Pool!list /\ status' = status /\ id_counter' = id_counter
      /\ is_stack_allocated_var' = is_stack_allocated_var /\ stack_space' = stack_space
      /\ stack_start_addr' = stack_start_addr /\ arg' = arg /\ local' = local /\ frame' = frame
      /\ finished' = finished /\ given' = given /\ seen' = seen
  BY Zenon DEF Pool!Park, Pool!stack
<1>2. /\ ByEntry(proc') /\ proc'[e] = (IF status[e] = "WAITING" THEN "asleep" ELSE "awake")
      /\ \A d \in Pool!PoolEntries \ {e} : proc'[d] = proc[d]
  BY <1>0, <1>1, CellSet DEF PoolTypes
<1>4. PoolTypes'
  BY <1>0, <1>1, <1>2 DEF PoolTypes, Pool!list
<1>5. \A d \in Pool!PoolEntries \ {e} : SameEntry(d)
  BY <1>1, <1>2 DEF SameEntry
<1>6. EntryInv(e)'
  BY <1>0, <1>1, <1>2 DEF EntryInv, Handed
<1>7. Wakeable(e) => Wakeable(e)'
  BY <1>1, <1>2 DEF Wakeable
<1> QED
  BY <1>1, <1>4, <1>5, <1>6, <1>7, PoolOwnStep

(* copy_parent_stack, and the loop.                                        *)
LEMMA PoolWakes ==
  ASSUME PoolInv, NEW e \in Pool!PoolEntries, Pool!WakeUp(e) PROVE PoolInv'
<1>0. PoolTypes /\ EntryInv(e)
  BY DEF PoolInv
<1>1. /\ proc[e] = "awake" /\ proc' = Pool!Set(proc, e, IF status[e] = "EXIT" THEN "gone" ELSE "work")
      /\ UNCHANGED Pool!list /\ status' = status /\ id_counter' = id_counter
      /\ is_stack_allocated_var' = is_stack_allocated_var /\ stack_space' = stack_space
      /\ stack_start_addr' = stack_start_addr /\ arg' = arg /\ local' = local
      /\ finished' = finished /\ given' = given /\ seen' = seen
      /\ frame' = IF is_stack_allocated_var[e] /\ stack_start_addr[e] # "nothing"
                  THEN Pool!Set(frame, e, stack_space[e]) ELSE frame
  BY Zenon DEF Pool!WakeUp, Pool!stack
<1>2. /\ ByEntry(proc') /\ proc'[e] = (IF status[e] = "EXIT" THEN "gone" ELSE "work")
      /\ \A d \in Pool!PoolEntries \ {e} : proc'[d] = proc[d]
  BY <1>0, <1>1, CellSet DEF PoolTypes
<1>3. /\ ByEntry(frame') /\ \A d \in Pool!PoolEntries \ {e} : frame'[d] = frame[d]
      /\ is_stack_allocated_var[e] /\ stack_start_addr[e] # "nothing" => frame'[e] = stack_space[e]
  <2>1. CASE is_stack_allocated_var[e] /\ stack_start_addr[e] # "nothing"
    BY <1>0, <1>1, <2>1, CellSet DEF PoolTypes
  <2>2. CASE ~(is_stack_allocated_var[e] /\ stack_start_addr[e] # "nothing")
    BY <1>0, <1>1, <2>2 DEF PoolTypes
  <2> QED
    BY <2>1, <2>2
<1>4. PoolTypes'
  BY <1>0, <1>1, <1>2, <1>3 DEF PoolTypes, Pool!list
<1>5. \A d \in Pool!PoolEntries \ {e} : SameEntry(d)
  BY <1>1, <1>2, <1>3 DEF SameEntry
<1>6. EntryInv(e)'
  BY <1>0, <1>1, <1>2, <1>3 DEF EntryInv, Handed
<1>7. ~Wakeable(e)
  BY <1>1 DEF Wakeable
<1> QED
  BY <1>1, <1>4, <1>5, <1>6, <1>7, PoolOwnStep

(* forkSpawn                                                               *)
LEMMA PoolClones ==
  ASSUME PoolInv, Pool!Clone PROVE PoolInv'
<1>1. PICK e \in Pool!PoolEntries :
        proc[e] = "unborn" /\ proc' = Pool!Set(proc, e, "work") /\ frame' = Pool!Set(frame, e, local)
  BY Zenon DEF Pool!Clone
<1>0. PoolTypes /\ EntryInv(e)
  BY DEF PoolInv
<1>u. /\ UNCHANGED Pool!list /\ status' = status /\ id_counter' = id_counter
      /\ is_stack_allocated_var' = is_stack_allocated_var /\ stack_space' = stack_space
      /\ stack_start_addr' = stack_start_addr /\ arg' = arg /\ local' = local
      /\ finished' = finished /\ given' = given /\ seen' = seen
  BY Zenon DEF Pool!Clone, Pool!stack
<1>2. ByEntry(proc') /\ proc'[e] = "work" /\ \A d \in Pool!PoolEntries \ {e} : proc'[d] = proc[d]
  BY <1>0, <1>1, CellSet DEF PoolTypes
<1>3. ByEntry(frame') /\ frame'[e] = local /\ \A d \in Pool!PoolEntries \ {e} : frame'[d] = frame[d]
  BY <1>0, <1>1, CellSet DEF PoolTypes
<1>4. PoolTypes'
  BY <1>0, <1>u, <1>2, <1>3 DEF PoolTypes, Pool!list
<1>5. \A d \in Pool!PoolEntries \ {e} : SameEntry(d)
  BY <1>u, <1>2, <1>3 DEF SameEntry
<1>6. EntryInv(e)'
  BY <1>0, <1>u, <1>1, <1>2, <1>3 DEF EntryInv
<1>7. ~Wakeable(e)
  BY <1>1 DEF Wakeable
<1> QED
  BY <1>u, <1>4, <1>5, <1>6, <1>7, PoolOwnStep

(* pthread_cancel                                                          *)
LEMMA PoolCancels ==
  ASSUME PoolInv, Pool!Cancel PROVE PoolInv'
<1>1. PICK e \in Pool!PoolEntries :
        proc[e] \notin {"none", "killed"} /\ given' = Pool!Set(given, e, "cancelled") /\ proc' = Pool!Set(proc, e, "killed")
  BY Zenon DEF Pool!Cancel
<1>0. PoolTypes /\ EntryInv(e)
  BY DEF PoolInv
<1>u. /\ UNCHANGED Pool!list /\ status' = status /\ id_counter' = id_counter
      /\ is_stack_allocated_var' = is_stack_allocated_var /\ stack_space' = stack_space
      /\ stack_start_addr' = stack_start_addr /\ arg' = arg /\ local' = local
      /\ finished' = finished /\ frame' = frame /\ seen' = seen
  BY Zenon DEF Pool!Cancel, Pool!stack
<1>2. ByEntry(proc') /\ proc'[e] = "killed" /\ \A d \in Pool!PoolEntries \ {e} : proc'[d] = proc[d]
  BY <1>0, <1>1, CellSet DEF PoolTypes
<1>3. ByEntry(given') /\ given'[e] = "cancelled" /\ \A d \in Pool!PoolEntries \ {e} : given'[d] = given[d]
  BY <1>0, <1>1, CellSet DEF PoolTypes
<1>4. PoolTypes'
  BY <1>0, <1>u, <1>2, <1>3 DEF PoolTypes, Pool!list
<1>5. \A d \in Pool!PoolEntries \ {e} : SameEntry(d)
  BY <1>u, <1>2, <1>3 DEF SameEntry
<1>6. EntryInv(e)'
  BY <1>0, <1>u, <1>1, <1>2, <1>3 DEF EntryInv
<1>7. Wakeable(e) => Wakeable(e)'
  BY <1>u, <1>2 DEF Wakeable
<1> QED
  BY <1>u, <1>4, <1>5, <1>6, <1>7, PoolOwnStep

-----------------------------------------------------------------------------
(* add_thread_to_pool: the entry, which is not in the list, comes first.   *)
LEMMA PoolGrows ==
  ASSUME QueueInv, ByEntry(pool_next), ByEntry(pool_prev), NEW e \in Pool!PoolEntries,
         \A i \in 1 .. Len(waiting) : waiting[i] # e,
         Pool!AddToPool(e)
  PROVE  /\ waiting' \in Seq(Pool!PoolEntries) /\ Links(waiting)' /\ ByEntry(pool_next') /\ ByEntry(pool_prev')
         /\ \A i, j \in 1 .. Len(waiting') : waiting'[i] = waiting'[j] => i = j
         /\ Len(waiting') = Len(waiting) + 1 /\ waiting'[1] = e
         /\ \A i \in 2 .. Len(waiting') : waiting'[i] = waiting[i - 1]
<1> DEFINE q == waiting
           r == waiting'
           n == Len(waiting)
<1>0. q \in Seq(Pool!PoolEntries) /\ n \in Nat /\ Links(q)
  BY DEF QueueInv
<1>1. r = <<e>> \o q /\ pool_head' = e
  BY DEF Pool!AddToPool
<1>2. r \in Seq(Pool!PoolEntries) /\ Len(r) = n + 1 /\ r[1] = e /\ \A i \in 2 .. n + 1 : r[i] = q[i - 1]
  BY <1>0, <1>1
<1>3. e \in Int /\ e >= 1 /\ \A i \in 1 .. n : q[i] \in Pool!PoolEntries /\ q[i] \in Int /\ q[i] >= 1 /\ q[i] # e
  <2>1. \A i \in 1 .. n : q[i] \in Pool!PoolEntries
    BY <1>0
  <2>2. \A d \in Pool!PoolEntries : d \in Int /\ d >= 1
    BY DEF Pool!PoolEntries
  <2> QED
    BY <2>1, <2>2
<1>4. ASSUME NEW i \in 1 .. n + 1, NEW j \in 1 .. n + 1, r[i] = r[j] PROVE i = j
  <2>1. CASE i = 1 \/ j = 1
    BY <1>0, <1>2, <1>3, <1>4, <2>1
  <2>2. CASE i # 1 /\ j # 1
    <3>1. i - 1 \in 1 .. n /\ j - 1 \in 1 .. n /\ q[i - 1] = q[j - 1]
      BY <1>0, <1>2, <1>4, <2>2
    <3>2. i - 1 = j - 1
      BY <3>1 DEF QueueInv
    <3> QED
      BY <3>2
  <2> QED
    BY <2>1, <2>2
<1>5. CASE n = 0
  <2>1. q = <<>> /\ pool_head = 0
    BY <1>0, <1>5 DEF Links
  <2>2. pool_next' = Pool!Set(pool_next, e, 0) /\ pool_prev' = Pool!Set(pool_prev, e, 0) /\ pool_tail' = e
    BY <2>1 DEF Pool!AddToPool, Pool!None
  <2>3. ByEntry(pool_next') /\ pool_next'[e] = 0
    BY <2>2, CellSet
  <2>4. ByEntry(pool_prev') /\ pool_prev'[e] = 0
    BY <2>2, CellSet
  <2>5. Len(r) = 1 /\ r # <<>> /\ Head(r) = e /\ r[Len(r)] = e /\ \A i \in 1 .. Len(r) : i = 1 /\ r[i] = e
    <3>1. r \in Seq(Pool!PoolEntries) /\ Len(r) = 1 /\ r[1] = e
      BY <1>2, <1>5
    <3>2. \A i \in 1 .. 1 : i = 1
      OBVIOUS
    <3> HIDE DEF r
    <3> QED
      BY <3>1, <3>2
  <2>6. Links(waiting)'
    BY <1>1, <2>2, <2>3, <2>4, <2>5 DEF Links
  <2> QED
    BY <1>2, <1>4, <2>3, <2>4, <2>6
<1>6. CASE n # 0
  <2>0. q # <<>> /\ n >= 1
    BY <1>0, <1>6
  <2>1. pool_head = q[1] /\ pool_tail = q[n] /\ pool_head # 0 /\ pool_head \in Pool!PoolEntries /\ pool_head # e
    BY <1>0, <1>3, <2>0 DEF Links
  <2>2. /\ pool_next' = Pool!Set(pool_next, e, q[1]) /\ pool_tail' = q[n]
        /\ pool_prev' = [pool_prev EXCEPT ![e] = 0, ![q[1]] = e]
    BY <2>1 DEF Pool!AddToPool, Pool!None
  <2>3. ByEntry(pool_next') /\ pool_next'[e] = q[1] /\ \A d \in Pool!PoolEntries \ {e} : pool_next'[d] = pool_next[d]
    BY <2>2, CellSet
  <2>4. /\ ByEntry(pool_prev') /\ pool_prev'[e] = 0 /\ pool_prev'[q[1]] = e
        /\ \A d \in Pool!PoolEntries \ {e, q[1]} : pool_prev'[d] = pool_prev[d]
    BY <2>1, <2>2 DEF ByEntry
  <2>5. r # <<>> /\ Head(r) = e /\ r[n + 1] = q[n] /\ r[2] = q[1]
    BY <1>0, <1>2, <2>0
  <2>6. ASSUME NEW i \in 1 .. n + 1
        PROVE  /\ pool_next'[r[i]] = (IF i = n + 1 THEN 0 ELSE r[i + 1])
               /\ pool_prev'[r[i]] = (IF i = 1 THEN 0 ELSE r[i - 1])
    <3>1. CASE i = 1
      BY <1>0, <1>2, <2>0, <2>3, <2>4, <2>5, <3>1
    <3>2. CASE i # 1
      <4>1. i - 1 \in 1 .. n /\ r[i] = q[i - 1] /\ q[i - 1] \in Pool!PoolEntries \ {e}
        BY <1>0, <1>2, <1>3, <3>2
      <4>2. pool_next'[r[i]] = (IF i - 1 = n THEN 0 ELSE q[(i - 1) + 1])
        BY <1>0, <2>3, <4>1 DEF Links
      <4>3. pool_next'[r[i]] = (IF i = n + 1 THEN 0 ELSE r[i + 1])
        <5>1. CASE i = n + 1
          BY <1>0, <4>2, <5>1
        <5>2. CASE i # n + 1
          <6>1. i + 1 \in 2 .. n + 1 /\ (i + 1) - 1 = (i - 1) + 1 /\ i - 1 # n
            BY <1>0, <5>2
          <6>2. r[i + 1] = q[(i + 1) - 1]
            BY <1>2, <6>1
          <6> QED
            BY <4>2, <6>1, <6>2, <5>2
        <5> QED
          BY <5>1, <5>2
      <4>4. CASE i = 2
        BY <1>2, <2>4, <2>5, <4>1, <4>4, <4>3
      <4>5. CASE i # 2
        <5>1. i - 2 \in 1 .. n /\ i - 1 # 1 /\ i - 1 \in 2 .. n + 1 /\ (i - 1) - 1 = i - 2
          BY <1>0, <3>2, <4>5
        <5>2. q[i - 1] # q[1]
          BY <1>0, <2>0, <4>1, <5>1 DEF QueueInv
        <5>3. pool_prev'[r[i]] = pool_prev[q[i - 1]]
          BY <2>4, <4>1, <5>2
        <5>4. pool_prev[q[i - 1]] = q[(i - 1) - 1]
          BY <1>0, <4>1, <5>1 DEF Links
        <5>5. r[i - 1] = q[(i - 1) - 1]
          BY <1>2, <5>1
        <5> QED
          BY <3>2, <4>3, <5>3, <5>4, <5>5
      <4> QED
        BY <4>4, <4>5
    <3> QED
      BY <3>1, <3>2
  <2>7. Links(waiting)'
    <3>1. Len(r) = n + 1 /\ pool_tail' = r[Len(r)] /\ pool_head' = Head(r) /\ r # <<>>
      BY <1>1, <1>2, <2>2, <2>5
    <3> HIDE DEF n
    <3> QED
      BY <2>6, <3>1 DEF Links
  <2> QED
    BY <1>2, <1>4, <2>3, <2>4, <2>7
<1> QED
  BY <1>5, <1>6

(* get_thread: the entry at the tail goes.                                 *)
LEMMA PoolShrinks ==
  ASSUME QueueInv, ByEntry(pool_next), ByEntry(pool_prev), pool_tail # 0, Pool!TakeTail
  PROVE  /\ waiting' \in Seq(Pool!PoolEntries) /\ Links(waiting)' /\ ByEntry(pool_next') /\ ByEntry(pool_prev')
         /\ Len(waiting) >= 1 /\ pool_tail = waiting[Len(waiting)] /\ pool_tail \in Pool!PoolEntries
         /\ Len(waiting') = Len(waiting) - 1
         /\ \A i \in 1 .. Len(waiting) - 1 : waiting'[i] = waiting[i]
<1> DEFINE q == waiting
           r == waiting'
           n == Len(waiting)
<1>0. q \in Seq(Pool!PoolEntries) /\ n \in Nat /\ Links(q)
  BY DEF QueueInv
<1>1. q # <<>> /\ pool_tail = q[n]
  BY <1>0 DEF Links
<1>2. n >= 1 /\ pool_tail \in Pool!PoolEntries
  BY <1>0, <1>1
<1>3. r = SubSeq(q, 1, n - 1) /\ pool_prev' = pool_prev
  BY DEF Pool!TakeTail, Pool!Front
<1>4. r \in Seq(Pool!PoolEntries) /\ Len(r) = n - 1 /\ \A i \in 1 .. n - 1 : r[i] = q[i]
  <2>1. 1 \in Int /\ n - 1 \in Int /\ \A i \in 1 .. n - 1 : q[i] \in Pool!PoolEntries
    BY <1>0, <1>2
  <2>2. PICK m \in Int : m = n - 1
    BY <2>1
  <2>3. /\ SubSeq(q, 1, m) \in Seq(Pool!PoolEntries) /\ Len(SubSeq(q, 1, m)) = (IF 1 <= m THEN m - 1 + 1 ELSE 0)
        /\ \A i \in 1 .. m - 1 + 1 : SubSeq(q, 1, m)[i] = q[1 + i - 1]
    BY <2>1, <2>2, SubSeqProperties
  <2>4. m - 1 + 1 = m /\ \A i \in 1 .. m : 1 + i - 1 = i
    OBVIOUS
  <2> QED
    BY <1>0, <1>2, <1>3, <2>2, <2>3, <2>4
<1>5. \A d \in Pool!PoolEntries : d \in Int /\ d >= 1
  BY DEF Pool!PoolEntries
<1>6. pool_prev[pool_tail] = (IF n = 1 THEN 0 ELSE q[n - 1])
  <2>1. n \in 1 .. n
    BY <1>0, <1>2
  <2>2. \A i \in 1 .. n : pool_prev[q[i]] = (IF i = 1 THEN 0 ELSE q[i - 1])
    BY <1>0 DEF Links
  <2> HIDE DEF n, q
  <2> QED
    BY <1>1, <2>1, <2>2
<1>7. CASE n = 1
  <2>1. pool_tail' = 0 /\ pool_head' = 0 /\ pool_next' = pool_next
    BY <1>6, <1>7 DEF Pool!TakeTail, Pool!None
  <2>2. r = <<>> /\ \A i \in 1 .. Len(r) : FALSE
    BY <1>4, <1>7
  <2>3. Links(waiting)'
    BY <2>1, <2>2 DEF Links
  <2> QED
    BY <1>1, <1>2, <1>3, <1>4, <2>1, <2>3
<1>8. CASE n # 1
  <2>0. n - 1 \in 1 .. n /\ n - 1 >= 1 /\ n \in 1 .. n
    BY <1>0, <1>2, <1>8
  <2>1. q[n - 1] \in Pool!PoolEntries /\ q[n - 1] # 0
    BY <1>0, <1>5, <2>0
  <2>2. pool_tail' = q[n - 1] /\ pool_head' = pool_head /\ pool_next' = Pool!Set(pool_next, q[n - 1], 0)
    BY <1>6, <1>8, <2>1 DEF Pool!TakeTail, Pool!None
  <2>3. ByEntry(pool_next') /\ pool_next'[q[n - 1]] = 0 /\ \A d \in Pool!PoolEntries \ {q[n - 1]} : pool_next'[d] = pool_next[d]
    BY <2>1, <2>2, CellSet
  <2>4. r # <<>> /\ Head(r) = Head(q)
    BY <1>0, <1>1, <1>4, <2>0
  <2>5. ASSUME NEW i \in 1 .. n - 1
        PROVE  /\ pool_next'[r[i]] = (IF i = n - 1 THEN 0 ELSE r[i + 1])
               /\ pool_prev'[r[i]] = (IF i = 1 THEN 0 ELSE r[i - 1])
    <3>1. r[i] = q[i] /\ i \in 1 .. n /\ i # n /\ q[i] \in Pool!PoolEntries
      BY <1>0, <1>4
    <3>2. pool_prev'[r[i]] = (IF i = 1 THEN 0 ELSE q[i - 1])
      BY <1>0, <1>3, <3>1 DEF Links
    <3>3. i # 1 => i - 1 \in 1 .. n - 1
      BY <1>0
    <3>4. pool_prev'[r[i]] = (IF i = 1 THEN 0 ELSE r[i - 1])
      BY <1>4, <3>2, <3>3
    <3>5. CASE i = n - 1
      BY <2>3, <3>1, <3>4, <3>5
    <3>6. CASE i # n - 1
      <4>1. q[i] # q[n - 1]
        BY <2>0, <3>1, <3>6 DEF QueueInv
      <4>2. pool_next'[r[i]] = q[i + 1]
        BY <1>0, <2>3, <3>1, <4>1 DEF Links
      <4>3. i + 1 \in 1 .. n - 1
        BY <1>0, <3>6
      <4> QED
        BY <1>4, <3>4, <3>6, <4>2, <4>3
    <3> QED
      BY <3>5, <3>6
  <2>6. Links(waiting)'
    <3>1. Len(r) = n - 1 /\ pool_tail' = r[Len(r)] /\ pool_head' = Head(r) /\ r # <<>>
      <4>1. n - 1 \in 1 .. n - 1
        BY <2>0
      <4> QED
        BY <1>0, <1>1, <1>4, <2>2, <2>4, <4>1 DEF Links
    <3> HIDE DEF n
    <3> QED
      BY <2>5, <3>1 DEF Links
  <2> QED
    BY <1>1, <1>2, <1>3, <1>4, <2>3, <2>6
<1> QED
  BY <1>7, <1>8

(* threadDeregister: into the pool, or out for good.                       *)
LEMMA PoolLeaves ==
  ASSUME PoolInv, NEW e \in Pool!PoolEntries, Pool!Deregister(e) PROVE PoolInv'
<1>0. PoolTypes /\ EntryInv(e) /\ QueueInv
  BY DEF PoolInv
<1>1. /\ proc[e] = "done" /\ proc' = Pool!Set(proc, e, "ended")
      /\ is_stack_allocated_var' = Pool!Set(is_stack_allocated_var, e, FALSE)
      /\ id_counter' = id_counter /\ stack_space' = stack_space
      /\ stack_start_addr' = stack_start_addr /\ arg' = arg /\ local' = local /\ frame' = frame
      /\ finished' = finished /\ given' = given /\ seen' = seen
  BY Zenon DEF Pool!Deregister
<1>2. ByEntry(proc') /\ proc'[e] = "ended" /\ \A d \in Pool!PoolEntries \ {e} : proc'[d] = proc[d]
  BY <1>0, <1>1, CellSet DEF PoolTypes
<1>3. /\ ByEntry(is_stack_allocated_var')
      /\ \A d \in Pool!PoolEntries \ {e} : is_stack_allocated_var'[d] = is_stack_allocated_var[d]
  <2>1. ByEntry(is_stack_allocated_var)
    BY <1>0 DEF PoolTypes
  <2>2. PICK b : is_stack_allocated_var' = Pool!Set(is_stack_allocated_var, e, b)
    BY <1>1, Zenon
  <2> QED
    BY <2>1, <2>2, CellSet
<1>4. PICK v \in {"WAITING", "EXIT"} : status' = Pool!Set(status, e, v) /\ (~finished => v = "WAITING")
  BY Zenon DEF Pool!Deregister, Pool!AddToPool, Pool!ExitsById
<1>5. ByEntry(status') /\ status'[e] = v /\ \A d \in Pool!PoolEntries \ {e} : status'[d] = status[d]
  BY <1>0, <1>4, CellSet DEF PoolTypes
<1>6. \A d \in Pool!PoolEntries \ {e} : SameEntry(d)
  BY <1>1, <1>2, <1>3, <1>5 DEF SameEntry
<1>7. EntryInv(e)'
  BY <1>0, <1>1, <1>2, <1>4, <1>5 DEF EntryInv
<1>8. CASE finished
  <2>1. UNCHANGED Pool!list
    BY <1>8, Zenon DEF Pool!Deregister, Pool!ExitsById
  <2>2. PoolTypes'
    BY <1>0, <1>1, <1>2, <1>3, <1>5, <2>1 DEF PoolTypes, Pool!list
  <2> QED
    BY <1>1, <1>6, <1>7, <1>8, <2>1, <2>2, PoolOwnStep
<1>9. CASE ~finished
  <2>1. Pool!AddToPool(e)
    BY <1>9, Zenon DEF Pool!Deregister
  <2>2. \A i \in 1 .. Len(waiting) : waiting[i] # e /\ Wakeable(waiting[i]) /\ waiting[i] \in Pool!PoolEntries
    <3>1. \A i \in 1 .. Len(waiting) : waiting[i] \in Pool!PoolEntries /\ Wakeable(waiting[i])
      BY <1>0, <1>9 DEF QueueInv
    <3> QED
      BY <1>1, <3>1 DEF Wakeable
  <2>3. /\ waiting' \in Seq(Pool!PoolEntries) /\ Links(waiting)' /\ ByEntry(pool_next') /\ ByEntry(pool_prev')
        /\ \A i, j \in 1 .. Len(waiting') : waiting'[i] = waiting'[j] => i = j
        /\ Len(waiting') = Len(waiting) + 1 /\ waiting'[1] = e
        /\ \A i \in 2 .. Len(waiting') : waiting'[i] = waiting[i - 1]
    BY <1>0, <2>1, <2>2, PoolGrows DEF PoolTypes
  <2>4. ASSUME NEW i \in 1 .. Len(waiting') PROVE Wakeable(waiting[i])'
    <3>0. Len(waiting) \in Nat
      BY <1>0 DEF QueueInv
    <3>1. CASE i = 1
      BY <1>2, <1>4, <1>5, <1>9, <2>3, <3>1 DEF Wakeable
    <3>2. CASE i # 1
      <4>1. i - 1 \in 1 .. Len(waiting) /\ i \in 2 .. Len(waiting')
        BY <2>3, <3>0, <3>2
      <4>2. PICK d \in Pool!PoolEntries \ {e} : d = waiting[i - 1] /\ Wakeable(d)
        BY <2>2, <4>1
      <4>3. waiting'[i] = d
        BY <2>3, <4>1, <4>2
      <4> QED
        BY <1>2, <1>5, <4>2, <4>3 DEF Wakeable
    <3> QED
      BY <3>1, <3>2
  <2>5. QueueInv'
    BY <2>3, <2>4 DEF QueueInv
  <2>6. PoolTypes'
    BY <1>0, <1>1, <1>2, <1>3, <1>5, <2>3 DEF PoolTypes
  <2>7. ASSUME NEW d \in Pool!PoolEntries PROVE EntryInv(d)'
    <3>1. CASE d = e
      BY <1>7, <3>1
    <3>2. CASE d # e
      <4>1. EntryInv(d) /\ SameEntry(d) /\ id_counter \in Nat /\ id_counter' \in Nat /\ id_counter' >= id_counter
        BY <1>0, <1>1, <1>6, <3>2 DEF PoolInv, PoolTypes
      <4> QED
        BY <1>1, <4>1, OtherEntry
    <3> QED
      BY <3>1, <3>2
  <2> QED
    BY <2>5, <2>6, <2>7 DEF PoolInv
<1> QED
  BY <1>8, <1>9

(* What get_thread leaves in the entry, whichever it takes.                *)
LEMMA PoolHands ==
  ASSUME PoolTypes, NEW e \in Pool!PoolEntries, NEW where \in {"local", "heap"}, Pool!HandOver(e, where),
         \/ status[e] = "WAITING" /\ proc[e] \in {"ended", "asleep", "killed"}
         \/ status[e] = "INIT" /\ proc[e] = "none",
         frame' = frame, local' = local, e <= id_counter'
  PROVE  /\ ByEntry(status') /\ ByEntry(proc') /\ ByEntry(is_stack_allocated_var') /\ ByEntry(stack_space')
         /\ ByEntry(stack_start_addr') /\ ByEntry(arg') /\ ByEntry(given') /\ ByEntry(seen')
         /\ \A d \in Pool!PoolEntries \ {e} : SameEntry(d)
         /\ id_counter' \in Nat => EntryInv(e)'
<1>1. ByEntry(arg') /\ arg'[e] = where /\ \A d \in Pool!PoolEntries \ {e} : arg'[d] = arg[d]
  <2>1. arg' = Pool!Set(arg, e, where) /\ ByEntry(arg)
    BY DEF Pool!HandOver, PoolTypes
  <2> QED
    BY <2>1, CellSet
<1>2. /\ ByEntry(is_stack_allocated_var') /\ is_stack_allocated_var'[e] = (where = "local")
      /\ \A d \in Pool!PoolEntries \ {e} : is_stack_allocated_var'[d] = is_stack_allocated_var[d]
  <2>1. PICK b : b = (where = "local")
    OBVIOUS
  <2>2. is_stack_allocated_var' = Pool!Set(is_stack_allocated_var, e, b) /\ ByEntry(is_stack_allocated_var)
    BY <2>1, Zenon DEF Pool!HandOver, PoolTypes
  <2>3. /\ ByEntry(is_stack_allocated_var') /\ is_stack_allocated_var'[e] = b
        /\ \A d \in Pool!PoolEntries \ {e} : is_stack_allocated_var'[d] = is_stack_allocated_var[d]
    BY <2>2, CellSet
  <2> QED
    BY <2>1, <2>3, Zenon
<1>3. /\ ByEntry(given') /\ given'[e] = (IF where = "local" THEN local ELSE "heap")
      /\ \A d \in Pool!PoolEntries \ {e} : given'[d] = given[d]
  <2>1. given' = Pool!Set(given, e, IF where = "local" THEN local ELSE "heap") /\ ByEntry(given)
    BY DEF Pool!HandOver, PoolTypes
  <2> QED
    BY <2>1, CellSet
<1>4. ByEntry(seen') /\ seen'[e] = "nothing" /\ \A d \in Pool!PoolEntries \ {e} : seen'[d] = seen[d]
  <2>1. seen' = Pool!Set(seen, e, "nothing") /\ ByEntry(seen)
    BY DEF Pool!HandOver, PoolTypes
  <2> QED
    BY <2>1, CellSet
<1>5. /\ ByEntry(status') /\ status'[e] = (IF status[e] = "WAITING" THEN "READY" ELSE "INIT")
      /\ \A d \in Pool!PoolEntries \ {e} : status'[d] = status[d]
  <2>1. status' = Pool!Set(status, e, IF status[e] = "WAITING" THEN "READY" ELSE "INIT") /\ ByEntry(status)
    BY DEF Pool!HandOver, PoolTypes
  <2> QED
    BY <2>1, CellSet
<1>6. /\ ByEntry(proc') /\ proc'[e] = (IF status[e] # "WAITING" THEN "unborn" ELSE IF proc[e] = "asleep" THEN "awake" ELSE proc[e])
      /\ \A d \in Pool!PoolEntries \ {e} : proc'[d] = proc[d]
  <2>1. /\ proc' = Pool!Set(proc, e, IF status[e] # "WAITING" THEN "unborn" ELSE IF proc[e] = "asleep" THEN "awake" ELSE proc[e])
        /\ ByEntry(proc)
    BY DEF Pool!HandOver, PoolTypes
  <2> QED
    BY <2>1, CellSet
<1>7. /\ ByEntry(stack_space') /\ ByEntry(stack_start_addr')
      /\ \A d \in Pool!PoolEntries \ {e} : stack_space'[d] = stack_space[d] /\ stack_start_addr'[d] = stack_start_addr[d]
      /\ where = "local" /\ status[e] # "INIT" => stack_space'[e] = local /\ stack_start_addr'[e] = "local"
  <2>0. ByEntry(stack_space) /\ ByEntry(stack_start_addr)
    BY DEF PoolTypes
  <2>1. CASE Pool!SavesStack(e, where)
    <3>1. stack_space' = Pool!Set(stack_space, e, local) /\ stack_start_addr' = Pool!Set(stack_start_addr, e, "local")
      BY <2>1, Zenon DEF Pool!HandOver, Pool!SaveParentStack
    <3>2. ByEntry(stack_space') /\ stack_space'[e] = local /\ \A d \in Pool!PoolEntries \ {e} : stack_space'[d] = stack_space[d]
      BY <2>0, <3>1, CellSet
    <3>3. ByEntry(stack_start_addr') /\ stack_start_addr'[e] = "local" /\ \A d \in Pool!PoolEntries \ {e} : stack_start_addr'[d] = stack_start_addr[d]
      BY <2>0, <3>1, CellSet
    <3> QED
      BY <3>2, <3>3
  <2>2. CASE ~Pool!SavesStack(e, where)
    <3>1. stack_space' = stack_space /\ stack_start_addr' = stack_start_addr
      BY <2>2, Zenon DEF Pool!HandOver
    <3> QED
      BY <2>0, <2>2, <3>1 DEF Pool!SavesStack
  <2> QED
    BY <2>1, <2>2
<1>8. \A d \in Pool!PoolEntries \ {e} : SameEntry(d)
  BY <1>1, <1>2, <1>3, <1>4, <1>5, <1>6, <1>7 DEF SameEntry
<1>9. ASSUME id_counter' \in Nat PROVE EntryInv(e)'
  <2>0. ~(e > id_counter')
    <3>1. e \in Int
      BY DEF Pool!PoolEntries
    <3> QED
      BY <1>9, <3>1
  <2>1. CASE status[e] = "WAITING"
    <3>1. Handed(e)'
      BY <1>1, <1>2, <1>3, <1>7, <2>1 DEF Handed
    <3>2. status'[e] = "READY" /\ proc'[e] \in {"ended", "awake", "killed"} /\ seen'[e] = "nothing"
      BY <1>4, <1>5, <1>6, <2>1
    <3> QED
      BY <2>0, <3>1, <3>2 DEF EntryInv
  <2>2. CASE status[e] = "INIT"
    <3>1. status'[e] = "INIT" /\ proc'[e] = "unborn"
      BY <1>5, <1>6, <2>2
    <3> QED
      BY <1>1, <1>3, <1>4, <2>0, <3>1 DEF EntryInv
  <2> QED
    BY <2>1, <2>2
<1> QED
  BY <1>1, <1>2, <1>3, <1>4, <1>5, <1>6, <1>7, <1>8, <1>9

(* pthread_create                                                          *)
LEMMA PoolCreates ==
  ASSUME PoolSize \in Nat, PoolInv, Pool!GetThread PROVE PoolInv'
<1>0. PoolTypes /\ QueueInv /\ \A e \in Pool!PoolEntries : EntryInv(e)
  BY DEF PoolInv
<1>1. /\ ~finished /\ local' = local /\ frame' = frame /\ finished' = finished
      /\ \A d \in Pool!PoolEntries : proc[d] # "unborn"
  BY Zenon DEF Pool!GetThread, Pool!Creating
<1>2. PICK where \in {"local", "heap"} :
       \/ /\ pool_tail # 0 /\ Pool!TakeTail /\ Pool!HandOver(pool_tail, where) /\ id_counter' = id_counter
       \/ /\ pool_tail = 0 /\ id_counter < PoolSize - 1 /\ id_counter' = id_counter + 1
          /\ Pool!HandOver(id_counter + 1, where) /\ UNCHANGED Pool!list
  BY Zenon DEF Pool!GetThread, Pool!None
<1>3. CASE pool_tail # 0 /\ Pool!TakeTail /\ Pool!HandOver(pool_tail, where) /\ id_counter' = id_counter
  <2>1. /\ waiting' \in Seq(Pool!PoolEntries) /\ Links(waiting)' /\ ByEntry(pool_next') /\ ByEntry(pool_prev')
        /\ Len(waiting) >= 1 /\ pool_tail = waiting[Len(waiting)] /\ pool_tail \in Pool!PoolEntries
        /\ Len(waiting') = Len(waiting) - 1
        /\ \A i \in 1 .. Len(waiting) - 1 : waiting'[i] = waiting[i]
    BY <1>0, <1>3, PoolShrinks DEF PoolTypes
  <2>2. PICK e \in Pool!PoolEntries : e = pool_tail
    BY <2>1
  <2>3. Len(waiting) \in Nat /\ Len(waiting) \in 1 .. Len(waiting) /\ waiting \in Seq(Pool!PoolEntries)
    BY <1>0, <2>1 DEF QueueInv
  <2>4. Wakeable(e)
    BY <1>0, <1>1, <2>1, <2>2, <2>3 DEF QueueInv
  <2>5. e <= id_counter'
    <3>1. EntryInv(e) /\ e \in Int /\ id_counter \in Int
      BY <1>0 DEF Pool!PoolEntries, PoolTypes
    <3> QED
      BY <1>3, <2>4, <3>1 DEF EntryInv, Wakeable
  <2>6. /\ ByEntry(status') /\ ByEntry(proc') /\ ByEntry(is_stack_allocated_var') /\ ByEntry(stack_space')
        /\ ByEntry(stack_start_addr') /\ ByEntry(arg') /\ ByEntry(given') /\ ByEntry(seen')
        /\ \A d \in Pool!PoolEntries \ {e} : SameEntry(d)
        /\ id_counter' \in Nat => EntryInv(e)'
    <3>1. Pool!HandOver(e, where)
      BY <1>3, <2>2
    <3>2. status[e] = "WAITING" /\ proc[e] \in {"ended", "asleep", "killed"}
      BY <2>4 DEF Wakeable
    <3> QED
      BY <1>0, <1>1, <2>5, <3>1, <3>2, PoolHands
  <2>7. PoolTypes'
    BY <1>0, <1>1, <1>3, <2>1, <2>6 DEF PoolTypes
  <2>8. ASSUME NEW i \in 1 .. Len(waiting')
        PROVE  i \in 1 .. Len(waiting) /\ waiting'[i] = waiting[i] /\ waiting[i] \in Pool!PoolEntries \ {e}
    <3>1. i \in 1 .. Len(waiting) - 1 /\ i \in 1 .. Len(waiting) /\ i # Len(waiting)
      BY <2>1, <2>3
    <3>2. waiting[i] # waiting[Len(waiting)]
      BY <1>0, <2>3, <3>1 DEF QueueInv
    <3> QED
      BY <2>1, <2>2, <2>3, <3>1, <3>2
  <2>9. ASSUME NEW i \in 1 .. Len(waiting') PROVE Wakeable(waiting[i])'
    <3>1. PICK d \in Pool!PoolEntries \ {e} : d = waiting[i] /\ d = waiting'[i]
      BY <2>8
    <3>2. Wakeable(d)
      BY <1>0, <1>1, <2>8, <3>1 DEF QueueInv
    <3> QED
      BY <2>6, <3>1, <3>2 DEF Wakeable, SameEntry
  <2>10. ASSUME NEW i \in 1 .. Len(waiting'), NEW j \in 1 .. Len(waiting'), waiting'[i] = waiting'[j] PROVE i = j
    BY <1>0, <2>8, <2>10 DEF QueueInv
  <2>11. QueueInv'
    BY <2>1, <2>9, <2>10 DEF QueueInv
  <2>12. ASSUME NEW d \in Pool!PoolEntries PROVE EntryInv(d)'
    <3>1. CASE d = e
      BY <2>6, <2>7, <3>1 DEF PoolTypes
    <3>2. CASE d # e
      <4>1. EntryInv(d) /\ SameEntry(d) /\ id_counter \in Nat /\ id_counter' \in Nat /\ id_counter' >= id_counter
        BY <1>0, <1>3, <2>6, <3>2 DEF PoolTypes
      <4> QED
        BY <1>1, <4>1, OtherEntry
    <3> QED
      BY <3>1, <3>2
  <2> QED
    BY <2>7, <2>11, <2>12 DEF PoolInv
<1>4. CASE /\ pool_tail = 0 /\ id_counter < PoolSize - 1 /\ id_counter' = id_counter + 1
           /\ Pool!HandOver(id_counter + 1, where) /\ UNCHANGED Pool!list
  <2>0. id_counter \in Nat
    BY <1>0 DEF PoolTypes
  <2>1. PICK e \in Pool!PoolEntries : e = id_counter + 1
    BY <1>4, <2>0 DEF Pool!PoolEntries
  <2>2. EntryInv(e) /\ e > id_counter /\ e <= id_counter' /\ id_counter' \in Nat /\ id_counter' >= id_counter
    BY <1>0, <1>4, <2>0, <2>1
  <2>3. proc[e] = "none" /\ status[e] = "INIT" /\ ~Wakeable(e)
    BY <2>2 DEF EntryInv, Wakeable
  <2>4. /\ ByEntry(status') /\ ByEntry(proc') /\ ByEntry(is_stack_allocated_var') /\ ByEntry(stack_space')
        /\ ByEntry(stack_start_addr') /\ ByEntry(arg') /\ ByEntry(given') /\ ByEntry(seen')
        /\ \A d \in Pool!PoolEntries \ {e} : SameEntry(d)
        /\ id_counter' \in Nat => EntryInv(e)'
    <3>1. Pool!HandOver(e, where)
      BY <1>4, <2>1
    <3> QED
      BY <1>0, <1>1, <2>2, <2>3, <3>1, PoolHands
  <2>5. PoolTypes'
    BY <1>0, <1>1, <1>4, <2>2, <2>4 DEF PoolTypes, Pool!list
  <2>6. ASSUME NEW i \in 1 .. Len(waiting), Wakeable(waiting[i]) PROVE Wakeable(waiting[i])'
    <3>0. waiting' = waiting
      BY <1>4 DEF Pool!list
    <3>1. PICK d \in Pool!PoolEntries : d = waiting[i]
      BY <1>0 DEF QueueInv
    <3>2. d # e
      BY <2>3, <2>6, <3>1
    <3> QED
      BY <2>4, <2>6, <3>0, <3>1, <3>2 DEF Wakeable, SameEntry
  <2>7. QueueInv'
    BY <1>0, <1>1, <1>4, <2>6, SameQueue
  <2>8. ASSUME NEW d \in Pool!PoolEntries PROVE EntryInv(d)'
    <3>1. CASE d = e
      BY <2>2, <2>4, <3>1
    <3>2. CASE d # e
      <4>1. EntryInv(d) /\ SameEntry(d)
        BY <1>0, <2>4, <3>2
      <4> QED
        BY <1>1, <2>0, <2>2, <4>1, OtherEntry
    <3> QED
      BY <3>1, <3>2
  <2> QED
    BY <2>5, <2>7, <2>8 DEF PoolInv
<1> QED
  BY <1>2, <1>3, <1>4

(* The program goes on, and ends.                                          *)
LEMMA PoolMain ==
  ASSUME PoolInv, Pool!MainWrites \/ Pool!Finish PROVE PoolInv'
<1>0. PoolTypes /\ QueueInv /\ \A e \in Pool!PoolEntries : EntryInv(e)
  BY DEF PoolInv
<1>1. CASE Pool!MainWrites
  <2>1. /\ UNCHANGED Pool!list /\ status' = status /\ id_counter' = id_counter
        /\ is_stack_allocated_var' = is_stack_allocated_var /\ stack_space' = stack_space
        /\ stack_start_addr' = stack_start_addr /\ arg' = arg /\ proc' = proc /\ frame' = frame
        /\ finished' = finished /\ given' = given /\ seen' = seen
        /\ \A d \in Pool!PoolEntries : proc[d] # "unborn"
    BY <1>1, Zenon DEF Pool!MainWrites, Pool!stack, Pool!Creating
  <2>2. PoolTypes'
    BY <1>0, <2>1 DEF PoolTypes, Pool!list
  <2>3. ASSUME NEW d \in Pool!PoolEntries PROVE EntryInv(d)'
    <3>1. EntryInv(d) /\ SameEntry(d) /\ id_counter \in Nat /\ id_counter' \in Nat /\ id_counter' >= id_counter
      BY <1>0, <2>1 DEF SameEntry, PoolTypes
    <3> QED
      BY <2>1, <3>1, OtherEntry
  <2>4. QueueInv'
    <3>1. waiting' = waiting
      BY <2>1 DEF Pool!list
    <3>2. \A i \in 1 .. Len(waiting) : Wakeable(waiting[i]) => Wakeable(waiting[i])'
      BY <2>1, <3>1 DEF Wakeable
    <3> QED
      BY <1>0, <2>1, <3>2, SameQueue
  <2> QED
    BY <2>2, <2>3, <2>4 DEF PoolInv
<1>2. CASE Pool!Finish
  <2>1. /\ UNCHANGED Pool!list /\ id_counter' = id_counter /\ finished'
        /\ is_stack_allocated_var' = is_stack_allocated_var /\ stack_space' = stack_space
        /\ stack_start_addr' = stack_start_addr /\ arg' = arg /\ frame' = frame /\ local' = local
        /\ given' = given /\ seen' = seen
    BY <1>2, Zenon DEF Pool!Finish, Pool!stack
  <2>2. /\ status' = [e \in Pool!PoolEntries |-> IF status[e] = "WAITING" THEN "EXIT" ELSE status[e]]
        /\ proc' = [e \in Pool!PoolEntries |-> IF status[e] = "WAITING" /\ proc[e] = "asleep" THEN "awake" ELSE proc[e]]
    BY <1>2 DEF Pool!Finish
  <2>3. ByEntry(status') /\ ByEntry(proc')
    BY <2>2 DEF ByEntry
  <2>4. PoolTypes'
    BY <1>0, <2>1, <2>3 DEF PoolTypes, Pool!list
  <2>5. ASSUME NEW d \in Pool!PoolEntries PROVE EntryInv(d)'
    <3>0. /\ status'[d] = (IF status[d] = "WAITING" THEN "EXIT" ELSE status[d])
          /\ proc'[d] = (IF status[d] = "WAITING" /\ proc[d] = "asleep" THEN "awake" ELSE proc[d])
      BY <2>2
    <3>1. CASE status[d] = "WAITING"
      <4>1. EntryInv(d) /\ proc[d] \in {"ended", "asleep", "killed"}
        BY <1>0, <3>1 DEF EntryInv
      <4> QED
        BY <2>1, <3>0, <3>1, <4>1 DEF EntryInv
    <3>2. CASE status[d] # "WAITING"
      <4>1. EntryInv(d) /\ SameEntry(d) /\ id_counter \in Nat /\ id_counter' \in Nat /\ id_counter' >= id_counter
        BY <1>0, <2>1, <3>0, <3>2 DEF SameEntry, PoolTypes
      <4> QED
        BY <2>1, <4>1, OtherEntry
    <3> QED
      BY <3>1, <3>2
  <2>6. QueueInv'
    BY <1>0, <2>1, SameQueue
  <2> QED
    BY <2>4, <2>5, <2>6 DEF PoolInv
<1> QED
  BY <1>1, <1>2

-----------------------------------------------------------------------------
(* The invariant holds in every reachable state.                           *)
LEMMA PoolAlways ==
  ASSUME PoolSize \in Nat PROVE Pool!Spec => []PoolInv
<1>1. Pool!Init => PoolInv
  <2> SUFFICES ASSUME Pool!Init PROVE PoolInv
    OBVIOUS
  <2>1. PoolTypes
    BY DEF Pool!Init, PoolTypes, ByEntry
  <2>2. waiting = <<>> /\ pool_head = 0 /\ pool_tail = 0
    BY DEF Pool!Init, Pool!None
  <2>3. QueueInv
    BY <2>2 DEF QueueInv, Links
  <2>4. \A e \in Pool!PoolEntries : proc[e] = "none" /\ seen[e] = "nothing" /\ status[e] = "INIT"
    BY DEF Pool!Init
  <2> QED
    BY <2>1, <2>3, <2>4 DEF PoolInv, EntryInv
<1>2. PoolInv /\ [Pool!Next]_Pool!vars => PoolInv'
  <2> SUFFICES ASSUME PoolInv, [Pool!Next]_Pool!vars PROVE PoolInv'
    OBVIOUS
  <2>1. CASE UNCHANGED Pool!vars
    <3>1. UNCHANGED <<pool_head, pool_tail, pool_next, pool_prev, status, id_counter, is_stack_allocated_var,
                      stack_space, stack_start_addr, arg, proc, local, frame, finished, waiting, given, seen>>
      BY <2>1 DEF Pool!vars, Pool!list, Pool!stack
    <3>2. PoolTypes' /\ QueueInv'
      BY <3>1 DEF PoolInv, PoolTypes, ByEntry, QueueInv, Links, Wakeable
    <3>3. ASSUME NEW d \in Pool!PoolEntries PROVE EntryInv(d)'
      <4>1. EntryInv(d)
        BY DEF PoolInv
      <4> QED
        BY <3>1, <4>1 DEF EntryInv, Handed
    <3> QED
      BY <3>2, <3>3 DEF PoolInv
  <2>2. CASE Pool!GetThread
    BY <2>2, PoolCreates
  <2>3. CASE Pool!Clone
    BY <2>3, PoolClones
  <2>4. CASE Pool!MainWrites \/ Pool!Finish
    BY <2>4, PoolMain
  <2>5. CASE Pool!Cancel
    BY <2>5, PoolCancels
  <2>6. ASSUME NEW e \in Pool!PoolEntries, Pool!RunFunction(e) \/ Pool!Deregister(e) \/ Pool!Park(e) \/ Pool!WakeUp(e)
        PROVE  PoolInv'
    BY <2>6, PoolRuns, PoolLeaves, PoolParks, PoolWakes
  <2> QED
    BY <2>1, <2>2, <2>3, <2>4, <2>5, <2>6, Zenon DEF Pool!Next
<1> QED
  BY <1>1, <1>2, PTL DEF Pool!Spec

(* thread_pool.h and xthread.cpp: a thread finds the argument that its     *)
(* creator passed, on whatever stack its process has from earlier          *)
(* creations, for every size of the pool and every order of creations,     *)
(* exits, wake-ups and cancellations.                                      *)
THEOREM ThreadArgumentArrives ==
  ASSUME PoolSize \in Nat PROVE Pool!Spec => []ArgumentArrives
<1>1. PoolInv => Pool!ArgumentArrives
  <2> SUFFICES ASSUME PoolInv, NEW e \in Pool!PoolEntries, seen[e] # "nothing", given[e] # "cancelled"
               PROVE  seen[e] = given[e]
    BY DEF Pool!ArgumentArrives
  <2>1. EntryInv(e)
    BY DEF PoolInv
  <2> QED
    BY <2>1 DEF EntryInv
<1> QED
  BY <1>1, PoolAlways, PTL DEF ArgumentArrives

(* thread_pool.h: the links from both ends are the queue of the entries    *)
(* that wait, and as long as the program runs each has a process that can  *)
(* be woken, or was cancelled.                                             *)
THEOREM PoolStaysQueue ==
  ASSUME PoolSize \in Nat PROVE Pool!Spec => []Pool!PoolIsQueue
<1>1. PoolInv => Pool!PoolIsQueue
  <2> SUFFICES ASSUME PoolInv PROVE Pool!PoolIsQueue
    OBVIOUS
  <2>1. QueueInv
    BY DEF PoolInv
  <2> QED
    BY <2>1 DEF QueueInv, Links, Wakeable, Pool!PoolIsQueue, Pool!None, Pool!Last
<1> QED
  BY <1>1, PoolAlways, PTL

(* listarray.h, list.h and thread_pool.h together, as the run checks them: *)
(* whatever is inserted, removed and moved, in whatever order, the links   *)
(* stay those of the queue.                                                *)
THEOREM ListsStayQueues ==
  ASSUME MaxSize \in Nat, NoEntry \notin Entries, PoolSize \in Nat
  PROVE  Array!Spec /\ Ring!Spec /\ Pool!Spec => []ListsAreQueues
<1>1. Array!Spec => []Array!LinksAreMembers
  BY ActiveListIsQueue
<1>2. Ring!Spec => []Ring!RingIsQueue
  BY ListIsQueue
<1>3. Pool!Spec => []Pool!PoolIsQueue
  BY PoolStaysQueue
<1> QED
  BY <1>1, <1>2, <1>3, PTL DEF ListsAreQueues

-----------------------------------------------------------------------------
(***************************************************************************)
(* SimpleLocks: the mutexes of the DWC build.                              *)
(***************************************************************************)
At == {"user", "lock", "unlock", "wait", "broadcast", "signal", "init", "release", "asleep"}

(* The types of the variables that the argument uses.                      *)
LockTypes ==
  /\ tokenpos \in LockThreads \cup {NoOne}
  /\ token_holding \in [LockThreads -> BOOLEAN]
  /\ lock_count \in [LockThreads -> Nat]
  /\ is_acquired \in [Locks -> BOOLEAN]
  /\ doing \in [LockThreads -> [at : At, op : At \cup {"none"}, m : Locks \cup {NoOne}]]
  /\ has \in [LockThreads -> SUBSET Locks]
  /\ committed \in [Locks -> Nat]
  /\ sees \in [LockThreads -> [Locks -> Nat]]
  /\ written \in [Locks -> Nat]

(* What a thread is in the middle of: which mutexes it has there, and that *)
(* it has the token whenever it has one.                                   *)
Holding(t) ==
  /\ token_holding[t] <=> tokenpos = t
  /\ IsFiniteSet(has[t]) /\ lock_count[t] = Cardinality(has[t])
  /\ has[t] # {} => token_holding[t]
  /\ doing[t].at \in {"lock", "unlock", "wait", "asleep"} => doing[t].m \in Locks
  /\ doing[t].at = "lock" => doing[t].m \notin has[t]
  /\ doing[t].at = "unlock" => doing[t].m \in has[t]
  /\ doing[t].at = "wait" => has[t] = {doing[t].m}
  /\ doing[t].at \in {"broadcast", "init", "asleep", "release"} => has[t] = {}
  /\ doing[t].at = "release" => token_holding[t]

(* A mutex is marked exactly while a thread has it.                        *)
Marked(m) == is_acquired[m] <=> \E t \in LockThreads : m \in has[t]

(* Who has the token sees everything that was written; what the others see *)
(* is committed, and so is everything once nobody has the token.           *)
Seen(m) ==
  /\ committed[m] <= written[m]
  /\ tokenpos = NoOne => committed[m] = written[m]
  /\ \A t \in LockThreads :
       IF token_holding[t] THEN sees[t][m] = written[m] ELSE sees[t][m] <= committed[m]

LockInv ==
  /\ LockTypes /\ ~weird
  /\ \A t \in LockThreads : Holding(t)
  /\ \A m \in Locks : Marked(m) /\ Seen(m)

-----------------------------------------------------------------------------
(* commitAndUpdateMemory of a thread that has the token or may take it     *)
(* leaves everything committed and in its view; of another thread it       *)
(* commits nothing.                                                        *)
LEMMA Committed ==
  ASSUME LockInv, NoOne \notin LockThreads, NEW t \in LockThreads, Simple!CommitAndUpdateMemory(t)
  PROVE  /\ committed' \in [Locks -> Nat] /\ sees' \in [LockThreads -> [Locks -> Nat]]
         /\ \A u \in LockThreads \ {t} : sees'[u] = sees[u]
         /\ sees'[t] = committed'
         /\ Simple!MayHaveToken(t) => committed' = written
         /\ ~token_holding[t] => committed' = committed
<1> DEFINE merged == [m \in Locks |-> IF sees[t][m] > committed[m] THEN sees[t][m] ELSE committed[m]]
<1>1. committed' = merged /\ sees' = [sees EXCEPT ![t] = merged]
  BY DEF Simple!CommitAndUpdateMemory
<1>2. LockTypes /\ \A m \in Locks : Seen(m)
  BY DEF LockInv
<1>3. \A m \in Locks : committed[m] \in Nat /\ sees[t][m] \in Nat /\ written[m] \in Nat
  BY <1>2 DEF LockTypes
<1>4. merged \in [Locks -> Nat]
  BY <1>3
<1>5. Simple!MayHaveToken(t) => merged = written
  <2> SUFFICES ASSUME Simple!MayHaveToken(t), NEW m \in Locks PROVE merged[m] = written[m]
    BY <1>2, <1>4 DEF LockTypes
  <2>1. merged[m] = IF sees[t][m] > committed[m] THEN sees[t][m] ELSE committed[m]
    OBVIOUS
  <2>2. CASE token_holding[t]
    <3>1. sees[t][m] = written[m] /\ committed[m] <= written[m]
      BY <1>2, <2>2 DEF Seen
    <3> QED
      BY <1>3, <2>1, <3>1
  <2>3. CASE ~token_holding[t]
    <3>1. sees[t][m] <= committed[m] /\ committed[m] = written[m]
      BY <1>2, <2>3 DEF Seen, Simple!MayHaveToken
    <3> QED
      BY <1>3, <2>1, <3>1
  <2> QED
    BY <2>2, <2>3
<1>6. ~token_holding[t] => merged = committed
  <2> SUFFICES ASSUME ~token_holding[t], NEW m \in Locks PROVE merged[m] = committed[m]
    BY <1>2, <1>4 DEF LockTypes
  <2>1. sees[t][m] <= committed[m]
    BY <1>2 DEF Seen
  <2> QED
    BY <1>3, <2>1
<1> HIDE DEF merged
<1>7. sees \in [LockThreads -> [Locks -> Nat]]
  BY <1>2 DEF LockTypes
<1> QED
  BY <1>1, <1>4, <1>5, <1>6, <1>7


(* While a thread has the token or may take it, nobody else has a mutex.   *)
LEMMA Alone ==
  ASSUME LockInv, NoOne \notin LockThreads, NEW t \in LockThreads, Simple!MayHaveToken(t),
         NEW u \in LockThreads \ {t}
  PROVE  ~token_holding[u] /\ has[u] = {}
<1>1. Holding(u) /\ Holding(t)
  BY DEF LockInv
<1>2. tokenpos # u
  BY <1>1 DEF Simple!MayHaveToken, Holding
<1> QED
  BY <1>1, <1>2 DEF Holding

(* A commit under the token, which the thread may keep or give back.       *)
LEMMA SeenByCommit ==
  ASSUME LockInv, NoOne \notin LockThreads, NEW t \in LockThreads, Simple!MayHaveToken(t),
         Simple!CommitAndUpdateMemory(t), UNCHANGED written,
         \A u \in LockThreads \ {t} : token_holding'[u] = token_holding[u]
  PROVE  \A m \in Locks : Seen(m)'
<1> SUFFICES ASSUME NEW m \in Locks PROVE Seen(m)'
  OBVIOUS
<1>1. /\ committed' = written /\ sees'[t] = committed'
      /\ \A u \in LockThreads \ {t} : sees'[u] = sees[u]
  BY Committed
<1>2. LockTypes /\ Seen(m)
  BY DEF LockInv
<1>3. /\ written[m] \in Nat /\ committed[m] \in Nat /\ committed[m] <= written[m]
      /\ \A u \in LockThreads : sees[u][m] \in Nat
  BY <1>2 DEF LockTypes, Seen
<1>4. ASSUME NEW u \in LockThreads
      PROVE  IF token_holding'[u] THEN sees'[u][m] = written'[m]
             ELSE sees'[u][m] <= committed'[m]
  <2>1. CASE u = t
    BY <1>1, <1>3, <2>1
  <2>2. CASE u # t
    <3>1. ~token_holding[u]
      BY <2>2, Alone
    <3>2. sees[u][m] <= committed[m]
      BY <1>2, <3>1 DEF Seen
    <3>3. sees'[u][m] = sees[u][m] /\ sees[u][m] \in Nat /\ ~token_holding'[u]
      BY <1>1, <1>3, <2>2, <3>1
    <3>4. sees[u][m] <= written[m]
      BY <1>3, <3>2, <3>3
    <3> QED
      BY <1>1, <3>3, <3>4
  <2> QED
    BY <2>1, <2>2
<1>5. committed'[m] <= written'[m] /\ committed'[m] = written'[m]
  BY <1>1, <1>3
<1> QED
  BY <1>4, <1>5 DEF Seen

(* Whatever a thread does under the token, the others are where they were. *)
LEMMA OthersHold ==
  ASSUME LockInv, NoOne \notin LockThreads, NEW t \in LockThreads,
         \/ Simple!MayHaveToken(t) /\ tokenpos' \in {t, NoOne}
         \/ UNCHANGED tokenpos,
         NEW u \in LockThreads \ {t},
         token_holding'[u] = token_holding[u], lock_count'[u] = lock_count[u],
         has'[u] = has[u], doing'[u] = doing[u]
  PROVE  Holding(u)'
<1>1. Holding(u)
  BY DEF LockInv
<1>2. token_holding'[u] <=> tokenpos' = u
  <2>1. CASE UNCHANGED tokenpos
    BY <1>1, <2>1 DEF Holding
  <2>2. CASE Simple!MayHaveToken(t) /\ tokenpos' \in {t, NoOne}
    <3>1. ~token_holding[u]
      BY <2>2, Alone
    <3> QED
      BY <2>2, <3>1
  <2> QED
    BY <2>1, <2>2
<1> QED
  BY <1>1, <1>2 DEF Holding

-----------------------------------------------------------------------------
(* A call only says what the thread is about to do; inside a critical      *)
(* section the program does not broadcast, initialise or wait with more.   *)
LEMMA CallKeeps ==
  ASSUME LockInv, NoOne \notin LockThreads, Inside = {}, NEW t \in LockThreads,
         NEW m \in Locks, NEW op \in {"lock", "unlock", "wait", "broadcast", "signal", "init"},
         Simple!MayCall(t, op, m), Simple!Call(t, op, m)
  PROVE  LockInv'
<1>1. /\ doing' = [doing EXCEPT ![t] = [at |-> op, op |-> op, m |-> m]]
      /\ UNCHANGED <<tokenpos, token_holding, lock_count, is_acquired, committed, sees, has,
                     weird, written>>
  BY DEF Simple!Call, Simple!Goto, Simple!runtime, Simple!program
<1>2. LockTypes
  BY DEF LockInv
<1>3. LockTypes'
  BY <1>1, <1>2 DEF LockTypes, At
<1>4. doing'[t] = [at |-> op, op |-> op, m |-> m] /\ \A u \in LockThreads \ {t} : doing'[u] = doing[u]
  BY <1>1, <1>2 DEF LockTypes
<1>5. Holding(t)'
  <2>1. Holding(t)
    BY DEF LockInv
  <2>2. doing'[t].at = op /\ doing'[t].m = m
    BY <1>4
  <2>3. /\ op = "lock" => m \notin has[t]
        /\ op = "unlock" => m \in has[t]
        /\ op = "wait" => has[t] = {m}
        /\ op \in {"broadcast", "init"} => has[t] = {}
    BY DEF Simple!MayCall
  <2> QED
    BY <1>1, <2>1, <2>2, <2>3 DEF Holding
<1>6. ASSUME NEW u \in LockThreads \ {t} PROVE Holding(u)'
  BY <1>1, <1>4, OthersHold
<1>7. \A n \in Locks : Marked(n)' /\ Seen(n)'
  BY <1>1 DEF LockInv, Marked, Seen
<1> QED
  BY <1>1, <1>3, <1>5, <1>6, <1>7 DEF LockInv

(* The program adds one to what its mutex protects: it has the token.      *)
LEMMA SectionKeeps ==
  ASSUME LockInv, NoOne \notin LockThreads, NEW t \in LockThreads, NEW m \in Locks, Simple!Section(t, m)
  PROVE  LockInv'
<1>1. /\ m \in has[t] /\ sees' = [sees EXCEPT ![t][m] = @ + 1]
      /\ written' = [written EXCEPT ![m] = @ + 1]
      /\ UNCHANGED <<tokenpos, token_holding, lock_count, is_acquired, doing, committed, has, weird>>
  BY DEF Simple!Section, Simple!runtime
<1>2. LockTypes /\ token_holding[t] /\ tokenpos = t
  BY <1>1 DEF LockInv, Holding
<1>3. sees[t][m] \in Nat /\ written[m] \in Nat /\ sees[t] \in [Locks -> Nat]
  BY <1>2 DEF LockTypes
<1>4. LockTypes'
  BY <1>1, <1>2, <1>3 DEF LockTypes
<1>5. (\A u \in LockThreads : Holding(u)') /\ (\A n \in Locks : Marked(n)')
  BY <1>1 DEF LockInv, Holding, Marked
<1>6. ASSUME NEW n \in Locks PROVE Seen(n)'
  <2>1. Seen(n)
    BY DEF LockInv
  <2>2. /\ committed[n] \in Nat /\ written[n] \in Nat
        /\ \A u \in LockThreads : sees[u][n] \in Nat
    BY <1>2 DEF LockTypes
  <2>3. ASSUME NEW u \in LockThreads \ {t} PROVE ~token_holding[u] /\ sees'[u] = sees[u]
    <3>1. Simple!MayHaveToken(t)
      BY <1>2 DEF Simple!MayHaveToken
    <3> QED
      BY <1>1, <1>2, <3>1, Alone DEF LockTypes
  <2>4. sees'[t][n] = written'[n] /\ committed[n] <= written'[n]
    <3>1. sees[t][n] = written[n] /\ committed[n] <= written[n]
      BY <1>2, <2>1 DEF Seen
    <3>2. CASE n = m
      BY <1>1, <1>2, <1>3, <2>2, <3>1, <3>2 DEF LockTypes
    <3>3. CASE n # m
      BY <1>1, <1>2, <1>3, <3>1, <3>3 DEF LockTypes
    <3> QED
      BY <3>2, <3>3
  <2>5. ASSUME NEW u \in LockThreads
        PROVE  IF token_holding'[u] THEN sees'[u][n] = written'[n]
               ELSE sees'[u][n] <= committed'[n]
    <3>1. CASE u = t
      BY <1>1, <1>2, <2>4, <3>1
    <3>2. CASE u # t
      BY <1>1, <2>1, <2>3, <3>2 DEF Seen
    <3> QED
      BY <3>1, <3>2
  <2>6. tokenpos' # NoOne
    BY <1>1, <1>2
  <2> QED
    BY <1>1, <2>4, <2>5, <2>6 DEF Seen
<1> QED
  BY <1>1, <1>4, <1>5, <1>6 DEF LockInv


-----------------------------------------------------------------------------
(* mutex_lock: the thread has the token or takes it, so the mutex is free. *)
LEMMA MutexLockKeeps ==
  ASSUME LockInv, NoOne \notin LockThreads, NEW t \in LockThreads, Simple!MutexLock(t)
  PROVE  LockInv'
<1> DEFINE m == doing[t].m
<1>1. /\ doing[t].at = "lock" /\ Simple!MayHaveToken(t) /\ tokenpos' \in {t, tokenpos}
      /\ tokenpos' = (IF token_holding[t] THEN tokenpos ELSE t)
      /\ token_holding' = [token_holding EXCEPT ![t] = TRUE]
      /\ lock_count' = [lock_count EXCEPT ![t] = @ + 1]
      /\ is_acquired' = [is_acquired EXCEPT ![m] = TRUE]
      /\ weird' = (weird \/ is_acquired[m])
      /\ has' = [has EXCEPT ![t] = @ \cup {m}]
      /\ doing' = [doing EXCEPT ![t] = Simple!User] /\ UNCHANGED written
      /\ IF token_holding[t] THEN UNCHANGED <<committed, sees>> ELSE Simple!CommitAndUpdateMemory(t)
  BY DEF Simple!MutexLock, Simple!WaitToken, Simple!ToUser
<1>2. LockTypes /\ Holding(t) /\ m \in Locks /\ m \notin has[t]
  BY <1>1 DEF LockInv, Holding
<1>3. tokenpos' = t
  BY <1>1, <1>2 DEF Holding
<1>4. \A u \in LockThreads \ {t} : ~token_holding[u] /\ has[u] = {}
  BY <1>1, Alone
<1>5. \A u \in LockThreads : m \notin has[u]
  BY <1>2, <1>4
<1> HIDE DEF m
<1>6. ~is_acquired[m] /\ ~weird'
  BY <1>1, <1>2, <1>5 DEF LockInv, Marked
<1>7. committed' \in [Locks -> Nat] /\ sees' \in [LockThreads -> [Locks -> Nat]]
  <2>1. CASE token_holding[t]
    BY <1>1, <1>2, <2>1 DEF LockTypes
  <2>2. CASE ~token_holding[t]
    BY <1>1, <2>2, Committed
  <2> QED
    BY <2>1, <2>2
<1>8. LockTypes'
  BY <1>1, <1>2, <1>3, <1>7 DEF LockTypes, Simple!User, At
<1>9. /\ doing'[t] = Simple!User /\ has'[t] = has[t] \cup {m} /\ token_holding'[t]
      /\ lock_count'[t] = lock_count[t] + 1
      /\ \A u \in LockThreads \ {t} :
           /\ doing'[u] = doing[u] /\ has'[u] = has[u] /\ token_holding'[u] = token_holding[u]
           /\ lock_count'[u] = lock_count[u]
  BY <1>1, <1>2 DEF LockTypes
<1>10. Holding(t)'
  <2>1. IsFiniteSet(has'[t]) /\ Cardinality(has'[t]) = Cardinality(has[t]) + 1
    <3>1. IsFiniteSet(has[t]) /\ m \notin has[t]
      BY <1>2 DEF Holding, m
    <3>2. /\ IsFiniteSet(has[t] \cup {m})
          /\ Cardinality(has[t] \cup {m}) = Cardinality(has[t]) + 1
      BY <3>1, FS_AddElement
    <3> QED
      BY <1>9, <3>2
  <2>2. lock_count'[t] = Cardinality(has'[t])
    BY <1>2, <1>9, <2>1 DEF Holding
  <2>3. doing'[t].at = "user"
    BY <1>9 DEF Simple!User
  <2> QED
    BY <1>3, <1>9, <2>1, <2>2, <2>3 DEF Holding
<1>11. ASSUME NEW u \in LockThreads \ {t} PROVE Holding(u)'
  BY <1>1, <1>3, <1>9, OthersHold
<1>12. ASSUME NEW n \in Locks PROVE Marked(n)'
  <2>1. Marked(n)
    BY DEF LockInv
  <2>2. CASE n = m
    <3>1. is_acquired'[n] /\ n \in has'[t]
      BY <1>1, <1>2, <1>9, <2>2 DEF LockTypes
    <3> QED
      BY <3>1 DEF Marked
  <2>3. CASE n # m
    <3>1. is_acquired'[n] = is_acquired[n]
      BY <1>1, <1>2, <2>3 DEF LockTypes
    <3>2. \A u \in LockThreads : n \in has'[u] <=> n \in has[u]
      BY <1>9, <2>3
    <3> QED
      BY <2>1, <3>1, <3>2 DEF Marked
  <2> QED
    BY <2>2, <2>3
<1>13. \A n \in Locks : Seen(n)'
  <2>1. CASE token_holding[t]
    <3>1. UNCHANGED <<tokenpos, committed, sees, written>>
      BY <1>1, <2>1
    <3>2. \A u \in LockThreads : token_holding'[u] = token_holding[u]
      BY <1>2, <1>8, <1>9, <2>1 DEF LockTypes
    <3> QED
      BY <3>1, <3>2 DEF LockInv, Seen
  <2>2. CASE ~token_holding[t]
    BY <1>1, <1>9, <2>2, SeenByCommit
  <2> QED
    BY <2>1, <2>2
<1> QED
  BY <1>6, <1>8, <1>10, <1>11, <1>12, <1>13 DEF LockInv

(* The mutex m of t is free again; t had the token.                        *)
LEMMA Unmarked ==
  ASSUME LockInv, NoOne \notin LockThreads, NEW t \in LockThreads, NEW m \in has[t],
         has' = [has EXCEPT ![t] = @ \ {m}], is_acquired' = [is_acquired EXCEPT ![m] = FALSE]
  PROVE  /\ \A n \in Locks : Marked(n)'
         /\ Simple!MayHaveToken(t) /\ token_holding[t]
         /\ IsFiniteSet(has'[t]) /\ Cardinality(has'[t]) = Cardinality(has[t]) - 1
         /\ lock_count[t] \in Nat \ {0}
         /\ has'[t] = has[t] \ {m} /\ \A u \in LockThreads \ {t} : has'[u] = has[u]
<1>1. LockTypes /\ Holding(t) /\ m \in Locks
  BY DEF LockInv, LockTypes
<1>2. token_holding[t] /\ Simple!MayHaveToken(t)
  BY <1>1 DEF Holding, Simple!MayHaveToken
<1>3. has'[t] = has[t] \ {m} /\ \A u \in LockThreads \ {t} : has'[u] = has[u]
  BY <1>1 DEF LockTypes
<1>4. \A u \in LockThreads \ {t} : has[u] = {}
  BY <1>2, Alone
<1>5. IsFiniteSet(has[t]) /\ IsFiniteSet(has'[t])
      /\ Cardinality(has'[t]) = Cardinality(has[t]) - 1
  BY <1>1, <1>3, FS_RemoveElement DEF Holding
<1>6. lock_count[t] \in Nat \ {0}
  <2>1. Cardinality(has'[t]) \in Nat /\ lock_count[t] = Cardinality(has[t]) /\ lock_count[t] \in Nat
    BY <1>1, <1>5, FS_CardinalityType DEF Holding, LockTypes
  <2> QED
    BY <1>5, <2>1
<1>7. ASSUME NEW n \in Locks PROVE Marked(n)'
  <2>1. Marked(n)
    BY DEF LockInv
  <2>2. CASE n = m
    <3>1. ~is_acquired'[n]
      BY <1>1, <2>2 DEF LockTypes
    <3>2. \A u \in LockThreads : n \notin has'[u]
      BY <1>3, <1>4, <2>2
    <3> QED
      BY <3>1, <3>2 DEF Marked
  <2>3. CASE n # m
    <3>1. is_acquired'[n] = is_acquired[n]
      BY <1>1, <2>3 DEF LockTypes
    <3>2. \A u \in LockThreads : n \in has'[u] <=> n \in has[u]
      BY <1>3, <2>3
    <3> QED
      BY <2>1, <3>1, <3>2 DEF Marked
  <2> QED
    BY <2>2, <2>3
<1> QED
  BY <1>2, <1>3, <1>5, <1>6, <1>7

(* mutex_unlock: with the last mutex the thread goes on to give the token  *)
(* back, with another one it keeps it.                                     *)
LEMMA MutexUnlockKeeps ==
  ASSUME LockInv, NoOne \notin LockThreads, NEW t \in LockThreads, Simple!MutexUnlock(t)
  PROVE  LockInv'
<1> DEFINE m == doing[t].m
           r == [at |-> "release", op |-> "unlock", m |-> m]
<1>1. /\ doing[t].at = "unlock"
      /\ lock_count' = [lock_count EXCEPT ![t] = @ - 1]
      /\ is_acquired' = [is_acquired EXCEPT ![m] = FALSE]
      /\ has' = [has EXCEPT ![t] = @ \ {m}]
      /\ doing' = [doing EXCEPT ![t] = IF lock_count[t] = 1 THEN r ELSE Simple!User]
      /\ UNCHANGED <<tokenpos, token_holding, committed, sees, weird, written>>
  BY DEF Simple!MutexUnlock, Simple!LastUnlock, Simple!Goto, Simple!ToUser
<1>2. LockTypes /\ Holding(t) /\ m \in has[t] /\ m \in Locks
  BY <1>1 DEF LockInv, Holding
<1> HIDE DEF m
<1>3. /\ \A n \in Locks : Marked(n)'
      /\ Simple!MayHaveToken(t) /\ token_holding[t]
      /\ IsFiniteSet(has'[t]) /\ Cardinality(has'[t]) = Cardinality(has[t]) - 1
      /\ lock_count[t] \in Nat \ {0}
      /\ has'[t] = has[t] \ {m} /\ \A u \in LockThreads \ {t} : has'[u] = has[u]
  BY <1>1, <1>2, Unmarked
<1>4. LockTypes'
  <2>1. lock_count[t] - 1 \in Nat
    BY <1>3
  <2>2. r \in [at : At, op : At \cup {"none"}, m : Locks \cup {NoOne}]
    BY <1>2 DEF At
  <2>3. Simple!User \in [at : At, op : At \cup {"none"}, m : Locks \cup {NoOne}]
    BY DEF At, Simple!User
  <2> HIDE DEF r
  <2> QED
    BY <1>1, <1>2, <2>1, <2>2, <2>3 DEF LockTypes
<1>5. /\ doing'[t] = (IF lock_count[t] = 1 THEN r ELSE Simple!User)
      /\ lock_count'[t] = lock_count[t] - 1
      /\ \A u \in LockThreads \ {t} : doing'[u] = doing[u] /\ lock_count'[u] = lock_count[u]
  BY <1>1, <1>2 DEF LockTypes
<1>6. Holding(t)'
  <2>1. lock_count'[t] = Cardinality(has'[t])
    BY <1>2, <1>3, <1>5 DEF Holding
  <2>2. lock_count[t] = 1 => has'[t] = {}
    <3>1. lock_count[t] = 1 => Cardinality(has'[t]) = 0
      BY <1>5, <2>1
    <3> QED
      BY <1>3, <3>1, FS_EmptySet
  <2>3. CASE lock_count[t] = 1
    <3>1. doing'[t].at = "release"
      BY <1>5, <2>3
    <3> QED
      BY <1>1, <1>2, <1>3, <2>1, <2>2, <2>3, <3>1 DEF Holding
  <2>4. CASE lock_count[t] # 1
    <3>1. doing'[t].at = "user"
      BY <1>5, <2>4 DEF Simple!User
    <3> QED
      BY <1>1, <1>2, <1>3, <2>1, <3>1 DEF Holding
  <2> QED
    BY <2>3, <2>4
<1>7. ASSUME NEW u \in LockThreads \ {t} PROVE Holding(u)'
  BY <1>1, <1>3, <1>5, OthersHold
<1>8. \A n \in Locks : Seen(n)'
  BY <1>1 DEF LockInv, Seen
<1> QED
  BY <1>1, <1>3, <1>4, <1>6, <1>7, <1>8 DEF LockInv


-----------------------------------------------------------------------------
(* A thread without mutexes commits under the token, gives it back and is  *)
(* in the program again: the end of mutex_unlock, cond_broadcast and the   *)
(* transactions of mutex_init, cancel and the like.                        *)
LEMMA GivesTokenBack ==
  ASSUME LockInv, NoOne \notin LockThreads, NEW t \in LockThreads, Simple!MayHaveToken(t),
         has[t] = {}, Simple!CommitAndUpdateMemory(t), tokenpos' = NoOne,
         token_holding' = [token_holding EXCEPT ![t] = FALSE],
         doing' = [doing EXCEPT ![t] = Simple!User],
         UNCHANGED <<lock_count, is_acquired, has, weird, written>>
  PROVE  LockInv'
<1>1. LockTypes /\ Holding(t)
  BY DEF LockInv
<1>2. committed' \in [Locks -> Nat] /\ sees' \in [LockThreads -> [Locks -> Nat]]
  BY Committed
<1>3. LockTypes'
  BY <1>1, <1>2 DEF LockTypes, At, Simple!User
<1>4. /\ doing'[t] = Simple!User /\ ~token_holding'[t]
      /\ \A u \in LockThreads \ {t} :
           doing'[u] = doing[u] /\ token_holding'[u] = token_holding[u]
  BY <1>1 DEF LockTypes
<1>5. Holding(t)'
  <2>1. doing'[t].at = "user"
    BY <1>4 DEF Simple!User
  <2> QED
    BY <1>1, <1>4, <2>1 DEF Holding
<1>6. ASSUME NEW u \in LockThreads \ {t} PROVE Holding(u)'
  BY <1>4, OthersHold
<1>7. \A n \in Locks : Marked(n)'
  BY DEF LockInv, Marked
<1>8. \A n \in Locks : Seen(n)'
  BY <1>4, SeenByCommit
<1> QED
  BY <1>3, <1>5, <1>6, <1>7, <1>8 DEF LockInv

(* The three steps that end that way.                                      *)
LEMMA TransactionKeeps ==
  ASSUME LockInv, NoOne \notin LockThreads, NEW t \in LockThreads,
         Simple!Release(t) \/ Simple!CondBroadcast(t) \/ Simple!Transaction(t)
  PROVE  LockInv'
<1>1. Holding(t)
  BY DEF LockInv
<1>2. CASE Simple!Release(t)
  <2>1. token_holding[t] /\ has[t] = {}
    BY <1>1, <1>2 DEF Simple!Release, Holding
  <2> QED
    BY <1>2, <2>1, GivesTokenBack DEF Simple!Release, Simple!PutToken, Simple!ToUser, Simple!program, Simple!MayHaveToken
<1>3. CASE Simple!CondBroadcast(t)
  <2>1. has[t] = {}
    BY <1>1, <1>3 DEF Simple!CondBroadcast, Holding
  <2> QED
    BY <1>3, <2>1, GivesTokenBack DEF Simple!CondBroadcast, Simple!ToUser, Simple!program
<1>4. CASE Simple!Transaction(t)
  <2>1. has[t] = {}
    BY <1>1, <1>4 DEF Simple!Transaction, Holding
  <2> QED
    BY <1>4, <2>1, GivesTokenBack DEF Simple!Transaction, Simple!ToUser, Simple!program
<1> QED
  BY <1>2, <1>3, <1>4

(* cond_wait up to the sleep: the thread commits, its only mutex is free   *)
(* and so is the token.                                                    *)
LEMMA CondWaitKeeps ==
  ASSUME LockInv, NoOne \notin LockThreads, NEW t \in LockThreads, Simple!CondWait(t)
  PROVE  LockInv'
<1> DEFINE m == doing[t].m
           a == [at |-> "asleep", op |-> "wait", m |-> m]
<1>1. /\ doing[t].at = "wait" /\ Simple!MayHaveToken(t) /\ Simple!CommitAndUpdateMemory(t)
      /\ lock_count' = [lock_count EXCEPT ![t] = @ - 1]
      /\ is_acquired' = [is_acquired EXCEPT ![m] = FALSE]
      /\ has' = [has EXCEPT ![t] = @ \ {m}]
      /\ tokenpos' = NoOne /\ token_holding' = [token_holding EXCEPT ![t] = FALSE]
      /\ doing' = [doing EXCEPT ![t] = a]
      /\ UNCHANGED <<weird, written>>
  BY DEF Simple!CondWait, Simple!Goto
<1>2. LockTypes /\ Holding(t) /\ has[t] = {m} /\ m \in Locks
  BY <1>1 DEF LockInv, Holding
<1> HIDE DEF m
<1>3. /\ \A n \in Locks : Marked(n)'
      /\ IsFiniteSet(has'[t]) /\ Cardinality(has'[t]) = Cardinality(has[t]) - 1
      /\ lock_count[t] \in Nat \ {0}
      /\ has'[t] = has[t] \ {m} /\ \A u \in LockThreads \ {t} : has'[u] = has[u]
  BY <1>1, <1>2, Unmarked
<1>4. committed' \in [Locks -> Nat] /\ sees' \in [LockThreads -> [Locks -> Nat]]
  BY <1>1, Committed
<1>5. LockTypes'
  <2>1. lock_count[t] - 1 \in Nat
    BY <1>3
  <2>2. a \in [at : At, op : At \cup {"none"}, m : Locks \cup {NoOne}]
    BY <1>2 DEF At
  <2> HIDE DEF a
  <2> QED
    BY <1>1, <1>2, <1>4, <2>1, <2>2 DEF LockTypes
<1>6. /\ doing'[t] = a /\ lock_count'[t] = lock_count[t] - 1 /\ ~token_holding'[t]
      /\ \A u \in LockThreads \ {t} :
           /\ doing'[u] = doing[u] /\ lock_count'[u] = lock_count[u]
           /\ token_holding'[u] = token_holding[u]
  BY <1>1, <1>2 DEF LockTypes
<1>7. Holding(t)'
  <2>1. lock_count'[t] = Cardinality(has'[t])
    BY <1>2, <1>3, <1>6 DEF Holding
  <2>2. doing'[t].at = "asleep" /\ doing'[t].m = m
    BY <1>6
  <2>3. has'[t] = {}
    BY <1>2, <1>3
  <2> QED
    BY <1>1, <1>2, <1>3, <1>6, <2>1, <2>2, <2>3 DEF Holding
<1>8. ASSUME NEW u \in LockThreads \ {t} PROVE Holding(u)'
  BY <1>1, <1>3, <1>6, OthersHold
<1>9. \A n \in Locks : Seen(n)'
  BY <1>1, <1>6, SeenByCommit
<1> QED
  BY <1>1, <1>3, <1>5, <1>7, <1>8, <1>9 DEF LockInv

(* cond_wait after the sleep: a commit without the token changes nothing   *)
(* that is committed.                                                      *)
LEMMA WakeUpKeeps ==
  ASSUME LockInv, NoOne \notin LockThreads, NEW t \in LockThreads, Simple!WakeUp(t)
  PROVE  LockInv'
<1> DEFINE m == doing[t].m
           l == [at |-> "lock", op |-> "wait", m |-> m]
<1>1. /\ doing[t].at = "asleep" /\ Simple!CommitAndUpdateMemory(t) /\ doing' = [doing EXCEPT ![t] = l]
      /\ UNCHANGED <<tokenpos, token_holding, lock_count, is_acquired, has, weird, written>>
  BY DEF Simple!WakeUp, Simple!Goto, Simple!runtime, Simple!program
<1>2. LockTypes /\ Holding(t) /\ has[t] = {} /\ m \in Locks
  BY <1>1 DEF LockInv, Holding
<1> HIDE DEF m
<1>3. committed' \in [Locks -> Nat] /\ sees' \in [LockThreads -> [Locks -> Nat]]
  BY <1>1, Committed
<1>4. LockTypes'
  <2>1. l \in [at : At, op : At \cup {"none"}, m : Locks \cup {NoOne}]
    BY <1>2 DEF At
  <2> HIDE DEF l
  <2> QED
    BY <1>1, <1>2, <1>3, <2>1 DEF LockTypes
<1>5. doing'[t] = l /\ \A u \in LockThreads \ {t} : doing'[u] = doing[u]
  BY <1>1, <1>2 DEF LockTypes
<1>6. Holding(t)'
  <2>1. doing'[t].at = "lock" /\ doing'[t].m = m
    BY <1>5
  <2> QED
    BY <1>1, <1>2, <2>1 DEF Holding
<1>7. ASSUME NEW u \in LockThreads \ {t} PROVE Holding(u)'
  BY <1>1, <1>5, OthersHold
<1>8. \A n \in Locks : Marked(n)'
  BY <1>1 DEF LockInv, Marked
<1>9. \A n \in Locks : Seen(n)'
  <2>1. CASE token_holding[t]
    BY <1>1, <2>1, SeenByCommit DEF Simple!MayHaveToken
  <2>2. CASE ~token_holding[t]
    <3>1. /\ committed' = committed /\ sees'[t] = committed
          /\ \A u \in LockThreads \ {t} : sees'[u] = sees[u]
      BY <1>1, <2>2, Committed
    <3>2. ASSUME NEW n \in Locks PROVE Seen(n)'
      <4>1. Seen(n) /\ committed[n] \in Nat
        BY <1>2 DEF LockInv, LockTypes
      <4>2. ASSUME NEW u \in LockThreads
            PROVE  IF token_holding'[u] THEN sees'[u][n] = written'[n]
                   ELSE sees'[u][n] <= committed'[n]
        <5>1. CASE u = t
          BY <1>1, <2>2, <3>1, <4>1, <5>1
        <5>2. CASE u # t
          BY <1>1, <3>1, <4>1, <5>2 DEF Seen
        <5> QED
          BY <5>1, <5>2
      <4> QED
        BY <1>1, <3>1, <4>1, <4>2 DEF Seen
    <3> QED
      BY <3>2
  <2> QED
    BY <2>1, <2>2
<1> QED
  BY <1>1, <1>4, <1>6, <1>7, <1>8, <1>9 DEF LockInv

(* cond_signal: a thread without the token takes it for a commit only.     *)
LEMMA CondSignalKeeps ==
  ASSUME LockInv, NoOne \notin LockThreads, NEW t \in LockThreads, Simple!CondSignal(t)
  PROVE  LockInv'
<1>1. /\ Simple!MayHaveToken(t) /\ doing' = [doing EXCEPT ![t] = Simple!User]
      /\ UNCHANGED <<committed, sees>> \/ Simple!CommitAndUpdateMemory(t)
      /\ UNCHANGED <<tokenpos, token_holding, lock_count, is_acquired, has, weird, written>>
  BY DEF Simple!CondSignal, Simple!ToUser, Simple!runtime, Simple!program
<1>2. LockTypes /\ Holding(t)
  BY DEF LockInv
<1>3. committed' \in [Locks -> Nat] /\ sees' \in [LockThreads -> [Locks -> Nat]]
  <2>1. CASE UNCHANGED <<committed, sees>>
    BY <1>2, <2>1 DEF LockTypes
  <2>2. CASE Simple!CommitAndUpdateMemory(t)
    BY <2>2, Committed
  <2> QED
    BY <1>1, <2>1, <2>2
<1>4. LockTypes'
  BY <1>1, <1>2, <1>3 DEF LockTypes, At, Simple!User
<1>5. doing'[t] = Simple!User /\ \A u \in LockThreads \ {t} : doing'[u] = doing[u]
  BY <1>1, <1>2 DEF LockTypes
<1>6. Holding(t)'
  <2>1. doing'[t].at = "user"
    BY <1>5 DEF Simple!User
  <2> QED
    BY <1>1, <1>2, <2>1 DEF Holding
<1>7. ASSUME NEW u \in LockThreads \ {t} PROVE Holding(u)'
  BY <1>1, <1>5, OthersHold
<1>8. \A n \in Locks : Marked(n)'
  BY <1>1 DEF LockInv, Marked
<1>9. \A n \in Locks : Seen(n)'
  <2>1. CASE UNCHANGED <<committed, sees>>
    BY <1>1, <2>1 DEF LockInv, Seen
  <2>2. CASE Simple!CommitAndUpdateMemory(t)
    BY <1>1, <2>2, SeenByCommit
  <2> QED
    BY <1>1, <2>1, <2>2
<1> QED
  BY <1>1, <1>4, <1>6, <1>7, <1>8, <1>9 DEF LockInv

-----------------------------------------------------------------------------
(* LockInv holds at first and every step keeps it.                         *)
LEMMA LockInvInit ==
  ASSUME NoOne \notin LockThreads, Simple!Init PROVE LockInv
<1>1. LockTypes /\ ~weird
  BY DEF Simple!Init, LockTypes, At, Simple!User
<1>2. ASSUME NEW t \in LockThreads PROVE Holding(t)
  BY FS_EmptySet DEF Simple!Init, Holding, Simple!User
<1>3. ASSUME NEW m \in Locks PROVE Marked(m) /\ Seen(m)
  BY DEF Simple!Init, Marked, Seen
<1> QED
  BY <1>1, <1>2, <1>3 DEF LockInv

(* Every step of a program that does nothing else inside its critical      *)
(* sections keeps LockInv.                                                 *)
LEMMA LockInvStep ==
  ASSUME NoOne \notin LockThreads, Inside = {}, LockInv, [Simple!Next]_Simple!vars PROVE LockInv'
<1>1. CASE UNCHANGED Simple!vars
  BY <1>1 DEF LockInv, LockTypes, Holding, Marked, Seen, Simple!vars, Simple!runtime, Simple!program
<1>2. ASSUME NEW t \in LockThreads,
             \/ \E m \in Locks : Simple!Section(t, m)
             \/ \E m \in Locks, op \in {"lock", "unlock", "wait", "broadcast", "signal", "init"} :
                  Simple!MayCall(t, op, m) /\ Simple!Call(t, op, m)
             \/ Simple!MutexLock(t) \/ Simple!MutexUnlock(t) \/ Simple!Release(t) \/ Simple!CondWait(t) \/ Simple!WakeUp(t)
             \/ Simple!CondSignal(t) \/ Simple!CondBroadcast(t) \/ Simple!Transaction(t)
      PROVE  LockInv'
  BY <1>2, SectionKeeps, CallKeeps, MutexLockKeeps, MutexUnlockKeeps, TransactionKeeps,
     CondWaitKeeps, WakeUpKeeps, CondSignalKeeps
<1> QED
  BY <1>1, <1>2 DEF Simple!Next

(* In the DWC build, for any threads and mutexes and any program that only *)
(* locks, unlocks, signals, and waits with its only mutex inside critical  *)
(* sections, no two threads have one mutex, "Something weird happened" is  *)
(* never printed, and who has a mutex sees every addition made under it.   *)
(* With a broadcast inside a critical section this is false (the run       *)
(* dwc_broadcast), which is where Inside = {} is used.                     *)
THEOREM SimpleLocksExclude ==
  ASSUME NoOne \notin LockThreads, Inside = {}
  PROVE  Simple!Spec => []SimpleExclusion
<1>1. Simple!Init => LockInv
  BY LockInvInit
<1>2. LockInv /\ [Simple!Next]_Simple!vars => LockInv'
  BY LockInvStep
<1>3. LockInv => Simple!SimpleExclusion
  <2> SUFFICES ASSUME LockInv PROVE Simple!SimpleExclusion
    OBVIOUS
  <2>1. ASSUME NEW t \in LockThreads, NEW u \in LockThreads, t # u
        PROVE  has[t] \cap has[u] = {}
    BY <2>1 DEF LockInv, Holding
  <2>2. ASSUME NEW t \in LockThreads, NEW m \in has[t] PROVE sees[t][m] = written[m]
    <3>1. m \in Locks /\ token_holding[t]
      BY DEF LockInv, LockTypes, Holding
    <3> QED
      BY <3>1 DEF LockInv, Seen
  <2> QED
    BY <2>1, <2>2 DEF LockInv, Simple!SimpleExclusion
<1> QED
  BY <1>1, <1>2, <1>3, PTL DEF SimpleExclusion, Simple!Spec
=============================================================================

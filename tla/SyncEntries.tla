----------------------------- MODULE SyncEntries ----------------------------
(***************************************************************************)
(* How a pthread object finds its entry (determ.h: lock_init, cond_init,   *)
(* barrier_init, lock_acquire, lock_destroy, the sync-entry helpers; the   *)
(* callers in xrun.h).                                                     *)
(*                                                                         *)
(* The entry lies in the internal heap, which all processes share.  The    *)
(* pointer to it lies in the program's own mutex, that is in versioned     *)
(* memory: a process may look at an old version of it.  A mutex needs no   *)
(* initialisation, its entry is then made by the first lock; a condition   *)
(* variable or a barrier does.                                             *)
(*                                                                         *)
(* The program initialises and destroys objects inside critical sections   *)
(* of a mutex that is never destroyed, together with a flag that tells the *)
(* others whether the object can be used, and destroys only mutexes that   *)
(* nobody uses.  Coarsening is left out here.                              *)
(***************************************************************************)
EXTENDS Naturals, Sequences, FiniteSets

CONSTANTS
  Threads,
  Static,     \* a mutex that is never initialised nor destroyed
  Dynamic,    \* objects that are: mutexes ...
  Conds,      \* ... condition variables and barriers
  NumEntries  \* entries the internal heap has room for

Objects == {Static} \cup Dynamic \cup Conds
Mutexes == {Static} \cup Dynamic
Nobody  == "nobody"
Null    == 0

VARIABLES
  master,     \* the committed memory: pointers and flags
  snap, own,  \* by thread: what it saw at its last update, what it wrote since
  acquired,   \* by entry: is_acquired
  free,       \* the internal heap's free entries, last freed first
  token,
  pc, obj,    \* by thread: place, and the object of the call it is in
  entry,      \* by thread and mutex: the entry it locked, or Null (history)
  crashed

vars == <<master, snap, own, acquired, free, token, pc, obj, entry, crashed>>

-----------------------------------------------------------------------------
(***************************************************************************)
(* Memory: cells <<"ptr", o>> and <<"ready", o>>.                          *)
(***************************************************************************)
Cells == {"ptr", "ready"} \X Objects

(* Memory v after the writes w.                                            *)
Over(w, v) == [c \in DOMAIN w \cup DOMAIN v |-> IF c \in DOMAIN w THEN w[c] ELSE v[c]]

View(t) == Over(own[t], snap[t])

getSyncEntry(v, o) == v[<<"ptr", o>>]

setSyncEntry(o, e) == [c \in {<<"ptr", o>>} |-> e]

(* Its mem_write has a null destination and does nothing.                  *)
clearSyncEntry(o) == [c \in {<<"ptr", o>>} |-> Null]

(* The internal heap hands out the entry that was freed last.              *)
allocSyncEntry == Head(free)

freeSyncEntry(e) == <<e>> \o free

(* The program's flag.                                                     *)
SetReady(o, b) == [c \in {<<"ready", o>>} |-> b]

Ready(t, o) == View(t)[<<"ready", o>>]

(* commitAndUpdate, after writing w.                                       *)
CommitWrites(t, w) ==
  /\ master' = Over(Over(w, own[t]), master)
  /\ snap' = [snap EXCEPT ![t] = master']
  /\ own' = [own EXCEPT ![t] = <<>>]

(* lock_init of an entry, which is then acquired or not.                   *)
lock_init(e, by_lock) == acquired' = [acquired EXCEPT ![e] = by_lock]

Write(t, w) == own' = [own EXCEPT ![t] = Over(w, @)] /\ UNCHANGED <<master, snap>>

-----------------------------------------------------------------------------
Goes(t, l) == pc' = [pc EXCEPT ![t] = l]

(* stopClock and waitToken of a call on o.                                 *)
Call(t, l, o) ==
  /\ token = Nobody /\ token' = t
  /\ Goes(t, l)
  /\ obj' = [obj EXCEPT ![t] = o]
  /\ UNCHANGED <<master, snap, own, acquired, free, entry, crashed>>

InSection(t) == entry[t][Static] # Null

(* xrun::mutex_lock                                                        *)
Lock(t) ==
  /\ pc[t] = "run"
  /\ \E m \in Mutexes :
       /\ entry[t][m] = Null
       /\ m # Static => InSection(t) /\ Ready(t, m)
       /\ Call(t, "lock", m)

(* What lock_acquire looks at: the pointer in this thread's memory or, if  *)
(* there is none, the one in the memory after commitAndUpdate.             *)
Committed(t) == Over(own[t], master)

(* Mutant: it does not look again.                                         *)
NeedsEntryUnseen(t, m) == getSyncEntry(View(t), m) = Null

NeedsEntry(t, m) == getSyncEntry(View(t), m) = Null /\ getSyncEntry(Committed(t), m) = Null

(* Then lock_init makes an entry and commits the pointer to it.  At the    *)
(* end of a lock the memory is committed and updated as well.              *)
LockAcquire(t) ==
  LET m == obj[t]
      e == IF getSyncEntry(View(t), m) # Null THEN getSyncEntry(View(t), m)
           ELSE getSyncEntry(Committed(t), m) IN
  /\ pc[t] = "lock"
  /\ \/ /\ NeedsEntry(t, m) /\ free # <<>>
        /\ free' = Tail(free)
        /\ lock_init(allocSyncEntry, TRUE)
        /\ entry' = [entry EXCEPT ![t][m] = allocSyncEntry]
        /\ CommitWrites(t, setSyncEntry(m, allocSyncEntry))
        /\ token' = Nobody /\ Goes(t, "run")
     \/ /\ ~NeedsEntry(t, m) /\ ~acquired[e]
        /\ acquired' = [acquired EXCEPT ![e] = TRUE]
        /\ entry' = [entry EXCEPT ![t][m] = e]
        /\ CommitWrites(t, <<>>)
        /\ token' = Nobody /\ Goes(t, "run")
        /\ UNCHANGED free
     \/ /\ ~NeedsEntry(t, m) /\ acquired[e]
        /\ CommitWrites(t, <<>>)
        /\ token' = Nobody /\ Goes(t, "retry")
        /\ UNCHANGED <<free, acquired, entry>>
  /\ UNCHANGED <<obj, crashed>>

Retry(t) == pc[t] = "retry" /\ Call(t, "lock", obj[t])

(* xrun::mutex_unlock and lock_release                                     *)
Unlock(t) ==
  /\ pc[t] = "run"
  /\ \E m \in Mutexes :
       /\ entry[t][m] # Null
       /\ Call(t, "unlock", m)

LockRelease(t) ==
  LET m == obj[t] IN
  /\ pc[t] = "unlock"
  /\ acquired' = [acquired EXCEPT ![getSyncEntry(View(t), m)] = FALSE]
  /\ entry' = [entry EXCEPT ![t][m] = Null]
  /\ CommitWrites(t, <<>>)
  /\ token' = Nobody /\ Goes(t, "run")
  /\ UNCHANGED <<free, obj, crashed>>

-----------------------------------------------------------------------------
(* xrun::mutex_init, cond_init, barrier_init                               *)
InitObject(t) ==
  /\ pc[t] = "run" /\ InSection(t)
  /\ \E o \in Dynamic \cup Conds : ~Ready(t, o) /\ Call(t, "init", o)

SyncInit(t) ==
  LET o == obj[t] IN
  /\ pc[t] = "init" /\ free # <<>>
  /\ free' = Tail(free)
  /\ lock_init(allocSyncEntry, FALSE)
  /\ CommitWrites(t, Over(setSyncEntry(o, allocSyncEntry), SetReady(o, TRUE)))
  /\ token' = Nobody /\ Goes(t, "run")
  /\ UNCHANGED <<obj, entry, crashed>>

(* xrun::mutex_destroy takes no token and commits nothing: the entry goes  *)
(* back at once, the cleared pointer is seen by others at the next commit. *)
(* (Only the misspelt pthread_mutex_destory calls it.)                     *)
MutexDestroy(t) ==
  /\ pc[t] = "run" /\ InSection(t)
  /\ \E m \in Dynamic :
       /\ Ready(t, m)
       /\ \A u \in Threads : entry[u][m] = Null /\ (obj[u] = m => pc[u] = "run")
       /\ free' = freeSyncEntry(getSyncEntry(View(t), m))
       /\ Write(t, Over(clearSyncEntry(m), SetReady(m, FALSE)))
  /\ UNCHANGED <<acquired, token, pc, obj, entry, crashed>>

(* cond_wait, cond_signal, cond_broadcast or barrier_wait: whatever they   *)
(* do, they look for the entry with the token.                             *)
Use(t) ==
  /\ pc[t] = "run" /\ InSection(t)
  /\ \E c \in Conds : Ready(t, c) /\ Call(t, "use", c)

UseEntry(t) ==
  /\ pc[t] = "use"
  /\ crashed' = (getSyncEntry(View(t), obj[t]) = Null)
  /\ CommitWrites(t, <<>>)
  /\ token' = Nobody /\ Goes(t, "run")
  /\ UNCHANGED <<acquired, free, obj, entry>>

-----------------------------------------------------------------------------
Init ==
  /\ master = [c \in Cells |-> IF c[1] = "ptr" THEN Null ELSE FALSE]
  /\ snap = [t \in Threads |-> master] /\ own = [t \in Threads |-> <<>>]
  /\ acquired = [e \in 1 .. NumEntries |-> FALSE]
  /\ free = [i \in 1 .. NumEntries |-> i]
  /\ token = Nobody
  /\ pc = [t \in Threads |-> "run"] /\ obj = [t \in Threads |-> Static]
  /\ entry = [t \in Threads |-> [m \in Mutexes |-> Null]]
  /\ crashed = FALSE

Step(t) ==
  \/ Lock(t) \/ LockAcquire(t) \/ Retry(t) \/ Unlock(t) \/ LockRelease(t)
  \/ InitObject(t) \/ SyncInit(t) \/ MutexDestroy(t) \/ Use(t) \/ UseEntry(t)

Next == \E t \in Threads : Step(t)

Spec == Init /\ [][Next]_vars

-----------------------------------------------------------------------------
(* A thread that unlocks finds the entry it locked, and one that uses a    *)
(* condition variable or a barrier finds one.                              *)
FindsItsEntry ==
  /\ ~crashed
  /\ \A t \in Threads, m \in Mutexes :
       entry[t][m] # Null => getSyncEntry(View(t), m) = entry[t][m]

(* However old a thread's version of the pointer is, no two threads are    *)
(* inside the same mutex: lock_acquire finds or makes the one entry, and   *)
(* unlock finds it again.                                                  *)
OneEntryPerMutex ==
  /\ FindsItsEntry
  /\ \A t, u \in Threads, m \in Mutexes :
       entry[t][m] # Null /\ entry[u][m] # Null => t = u

(* No two objects share an entry, and none in use is on the free list,     *)
(* although a destroyed mutex leaves old pointers behind.                  *)
EntriesApart ==
  \A t \in Threads, m \in Mutexes :
    entry[t][m] # Null =>
      /\ \A i \in 1 .. Len(free) : free[i] # entry[t][m]
      /\ \A u \in Threads, n \in Mutexes : n # m => entry[u][n] # entry[t][m]
=============================================================================

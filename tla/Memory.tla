------------------------------- MODULE Memory -------------------------------
(***************************************************************************)
(* xmemory: the program's heap and its globals, two segments of Conversion *)
(* (xpersist) that every operation of the runtime treats one after the     *)
(* other.  The token orders the commits, but a thread that wakes up in     *)
(* cond_wait commits and updates once without it.                          *)
(*                                                                         *)
(* Conversion is external: a segment is a number of versions, and a        *)
(* process sees one of them below its own writes.                          *)
(***************************************************************************)
EXTENDS Naturals, FiniteSets

CONSTANTS
  MemThreads, First,       \* threads (processes), and the one that begins
  HeapBase, HeapSize, GlobalsBase, GlobalsSize, MaxGlobals,
  Addresses,               \* where the program writes
  MaxVersion,              \* bounds the model
  NoHolder

Segments == {"heap", "globals"}

VARIABLES
  version,  \* committed versions, by segment
  view,     \* by thread: the version of each segment it sees
  dirty,    \* by thread: the segments it has written to
  asleep,   \* by thread: after conv_sleep, until conv_wake
  token,
  pc,
  moment    \* by thread: both versions when it last ended a commit with the token (history)

conv == <<version, view, dirty, asleep>>
vars == <<conv, token, pc, moment>>

Goto(t, l) == pc' = [pc EXCEPT ![t] = l]

(* xpersist::base and size                                                 *)
Base(s) == IF s = "heap" THEN HeapBase ELSE GlobalsBase
Size(s) == IF s = "heap" THEN HeapSize ELSE MaxGlobals

InRange(s, a) == Base(s) <= a /\ a < Base(s) + Size(s)

(* xmemory::mem_write and a store of the program; an address in neither    *)
(* segment is the process's own.                                           *)
Target(a) == {s \in Segments : InRange(s, a)}

Write(t) ==
  /\ pc[t] = "run"
  /\ \A s \in Segments : version[s] < MaxVersion
  /\ \E a \in Addresses : dirty' = [dirty EXCEPT ![t] = @ \cup Target(a)]
  /\ UNCHANGED <<version, view, asleep, token, pc, moment>>

(* conv_commit_and_update (external)                                       *)
CommitAndUpdate(t, s) ==
  /\ version' = [version EXCEPT ![s] = IF s \in dirty[t] THEN @ + 1 ELSE @]
  /\ view' = [view EXCEPT ![t][s] = version'[s]]
  /\ dirty' = [dirty EXCEPT ![t] = @ \ {s}]

-----------------------------------------------------------------------------
(***************************************************************************)
(* Start: the constructors, xmemory::initialize.                           *)
(***************************************************************************)
(* xpersist for the globals: their contents are saved, the segment is      *)
(* mapped over them, and they are written back.                            *)
Constructor ==
  /\ pc[First] = "start"
  /\ GlobalsSize <= MaxGlobals
  /\ dirty' = [dirty EXCEPT ![First] = {"globals"}]
  /\ Goto(First, "run")
  /\ UNCHANGED <<version, view, asleep, token, moment>>

(* forkSpawn: the child has its creator's mapping; childRegister wakes and *)
(* waits for the token.                                                    *)
Clone(p, t) ==
  /\ pc[p] = "run" /\ pc[t] = "none" /\ dirty[p] = {}
  /\ view' = [view EXCEPT ![t] = view[p]]
  /\ Goto(t, "wait")
  /\ UNCHANGED <<version, dirty, asleep, token, moment>>

-----------------------------------------------------------------------------
(***************************************************************************)
(* An operation: token, xmemory::commit (heap, then globals), token back.  *)
(***************************************************************************)
(* partialUpdate while it waits fetches pages but changes no version.      *)
WaitToken(t) ==
  /\ pc[t] = "run" /\ Goto(t, "wait")
  /\ UNCHANGED <<conv, token, moment>>

GetToken(t) ==
  /\ pc[t] = "wait" /\ token = NoHolder
  /\ token' = t /\ Goto(t, "heap")
  /\ UNCHANGED <<conv, moment>>

(* xoneheap and xheap forward to xpersist::checkandcommit.                 *)
CommitHeap(t) ==
  /\ pc[t] \in {"heap", "wokeheap"}
  /\ CommitAndUpdate(t, "heap")
  /\ Goto(t, IF pc[t] = "heap" THEN "globals" ELSE "wokeglobals")
  /\ UNCHANGED <<asleep, token, moment>>

(* The same of the globals.                                                *)
CommitGlobals(t) ==
  /\ pc[t] = "globals"
  /\ CommitAndUpdate(t, "globals")
  /\ moment' = [moment EXCEPT ![t] = version']
  /\ Goto(t, "holds")
  /\ UNCHANGED <<asleep, token>>

PutToken(t) ==
  /\ pc[t] = "holds" /\ token' = NoHolder
  /\ Goto(t, "run")
  /\ UNCHANGED <<conv, moment>>

(* cond_wait and join: xmemory::sleep, and the token goes.                 *)
Sleep(t) ==
  /\ pc[t] = "holds" /\ token' = NoHolder
  /\ asleep' = [asleep EXCEPT ![t] = TRUE]
  /\ Goto(t, "sleeping")
  /\ UNCHANGED <<version, view, dirty, moment>>

(* cond_wait goes on: xmemory::wake, commitAndUpdateMemory without the     *)
(* token, then __mutex_lock_inner.                                         *)
Wake(t) ==
  /\ pc[t] = "sleeping"
  /\ asleep' = [asleep EXCEPT ![t] = FALSE]
  /\ Goto(t, "wokeheap")
  /\ UNCHANGED <<version, view, dirty, token, moment>>

(* Mutant: the second commit, with the token, is left out.                 *)
WokeAndRuns == "run"

WokeAndLocks == "wait"

WokenGlobals(t) ==
  /\ pc[t] = "wokeglobals"
  /\ CommitAndUpdate(t, "globals")
  /\ Goto(t, WokeAndLocks)
  /\ UNCHANGED <<asleep, token, moment>>

(* threadDeregister, xmemory::finalize                                     *)
Finish(t) ==
  /\ pc[t] = "holds" /\ token' = NoHolder
  /\ asleep' = [asleep EXCEPT ![t] = TRUE]
  /\ Goto(t, "done")
  /\ UNCHANGED <<version, view, dirty, moment>>

-----------------------------------------------------------------------------
Init ==
  /\ version = [s \in Segments |-> 0]
  /\ view = [t \in MemThreads |-> [s \in Segments |-> 0]]
  /\ dirty = [t \in MemThreads |-> {}]
  /\ asleep = [t \in MemThreads |-> FALSE]
  /\ token = NoHolder
  /\ pc = [t \in MemThreads |-> IF t = First THEN "start" ELSE "none"]
  /\ moment = [t \in MemThreads |-> [s \in Segments |-> 0]]

Next ==
  \/ Constructor
  \/ \E p, t \in MemThreads : Clone(p, t)
  \/ \E t \in MemThreads :
       \/ Write(t) \/ WaitToken(t) \/ GetToken(t) \/ CommitHeap(t) \/ CommitGlobals(t) \/ PutToken(t)
       \/ Sleep(t) \/ Wake(t) \/ WokenGlobals(t) \/ Finish(t)
  \/ (\A t \in MemThreads : pc[t] \in {"none", "done"}) /\ UNCHANGED vars

Spec == Init /\ [][Next]_vars

-----------------------------------------------------------------------------
(* While it runs the program, a thread sees the heap and the globals of    *)
(* the moment at which it last had the token, and no commit that another   *)
(* thread made to one of them since: what it reads depends on the order of *)
(* the token alone.  No process sees a version while it is asleep.         *)
OneMoment ==
  \A t \in MemThreads : pc[t] = "run" => view[t] = moment[t] /\ ~asleep[t]
=============================================================================

----------------------------- MODULE SizedHeaps -----------------------------
(***************************************************************************)
(* The heaps that remember the size of every object in a map of their own. *)
(***************************************************************************)
EXTENDS Layer, Sequences, SequencesExt

-----------------------------------------------------------------------------
(***************************************************************************)
(* SanityCheckHeap (heaplayers/sanitycheckheap.h) over a list of free      *)
(* objects (external), with callers that free whatever they like: an       *)
(* object twice, or one that malloc never gave.  The asserts are compiled  *)
(* out (NDEBUG), so that such calls return.                                *)
(***************************************************************************)
CONSTANTS
  CheckedObjects,  \* addresses
  CheckedSizes

FREED == -1

(* sizes is allocatedObjects.                                              *)
CheckedInit ==
  /\ heap = [sizes |-> [p \in {} |-> 0], below |-> <<>>, given |-> {}]
  /\ live = {} /\ calls = 0

malloc(sz) ==
  /\ Call
  /\ \E p \in IF heap.below # <<>> THEN {Head(heap.below)} ELSE CheckedObjects \ heap.given :
       LET again == p \in DOMAIN heap.sizes /\ heap.sizes[p] # FREED IN
       /\ heap' = [sizes |-> IF again THEN heap.sizes ELSE (p :> sz) @@ heap.sizes,
                   below |-> IF heap.below = <<>> THEN <<>> ELSE Tail(heap.below),
                   given |-> heap.given \cup {p}]
       /\ Gives(IF again THEN Null ELSE p, sz)

(* An object that was never given, or is free already, stays as it is.     *)
free(p) ==
  /\ Call
  /\ IF p \notin DOMAIN heap.sizes \/ At(heap.sizes, p, FREED) = FREED
     THEN UNCHANGED <<heap, live>>
     ELSE /\ heap' = [heap EXCEPT !.sizes[p] = FREED, !.below = <<p>> \o @]
          /\ live' = {o \in live : o.ptr # p}

CheckedNext == (\E sz \in CheckedSizes : malloc(sz)) \/ \E p \in CheckedObjects : free(p)

-----------------------------------------------------------------------------
(* Whatever the callers free, the heap below gets back only what is in     *)
(* use, once, so that no two objects in use share an address; the map says *)
(* which objects are in use and how long they are.                         *)
CallersDoNoHarm ==
  /\ \A a, b \in live : a.ptr = b.ptr => a = b
  /\ \A i, j \in DOMAIN heap.below : heap.below[i] = heap.below[j] => i = j
  /\ DOMAIN heap.sizes = heap.given
  /\ {p \in heap.given : heap.sizes[p] = FREED} = ToSet(heap.below)
  /\ {<<p, heap.sizes[p]>> : p \in heap.given \ ToSet(heap.below)} = {<<o.ptr, o.size>> : o \in live}

-----------------------------------------------------------------------------
(***************************************************************************)
(* MmapHeap (heaplayers/mmapheap.h): mappings of the operating system,     *)
(* with their sizes in a hash map (see Containers) under a lock.  mmap     *)
(* comes before the lock, munmap under it and before the entry's removal,  *)
(* so that other threads may be given an address that is still in the map. *)
(***************************************************************************)
CONSTANTS
  MapUsers,        \* threads, not 0
  MapSizes,        \* in pages
  MapPages         \* page numbers that mmap may give

NoUser == Null     \* nobody has MyMapLock
PagesOf(p, n) == p .. p + n - 1

(* heap.mapped: the pages that are mapped; pc: what a thread is about to   *)
(* do, with its object.                                                    *)
MmapInit ==
  /\ heap = [sizes |-> [p \in {} |-> 0], mapped |-> {}, lock |-> NoUser,
             pc |-> [t \in MapUsers |-> [step |-> "idle"]]]
  /\ live = {} /\ calls = 0

Does(t, step) == heap.pc[t].step = step

(* PrivateMmapHeap::malloc: pages that are free, or NULL.                  *)
Mappable(sz) == {p \in MapPages : PagesOf(p, sz) \subseteq MapPages \ heap.mapped}

mmap(t, sz) ==
  /\ Call /\ Does(t, "idle") /\ UNCHANGED live
  /\ \E p \in Mappable(sz) \cup {Null} :
       heap' = [heap EXCEPT !.mapped = IF p = Null THEN @ ELSE @ \cup PagesOf(p, sz),
                            !.pc[t] = [step |-> "set", ptr |-> p, size |-> sz]]

(* MyMap.set under the lock, for NULL too.                                 *)
set(t) ==
  /\ Does(t, "set") /\ heap.lock = NoUser /\ UNCHANGED calls
  /\ heap' = [heap EXCEPT !.sizes = (heap.pc[t].ptr :> heap.pc[t].size) @@ @,
                          !.pc[t] = [step |-> "idle"]]
  /\ Gives(heap.pc[t].ptr, heap.pc[t].size)

(* getSize                                                                 *)
getSize(p) == At(heap.sizes, p, 0)

(* free: the lock, the size, munmap, and later the entry and the lock.     *)
munmap(t, o) ==
  /\ Does(t, "idle") /\ heap.lock = NoUser
  /\ heap' = [heap EXCEPT !.lock = t, !.mapped = @ \ PagesOf(o.ptr, getSize(o.ptr)),
                          !.pc[t] = [step |-> "erase", ptr |-> o.ptr]]
  /\ Takes(o) /\ UNCHANGED calls

erase(t) ==
  /\ Does(t, "erase")
  /\ heap' = [heap EXCEPT !.sizes = [p \in DOMAIN @ \ {heap.pc[t].ptr} |-> @[p]],
                          !.lock = NoUser, !.pc[t] = [step |-> "idle"]]
  /\ UNCHANGED <<live, calls>>

MmapNext ==
  \E t \in MapUsers : \/ (\E sz \in MapSizes : mmap(t, sz)) \/ set(t)
                      \/ (\E o \in live : munmap(t, o)) \/ erase(t)

-----------------------------------------------------------------------------
(* Objects in use lie apart and getSize knows how long they are, also when *)
(* their address was another object's whose removal from the map is still  *)
(* under way; what is mapped is what is in use or about to be.             *)
SizesAreKnown ==
  /\ Apart(live)
  /\ \A o \in live : getSize(o.ptr) = o.size
  /\ heap.mapped = UNION ({PagesOf(o.ptr, o.size) : o \in live} \cup
                          {PagesOf(heap.pc[t].ptr, heap.pc[t].size) :
                             t \in {u \in MapUsers : Does(u, "set") /\ heap.pc[u].ptr # Null}})
=============================================================================

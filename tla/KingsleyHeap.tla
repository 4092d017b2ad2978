----------------------------- MODULE KingsleyHeap ---------------------------
(***************************************************************************)
(* The power-of-two heap that both the program's heaps (warpheap.h) and    *)
(* the runtime's own (internalheap.h) are made of: size classes            *)
(* (kingsleyheap.h, segheap.h, ansiwrapper.h), free lists (adapt.h,        *)
(* sllist.h), the arenas they are refilled from (zoneheap.h), and the      *)
(* header of an object (objectheader.h, xoneheap.h).                       *)
(*                                                                         *)
(* Pure operators.  A heap record holds what lies in the heap object: the  *)
(* lists' heads and the current arena.  A memory record holds what lies in *)
(* the heap's memory: links of free objects, sizes in headers, arenas.     *)
(***************************************************************************)
EXTENDS Integers, FiniteSetsExt, TLC

CONSTANT NumBins    \* Kingsley::NUMBINS

Header    == 16     \* sizeof(objectHeader)
ArenaSize == 32     \* sizeof(Arena)
Null      == 0

-----------------------------------------------------------------------------
(***************************************************************************)
(* Sizes.                                                                  *)
(***************************************************************************)
Align(sz) == 8 * ((sz + 7) \div 8)

(* ANSIWrapper::malloc                                                     *)
AnsiSize(sz) == Align(IF sz < 16 THEN 16 ELSE sz)

class2Size(i) == 2 ^ (i + 3)

cl == <<0, 1, 2, 2, 3, 3, 3, 3, 4, 4, 4, 4, 4, 4, 4, 4>>

size2Class(size) ==
  LET sz  == IF size < 8 THEN 8 ELSE size
      sz1 == (sz - 1) \div 32
  IN  IF sz <= 128 THEN cl[((sz - 1) \div 8) + 1]
      ELSE 5 + Min({k \in 0 .. NumBins : sz1 \div (2 ^ k) <= 7})

maxObjectSize == class2Size(NumBins - 1)

(* StrictSegHeap::malloc: the size of the object that is handed out.       *)
ObjectSize(sz) ==
  IF AnsiSize(sz) <= maxObjectSize THEN class2Size(size2Class(AnsiSize(sz))) ELSE AnsiSize(sz)

(* StrictSegHeap::free: the largest class whose objects are not larger.    *)
Bin(size) == Max({c \in 0 .. size2Class(size) : class2Size(c) <= size})

-----------------------------------------------------------------------------
(***************************************************************************)
(* A KingsleyStyleHeap h on memory m.  Its free lists (AdaptHeap, SLList)  *)
(* come first, then its current arena (ZoneHeap).                          *)
(***************************************************************************)
(* Nothing written; root is a global of the program's.                     *)
Blank == [link |-> <<>>, size |-> <<>>, arena |-> <<>>, root |-> <<>>]

(* What m says at address a; memory starts out as zeros.                   *)
At(f, a) == IF a \in DOMAIN f THEN f[a] ELSE Null

(* b, overwritten by a.                                                    *)
Over(a, b) == [f \in DOMAIN b |-> a[f] @@ b[f]]

EmptyHeap == [head |-> [c \in 0 .. NumBins - 1 |-> Null], arena |-> Null]

(* Mutant: no room for the object's header.                                *)
NeededBare(size) == Align(size)

(* What NewSourceHeap asks of the zone.                                    *)
Needed(size) == Align(size + Header)

ListHead(h, size) == IF size <= maxObjectSize THEN h.head[size2Class(size)] ELSE Null

FitsArena(h, m, size) == h.arena # Null /\ m.arena[h.arena].remaining >= Needed(size)

(* SLList::get                                                             *)
Popped(h, m, size) == [h EXCEPT !.head[size2Class(size)] = At(m.link, ListHead(h, size))]

(* Arena::malloc and NewSourceHeap::malloc: the writes, and the address.   *)
ArenaPtr(h, m) == m.arena[h.arena].space + Header
Carve(a, space, room, size) ==
  [Blank EXCEPT !.arena = a :> [remaining |-> room - Needed(size), space |-> space + Needed(size)],
                !.size = space :> size]

(* ZoneHeap::slowMalloc asks its source for a chunk, or more.              *)
ChunkSize(chunk, size) == IF chunk < Needed(size) THEN Needed(size) ELSE chunk

(* StrictSegHeap::free and SLList::insert; the zone keeps big objects.     *)
Freed(h, size, p) == IF size > maxObjectSize THEN h ELSE [h EXCEPT !.head[Bin(size)] = p]
FreeLink(h, size, p) ==
  IF size > maxObjectSize THEN Blank ELSE [Blank EXCEPT !.link = p :> h.head[Bin(size)]]

-----------------------------------------------------------------------------
(* The objects in use with one more; n tells two at one address apart.     *)
Added(objects, ptr, size) ==
  objects \cup {[ptr |-> ptr, size |-> size, n |-> Cardinality({o \in objects : o.ptr = ptr})]}

(* Objects, with their headers, that do not overlap.                       *)
Disjoint(objects) ==
  \A a, b \in objects :
    a # b => \/ a.ptr + a.size <= b.ptr - Header
             \/ b.ptr + b.size <= a.ptr - Header

=============================================================================

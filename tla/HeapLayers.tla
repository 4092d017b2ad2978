----------------------------- MODULE HeapLayers -----------------------------
(***************************************************************************)
(* The heap layers of thread_lib/include/heaplayers, one at a time: which  *)
(* says whose state heap is.  They are templates that a program stacks on  *)
(* each other, so each is modelled over what the layer below it promises.  *)
(***************************************************************************)
EXTENDS Integers

CONSTANTS
  MaxRequests,
  TreapNodes, TreapKeys, Priorities,
  BlockHeader, LeaSizes, ZoneSize, MmapThreshold, BaseThreshold,
  AoffSizes, AoffSpace, FreeThreshold,
  XallocSizes, XallocArena,
  ObstackSizes, ObstackChunk, Places, PlaceSize,
  SlotSize, NumSlots, MaxFree, Buffers,
  ChunkBytes, SlotBytes, ChunkPlaces,
  BigSlots, PerChunk, EmptyFraction, BigPlaces,
  ListObjects, NumObjects,
  CarveSizes, CarveChunk, Slop, CarveSpace,
  HashKeys, HashValues, HashNodes, HashBins,
  Items, MaxDepth,
  NestedHeaps,
  TagSizes, TagSpace,
  LockUsers, MaxNested,
  HeapUsers, ThreadHeapCount, ThreadObjects,
  CheckedObjects, CheckedSizes,
  MapUsers, MapSizes, MapPages

VARIABLES which, heap, live, calls

vars == <<which, heap, live, calls>>

Classes == INSTANCE SizeClasses
Lea     == INSTANCE LeaHeap WITH MaxRequests <- MaxRequests - 2
Carve   == INSTANCE CarveHeap WITH MaxRequests <- MaxRequests - 2
Stacks  == INSTANCE Obstack WITH MaxRequests <- MaxRequests - 2
Aoff    == INSTANCE AOFFHeap WITH MaxRequests <- MaxRequests - 2
Xalloc  == INSTANCE XallocHeap
Slots   == INSTANCE SlotHeap
Free    == INSTANCE FreeLists
Tree    == INSTANCE Treap WITH MaxRequests <- MaxRequests - 1
Hash    == INSTANCE Containers
Nested  == INSTANCE NestedHeap
Aligned == INSTANCE AlignedSlots WITH MaxRequests <- MaxRequests + 2
Loose   == INSTANCE LooseSlotHeap WITH MaxRequests <- MaxRequests + 2
Dyn     == INSTANCE Containers WITH MaxRequests <- MaxRequests + 2
Tags    == INSTANCE ObjectTags
Lock    == INSTANCE ThreadHeaps
Threads == INSTANCE ThreadHeaps WITH MaxRequests <- MaxRequests - 2
Checked == INSTANCE SizedHeaps
Mmap    == INSTANCE SizedHeaps WITH MaxRequests <- MaxRequests - 1

Init ==
  \/ which = "classes" /\ heap = 0 /\ live = {} /\ calls = 0
  \/ which = "lea" /\ Lea!Init
  \/ which = "carve" /\ Carve!Init
  \/ which = "obstack" /\ Stacks!Init
  \/ which = "aoff" /\ Aoff!Init
  \/ which = "xalloc" /\ Xalloc!Init
  \/ which = "slots" /\ Slots!Init
  \/ which = "free" /\ Free!Init
  \/ which = "treap" /\ Tree!Init
  \/ which = "hash" /\ Hash!HashInit
  \/ which = "nested" /\ Nested!Init
  \/ which = "aligned" /\ Aligned!Init
  \/ which = "loose" /\ Loose!Init
  \/ which = "dyn" /\ Dyn!StackInit
  \/ which = "tags" /\ Tags!Init
  \/ which = "lock" /\ Lock!LockInit
  \/ which = "threads" /\ Threads!HeapsInit
  \/ which = "checked" /\ Checked!CheckedInit
  \/ which = "mmap" /\ Mmap!MmapInit

(* Somebody asks for the class of a size.                                  *)
Query == which = "classes" /\ heap = 0 /\ heap' \in Classes!Boundaries /\ UNCHANGED <<which, live, calls>>

Layers ==
  \/ which = "lea" /\ Lea!Next
  \/ which = "carve" /\ Carve!Next
  \/ which = "obstack" /\ Stacks!Next
  \/ which = "aoff" /\ Aoff!Next
  \/ which = "xalloc" /\ Xalloc!Next
  \/ which = "slots" /\ Slots!Next
  \/ which = "free" /\ Free!Next
  \/ which = "treap" /\ Tree!Next
  \/ which = "hash" /\ Hash!HashNext
  \/ which = "nested" /\ Nested!Next
  \/ which = "aligned" /\ Aligned!Next
  \/ which = "loose" /\ Loose!Next
  \/ which = "dyn" /\ Dyn!StackNext
  \/ which = "tags" /\ Tags!Next
  \/ which = "lock" /\ Lock!LockNext
  \/ which = "threads" /\ Threads!HeapsNext
  \/ which = "checked" /\ Checked!CheckedNext
  \/ which = "mmap" /\ Mmap!MmapNext

(* The callers need no more memory.                                        *)
Idle == UNCHANGED vars

Next == Query \/ (Layers /\ UNCHANGED which) \/ Idle

Spec == Init /\ [][Next]_vars

-----------------------------------------------------------------------------
(* The layers that hand out memory (coalesceableheap.h and segheap.h under *)
(* dlheap.h, aoffheap.h, xallocHeap.h, obstack.h, alignedchunk.h, chunk.h, *)
(* chunkheap.h, objectmanager.h, threadheap.h, sanitycheckheap.h,          *)
(* mmapheap.h): the objects in use are apart, within what the layer got    *)
(* from below, and the layer's own headers and lists describe them.        *)
LayersKeepApart ==
  /\ which = "lea" => Lea!LeaHeapIsWhole /\ Lea!LeaObjectsApart
  /\ which = "carve" => Carve!CarvedIsGot
  /\ which = "obstack" => Stacks!ObstackIsStack
  /\ which = "aoff" => Aoff!AoffHeapIsWhole
  /\ which = "xalloc" => Xalloc!XallocIsStack
  /\ which = "slots" => Slots!ChunksAreCarved
  /\ which = "aligned" => Aligned!SlotsAreInUse
  /\ which = "tags" => Tags!TagsAgree
  /\ which = "threads" => Threads!FreeObjectsAreHome
  /\ which = "checked" => Checked!CallersDoNoHarm
  /\ which = "mmap" => Mmap!SizesAreKnown

(* The structures the layers keep (free lists, treap.h, myhashmap.h,       *)
(* dynarray.h, nestedheap.h, looseslotheap.h, the size classes): links,    *)
(* counters and tables agree with what was put in and not taken out; and   *)
(* the lock that guards them (spinlock.h, recursivelock.h) has one owner.  *)
StructuresAgree ==
  /\ which = "classes" /\ heap # 0 => Classes!ClassesFit(heap)
  /\ which = "free" => Free!ListIsInOrder
  /\ which = "treap" => Tree!TreapIsOrdered
  /\ which = "hash" => Hash!HashMapIsMap
  /\ which = "nested" => Nested!LinksAreTree
  /\ which = "loose" => Loose!LooseClassInvariant
  /\ which = "dyn" => Dyn!StackIsKept
  /\ which = "lock" => Lock!LockHasOneOwner
=============================================================================

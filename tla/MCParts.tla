------------------------------- MODULE MCParts ------------------------------
(***************************************************************************)
(* The parts that do not need the whole runtime around them, each checked  *)
(* on its own: part says which one a behaviour runs.                       *)
(***************************************************************************)
EXTENDS ThreadParts, SharedParts

CONSTANTS
  Sizes, NumBins, InternalSize, MaxCalls,
  HeapThreads, NumHeaps, HeapSizes, PageSize, HeapChunk, HeapSpace, MaxObjects,
  MaxRequests,
  TreapNodes, TreapKeys, Priorities,
  BlockHeader, LeaSizes, ZoneSize, MmapThreshold, BaseThreshold,
  AoffSizes, AoffSpace, FreeThreshold,
  XallocSizes, XallocArena,
  ObstackSizes, ObstackChunk, Places, PlaceSize,
  SlotSize, NumSlots, MaxFree, Buffers,
  ChunkBytes, SlotBytes, ChunkPlaces,
  BigSlots, PerChunk, EmptyFraction, BigPlaces,
  ListObjects, NumObjects,
  CarveSizes, CarveChunk, Slop, CarveSpace,
  HashKeys, HashValues, HashNodes, HashBins,
  Items, MaxDepth,
  NestedHeaps,
  TagSizes, TagSpace,
  LockUsers, MaxNested,
  HeapUsers, ThreadHeapCount, ThreadObjects,
  CheckedObjects, CheckedSizes,
  MapUsers, MapSizes, MapPages

VARIABLES
  part,
  heap, memory, dead, live, calls,
  setting_up, heaps, heapLock, position, remaining, xlock, main_memory, snapshots, writes, heap_token,
  mutex, step, req, objects, owned, allocations,
  layer, layer_heap, layer_live, layer_calls

internal == <<heap, memory, dead, live, calls>>
malloc == <<setting_up, heaps, heapLock, position, remaining, xlock, main_memory, snapshots, writes,
            heap_token, mutex, step, req, objects, owned, allocations>>
layers == <<layer, layer_heap, layer_live, layer_calls>>

Internal == INSTANCE InternalHeap
Malloc   == INSTANCE Heap WITH
            Threads <- HeapThreads, Sizes <- HeapSizes, Chunk <- HeapChunk, HeapSize <- HeapSpace,
            MaxCalls <- MaxObjects,
            phase <- setting_up, heap <- heaps, master <- main_memory, snap <- snapshots, own <- writes,
            token <- heap_token, pc <- step, live <- objects, calls <- allocations
Layered  == INSTANCE HeapLayers WITH
             which <- layer, heap <- layer_heap, live <- layer_live, calls <- layer_calls

Init ==
  /\ part \in {"perf", "coarsening", "ring", "array", "internal", "sync", "pool", "setup", "log",
                "memory", "simple", "malloc", "layers"}
  /\ Perf!Init /\ Coarse!Init /\ Ring!Init /\ Array!Init /\ Internal!Init /\ Sync!Init
  /\ Pool!Init /\ Setup!Init /\ Log!Init /\ Mem!Init /\ Simple!Init /\ Malloc!Init
  /\ Layered!Init /\ (part = "layers" \/ layer = "classes")

Next ==
  \/ part = "perf" /\ Perf!Next
     /\ UNCHANGED <<part, coarse, ring, array, internal, sync, pool, setup, log, segments, simple,
                     malloc, layers>>
  \/ part = "coarsening" /\ Coarse!Next
     /\ UNCHANGED <<part, perf, ring, array, internal, sync, pool, setup, log, segments, simple,
                     malloc, layers>>
  \/ part = "ring" /\ Ring!Next
     /\ UNCHANGED <<part, perf, coarse, array, internal, sync, pool, setup, log, segments, simple,
                     malloc, layers>>
  \/ part = "array" /\ Array!Next
     /\ UNCHANGED <<part, perf, coarse, ring, internal, sync, pool, setup, log, segments, simple,
                     malloc, layers>>
  \/ part = "internal" /\ Internal!Next
     /\ UNCHANGED <<part, perf, coarse, ring, array, sync, pool, setup, log, segments, simple,
                     malloc, layers>>
  \/ part = "sync" /\ Sync!Next
     /\ UNCHANGED <<part, perf, coarse, ring, array, internal, pool, setup, log, segments, simple,
                     malloc, layers>>
  \/ part = "pool" /\ Pool!Next
     /\ UNCHANGED <<part, perf, coarse, ring, array, internal, sync, setup, log, segments, simple,
                     malloc, layers>>
  \/ part = "setup" /\ Setup!Next
     /\ UNCHANGED <<part, perf, coarse, ring, array, internal, sync, pool, log, segments, simple,
                     malloc, layers>>
  \/ part = "log" /\ Log!Next
     /\ UNCHANGED <<part, perf, coarse, ring, array, internal, sync, pool, setup, segments, simple,
                     malloc, layers>>
  \/ part = "memory" /\ Mem!Next
     /\ UNCHANGED <<part, perf, coarse, ring, array, internal, sync, pool, setup, log, simple,
                     malloc, layers>>
  \/ part = "simple" /\ Simple!Next
     /\ UNCHANGED <<part, perf, coarse, ring, array, internal, sync, pool, setup, log, segments,
                     malloc, layers>>
  \/ part = "malloc" /\ Malloc!Next
     /\ UNCHANGED <<part, perf, coarse, ring, array, internal, sync, pool, setup, log, segments,
                     simple, layers>>
  \/ part = "layers" /\ Layered!Next
     /\ UNCHANGED <<part, perf, coarse, ring, array, internal, sync, pool, setup, log, segments,
                     simple, malloc>>

Spec == Init /\ [][Next]_<<part, perf, coarse, ring, array, internal, sync, pool, setup, log,
                          segments, simple, malloc, layers>>

-----------------------------------------------------------------------------
(* internalheap.h: objects of the runtime do not overlap.                  *)
InternalDisjoint == part = "internal" => Internal!InternalDisjoint

(* malloc: no two objects in use overlap.                                  *)
ObjectsDisjoint == part = "malloc" => Malloc!ObjectsDisjoint

(* A published pointer leads to an object that its reader recognises.      *)
PublishedIsAllocated == part = "malloc" => Malloc!PublishedIsAllocated

(* free and realloc refuse only what was allocated before the set-up.      *)
RefusesOnlyEarlyObjects == part = "malloc" => Malloc!RefusesOnlyEarlyObjects

(* The heap layers that hand out memory keep objects in use apart.         *)
LayersKeepApart == part = "layers" => Layered!LayersKeepApart

(* The lists, trees, tables and counters of the heap layers agree with     *)
(* what is in them.                                                        *)
StructuresAgree == part = "layers" => Layered!StructuresAgree
=============================================================================

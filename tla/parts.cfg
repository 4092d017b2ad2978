\* The parts that do not interact with each other, each on its own: MCParts says which.
SPECIFICATION Spec
CONSTANTS
  Modulus = 64
  Grow = 4
  MinPeriod = 1
  MaxPeriod = 5
  Slack = 1
  Waiting = {5}
  Skid = 1
  Chunk = 9
  Buffer = 3
  Fence = TRUE
  MaxRun = 12
  Chunks = {1, 2}
  Ops = {"lock", "unlock", "signal", "broadcast", "wait", "create", "cancel", "init", "sigstop", "barrier"}
  MinObs = 1
  TotalObs = 2
  MinLevel = 3
  AfterTransfer = 4
  MaxLevel = 6
  MaxOps = 7
  Entries = {e1, e2, e3, e4}
  Lists = {l1, l2}
  NoEntry = NoEntry
  MaxSize = 4
  Sizes = {1, 17, 40, 80}
  NumBins = 4
  InternalSize = 300
  MaxCalls = 6
  SyncThreads = {a, b}
  Static = s
  Dynamic = {m, n}
  Conds = {c}
  NumEntries = 4
  PoolSize = 3
  Values = {"v", "w"}
  MaxCreates = 4
  NumThreads = 3
  MaxStatus = 1024
  BoundedChunk = 9
  MaxSamplePeriod = 9
  MaxTicks = 1
  MaxStarts = 2
  MaxEvents = 3
  Types = {"transaction", "commit"}
  MaxTime = 2
  MemThreads = {a, b}
  First = a
  HeapBase = 10
  HeapSize = 5
  GlobalsBase = 20
  GlobalsSize = 3
  MaxGlobals = 4
  Addresses = {10, 15, 23, 24}
  MaxVersion = 3
  NoHolder = NoHolder
  LockThreads = {a, b}
  Locks = {m, n}
  Inside = {}
  MaxSections = 2
  NoOne = NoOne
  HeapThreads = {0, 1}
  NumHeaps = 2
  HeapSizes = {1}
  PageSize = 64
  HeapChunk = 64
  HeapSpace = 256
  MaxObjects = 3
  MaxRequests = 7
  TreapNodes = {1, 2, 3, 4}
  TreapKeys = {1, 2, 3}
  Priorities = {1, 2, 3}
  BlockHeader = 40
  LeaSizes = {24, 72, 304}
  ZoneSize = 340
  MmapThreshold = 200
  BaseThreshold = 30
  AoffSizes = {16, 40, 72}
  AoffSpace = 300
  FreeThreshold = 140
  XallocSizes = {8, 20, 40}
  XallocArena = 130
  ObstackSizes = {4, 16, 40}
  ObstackChunk = 56
  Places = {1000, 2000, 3000}
  PlaceSize = 180
  SlotSize = 16
  NumSlots = 3
  MaxFree = 0
  Buffers = {1024, 1072, 1200, 1360}
  ChunkBytes = 100
  SlotBytes = 20
  ChunkPlaces = {1000, 2000, 3000}
  BigSlots = 3
  PerChunk = 2
  EmptyFraction = 2
  BigPlaces = {10, 20, 30}
  ListObjects = {11, 22, 32, 41}
  NumObjects = 2
  CarveSizes = {4, 20, 40}
  CarveChunk = 64
  Slop = 16
  CarveSpace = 300
  HashKeys = {1, 2, 3, 4}
  HashValues = {5, 6}
  HashNodes = {1, 2, 3, 4}
  HashBins = 2
  Items = {1, 2}
  MaxDepth = 9
  NestedHeaps = {1, 2, 3, 4}
  TagSizes = {8, 24}
  TagSpace = 140
  LockUsers = {1, 2, 3}
  MaxNested = 2
  HeapUsers = {1024, 2048, 3072}
  ThreadHeapCount = 2
  ThreadObjects = {1, 2, 3}
  CheckedObjects = {1, 2, 3}
  CheckedSizes = {4, 5}
  MapUsers = {1, 2}
  MapSizes = {1, 2}
  MapPages = {3, 4, 5, 6}
INVARIANTS
  
  TicksExact
  UnlockedDataCommitted
  InternalDisjoint
  OneEntryPerMutex
  EntriesApart
  ArgumentArrives
  ListsAreQueues
  ClockIsOwn
  EventsInOrder
  OneMoment
  SimpleExclusion
  ObjectsDisjoint
  PublishedIsAllocated
  RefusesOnlyEarlyObjects
  LayersKeepApart
  StructuresAgree
PROPERTY
  FenceIsExact

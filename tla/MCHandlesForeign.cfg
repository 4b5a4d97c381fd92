SPECIFICATION CoreSpec
CONSTANTS
  Foci = {"references"}
  None = None
  Raw = Raw
  Lost = Lost
  o1 = o1
  o2 = o2
  Threads = {t1, t2}
  Requests <- SmallRequests
  InitialCapacity = 4
  Growths <- LinearGrowth
  Bases = {0}
  Producers = {"p", "q"}
  CommandTypes = {"c", "d"}
  MaxEnqueued = 3
  MaxAllocations = 5
  Allocating = {"a"}
  Freeing = {"f"}
  InitialBlocks = 2
  Grown <- TwoMore
  MaxBlocks = 4
  StackThreads = {"s1", "s2"}
  StackRequests <- StackSizes
  FirstStackCapacity = 3
  NextStackCapacity <- Enough
  MaxTotal = 9
  Unsynchronized = FALSE
  AllocateRequests <- ListRequests
  FirstCapacity = 30
  NextRegionCapacity <- Chunked
  MaxCapacity = 62
  RegionBases = {0, 64}
  MaxLive = 4
  RefThreads = {"t1", "t2"}
  Locals <- ThreeHandles
  Objects = {o1}
  NoObject = None
  Maker <- MakerOf
  After <- NoMember
  Allocators = {"a", "b", "default", "none"}
  DefaultAllocator = "default"
  NoAllocator = "none"
  Selected <- Default
  Propagates = FALSE
  FromMember = FALSE
  Indices = {0, 1, 2}
  SetValues = {"v", "w"}
  NoValue = None
  kInvalidDenseIndex = None
  MaxDense = 3
  Kinds <- CallableKinds
  kHeaderSize = 8
  kPointerAlign = 2
  MaxCallables = 3
  MaxMoves = 2
  Reserves = {16, 40}
CHECK_DEADLOCK FALSE
INVARIANT
  FreedByMaker

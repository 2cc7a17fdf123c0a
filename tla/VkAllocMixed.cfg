SPECIFICATION HeapSpec
CONSTANTS
  HeapSize = 20
  PoolSize = 6
  Requests <- MixedRequests
INVARIANTS CheckPasses Regained
PROPERTY ImplementsAllocator

SPECIFICATION HeapSpec
CONSTANTS
  HeapSize = 16
  PoolSize = 6
  Requests <- ImageRequests
INVARIANT Complete

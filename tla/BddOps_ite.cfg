SPECIFICATION Spec
CONSTANTS
  NVars = 4
  Granularity = 2
  CacheBucket = {}
  CacheHash <- KeyHash
  Inputs <- IteCalls
  NoOutput = NoOutput
INVARIANTS
  IteRight
CHECK_DEADLOCK FALSE

SPECIFICATION Spec
CONSTANTS
  NVars = 4
  Granularity = 2
  CacheBucket = {0, 1, 2}
  CacheHash <- KeyHash
  Inputs <- AllCalls
  NoOutput = NoOutput
INVARIANTS
  ResultRight PutsRight ResultReduced ResultCanonical
CHECK_DEADLOCK FALSE

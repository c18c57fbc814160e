SPECIFICATION FairSpec
CONSTANTS
  k1 = k1
  k2 = k2
  k3 = k3
  Key = {k1, k2, k3}
  None = None
  NThreads = 2
  BlockSize = 4
  DataSize = 3
  Width = 32
  HashOf <- CrowdHash
  TagOf <- CrowdTag
  ChunkSizes = {2, 3}
  MaxProbe = 3
INVARIANTS
  Unique FullIsFull
PROPERTIES
  ImplementsNodeTable LookupEnds
CHECK_DEADLOCK FALSE

SPECIFICATION Spec
CONSTANTS
  k1 = k1
  k2 = k2
  k3 = k3
  Key = {k1, k2, k3}
  None = None
  NThreads = 3
  BlockSize = 2
  DataSize = 2
  Width = 16
  HashOf <- WrapHash
  TagOf <- WrapTag
  ChunkSizes = {1, 2}
  MaxProbe = 4
INVARIANTS
  TypeOK Unique CopiesCurrent PassedOthers
PROPERTIES
  RefsStable ImplementsNodeTable
CHECK_DEADLOCK FALSE

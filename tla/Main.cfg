SPECIFICATION FairSpec
CONSTANTS
  NThreads = 2
  DataSize = 3
  LocalSize = 8
  TableSize = 6
  ChunkSize = 2
  Attempts = 2
  NVars = 4
  MadeLevels = {0, 2}
  MaxNodes <- MCMaxNodes
  Files <- MCFiles
  Seeds = {0, 1}
  Builds = {"par", "seq"}
  LocalHash <- MCLocalHash
  NodeHash <- MCNodeHash
  None = None
  Empty = Empty
INVARIANTS
  LoadedRight MadeRight SharedCanonical CountRight NoMarks
PROPERTIES
  Ends

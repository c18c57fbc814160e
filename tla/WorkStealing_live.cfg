SPECIFICATION FairSpec
CONSTANTS
  Thread = {p0, p1}
  Master = p0
  Free = Free
  Block = Block
  Refused = Refused
  Nobody = Nobody
  NoAddr = NoAddr
  NSlots = 1
  Threshold = 2
  DequeSize = 3
  MaxTasks = 6
  Rounds = 1
INVARIANTS
  StackDiscipline
PROPERTIES
  Termination

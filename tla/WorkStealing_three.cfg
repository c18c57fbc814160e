SPECIFICATION Spec
CONSTANTS
  Thread = {p0, p1, p2}
  Master = p0
  Free = Free
  Block = Block
  Refused = Refused
  Nobody = Nobody
  NoAddr = NoAddr
  NSlots = 1
  Threshold = 2
  DequeSize = 3
  MaxTasks = 5
  Rounds = 1
SYMMETRY Symmetry
INVARIANTS
  OneAnswer HeldOnce JoinDelivers
PROPERTIES
  ImplementsForkJoin

SPECIFICATION FairSpec
CONSTANTS
  Thread = {p0, p1}
  Master = p0
  Free = Free
  Block = Block
  Refused = Refused
  Nobody = Nobody
  NoAddr = NoAddr
  NSlots = 2
  Threshold = 2
  DequeSize = 3
  MaxTasks = 5
  Rounds = 2
INVARIANTS
  TypeOK WaitersBlocked OneAnswer StolenPrefix HeldOnce JoinDelivers QuietBarrier
PROPERTIES
  ImplementsForkJoin Termination

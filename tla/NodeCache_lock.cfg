SPECIFICATION Spec
CONSTANTS
  Thread = {p0, p1}
  Ref = {r1, r2}
  NoRef = NoRef
INVARIANTS
  WholeAtRest

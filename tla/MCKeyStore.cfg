SPECIFICATION Spec
CONSTANTS
  r1 = r1  r2 = r2  r3 = r3  w1 = w1
  Requests = {r1, r2, r3}
  Reloaders = {w1}
  MaxParallel = 1
  Costs = {1000}
  MaxRecords = 2
  Width = 4
SYMMETRY MCSymmetry
INVARIANTS
  TypeOK
  AnsweredIsDurable
  NeverDoubleCharged
  OvershootPerRecord
CHECK_DEADLOCK FALSE

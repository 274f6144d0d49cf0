SPECIFICATION RpmSpec
CONSTANTS
  Requests = {r1, r2}
  Limit = 1
  Seconds = 2
  Ticks = 2
  MaxReloads = 1
  MaxRestarts = 1
  MaxLost = 1
SYMMETRY MCSymmetry
INVARIANTS
  MinuteBound

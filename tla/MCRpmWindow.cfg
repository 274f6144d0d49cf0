SPECIFICATION RpmLiveSpec
CONSTANTS
  Requests = {r1, r2}
  Limit = 2
  Seconds = 2
  Ticks = 2
  MaxReloads = 0
  MaxRestarts = 2
  MaxLost = 1
INVARIANTS
  RpmTypeOK
  SteadyBound
  MinuteBound
PROPERTIES
  RetriesSucceed

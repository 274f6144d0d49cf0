SPECIFICATION FairSpec
CONSTANTS
  r1 = r1  r2 = r2  r3 = r3
  k1 = k1  k2 = k2
  NoKey = NoKey
  Requests = {r1, r2, r3}
  Keys = {k1, k2}
  KeyOf <- MCKeyOf
  Calls <- MCCalls
  MaxParallel <- MCMaxParallel
  Budgeted = {k1}
  Budget <- MCBudget
  Costs = {1400, 2000}
  MaxCost = 2
INVARIANTS
  TypeOK
  KeySlotsExact
  LeaksAreEarlyExits
  OvershootBounded
PROPERTIES
  SlotsAreLeases
CHECK_DEADLOCK FALSE

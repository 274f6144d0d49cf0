SPECIFICATION Spec
CONSTANTS
  r1 = r1  r2 = r2  r3 = r3  r4 = r4
  u1 = u1  u2 = u2  u3 = u3
  openai = openai  anthropic = anthropic
  NoUpstream = NoUpstream
  Requests = {r1, r2, r3, r4}
  Upstreams = {u1, u2}
  Kinds = {openai}
  Kind <- MCKind
  Candidates <- MCCandidates
  MaxConcurrency <- MCMaxConcurrency
  RateRpm <- MCRateRpm
  MaxQueue = 1
  RefillStep = 10
SYMMETRY MCSymmetry
INVARIANTS
  TypeOK
  InFlightExact
  WithinConcurrency
  PendingExact
  NoIdleLease
  StatsBalance
CHECK_DEADLOCK FALSE

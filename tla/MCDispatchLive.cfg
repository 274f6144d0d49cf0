SPECIFICATION FairSpec
CONSTANTS
  r1 = r1  r2 = r2  r3 = r3  r4 = r4
  u1 = u1  u2 = u2  u3 = u3
  openai = openai  anthropic = anthropic
  NoUpstream = NoUpstream
  Requests = {r1, r2, r3}
  Upstreams = {u2, u3}
  Kinds = {openai, anthropic}
  Kind <- LiveKind
  Candidates <- LiveCandidates
  MaxConcurrency <- MCMaxConcurrency
  RateRpm <- MCRateRpm
  MaxQueue = 1
  RefillStep = 10
PROPERTIES
  SlotsAreLeases
  SeatsAreLeases
  QueueingEnds
CHECK_DEADLOCK FALSE

SPECIFICATION LiveSpec
CONSTANTS
  Requests = {r1, r2}
  Admins = {a1, a2}
  Ids = {"u1"}
  Rank <- OneRank
  Names = {"fast"}
  Models = {}
  MaxConcurrency <- OneCap
  ModelChoices = {{}}
  ModelList <- NoEntries
  Aliases <- NoEntries
  MaxInstances = 3
  None = None
INVARIANTS
  TypeOK
  HeldExact
PROPERTIES
  RetiredDrains

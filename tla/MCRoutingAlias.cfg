SPECIFICATION Spec
CONSTANTS
  Requests = {r1}
  Admins = {a1}
  Ids = {"u1", "u2"}
  Rank <- MCRank
  Names = {"fast"}
  Models = {"k", "m"}
  MaxConcurrency <- MCMaxConcurrency
  ModelChoices <- MCModelChoices
  ModelList <- MCModelList
  Aliases <- MCAliases
  MaxInstances = 2
  None = None
INVARIANTS
  AliasReachesTarget

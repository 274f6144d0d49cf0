SPECIFICATION Spec
CONSTANTS
  a1 = a1  a2 = a2
  Upstreams = {u1}
  Keys = {k1}
  Settings = {s1}
  Admins = {a1, a2}
  Watcher = Watcher  Old = Old  Staged = Staged  Garbage = Garbage
  Parts <- MCParts
  Kinds <- MCKinds
INVARIANTS
  TypeOK
  QuietAgrees
CHECK_DEADLOCK FALSE

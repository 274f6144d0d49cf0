SPECIFICATION LiveSpec
CONSTANTS
  Streams = {s1, s2}
  Scripts <- MCScripts
  MaxTokens = 2
INVARIANTS
  TypeOK
  NeverOvercharged
  DrainedIsComplete
PROPERTIES
  UsageCharged
CHECK_DEADLOCK FALSE

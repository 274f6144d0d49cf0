SPECIFICATION HealthFairSpec
CONSTANTS
  Callers = {c1}
  Checker = probe
  Threshold = 3
  FailureCap = 4
  HealthCheck = TRUE
INVARIANTS
  HealthTypeOK
  UnhealthyHasWindow
PROPERTIES
  CheckerHeals
  OutageStopsTraffic

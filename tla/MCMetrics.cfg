SPECIFICATION Spec
CONSTANTS
  Requests = {r1, r2}
  Buckets = 2
  Width = 8
  MaxResets = 1
  MaxStops = 2
SYMMETRY MCSymmetry
INVARIANTS
  TypeOK
  ResetSticks
PROPERTIES
  RowsGrow

CONSTANTS
  Values = {a, b}
  NoValue = nil
  Passive = TRUE
  RingSize = 2
  MaxChanges = 2
  MaxFailures = 1
SPECIFICATION Spec
SYMMETRY Symmetry
INVARIANTS
  NoLostWakeup
  ShowsDataValue

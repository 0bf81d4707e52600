CONSTANTS
  Values = {a, b}
  NoValue = nil
  Passive = TRUE
  RingSize = 2
  MaxChanges = 1
  MaxFailures = 0
SPECIFICATION Spec
PROPERTY PutIsStored

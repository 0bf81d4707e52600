CONSTANTS
  Values = {a, b}
  NoValue = nil
  Passive = FALSE
  RingSize = 1
  MaxChanges = 2
  MaxFailures = 1
SPECIFICATION FairSpec
PROPERTIES
  Converges
  AlarmStays

CONSTANTS
  r1 = r1
  r2 = r2
  Records = {r1, r2}
  Values = {a, b}
  Zero = zero
  ReadOnly = {r2}
  nRequest = 1
  requestNum <- MCrequestNum
  scanRateMultiple = 3
  default_multiple = 1
  MaxAssigned = 2
  MaxEvents = 1
SPECIFICATION FairSpec
INVARIANTS
  ServedInTime
PROPERTIES
  NeverUndone
  Converges
  ShowsLoss

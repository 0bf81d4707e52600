\* A PLC that is down answers 18, port disabled or not started, and stays down
\* for a whole pass of the scanners.
CONSTANTS
  Errors = {18}
  LongOutages = TRUE
  FileErrors = TRUE
  nRequest = 0
  MaxEvents = 3
SPECIFICATION FairSpec
INVARIANTS
  CheckedWhenSteady
PROPERTIES
  ComesOnline
  NotReadWhenDown

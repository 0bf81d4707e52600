CONSTANTS
  movingCheckPolls = 2
  Scripts <- MCScripts
  Present <- MCPresent
  infoMultiple = 2
  None = None
  QueueSize = 2
  MaxPasses = 4
  MaxEvents = 2
  Records <- MCRecords
  Seconds <- MCSeconds
  MaxOutages = 1
SPECIFICATION Spec
\* Every part has a behaviour that comes to an end or stays as it is.
CHECK_DEADLOCK FALSE
INVARIANTS
  SetPointsArrive
  NotDoneEarly
  PartsAgree
  ResetHonoured
  RemindedInTime
PROPERTIES
  ErrorPasses
  ReconnectsWhenAllCan

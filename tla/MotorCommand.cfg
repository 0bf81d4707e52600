CONSTANTS
  movingCheckPolls = 2
  Scripts <- MCScripts
  Present <- MCPresent
  infoMultiple = 2
  None = None
  QueueSize = 2
  MaxPasses = 4
  MaxEvents = 2
  Records <- MCRecords
  Seconds <- MCSeconds
  MaxOutages = 1
SPECIFICATION Spec
CHECK_DEADLOCK FALSE
INVARIANT CommandBeforeExecute

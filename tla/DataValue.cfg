\* Two threads on the user side: the record's EPICS thread and another client
\* of the value, so that calls of one side overlap too.
CONSTANTS
  UserThreads = {u1, u2}
  PlcThreads = {p1}
  Values = {a, b}
  NoValue = nil
SPECIFICATION FairSpec
INVARIANTS
  TypeOK
  NoMissedUpdate
  OverwriteOnlyInRace
  ValidMeansWritten
PROPERTIES
  EventuallyKnown
  HandoverSpec

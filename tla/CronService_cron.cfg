SPECIFICATION Spec
CONSTANTS
  Jobs = {"once", "daily"}
  Kind <- MCKind
  Concurrency = 1
  MaxRetries = 1
  MaxMissed = 1
  MaxIncidents = 2
CHECK_DEADLOCK FALSE
INVARIANTS
  TypeOK
  NeverTwice
  MarkerMeansRun
  TimerArmed
PROPERTIES
  OneShotOnce
  SlotsKept
  DueRuns

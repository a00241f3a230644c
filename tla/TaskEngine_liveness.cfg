SPECIFICATION Spec
CONSTANTS
  t1 = t1
  t2 = t2
  Tasks = {t1, t2}
  CliTasks = {t2}
  MaxRetries <- MCMaxRetries
  NoRun = NoRun
  WaitKinds <- MCApprovalOnly
  Signals = {}
  Clients = {"cli"}
  MaxConcurrent = 1
  TimeoutConfigured = TRUE
  Paced = FALSE
  SweepEvery = 1
  Unset = Unset
  NoData = NoData
  MaxEvents = 1
  MaxCrashes = 0
CHECK_DEADLOCK FALSE
INVARIANTS
  TypeOK
  DepsGate
  AttemptBudget
  OneDispatchPerTask
PROPERTIES
  OverdueIsSwept
  OrphanIsSwept
  EligibleIsTried
  ImplementsPlan
  ClaimsWithinLimit

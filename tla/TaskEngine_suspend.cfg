SPECIFICATION SafetySpec
CONSTANTS
  t1 = t1
  t2 = t2
  Tasks = {t1}
  CliTasks = {}
  MaxRetries <- MCMaxRetries
  NoRun = NoRun
  WaitKinds <- MCBothKinds
  Signals = {"data.ready"}
  Clients = {"tool"}
  MaxConcurrent = 1
  TimeoutConfigured = TRUE
  Paced = FALSE
  SweepEvery = 1
  Unset = Unset
  NoData = NoData
  MaxEvents = 1
  MaxCrashes = 0
CHECK_DEADLOCK FALSE
PROPERTY SuspendedRunLeavesTask

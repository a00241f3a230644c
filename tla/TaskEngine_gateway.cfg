SPECIFICATION Spec
CONSTANTS
  t1 = t1
  t2 = t2
  Tasks = {t1, t2}
  CliTasks = {}
  MaxRetries <- MCMaxRetries
  NoRun = NoRun
  WaitKinds = {}
  Signals = {}
  Clients = {"tool"}
  MaxConcurrent = Unset
  TimeoutConfigured = FALSE
  Paced = FALSE
  SweepEvery = 1
  Unset = Unset
  NoData = NoData
  MaxEvents = 0
  MaxCrashes = 0
CHECK_DEADLOCK FALSE
PROPERTY OverdueIsSwept

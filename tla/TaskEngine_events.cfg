SPECIFICATION SafetySpec
CONSTANTS
  t1 = t1
  t2 = t2
  Tasks = {t1}
  CliTasks = {}
  MaxRetries <- MCMaxRetries
  NoRun = NoRun
  WaitKinds <- MCBothKinds
  Signals = {"data.ready"}
  Clients = {"tool", "rpc", "cli"}
  MaxConcurrent = 1
  TimeoutConfigured = TRUE
  Paced = TRUE
  SweepEvery = 2
  Unset = Unset
  NoData = NoData
  MaxEvents = 2
  MaxCrashes = 1
CHECK_DEADLOCK FALSE
INVARIANTS
  IInv
  RunRecorded
  NoLostWakeup
PROPERTY LegalMoves

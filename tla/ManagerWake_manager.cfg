SPECIFICATION Spec
CONSTANTS
  Tasks = {"a", "b"}
  ObjectiveOf <- MCObjectiveOf
  GroupOf <- MCGroupOf
  NoGroup = "none"
  Trigger <- MCTrigger
  MaxRetries <- MCMaxRetries
  MaxConcurrent = 1
  MaxCrashes = 1
CHECK_DEADLOCK FALSE
INVARIANTS
  TypeOK
  NudgesSuffice
  FinishedIsTold
  AskedOnce

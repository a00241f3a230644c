SPECIFICATION SafetySpec
CONSTANTS
  Runs = {"p", "n"}
  Sessions = {"parent", "child"}
  User = "user"
  SessionOf <- MCSessionOf
  Requester <- MCRequester
  FirstRuns = {"p"}
  WakeRuns = {}
  Completion = {"parent"}
  Cleanups = {"keep", "delete"}
  MaxTries = 2
  MaxIncidents = 2
CHECK_DEADLOCK FALSE
INVARIANTS
  TypeOK
  HookOnce
  ToldOnce
  InMotion
  SettledAfterHook

SPECIFICATION Spec
CONSTANTS
  Runs = {"p", "c", "w"}
  Sessions = {"parent", "child"}
  User = "user"
  SessionOf <- MCSessionOf
  Requester <- MCRequester
  FirstRuns = {"p", "c"}
  WakeRuns = {"w"}
  Completion = {"parent"}
  Cleanups = {"keep"}
  MaxTries = 1
  MaxIncidents = 0
CHECK_DEADLOCK FALSE
INVARIANT ToldOnce
PROPERTY EndedSettles

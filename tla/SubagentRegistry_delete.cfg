SPECIFICATION SafetySpec
CONSTANTS
  Runs = {"p"}
  Sessions = {"parent", "child"}
  User = "user"
  SessionOf <- MCSessionOf
  Requester <- MCRequester
  FirstRuns = {"p"}
  WakeRuns = {}
  Completion = {"parent"}
  Cleanups = {"delete"}
  MaxTries = 2
  MaxIncidents = 0
CHECK_DEADLOCK FALSE
INVARIANT AnnounceIsRetried

SPECIFICATION Spec
CONSTANTS
  r1 = r1
  r2 = r2
  r3 = r3
  j1 = j1
  s1 = s1
  s2 = s2
  s3 = s3
  Commands = {r1, r2, r3, j1}
  Sessions = {s1, s2, s3}
  SessionOf <- MCSessionOf
  LaneOf <- MCLaneOf
  Limits = {0, 2}
  MaxRestarts = 1
  MaxReloads = 1
CHECK_DEADLOCK FALSE
INVARIANTS
  TypeOK
  NoIdleLane
  OneRunPerSession
  ParallelismCapped
PROPERTY AcceptedSettles

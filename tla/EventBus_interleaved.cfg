SPECIFICATION Spec
CONSTANTS
  w1 = w1
  w2 = w2
  e1 = e1
  Waits = {w1, w2}
  Events = {e1, e2, e3}
  Fits <- MCFits
  Gateways = {g1, g2}
  Clis = {c1, c2}
  None = None
CHECK_DEADLOCK FALSE
INVARIANTS
  TypeOK
  NoLostWakeup
  ConsumedIsAnswered
  GatewayMatchesOnce

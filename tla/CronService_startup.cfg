SPECIFICATION SafetySpec
CONSTANTS
  Jobs = {"once", "daily"}
  Kind <- MCKind
  Concurrency = 1
  MaxRetries = 1
  MaxMissed = 1
  MaxIncidents = 1
CHECK_DEADLOCK FALSE
PROPERTY StartKeepsSlots

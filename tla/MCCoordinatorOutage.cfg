SPECIFICATION Spec
CONSTANTS
  Pools = {0, 1}
  V2Pools = {1}
  MaxRetries = 2
  MaxEvents = 3
  MaxBeats = 2
PROPERTY RestartsAfterRecovery
CHECK_DEADLOCK FALSE

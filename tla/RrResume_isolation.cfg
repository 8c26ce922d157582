SPECIFICATION Spec
CHECK_DEADLOCK FALSE
CONSTANTS
  None = None
  Owners = {a, b}
  Steady = {a, b}
  MaxMsgs = 2
  MaxLapses = 1
  MaxStale = 0
  MaxCrashes = 0
PROPERTIES AcksOwnClaim

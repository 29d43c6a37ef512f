SPECIFICATION Spec
CONSTANTS
  Move = {forward}
  Still = Still
  Deadman = 3
  TeleopHold = 2
  NavHold = 1
  StopRepeats = 2
  MaxLate = 1
  MaxDelay = 0
  MaxLosses = 1
  MaxRequests = 1
INVARIANT
  DeadmanAlways

SPECIFICATION Spec
CONSTANTS
  MaxEdits = 2
  MaxTurns = 2
  MaxOthers = 1
  MaxStray = 1
  TooLarge = {2}
  Retries = 1
PROPERTIES
  LeaveAsks
CHECK_DEADLOCK FALSE

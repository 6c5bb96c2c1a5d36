SPECIFICATION Spec
CONSTANTS
  MaxTyped = 2
  MaxDrops = 1
  MaxRaces = 1
  TimeOut = 2
  empty = empty
  Blank <- empty
PROPERTY BrokenIsReconnected
CHECK_DEADLOCK FALSE

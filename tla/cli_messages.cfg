SPECIFICATION Spec
CONSTANTS
  MaxTyped <- MCMaxTyped
  MaxDrops <- MCMaxDrops
  MaxRaces = 1
  TimeOut = 2
  empty = empty
  Blank <- empty
INVARIANTS
  TypeOK
  InOrderOnce
PROPERTY TypedArrives
CHECK_DEADLOCK FALSE

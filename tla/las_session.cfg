SPECIFICATION Spec
CONSTANT MaxClicks <- MCMaxClicks
INVARIANTS
  TypeOK
  OpenFromBelow
  AllOrNothing
  StartStreams
  StoppedIsQuiet
  StatusTellsOfPath
CHECK_DEADLOCK FALSE

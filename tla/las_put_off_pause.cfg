SPECIFICATION Spec
CONSTANT MaxClicks = 3
PROPERTY PutOffPauseIsMade
CHECK_DEADLOCK FALSE

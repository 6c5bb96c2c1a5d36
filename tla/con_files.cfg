SPECIFICATION Spec
CONSTANTS
  f1 = f1
  f2 = f2
  Files <- MCFiles
  Garbage = Garbage
  MaxStarts = 2
INVARIANTS
  TypeOK
  CrashNeedsTwo
PROPERTY FinishedFilesAreRead
CHECK_DEADLOCK FALSE

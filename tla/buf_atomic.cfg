CONSTANTS
  t1 = t1
  t2 = t2
  t3 = t3
  d1 = d1
  Threads = {t1, t2, t3}
  NoThread = NoThread
  Devices = {d1}
  Profiles = {"p", "q", "r"}
  Bits = {"batch", "stop"}
  BatchBit = "batch"
  Calls <- MCCalls
  NoCall = NoCall
  CountSize = 4
  MemoryRunsOut = TRUE
  MaxCalls = 4
SPECIFICATION Spec
CHECK_DEADLOCK FALSE
INVARIANTS TypeOK FlagTellsOfBatch
PROPERTIES ActsAtomically LockIsGivenBack

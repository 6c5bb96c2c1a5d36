CONSTANTS
  f1 = f1
  f2 = f2
  Clients = {1, 2}
  Fds = {f1, f2}
  NoFd = NoFd
  Words <- MCWords
  Base64Words <- MCBase64Words
  Decoded <- MCDecoded
  Messages <- MCMessages
  FileBuffers = 3
  SocketRead = 4
  Fragmented = TRUE
  m_bSendAll = TRUE
  MaxSent = 4
  Part <- MCPart
  MaxTyped = 2
  MaxDrops = 1
  MaxRaces = 0
  TimeOut = 1
  Blank = Blank
SPECIFICATION PathSpec
CONSTRAINT NoOverlap
SYMMETRY Symmetry
CHECK_DEADLOCK FALSE
INVARIANTS SavedAsTyped

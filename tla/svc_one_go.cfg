CONSTANTS
  c1 = c1
  c2 = c2
  Clients = {c1, c2}
  f1 = f1
  f2 = f2
  Fds = {f1, f2}
  NoFd = NoFd
  Words <- MCWords
  Base64Words <- MCBase64Words
  Decoded <- MCDecoded
  Messages <- FittingMessages
  FileBuffers = 4
  SocketRead = 5
  Fragmented = TRUE
  m_bSendAll = TRUE
  MaxSent = 2
SPECIFICATION PoliteSpec
CHECK_DEADLOCK FALSE
PROPERTIES SavedDirectlyOnlyIfComplete

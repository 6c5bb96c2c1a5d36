CONSTANTS
  c1 = c1
  c2 = c2
  Clients = {c1, c2}
  f1 = f1
  f2 = f2
  Fds = {f1, f2}
  NoFd = NoFd
  Words <- MCWords
  Base64Words <- MCBase64Words
  Decoded <- MCDecoded
  Messages <- MCMessages
  FileBuffers = 3
  SocketRead = 4
  Fragmented = TRUE
  m_bSendAll = TRUE
  MaxSent = 2
SPECIFICATION Spec
SYMMETRY Symmetry
CHECK_DEADLOCK FALSE
INVARIANTS TypeOK RegistryIsLive TextsAreOrdered
PROPERTIES TransferEndsInSave PictureHoldsOthersBack

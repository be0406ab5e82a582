CONSTANTS
  DOIP_HEADER_SIZE = 2
  RECV_BUF = 8
  Fds = {listen, f1, f2}
  ListenFd = listen
  NoFd = NoFd
  MAX_EVENTS = 2
  MaxGen = 2
  Clients = {t1, t2}
  NoClient = NoClient
  BACKLOG = 10
  Msgs <- AllMsgs
  MaxMsgs = 2
  Chunks = {1, 5, 8}
  SlowClients = {t1, t2}
  SecondFd = f2
  SecondClient = t2
SPECIFICATION MCSpec
INVARIANTS TypeOK ReassemblyExact ClosedOnlyWhenDone ConnectionsMatchKernel
PROPERTIES ImplementsEventLoop ImplementsSession
CHECK_DEADLOCK FALSE

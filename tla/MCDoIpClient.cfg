CONSTANTS
  DOIP_HEADER_SIZE = 2
  RECV_BUF = 32
  Fds = {listen, f1}
  ListenFd = listen
  NoFd = NoFd
  MAX_EVENTS = 1
  MaxGen = 2
  Clients = {tool, t2}
  NoClient = NoClient
  BACKLOG = 10
  Msgs <- ToolMsgs
  OtherMsgs = {}
  MaxMsgs = 3
  Chunks = {32}
  SlowClients = {}
  Tool = tool
  Requests <- TwoRequests
  Pieces = {3, 7}
SPECIFICATION ClientFairSpec
INVARIANTS EveryRequestAnswered NeverFarAhead
PROPERTIES ToolFinishes ArrivedIsHandled
CHECK_DEADLOCK FALSE

CONSTANTS
  DOIP_HEADER_SIZE = 2
  RECV_BUF = 64
  Fds = {listen, f1}
  ListenFd = listen
  NoFd = NoFd
  MAX_EVENTS = 1
  MaxGen = 2
  Clients = {tool}
  NoClient = NoClient
  BACKLOG = 10
  Msgs <- ToolMsgs
  OtherMsgs = {}
  MaxMsgs = 7
  Chunks = {64}
  SlowClients = {}
  Tool = tool
  Requests <- AllRequests
  Pieces = {}
SPECIFICATION ClientSpec
INVARIANTS SendFailureSurvived
CHECK_DEADLOCK FALSE

CONSTANTS
  Tools = {t1}
  Peer = peer
  PeerDatagrams <- MCPeerDatagrams
  Services <- MCServices
  Routes <- MCRoutes
  Values <- MCValues
  SESSION_MOD = 8
  SD_BUF = 112
  SIZE_MOD = 256
  MaxOffers = 2
  MaxNotes = 1
  MaxSubs = 3
  MaxPeer = 2
SPECIFICATION Spec
INVARIANTS TypeOK RegisteredAsReceived AcksMatchRecords ShownWasPublished
CHECK_DEADLOCK FALSE

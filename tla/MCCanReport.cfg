CONSTANTS
  Ids <- BusIds
  Signals <- DbcSignals
  Routes <- RouteNames
  CAN_EFF = 8
  SAMPLES_MAX = 2
  SESSION_MOD = 3
  SD_OFFER_EVERY_N = 2
  CHECK_EVERY = 3
  TIMEOUT = 1
  RX_QUEUE = 2
  MaxEntries = 2
  MaxSubs = 2
  MaxFrames = 5
  MaxTime = 2
SPECIFICATION CanSpec
INVARIANTS ReportConsistent
CHECK_DEADLOCK FALSE

CONSTANTS
  Ids <- BusIds
  Signals <- DbcSignals
  Routes <- RouteNames
  CAN_EFF = 8
  SAMPLES_MAX = 2
  SESSION_MOD = 3
  SD_OFFER_EVERY_N = 2
  CHECK_EVERY = 3
  TIMEOUT = 1
  RX_QUEUE = 2
  MaxEntries = 2
  MaxSubs = 0
  MaxFrames = 3
  MaxTime = 4
SPECIFICATION CanFairSpec
PROPERTIES SilenceIsReported
CHECK_DEADLOCK FALSE

CONSTANTS
  ConfLines <- MCConfLines
  DbcLines <- MCDbcLines
  MaxConf = 3
  MaxDbc = 5
  MaxLines = 6
  EventNames <- MCEventNames
  Latencies = {0, 7, 100}
  MAX_SAMPLES = 101
  MaxRecords = 4
  Bytes = {0, 3, 16, 17, 25, 34, 127, 135, 140, 144, 241, 255}
  MaxLen = 4
  DataBytes = {0, 1, 85, 128, 254, 255}
  Starts = {0, 1, 3, 7, 8, 9, 15, 16, 17, 255}
  Lengths = {0, 1, 2, 7, 8, 9, 12, 15, 16, 17, 64, 255}
  Ids <- BusIds
  Signals <- DbcSignals
  Routes <- RouteNames
  CAN_EFF = 8
  SAMPLES_MAX = 2
  SESSION_MOD = 3
  SD_OFFER_EVERY_N = 2
  CHECK_EVERY = 3
  TIMEOUT = 1
  RX_QUEUE = 2
  MaxEntries = 2
  MaxSubs = 2
  MaxFrames = 5
  MaxTime = 2
SPECIFICATION GatewaySpec
INVARIANTS
  StartTypeOK TableIsFile RoutesAreFile
  KeepsFirstSamples RowsAreStatistics
  ResponseMatchesRequest DecodedExact SimulatedIsDecoded
  CanTypeOK OfferCadence PublishedInOrder CountersAgree
CHECK_DEADLOCK FALSE

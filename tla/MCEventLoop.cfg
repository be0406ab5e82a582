CONSTANTS
  Fds = {listen, f1, f2}
  StaticFds = {listen}
  NoFd = NoFd
  MAX_EVENTS = 2
  MaxGen = 2
SPECIFICATION FairSpec
INVARIANTS TypeOK NoStaleDispatch CallbackAlive RegistrationCurrent StopTakesEffect
PROPERTIES EveryReadyServed
CHECK_DEADLOCK FALSE

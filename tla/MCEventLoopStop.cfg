CONSTANTS
  Fds = {listen, f1}
  StaticFds = {listen}
  NoFd = NoFd
  MAX_EVENTS = 1
  MaxGen = 1
SPECIFICATION FairSpec
PROPERTIES StopEndsRun
CHECK_DEADLOCK FALSE

SPECIFICATION FairSpec
CONSTANTS
  Clients = {c1}
  Sockets = {s1}
  NoClient = NoClient
  NoSocket = NoSocket
  NoTimer = NoTimer
  Base = 1
  Limit = 1
  MaxAttempts = 0
  Greenhouses = {g1}
  Capacity = 2
  Window = 3
  MaxClock = 3
  NoFetch = NoFetch
PROPERTIES NoSilentHoles
CHECK_DEADLOCK FALSE

SPECIFICATION Spec
CONSTANTS
  Clients = {c1}
  Sockets = {s1}
  NoClient = NoClient
  NoSocket = NoSocket
  NoTimer = NoTimer
  Base = 1
  Limit = 1
  MaxAttempts = 0
  Greenhouses = {g1, g2}
  Capacity = 2
  Window = 2
  MaxClock = 3
  NoFetch = NoFetch
INVARIANTS TypeOK OnlyThisGreenhouse CarriedIsDrawn
CHECK_DEADLOCK FALSE
SYMMETRY Perms

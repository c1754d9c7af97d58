CONSTANTS
  NoServer = NoServer
  Servers = {s1, s2}
  TimeInterval = 5
  IDLE_INCREMENT = 5
  EXTRA_GRACE = 0
  CreateMayFail = FALSE
  ServerName <- OneName
SPECIFICATION Spec
INVARIANT LineFindsQueue
CHECK_DEADLOCK FALSE

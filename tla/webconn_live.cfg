CONSTANTS
  NoServer = NoServer
  Servers = {s1, s2}
  TimeInterval = 5
  IDLE_INCREMENT = 5
  EXTRA_GRACE = 0
  CreateMayFail = TRUE
  ServerName <- OneName
SPECIFICATION FairSpec
INVARIANTS TypeOK StatusLockNotLeaked
PROPERTY ServiceRestored
CHECK_DEADLOCK FALSE

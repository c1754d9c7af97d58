CONSTANTS
  NoServer = NoServer
  Servers = {s1, s2, s3}
  TimeInterval = 0
  IDLE_INCREMENT = 5
  EXTRA_GRACE = 0
  CreateMayFail = FALSE
  ServerName <- TwoNames
SPECIFICATION Spec
INVARIANTS AtMostOneLateLine Watched NoOrphan
PROPERTY ReplacedIsBroken
SYMMETRY ObjectSymmetry
CHECK_DEADLOCK FALSE

SPECIFICATION HeartbeatFairSpec
CONSTANTS
  Count = 2
  a = a
  b = b
  Setters = {a, b}
  Target <- FirstEvent
  Waits = {v1, v2, v3}
  NoWait = NoWait
  Bounded = {TRUE}
  m_nTimeInterval = 7
  IDLE_INCREMENT = 5
  EXTRA_GRACE = 10
INVARIANTS HeartbeatTypeOK NoUseOfFreedWait NoUnexpectedIndex AskedBeforeLost
PROPERTIES SetEventReturns SilenceIsNoticed

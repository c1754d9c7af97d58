SPECIFICATION Spec
CONSTANTS
  Host <- Hosts
  Date <- Days
  MaxRunning = 2
INVARIANTS KeyHoldsItsNumber BlockOfOneDay
CHECK_DEADLOCK FALSE

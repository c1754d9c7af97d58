SPECIFICATION FairSpec
CONSTANTS
  Count = 2
  a = a
  b = b
  Setters = {a, b}
  Target <- EachItsOwn
  Waits = {v1, v2, v3}
  NoWait = NoWait
  Bounded = {TRUE, FALSE}
INVARIANTS TypeOK RefCountExact NoLeak
PROPERTIES ImplementsWaitAny FiredWaitReturns

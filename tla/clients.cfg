SPECIFICATION MainFairSpec
CONSTANTS
  Client = {c1, c2}
  Socket = {f1, f2}
  Dao = {d1}
  NoClient = NoClient
  NoSocket = NoSocket
  NoRegistry = NoRegistry
INVARIANTS MainTypeOK OneRegistry OneOwner SentToItsOwn NobodyElseMissed NoDescriptorLeak WholeLines
PROPERTIES ClosesItsOwn NoLineTwice GoneIsReaped
CHECK_DEADLOCK FALSE

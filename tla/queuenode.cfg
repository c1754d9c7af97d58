CONSTANTS
  Message <- Lines
  PRICE_POS = 3
  VOLUME_POS = 4
  EPOCH_POS = 8
  QUEUELOCALSIZE = 5
  TRIM = 2
  MaxPublished = 7
SPECIFICATION Spec
INVARIANTS TypeOK RemembersTheNewest NoRecentRepeat
PROPERTIES ImplementsDedup DroppedWasSent
CHECK_DEADLOCK FALSE

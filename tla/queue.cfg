SPECIFICATION FairSpec
CONSTANTS
  Sender = {s1, s2}
  Dao = {d1}
  NUL = NUL
  BUFSIZE = 2
  BUFFERSIZE = 2
  msg_qbytes = 2
  MaxLines = 2
  MaxTotal = 3
INVARIANTS TypeOK WholeIfAlone InOrder
PROPERTIES ImplementsLineQueue SendReturns
CHECK_DEADLOCK FALSE

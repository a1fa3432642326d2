CONSTANTS
  s1 = s1
  r1 = r1
  k1 = k1
  None = None
  Conn = Conn
  Statements = {s1}
  Readers = {r1}
  Maker <- MCMaker
  Cancels = {k1}
  MaxBatches = 2
SPECIFICATION FairSpec
INVARIANTS
  CloseIsLast
PROPERTIES
  ReadsTheStream
  DropsFinish
  SessionClosed
CHECK_DEADLOCK FALSE

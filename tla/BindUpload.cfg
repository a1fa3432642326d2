CONSTANTS
  u1 = u1
  u2 = u2
  None = None
  Uploads = {u1, u2}
  Mode <- MCMode
  Inputs <- MCInputs
  Header = 1
  Trailer = 1
  MaxBytes = 6
SPECIFICATION FairSpec
INVARIANTS
  BoundWhole
  CancelledNotBound
PROPERTIES
  CancelsReach
  TurnsAnswered
  SpoolsReclaimed
CHECK_DEADLOCK FALSE

CONSTANTS
  c1 = c1
  c2 = c2
  c3 = c3
  peer = peer
  ProcessKey = ProcessKey
  None = None
  Callers = {c1, c2, c3}
  Readers = {c2}
  Config <- MCConfig
SPECIFICATION FairSpec
INVARIANTS
  OneConnectionPerKey
  StreamIsOwn
  RetryIsFresh
  LeaseKeepsLink
PROPERTY OpensReturn
CHECK_DEADLOCK FALSE

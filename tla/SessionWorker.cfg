CONSTANTS
  c1 = c1
  c2 = c2
  c3 = c3
  Calls = {c1, c2, c3}
  QueueBound = 1
SPECIFICATION FairSpec
PROPERTIES
  KeepsContract
  QuietAfterDrop
  CallsAnswered
  ThreadReclaimed
CHECK_DEADLOCK FALSE

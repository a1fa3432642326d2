CONSTANTS
  n1 = n1
  n2 = n2
  e1 = e1
  e2 = e2
  u1 = u1
  s1 = s1
  k1 = k1
  m1 = m1
  m2 = m2
  m3 = m3
  c1 = c1
  d1 = d1
  x1 = x1
  None = None
  Kind <- MCKind
  Requests = {n1, n2, x1}
  Workloads = {{n1, n2, x1}}
  QueueBound = 2
  MaxStatements = 2
  MaxResults = 2
  Patient = TRUE
SPECIFICATION FairSpec
PROPERTY CancelAnswered
CHECK_DEADLOCK FALSE

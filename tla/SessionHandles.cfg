CONSTANTS
  n1 = n1
  n2 = n2
  e1 = e1
  e2 = e2
  u1 = u1
  s1 = s1
  k1 = k1
  m1 = m1
  m2 = m2
  m3 = m3
  c1 = c1
  d1 = d1
  x1 = x1
  None = None
  Kind <- MCKind
  Requests = {n1, e1, e2, u1, s1, k1, m1, m2, m3, c1, d1, x1}
  Workloads <- MCWorkloads
  QueueBound = 2
  MaxStatements = 1
  MaxResults = 2
  Patient = TRUE
SPECIFICATION FairSpec
INVARIANTS
  OneResultPerStatement
  ClosedIsClean
  NothingLeftByError
PROPERTIES
  DeliveredSurvive
  RequestsAnswered
CHECK_DEADLOCK FALSE

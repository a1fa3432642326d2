CONSTANTS
  a1 = a1
  a2 = a2
  a3 = a3
  h1 = h1
  h2 = h2
  p1 = p1
  p2 = p2
  NoSession = NoSession
  Reaper = Reaper
  Main = Main
  Attempts = {a1, a2, a3}
  Handlers = {h1, h2}
  Principals = {p1, p2}
  Authorized = {p1, p2}
  Caller <- MCCaller
  MaxSessions = 2
  MaxPerPrincipal = 1
SPECIFICATION FairSpec
INVARIANTS
  ReservationsExact
  QuotaRespected
  ShutdownIsTerminal
  UsableConnections
PROPERTIES
  InFlightKept
  OpenAnswered
  ConnectionsReclaimed
  AbandonedReclaimed
CHECK_DEADLOCK FALSE

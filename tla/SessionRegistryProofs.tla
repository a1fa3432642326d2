------------------------- MODULE SessionRegistryProofs -------------------------
(***************************************************************************)
(* Proofs of the safety properties of SessionRegistry, for any number of   *)
(* attempts, handlers and principals and any limits that                   *)
(* SessionLimits::validate accepts.                                        *)
(*                                                                         *)
(* The argument has two halves.  ControlInv ties the phase of an open()    *)
(* call to its connection and to the registry, and says that what leaves   *)
(* the registry is left to one thread to drop; it is inductive by itself.  *)
(* CountingInv says what the counters count, and uses ControlInv only to   *)
(* know that an attempt holding a reservation is not also a session.       *)
(***************************************************************************)
EXTENDS SessionRegistry, FiniteSetTheorems, TLAPS

\* TypeOK without the bounds on the two counters.
Typed ==
  /\ closing \in BOOLEAN
  /\ detached \in BOOLEAN
  /\ sessions \subseteq Attempts
  /\ expired \subseteq sessions
  /\ opening_total \in Nat
  /\ opening_by_principal \in [Principals -> Nat]
  /\ phase \in [Attempts -> Phase]
  /\ conn \in [Attempts -> ConnState]
  /\ holds \in [Handlers -> Attempts \cup {NoSession}]
  /\ locked \subseteq Attempts
  /\ drops \in [Threads -> SUBSET Attempts]

\* What the phase of an open() call says about its connection.
PhaseConn ==
  /\ detached => closing
  /\ \A s \in Attempts :
       /\ s \in sessions => phase[s] = "registered"
       /\ phase[s] \in {"idle", "admitting", "reaped", "reserved"} => conn[s] = "none"
       /\ phase[s] = "connected" => conn[s] = "open"
  /\ \A h \in Handlers : holds[h] # NoSession => phase[holds[h]] = "registered"

Held == Typed /\ PhaseConn /\ ShutdownIsTerminal /\ UsableConnections

\* What a thread has taken to drop is not in the registry, its open() call is over,
\* and no other thread drops it.
DroppedByOne ==
  \A t \in Threads : \A s \in drops[t] :
    /\ s \notin sessions
    /\ phase[s] \in {"refused", "registered"}
    /\ \A u \in Threads : s \in drops[u] => u = t

ControlInv == Held /\ DroppedByOne

\* The registry and the set of reservations are finite, and the counters and
\* quotas are right about them.
CountingInv ==
  /\ IsFiniteSet(sessions)
  /\ IsFiniteSet(Reserved)
  /\ ReservationsExact
  /\ QuotaRespected

--------------------------------------------------------------------------------
\* The control half holds initially.
LEMMA InitControl == Init => ControlInv
<1> SUFFICES ASSUME Init PROVE ControlInv
  BY Zenon
<1> USE DEF Init
<1>1. Typed
  BY Zenon DEF Typed, Phase, Reserving, ConnState
<1>2. PhaseConn
  BY Zenon DEF PhaseConn
<1>3. ShutdownIsTerminal
  BY Zenon DEF ShutdownIsTerminal
<1>4. UsableConnections
  BY Zenon DEF UsableConnections
<1>5. DroppedByOne
  BY Zenon DEF DroppedByOne
<1> QED
  BY <1>1, <1>2, <1>3, <1>4, <1>5, Zenon DEF ControlInv, Held

\* A step that adds the sessions of D to what a thread drops, when no thread drops
\* them, leaves each to one thread.
LEMMA DropsGrow ==
  ASSUME Held, Held', DroppedByOne, NEW t \in Threads, NEW D \in SUBSET Attempts,
         drops' = [drops EXCEPT ![t] = @ \cup D],
         \A s \in Attempts : \A u \in Threads :
           s \in drops[u] => phase'[s] = phase[s] /\ s \notin sessions',
         \A s \in D : /\ s \notin sessions'
                      /\ phase'[s] \in {"refused", "registered"}
                      /\ \A u \in Threads : s \notin drops[u]
  PROVE  DroppedByOne'
<1> SUFFICES ASSUME NEW u \in Threads, NEW s \in drops'[u]
             PROVE  /\ s \notin sessions'
                    /\ phase'[s] \in {"refused", "registered"}
                    /\ \A v \in Threads : s \in drops'[v] => v = u
  BY Zenon DEF DroppedByOne
<1>1. drops'[t] = drops[t] \cup D /\ \A v \in Threads : v # t => drops'[v] = drops[v]
  BY Zenon DEF Held, Typed
<1>2. s \in Attempts
  BY Zenon DEF Held, Typed
<1>3. CASE s \in drops[u]
  <2>1. s \notin sessions' /\ phase'[s] = phase[s]
    BY <1>2, <1>3, Zenon
  <2>2. phase[s] \in {"refused", "registered"} /\ \A v \in Threads : s \in drops[v] => v = u
    BY <1>3, Zenon DEF DroppedByOne
  <2>3. s \notin D
    BY <1>3, Zenon
  <2>4. \A v \in Threads : s \in drops'[v] => v = u
    BY <1>1, <2>2, <2>3, Zenon
  <2> QED
    BY <2>1, <2>2, <2>4, Zenon
<1>4. CASE s \notin drops[u]
  <2>1. u = t /\ s \in D
    BY <1>1, <1>4, Zenon
  <2>2. \A v \in Threads : s \notin drops[v]
    BY <2>1, Zenon
  <2> QED
    BY <1>1, <2>1, <2>2, Zenon
<1> QED
  BY <1>3, <1>4, Zenon

\* A step that takes sessions from what threads drop, or leaves it, does too.
LEMMA DropsShrink ==
  ASSUME DroppedByOne,
         \A t \in Threads : drops'[t] \subseteq drops[t],
         \A t \in Threads : \A s \in drops[t] :
           phase'[s] \in {"refused", "registered"} /\ s \notin sessions'
  PROVE  DroppedByOne'
<1> SUFFICES ASSUME NEW t \in Threads, NEW s \in drops'[t]
             PROVE  /\ s \notin sessions'
                    /\ phase'[s] \in {"refused", "registered"}
                    /\ \A u \in Threads : s \in drops'[u] => u = t
  BY Zenon DEF DroppedByOne
<1>1. s \in drops[t]
  BY Zenon
<1>2. s \notin sessions' /\ phase'[s] \in {"refused", "registered"}
  BY <1>1, Zenon
<1>3. \A u \in Threads : s \in drops'[u] => u = t
  BY <1>1, Zenon DEF DroppedByOne
<1> QED
  BY <1>2, <1>3, Zenon

\* A removal from the registry leaves the types right.
LEMMA RemoveTyped ==
  ASSUME Typed, NEW t \in Threads, NEW S \in SUBSET sessions, Remove(S, t)
  PROVE  /\ sessions' \subseteq sessions
         /\ expired' \subseteq sessions'
         /\ drops' \in [Threads -> SUBSET Attempts]
<1>1. sessions' \subseteq sessions /\ expired' \subseteq sessions'
  BY Zenon DEF Remove, Typed
<1>2. drops' \in [Threads -> SUBSET Attempts]
  <2>1. S \in SUBSET Attempts
    BY Zenon DEF Typed
  <2>2. drops' = [drops EXCEPT ![t] = @ \cup S]
    BY Zenon DEF Remove
  <2> QED
    BY <2>1, <2>2 DEF Typed
<1> QED
  BY <1>1, <1>2, Zenon

\* The steps of an open() call preserve what ties it to the registry.
LEMMA AttemptHeld ==
  ASSUME ControlInv, NEW s \in Attempts, AttemptStep(s)
  PROVE  Held'
<1> USE RegistryAssumption
    DEF ControlInv, Held, Typed, PhaseConn, ShutdownIsTerminal, UsableConnections,
        Goto, Phase, Reserving, ConnState, counters
<1>0. s \in Threads
  BY Zenon DEF Threads
<1>1. CASE OpenBegin(s)
  BY <1>1 DEF OpenBegin
<1>2. CASE OpenReap(s)
  <2>1. Reapable \in SUBSET sessions /\ Remove(Reapable, s)
    BY <1>2, Zenon DEF OpenReap, Reapable
  <2>2. /\ sessions' \subseteq sessions
        /\ expired' \subseteq sessions'
        /\ drops' \in [Threads -> SUBSET Attempts]
    BY <1>0, <2>1, RemoveTyped, Zenon
  <2>3. /\ phase[s] = "admitting" /\ phase' = [phase EXCEPT ![s] = "reaped"]
        /\ UNCHANGED <<closing, detached, opening_total, opening_by_principal, conn, holds,
                        locked>>
    BY <1>2, Zenon DEF OpenReap
  <2> QED
    BY <2>2, <2>3
<1>3. CASE ReserveOpen(s)
  BY <1>3 DEF ReserveOpen
<1>4. CASE SpawnOpener(s)
  BY <1>4 DEF SpawnOpener
<1>5. CASE OpenReceives(s)
  BY <1>5 DEF OpenReceives
<1>6. CASE OpenTimesOut(s)
  BY <1>6 DEF OpenTimesOut
<1>7. CASE ReleaseFailed(s)
  BY <1>0, <1>7 DEF ReleaseFailed, Release, SaturatingDec
<1>8. CASE Register(s)
  BY <1>0, <1>8 DEF Register, Release, SaturatingDec
<1>9. CASE BackendOpenReturns(s)
  BY <1>9 DEF BackendOpenReturns
<1>10. CASE DropUnclaimed(s)
  BY <1>10 DEF DropUnclaimed
<1>11. CASE LeaseElapses(s)
  BY <1>11 DEF LeaseElapses
<1>12. CASE NewStatementReturns(s)
  BY <1>12, Zenon DEF NewStatementReturns
<1> QED
  BY <1>1, <1>2, <1>3, <1>4, <1>5, <1>6, <1>7, <1>8, <1>9, <1>10, <1>11, <1>12, Zenon
     DEF AttemptStep, OpenStep

\* Handlers, the reaper, shutdown and the drops preserve it.
LEMMA OtherHeld ==
  ASSUME ControlInv,
         \/ \E h \in Handlers : HandlerStep(h)
         \/ \E t \in Threads : Drop(t) \/ DestructorReturns(t)
         \/ ReapExpired
         \/ BeginShutdown
         \/ DetachAll
         \/ UNCHANGED vars
  PROVE  Held'
<1> USE RegistryAssumption
    DEF ControlInv, Held, Typed, PhaseConn, ShutdownIsTerminal, UsableConnections,
        Phase, Reserving, ConnState, counters
<1>0. Reaper \in Threads /\ Main \in Threads /\ Handlers \subseteq Threads
  BY Zenon DEF Threads
<1>a. ASSUME NEW t \in Threads, NEW S \in SUBSET sessions, Remove(S, t),
             UNCHANGED <<closing, detached, opening_total, opening_by_principal, phase, conn,
                         holds, locked>>
      PROVE  Held'
  <2>1. /\ sessions' \subseteq sessions
        /\ expired' \subseteq sessions'
        /\ drops' \in [Threads -> SUBSET Attempts]
    BY <1>a, RemoveTyped, Zenon
  <2> QED
    BY <1>a, <2>1
<1>1. ASSUME NEW h \in Handlers, NEW s \in Attempts, Get(h, s)
      PROVE  Held'
  <2>1. CASE s \in Reapable
    <3>1. {s} \in SUBSET sessions /\ Remove({s}, h)
      BY <1>1, <2>1, ZenonT(30) DEF Get
    <3>2. UNCHANGED <<closing, detached, opening_total, opening_by_principal, phase, conn, holds,
                      locked>>
      BY <1>1, <2>1, Zenon DEF Get
    <3> QED
      BY <1>0, <1>a, <3>1, <3>2, Zenon
  <2>2. CASE s \notin Reapable
    BY <1>1, <2>2 DEF Get
  <2> QED
    BY <2>1, <2>2, Zenon
<1>2. ASSUME NEW h \in Handlers, NEW s \in Attempts, Close(h, s)
      PROVE  Held'
  <2>1. {s} \in SUBSET sessions /\ Remove({s}, h)
    BY <1>2, ZenonT(30) DEF Close
  <2>2. UNCHANGED <<closing, detached, opening_total, opening_by_principal, phase, conn, holds,
                    locked>>
    BY <1>2, Zenon DEF Close
  <2> QED
    BY <1>0, <1>a, <2>1, <2>2, Zenon
<1>3. ASSUME NEW h \in Handlers, Return(h)
      PROVE  Held'
  BY <1>0, <1>3 DEF Return
<1>4. ASSUME NEW h \in Handlers, NewStatement(h)
      PROVE  Held'
  BY <1>4 DEF NewStatement
<1>5. CASE ReapExpired
  <2>1. Reapable \in SUBSET sessions /\ Remove(Reapable, Reaper)
    BY <1>5, Zenon DEF ReapExpired, Reapable
  <2>2. UNCHANGED <<closing, detached, opening_total, opening_by_principal, phase, conn, holds,
                    locked>>
    BY <1>5, Zenon DEF ReapExpired
  <2> QED
    BY <1>0, <1>a, <2>1, <2>2, Zenon
<1>6. CASE BeginShutdown
  BY <1>6, Zenon DEF BeginShutdown
<1>7. CASE DetachAll
  BY <1>0, <1>7 DEF DetachAll, Remove
<1>8. ASSUME NEW t \in Threads, Drop(t)
      PROVE  Held'
  <2>1. PICK s \in drops[t] :
          /\ UNCHANGED conn \/ (Holders(s) = {} /\ conn' = [conn EXCEPT ![s] = "released"])
          /\ drops' = [drops EXCEPT ![t] = @ \ {s}] \/ drops' = drops
    BY <1>8, Zenon DEF Drop
  <2>2. UNCHANGED <<closing, detached, sessions, expired, opening_total, opening_by_principal,
                    phase, holds, locked>>
    BY <1>8, Zenon DEF Drop
  <2>3. s \in Attempts /\ s \notin sessions /\ phase[s] # "connected"
        /\ phase[s] \notin {"idle", "admitting", "reaped", "reserved"}
    BY Zenon DEF DroppedByOne
  <2>4. drops' \in [Threads -> SUBSET Attempts]
    BY <2>1
  <2>5. CASE UNCHANGED conn
    BY <2>2, <2>4, <2>5
  <2>6. CASE Holders(s) = {} /\ conn' = [conn EXCEPT ![s] = "released"]
    <3>1. \A h \in Handlers : holds[h] # s
      BY <2>6, Zenon DEF Holders
    <3> QED
      BY <2>2, <2>3, <2>4, <2>6, <3>1
  <2> QED
    BY <2>1, <2>5, <2>6, Zenon
<1>9. ASSUME NEW t \in Threads, DestructorReturns(t)
      PROVE  Held'
  BY <1>9 DEF DestructorReturns
<1>10. CASE UNCHANGED vars
  BY <1>10, Zenon DEF vars
<1> QED
  BY <1>1, <1>2, <1>3, <1>4, <1>5, <1>6, <1>7, <1>8, <1>9, <1>10, Zenon DEF HandlerStep

\* What a thread removes from the registry is dropped by it alone.
LEMMA RemoveDrops ==
  ASSUME ControlInv, Held', NEW t \in Threads, NEW S \in SUBSET sessions, Remove(S, t),
         \A s \in Attempts : phase[s] \in {"refused", "registered"} => phase'[s] = phase[s]
  PROVE  DroppedByOne'
<1>1. S \in SUBSET Attempts
  BY Zenon DEF ControlInv, Held, Typed
<1>2. drops' = [drops EXCEPT ![t] = @ \cup S] /\ sessions' = sessions \ S
  BY Zenon DEF Remove
<1>3. \A s \in Attempts : \A u \in Threads :
        s \in drops[u] => phase'[s] = phase[s] /\ s \notin sessions'
  BY <1>2, Zenon DEF ControlInv, DroppedByOne
<1>4. \A s \in S : /\ s \notin sessions'
                   /\ phase'[s] \in {"refused", "registered"}
                   /\ \A u \in Threads : s \notin drops[u]
  <2> SUFFICES ASSUME NEW s \in S
               PROVE  /\ s \notin sessions'
                      /\ phase'[s] \in {"refused", "registered"}
                      /\ \A u \in Threads : s \notin drops[u]
    BY Zenon
  <2>1. s \in sessions /\ s \in S /\ s \in Attempts
    BY <1>1, Zenon
  <2>2. phase[s] = "registered"
    BY <2>1, Zenon DEF ControlInv, Held, PhaseConn
  <2>3. \A u \in Threads : s \notin drops[u]
    BY <2>1, Zenon DEF ControlInv, DroppedByOne
  <2> QED
    BY <1>2, <2>1, <2>2, <2>3, Zenon
<1>5. Held /\ DroppedByOne
  BY Zenon DEF ControlInv
<1>6. drops' = [drops EXCEPT ![t] = @ \cup S]
  BY <1>2, Zenon
<1> QED
  BY <1>1, <1>3, <1>4, <1>5, <1>6, DropsGrow, ZenonT(30)

\* The steps of an open() call leave each session to one thread.
LEMMA AttemptDrops ==
  ASSUME ControlInv, NEW s \in Attempts, AttemptStep(s), Held'
  PROVE  DroppedByOne'
<1>0. s \in Threads
  BY Zenon DEF Threads
<1>1. CASE OpenReap(s)
  <2>1. Reapable \in SUBSET sessions
    BY Zenon DEF Reapable
  <2>2. phase' = [phase EXCEPT ![s] = "reaped"] /\ phase[s] = "admitting"
    BY <1>1, Zenon DEF OpenReap, Goto
  <2>3. \A a \in Attempts : phase[a] \in {"refused", "registered"} => phase'[a] = phase[a]
    BY <2>2, Zenon DEF ControlInv, Held, Typed
  <2> QED
    BY <1>0, <1>1, <2>1, <2>3, RemoveDrops, Zenon DEF OpenReap
<1>2. ASSUME phase[s] \notin {"refused", "registered"}, phase' = [phase EXCEPT ![s] = "refused"],
             UNCHANGED sessions, drops' = [drops EXCEPT ![s] = @ \cup {s}]
      PROVE  DroppedByOne'
  <2>1. \A u \in Threads : s \notin drops[u]
    BY <1>2, Zenon DEF ControlInv, DroppedByOne
  <2>2. s \notin sessions
    <3>1. phase[s] # "registered"
      BY <1>2, Zenon
    <3> QED
      BY <3>1, Zenon DEF ControlInv, Held, PhaseConn
  <2>3. phase'[s] = "refused" /\ \A a \in Attempts : a # s => phase'[a] = phase[a]
    BY <1>2, Zenon DEF ControlInv, Held, Typed
  <2>4. \A a \in Attempts : \A u \in Threads :
          a \in drops[u] => phase'[a] = phase[a] /\ a \notin sessions'
    BY <1>2, <2>1, <2>3, ZenonT(30) DEF ControlInv, DroppedByOne
  <2>5. \A a \in {s} : /\ a \notin sessions'
                       /\ phase'[a] \in {"refused", "registered"}
                       /\ \A u \in Threads : a \notin drops[u]
    BY <1>2, <2>1, <2>2, <2>3, Zenon
  <2>6. {s} \in SUBSET Attempts
    BY Zenon
  <2> QED
    BY <1>0, <1>2, <2>4, <2>5, <2>6, DropsGrow, Zenon DEF ControlInv
<1>3. ASSUME UNCHANGED drops,
             \/ phase' = phase
             \/ /\ phase[s] \notin {"refused", "registered"}
                /\ \E p : phase' = [phase EXCEPT ![s] = p],
             \/ sessions' = sessions
             \/ phase[s] \notin {"refused", "registered"} /\ sessions' = sessions \cup {s}
      PROVE  DroppedByOne'
  <2>1. ASSUME NEW u \in Threads, NEW a \in drops[u]
        PROVE  phase'[a] \in {"refused", "registered"} /\ a \notin sessions'
    <3>1. phase[a] \in {"refused", "registered"} /\ a \notin sessions /\ a \in Attempts
      BY Zenon DEF ControlInv, DroppedByOne, Held, Typed
    <3> QED
      BY <1>3, <3>1, Zenon DEF ControlInv, Held, Typed
  <2>2. \A u \in Threads : drops'[u] \subseteq drops[u]
    BY <1>3, Zenon
  <2> QED
    BY <2>1, <2>2, DropsShrink, Zenon DEF ControlInv
<1>4. CASE ReleaseFailed(s)
  <2>1. CASE conn[s] = "open"
    BY <1>2, <1>4, <2>1, Zenon DEF ReleaseFailed, Goto
  <2>2. CASE conn[s] # "open"
    <3>1. drops' = drops
      BY <1>4, <2>2, Zenon DEF ReleaseFailed, ControlInv, Held, Typed
    <3> QED
      BY <1>3, <1>4, <3>1, Zenon DEF ReleaseFailed, Goto
  <2> QED
    BY <2>1, <2>2, Zenon
<1>5. CASE Register(s)
  BY <1>2, <1>3, <1>5, Zenon DEF Register, Goto
<1>6. CASE \/ OpenBegin(s) \/ ReserveOpen(s) \/ SpawnOpener(s) \/ OpenReceives(s)
           \/ OpenTimesOut(s)
  BY <1>3, <1>6, Zenon DEF OpenBegin, ReserveOpen, SpawnOpener, OpenReceives, OpenTimesOut, Goto
<1>7. CASE \/ BackendOpenReturns(s) \/ DropUnclaimed(s) \/ LeaseElapses(s)
           \/ NewStatementReturns(s)
  BY <1>3, <1>7, Zenon DEF BackendOpenReturns, DropUnclaimed, LeaseElapses, NewStatementReturns
<1> QED
  BY <1>1, <1>4, <1>5, <1>6, <1>7, Zenon DEF AttemptStep, OpenStep

\* Handlers, the reaper, shutdown and the drops themselves do.
LEMMA OtherDrops ==
  ASSUME ControlInv, Held',
         \/ \E h \in Handlers : HandlerStep(h)
         \/ \E t \in Threads : Drop(t) \/ DestructorReturns(t)
         \/ ReapExpired
         \/ BeginShutdown
         \/ DetachAll
         \/ UNCHANGED vars
  PROVE  DroppedByOne'
<1>0. Reaper \in Threads /\ Main \in Threads /\ Handlers \subseteq Threads
  BY Zenon DEF Threads
<1>1. ASSUME UNCHANGED <<sessions, phase>>,
             \A t \in Threads : drops'[t] \subseteq drops[t]
      PROVE  DroppedByOne'
  BY <1>1, DropsShrink, Zenon DEF ControlInv, DroppedByOne
<1>2. ASSUME NEW h \in Handlers, NEW s \in Attempts, Get(h, s)
      PROVE  DroppedByOne'
  <2>1. CASE s \in Reapable
    <3>1. Remove({s}, h) /\ UNCHANGED phase /\ {s} \in SUBSET sessions
      BY <1>2, <2>1, Zenon DEF Get
    <3> QED
      BY <1>0, <3>1, RemoveDrops, Zenon
  <2>2. CASE s \notin Reapable
    BY <1>1, <1>2, <2>2, Zenon DEF Get
  <2> QED
    BY <2>1, <2>2, Zenon
<1>3. ASSUME NEW h \in Handlers, NEW s \in Attempts, Close(h, s)
      PROVE  DroppedByOne'
  <2>1. Remove({s}, h) /\ UNCHANGED phase /\ {s} \in SUBSET sessions
    BY <1>3, Zenon DEF Close
  <2> QED
    BY <1>0, <2>1, RemoveDrops, Zenon
<1>4. ASSUME NEW h \in Handlers, Return(h)
      PROVE  DroppedByOne'
  <2> DEFINE s == holds[h]
  <2>1. /\ s # NoSession
        /\ UNCHANGED <<sessions, phase>>
        /\ drops' = [drops EXCEPT ![h] = IF OnlyOf(h) THEN @ \cup {s} ELSE @]
    BY <1>4, Zenon DEF Return
  <2>2. s \in Attempts /\ phase[s] = "registered"
    BY <2>1, Zenon DEF ControlInv, Held, Typed, PhaseConn
  <2>3. \A a \in Attempts : \A u \in Threads :
          a \in drops[u] => phase'[a] = phase[a] /\ a \notin sessions'
    BY <2>1, Zenon DEF ControlInv, DroppedByOne
  <2>4. CASE OnlyOf(h)
    <3>1. drops' = [drops EXCEPT ![h] = @ \cup {s}]
      BY <2>1, <2>4, Zenon
    <3>2. s \notin sessions /\ \A u \in Threads : s \notin drops[u]
      BY <2>4, Zenon DEF OnlyOf
    <3>3. \A a \in {s} : /\ a \notin sessions'
                         /\ phase'[a] \in {"refused", "registered"}
                         /\ \A u \in Threads : a \notin drops[u]
      BY <2>1, <2>2, <3>2, Zenon
    <3>4. {s} \in SUBSET Attempts /\ h \in Threads
      BY <1>0, <2>2, Zenon
    <3> HIDE DEF s
    <3> QED
      BY <2>3, <3>1, <3>3, <3>4, DropsGrow, Zenon DEF ControlInv
  <2>5. CASE ~OnlyOf(h)
    <3>1. drops' = drops
      BY <2>1, <2>5, Zenon DEF ControlInv, Held, Typed
    <3>2. \A t \in Threads : drops'[t] \subseteq drops[t]
      BY <3>1, Zenon
    <3> QED
      BY <1>1, <2>1, <3>2, Zenon
  <2> QED
    BY <2>4, <2>5, Zenon
<1>5. ASSUME NEW h \in Handlers, NewStatement(h)
      PROVE  DroppedByOne'
  BY <1>1, <1>5, Zenon DEF NewStatement
<1>6. CASE ReapExpired
  <2>1. Reapable \in SUBSET sessions
    BY Zenon DEF Reapable
  <2> QED
    BY <1>0, <1>6, <2>1, RemoveDrops, Zenon DEF ReapExpired
<1>7. CASE BeginShutdown
  BY <1>1, <1>7, Zenon DEF BeginShutdown
<1>8. CASE DetachAll
  <2>1. sessions \in SUBSET sessions
    BY Zenon
  <2> QED
    BY <1>0, <1>8, <2>1, RemoveDrops, Zenon DEF DetachAll
<1>9. ASSUME NEW t \in Threads, Drop(t) \/ DestructorReturns(t)
      PROVE  DroppedByOne'
  <2>1. UNCHANGED <<sessions, phase>>
    BY <1>9, Zenon DEF Drop, DestructorReturns
  <2>2. drops' = drops \/ \E s \in drops[t] : drops' = [drops EXCEPT ![t] = @ \ {s}]
    BY <1>9, Zenon DEF Drop, DestructorReturns
  <2>3. \A u \in Threads : drops'[u] \subseteq drops[u]
    BY <2>2, Zenon DEF ControlInv, Held, Typed
  <2> QED
    BY <1>1, <2>1, <2>3, Zenon
<1>10. CASE UNCHANGED vars
  BY <1>1, <1>10, Zenon DEF vars
<1> QED
  BY <1>2, <1>3, <1>4, <1>5, <1>6, <1>7, <1>8, <1>9, <1>10, Zenon DEF HandlerStep

\* Every step preserves the control half.
LEMMA NextControl == ControlInv /\ [Next]_vars => ControlInv'
<1> SUFFICES ASSUME ControlInv, [Next]_vars PROVE ControlInv'
  BY Zenon
<1>1. Held'
  BY AttemptHeld, OtherHeld, Zenon DEF Next
<1>2. DroppedByOne'
  BY <1>1, AttemptDrops, OtherDrops, Zenon DEF Next
<1> QED
  BY <1>1, <1>2, Zenon DEF ControlInv

\* The control half is an invariant.
LEMMA Control == Spec => []ControlInv
BY InitControl, NextControl, PTL DEF Spec

--------------------------------------------------------------------------------
\* The counting half holds initially.
LEMMA InitCounting == Init => CountingInv
<1> SUFFICES ASSUME Init PROVE CountingInv
  BY Zenon
<1>1. Reserved = {} /\ sessions = {}
  BY Zenon DEF Init, Reserved, Reserving
<1>2. \A p \in Principals : ReservedBy(p) = {} /\ SessionsOf(p) = {}
  BY <1>1, Zenon DEF ReservedBy, SessionsOf
<1>3. IsFiniteSet({}) /\ Cardinality({}) = 0
  BY FS_EmptySet, Zenon
<1>4. ReservationsExact
  BY <1>1, <1>2, <1>3, Zenon DEF ReservationsExact, Init
<1>5. QuotaRespected
  <2>1. 0 + 0 <= MaxSessions /\ 0 + 0 <= MaxPerPrincipal
    BY RegistryAssumption
  <2> QED
    BY <1>1, <1>2, <1>3, <2>1, Zenon DEF QuotaRespected
<1> QED
  BY <1>1, <1>2, <1>3, <1>4, <1>5, Zenon DEF CountingInv

\* Sets that CountingInv counts are finite, and so have cardinalities in Nat.
LEMMA CountedAreFinite ==
  ASSUME CountingInv
  PROVE  /\ Cardinality(sessions) \in Nat
         /\ Cardinality(Reserved) \in Nat
         /\ \A p \in Principals :
              /\ IsFiniteSet(SessionsOf(p)) /\ Cardinality(SessionsOf(p)) \in Nat
              /\ IsFiniteSet(ReservedBy(p)) /\ Cardinality(ReservedBy(p)) \in Nat
<1>1. \A p \in Principals : SessionsOf(p) \in SUBSET sessions
                         /\ ReservedBy(p) \in SUBSET Reserved
  BY Zenon DEF SessionsOf, ReservedBy
<1>2. \A p \in Principals : IsFiniteSet(SessionsOf(p)) /\ IsFiniteSet(ReservedBy(p))
  BY <1>1, FS_Subset, Zenon DEF CountingInv
<1> QED
  BY <1>2, FS_CardinalityType, Zenon DEF CountingInv

\* A step that neither makes nor ends a reservation, and adds no session.
LEMMA CountingFrame ==
  ASSUME CountingInv, sessions' \subseteq sessions, Reserved' = Reserved,
         UNCHANGED counters
  PROVE  CountingInv'
<1>1. \A p \in Principals : ReservedBy(p)' = ReservedBy(p)
  BY Zenon DEF ReservedBy
<1>2. \A p \in Principals : SessionsOf(p)' \in SUBSET SessionsOf(p)
  BY Zenon DEF SessionsOf
<1>3. IsFiniteSet(sessions') /\ Cardinality(sessions') <= Cardinality(sessions)
  BY FS_Subset, Zenon DEF CountingInv
<1>4. \A p \in Principals :
        /\ IsFiniteSet(SessionsOf(p)')
        /\ Cardinality(SessionsOf(p)') <= Cardinality(SessionsOf(p))
  BY <1>2, CountedAreFinite, FS_Subset, Zenon
<1>5. Cardinality(sessions') \in Nat
      /\ \A p \in Principals : Cardinality(SessionsOf(p)') \in Nat
  BY <1>3, <1>4, FS_CardinalityType, Zenon
<1>6. ReservationsExact'
  BY <1>1, Zenon DEF CountingInv, ReservationsExact, counters
<1>7. QuotaRespected'
  BY <1>1, <1>3, <1>4, <1>5, CountedAreFinite, RegistryAssumption
     DEF CountingInv, QuotaRespected
<1> QED
  BY <1>3, <1>6, <1>7, Zenon DEF CountingInv

\* reserve_open() admits: one more reservation, of an attempt that had none.
LEMMA CountingReserve ==
  ASSUME CountingInv, Typed, NEW s \in Attempts, ReserveOpen(s), Admissible(s)
  PROVE  CountingInv'
<1> DEFINE c == Caller[s]
<1>1. /\ phase[s] = "reaped"
      /\ phase' = [phase EXCEPT ![s] = "reserved"]
      /\ opening_total' = opening_total + 1
      /\ opening_by_principal' = [opening_by_principal EXCEPT ![c] = @ + 1]
      /\ UNCHANGED sessions
  BY Zenon DEF ReserveOpen, Goto
<1>2. c \in Principals
  BY RegistryAssumption, Zenon
<1>3. s \notin Reserved /\ Reserved' = Reserved \cup {s}
  BY <1>1, Zenon DEF Reserved, Reserving, Typed
<1>4. \A p \in Principals :
        ReservedBy(p)' = IF p = c THEN ReservedBy(p) \cup {s} ELSE ReservedBy(p)
  BY <1>3, Zenon DEF ReservedBy
<1>5. \A p \in Principals : s \notin ReservedBy(p) /\ SessionsOf(p)' = SessionsOf(p)
  BY <1>1, <1>3, Zenon DEF ReservedBy, SessionsOf
<1>6. IsFiniteSet(Reserved') /\ Cardinality(Reserved') = Cardinality(Reserved) + 1
  BY <1>3, FS_AddElement, Zenon DEF CountingInv
<1>7. \A p \in Principals :
        Cardinality(ReservedBy(p)') =
          IF p = c THEN Cardinality(ReservedBy(p)) + 1 ELSE Cardinality(ReservedBy(p))
  BY <1>4, <1>5, CountedAreFinite, FS_AddElement
<1>8. ReservationsExact'
  BY <1>1, <1>6, <1>7, Zenon DEF CountingInv, ReservationsExact, Typed
<1>9. QuotaRespected'
  <2>1. /\ Cardinality(sessions) + Cardinality(Reserved) < MaxSessions
        /\ Cardinality(SessionsOf(c)) + Cardinality(ReservedBy(c)) < MaxPerPrincipal
    BY <1>2, Zenon DEF Admissible, CountingInv, ReservationsExact
  <2>2. Cardinality(sessions') + Cardinality(Reserved') <= MaxSessions
    BY <1>1, <1>6, <2>1, CountedAreFinite, RegistryAssumption
  <2>3. ASSUME NEW p \in Principals
        PROVE  Cardinality(SessionsOf(p)') + Cardinality(ReservedBy(p)') <= MaxPerPrincipal
    BY <1>2, <1>5, <1>7, <2>1, CountedAreFinite, RegistryAssumption
       DEF CountingInv, QuotaRespected
  <2> QED
    BY <2>2, <2>3, Zenon DEF QuotaRespected
<1> QED
  BY <1>1, <1>6, <1>8, <1>9, Zenon DEF CountingInv

\* A reservation ends: the attempt leaves Reserved, both counters go down by
\* one, and the registry gains at most that attempt.
LEMMA CountingRelease ==
  ASSUME CountingInv, ControlInv, NEW s \in Attempts, s \in Reserved,
         NEW next \in Phase \ Reserving, Goto(s, next), Release(s),
         sessions' = sessions \/ sessions' = sessions \cup {s}
  PROVE  CountingInv'
<1> DEFINE c == Caller[s]
<1>1. c \in Principals
  BY RegistryAssumption, Zenon
<1>2. Reserved' = Reserved \ {s} /\ s \notin sessions
  BY Zenon DEF Reserved, Reserving, Typed, Goto, ControlInv, Held, PhaseConn
<1>3. \A p \in Principals :
        ReservedBy(p)' = IF p = c THEN ReservedBy(p) \ {s} ELSE ReservedBy(p)
  BY <1>2, Zenon DEF ReservedBy
<1>4. s \in ReservedBy(c)
  BY Zenon DEF ReservedBy
<1>5. IsFiniteSet(Reserved') /\ Cardinality(Reserved') = Cardinality(Reserved) - 1
  BY <1>2, FS_RemoveElement, Zenon DEF CountingInv
<1>6. \A p \in Principals :
        Cardinality(ReservedBy(p)') =
          IF p = c THEN Cardinality(ReservedBy(p)) - 1 ELSE Cardinality(ReservedBy(p))
  BY <1>1, <1>3, <1>4, CountedAreFinite, FS_RemoveElement, Zenon
<1>7. Cardinality(Reserved) # 0 /\ Cardinality(ReservedBy(c)) # 0
  BY <1>1, <1>4, CountedAreFinite, FS_EmptySet, Zenon DEF CountingInv
<1>8. ReservationsExact'
  <2>1. opening_total' = Cardinality(Reserved')
    BY <1>5, <1>7, Zenon DEF CountingInv, ReservationsExact, Release, SaturatingDec
  <2>2. ASSUME NEW p \in Principals
        PROVE  opening_by_principal'[p] = Cardinality(ReservedBy(p)')
    BY <1>6, <1>7, Zenon DEF CountingInv, ReservationsExact, Release, SaturatingDec, ControlInv,
       Held, Typed
  <2> QED
    BY <2>1, <2>2, Zenon DEF ReservationsExact
<1>9. IsFiniteSet(sessions') /\ Cardinality(sessions') <= Cardinality(sessions) + 1
      /\ Cardinality(sessions') \in Nat
  <2>1. IsFiniteSet(sessions \cup {s})
        /\ Cardinality(sessions \cup {s}) = Cardinality(sessions) + 1
    BY <1>2, FS_AddElement, Zenon DEF CountingInv
  <2>2. CASE sessions' = sessions
    BY <2>2, CountedAreFinite DEF CountingInv
  <2>3. CASE sessions' = sessions \cup {s}
    BY <2>1, <2>3, CountedAreFinite DEF CountingInv
  <2> QED
    BY <2>2, <2>3, Zenon
<1>10. ASSUME NEW p \in Principals
       PROVE  Cardinality(SessionsOf(p)') \in Nat
              /\ Cardinality(SessionsOf(p)') <=
                   IF p = c THEN Cardinality(SessionsOf(p)) + 1 ELSE Cardinality(SessionsOf(p))
  <2>1. SessionsOf(p)' = SessionsOf(p) \/ (p = c /\ SessionsOf(p)' = SessionsOf(p) \cup {s})
    BY Zenon DEF SessionsOf
  <2>2. Cardinality(SessionsOf(p) \cup {s}) = Cardinality(SessionsOf(p)) + 1
    <3>1. s \notin SessionsOf(p) /\ IsFiniteSet(SessionsOf(p))
      BY <1>2, CountedAreFinite, Zenon DEF SessionsOf
    <3> QED
      BY <3>1, FS_AddElement, Zenon
  <2>3. CASE SessionsOf(p)' = SessionsOf(p)
    BY <2>3, CountedAreFinite
  <2>4. CASE p = c /\ SessionsOf(p)' = SessionsOf(p) \cup {s}
    BY <2>2, <2>4, CountedAreFinite
  <2> QED
    BY <2>1, <2>3, <2>4, Zenon
<1>11. QuotaRespected'
  <2>1. Cardinality(sessions') + Cardinality(Reserved') <= MaxSessions
    BY <1>5, <1>9, CountedAreFinite, RegistryAssumption DEF CountingInv, QuotaRespected
  <2>2. ASSUME NEW p \in Principals
        PROVE  Cardinality(SessionsOf(p)') + Cardinality(ReservedBy(p)') <= MaxPerPrincipal
    BY <1>6, <1>10, CountedAreFinite, RegistryAssumption DEF CountingInv, QuotaRespected
  <2> QED
    BY <2>1, <2>2, Zenon DEF QuotaRespected
<1> QED
  BY <1>5, <1>8, <1>9, <1>11, Zenon DEF CountingInv

\* Every step preserves the counting half.
LEMMA NextCounting == ControlInv /\ CountingInv /\ [Next]_vars => CountingInv'
<1> SUFFICES ASSUME ControlInv, CountingInv, [Next]_vars
             PROVE  CountingInv'
  BY Zenon
<1> USE DEF ControlInv, Held, Typed
<1>1. ASSUME NEW s \in Attempts, AttemptStep(s)
      PROVE  CountingInv'
  <2> DEFINE Frame == sessions' \subseteq sessions /\ Reserved' = Reserved /\ UNCHANGED counters
  <2>1. CASE ReserveOpen(s) /\ Admissible(s)
    BY <2>1, CountingReserve, Zenon
  <2>2. CASE ReleaseFailed(s)
    <3>1. s \in Reserved
      BY <2>2, Zenon DEF ReleaseFailed, Reserved, Reserving
    <3>2. "refused" \in Phase \ Reserving
      BY Zenon DEF Phase, Reserving
    <3>3. Goto(s, "refused") /\ Release(s) /\ sessions' = sessions
      BY <2>2, Zenon DEF ReleaseFailed
    <3> QED
      BY <3>1, <3>2, <3>3, CountingRelease, Zenon
  <2>3. CASE Register(s)
    <3>1. s \in Reserved /\ Release(s)
      BY <2>3, Zenon DEF Register, Reserved, Reserving
    <3>2. {"refused", "registered"} \subseteq Phase \ Reserving
      BY Zenon DEF Phase, Reserving
    <3>3. \/ Goto(s, "refused") /\ sessions' = sessions
          \/ Goto(s, "registered") /\ sessions' = sessions \cup {s}
      BY <2>3, Zenon DEF Register
    <3> QED
      BY <3>1, <3>2, <3>3, CountingRelease, Zenon
  <2>4. CASE ReserveOpen(s) /\ ~Admissible(s)
    <3>1. Frame
      BY <2>4, Zenon DEF ReserveOpen, Goto, Reserved, Reserving
    <3> QED
      BY <3>1, CountingFrame, Zenon
  <2>5. CASE OpenBegin(s) \/ OpenReap(s) \/ SpawnOpener(s) \/ OpenReceives(s) \/ OpenTimesOut(s)
    <3>1. Frame
      BY <2>5, Zenon DEF OpenBegin, OpenReap, Remove, SpawnOpener, OpenReceives, OpenTimesOut,
         Goto, Reserved, Reserving
    <3> QED
      BY <3>1, CountingFrame, Zenon
  <2>6. CASE BackendOpenReturns(s) \/ DropUnclaimed(s) \/ LeaseElapses(s)
             \/ NewStatementReturns(s)
    <3>1. Frame
      BY <2>6, Zenon DEF BackendOpenReturns, DropUnclaimed, LeaseElapses,
         NewStatementReturns, Reserved
    <3> QED
      BY <3>1, CountingFrame, Zenon
  <2> QED
    BY <1>1, <2>1, <2>2, <2>3, <2>4, <2>5, <2>6, Zenon DEF AttemptStep, OpenStep
<1>2. ASSUME \/ \E h \in Handlers : HandlerStep(h)
             \/ \E t \in Threads : Drop(t) \/ DestructorReturns(t)
             \/ ReapExpired
             \/ BeginShutdown
             \/ DetachAll
             \/ UNCHANGED vars
      PROVE  CountingInv'
  <2>1. sessions' \subseteq sessions /\ Reserved' = Reserved /\ UNCHANGED counters
    BY <1>2, Zenon DEF HandlerStep, Get, Close, Return, NewStatement, Drop, DestructorReturns,
       ReapExpired, BeginShutdown, DetachAll, Remove, Reserved, vars, counters
  <2> QED
    BY <2>1, CountingFrame, Zenon
<1> QED
  BY <1>1, <1>2, Zenon DEF Next

\* The counting half is an invariant.
LEMMA Counting == Spec => []CountingInv
BY InitCounting, NextCounting, Control, PTL DEF Spec

--------------------------------------------------------------------------------
\* Type correctness of the registry; the reservation counters of
\* reserve_open() stay within both quotas.
THEOREM TypeCorrect == Spec => []TypeOK
<1>1. ControlInv /\ CountingInv => TypeOK
  <2> SUFFICES ASSUME ControlInv, CountingInv PROVE TypeOK
    BY Zenon
  <2>1. opening_total \in 0..MaxSessions
    BY CountedAreFinite, RegistryAssumption
       DEF CountingInv, ReservationsExact, QuotaRespected
  <2>2. \A p \in Principals : opening_by_principal[p] \in 0..MaxPerPrincipal
    BY CountedAreFinite, RegistryAssumption
       DEF CountingInv, ReservationsExact, QuotaRespected
  <2> QED
    BY <2>1, <2>2, Zenon DEF TypeOK, ControlInv, Held, Typed
<1> QED
  BY <1>1, Control, Counting, PTL

\* The admission counters count exactly the open() calls in progress, in every
\* interleaving of opens, failures, deadlines and shutdown.
THEOREM ReservationsAreExact == Spec => []ReservationsExact
<1>1. CountingInv => ReservationsExact
  BY Zenon DEF CountingInv
<1> QED
  BY <1>1, Counting, PTL

\* Sessions and reservations never exceed max_sessions or
\* max_sessions_per_principal.
THEOREM QuotasHold == Spec => []QuotaRespected
<1>1. CountingInv => QuotaRespected
  BY Zenon DEF CountingInv
<1> QED
  BY <1>1, Counting, PTL

\* After close_all() has taken the registry, no late open() repopulates it.
THEOREM ShutdownTerminal == Spec => []ShutdownIsTerminal
<1>1. ControlInv => ShutdownIsTerminal
  BY Zenon DEF ControlInv, Held
<1> QED
  BY <1>1, Control, PTL

\* Registered or held sessions have a live downstream connection.
THEOREM ConnectionsUsable == Spec => []UsableConnections
<1>1. ControlInv => UsableConnections
  BY Zenon DEF ControlInv, Held
<1> QED
  BY <1>1, Control, PTL

\* A session is dropped once: what a thread has taken out of the registry, or has let
\* go of last, to drop it no other thread has to drop, and no request finds.  That no
\* handler uses it when it is dropped is the theorem before.
THEOREM SessionsDroppedOnce == Spec => []DroppedByOne
<1>1. ControlInv => DroppedByOne
  BY Zenon DEF ControlInv
<1> QED
  BY <1>1, Control, PTL

\* The reaper, the reap inside reserve_open() and the lease check of get()
\* never remove a session in use.
THEOREM InFlightIsKept == Spec => InFlightKept
<1>1. ControlInv /\ [Next]_vars =>
        [\A s \in sessions \ sessions' :
           Holders(s) # {} => DetachAll \/ \E h \in Handlers : Close(h, s)]_vars
  <2> SUFFICES ASSUME ControlInv, Next, NEW s \in sessions \ sessions', Holders(s) # {},
                      ~DetachAll, ~ \E h \in Handlers : Close(h, s)
               PROVE  FALSE
    BY Zenon
  <2>1. ASSUME NEW t \in Attempts, AttemptStep(t)
        PROVE  FALSE
    BY <2>1, Zenon DEF AttemptStep, OpenStep, OpenBegin, OpenReap, ReserveOpen, SpawnOpener,
       OpenReceives, OpenTimesOut, ReleaseFailed, Register, BackendOpenReturns, DropUnclaimed,
       LeaseElapses, NewStatementReturns, Remove, Reapable
  <2>2. ASSUME NEW h \in Handlers, HandlerStep(h)
        PROVE  FALSE
    BY <2>2, Zenon DEF HandlerStep, Get, Close, Return, NewStatement, Remove, Reapable
  <2>3. CASE ReapExpired \/ BeginShutdown \/ \E t \in Threads : Drop(t) \/ DestructorReturns(t)
    BY <2>3, Zenon DEF ReapExpired, BeginShutdown, Drop, DestructorReturns, Remove, Reapable
  <2> QED
    BY <2>1, <2>2, <2>3, Zenon DEF Next
<1> QED
  BY <1>1, Control, PTL DEF Spec, InFlightKept

================================================================================

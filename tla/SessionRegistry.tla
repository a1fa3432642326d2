---------------------------- MODULE SessionRegistry ----------------------------
(***************************************************************************)
(* The SessionManager of crates/grainlift-server/src/session.rs: the       *)
(* registry of downstream sessions behind its mutex, the admission quotas, *)
(* the idle lease, and shutdown.                                           *)
(*                                                                         *)
(* Every registry.lock() section of the code is one step here.  open() is  *)
(* several: it checks the shutdown flag, reaps, reserves quota, waits for  *)
(* the "grainlift-open" thread with a deadline, and takes the lock again   *)
(* to turn the reservation into a session or to give it back.              *)
(*                                                                         *)
(* The thread that lets go of a session last, an opener that reaps, the    *)
(* reaper, a handler or main(), runs Session::drop.  It waits there for    *)
(* the lock of the session's statements, which the session's worker keeps  *)
(* for as long as the driver's new_statement() takes.                      *)
(***************************************************************************)
EXTENDS Naturals, FiniteSets

CONSTANTS
  Attempts,         \* calls of open(); a session bears the name of its attempt
  Handlers,         \* request threads that use a session through get()
  Principals,       \* authenticated identities
  Caller,           \* the principal of each attempt and of each handler
  Authorized,       \* principals the TargetAuthorizer lets open the target
  MaxSessions,      \* SessionLimits::max_sessions
  MaxPerPrincipal,  \* SessionLimits::max_sessions_per_principal
  Reaper,           \* the background task of main() that reaps
  Main,             \* main() itself, which calls close_all()
  NoSession         \* a handler that holds no session

\* SessionLimits::validate, and the shape of the environment.
ASSUME RegistryAssumption ==
  /\ MaxSessions \in Nat \ {0}
  /\ MaxPerPrincipal \in 1..MaxSessions
  /\ Caller \in [Attempts \cup Handlers -> Principals]
  /\ Authorized \subseteq Principals
  /\ NoSession \notin Attempts

VARIABLES
  closing,              \* SessionManager::closing
  detached,             \* close_all() has taken the registry
  sessions,             \* the keys of SessionRegistry::sessions
  expired,              \* sessions whose last_used.elapsed() exceeds the ttl
  opening_total,        \* SessionRegistry::opening_total
  opening_by_principal, \* SessionRegistry::opening_by_principal, 0 for no entry
  phase,                \* how far each call of open() has come
  conn,                 \* the downstream connection of each attempt
  holds,                \* the session each handler has an Arc of
  locked,               \* sessions whose worker is in the driver's new_statement()
  drops                 \* the sessions each thread has yet to drop its Arc of

vars == <<closing, detached, sessions, expired, opening_total,
          opening_by_principal, phase, conn, holds, locked, drops>>

counters == <<opening_total, opening_by_principal>>

Threads == Attempts \cup Handlers \cup {Reaper, Main}

--------------------------------------------------------------------------------
\* Phases of open() between reserve_open() and the release of the reservation.
Reserving == {"reserved", "waiting", "connected", "failing"}

Phase == {"idle", "admitting", "reaped", "refused", "registered"} \cup Reserving

\* backend.open() is not running, running, has failed, has delivered a live
\* connection, or the server has let go of that connection: the driver's cancel
\* and destructor run, and may never return.
ConnState == {"none", "opening", "failed", "open", "released"}

Reserved == {s \in Attempts : phase[s] \in Reserving}
ReservedBy(p) == {s \in Reserved : Caller[s] = p}
SessionsOf(p) == {s \in sessions : Caller[s] = p}

\* Arc::strong_count(session) - 1 for a session of the registry is the number
\* of handlers that hold it.
Holders(s) == {h \in Handlers : holds[h] = s}

\* A thread is kept by the drop of a session no handler has: its worker has the lock,
\* or the driver's destructor runs on this thread.
Blocked(t) ==
  \E s \in drops[t] : (s \in locked /\ Holders(s) = {}) \/ conn[s] = "released"

Goto(s, next) == phase' = [phase EXCEPT ![s] = next]

--------------------------------------------------------------------------------
Init ==
  /\ closing = FALSE
  /\ detached = FALSE
  /\ sessions = {}
  /\ expired = {}
  /\ opening_total = 0
  /\ opening_by_principal = [p \in Principals |-> 0]
  /\ phase = [s \in Attempts |-> "idle"]
  /\ conn = [s \in Attempts |-> "none"]
  /\ holds = [h \in Handlers |-> NoSession]
  /\ locked = {}
  /\ drops = [t \in Threads |-> {}]

\* Entries leave the registry; after the lock the thread drops their Arcs.
Remove(S, t) ==
  /\ sessions' = sessions \ S
  /\ expired' = expired \ S
  /\ drops' = [drops EXCEPT ![t] = @ \cup S]

\* Variant: the reaper looks at the lease alone.
ReapableInFlight == sessions \cap expired

\* Variant: the scan stops, rather than continues, at a session in use.
ReapableStopsAtUse ==
  IF \E s \in sessions : Holders(s) # {} THEN {} ELSE sessions \cap expired

\* The leases reap_expired() collects: elapsed, and no handler has the session.
Reapable == {s \in sessions \cap expired : Holders(s) = {}}

SaturatingDec(n) == IF n = 0 THEN 0 ELSE n - 1

\* Variant: the per-principal count is not given back.
ReleaseTotalOnly(s) ==
  /\ opening_total' = SaturatingDec(opening_total)
  /\ UNCHANGED opening_by_principal

\* release_open_reservation_locked()
Release(s) ==
  /\ opening_total' = SaturatingDec(opening_total)
  /\ opening_by_principal' =
       [opening_by_principal EXCEPT ![Caller[s]] = SaturatingDec(@)]

--------------------------------------------------------------------------------
\* open(): authorization and target lookup, then the first look at the
\* shutdown flag in reserve_open(), which is made without the lock.
OpenBegin(s) ==
  /\ phase[s] = "idle"
  /\ Goto(s, IF Caller[s] \in Authorized /\ ~closing THEN "admitting" ELSE "refused")
  /\ UNCHANGED <<closing, detached, sessions, expired, counters, conn, holds, locked, drops>>

\* reserve_open(): dead leases are reaped, and dropped, before admission.
OpenReap(s) ==
  /\ phase[s] = "admitting"
  /\ Goto(s, "reaped")
  /\ Remove(Reapable, s)
  /\ UNCHANGED <<closing, detached, counters, conn, holds, locked>>

\* Variant: only registered sessions count.
AdmissibleIgnoringOpens(s) ==
  /\ ~closing
  /\ Cardinality(sessions) < MaxSessions
  /\ Cardinality(SessionsOf(Caller[s])) < MaxPerPrincipal

\* reserve_open(): the shutdown flag again and both quotas, under the lock.
Admissible(s) ==
  /\ ~closing
  /\ Cardinality(sessions) + opening_total < MaxSessions
  /\ Cardinality(SessionsOf(Caller[s])) + opening_by_principal[Caller[s]]
       < MaxPerPrincipal

ReserveOpen(s) ==
  /\ phase[s] = "reaped"
  /\ drops[s] = {}
  /\ IF Admissible(s)
       THEN /\ Goto(s, "reserved")
            /\ opening_total' = opening_total + 1
            /\ opening_by_principal' = [opening_by_principal EXCEPT ![Caller[s]] = @ + 1]
       ELSE /\ Goto(s, "refused")
            /\ UNCHANGED counters
  /\ UNCHANGED <<closing, detached, sessions, expired, conn, holds, locked, drops>>

\* open() spawns the "grainlift-open" thread, or fails to.
SpawnOpener(s) ==
  /\ phase[s] = "reserved"
  /\ \/ Goto(s, "waiting") /\ conn' = [conn EXCEPT ![s] = "opening"]
     \/ Goto(s, "failing") /\ UNCHANGED conn
  /\ UNCHANGED <<closing, detached, sessions, expired, counters, holds, locked, drops>>

\* The opener thread: backend.open() returns a connection, or an error, or
\* panics.  It does so at any time, the deadline of open() notwithstanding.
BackendOpenReturns(s) ==
  /\ conn[s] = "opening"
  /\ \E outcome \in {"open", "failed"} : conn' = [conn EXCEPT ![s] = outcome]
  /\ UNCHANGED <<closing, detached, sessions, expired, counters, phase, holds, locked, drops>>

\* open() receives the reply in time and starts the session worker; a
\* downstream error or a worker thread that cannot be spawned ends the attempt.
OpenReceives(s) ==
  /\ phase[s] = "waiting"
  /\ \/ conn[s] = "open" /\ Goto(s, "connected")
     \/ conn[s] \in {"open", "failed"} /\ Goto(s, "failing")
  /\ UNCHANGED <<closing, detached, sessions, expired, counters, conn, holds, locked, drops>>

\* Variant: recv() in place of recv_timeout().
OpenWaitsForever(s) == FALSE /\ s \in Attempts /\ UNCHANGED vars

\* recv_timeout(operation_timeout) expires: the opener thread is left running.
OpenTimesOut(s) ==
  /\ phase[s] = "waiting"
  /\ conn[s] = "opening"
  /\ Goto(s, "failing")
  /\ UNCHANGED <<closing, detached, sessions, expired, counters, conn, holds, locked, drops>>

\* open() gives the reservation back on every error path.  A connection whose
\* worker did not start goes to a thread that drops it; one that is still in the
\* channel, for it came just after the deadline, open() drops itself.
ReleaseFailed(s) ==
  /\ phase[s] = "failing"
  /\ Goto(s, "refused")
  /\ Release(s)
  /\ drops' = [drops EXCEPT ![s] = IF conn[s] = "open" THEN @ \cup {s} ELSE @]
  /\ UNCHANGED <<closing, detached, sessions, expired, conn, holds, locked>>

\* Variant: the shutdown flag is not looked at again.
RegisterUnchecked(s) ==
  /\ phase[s] = "connected"
  /\ Release(s)
  /\ Goto(s, "registered")
  /\ sessions' = sessions \cup {s}
  /\ UNCHANGED <<closing, detached, expired, conn, holds, locked, drops>>

\* open(): one lock section releases the reservation, looks at the shutdown
\* flag, and inserts the session with a fresh lease or drops it.
Register(s) ==
  /\ phase[s] = "connected"
  /\ Release(s)
  /\ IF closing
       THEN /\ Goto(s, "refused")
            /\ drops' = [drops EXCEPT ![s] = @ \cup {s}]
            /\ UNCHANGED sessions
       ELSE /\ Goto(s, "registered")
            /\ sessions' = sessions \cup {s}
            /\ UNCHANGED drops
  /\ UNCHANGED <<closing, detached, expired, conn, holds, locked>>

\* Variant: only a shutdown drops the connection of a refused attempt.
DropUnclaimedAtShutdown(s) ==
  /\ closing
  /\ phase[s] = "refused"
  /\ conn[s] = "open"
  /\ s \notin drops[s]
  /\ conn' = [conn EXCEPT ![s] = "released"]
  /\ UNCHANGED <<closing, detached, sessions, expired, counters, phase, holds, locked, drops>>

\* A connection that comes after open() has returned: the opener thread cannot
\* deliver it, and drops it.
DropUnclaimed(s) ==
  /\ phase[s] = "refused"
  /\ conn[s] = "open"
  /\ s \notin drops[s]
  /\ conn' = [conn EXCEPT ![s] = "released"]
  /\ UNCHANGED <<closing, detached, sessions, expired, counters, phase, holds, locked, drops>>

--------------------------------------------------------------------------------
\* get(): ownership, then the lease.  An elapsed lease that nobody is using
\* removes the session; otherwise the lease is refreshed and an Arc is taken.
\* An unknown session or another principal's changes nothing.
Get(h, s) ==
  /\ holds[h] = NoSession
  /\ drops[h] = {}
  /\ s \in sessions
  /\ Caller[h] = Caller[s]
  /\ IF s \in Reapable
       THEN Remove({s}, h) /\ UNCHANGED holds
       ELSE /\ expired' = expired \ {s}
            /\ holds' = [holds EXCEPT ![h] = s]
            /\ UNCHANGED <<sessions, drops>>
  /\ UNCHANGED <<closing, detached, counters, phase, conn, locked>>

\* new_statement() on the session's worker: it takes the lock of the statements
\* and calls the driver.
NewStatement(h) ==
  /\ holds[h] # NoSession
  /\ holds[h] \notin locked
  /\ locked' = locked \cup {holds[h]}
  /\ UNCHANGED <<closing, detached, sessions, expired, counters, phase, conn, holds, drops>>

\* The driver returns to the worker, at any time or never.
NewStatementReturns(s) ==
  /\ s \in locked
  /\ locked' = locked \ {s}
  /\ UNCHANGED <<closing, detached, sessions, expired, counters, phase, conn, holds, drops>>

\* Nobody else has an Arc of the handler's session, nor has the registry.
OnlyOf(h) ==
  /\ holds[h] \notin sessions
  /\ Holders(holds[h]) = {h}
  /\ \A t \in Threads : holds[h] \notin drops[t]

\* The handler returns, with an answer of the worker or at the deadline, and drops
\* its Arc; if it is the last of a session that has left the registry, Session::drop
\* runs here.
Return(h) ==
  /\ holds[h] # NoSession
  /\ holds' = [holds EXCEPT ![h] = NoSession]
  /\ drops' = [drops EXCEPT ![h] = IF OnlyOf(h) THEN @ \cup {holds[h]} ELSE @]
  /\ UNCHANGED <<closing, detached, sessions, expired, counters, phase, conn, locked>>

\* close(): by the owner, whether or not an operation is in flight.
Close(h, s) ==
  /\ holds[h] = NoSession
  /\ drops[h] = {}
  /\ s \in sessions
  /\ Caller[h] = Caller[s]
  /\ Remove({s}, h)
  /\ UNCHANGED <<closing, detached, counters, phase, conn, holds, locked>>

\* Time passes on an unused lease.
LeaseElapses(s) ==
  /\ s \in sessions \ expired
  /\ expired' = expired \cup {s}
  /\ UNCHANGED <<closing, detached, sessions, counters, phase, conn, holds, locked, drops>>

\* reap_expired() from the background task of main(), when its last is done.
ReapExpired ==
  /\ drops[Reaper] = {}
  /\ Reapable # {}
  /\ Remove(Reapable, Reaper)
  /\ UNCHANGED <<closing, detached, counters, phase, conn, holds, locked>>

\* close_all(): the flag is stored before the lock is taken.
BeginShutdown ==
  /\ ~closing
  /\ closing' = TRUE
  /\ UNCHANGED <<detached, sessions, expired, counters, phase, conn, holds, locked, drops>>

DetachAll ==
  /\ closing
  /\ ~detached
  /\ detached' = TRUE
  /\ Remove(sessions, Main)
  /\ UNCHANGED <<closing, counters, phase, conn, holds, locked>>

\* Variant: Session::drop runs with the registry's Arc.
DropInUse(t) ==
  /\ \A s \in drops[t] : conn[s] # "released"
  /\ \E s \in drops[t] \ locked :
       /\ conn' = [conn EXCEPT ![s] = "released"]
       /\ \/ drops' = [drops EXCEPT ![t] = @ \ {s}]
          \/ UNCHANGED drops
  /\ UNCHANGED <<closing, detached, sessions, expired, counters, phase, holds, locked>>

\* The thread lets go of one of its Arcs, in no particular order.  If a handler has
\* another that is all.  Else Session::drop runs: under the lock of the statements it
\* collects what there is to cancel; then a cleanup thread cancels and drops the
\* downstream resources.  They are dropped here if no thread can be spawned, or if
\* that thread is done first.
Drop(t) ==
  /\ \A s \in drops[t] : conn[s] # "released"
  /\ \E s \in drops[t] :
       \/ /\ Holders(s) # {}
          /\ drops' = [drops EXCEPT ![t] = @ \ {s}]
          /\ UNCHANGED conn
       \/ /\ Holders(s) = {}
          /\ s \notin locked
          /\ conn' = [conn EXCEPT ![s] = "released"]
          /\ \/ drops' = [drops EXCEPT ![t] = @ \ {s}]
             \/ UNCHANGED drops
  /\ UNCHANGED <<closing, detached, sessions, expired, counters, phase, holds, locked>>

\* The driver's destructor returns to the thread it ran on.
DestructorReturns(t) ==
  /\ \E s \in drops[t] :
       /\ conn[s] = "released"
       /\ drops' = [drops EXCEPT ![t] = @ \ {s}]
  /\ UNCHANGED <<closing, detached, sessions, expired, counters, phase, conn, holds, locked>>

--------------------------------------------------------------------------------
\* The steps the thread inside open() takes by itself.
OpenStep(s) ==
  \/ OpenReap(s)
  \/ ReserveOpen(s)
  \/ SpawnOpener(s)
  \/ OpenReceives(s)
  \/ OpenTimesOut(s)
  \/ ReleaseFailed(s)
  \/ Register(s)

AttemptStep(s) ==
  \/ OpenBegin(s)
  \/ OpenStep(s)
  \/ BackendOpenReturns(s)
  \/ DropUnclaimed(s)
  \/ LeaseElapses(s)
  \/ NewStatementReturns(s)

HandlerStep(h) ==
  \/ \E s \in Attempts : Get(h, s)
  \/ \E s \in Attempts : Close(h, s)
  \/ NewStatement(h)
  \/ Return(h)

Next ==
  \/ \E s \in Attempts : AttemptStep(s)
  \/ \E h \in Handlers : HandlerStep(h)
  \/ \E t \in Threads : Drop(t) \/ DestructorReturns(t)
  \/ ReapExpired
  \/ BeginShutdown
  \/ DetachAll

Spec == Init /\ [][Next]_vars

\* Threads of the server are scheduled; the deadline of open() passes; leases
\* elapse; the reaper runs on its interval.  A thread is sure to go on with its
\* drops only while none of them keeps it.  Nothing is assumed of
\* the driver, neither of its calls nor of its cancels and destructors, of
\* handlers, which may be in them, of clients, or of the operator.
Fairness ==
  /\ \A s \in Attempts :
       /\ WF_vars(OpenStep(s))
       /\ WF_vars(DropUnclaimed(s))
       /\ WF_vars(LeaseElapses(s))
  /\ \A t \in Threads : WF_vars(~Blocked(t) /\ Drop(t))
  /\ WF_vars(ReapExpired)
  /\ WF_vars(DetachAll)

FairSpec == Spec /\ Fairness

--------------------------------------------------------------------------------
\* The type invariant.  The reservation counters also stay within the quotas.
TypeOK ==
  /\ closing \in BOOLEAN
  /\ detached \in BOOLEAN
  /\ sessions \subseteq Attempts
  /\ expired \subseteq sessions
  /\ opening_total \in 0..MaxSessions
  /\ opening_by_principal \in [Principals -> 0..MaxPerPrincipal]
  /\ phase \in [Attempts -> Phase]
  /\ conn \in [Attempts -> ConnState]
  /\ holds \in [Handlers -> Attempts \cup {NoSession}]
  /\ locked \subseteq Attempts
  /\ drops \in [Threads -> SUBSET Attempts]

\* The counters of the registry count exactly the open() calls that are between
\* their reservation and its release, in all and per principal: no error path
\* keeps a reservation, none gives one back twice, and saturating_sub() never
\* hides a miscount.
ReservationsExact ==
  /\ opening_total = Cardinality(Reserved)
  /\ \A p \in Principals : opening_by_principal[p] = Cardinality(ReservedBy(p))

\* Registered sessions and reservations together never exceed max_sessions, nor
\* max_sessions_per_principal for any principal, however opens interleave.
QuotaRespected ==
  /\ Cardinality(sessions) + Cardinality(Reserved) <= MaxSessions
  /\ \A p \in Principals :
       Cardinality(SessionsOf(p)) + Cardinality(ReservedBy(p)) <= MaxPerPrincipal

\* Shutdown is terminal: an open() that was under way when close_all() took the
\* registry cannot put a session into it afterwards.
ShutdownIsTerminal == detached => sessions = {}

\* A session in the registry, or detached from it but still in a handler's
\* hands, has a live downstream connection: nothing is used after its drop.
UsableConnections ==
  /\ \A s \in sessions : conn[s] = "open"
  /\ \A h \in Handlers : holds[h] # NoSession => conn[holds[h]] = "open"

\* A session leaves the registry under a handler that is using it only by its
\* owner's close() or by shutdown: neither the reaper, nor the reap inside
\* reserve_open(), nor the lease check of get() expires work in flight.
InFlightKept ==
  [][\A s \in sessions \ sessions' :
       Holders(s) # {} => DetachAll \/ \E h \in Handlers : Close(h, s)]_vars

\* Every call of open() is answered, also when backend.open() never returns.  The
\* one exception is an open() that drops sessions, those it reaps or its own, and
\* is kept there for ever: by a new_statement() that does not return and has the
\* lock Session::drop takes, or by a destructor that runs on its thread.
OpenAnswered ==
  \A s \in Attempts :
    \/ phase[s] # "idle" ~> (phase[s] \in {"refused", "registered"} /\ drops[s] = {})
    \/ <>[]Blocked(s)

Unowned(s) ==
  /\ conn[s] = "open"
  /\ phase[s] \in {"refused", "registered"}
  /\ s \notin sessions
  /\ Holders(s) = {}

\* A connection that no session of the registry owns and no handler uses is let go
\* of: late results of backend.open(), failed starts, closed and reaped sessions.
\* Only a thread that is kept for ever by one of the sessions it drops keeps it.
ConnectionsReclaimed ==
  \A s \in Attempts :
    \/ Unowned(s) ~> conn[s] = "released"
    \/ <>[](\E t \in Threads : s \in drops[t] /\ Blocked(t))

\* A session its client abandons is reclaimed by the lease alone: if from some
\* time on no handler uses it, its downstream connection is let go of.  The reaper
\* fails to only if the drop of a session, this one or another it has reaped,
\* keeps it for ever, and so does the thread that removed this one.
AbandonedReclaimed ==
  \A s \in Attempts :
    <>[](Holders(s) = {}) =>
      \/ phase[s] = "registered" ~> conn[s] = "released"
      \/ <>[]Blocked(Reaper)
      \/ <>[](\E t \in Threads : s \in drops[t] /\ Blocked(t))

\* docs/security.md: "Opening calls reserve quota before loading a downstream
\* connection, so concurrent opens cannot exceed the configured bounds."  Read
\* of the calls into the driver: at most max_sessions run at a time.
ConcurrentOpensBounded ==
  Cardinality({s \in Attempts : conn[s] = "opening"}) <= MaxSessions

================================================================================

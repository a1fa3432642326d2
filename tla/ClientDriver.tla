------------------------------ MODULE ClientDriver ------------------------------
(***************************************************************************)
(* The objects of the client driver, crates/adbc-driver-grainlift/src/     *)
(* lib.rs: a connection, its statements, its readers and its cancel        *)
(* handles, each used by a thread of its own.  They share one              *)
(* RemoteConnection by reference count; the last one to let go sends       *)
(* CLOSE_CONNECTION.                                                       *)
(*                                                                         *)
(* Over a byte stream (TCP, TLS, Iroh) all calls share one client behind a *)
(* mutex, and each reader has a thread with a stream of its own, asked     *)
(* through a channel of one command.  Over HTTP each call has a client of  *)
(* its own; how a reader reads there is the subject of ResultCursor.       *)
(***************************************************************************)
EXTENDS Naturals, Sequences, FiniteSets

CONSTANTS
  Conn,        \* the connection
  Statements,  \* its statements
  Readers,     \* its result readers
  Maker,       \* the statement, or the connection, that makes each reader
  Cancels,     \* calls of try_cancel()
  MaxBatches,  \* bound: batches of a result
  None         \* no object

VARIABLES
  transport,  \* RemoteTransport: "http" or "byte"
  obj,        \* the life of each object
  doing,      \* what the thread of an object or of a cancellation is at
  making,     \* the statement or reader it makes, or the reader it binds from
  inflight,   \* the threads whose call is on the wire
  lock,       \* who has ByteTransport::client
  holders,    \* who holds the RemoteConnection
  sent,       \* history: the objects whose close has been sent, Conn for the session
  asked,      \* the readers inside ByteReader::next
  chan,       \* ByteReader's channel, sync_channel(1)
  worker,     \* the "grainlift-result-stream" thread of a reader
  reply,      \* its reply to next()
  finished,   \* RemoteReader::finished
  source, produced, read, outcome  \* the stream of each reader, as in ResultStream

calls == <<doing, making, inflight, lock>>
streams == <<asked, chan, worker, reply, finished, source, produced, read, outcome>>
vars == <<transport, obj, calls, holders, sent, streams>>

--------------------------------------------------------------------------------
Objects == {Conn} \cup Statements \cup Readers
Threads == Objects \cup Cancels

Methods == {"new_statement", "execute", "unary", "bind", "cancel",
            "close_statement", "close_result", "close_connection"}

ASSUME DriverAssumption ==
  /\ Maker \in [Readers -> {Conn} \cup Statements]
  /\ MaxBatches \in Nat
  /\ Conn \notin Statements \cup Readers \cup Cancels
  /\ Statements \cap Readers = {} /\ Cancels \cap (Statements \cup Readers) = {}
  /\ None \notin Threads

\* RemoteConnection::open() has returned.
Init ==
  /\ transport \in {"http", "byte"}
  /\ obj = [o \in Objects |-> IF o = Conn THEN "live" ELSE "absent"]
  /\ doing = [t \in Threads |-> "idle"]
  /\ making = [t \in Threads |-> None]
  /\ inflight = {}
  /\ lock = None
  /\ holders = {Conn}
  /\ sent = {}
  /\ asked = {}
  /\ chan = [r \in Readers |-> "empty"]
  /\ worker = [r \in Readers |-> "none"]
  /\ reply = [r \in Readers |-> "none"]
  /\ finished = {}
  /\ source = [r \in Readers |-> "live"]
  /\ produced = [r \in Readers |-> 0]
  /\ read = [r \in Readers |-> <<>>]
  /\ outcome = [r \in Readers |-> "reading"]

Free(o) == obj[o] = "live" /\ doing[o] = "idle"

\* The reader has been given to bind_stream().
Given(r) == \E s \in Statements : doing[s] \in {"bind", "draining"} /\ making[s] = r

Begins(t, what, o) ==
  /\ doing' = [doing EXCEPT ![t] = what]
  /\ making' = [making EXCEPT ![t] = o]
  /\ UNCHANGED <<inflight, lock>>

Becomes(o, life) == obj' = [obj EXCEPT ![o] = life]

--------------------------------------------------------------------------------
(* RemoteTransport::call().                                                 *)

Send(t) ==
  /\ doing[t] \in Methods
  /\ t \notin inflight
  /\ transport = "byte" => lock = None
  /\ inflight' = inflight \cup {t}
  /\ lock' = IF transport = "byte" THEN t ELSE lock
  /\ sent' = sent \cup (IF doing[t] = "close_connection" THEN {Conn}
                        ELSE IF doing[t] \in {"close_statement", "close_result"} THEN {t}
                        ELSE {})
  /\ UNCHANGED <<transport, obj, doing, making, holders, streams>>

\* The response of a call, or its failure: the lock is given back.
Returns(t, method) ==
  /\ t \in inflight
  /\ doing[t] = method
  /\ inflight' = inflight \ {t}
  /\ lock' = IF lock = t THEN None ELSE lock

Goes(t, what) ==
  /\ doing' = [doing EXCEPT ![t] = what]
  /\ making' = IF what = "idle" THEN [making EXCEPT ![t] = None] ELSE making

--------------------------------------------------------------------------------
(* The operations of the objects.                                           *)

NewStatement(s) ==
  /\ Free(Conn)
  /\ obj[s] = "absent"
  /\ Begins(Conn, "new_statement", s)
  /\ UNCHANGED <<transport, obj, holders, sent, streams>>

NewStatementReturns ==
  /\ Returns(Conn, "new_statement")
  /\ Goes(Conn, "idle")
  /\ \/ Becomes(making[Conn], "live") /\ holders' = holders \cup {making[Conn]}
     \/ UNCHANGED <<obj, holders>>
  /\ UNCHANGED <<transport, sent, streams>>

\* The methods that answer with a result: execute(), get_info(), ...
Execute(r) ==
  /\ Free(Maker[r])
  /\ obj[r] = "absent"
  /\ Begins(Maker[r], "execute", r)
  /\ UNCHANGED <<transport, obj, holders, sent, streams>>

ExecuteReturns(t) ==
  /\ Returns(t, "execute")
  /\ \/ Goes(t, "opening")
     \/ Goes(t, "idle")
  /\ UNCHANGED <<transport, obj, holders, sent, streams>>

\* reader_from_response(): RemoteReader::open, with the thread of a ByteReader,
\* or its failure.
OpenReader(t) ==
  /\ doing[t] = "opening"
  /\ Goes(t, "idle")
  /\ \/ /\ Becomes(making[t], "live")
        /\ holders' = holders \cup {making[t]}
        /\ worker' = [worker EXCEPT ![making[t]] = IF transport = "byte" THEN "running" ELSE @]
     \/ UNCHANGED <<obj, holders, worker>>
  /\ UNCHANGED <<transport, inflight, lock, sent, asked, chan, reply, finished, source, produced,
                 read, outcome>>

\* The other methods of a connection or a statement are one call each.
Operate(t) ==
  /\ Free(t)
  /\ Begins(t, "unary", None)
  /\ UNCHANGED <<transport, obj, holders, sent, streams>>

OperateReturns(t) ==
  /\ Returns(t, "unary")
  /\ Goes(t, "idle")
  /\ UNCHANGED <<transport, obj, holders, sent, streams>>

\* bind_stream() from a reader of the same connection: the lock is kept from
\* the first turn to the last.
Bind(s, r) ==
  /\ Free(s)
  /\ Free(r)
  /\ r \notin asked
  /\ ~Given(r)
  /\ Begins(s, "bind", r)
  /\ UNCHANGED <<transport, obj, holders, sent, streams>>

\* Variant: the reader is dropped before the client is unlocked.
BindReturnsLocked(s) ==
  /\ s \in inflight /\ doing[s] = "bind"
  /\ making[s] \notin asked
  /\ IF obj[making[s]] = "live"
       THEN /\ Becomes(making[s], "dropping")
            /\ doing' = [doing EXCEPT ![making[s]] = "close_result"]
            /\ UNCHANGED <<making, inflight, lock>>
       ELSE /\ obj[making[s]] = "gone"
            /\ Returns(s, "bind")
            /\ Goes(s, "draining")
            /\ UNCHANGED obj
  /\ UNCHANGED <<transport, holders, sent, streams>>

\* The exchange is over, after the last batch or an error; then the reader is
\* dropped.
BindReturns(s) ==
  /\ Returns(s, "bind")
  /\ making[s] \notin asked
  /\ Becomes(making[s], "dropping")
  /\ doing' = [doing EXCEPT ![s] = "draining", ![making[s]] = "close_result"]
  /\ UNCHANGED <<transport, making, holders, sent, streams>>

BindEnds(s) ==
  /\ doing[s] = "draining"
  /\ obj[making[s]] = "gone"
  /\ Goes(s, "idle")
  /\ UNCHANGED <<transport, obj, inflight, lock, holders, sent, streams>>

\* Variant: try_cancel() uses the connection without holding it.
CancelUnheld(t) ==
  /\ doing[t] = "idle"
  /\ Begins(t, IF holders = {} THEN "done" ELSE "cancel", None)
  /\ UNCHANGED <<transport, obj, holders, sent, streams>>

\* try_cancel(): the weak reference is upgraded, or there is nothing to do.
Cancel(t) ==
  /\ doing[t] = "idle"
  /\ IF holders = {}
       THEN Begins(t, "done", None) /\ UNCHANGED holders
       ELSE Begins(t, "cancel", None) /\ holders' = holders \cup {t}
  /\ UNCHANGED <<transport, obj, sent, streams>>

--------------------------------------------------------------------------------
(* Dropping an object: its own close first, then its reference.             *)

CloseOf(o) == IF o \in Statements THEN "close_statement"
              ELSE IF o \in Readers THEN "close_result"
              ELSE "release"

Drop(o) ==
  /\ Free(o)
  /\ o \notin asked /\ ~Given(o)
  /\ Becomes(o, "dropping")
  /\ Begins(o, CloseOf(o), None)
  /\ UNCHANGED <<transport, holders, sent, streams>>

\* The answer to a close or a cancellation does not matter.
CloseReturns(t) ==
  /\ \E method \in {"close_statement", "close_result", "cancel"} : Returns(t, method)
  /\ Goes(t, "release")
  /\ UNCHANGED <<transport, obj, holders, sent, streams>>

\* A thread is through with the connection; a ByteReader has its own drop left,
\* for its field comes after the connection's.
Leaves(t) ==
  IF t \in Readers /\ transport = "byte"
    THEN Goes(t, "hangup") /\ UNCHANGED obj
    ELSE Goes(t, "done") /\ obj' = [o \in Objects |-> IF o = t THEN "gone" ELSE obj[o]]

\* Variant: a cancellation keeps its reference.
ReleaseObjects(t) ==
  /\ doing[t] = "release"
  /\ holders' = holders \ ({t} \cap Objects)
  /\ IF holders' = {} THEN Goes(t, "close_connection") /\ UNCHANGED obj ELSE Leaves(t)
  /\ UNCHANGED <<transport, inflight, lock, sent, streams>>

\* The reference goes; RemoteConnection::drop sends CLOSE_CONNECTION.
Release(t) ==
  /\ doing[t] = "release"
  /\ holders' = holders \ {t}
  /\ IF holders' = {} THEN Goes(t, "close_connection") /\ UNCHANGED obj ELSE Leaves(t)
  /\ UNCHANGED <<transport, inflight, lock, sent, streams>>

ConnectionCloses(t) ==
  /\ Returns(t, "close_connection")
  /\ Leaves(t)
  /\ UNCHANGED <<transport, holders, sent, streams>>

\* ByteReader::drop: send() waits for room, and fails when the thread is gone.
Hangup(r) ==
  /\ doing[r] = "hangup"
  /\ \/ worker[r] = "gone" /\ UNCHANGED chan
     \/ worker[r] = "running" /\ chan[r] = "empty" /\ chan' = [chan EXCEPT ![r] = "cancel"]
  /\ Goes(r, "done")
  /\ Becomes(r, "gone")
  /\ UNCHANGED <<transport, inflight, lock, holders, sent, asked, worker, reply, finished, source,
                 produced, read, outcome>>

--------------------------------------------------------------------------------
(* Reading over a byte stream.                                              *)

Fails(r) ==
  /\ finished' = finished \cup {r}
  /\ outcome' = [outcome EXCEPT ![r] = "failed"]

\* ByteReader::next, by the application or by bind_stream().
Ask(r) ==
  /\ transport = "byte"
  /\ obj[r] = "live" /\ r \notin finished \cup asked
  /\ Given(r) => \E s \in inflight : doing[s] = "bind" /\ making[s] = r
  /\ IF worker[r] = "running"
       THEN /\ chan[r] = "empty"
            /\ chan' = [chan EXCEPT ![r] = "next"]
            /\ asked' = asked \cup {r}
            /\ UNCHANGED <<finished, outcome>>
       ELSE Fails(r) /\ UNCHANGED <<chan, asked>>
  /\ UNCHANGED <<transport, obj, calls, holders, sent, worker, reply, source, produced, read>>

Replies(r, answer) ==
  /\ reply' = [reply EXCEPT ![r] = answer]
  /\ worker' = IF answer = "batch" THEN worker ELSE [worker EXCEPT ![r] = "gone"]

\* The thread takes the command and waits for the server; after the end or an
\* error it stops.
Tick(r) ==
  /\ worker[r] = "running" /\ chan[r] = "next"
  /\ chan' = [chan EXCEPT ![r] = "empty"]
  /\ \/ /\ produced[r] < MaxBatches
        /\ produced' = [produced EXCEPT ![r] = @ + 1]
        /\ Replies(r, "batch")
        /\ UNCHANGED source
     \/ /\ source' = [source EXCEPT ![r] = "ended"]
        /\ Replies(r, "end")
        /\ UNCHANGED produced
     \/ /\ source' = [source EXCEPT ![r] = "failed"]
        /\ Replies(r, "error")
        /\ UNCHANGED produced
  /\ UNCHANGED <<transport, obj, calls, holders, sent, asked, finished, read, outcome>>

\* Command::Cancel ends the thread.
WorkerCancels(r) ==
  /\ worker[r] = "running" /\ chan[r] = "cancel"
  /\ chan' = [chan EXCEPT ![r] = "empty"]
  /\ worker' = [worker EXCEPT ![r] = "gone"]
  /\ UNCHANGED <<transport, obj, calls, holders, sent, asked, reply, finished, source, produced,
                 read, outcome>>

Receives(r) ==
  /\ r \in asked /\ reply[r] # "none"
  /\ asked' = asked \ {r}
  /\ reply' = [reply EXCEPT ![r] = "none"]
  /\ UNCHANGED <<transport, obj, calls, holders, sent, chan, worker, source, produced>>

\* Variant: the end is not remembered.
DeliversForgettingEnd(r) ==
  /\ Receives(r)
  /\ \/ reply[r] = "batch" /\ read' = [read EXCEPT ![r] = Append(@, produced[r])]
        /\ UNCHANGED <<finished, outcome>>
     \/ reply[r] = "end" /\ outcome' = [outcome EXCEPT ![r] = "ended"]
        /\ UNCHANGED <<finished, read>>
     \/ reply[r] = "error" /\ Fails(r) /\ UNCHANGED read

\* next_remote() gives the application what came.
Delivers(r) ==
  /\ Receives(r)
  /\ \/ /\ reply[r] = "batch"
        /\ read' = [read EXCEPT ![r] = Append(@, produced[r])]
        /\ UNCHANGED <<finished, outcome>>
     \/ /\ reply[r] = "end"
        /\ outcome' = [outcome EXCEPT ![r] = "ended"]
        /\ finished' = finished \cup {r}
        /\ UNCHANGED read
     \/ reply[r] = "error" /\ Fails(r) /\ UNCHANGED read

--------------------------------------------------------------------------------
ThreadStep(t) ==
  \/ ExecuteReturns(t) \/ OpenReader(t) \/ OperateReturns(t)
  \/ CloseReturns(t) \/ Release(t) \/ ConnectionCloses(t)

StatementStep(s) == BindReturns(s) \/ BindEnds(s)

ReaderStep(r) == Hangup(r) \/ Tick(r) \/ WorkerCancels(r) \/ Delivers(r)

Next ==
  \/ \E t \in Threads : Send(t) \/ ThreadStep(t)
  \/ NewStatementReturns
  \/ \E s \in Statements : NewStatement(s) \/ StatementStep(s)
  \/ \E r \in Readers : Execute(r) \/ Ask(r) \/ ReaderStep(r)
  \/ \E t \in {Conn} \cup Statements : Operate(t)
  \/ \E s \in Statements, r \in Readers : Bind(s, r)
  \/ \E o \in Objects : Drop(o)
  \/ \E t \in Cancels : Cancel(t)

Spec == Init /\ [][Next]_vars

\* Calls and ticks end, with a response or their timeout, and threads run; a
\* thread that waits for the client gets it if the client is free again and
\* again.  What the application asks for is up to the application.
Fairness ==
  /\ \A t \in Threads : SF_vars(Send(t)) /\ WF_vars(ThreadStep(t))
  /\ WF_vars(NewStatementReturns)
  /\ \A s \in Statements : WF_vars(StatementStep(s))
  /\ \A r \in Readers : WF_vars(ReaderStep(r))

FairSpec == Spec /\ Fairness

--------------------------------------------------------------------------------
CallsTypeOK ==
  /\ transport \in {"http", "byte"}
  /\ obj \in [Objects -> {"absent", "live", "dropping", "gone"}]
  /\ doing \in [Threads ->
       Methods \cup {"idle", "opening", "draining", "release", "hangup", "done"}]
  /\ making \in [Threads -> Objects \cup {None}]
  /\ inflight \subseteq Threads
  /\ transport = "byte" => inflight = {lock} \ {None}
  /\ lock \in Threads \cup {None}
  /\ holders \subseteq Threads
  /\ sent \subseteq Objects

StreamsTypeOK ==
  /\ asked \subseteq Readers /\ finished \subseteq Readers
  /\ chan \in [Readers -> {"empty", "next", "cancel"}]
  /\ worker \in [Readers -> {"none", "running", "gone"}]
  /\ reply \in [Readers -> {"none", "batch", "end", "error"}]
  /\ source \in [Readers -> {"live", "ended", "failed"}]
  /\ produced \in [Readers -> 0..MaxBatches]
  /\ read \in [Readers -> Seq(1..MaxBatches)]
  /\ outcome \in [Readers -> {"reading", "ended", "failed"}]

\* The type invariant.  Over a byte stream one call is on the wire at a time.
TypeOK == CallsTypeOK /\ StreamsTypeOK

\* CLOSE_CONNECTION is the last call the objects of a connection make with their
\* shared client: when it is sent no other call is on its way, and none is made later,
\* whichever thread was the last and whatever cancellation came in between.  The
\* READ_RESULT stream a byte reader has on a connection of its own may outlive it.
CloseIsLast ==
  Conn \in sent =>
    \A t \in Threads : doing[t] \in Methods => doing[t] = "close_connection"

\* Every statement and every reader the application had was closed by a call of
\* its own before the session was.
ChildrenClosedFirst ==
  Conn \in sent =>
    \A o \in Statements \cup Readers : obj[o] # "absent" => o \in sent

Stream(r) == INSTANCE ResultStream WITH
  source <- source[r], produced <- produced[r], read <- read[r], outcome <- outcome[r]

\* A reader over a byte stream reads its result as ResultStream promises: its
\* thread may stop, but the application is told of an end or an error once, and
\* of no error after the end.
ReadsTheStream ==
  /\ \A r \in Readers : Stream(r)!Init
  /\ [][\A r \in Readers : Stream(r)!Next \/ UNCHANGED Stream(r)!vars]_vars

\* An object that is dropped is gone some time later: neither the mutex of the
\* byte stream, kept by bind_stream() over a whole exchange, nor a reader's
\* channel keeps it for ever.
DropsFinish == \A o \in Objects : obj[o] = "dropping" ~> obj[o] = "gone"

\* When the application has dropped everything the session is closed some time
\* later, whoever is the last to hold the connection: an object whose own close is
\* on its way, or a cancellation that came in between.
SessionClosed == (\A o \in Objects : obj[o] \in {"absent", "dropping", "gone"}) ~> Conn \in sent

================================================================================

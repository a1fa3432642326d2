----------------------------- MODULE SessionHandles -----------------------------
(***************************************************************************)
(* The statement and result handles of one session: the request handlers   *)
(* of crates/grainlift-server/src/service.rs and the Session methods of    *)
(* session.rs they call.                                                   *)
(*                                                                         *)
(* A handler runs a plan of jobs on the session's worker, one after the    *)
(* other, each through SessionWorker::call: it submits a job, waits for    *)
(* the reply or the deadline, and goes on or returns the error.  Jobs of   *)
(* several handlers interleave in the worker's queue.  The worker is       *)
(* modelled by its contract (WorkerContract): jobs run in order, one at a  *)
(* time, and a job whose handler has given up is passed over unless it has *)
(* begun already, in which case its effect comes late.                     *)
(***************************************************************************)
EXTENDS Naturals, Sequences, FiniteSets

CONSTANTS
  Requests,       \* RPCs; a handle bears the name of the request that made it
  Kind,           \* the method of each request
  Workloads,      \* sets of requests; the clients of a behaviour make those of one
  QueueBound,     \* capacity of the worker's channel
  MaxStatements,  \* SessionLimits::max_statements_per_session
  MaxResults,     \* SessionLimits::max_results_per_session
  Patient,        \* clients wait for a statement's handler before the next call
  None            \* no request

VARIABLES
  workload,   \* the requests that are made in this behaviour
  stage,      \* what became of each request
  target,     \* the statement or result a request is about
  plan,       \* the jobs a handler has left; the first one is submitted
  cleanup,    \* the handlers that undo their effect: no response could be built
  seen,       \* history: the handles the client had when the request began
  reply,      \* the reply slot of a handler's current job
  queue,      \* the worker's channel, by handler
  running,    \* the handler whose job the worker is at
  statements, \* SessionResources::statements
  results,    \* SessionResources::results
  owner       \* ResultEntry::owner_statement_id, kept for every result ever made

vars == <<workload, stage, target, plan, cleanup, seen, reply, queue, running, statements,
          results, owner>>

handlers == <<stage, target, plan, cleanup, seen, reply>>
handles == <<statements, results, owner>>

--------------------------------------------------------------------------------
Kinds == {"new", "execute", "update", "statement", "connection", "metadata",
          "close_statement", "close_result", "cancel"}
Stage == {"idle", "waiting", "cancelling", "ok", "error", "timeout", "failed"}
Job == {"create", "connection", "invalidate", "run", "insert", "remove", "close"}

ASSUME HandlesAssumption ==
  /\ Kind \in [Requests -> Kinds]
  /\ Workloads \subseteq SUBSET Requests
  /\ QueueBound \in Nat \ {0}
  /\ MaxStatements \in Nat \ {0}
  /\ MaxResults \in Nat \ {0}
  /\ Patient \in BOOLEAN
  /\ None \notin Requests

\* Variant: closing a statement leaves its results to the session.
PlanClosingStatementOnly(k) ==
  CASE k = "new"             -> <<"create">>
    [] k = "execute"         -> <<"invalidate", "run", "invalidate", "insert">>
    [] k = "update"          -> <<"invalidate", "run">>
    [] k = "statement"       -> <<"run">>
    [] k = "connection"      -> <<"connection">>
    [] k = "metadata"        -> <<"connection", "insert">>
    [] k = "close_statement" -> <<"remove">>
    [] k = "close_result"    -> <<"close">>

\* The jobs of each handler, in order.  "update" stands for execute_update,
\* execute_schema and execute_partitions; "statement" for the other methods of a
\* statement (options, query, plan, prepare, parameter schema); "metadata" for
\* the connection methods that answer with a result of their own, read_partition
\* among them; "connection" for the others (options, commit, rollback, schema).
PlanOf(k) ==
  CASE k = "new"             -> <<"create">>
    [] k = "execute"         -> <<"invalidate", "run", "invalidate", "insert">>
    [] k = "update"          -> <<"invalidate", "run">>
    [] k = "statement"       -> <<"run">>
    [] k = "connection"      -> <<"connection">>
    [] k = "metadata"        -> <<"connection", "insert">>
    [] k = "close_statement" -> <<"remove", "invalidate">>
    [] k = "close_result"    -> <<"close">>

\* What handle_response() and result_response() undo when the response cannot
\* be built.
CleanupOf(k) == IF k = "new" THEN PlanOf("close_statement") ELSE <<"close">>

MakesHandle(k) == k \in {"new", "execute", "metadata"}

\* The handles a client can name: those of answered requests.
KnownStatements == {s \in Requests : Kind[s] = "new" /\ stage[s] = "ok"}
KnownResults == {r \in Requests : Kind[r] \in {"execute", "metadata"} /\ stage[r] = "ok"}

Targets(k) == IF k \in {"new", "connection", "metadata"} THEN {None}
              ELSE IF k = "close_result" THEN KnownResults
              ELSE KnownStatements

\* What a job of handler r is about: during cleanup, its own handle.
Subject(r) == IF r \in cleanup THEN r ELSE target[r]

ResultsOf(s) == {r \in results : owner[r] = s}

\* new_statement() keeps the statements lock across the driver's call.
StatementsLocked == running # None /\ Head(plan[running]) = "create"

\* Handlers that are at work on a statement.
Busy(s) == {r \in Requests : stage[r] = "waiting" /\ target[r] = s}

--------------------------------------------------------------------------------
Init ==
  /\ workload \in Workloads
  /\ stage = [r \in Requests |-> "idle"]
  /\ target = [r \in Requests |-> None]
  /\ plan = [r \in Requests |-> <<>>]
  /\ cleanup = {}
  /\ seen = [r \in Requests |-> {}]
  /\ reply = [r \in Requests |-> "none"]
  /\ queue = <<>>
  /\ running = None
  /\ statements = {}
  /\ results = {}
  /\ owner = [r \in Requests |-> None]

\* call(): try_send() of the first job of a plan.  A full queue ends the
\* handler, with the error of its job or, during cleanup, of its response.
Submit(r, jobs) ==
  /\ plan' = [plan EXCEPT ![r] = jobs]
  /\ reply' = [reply EXCEPT ![r] = "none"]
  /\ IF Len(queue) < QueueBound
       THEN /\ queue' = Append(queue, r)
            /\ stage' = [stage EXCEPT ![r] = "waiting"]
       ELSE /\ stage' = [stage EXCEPT ![r] = IF r \in cleanup' THEN "failed" ELSE "error"]
            /\ UNCHANGED queue

Answer(r, a) ==
  /\ stage' = [stage EXCEPT ![r] = a]
  /\ UNCHANGED <<plan, reply, queue>>

\* A request arrives; get_session() has found the session.
Begin(r) ==
  /\ stage[r] = "idle"
  /\ Kind[r] # "cancel"
  /\ \E t \in Targets(Kind[r]) :
       /\ Patient /\ t # None => Busy(t) = {}
       /\ target' = [target EXCEPT ![r] = t]
  /\ seen' = [seen EXCEPT ![r] = KnownStatements \cup KnownResults]
  /\ UNCHANGED cleanup
  /\ Submit(r, PlanOf(Kind[r]))
  /\ UNCHANGED <<running, handles>>

\* The reply to the handler's job: an error ends the handler; otherwise its
\* next job follows, or the response.
Proceed(r) ==
  /\ stage[r] = "waiting"
  /\ reply[r] = "ok"
  /\ Len(plan[r]) > 1
  /\ UNCHANGED cleanup
  /\ Submit(r, Tail(plan[r]))
  /\ UNCHANGED <<target, seen, running, handles>>

Fail(r) ==
  /\ stage[r] = "waiting"
  /\ reply[r] = "error"
  /\ Answer(r, IF r \in cleanup THEN "failed" ELSE "error")
  /\ UNCHANGED <<target, cleanup, seen, running, handles>>

\* The last job is done and the response is built, or the cleanup is over.
Respond(r) ==
  /\ stage[r] = "waiting"
  /\ reply[r] = "ok"
  /\ Len(plan[r]) = 1
  /\ Answer(r, IF r \in cleanup THEN "failed" ELSE "ok")
  /\ UNCHANGED <<target, cleanup, seen, running, handles>>

\* The response exceeds its limit: the new handle is to be closed again.
ResponseFails(r) ==
  /\ stage[r] = "waiting"
  /\ reply[r] = "ok"
  /\ Len(plan[r]) = 1
  /\ MakesHandle(Kind[r])
  /\ r \notin cleanup
  /\ cleanup' = cleanup \cup {r}
  /\ Submit(r, CleanupOf(Kind[r]))
  /\ UNCHANGED <<target, seen, running, handles>>

\* Variant: recv() in place of recv_timeout().
GiveUpNever(r) == FALSE /\ r \in Requests /\ UNCHANGED vars

\* The deadline of call() passes while the worker is at this job or at one ahead
\* of it (an idle worker takes a job at once): the job is abandoned.
GiveUp(r) ==
  /\ stage[r] = "waiting"
  /\ reply[r] = "none"
  /\ running # None
  /\ Answer(r, IF r \in cleanup THEN "failed" ELSE "timeout")
  /\ UNCHANGED <<target, cleanup, seen, running, handles>>

\* cancel_statement() arrives; it goes around the worker.
BeginCancel(r) ==
  /\ stage[r] = "idle"
  /\ Kind[r] = "cancel"
  /\ \E t \in Targets(Kind[r]) : target' = [target EXCEPT ![r] = t]
  /\ stage' = [stage EXCEPT ![r] = "cancelling"]
  /\ UNCHANGED <<plan, cleanup, seen, reply, queue, running, handles>>

\* It looks its statement up under the statements lock and calls the handle.
CancelStatement(r) ==
  /\ stage[r] = "cancelling"
  /\ ~StatementsLocked
  /\ stage' = [stage EXCEPT ![r] = IF target[r] \in statements THEN "ok" ELSE "error"]
  /\ UNCHANGED <<target, plan, cleanup, seen, reply, queue, running, handles>>

--------------------------------------------------------------------------------
\* The worker takes the next job, and passes over an abandoned one.
StartJob ==
  /\ running = None
  /\ queue # <<>>
  /\ queue' = Tail(queue)
  /\ running' = IF stage[Head(queue)] = "waiting" THEN Head(queue) ELSE None
  /\ UNCHANGED <<handlers, handles>>

\* The job of handler r ends with a reply, which is lost if r has given up.
Done(r, answer) ==
  /\ running' = None
  /\ reply' = [reply EXCEPT ![r] = answer]
  /\ UNCHANGED <<stage, target, plan, cleanup, seen, queue>>

\* new_statement(): the quota, then the driver.
Create(r) ==
  \/ /\ Cardinality(statements) < MaxStatements
     /\ statements' = statements \cup {r}
     /\ UNCHANGED <<results, owner>>
     /\ Done(r, "ok")
  \/ Done(r, "error") /\ UNCHANGED handles

\* with_connection(): the driver answers or fails.
UseConnection(r) == (Done(r, "ok") \/ Done(r, "error")) /\ UNCHANGED handles

\* with_statement(): the statement must exist; then the driver answers or fails.
Run(r) ==
  /\ \/ target[r] \in statements /\ Done(r, "ok")
     \/ Done(r, "error")
  /\ UNCHANGED handles

\* Variant: only the result last handed out is invalidated.
InvalidateDelivered(r) ==
  /\ results' = results \ {x \in ResultsOf(Subject(r)) : stage[x] = "ok"}
  /\ UNCHANGED <<statements, owner>>
  /\ Done(r, "ok")

\* Variant: results without an owner are invalidated too.
InvalidateUnowned(r) ==
  /\ results' = results \ (ResultsOf(Subject(r)) \cup ResultsOf(None))
  /\ UNCHANGED <<statements, owner>>
  /\ Done(r, "ok")

\* invalidate_statement_results()
Invalidate(r) ==
  /\ results' = results \ ResultsOf(Subject(r))
  /\ UNCHANGED <<statements, owner>>
  /\ Done(r, "ok")

\* Variant: the quota is looked at after the insertion.
InsertThenCheck(r) ==
  /\ results' = results \cup {r}
  /\ owner' = [owner EXCEPT ![r] = target[r]]
  /\ UNCHANGED statements
  /\ Done(r, IF Cardinality(results) >= MaxResults THEN "error" ELSE "ok")

\* insert_owned_result(); target is None for insert_result().
Insert(r) ==
  IF Cardinality(results) >= MaxResults
    THEN Done(r, "error") /\ UNCHANGED handles
    ELSE /\ results' = results \cup {r}
         /\ owner' = [owner EXCEPT ![r] = target[r]]
         /\ UNCHANGED statements
         /\ Done(r, "ok")

\* close_statement(), its first job.
RemoveStatement(r) ==
  /\ statements' = statements \ {Subject(r)}
  /\ UNCHANGED <<results, owner>>
  /\ Done(r, IF Subject(r) \in statements THEN "ok" ELSE "error")

\* close_result()
CloseResult(r) ==
  /\ results' = results \ {Subject(r)}
  /\ UNCHANGED <<statements, owner>>
  /\ Done(r, IF Subject(r) \in results THEN "ok" ELSE "error")

FinishJob ==
  /\ running # None
  /\ LET job == Head(plan[running])
     IN  \/ job = "create" /\ Create(running)
         \/ job = "connection" /\ UseConnection(running)
         \/ job = "run" /\ Run(running)
         \/ job = "invalidate" /\ Invalidate(running)
         \/ job = "insert" /\ Insert(running)
         \/ job = "remove" /\ RemoveStatement(running)
         \/ job = "close" /\ CloseResult(running)

--------------------------------------------------------------------------------
HandlerStep(r) ==
  \/ Proceed(r)
  \/ Fail(r)
  \/ Respond(r)
  \/ ResponseFails(r)
  \/ GiveUp(r)

Next ==
  /\ \/ \E r \in workload : Begin(r) \/ BeginCancel(r) \/ HandlerStep(r) \/ CancelStatement(r)
     \/ StartJob
     \/ FinishJob
  /\ UNCHANGED workload

Spec == Init /\ [][Next]_vars

\* Threads are scheduled and deadlines pass; no driver call is assumed to return.
FairSpec ==
  /\ Spec
  /\ \A r \in Requests :
       /\ WF_vars(HandlerStep(r) /\ UNCHANGED workload)
       /\ WF_vars(CancelStatement(r) /\ UNCHANGED workload)
  /\ WF_vars(StartJob /\ UNCHANGED workload)

--------------------------------------------------------------------------------
\* The type invariant.  The registries stay within the session's limits and the
\* channel within its capacity.
TypeOK ==
  /\ workload \in Workloads
  /\ stage \in [Requests -> Stage]
  /\ target \in [Requests -> Requests \cup {None}]
  /\ plan \in [Requests -> Seq(Job)]
  /\ cleanup \subseteq Requests
  /\ seen \in [Requests -> SUBSET Requests]
  /\ reply \in [Requests -> {"none", "ok", "error"}]
  /\ queue \in Seq(Requests) /\ Len(queue) <= QueueBound
  /\ running \in Requests \cup {None}
  /\ statements \subseteq Requests /\ Cardinality(statements) <= MaxStatements
  /\ results \subseteq Requests /\ Cardinality(results) <= MaxResults
  /\ owner \in [Requests -> Requests \cup {None}]

\* A statement has at most one live result: execute() invalidates whatever an
\* earlier execution of it left, a late result of a timed-out one included.
OneResultPerStatement ==
  \A s \in KnownStatements : Cardinality(ResultsOf(s)) <= 1

\* Once close_statement() has answered, the statement and its results are gone
\* for good: no execution that timed out earlier brings a result back.
ClosedIsClean ==
  \A r \in Requests :
    Kind[r] = "close_statement" /\ stage[r] = "ok" =>
      target[r] \notin statements /\ ResultsOf(target[r]) = {}

\* A request answered with an error other than TIMEOUT has left no handle
\* behind.  (A TIMEOUT may: the handle then has no name the client knows.)
NothingLeftByError ==
  \A r \in Requests : stage[r] = "error" => r \notin statements \cup results

\* A handle the client was given stays until a request that began after it was
\* given takes it away: a result is never pulled from under its reader by the
\* remains of an earlier execution.
DeliveredSurvive ==
  [][\A h \in (statements \cup results) \ (statements' \cup results') :
       stage[h] = "ok" => running # None /\ h \in seen[running]]_vars

\* docs/typed-protocol.md: "The service must release any cursor it allocated if
\* response construction fails."  When the handler has returned, the cursor is
\* gone, or the worker is at the job that removes it.
CursorsReleased ==
  \A r \in Requests : stage[r] = "failed" => r \notin results \/ running = r

\* docs/security.md: "Best-effort statement and connection cancellation bypass
\* the actor through independent ADBC cancel handles."  So cancel_statement()
\* is answered whatever the actor is doing.
CancelAnswered ==
  \A r \in Requests : stage[r] = "cancelling" ~> stage[r] # "cancelling"

\* Every request that needs the worker is answered, job by job within the
\* deadline, although a driver call may never return.  (A request is made once,
\* so it is enough that a time comes when none waits.)
RequestsAnswered ==
  (\E r \in Requests : stage[r] = "waiting") ~> (\A r \in Requests : stage[r] # "waiting")

================================================================================

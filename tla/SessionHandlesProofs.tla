-------------------------- MODULE SessionHandlesProofs --------------------------
(***************************************************************************)
(* Proofs about SessionHandles for any requests, limits and queue bounds.  *)
(***************************************************************************)
EXTENDS SessionHandles, TLAPS

\* What a handler is doing: its method, or the cleanup of it.
Doing(r) ==
  IF r \notin cleanup THEN Kind[r]
  ELSE IF Kind[r] = "new" THEN "close_statement" ELSE "close_result"

\* What may be left of a plan while a job of it is at the worker.
RestOf(k) ==
  CASE k = "new" -> {<<"create">>}
    [] k = "execute" -> {<<"invalidate", "run", "invalidate", "insert">>,
                         <<"run", "invalidate", "insert">>, <<"invalidate", "insert">>,
                         <<"insert">>}
    [] k = "update" -> {<<"invalidate", "run">>, <<"run">>}
    [] k = "statement" -> {<<"run">>}
    [] k = "connection" -> {<<"connection">>}
    [] k = "metadata" -> {<<"connection", "insert">>, <<"insert">>}
    [] k = "close_statement" -> {<<"remove", "invalidate">>, <<"invalidate">>}
    [] k = "close_result" -> {<<"close">>}

\* How many jobs a handler has left.
Left(r) == Len(plan[r])

\* The job of r is in the queue, or the worker is at it.
Pending(r) == running = r \/ \E i \in 1..Len(queue) : queue[i] = r

Begun == {"waiting", "timeout", "failed"}

--------------------------------------------------------------------------------
(* The invariant of the handlers and the worker.                            *)

HandlerTypes ==
  /\ stage \in [Requests -> Stage]
  /\ target \in [Requests -> Requests \cup {None}]
  /\ cleanup \subseteq Requests
  /\ seen \in [Requests -> SUBSET Requests]
  /\ reply \in [Requests -> {"none", "ok", "error"}]
  /\ plan \in [Requests -> Seq(Job)]

WorkerTypes ==
  /\ queue \in Seq(Requests) /\ Len(queue) <= QueueBound
  /\ running \in Requests \cup {None}

HandleTypes ==
  /\ statements \subseteq Requests /\ results \subseteq Requests
  /\ owner \in [Requests -> Requests \cup {None}]

\* The worker has one job of a handler at most.
QueueInv ==
  /\ \A i, j \in 1..Len(queue) : queue[i] = queue[j] => i = j
  /\ \A i \in 1..Len(queue) : queue[i] # running

\* Where a request stands.
At(r) ==
  /\ Pending(r) => reply[r] = "none" /\ stage[r] \in Begun
  /\ stage[r] \in Begun => Kind[r] # "cancel" /\ plan[r] \in RestOf(Doing(r))
  /\ stage[r] = "cancelling" => Kind[r] = "cancel"
  /\ r \in cleanup => stage[r] \in {"waiting", "failed"} /\ MakesHandle(Kind[r])

\* A request about a statement has been told its handle.
Names(r) ==
  /\ Kind[r] \in {"execute", "update", "statement", "close_statement"} /\ stage[r] # "idle" =>
       target[r] \in Requests /\ Kind[target[r]] = "new" /\ stage[target[r]] = "ok"
  /\ Kind[r] \in {"new", "connection", "metadata"} => target[r] = None
  /\ Kind[r] # "cancel" /\ stage[r] # "idle" /\ target[r] # None => target[r] \in seen[r]

\* A request that has not got to its last job, or failed at it, has made nothing.
Made(r) ==
  /\ r \in statements => Kind[r] = "new"
  /\ r \in results => Kind[r] \in {"execute", "metadata"} /\ owner[r] = target[r]
  /\ stage[r] \in {"idle", "error"} => r \notin statements /\ r \notin results
  /\ stage[r] = "waiting" /\ r \notin cleanup /\ (reply[r] # "ok" \/ Left(r) > 1) =>
       r \notin statements /\ r \notin results

Inv ==
  /\ HandlerTypes /\ WorkerTypes /\ HandleTypes /\ QueueInv
  /\ \A r \in Requests : At(r) /\ Names(r) /\ Made(r)

--------------------------------------------------------------------------------
(* What holds besides when clients are patient.                             *)

NoneOwnedBy(s) == \A x \in results : owner[x] # s

\* An execution: its statement exists once it has run, and has no result between
\* the second invalidation and the insertion.
Executing(r) ==
  (stage[r] = "waiting" \/ running = r) /\ Kind[r] = "execute" /\ r \notin cleanup =>
    /\ Left(r) <= 2 \/ (Left(r) = 3 /\ reply[r] = "ok") => target[r] \in statements
    /\ (Left(r) = 1 /\ reply[r] # "ok") \/ (Left(r) = 2 /\ reply[r] = "ok") =>
         NoneOwnedBy(target[r])

\* A close: its statement is gone after the first job, its results are after the
\* second.
Closing(r) ==
  Kind[r] = "close_statement" =>
    /\ stage[r] = "ok" \/ (stage[r] = "waiting" /\ (Left(r) = 1 \/ reply[r] = "ok")) =>
         target[r] \notin statements
    /\ stage[r] = "ok" \/ (stage[r] = "waiting" /\ Left(r) = 1 /\ reply[r] = "ok") =>
         NoneOwnedBy(target[r])

\* A handler at work on a statement began after the results of the statement that
\* have been delivered.
Seeing(r) ==
  (stage[r] = "waiting" \/ running = r) /\ target[r] # None =>
    \A x \in Requests :
      Kind[x] = "execute" /\ target[x] = target[r] /\ stage[x] = "ok" => x \in seen[r]

\* One handler at a time is at work on a statement; while the worker is still at
\* the job of one that has given up, the next has not got beyond its first job.
TurnsInv ==
  /\ \A c, e \in Requests :
       stage[c] = "waiting" /\ stage[e] = "waiting" /\ target[c] = target[e] /\ target[c] # None =>
         c = e
  /\ \A e \in Requests :
       running # None /\ stage[running] # "waiting" /\ stage[e] = "waiting"
         /\ target[running] = target[e] /\ target[e] # None =>
           reply[e] = "none" /\ plan[e] = PlanOf(Kind[e]) /\ e \notin cleanup

\* The results of a statement are one at most.
OwnersInv == \A x, y \in results : owner[x] = owner[y] /\ owner[x] # None => x = y

Calm ==
  /\ TurnsInv /\ OwnersInv
  /\ \A r \in Requests : Executing(r) /\ Closing(r) /\ Seeing(r)

--------------------------------------------------------------------------------
\* Facts about plans.
LEMMA Plans ==
  ASSUME NEW k \in Kinds \ {"cancel"}
  PROVE  /\ PlanOf(k) \in RestOf(k)
         /\ k = "execute" => Len(PlanOf(k)) = 4
         /\ k = "close_statement" => Len(PlanOf(k)) = 2
         /\ MakesHandle(k) => k # "close_statement"
<1>1. PlanOf(k) \in RestOf(k)
  BY Zenon DEF Kinds, PlanOf, RestOf
<1>2. (k = "execute" => Len(PlanOf(k)) = 4) /\ (k = "close_statement" => Len(PlanOf(k)) = 2)
  BY Zenon DEF PlanOf
<1> QED
  BY <1>1, <1>2, Zenon DEF MakesHandle

\* What is left of a plan has a job to do, and without that job is what is left next.
LEMMA Rests ==
  ASSUME NEW k \in Kinds \ {"cancel"}, NEW p \in RestOf(k)
  PROVE  /\ p \in Seq(Job) /\ Len(p) >= 1
         /\ Len(p) > 1 => Tail(p) \in RestOf(k) /\ Len(Tail(p)) = Len(p) - 1
         /\ Head(p) = "create" => k = "new" /\ Len(p) = 1
         /\ Head(p) = "insert" => k \in {"execute", "metadata"} /\ Len(p) = 1
         /\ Head(p) = "remove" => k = "close_statement" /\ Len(p) = 2
         /\ Head(p) = "invalidate" => k \in {"execute", "update", "close_statement"}
         /\ k = "execute" /\ Len(p) = 3 => Head(p) = "run"
         /\ k = "execute" /\ Len(p) = 2 => Head(p) = "invalidate"
         /\ k = "execute" /\ Len(p) = 1 => Head(p) = "insert"
         /\ k = "close_statement" => Len(p) <= 2
         /\ k = "close_statement" /\ Len(p) = 2 => Head(p) = "remove"
         /\ k = "close_statement" /\ Len(p) = 1 => Head(p) = "invalidate"
<1> DEFINE Fact ==
         /\ p \in Seq(Job) /\ Len(p) >= 1
         /\ Len(p) > 1 => Tail(p) \in RestOf(k) /\ Len(Tail(p)) = Len(p) - 1
         /\ Head(p) = "create" => k = "new" /\ Len(p) = 1
         /\ Head(p) = "insert" => k \in {"execute", "metadata"} /\ Len(p) = 1
         /\ Head(p) = "remove" => k = "close_statement" /\ Len(p) = 2
         /\ Head(p) = "invalidate" => k \in {"execute", "update", "close_statement"}
         /\ k = "execute" /\ Len(p) = 3 => Head(p) = "run"
         /\ k = "execute" /\ Len(p) = 2 => Head(p) = "invalidate"
         /\ k = "execute" /\ Len(p) = 1 => Head(p) = "insert"
         /\ k = "close_statement" => Len(p) <= 2
         /\ k = "close_statement" /\ Len(p) = 2 => Head(p) = "remove"
         /\ k = "close_statement" /\ Len(p) = 1 => Head(p) = "invalidate"
<1>1. CASE k = "execute"
  <2>1. CASE p = <<"invalidate", "run", "invalidate", "insert">>
    <3>1. Len(p) = 4 /\ Head(p) = "invalidate" /\ Tail(p) = <<"run", "invalidate", "insert">>
      BY <2>1
    <3>2. Tail(p) \in RestOf(k) /\ Len(Tail(p)) = 3
      BY <1>1, <3>1, Zenon DEF RestOf
    <3>3. p \in Seq(Job)
      BY <2>1 DEF Job
    <3> QED
      BY <1>1, <3>1, <3>2, <3>3
  <2>2. CASE p = <<"run", "invalidate", "insert">>
    <3>1. Len(p) = 3 /\ Head(p) = "run" /\ Tail(p) = <<"invalidate", "insert">>
      BY <2>2
    <3>2. Tail(p) \in RestOf(k) /\ Len(Tail(p)) = 2
      BY <1>1, <3>1, Zenon DEF RestOf
    <3>3. p \in Seq(Job)
      BY <2>2 DEF Job
    <3> QED
      BY <1>1, <3>1, <3>2, <3>3
  <2>3. CASE p = <<"invalidate", "insert">>
    <3>1. Len(p) = 2 /\ Head(p) = "invalidate" /\ Tail(p) = <<"insert">>
      BY <2>3
    <3>2. Tail(p) \in RestOf(k) /\ Len(Tail(p)) = 1
      BY <1>1, <3>1, Zenon DEF RestOf
    <3>3. p \in Seq(Job)
      BY <2>3 DEF Job
    <3> QED
      BY <1>1, <3>1, <3>2, <3>3
  <2>4. CASE p = <<"insert">>
    <3>1. Len(p) = 1 /\ Head(p) = "insert"
      BY <2>4
    <3>3. p \in Seq(Job)
      BY <2>4 DEF Job
    <3> QED
      BY <1>1, <3>1, <3>3
  <2> QED
    BY <1>1, <2>1, <2>2, <2>3, <2>4, Zenon DEF RestOf
<1>2. CASE k = "update"
  <2>1. CASE p = <<"invalidate", "run">>
    <3>1. Len(p) = 2 /\ Head(p) = "invalidate" /\ Tail(p) = <<"run">>
      BY <2>1
    <3>2. Tail(p) \in RestOf(k) /\ Len(Tail(p)) = 1
      BY <1>2, <3>1, Zenon DEF RestOf
    <3>3. p \in Seq(Job)
      BY <2>1 DEF Job
    <3> QED
      BY <1>2, <3>1, <3>2, <3>3
  <2>2. CASE p = <<"run">>
    <3>1. Len(p) = 1 /\ Head(p) = "run"
      BY <2>2
    <3>3. p \in Seq(Job)
      BY <2>2 DEF Job
    <3> QED
      BY <1>2, <3>1, <3>3
  <2> QED
    BY <1>2, <2>1, <2>2, Zenon DEF RestOf
<1>3. CASE k = "metadata"
  <2>1. CASE p = <<"connection", "insert">>
    <3>1. Len(p) = 2 /\ Head(p) = "connection" /\ Tail(p) = <<"insert">>
      BY <2>1
    <3>2. Tail(p) \in RestOf(k) /\ Len(Tail(p)) = 1
      BY <1>3, <3>1, Zenon DEF RestOf
    <3>3. p \in Seq(Job)
      BY <2>1 DEF Job
    <3> QED
      BY <1>3, <3>1, <3>2, <3>3
  <2>2. CASE p = <<"insert">>
    <3>1. Len(p) = 1 /\ Head(p) = "insert"
      BY <2>2
    <3>3. p \in Seq(Job)
      BY <2>2 DEF Job
    <3> QED
      BY <1>3, <3>1, <3>3
  <2> QED
    BY <1>3, <2>1, <2>2, Zenon DEF RestOf
<1>4. CASE k = "close_statement"
  <2>1. CASE p = <<"remove", "invalidate">>
    <3>1. Len(p) = 2 /\ Head(p) = "remove" /\ Tail(p) = <<"invalidate">>
      BY <2>1
    <3>2. Tail(p) \in RestOf(k) /\ Len(Tail(p)) = 1
      BY <1>4, <3>1, Zenon DEF RestOf
    <3>3. p \in Seq(Job)
      BY <2>1 DEF Job
    <3> QED
      BY <1>4, <3>1, <3>2, <3>3
  <2>2. CASE p = <<"invalidate">>
    <3>1. Len(p) = 1 /\ Head(p) = "invalidate"
      BY <2>2
    <3>3. p \in Seq(Job)
      BY <2>2 DEF Job
    <3> QED
      BY <1>4, <3>1, <3>3
  <2> QED
    BY <1>4, <2>1, <2>2, Zenon DEF RestOf
<1>5. CASE k \in {"new", "statement", "connection", "close_result"}
  <2>1. p \in {<<"create">>, <<"run">>, <<"connection">>, <<"close">>}
    BY <1>5, Zenon DEF RestOf
  <2>2. k # "new" => p \in {<<"run">>, <<"connection">>, <<"close">>}
    BY <1>5, Zenon DEF RestOf
  <2>3. Len(p) = 1 /\ Head(p) \in {"create", "run", "connection", "close"}
    BY <2>1
  <2>4. k # "new" => Head(p) # "create"
    BY <2>2
  <2>5. \E j \in Job : p = <<j>>
    BY <2>1, Zenon DEF Job
  <2>6. p \in Seq(Job)
    BY <2>5
  <2> QED
    BY <1>5, <2>3, <2>4, <2>6
<1> QED
  BY <1>1, <1>2, <1>3, <1>4, <1>5, Zenon DEF Kinds

--------------------------------------------------------------------------------
(* Steps of a handler.                                                      *)

Still(v) ==
  /\ stage'[v] = stage[v] /\ target'[v] = target[v] /\ plan'[v] = plan[v]
  /\ seen'[v] = seen[v] /\ reply'[v] = reply[v]
  /\ v \in cleanup' <=> v \in cleanup

\* A step of handler r leaves the others alone; it may put a job in the queue.
HandlerMove(r) ==
  /\ running' = running /\ statements' = statements /\ results' = results /\ owner' = owner
  /\ queue' = queue \/ (queue' = Append(queue, r) /\ ~Pending(r) /\ Len(queue) < QueueBound)
  /\ stage[r] \in {"idle", "waiting", "cancelling"}
  /\ \A v \in Requests \ {r} : Still(v)

\* A step of handler r puts no job of another handler into the queue.
LEMMA MovePending ==
  ASSUME Inv, NEW r \in Requests, HandlerMove(r)
  PROVE  /\ QueueInv' /\ WorkerTypes'
         /\ \A v \in Requests \ {r} : Pending(v)' => Pending(v)
         /\ Pending(r)' => Pending(r) \/ queue' = Append(queue, r)
<1>1. queue \in Seq(Requests) /\ Len(queue) <= QueueBound
  BY Zenon DEF Inv, WorkerTypes
<1>2. CASE queue' = queue
  BY <1>2, Zenon DEF Inv, WorkerTypes, QueueInv, HandlerMove, Pending
<1>3. CASE queue' = Append(queue, r) /\ ~Pending(r) /\ Len(queue) < QueueBound
  <2>1. /\ Len(queue') = Len(queue) + 1 /\ queue'[Len(queue) + 1] = r
        /\ \A i \in 1..Len(queue) : queue'[i] = queue[i]
    BY <1>1, <1>3
  <2>2. \A i \in 1..Len(queue') : i = Len(queue) + 1 \/ i \in 1..Len(queue)
    BY <1>1, <2>1
  <2>3. QueueInv'
    BY <1>1, <1>3, <2>1, <2>2 DEF Inv, QueueInv, Pending, HandlerMove
  <2>4. WorkerTypes'
    BY <1>1, <1>3, <2>1, HandlesAssumption DEF Inv, WorkerTypes, HandlerMove
  <2> QED
    BY <1>3, <2>1, <2>2, <2>3, <2>4, Zenon DEF Pending, HandlerMove
<1> QED
  BY <1>2, <1>3, Zenon DEF HandlerMove

\* A step of r that keeps what concerns r keeps the invariant.
LEMMA MoveInv ==
  ASSUME Inv, NEW r \in Requests, HandlerMove(r), HandlerTypes', At(r)', Names(r)', Made(r)'
  PROVE  Inv'
<1>1. HandleTypes'
  BY Zenon DEF Inv, HandleTypes, HandlerMove
<1>2. ASSUME NEW v \in Requests \ {r}
      PROVE  At(v)' /\ Names(v)' /\ Made(v)'
  <2>1. At(v) /\ Names(v) /\ Made(v) /\ Still(v)
    BY Zenon DEF Inv, HandlerMove
  <2>2. At(v)'
    BY <2>1, MovePending, Zenon DEF At, Still, Doing
  <2>3. Names(v)'
    <3>1. target[v] # r \/ stage[r] # "ok"
      BY Zenon DEF HandlerMove
    <3> QED
      BY <2>1, <3>1 DEF Names, Still, HandlerMove
  <2>4. Made(v)'
    BY <2>1, Zenon DEF Made, Still, HandlerMove, Left
  <2> QED
    BY <2>2, <2>3, <2>4, Zenon
<1> QED
  BY <1>1, <1>2, MovePending, Zenon DEF Inv

\* A step of r that keeps the turns and what concerns r keeps Calm.
LEMMA MoveCalm ==
  ASSUME Inv, Calm, NEW r \in Requests, HandlerMove(r), TurnsInv', Executing(r)', Closing(r)',
         \A v \in Requests : Seeing(v)'
  PROVE  Calm'
<1>1. OwnersInv'
  BY Zenon DEF Calm, OwnersInv, HandlerMove
<1>2. ASSUME NEW v \in Requests \ {r}
      PROVE  Executing(v)' /\ Closing(v)'
  <2>1. Executing(v) /\ Closing(v) /\ Still(v)
    BY Zenon DEF Calm, HandlerMove
  <2> QED
    BY <2>1 DEF Executing, Closing, NoneOwnedBy, Still, HandlerMove, Left
<1> QED
  BY <1>1, <1>2, Zenon DEF Calm

\* Turns are kept by a step that does not begin anything.
LEMMA MoveTurns ==
  ASSUME Inv, Calm, NEW r \in Requests, HandlerMove(r),
         stage'[r] = "waiting" => stage[r] = "waiting" /\ reply[r] = "ok",
         stage[r] = "waiting" => target'[r] = target[r]
  PROVE  TurnsInv'
<1>1. \A v \in Requests \ {r} : Still(v)
  BY Zenon DEF HandlerMove
<1>2. running' = running /\ (running = r => stage[r] = "waiting" /\ reply[r] = "none")
  BY Zenon DEF HandlerMove, Inv, At, Pending, Begun
<1>3. TurnsInv /\ running \in Requests \cup {None}
  BY Zenon DEF Calm, Inv, WorkerTypes
<1>4. ASSUME NEW c \in Requests, NEW e \in Requests, stage'[c] = "waiting", stage'[e] = "waiting",
             target'[c] = target'[e], target'[c] # None
      PROVE  c = e
  BY <1>1, <1>3, <1>4 DEF TurnsInv, Still
<1>5. ASSUME NEW e \in Requests, running # None, stage'[running] # "waiting",
             stage'[e] = "waiting", target'[running] = target'[e], target'[e] # None
      PROVE  reply'[e] = "none" /\ plan'[e] = PlanOf(Kind[e]) /\ e \notin cleanup'
  <2>1. CASE running = r
    <3>1. e # r
      BY <1>5, <2>1, Zenon
    <3>2. stage[e] = "waiting" /\ target[e] = target[r] /\ target[e] # None
      BY <1>1, <1>2, <1>5, <2>1, <3>1, Zenon DEF Still
    <3> QED
      BY <1>2, <1>3, <2>1, <3>1, <3>2, Zenon DEF TurnsInv
  <2>2. CASE running # r
    <3>1. running \in Requests /\ Still(running)
      BY <1>1, <1>3, <1>5, <2>2, Zenon
    <3>2. stage[running] # "waiting" /\ stage[e] = "waiting" /\ target[running] = target[e]
          /\ target[e] # None
      BY <1>1, <1>5, <3>1, ZenonT(30) DEF Still
    <3>3. reply[e] = "none" /\ plan[e] = PlanOf(Kind[e]) /\ e \notin cleanup
      BY <1>3, <1>5, <3>2, Zenon DEF TurnsInv
    <3>4. e # r
      BY <1>5, <3>3, Zenon
    <3> QED
      BY <1>1, <3>3, <3>4, Zenon DEF Still
  <2> QED
    BY <2>1, <2>2, Zenon
<1> QED
  BY <1>2, <1>4, <1>5, Zenon DEF TurnsInv

\* So is what a handler has seen, if r does not begin and does not answer.
LEMMA MoveSeeing ==
  ASSUME Inv, Calm, NEW r \in Requests, HandlerMove(r),
         stage'[r] # "ok", seen'[r] = seen[r],
         stage'[r] = "waiting" => stage[r] = "waiting",
         stage[r] = "waiting" => target'[r] = target[r]
  PROVE  \A v \in Requests : Seeing(v)'
<1>1. \A v \in Requests \ {r} : Still(v)
  BY Zenon DEF HandlerMove
<1>2. running' = running /\ (running = r => stage[r] = "waiting")
  BY Zenon DEF HandlerMove, Inv, At, Pending, Begun
<1>3. \A v \in Requests : Seeing(v)
  BY Zenon DEF Calm
<1> QED
  BY <1>1, <1>2, <1>3 DEF Seeing, Still

\* A handler whose job is at the worker has one of the plans of PlanOf().
LEMMA DoingKind ==
  ASSUME Inv, NEW r \in Requests, stage[r] \in Begun
  PROVE  Doing(r) \in Kinds \ {"cancel"} /\ plan[r] \in RestOf(Doing(r))
BY HandlesAssumption, Zenon DEF Inv, At, Doing, Kinds

\* A request arrives: call() queues its first job, or refuses it.
LEMMA BeginKeeps ==
  ASSUME Inv, NEW r \in Requests, Begin(r)
  PROVE  Inv' /\ (Patient /\ Calm => Calm')
<1>1. stage[r] = "idle" /\ Kind[r] \in Kinds \ {"cancel"} /\ ~Pending(r) /\ r \notin cleanup
  BY HandlesAssumption, Zenon DEF Begin, Inv, At, Begun
<1>2. PICK t \in Targets(Kind[r]) : (Patient /\ t # None => Busy(t) = {})
                                    /\ target' = [target EXCEPT ![r] = t]
  BY Zenon DEF Begin
<1>3. t \in Requests \cup {None} /\ (t # None => t \in KnownStatements \cup KnownResults)
      /\ (Kind[r] \in {"execute", "update", "statement", "close_statement"} =>
            t \in Requests /\ Kind[t] = "new" /\ stage[t] = "ok")
      /\ (Kind[r] \in {"new", "connection", "metadata"} => t = None)
  BY <1>2, Zenon DEF Targets, KnownStatements, KnownResults
<1>4. HandlerMove(r)
  BY <1>1, <1>2 DEF Begin, Submit, Inv, HandlerTypes, HandlerMove, Still, handles
<1>5. /\ target'[r] = t /\ seen'[r] = KnownStatements \cup KnownResults /\ cleanup' = cleanup
      /\ plan'[r] = PlanOf(Kind[r]) /\ reply'[r] = "none"
      /\ stage'[r] = "waiting" \/ (stage'[r] = "error" /\ queue' = queue)
  BY <1>1, <1>2, ZenonT(30) DEF Begin, Submit, Inv, HandlerTypes
<1>6. PlanOf(Kind[r]) \in RestOf(Kind[r])
  BY <1>1, Plans, Zenon
<1>7. PlanOf(Kind[r]) \in Seq(Job)
  BY <1>1, <1>6, Rests, Zenon
<1>8. HandlerTypes'
  <2>1. target' \in [Requests -> Requests \cup {None}] /\ seen' \in [Requests -> SUBSET Requests]
    BY <1>2, <1>3, Zenon DEF Begin, Inv, HandlerTypes, KnownStatements, KnownResults
  <2>2. stage' \in [Requests -> Stage] /\ reply' \in [Requests -> {"none", "ok", "error"}]
    BY <1>1, ZenonT(30) DEF Begin, Submit, Inv, HandlerTypes, Stage
  <2>3. plan' \in [Requests -> Seq(Job)]
    BY <1>7, Zenon DEF Begin, Submit, Inv, HandlerTypes
  <2> QED
    BY <1>5, <2>1, <2>2, <2>3, Zenon DEF Inv, HandlerTypes
<1>9. At(r)'
  BY <1>1, <1>4, <1>5, <1>6, MovePending DEF At, Begun, Doing
<1>10. Names(r)'
  <2>1. t # r \/ t = None
    BY <1>1, <1>3, Zenon DEF KnownStatements, KnownResults
  <2> QED
    BY <1>3, <1>4, <1>5, <2>1, Zenon DEF Names, HandlerMove, Still
<1>11. Made(r)'
  BY <1>1, <1>4, <1>5, Zenon DEF Inv, Made, HandlerMove
<1>12. ASSUME Patient, Calm
       PROVE  Calm'
  <2>1. \A v \in Requests \ {r} : Still(v)
    BY <1>4, Zenon DEF HandlerMove
  <2>2. running' = running /\ running # r
    BY <1>1, <1>4, Zenon DEF HandlerMove, Pending
  <2>3. /\ Kind[r] = "execute" => Left(r)' = 4
        /\ Kind[r] = "close_statement" => Left(r)' = 2
        /\ reply'[r] = "none" /\ stage'[r] # "ok"
    BY <1>1, <1>5, Plans, Zenon DEF Left
  <2>6. Executing(r)'
    BY <2>3 DEF Executing
  <2>7. Closing(r)'
    BY <2>3 DEF Closing
  <2>4. \A v \in Requests : Seeing(v)'
    <3>1. Seeing(r)'
      BY <1>5, <2>1, Zenon DEF Seeing, Still, KnownResults
    <3>2. ASSUME NEW v \in Requests \ {r}
          PROVE  Seeing(v)'
      BY <1>5, <1>12, <2>1, <2>2, ZenonT(30) DEF Seeing, Still, Calm
    <3> QED
      BY <3>1, <3>2, Zenon
  <2>5. TurnsInv'
    <3>1. TurnsInv /\ running \in Requests \cup {None}
      BY <1>12, Zenon DEF Calm, Inv, WorkerTypes
    <3>2. \A v \in Requests : stage[v] = "waiting" => target[v] # t \/ t = None
      BY <1>2, <1>12, Zenon DEF Busy
    <3>3. ASSUME NEW c \in Requests, NEW e \in Requests, stage'[c] = "waiting",
                 stage'[e] = "waiting", target'[c] = target'[e], target'[c] # None
          PROVE  c = e
      BY <1>5, <2>1, <3>1, <3>2, <3>3 DEF TurnsInv, Still
    <3>4. ASSUME NEW e \in Requests, running # None, stage'[running] # "waiting",
                 stage'[e] = "waiting", target'[running] = target'[e], target'[e] # None
          PROVE  reply'[e] = "none" /\ plan'[e] = PlanOf(Kind[e]) /\ e \notin cleanup'
      <4>1. CASE e = r
        BY <1>1, <1>5, <4>1, Zenon
      <4>2. CASE e # r
        <5>1. Still(e) /\ Still(running)
          BY <2>1, <2>2, <3>1, <3>4, <4>2, Zenon
        <5> QED
          BY <3>1, <3>4, <5>1, Zenon DEF TurnsInv, Still
      <4> QED
        BY <4>1, <4>2, Zenon
    <3> QED
      BY <2>2, <3>3, <3>4, Zenon DEF TurnsInv
  <2> QED
    BY <1>4, <1>12, <2>4, <2>5, <2>6, <2>7, MoveCalm, Zenon
<1> QED
  BY <1>4, <1>8, <1>9, <1>10, <1>11, <1>12, MoveInv, Zenon

\* A handler has its reply and queues its next job.
LEMMA ProceedKeeps ==
  ASSUME Inv, NEW r \in Requests, Proceed(r)
  PROVE  Inv' /\ (Calm => Calm')
<1>1. stage[r] = "waiting" /\ reply[r] = "ok" /\ Len(plan[r]) > 1 /\ ~Pending(r)
  BY Zenon DEF Proceed, Inv, At
<1>2. /\ Tail(plan[r]) \in RestOf(Doing(r)) /\ Tail(plan[r]) \in Seq(Job)
      /\ Len(Tail(plan[r])) = Len(plan[r]) - 1 /\ Len(plan[r]) \in Nat
      /\ (Doing(r) = "close_statement" => Len(plan[r]) <= 2)
  <2>1. Doing(r) \in Kinds \ {"cancel"} /\ plan[r] \in RestOf(Doing(r))
    BY <1>1, DoingKind, Zenon DEF Begun
  <2>2. plan[r] \in Seq(Job) /\ Len(plan[r]) \in Nat
    BY <2>1, Rests
  <2>3. Tail(plan[r]) \in RestOf(Doing(r)) /\ Len(Tail(plan[r])) = Len(plan[r]) - 1
    BY <1>1, <2>1, Rests, Zenon
  <2>4. Tail(plan[r]) \in Seq(Job)
    BY <2>1, <2>3, Rests, Zenon
  <2>5. Doing(r) = "close_statement" => Len(plan[r]) <= 2
    BY <2>1, Rests, Zenon
  <2> QED
    BY <2>2, <2>3, <2>4, <2>5, Zenon
<1>3. HandlerMove(r)
  BY <1>1, Zenon DEF Proceed, Submit, Inv, HandlerTypes, HandlerMove, Still, handles
<1>4. /\ target' = target /\ seen' = seen /\ cleanup' = cleanup
      /\ plan'[r] = Tail(plan[r]) /\ reply'[r] = "none"
      /\ stage'[r] = "waiting" \/ (stage'[r] = (IF r \in cleanup THEN "failed" ELSE "error")
                                   /\ queue' = queue)
  BY Zenon DEF Proceed, Submit, Inv, HandlerTypes
<1>5. HandlerTypes'
  <2>1. stage' \in [Requests -> Stage] /\ reply' \in [Requests -> {"none", "ok", "error"}]
    BY Zenon DEF Proceed, Submit, Inv, HandlerTypes, Stage
  <2>2. plan' \in [Requests -> Seq(Job)]
    BY <1>2, Zenon DEF Proceed, Submit, Inv, HandlerTypes
  <2> QED
    BY <1>4, <2>1, <2>2, Zenon DEF Inv, HandlerTypes
<1>6. At(r)'
  <2>1. At(r) /\ (Pending(r)' => stage'[r] = "waiting" \/ queue' = queue)
    BY <1>4, Zenon DEF Inv
  <2>2. Pending(r)' => reply'[r] = "none" /\ stage'[r] \in Begun
    BY <1>1, <1>3, <1>4, MovePending, Zenon DEF Begun, Pending, HandlerMove
  <2> QED
    BY <1>1, <1>2, <1>4, <2>1, <2>2, Zenon DEF At, Begun, Doing
<1>7. Names(r)'
  <2>1. Names(r)
    BY Zenon DEF Inv
  <2> QED
    BY <1>1, <1>3, <1>4, <2>1, Zenon DEF Names, HandlerMove, Still
<1>8. Made(r)'
  <2>1. Made(r) /\ At(r)
    BY Zenon DEF Inv
  <2> QED
    BY <1>1, <1>3, <1>4, <2>1, Zenon DEF Made, At, HandlerMove, Left
<1>9. ASSUME Calm
      PROVE  Calm'
  <2>1. running' = running /\ running # r /\ statements' = statements /\ results' = results
        /\ owner' = owner
    BY <1>1, <1>3, Zenon DEF HandlerMove, Pending
  <2>2. Executing(r) /\ Closing(r)
    BY <1>9, Zenon DEF Calm
  <2>3. Left(r) \in Nat /\ Left(r)' = Left(r) - 1 /\ Left(r) > 1
        /\ (Doing(r) = "close_statement" => Left(r) <= 2)
    BY <1>1, <1>2, <1>4, Zenon DEF Left
  <2>4. Executing(r)'
    <3>2. stage[r] = "waiting" /\ reply[r] = "ok" /\ reply'[r] = "none" /\ target' = target
          /\ cleanup' = cleanup
      BY <1>1, <1>4, Zenon
    <3> QED
      BY <2>1, <2>2, <2>3, <3>2 DEF Executing, NoneOwnedBy
  <2>5. Closing(r)'
    <3>1. Kind[r] = "close_statement" => Left(r) = 2
      BY <2>3 DEF Inv, At, MakesHandle, Doing
    <3> QED
      BY <1>1, <1>4, <2>1, <2>2, <2>3, <3>1, Zenon DEF Closing
  <2>6. TurnsInv'
    BY <1>1, <1>3, <1>4, <1>9, MoveTurns, Zenon
  <2>7. \A v \in Requests : Seeing(v)'
    BY <1>1, <1>3, <1>4, <1>9, MoveSeeing, Zenon
  <2> QED
    BY <1>3, <1>9, <2>4, <2>5, <2>6, <2>7, MoveCalm, Zenon
<1> QED
  BY <1>3, <1>5, <1>6, <1>7, <1>8, <1>9, MoveInv, Zenon

\* A handler that ends: Fail, Respond and GiveUp.
LEMMA AnswerKeeps ==
  ASSUME Inv, NEW r \in Requests, NEW a \in Stage, stage[r] = "waiting", Answer(r, a),
         target' = target, cleanup' = cleanup, seen' = seen, running' = running,
         statements' = statements, results' = results, owner' = owner,
         a \in {"error", "ok"} => r \notin cleanup /\ ~Pending(r),
         a = "error" => reply[r] # "ok",
         a = "ok" => reply[r] = "ok" /\ Len(plan[r]) = 1,
         a \in {"timeout", "failed", "error", "ok"},
         a = "timeout" => r \notin cleanup
  PROVE  Inv' /\ (Calm => Calm')
<1>1. /\ stage'[r] = a /\ plan' = plan /\ reply' = reply /\ queue' = queue
      /\ \A v \in Requests \ {r} : stage'[v] = stage[v]
      /\ stage' \in [Requests -> Stage]
  BY Zenon DEF Answer, Inv, HandlerTypes
<1>2. HandlerMove(r)
  BY <1>1, Zenon DEF HandlerMove, Still
<1>3. HandlerTypes'
  BY <1>1, Zenon DEF Inv, HandlerTypes
<1>4. At(r)'
  <2>1. At(r) /\ Pending(r)' = Pending(r)
    BY <1>1, Zenon DEF Inv, Pending
  <2> QED
    BY <1>1, <2>1, Zenon DEF At, Begun, Doing
<1>5. Names(r)'
  <2>1. Names(r)
    BY Zenon DEF Inv
  <2> QED
    BY <1>1, <2>1, Zenon DEF Names
<1>6. Made(r)'
  <2>1. Made(r)
    BY Zenon DEF Inv
  <2> QED
    BY <1>1, <2>1, Zenon DEF Made
<1>7. ASSUME Calm
      PROVE  Calm'
  <2>1. Left(r)' = Left(r) /\ (a = "ok" => Left(r) = 1)
    BY <1>1, Zenon DEF Left
  <2>2. Executing(r)' /\ Closing(r)'
    <3>1. Executing(r) /\ Closing(r)
      BY <1>7, Zenon DEF Calm
    <3> QED
      BY <1>1, <2>1, <3>1, Zenon DEF Executing, Closing, NoneOwnedBy
  <2>3. TurnsInv'
    BY <1>1, <1>2, <1>7, MoveTurns, Zenon
  <2>4. \A v \in Requests : Seeing(v)'
    <3>1. CASE a # "ok"
      BY <1>1, <1>2, <1>7, <3>1, MoveSeeing, Zenon
    <3>2. CASE a = "ok"
      <4> SUFFICES ASSUME NEW v \in Requests, NEW x \in Requests,
                          stage'[v] = "waiting" \/ running = v, target[v] # None,
                          Kind[x] = "execute", target[x] = target[v], stage'[x] = "ok"
                   PROVE  x \in seen[v]
        BY Zenon DEF Seeing
      <4>1. v # r /\ stage'[v] = stage[v]
        BY <1>1, <3>2, Zenon DEF Pending
      <4>2. Seeing(v)
        BY <1>7, Zenon DEF Calm
      <4>3. CASE x # r
        BY <1>1, <4>1, <4>2, <4>3, Zenon DEF Seeing
      <4>4. CASE x = r
        <5>1. TurnsInv
          BY <1>7, Zenon DEF Calm
        <5>2. stage[v] # "waiting"
          BY <4>1, <4>4, <5>1, Zenon DEF TurnsInv
        <5>3. running = v /\ v # None
          BY <4>1, <5>2, HandlesAssumption, Zenon
        <5>4. reply[r] = "none"
          BY <4>4, <5>1, <5>2, <5>3, Zenon DEF TurnsInv
        <5> QED
          BY <3>2, <5>4, Zenon
      <4> QED
        BY <4>3, <4>4, Zenon
    <3> QED
      BY <3>1, <3>2, Zenon
  <2> QED
    BY <1>2, <1>7, <2>2, <2>3, <2>4, MoveCalm, Zenon
<1> QED
  BY <1>2, <1>3, <1>4, <1>5, <1>6, <1>7, MoveInv, Zenon

\* Fail, Respond and GiveUp are such ends.
LEMMA EndKeeps ==
  ASSUME Inv, NEW r \in Requests, Fail(r) \/ Respond(r) \/ GiveUp(r)
  PROVE  Inv' /\ (Calm => Calm')
<1>1. At(r)
  BY Zenon DEF Inv
<1>2. CASE Fail(r)
  <2> DEFINE a == IF r \in cleanup THEN "failed" ELSE "error"
  <2>1. Answer(r, a) /\ stage[r] = "waiting" /\ reply[r] = "error" /\ ~Pending(r)
    BY <1>1, <1>2, Zenon DEF Fail, At
  <2>2. a \in Stage /\ a \in {"timeout", "failed", "error", "ok"} /\ a \notin {"ok", "timeout"}
        /\ (a = "error" => r \notin cleanup)
    BY Zenon DEF Stage
  <2>3. /\ target' = target /\ cleanup' = cleanup /\ seen' = seen /\ running' = running
        /\ statements' = statements /\ results' = results /\ owner' = owner
    BY <1>2, Zenon DEF Fail, handles
  <2> HIDE DEF a
  <2> QED
    BY <2>1, <2>2, <2>3, AnswerKeeps, Zenon
<1>3. CASE Respond(r)
  <2> DEFINE a == IF r \in cleanup THEN "failed" ELSE "ok"
  <2>1. Answer(r, a) /\ stage[r] = "waiting" /\ reply[r] = "ok" /\ ~Pending(r)
        /\ Len(plan[r]) = 1
    BY <1>1, <1>3, Zenon DEF Respond, At
  <2>2. a \in Stage /\ a \in {"timeout", "failed", "error", "ok"} /\ a \notin {"error", "timeout"}
        /\ (a = "ok" => r \notin cleanup)
    BY Zenon DEF Stage
  <2>3. /\ target' = target /\ cleanup' = cleanup /\ seen' = seen /\ running' = running
        /\ statements' = statements /\ results' = results /\ owner' = owner
    BY <1>3, Zenon DEF Respond, handles
  <2> HIDE DEF a
  <2> QED
    BY <2>1, <2>2, <2>3, AnswerKeeps, Zenon
<1>4. CASE GiveUp(r)
  <2> DEFINE a == IF r \in cleanup THEN "failed" ELSE "timeout"
  <2>1. Answer(r, a) /\ stage[r] = "waiting"
    BY <1>4, Zenon DEF GiveUp
  <2>2. a \in Stage /\ a \in {"timeout", "failed", "error", "ok"} /\ a \notin {"error", "ok"}
        /\ (a = "timeout" => r \notin cleanup)
    BY Zenon DEF Stage
  <2>3. /\ target' = target /\ cleanup' = cleanup /\ seen' = seen /\ running' = running
        /\ statements' = statements /\ results' = results /\ owner' = owner
    BY <1>4, Zenon DEF GiveUp, handles
  <2> HIDE DEF a
  <2> QED
    BY <2>1, <2>2, <2>3, AnswerKeeps, Zenon
<1> QED
  BY <1>2, <1>3, <1>4, Zenon

\* handle_response() and result_response() undo what they cannot deliver.
LEMMA ResponseFailsKeeps ==
  ASSUME Inv, NEW r \in Requests, ResponseFails(r)
  PROVE  Inv' /\ (Calm => Calm')
<1>1. /\ stage[r] = "waiting" /\ reply[r] = "ok" /\ ~Pending(r) /\ MakesHandle(Kind[r])
      /\ r \notin cleanup /\ cleanup' = cleanup \cup {r}
  BY Zenon DEF ResponseFails, Inv, At
<1>2. HandlerMove(r)
  BY <1>1, Zenon DEF ResponseFails, Submit, Inv, HandlerTypes, HandlerMove, Still, handles
<1>3. /\ target' = target /\ seen' = seen
      /\ plan'[r] = CleanupOf(Kind[r]) /\ reply'[r] = "none"
      /\ stage'[r] = "waiting" \/ (stage'[r] = "failed" /\ queue' = queue)
  BY <1>1, Zenon DEF ResponseFails, Submit, Inv, HandlerTypes
<1>4. Doing(r)' \in {"close_statement", "close_result"} /\ Doing(r)' \in Kinds \ {"cancel"}
      /\ CleanupOf(Kind[r]) = PlanOf(Doing(r)')
  BY <1>1, Zenon DEF Doing, CleanupOf, PlanOf, Kinds
<1>5. CleanupOf(Kind[r]) \in RestOf(Doing(r)') /\ CleanupOf(Kind[r]) \in Seq(Job)
  BY <1>4, Plans, Rests
<1>6. HandlerTypes'
  <2>1. stage' \in [Requests -> Stage] /\ reply' \in [Requests -> {"none", "ok", "error"}]
    BY Zenon DEF ResponseFails, Submit, Inv, HandlerTypes, Stage
  <2>2. plan' \in [Requests -> Seq(Job)]
    BY <1>5, Zenon DEF ResponseFails, Submit, Inv, HandlerTypes
  <2> QED
    BY <1>1, <1>3, <2>1, <2>2, Zenon DEF Inv, HandlerTypes
<1>7. At(r)'
  <2>1. Kind[r] # "cancel" /\ (Pending(r)' => stage'[r] \in Begun)
    BY <1>1, <1>3, Zenon DEF MakesHandle, Begun
  <2> QED
    BY <1>1, <1>3, <1>5, <2>1, Zenon DEF At, Begun
<1>8. Names(r)'
  <2>1. Names(r)
    BY Zenon DEF Inv
  <2> QED
    BY <1>1, <1>2, <1>3, <2>1, Zenon DEF Names, HandlerMove, Still
<1>9. Made(r)'
  <2>1. Made(r)
    BY Zenon DEF Inv
  <2> QED
    BY <1>1, <1>2, <1>3, <2>1, Zenon DEF Made, HandlerMove
<1>10. ASSUME Calm
       PROVE  Calm'
  <2>1. Executing(r)' /\ Closing(r)'
    BY <1>1, Zenon DEF Executing, Closing, MakesHandle
  <2>2. TurnsInv'
    BY <1>1, <1>2, <1>3, <1>10, MoveTurns, Zenon
  <2>3. \A v \in Requests : Seeing(v)'
    BY <1>1, <1>2, <1>3, <1>10, MoveSeeing, Zenon
  <2> QED
    BY <1>2, <1>10, <2>1, <2>2, <2>3, MoveCalm, Zenon
<1> QED
  BY <1>2, <1>6, <1>7, <1>8, <1>9, <1>10, MoveInv, Zenon

\* cancel_statement(), its arrival and its end.
LEMMA CancelKeeps ==
  ASSUME Inv, NEW r \in Requests, BeginCancel(r) \/ CancelStatement(r)
  PROVE  Inv' /\ (Calm => Calm')
<1>1. /\ stage[r] \in {"idle", "cancelling"} /\ Kind[r] = "cancel" /\ ~Pending(r)
      /\ r \notin cleanup
  BY Zenon DEF BeginCancel, CancelStatement, Inv, At, Begun
<1>2. /\ stage'[r] \in {"cancelling", "ok", "error"}
      /\ stage' = [stage EXCEPT ![r] = stage'[r]]
  BY Zenon DEF BeginCancel, CancelStatement, Inv, HandlerTypes
<1>3. /\ plan' = plan /\ cleanup' = cleanup /\ seen' = seen /\ reply' = reply /\ queue' = queue
      /\ running' = running /\ statements' = statements /\ results' = results /\ owner' = owner
  BY Zenon DEF BeginCancel, CancelStatement, handles
<1>4. target' \in [Requests -> Requests \cup {None}]
      /\ \A v \in Requests \ {r} : target'[v] = target[v]
  <2>1. Targets(Kind[r]) \subseteq Requests /\ target \in [Requests -> Requests \cup {None}]
    BY <1>1, Zenon DEF Targets, KnownStatements, Inv, HandlerTypes
  <2>2. target' = target \/ \E t \in Targets(Kind[r]) : target' = [target EXCEPT ![r] = t]
    BY Zenon DEF BeginCancel, CancelStatement
  <2> QED
    BY <2>1, <2>2, Zenon
<1>5. \A v \in Requests \ {r} : stage'[v] = stage[v]
  BY <1>2, Zenon DEF Inv, HandlerTypes
<1>6. HandlerMove(r)
  BY <1>1, <1>3, <1>4, <1>5, Zenon DEF HandlerMove, Still
<1>7. HandlerTypes'
  <2>1. stage' \in [Requests -> Stage]
    <3>1. stage'[r] \in Stage /\ stage \in [Requests -> Stage]
      BY <1>2, Zenon DEF Inv, HandlerTypes, Stage
    <3> QED
      BY <1>2, <3>1, Zenon
  <2> QED
    BY <1>3, <1>4, <2>1, Zenon DEF Inv, HandlerTypes
<1>8. At(r)' /\ Names(r)'
  BY <1>1, <1>2, <1>3, Zenon DEF At, Names, Begun, Pending
<1>9. Made(r)'
  <2>1. Made(r)
    BY Zenon DEF Inv
  <2> QED
    BY <1>1, <1>3, <2>1, Zenon DEF Made
<1>10. ASSUME Calm
       PROVE  Calm'
  <2>1. Executing(r)' /\ Closing(r)'
    BY <1>1, Zenon DEF Executing, Closing
  <2>2. TurnsInv'
    BY <1>1, <1>2, <1>6, <1>10, MoveTurns, Zenon
  <2>3. \A v \in Requests : Seeing(v)'
    <3>1. running # r /\ stage'[r] # "waiting"
      BY <1>1, <1>2, Zenon DEF Pending
    <3>2. \A v \in Requests : Seeing(v)
      BY <1>10, Zenon DEF Calm
    <3> QED
      BY <1>1, <1>3, <1>4, <1>5, <3>1, <3>2, Zenon DEF Seeing
  <2> QED
    BY <1>6, <1>10, <2>1, <2>2, <2>3, MoveCalm, Zenon
<1> QED
  BY <1>6, <1>7, <1>8, <1>9, <1>10, MoveInv, Zenon

--------------------------------------------------------------------------------
(* Steps of the worker.                                                     *)

\* The worker takes a job, or passes over one whose caller has given up.
LEMMA StartJobKeeps ==
  ASSUME Inv, StartJob
  PROVE  Inv' /\ (Calm => Calm')
<1> DEFINE h == Head(queue)
<1>1. /\ running = None /\ queue \in Seq(Requests) /\ queue # <<>> /\ queue' = Tail(queue)
      /\ Len(queue) <= QueueBound
      /\ (running' = h /\ stage[h] = "waiting") \/ running' = None
  BY Zenon DEF StartJob, Inv, WorkerTypes
<1>2. /\ h \in Requests /\ h = queue[1] /\ Len(queue) >= 1 /\ queue' \in Seq(Requests)
      /\ Len(queue') = Len(queue) - 1
      /\ \A i \in 1..Len(queue') : i + 1 \in 1..Len(queue) /\ queue'[i] = queue[i + 1]
  BY <1>1
<1>3. /\ stage' = stage /\ target' = target /\ plan' = plan /\ cleanup' = cleanup
      /\ seen' = seen /\ reply' = reply
      /\ statements' = statements /\ results' = results /\ owner' = owner
  BY Zenon DEF StartJob, handlers, handles
<1> HIDE DEF h
<1>4. WorkerTypes' /\ QueueInv'
  <2>1. WorkerTypes'
    BY <1>1, <1>2, HandlesAssumption DEF WorkerTypes
  <2>2. /\ \A i, j \in 1..Len(queue) : queue[i] = queue[j] => i = j
        /\ 1 \in 1..Len(queue) /\ \A i \in 1..Len(queue') : i + 1 # 1 /\ i \in Nat
    BY <1>1, <1>2 DEF Inv, QueueInv
  <2>3. \A i, j \in 1..Len(queue') : queue'[i] = queue'[j] => i = j
    BY <1>2, <2>2
  <2>4. \A i \in 1..Len(queue') : queue'[i] # h /\ queue'[i] # None
    BY <1>1, <1>2, <2>2, HandlesAssumption
  <2> QED
    BY <1>1, <2>1, <2>3, <2>4, Zenon DEF QueueInv
<1>5. \A v \in Requests : Pending(v)' => Pending(v)
  BY <1>1, <1>2, HandlesAssumption DEF Pending
<1>6. ASSUME NEW v \in Requests
      PROVE  At(v)' /\ Names(v)' /\ Made(v)'
  <2>1. At(v) /\ Names(v) /\ Made(v)
    BY Zenon DEF Inv
  <2> QED
    BY <1>3, <1>5, <2>1, Zenon DEF At, Names, Made, Doing, Left
<1>7. HandlerTypes' /\ HandleTypes'
  BY <1>3, Zenon DEF Inv, HandlerTypes, HandleTypes
<1>8. ASSUME Calm
      PROVE  Calm'
  <2>1. OwnersInv'
    BY <1>3, <1>8, Zenon DEF Calm, OwnersInv
  <2>2. TurnsInv'
    BY <1>1, <1>3, <1>8, Zenon DEF Calm, TurnsInv
  <2>3. ASSUME NEW v \in Requests
        PROVE  Executing(v)' /\ Closing(v)' /\ Seeing(v)'
    <3>1. Executing(v) /\ Closing(v) /\ Seeing(v)
      BY <1>8, Zenon DEF Calm
    <3>2. running' = v => stage[v] = "waiting"
      BY <1>1, HandlesAssumption, Zenon
    <3> QED
      BY <1>3, <3>1, <3>2, Zenon DEF Executing, Closing, Seeing, NoneOwnedBy, Left
  <2> QED
    BY <2>1, <2>2, <2>3, Zenon DEF Calm
<1> QED
  BY <1>4, <1>6, <1>7, <1>8, Zenon DEF Inv

\* What is known of the job the worker is at.
LEMMA JobFacts ==
  ASSUME Inv, NEW r \in Requests, running = r
  PROVE  /\ reply[r] = "none" /\ stage[r] \in Begun
         /\ Left(r) \in Nat /\ Left(r) >= 1
         /\ Head(plan[r]) = "create" =>
              r \notin cleanup /\ Kind[r] = "new" /\ Left(r) = 1
         /\ Head(plan[r]) = "insert" =>
              /\ r \notin cleanup /\ Kind[r] \in {"execute", "metadata"}
              /\ Left(r) = 1
         /\ Head(plan[r]) = "remove" => Kind[r] # "execute" \/ r \in cleanup
         /\ Head(plan[r]) = "invalidate" /\ r \notin cleanup =>
              Kind[r] \in {"execute", "update", "close_statement"}
         /\ Kind[r] = "execute" /\ r \notin cleanup =>
              /\ Left(r) = 3 => Head(plan[r]) = "run"
              /\ Left(r) = 2 => Head(plan[r]) = "invalidate"
         /\ Kind[r] = "close_statement" =>
              /\ r \notin cleanup /\ Left(r) <= 2
              /\ Left(r) = 2 => Head(plan[r]) = "remove"
              /\ Left(r) = 1 => Head(plan[r]) = "invalidate"
<1>1. reply[r] = "none" /\ stage[r] \in Begun
  BY Zenon DEF Inv, WorkerTypes, At, Pending
<1>2. Doing(r) \in Kinds \ {"cancel"} /\ plan[r] \in RestOf(Doing(r))
  BY <1>1, DoingKind, Zenon
<1> DEFINE p == plan[r]
           k == Doing(r)
<1>3. /\ p \in Seq(Job) /\ Len(p) >= 1
      /\ Head(p) = "create" => k = "new" /\ Len(p) = 1
      /\ Head(p) = "insert" => k \in {"execute", "metadata"} /\ Len(p) = 1
      /\ Head(p) = "remove" => k = "close_statement"
      /\ Head(p) = "invalidate" => k \in {"execute", "update", "close_statement"}
      /\ k = "execute" /\ Len(p) = 3 => Head(p) = "run"
      /\ k = "execute" /\ Len(p) = 2 => Head(p) = "invalidate"
      /\ k = "close_statement" => Len(p) <= 2
      /\ k = "close_statement" /\ Len(p) = 2 => Head(p) = "remove"
      /\ k = "close_statement" /\ Len(p) = 1 => Head(p) = "invalidate"
  BY <1>2, Rests, ZenonT(30)
<1>4. /\ r \notin cleanup => k = Kind[r]
      /\ r \in cleanup => k \in {"close_statement", "close_result"}
      /\ Kind[r] = "close_statement" => r \notin cleanup
  BY <1>1, Zenon DEF Doing, Inv, At, MakesHandle
<1>5. Left(r) = Len(p) /\ Len(p) \in Nat
  BY <1>3 DEF Left
<1> HIDE DEF p, k
<1>6. p = plan[r]
  BY Zenon DEF p
<1> QED
  BY <1>1, <1>3, <1>4, <1>5, <1>6, Zenon

\* The end of a job, but for its effect on the registries.
LEMMA DoneKeeps ==
  ASSUME Inv, NEW r \in Requests, running = r, NEW a \in {"ok", "error"}, Done(r, a)
  PROVE  /\ HandlerTypes' /\ WorkerTypes' /\ QueueInv'
         /\ \A v \in Requests : At(v)' /\ Names(v)' /\ Left(v)' = Left(v)
         /\ stage' = stage /\ target' = target /\ plan' = plan /\ cleanup' = cleanup
         /\ running' = None /\ reply'[r] = a
         /\ \A v \in Requests \ {r} : reply'[v] = reply[v]
         /\ Calm => TurnsInv' /\ \A v \in Requests : Seeing(v)'
<1>2. /\ stage' = stage /\ target' = target /\ plan' = plan /\ cleanup' = cleanup
      /\ seen' = seen /\ queue' = queue /\ running' = None
  BY Zenon DEF Done
<1>3. /\ reply'[r] = a /\ reply' \in [Requests -> {"none", "ok", "error"}]
      /\ \A v \in Requests \ {r} : reply'[v] = reply[v]
  BY Zenon DEF Done, Inv, HandlerTypes
<1>4. HandlerTypes' /\ WorkerTypes'
  BY <1>2, <1>3, Zenon DEF Inv, HandlerTypes, WorkerTypes
<1>5. QueueInv' /\ (\A v \in Requests : Pending(v)' => Pending(v) /\ v # r)
  <2>1. \A i \in 1..Len(queue) : queue[i] \in Requests /\ queue[i] # r
    BY DEF Inv, QueueInv, WorkerTypes
  <2> QED
    BY <1>2, <2>1, HandlesAssumption DEF Inv, QueueInv, Pending
<1>6. ASSUME NEW v \in Requests
      PROVE  At(v)' /\ Names(v)' /\ Left(v)' = Left(v)
  <2>1. At(v) /\ Names(v)
    BY Zenon DEF Inv
  <2> QED
    BY <1>2, <1>3, <1>5, <2>1, Zenon DEF At, Names, Doing, Left
<1>7. Calm => TurnsInv' /\ \A v \in Requests : Seeing(v)'
  BY <1>2, HandlesAssumption, Zenon DEF Calm, TurnsInv, Seeing
<1> QED
  BY <1>2, <1>3, <1>4, <1>5, <1>6, <1>7, Zenon

\* A job that adds no handle.
LEMMA ShrinkKeeps ==
  ASSUME Inv, NEW r \in Requests, running = r, NEW a \in {"ok", "error"}, Done(r, a),
         statements' \subseteq statements, results' \subseteq results, owner' = owner,
         \A s \in statements \ statements' :
           Head(plan[r]) = "remove" /\ s = Subject(r),
         Head(plan[r]) = "run" /\ a = "ok" => target[r] \in statements,
         Head(plan[r]) = "invalidate" => \A x \in results' : owner[x] # Subject(r),
         Head(plan[r]) = "remove" => Subject(r) \notin statements',
         Head(plan[r]) = "insert" => a = "error"
  PROVE  Inv' /\ (Calm => Calm')
<1>1. /\ reply[r] = "none" /\ stage[r] \in Begun
      /\ Left(r) \in Nat /\ Left(r) >= 1
  BY JobFacts, Zenon
<1>2. HandleTypes'
  BY Zenon DEF Inv, HandleTypes
<1>3. \A v \in Requests : Made(v)'
  <2> SUFFICES ASSUME NEW v \in Requests
               PROVE  Made(v)'
    BY Zenon
  <2>1. Made(v) /\ stage' = stage /\ target' = target /\ cleanup' = cleanup /\ Left(v)' = Left(v)
        /\ (v # r => reply'[v] = reply[v])
    BY DoneKeeps, Zenon DEF Inv
  <2> QED
    BY <1>1, <2>1, Zenon DEF Made
<1>4. Inv'
  BY <1>2, <1>3, DoneKeeps, Zenon DEF Inv
<1>5. ASSUME Calm
      PROVE  Calm'
  <2>1. OwnersInv'
    BY <1>5, Zenon DEF Calm, OwnersInv
  <2>2. /\ stage' = stage /\ target' = target /\ cleanup' = cleanup /\ running' = None
        /\ reply'[r] = a /\ Left(r)' = Left(r)
    BY <1>1, DoneKeeps, Zenon
  <2>3. Executing(r)' /\ Closing(r)'
    <3>1. Executing(r) /\ Closing(r)
      BY <1>1, <1>5, Zenon DEF Calm
    <3>2. Executing(r)'
      <4> SUFFICES ASSUME Kind[r] = "execute", r \notin cleanup
                   PROVE  /\ Left(r) <= 2 \/ (Left(r) = 3 /\ a = "ok") => target[r] \in statements'
                          /\ (Left(r) = 1 /\ a # "ok") \/ (Left(r) = 2 /\ a = "ok") =>
                               \A x \in results' : owner[x] # target[r]
        BY <2>2, Zenon DEF Executing, NoneOwnedBy
      <4>1. Subject(r) = target[r]
        BY Zenon DEF Subject
      <4>2. /\ Head(plan[r]) # "remove" /\ (Left(r) = 3 => Head(plan[r]) = "run")
            /\ (Left(r) = 2 => Head(plan[r]) = "invalidate")
        BY JobFacts, Zenon
      <4>3. Left(r) <= 2 \/ (Left(r) = 3 /\ a = "ok") => target[r] \in statements'
        BY <1>1, <3>1, <4>2, Zenon DEF Executing
      <4>4. Left(r) = 1 => \A x \in results' : owner[x] # target[r]
        BY <1>1, <3>1, Zenon DEF Executing, NoneOwnedBy
      <4> QED
        BY <4>1, <4>2, <4>3, <4>4, Zenon
    <3>3. Closing(r)'
      <4> SUFFICES ASSUME Kind[r] = "close_statement", stage[r] = "waiting"
                   PROVE  /\ Left(r) = 1 \/ a = "ok" => target[r] \notin statements'
                          /\ Left(r) = 1 => \A x \in results' : owner[x] # target[r]
        BY <1>1, <2>2, Zenon DEF Closing, NoneOwnedBy, Begun
      <4>1. /\ Subject(r) = target[r] /\ Left(r) <= 2
            /\ (Left(r) = 2 => Head(plan[r]) = "remove")
            /\ (Left(r) = 1 => Head(plan[r]) = "invalidate")
        BY JobFacts, Zenon DEF Subject
      <4>2. Left(r) = 1 => target[r] \notin statements'
        BY <3>1, Zenon DEF Closing
      <4> QED
        BY <1>1, <4>1, <4>2
    <3> QED
      BY <3>2, <3>3, Zenon
  <2>4. ASSUME NEW v \in Requests \ {r}
        PROVE  Executing(v)' /\ Closing(v)'
    <3>1. Executing(v) /\ Closing(v) /\ Left(v)' = Left(v) /\ reply'[v] = reply[v]
      BY <1>5, DoneKeeps, Zenon DEF Calm
    <3>2. Closing(v)'
      BY <2>2, <3>1, Zenon DEF Closing, NoneOwnedBy
    <3>3. Executing(v)'
      <4> SUFFICES ASSUME stage[v] = "waiting", Kind[v] = "execute", v \notin cleanup
                   PROVE  /\ Left(v) <= 2 \/ (Left(v) = 3 /\ reply[v] = "ok") =>
                               target[v] \in statements'
                          /\ (Left(v) = 1 /\ reply[v] # "ok") \/ (Left(v) = 2 /\ reply[v] = "ok") =>
                               \A x \in results' : owner[x] # target[v]
        BY <2>2, <3>1, HandlesAssumption, Zenon DEF Executing, NoneOwnedBy
      <4>1. (Left(v) = 1 /\ reply[v] # "ok") \/ (Left(v) = 2 /\ reply[v] = "ok") =>
              \A x \in results' : owner[x] # target[v]
        BY <3>1, Zenon DEF Executing, NoneOwnedBy
      <4>2. ASSUME Left(v) <= 2 \/ (Left(v) = 3 /\ reply[v] = "ok"), target[v] \notin statements'
            PROVE  FALSE
        <5>1. target[v] \in statements
          BY <3>1, <4>2, Zenon DEF Executing
        <5>2. target[v] = Subject(r)
          BY <4>2, <5>1, Zenon
        <5>3. Names(v) /\ target[v] \in Requests /\ target[v] # None /\ stage[target[v]] = "ok"
          BY HandlesAssumption DEF Inv, Names
        <5>4. r \notin cleanup /\ target[r] = target[v]
          BY <1>1, <5>2, <5>3, Zenon DEF Subject, Begun
        <5>5. TurnsInv
          BY <1>5, Zenon DEF Calm
        <5>6. stage[r] # "waiting"
          BY <1>1, <5>3, <5>4, <5>5, Zenon DEF TurnsInv
        <5>7. plan[v] = PlanOf("execute")
          BY <5>3, <5>4, <5>5, <5>6, HandlesAssumption, Zenon DEF TurnsInv
        <5>8. Left(v) = 4
          BY <5>7, Plans, Zenon DEF Left, Kinds
        <5> QED
          BY <4>2, <5>8
      <4> QED
        BY <4>1, <4>2, Zenon
    <3> QED
      BY <3>2, <3>3, Zenon
  <2> QED
    BY <1>5, <2>1, <2>3, <2>4, DoneKeeps, Zenon DEF Calm
<1> QED
  BY <1>4, <1>5, Zenon

\* new_statement() registers the statement.
LEMMA CreateKeeps ==
  ASSUME Inv, NEW r \in Requests, running = r, Head(plan[r]) = "create", Done(r, "ok"),
         statements' = statements \cup {r},
         results' = results, owner' = owner
  PROVE  Inv' /\ (Calm => Calm')
<1>1. /\ reply[r] = "none" /\ stage[r] \in Begun /\ r \notin cleanup /\ Kind[r] = "new"
      /\ Left(r) = 1
  BY JobFacts, Zenon
<1>2. /\ stage' = stage /\ target' = target /\ cleanup' = cleanup /\ running' = None
      /\ reply'[r] = "ok" /\ \A v \in Requests \ {r} : reply'[v] = reply[v]
      /\ \A v \in Requests : Left(v)' = Left(v)
  BY DoneKeeps, Zenon
<1>3. HandleTypes'
  BY Zenon DEF Inv, HandleTypes
<1>4. \A v \in Requests : Made(v)'
  <2> SUFFICES ASSUME NEW v \in Requests
               PROVE  Made(v)'
    BY Zenon
  <2>1. Made(v)
    BY Zenon DEF Inv
  <2> QED
    BY <1>1, <1>2, <2>1 DEF Made, Begun
<1>5. Inv'
  BY <1>3, <1>4, DoneKeeps, Zenon DEF Inv
<1>6. ASSUME Calm
      PROVE  Calm'
  <2>1. OwnersInv'
    BY <1>6, Zenon DEF Calm, OwnersInv
  <2>2. ASSUME NEW v \in Requests
        PROVE  Executing(v)' /\ Closing(v)'
    <3>1. Executing(v) /\ Closing(v) /\ Names(v)
      BY <1>6, Zenon DEF Calm, Inv
    <3>2. v # r => reply'[v] = reply[v]
      BY <1>2, Zenon
    <3>3. Executing(v)'
      BY <1>1, <1>2, <3>1, <3>2, HandlesAssumption, Zenon DEF Executing, NoneOwnedBy
    <3>4. Kind[v] = "close_statement" /\ stage[v] # "idle" => target[v] # r
      BY <1>1, <3>1, Zenon DEF Names, Begun
    <3>5. Closing(v)'
      BY <1>1, <1>2, <3>1, <3>2, <3>4, Zenon DEF Closing, NoneOwnedBy
    <3> QED
      BY <3>3, <3>5, Zenon
  <2> QED
    BY <1>6, <2>1, <2>2, DoneKeeps, Zenon DEF Calm
<1> QED
  BY <1>5, <1>6, Zenon

\* insert_owned_result() and insert_result() register a result.
LEMMA InsertKeeps ==
  ASSUME Inv, NEW r \in Requests, running = r, Head(plan[r]) = "insert", Done(r, "ok"),
         results' = results \cup {r},
         owner' = [owner EXCEPT ![r] = target[r]], statements' = statements
  PROVE  Inv' /\ (Calm => Calm')
<1>1. /\ reply[r] = "none" /\ stage[r] \in Begun /\ r \notin cleanup
      /\ Kind[r] \in {"execute", "metadata"} /\ Left(r) = 1
  BY JobFacts, Zenon
<1>2. /\ stage' = stage /\ target' = target /\ cleanup' = cleanup /\ running' = None
      /\ reply'[r] = "ok" /\ \A v \in Requests \ {r} : reply'[v] = reply[v]
      /\ \A v \in Requests : Left(v)' = Left(v)
  BY DoneKeeps, Zenon
<1>3. /\ owner' \in [Requests -> Requests \cup {None}] /\ owner'[r] = target[r]
      /\ \A x \in Requests \ {r} : owner'[x] = owner[x]
  BY Zenon DEF Inv, HandleTypes, HandlerTypes
<1>4. HandleTypes'
  BY <1>3, Zenon DEF Inv, HandleTypes
<1>5. \A v \in Requests : Made(v)'
  <2> SUFFICES ASSUME NEW v \in Requests
               PROVE  Made(v)'
    BY Zenon
  <2>1. Made(v)
    BY Zenon DEF Inv
  <2>2. CASE v = r
    BY <1>1, <1>2, <1>3, <2>1, <2>2 DEF Made, Begun
  <2>3. CASE v # r
    BY <1>2, <1>3, <2>1, <2>3, Zenon DEF Made
  <2> QED
    BY <2>2, <2>3, Zenon
<1>6. Inv'
  BY <1>4, <1>5, DoneKeeps, Zenon DEF Inv
<1>7. ASSUME Calm
      PROVE  Calm'
  <2>1. Names(r) /\ Executing(r) /\ TurnsInv /\ results \subseteq Requests /\ r # None
    BY <1>7, HandlesAssumption, Zenon DEF Inv, HandleTypes, Calm
  <2>2. target[r] # None =>
          Kind[r] = "execute" /\ target[r] \in statements /\ NoneOwnedBy(target[r])
    BY <1>1, <2>1 DEF Names, Executing
  <2>3. OwnersInv'
    <3>1. \A x, y \in results : owner[x] = owner[y] /\ owner[x] # None => x = y
      BY <1>7, Zenon DEF Calm, OwnersInv
    <3> QED
      BY <1>3, <2>1, <2>2, <3>1 DEF OwnersInv, NoneOwnedBy
  <2>4. ASSUME NEW v \in Requests
        PROVE  Executing(v)'
    <3>1. CASE v = r
      BY <1>1, <1>2, <2>1, <2>2, <3>1 DEF Executing, Names
    <3>2. CASE v # r
      <4>1. Executing(v) /\ Names(v) /\ reply'[v] = reply[v] /\ Left(v)' = Left(v)
        BY <1>2, <1>7, <3>2, Zenon DEF Calm, Inv
      <4>2. ASSUME stage[v] = "waiting", Kind[v] = "execute", v \notin cleanup,
                   target[v] = target[r]
            PROVE  Left(v) = 4
        <5>1. target[v] # None /\ stage[r] # "waiting"
          BY <2>1, <3>2, <4>1, <4>2, HandlesAssumption, Zenon DEF Names, TurnsInv
        <5>2. plan[v] = PlanOf("execute")
          BY <2>1, <4>2, <5>1, Zenon DEF TurnsInv
        <5> QED
          BY <5>2, Plans, Zenon DEF Left, Kinds
      <4>3. ASSUME stage[v] = "waiting", Kind[v] = "execute", v \notin cleanup,
                   (Left(v) = 1 /\ reply[v] # "ok") \/ (Left(v) = 2 /\ reply[v] = "ok")
            PROVE  \A x \in results' : owner'[x] # target[v]
        <5>1. target[v] # target[r]
          BY <4>2, <4>3
        <5>2. \A x \in results : owner[x] # target[v]
          BY <4>1, <4>3, Zenon DEF Executing, NoneOwnedBy
        <5> QED
          BY <1>3, <2>1, <5>1, <5>2, Zenon
      <4> QED
        BY <1>2, <4>1, <4>3, HandlesAssumption, Zenon DEF Executing, NoneOwnedBy
    <3> QED
      BY <3>1, <3>2, Zenon
  <2>5. ASSUME NEW v \in Requests
        PROVE  Closing(v)'
    <3>1. Closing(v) /\ Names(v) /\ (v # r => reply'[v] = reply[v])
      BY <1>2, <1>7, Zenon DEF Calm, Inv
    <3>2. ASSUME Kind[v] = "close_statement", v # r, target[v] \notin statements,
                 NoneOwnedBy(target[v]), stage[v] # "idle"
          PROVE  \A x \in results' : owner'[x] # target[v]
      <4>1. target[v] # target[r]
        BY <2>2, <3>1, <3>2, HandlesAssumption, Zenon DEF Names
      <4> QED
        BY <1>3, <2>1, <3>2, <4>1, Zenon DEF NoneOwnedBy
    <3>3. Kind[v] = "close_statement" => v # r
      BY <1>1, Zenon
    <3> QED
      BY <1>2, <3>1, <3>2, <3>3, Zenon DEF Closing, NoneOwnedBy
  <2> QED
    BY <1>7, <2>3, <2>4, <2>5, DoneKeeps, Zenon DEF Calm
<1> QED
  BY <1>6, <1>7, Zenon

\* The worker ends a job, whichever it is.
LEMMA FinishJobKeeps ==
  ASSUME Inv, FinishJob
  PROVE  Inv' /\ (Calm => Calm')
<1>1. PICK r \in Requests : running = r
  BY Zenon DEF FinishJob, Inv, WorkerTypes
<1>2. CASE Head(plan[r]) = "create" /\ Create(r)
  <2>1. CASE Done(r, "error") /\ UNCHANGED handles
    BY <1>1, <1>2, <2>1, ShrinkKeeps, Zenon DEF handles
  <2>2. CASE statements' = statements \cup {r}
             /\ results' = results /\ owner' = owner /\ Done(r, "ok")
    BY <1>1, <1>2, <2>2, CreateKeeps, Zenon
  <2> QED
    BY <1>2, <2>1, <2>2, Zenon DEF Create
<1>3. CASE Head(plan[r]) = "connection" /\ UseConnection(r)
  <2>1. PICK a \in {"ok", "error"} : Done(r, a)
    BY <1>3, Zenon DEF UseConnection
  <2> QED
    BY <1>1, <1>3, <2>1, ShrinkKeeps, Zenon DEF UseConnection, handles
<1>4. CASE Head(plan[r]) = "run" /\ Run(r)
  <2>1. PICK a \in {"ok", "error"} : Done(r, a) /\ (a = "ok" => target[r] \in statements)
    BY <1>4, Zenon DEF Run
  <2> QED
    BY <1>1, <1>4, <2>1, ShrinkKeeps, Zenon DEF Run, handles
<1>5. CASE Head(plan[r]) = "invalidate" /\ Invalidate(r)
  <2>1. /\ Done(r, "ok") /\ statements' = statements /\ owner' = owner
        /\ results' \subseteq results /\ \A x \in results' : owner[x] # Subject(r)
    BY <1>5, Zenon DEF Invalidate, ResultsOf
  <2> QED
    BY <1>1, <1>5, <2>1, ShrinkKeeps, Zenon
<1>6. CASE Head(plan[r]) = "insert" /\ Insert(r)
  <2>1. CASE Cardinality(results) >= MaxResults
    <3>1. Done(r, "error") /\ UNCHANGED handles
      BY <1>6, <2>1, Zenon DEF Insert
    <3> QED
      BY <1>1, <1>6, <3>1, ShrinkKeeps, Zenon DEF handles
  <2>2. CASE ~(Cardinality(results) >= MaxResults)
    <3>1. /\ Done(r, "ok") /\ results' = results \cup {r} /\ statements' = statements
          /\ owner' = [owner EXCEPT ![r] = target[r]]
      BY <1>6, <2>2, Zenon DEF Insert
    <3> QED
      BY <1>1, <1>6, <3>1, InsertKeeps, Zenon
  <2> QED
    BY <2>1, <2>2, Zenon
<1>7. CASE Head(plan[r]) = "remove" /\ RemoveStatement(r)
  <2>1. PICK a \in {"ok", "error"} : Done(r, a)
    BY <1>7, Zenon DEF RemoveStatement
  <2> QED
    BY <1>1, <1>7, <2>1, ShrinkKeeps, Zenon DEF RemoveStatement
<1>8. CASE Head(plan[r]) = "close" /\ CloseResult(r)
  <2>1. PICK a \in {"ok", "error"} : Done(r, a)
    BY <1>8, Zenon DEF CloseResult
  <2> QED
    BY <1>1, <1>8, <2>1, ShrinkKeeps, Zenon DEF CloseResult
<1> QED
  BY <1>1, <1>2, <1>3, <1>4, <1>5, <1>6, <1>7, <1>8, Zenon DEF FinishJob

--------------------------------------------------------------------------------
\* A new session has no handles and no requests.
LEMMA InitKeeps ==
  ASSUME Init
  PROVE  Inv /\ Calm
<1>1. QueueInv /\ \A r \in Requests : ~Pending(r)
  BY HandlesAssumption DEF Init, QueueInv, Pending
<1>2. HandlerTypes /\ WorkerTypes
  BY HandlesAssumption DEF Init, HandlerTypes, WorkerTypes, Stage
<1>3. HandleTypes
  BY Zenon DEF Init, HandleTypes
<1>4. \A r \in Requests : At(r) /\ Names(r) /\ Made(r)
  BY <1>1, Zenon DEF Init, At, Names, Made, Begun
<1>5. Calm
  BY HandlesAssumption, Zenon DEF Init, Calm, TurnsInv, OwnersInv, Executing, Closing, Seeing
<1> QED
  BY <1>1, <1>2, <1>3, <1>4, <1>5, Zenon DEF Inv

\* Every step keeps the invariant and, with patient clients, Calm.
LEMMA NextKeeps ==
  ASSUME Inv, workload \in Workloads, [Next]_vars
  PROVE  Inv' /\ workload' \in Workloads /\ (Patient /\ Calm => Calm')
<1>1. CASE Next
  <2>1. workload \subseteq Requests /\ workload' = workload
    BY <1>1, HandlesAssumption, Zenon DEF Next
  <2>2. ASSUME NEW r \in Requests,
               Begin(r) \/ BeginCancel(r) \/ HandlerStep(r) \/ CancelStatement(r)
        PROVE  Inv' /\ (Patient /\ Calm => Calm')
    BY <2>2, BeginKeeps, ProceedKeeps, EndKeeps, ResponseFailsKeeps, CancelKeeps, Zenon DEF
       HandlerStep
  <2> QED
    BY <1>1, <2>1, <2>2, StartJobKeeps, FinishJobKeeps, Zenon DEF Next
<1>2. CASE UNCHANGED vars
  <2>1. Inv'
    <3>1. HandlerTypes' /\ WorkerTypes' /\ HandleTypes' /\ QueueInv'
      BY <1>2, Zenon DEF vars, Inv, HandlerTypes, WorkerTypes, HandleTypes, QueueInv
    <3>2. \A r \in Requests : At(r)' /\ Names(r)' /\ Made(r)'
      BY <1>2, SMTT(30) DEF vars, Inv, At, Names, Made, Pending, Doing, Left
    <3> QED
      BY <3>1, <3>2, Zenon DEF Inv
  <2>2. Calm => Calm'
    BY <1>2 DEF vars, Calm, TurnsInv, OwnersInv, Executing, Closing, Seeing, Left, NoneOwnedBy
  <2>3. workload' = workload
    BY <1>2, Zenon DEF vars
  <2> QED
    BY <2>1, <2>2, <2>3, Zenon
<1> QED
  BY <1>1, <1>2, Zenon

\* The invariant of the handlers and the worker, whether clients wait or not.
THEOREM Invariant == Spec => []Inv
<1>1. Init => Inv /\ workload \in Workloads
  BY InitKeeps, Zenon DEF Init
<1>2. Inv /\ workload \in Workloads /\ [Next]_vars => Inv' /\ (workload \in Workloads)'
  BY NextKeeps, Zenon
<1> QED
  BY <1>1, <1>2, PTL DEF Spec

\* A request that new_statement(), execute() or a metadata method answered with an
\* error has left no statement and no cursor behind, whatever else was going on.
THEOREM ErrorsLeaveNothing == Spec => []NothingLeftByError
<1>1. Inv => NothingLeftByError
  BY Zenon DEF Inv, Made, NothingLeftByError
<1> QED
  BY <1>1, Invariant, PTL

\* With patient clients, Calm holds too.
THEOREM Calmness ==
  ASSUME Patient
  PROVE  Spec => []Calm
<1>1. Init => Inv /\ Calm /\ workload \in Workloads
  BY InitKeeps, Zenon DEF Init
<1>2. Inv /\ Calm /\ workload \in Workloads /\ [Next]_vars
        => Inv' /\ Calm' /\ (workload \in Workloads)'
  BY NextKeeps, Zenon
<1> QED
  BY <1>1, <1>2, PTL DEF Spec

\* After close_statement() has answered, neither the statement nor a result of it
\* is there, then or later: no late insertion brings one back.
THEOREM ClosedStaysClean ==
  ASSUME Patient
  PROVE  Spec => []ClosedIsClean
<1>1. Calm => ClosedIsClean
  BY Zenon DEF Calm, Closing, NoneOwnedBy, ClosedIsClean, ResultsOf
<1> QED
  BY <1>1, Calmness, PTL

\* A handle that was delivered is taken away only by a request that began after
\* the delivery.
THEOREM DeliveriesSurvive ==
  ASSUME Patient
  PROVE  Spec => DeliveredSurvive
<1>1. ASSUME Inv, Calm, [Next]_vars
      PROVE  [\A h \in (statements \cup results) \ (statements' \cup results') :
                stage[h] = "ok" => running # None /\ h \in seen[running]]_vars
  <2> SUFFICES ASSUME NEW h \in (statements \cup results) \ (statements' \cup results'),
                      stage[h] = "ok"
               PROVE  running # None /\ h \in seen[running]
    BY Zenon
  <2>1. FinishJob
    BY <1>1, Zenon DEF vars, Next, Begin, BeginCancel, HandlerStep, Proceed, Fail, Respond,
       ResponseFails, GiveUp, CancelStatement, StartJob, handles
  <2>2. PICK r \in Requests : running = r
    BY <1>1, <2>1, Zenon DEF FinishJob, Inv, WorkerTypes
  <2>3. /\ h \in Requests /\ Made(h) /\ Names(h) /\ Names(r) /\ Seeing(r)
        /\ stage[r] \in Begun /\ r # None /\ r # h /\ Kind[r] # "cancel"
    BY <1>1, <2>2, HandlesAssumption, Zenon DEF Inv, HandleTypes, Calm, At, Pending, Begun
  <2>4. \/ h = Subject(r)
        \/ h \in results /\ owner[h] = Subject(r) /\ Head(plan[r]) = "invalidate"
    BY <2>1, <2>2, Zenon DEF FinishJob, Create, UseConnection, Run, Invalidate, Insert,
       RemoveStatement, CloseResult, ResultsOf, handles
  <2>5. CASE r \in cleanup
    <3>1. h \in results /\ owner[h] = r /\ target[h] = r
      BY <2>3, <2>4, <2>5, Zenon DEF Subject, Made
    <3>2. stage[r] = "ok"
      BY <2>3, <3>1, Zenon DEF Made, Names
    <3> QED
      BY <2>3, <3>2, Zenon DEF Begun
  <2>6. CASE r \notin cleanup
    <3>1. Subject(r) = target[r]
      BY <2>6, Zenon DEF Subject
    <3>2. CASE h = target[r]
      BY <2>2, <2>3, <3>2, HandlesAssumption, Zenon DEF Names, Begun
    <3>3. CASE h \in results /\ owner[h] = target[r] /\ Head(plan[r]) = "invalidate"
      <4>1. target[h] = target[r] /\ Kind[h] \in {"execute", "metadata"}
        BY <2>3, <3>3, Zenon DEF Made
      <4>2. target[r] # None
        <5>1. Kind[r] \in {"execute", "update", "close_statement"}
          BY <1>1, <2>2, <2>6, <3>3, JobFacts, Zenon
        <5> QED
          BY <2>3, <5>1, HandlesAssumption, Zenon DEF Names, Begun
      <4> QED
        BY <2>2, <2>3, <4>1, <4>2, Zenon DEF Seeing, Names
    <3> QED
      BY <2>4, <3>1, <3>2, <3>3, Zenon
  <2> QED
    BY <2>5, <2>6, Zenon
<1> QED
  BY <1>1, Invariant, Calmness, PTL DEF Spec, DeliveredSurvive

--------------------------------------------------------------------------------
(* The quotas: new_statement() and insert_owned_result() hold the registries to *)
(* their limits, and a statement to one result.                                 *)

Makes == Cardinality(statements) < MaxStatements /\ \E x : statements' = statements \cup {x}

Inserts == ~(Cardinality(results) >= MaxResults) /\ \E x : results' = results \cup {x}

\* A registry of Session only shrinks, or gets one handle more below its limit.
LEMMA HandlesChange ==
  ASSUME [Next]_vars
  PROVE  /\ statements' \subseteq statements \/ Makes
         /\ results' \subseteq results \/ Inserts
<1> DEFINE Goal == /\ statements' \subseteq statements \/ Makes
                   /\ results' \subseteq results \/ Inserts
<1>1. CASE UNCHANGED handles
  BY <1>1, Zenon DEF handles
<1>2. ASSUME NEW r, Create(r)
      PROVE  Goal
  BY <1>2, Zenon DEF Create, Makes, handles
<1>3. ASSUME NEW r, Insert(r)
      PROVE  Goal
  BY <1>3, Zenon DEF Insert, Inserts, handles
<1>4. ASSUME NEW r, UseConnection(r) \/ Run(r)
      PROVE  Goal
  BY <1>1, <1>4, Zenon DEF UseConnection, Run
<1>5. ASSUME NEW r, Invalidate(r) \/ RemoveStatement(r) \/ CloseResult(r)
      PROVE  Goal
  BY <1>5, Zenon DEF Invalidate, RemoveStatement, CloseResult
<1>6. CASE FinishJob
  BY <1>2, <1>3, <1>4, <1>5, <1>6, Zenon DEF FinishJob
<1>7. CASE UNCHANGED vars
  BY <1>1, <1>7, Zenon DEF vars, handles
<1>8. CASE StartJob
  BY <1>1, <1>8, Zenon DEF StartJob
<1>9. ASSUME NEW r, Begin(r) \/ BeginCancel(r) \/ CancelStatement(r) \/ HandlerStep(r)
      PROVE  Goal
  BY <1>1, <1>9, Zenon
     DEF Begin, BeginCancel, CancelStatement, HandlerStep, Proceed, Fail, Respond, ResponseFails,
         GiveUp
<1> QED
  BY <1>6, <1>7, <1>8, <1>9, Zenon DEF Next


F == INSTANCE FiniteSetTheorems

\* What FiniteSetTheorems states of its own copy of FiniteSets holds of the copy
\* SessionHandles counts with.
LEMMA SameSets ==
  ASSUME NEW S
  PROVE  /\ IsFiniteSet(S) <=> F!IsFiniteSet(S)
         /\ Cardinality(S) = F!Cardinality(S)
<1>1. IsFiniteSet(S) <=> F!IsFiniteSet(S)
  BY Zenon DEF IsFiniteSet, F!IsFiniteSet
<1>2. Cardinality(S) = F!Cardinality(S)
  BY Zenon DEF Cardinality, F!Cardinality
<1> QED
  BY <1>1, <1>2, Zenon

QuotaInv ==
  /\ IsFiniteSet(statements) /\ Cardinality(statements) <= MaxStatements
  /\ IsFiniteSet(results) /\ Cardinality(results) <= MaxResults

\* A set that only does so stays within its limit.
LEMMA Within ==
  ASSUME NEW S, IsFiniteSet(S), NEW n \in Nat, Cardinality(S) <= n, NEW T,
         T \subseteq S \/ (Cardinality(S) < n /\ \E x : T = S \cup {x})
  PROVE  IsFiniteSet(T) /\ Cardinality(T) <= n
<1>1. CASE T \subseteq S
  BY <1>1, SameSets, F!FS_Subset, F!FS_CardinalityType
<1>2. ASSUME NEW x, Cardinality(S) < n, T = S \cup {x}
      PROVE  IsFiniteSet(T) /\ Cardinality(T) <= n
  <2>1. IsFiniteSet(T) /\ Cardinality(T) \in {Cardinality(S), Cardinality(S) + 1}
    BY <1>2, SameSets, F!FS_AddElement, SMTT(30)
  <2> QED
    BY <1>2, <2>1, SameSets, F!FS_CardinalityType
<1> QED
  BY <1>1, <1>2, Zenon

\* So every step keeps the quotas.
LEMMA QuotasKept ==
  ASSUME QuotaInv, [Next]_vars
  PROVE  QuotaInv'
<1>1. /\ statements' \subseteq statements \/ Makes
      /\ results' \subseteq results \/ Inserts
  BY HandlesChange, Zenon
<1>2. Cardinality(results) \in Nat
  BY SameSets, F!FS_CardinalityType, Zenon DEF QuotaInv
<1>3. ~(Cardinality(results) >= MaxResults) => Cardinality(results) < MaxResults
  BY <1>2, HandlesAssumption
<1>4. IsFiniteSet(statements') /\ Cardinality(statements') <= MaxStatements
  BY <1>1, Within, HandlesAssumption, Zenon DEF QuotaInv, Makes
<1>5. IsFiniteSet(results') /\ Cardinality(results') <= MaxResults
  BY <1>1, <1>3, Within, HandlesAssumption, Zenon DEF QuotaInv, Inserts
<1> QED
  BY <1>4, <1>5, Zenon DEF QuotaInv

\* Every variable stays in its type: the registries of Session hold no more than
\* max_statements_per_session and max_results_per_session handles, although the
\* quota is read in one job and handlers interleave.
THEOREM TypeCorrect == Spec => []TypeOK
<1>1. Init => workload \in Workloads /\ QuotaInv
  BY SameSets, F!FS_EmptySet, HandlesAssumption DEF Init, QuotaInv
<1>2. workload \in Workloads /\ QuotaInv /\ [Next]_vars => (workload \in Workloads)' /\ QuotaInv'
  BY QuotasKept, Zenon DEF Next, vars
<1>3. Inv /\ workload \in Workloads /\ QuotaInv => TypeOK
  BY Zenon DEF Inv, HandlerTypes, WorkerTypes, HandleTypes, QuotaInv, TypeOK
<1> QED
  BY <1>1, <1>2, <1>3, Invariant, PTL DEF Spec

\* A statement whose requests are made one after the other has one live result at
\* most, although a timed-out execution may still be inserting its own.
THEOREM OneResult ==
  ASSUME Patient
  PROVE  Spec => []OneResultPerStatement
<1>1. ASSUME Inv, Calm
      PROVE  OneResultPerStatement
  <2> SUFFICES ASSUME NEW s \in KnownStatements
               PROVE  Cardinality(ResultsOf(s)) <= 1
    BY Zenon DEF OneResultPerStatement
  <2>1. s # None
    BY HandlesAssumption, Zenon DEF KnownStatements
  <2>2. \A x, y \in ResultsOf(s) : x = y
    BY <1>1, <2>1, Zenon DEF Calm, OwnersInv, ResultsOf
  <2>3. CASE ResultsOf(s) = {}
    BY <2>3, SameSets, F!FS_EmptySet
  <2>4. ASSUME NEW x \in ResultsOf(s)
        PROVE  Cardinality(ResultsOf(s)) <= 1
    <3>1. ResultsOf(s) = {x}
      BY <2>2, <2>4, Zenon
    <3>2. F!Cardinality({x}) = 1
      BY F!FS_Singleton, Zenon
    <3>3. Cardinality(ResultsOf(s)) = 1
      BY <3>1, <3>2, SameSets, Zenon
    <3> QED
      BY <3>3
  <2> QED
    BY <2>3, <2>4, Zenon
<1> QED
  BY <1>1, Invariant, Calmness, PTL

--------------------------------------------------------------------------------
\* A handler that waits for the worker waits for something: its reply is there, or
\* its job is in the channel or being done.  A step that keeps a job from its turn,
\* or takes one job's reply for another's, would leave the handler to its deadline.
Attended(r) == stage[r] = "waiting" => reply[r] # "none" \/ Pending(r)
JobsAttended == \A r \in Requests : Attended(r)

\* A job that joins the channel leaves the others where they are.
LEMMA QueueGrows ==
  ASSUME Inv, running' = running, NEW r \in Requests,
         queue' = queue \/ queue' = Append(queue, r)
  PROVE  /\ \A v : Pending(v) => Pending(v)'
         /\ queue' # queue => Pending(r)'
<1>1. queue \in Seq(Requests)
  BY Zenon DEF Inv, WorkerTypes
<1>2. CASE queue' = queue
  BY <1>2, Zenon DEF Pending
<1>3. CASE queue' = Append(queue, r)
  <2>1. /\ Len(queue') = Len(queue) + 1 /\ queue'[Len(queue) + 1] = r
        /\ \A i \in 1..Len(queue) : i \in 1..Len(queue') /\ queue'[i] = queue[i]
        /\ Len(queue) + 1 \in 1..Len(queue')
    BY <1>1, <1>3
  <2> QED
    BY <2>1, Zenon DEF Pending
<1> QED
  BY <1>2, <1>3, Zenon

\* call(): the handler's job is in the channel, or the handler does not wait.
LEMMA SubmitAttends ==
  ASSUME Inv, JobsAttended, NEW r \in Requests, NEW jobs, Submit(r, jobs), running' = running
  PROVE  JobsAttended'
<1>1. \A v \in Requests \ {r} : stage'[v] = stage[v] /\ reply'[v] = reply[v]
  BY Zenon DEF Submit, Inv, HandlerTypes
<1>2. CASE Len(queue) < QueueBound
  <2>1. queue' = Append(queue, r) /\ queue' # queue
    <3>1. queue' = Append(queue, r) /\ queue \in Seq(Requests)
      BY <1>2, Zenon DEF Submit, Inv, WorkerTypes
    <3> QED
      BY <3>1
  <2> QED
    BY <1>1, <2>1, QueueGrows, Zenon DEF JobsAttended, Attended
<1>3. CASE ~(Len(queue) < QueueBound)
  <2>1. queue' = queue /\ stage'[r] # "waiting"
    BY <1>3, Zenon DEF Submit, Inv, HandlerTypes
  <2> QED
    BY <1>1, <2>1, QueueGrows, Zenon DEF JobsAttended, Attended
<1> QED
  BY <1>2, <1>3, Zenon

\* A handler that answers waits no longer.
LEMMA AnswerAttends ==
  ASSUME Inv, JobsAttended, NEW r \in Requests, NEW a \in Stage \ {"waiting"},
         stage' = [stage EXCEPT ![r] = a], UNCHANGED <<reply, queue, running>>
  PROVE  JobsAttended'
<1>1. \A v \in Requests : stage'[v] = "waiting" => stage[v] = "waiting"
  BY Zenon DEF Inv, HandlerTypes
<1> QED
  BY <1>1, Zenon DEF JobsAttended, Attended, Pending

\* The worker passes over no job whose handler waits.
LEMMA StartJobAttends ==
  ASSUME Inv, JobsAttended, StartJob
  PROVE  JobsAttended'
<1> SUFFICES ASSUME NEW r \in Requests, stage[r] = "waiting", reply[r] = "none"
             PROVE  Pending(r)'
  BY Zenon DEF StartJob, handlers, JobsAttended, Attended
<1>1. queue \in Seq(Requests) /\ queue # <<>> /\ queue' = Tail(queue) /\ r # None
  BY HandlesAssumption, Zenon DEF StartJob, Inv, WorkerTypes
<1>2. PICK i \in 1..Len(queue) : queue[i] = r
  BY <1>1, Zenon DEF JobsAttended, Attended, Pending, StartJob
<1>3. CASE i = 1
  <2>1. Head(queue) = r
    BY <1>1, <1>2, <1>3
  <2> QED
    BY <2>1, Zenon DEF StartJob, Pending
<1>4. CASE i # 1
  <2>1. i - 1 \in 1..Len(queue') /\ queue'[i - 1] = queue[i]
    BY <1>1, <1>2, <1>4
  <2> QED
    BY <1>2, <2>1, Zenon DEF Pending
<1> QED
  BY <1>3, <1>4, Zenon

\* The job that ends has replied.
LEMMA FinishJobAttends ==
  ASSUME Inv, JobsAttended, FinishJob
  PROVE  JobsAttended'
<1>1. PICK answer \in {"ok", "error"} : Done(running, answer)
  BY Zenon DEF FinishJob, Create, UseConnection, Run, Invalidate, Insert, RemoveStatement,
               CloseResult
<1>2. stage' = stage /\ queue' = queue /\ reply'[running] # "none"
  BY <1>1, Zenon DEF Done, FinishJob, Inv, HandlerTypes, WorkerTypes
<1>3. \A v \in Requests : v # running => reply'[v] = reply[v]
  BY <1>1, Zenon DEF Done, Inv, HandlerTypes
<1> QED
  BY <1>2, <1>3, Zenon DEF JobsAttended, Attended, Pending

\* No handler is left waiting for a job that is not there: every job that call() got
\* into the channel is replied to, or still queued or running, until its handler
\* has given up.
THEOREM HandlersAttended == Spec => []JobsAttended
<1>1. Init => JobsAttended /\ workload \in Workloads
  BY Zenon DEF Init, JobsAttended, Attended
<1>2. Inv /\ JobsAttended /\ workload \in Workloads /\ [Next]_vars
        => JobsAttended' /\ (workload \in Workloads)'
  <2> SUFFICES ASSUME Inv, JobsAttended, workload \in Workloads, [Next]_vars PROVE JobsAttended'
    BY NextKeeps, Zenon
  <2>0. workload \subseteq Requests
    BY HandlesAssumption, Zenon
  <2>1. ASSUME NEW r \in Requests, Begin(r) \/ Proceed(r) \/ ResponseFails(r) PROVE JobsAttended'
    BY <2>1, SubmitAttends, Zenon DEF Begin, Proceed, ResponseFails
  <2>2. ASSUME NEW r \in Requests, Fail(r) \/ Respond(r) \/ GiveUp(r) PROVE JobsAttended'
    BY <2>2, AnswerAttends, Zenon DEF Fail, Respond, GiveUp, Answer, Stage
  <2>3. ASSUME NEW r \in Requests, BeginCancel(r) \/ CancelStatement(r) PROVE JobsAttended'
    BY <2>3, AnswerAttends, Zenon DEF BeginCancel, CancelStatement, Stage
  <2>4. CASE UNCHANGED vars
    BY <2>4, Zenon DEF vars, JobsAttended, Attended, Pending
  <2> QED
    BY <2>0, <2>1, <2>2, <2>3, <2>4, StartJobAttends, FinishJobAttends, Zenon
       DEF Next, HandlerStep
<1> QED
  BY <1>1, <1>2, Invariant, PTL DEF Spec

================================================================================

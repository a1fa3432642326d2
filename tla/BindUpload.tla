------------------------------- MODULE BindUpload -------------------------------
(***************************************************************************)
(* Parameter binding: bind_batches() of the client driver, the exchange    *)
(* handler BindExchange (crates/grainlift-server/src/service.rs), the      *)
(* registry of uploads of a session (session.rs) and the upload actor that *)
(* stages batches in a file (bind_upload.rs).                              *)
(*                                                                         *)
(* All uploads are for one statement of one session.  A turn's handler     *)
(* goes on when its client has given up on it; the cancellation the client *)
(* then sends races with it.  push_bind_upload() keeps the registry locked *)
(* while the actor writes.  The binding itself is a job of the session's   *)
(* worker, with the contract of WorkerContract; another of its jobs is a   *)
(* new_statement(), which has the lock of the statements while the driver  *)
(* makes one, and who looks a statement up or drops the session waits.     *)
(***************************************************************************)
EXTENDS Naturals, Sequences, FiniteSets

CONSTANTS
  Uploads,  \* bind operations
  Mode,     \* BindMode of each, "batch" or "stream"
  Inputs,   \* what they may have to send: for each, the sizes of its batches
  Header,   \* bytes of the stream before the first batch
  Trailer,  \* and after the last: the end-of-stream marker
  MaxBytes, \* server.max_bind_bytes
  None      \* no upload

VARIABLES
  sizes,      \* what they have to send: sizes in the staged stream, in order
  client,     \* where bind_batches() is
  sent,       \* how many batches it has had acknowledged
  cancelling, \* the uploads for which a stream cancellation is on its way
  handler,    \* where the handler of the upload's current turn is
  registry,   \* Session::bind_uploads
  lock,       \* the upload whose push holds the registry's lock
  mailbox,    \* the actor's channel, sync_channel(1)
  actor,      \* the "grainlift-bind-upload" thread
  terminal,   \* it has failed for good
  staged,     \* the batches in its file
  written,    \* CountingFile::written
  reply,      \* the reply slot of a command to the actor
  job,        \* the job that binds the staged batches
  statement,  \* what became of the statement
  creating,   \* the worker is in the driver's new_statement(), with the statements' lock
  dropped,    \* nobody has the session any more: Session::drop runs
  bound,      \* history: what the downstream statement has been given
  cancelled   \* history: the uploads cancel_bind_upload() has removed

exchange == <<client, sent, cancelling, handler>>
spool == <<mailbox, actor, terminal, staged, written, reply>>
vars == <<sizes, exchange, registry, lock, spool, job, statement, creating, dropped, bound,
          cancelled>>

--------------------------------------------------------------------------------
ClientState == {"idle", "turn", "open", "ok", "error"}
HandlerState == {"none", "starting", "inserting", "push", "pushing", "undo", "finish", "finishing",
                 "binding"}

ASSUME BindAssumption ==
  /\ Mode \in [Uploads -> {"batch", "stream"}]
  /\ Inputs \subseteq [Uploads -> Seq(Nat)]
  /\ Header \in Nat /\ Trailer \in Nat /\ MaxBytes \in Nat
  /\ None \notin Uploads

Init ==
  /\ sizes \in Inputs
  /\ client = [u \in Uploads |-> "idle"]
  /\ sent = [u \in Uploads |-> 0]
  /\ cancelling = {}
  /\ handler = [u \in Uploads |-> "none"]
  /\ registry = {}
  /\ lock = None
  /\ mailbox = [u \in Uploads |-> <<>>]
  /\ actor = [u \in Uploads |-> "none"]
  /\ terminal = {}
  /\ staged = [u \in Uploads |-> <<>>]
  /\ written = [u \in Uploads |-> 0]
  /\ reply = [u \in Uploads |-> "none"]
  /\ job = [u \in Uploads |-> "none"]
  /\ statement = "open"
  /\ creating = FALSE
  /\ dropped = FALSE
  /\ bound = {}
  /\ cancelled = {}

Moves(u, h) == handler' = [handler EXCEPT ![u] = h]

\* The handler answers; a client that has given up does not hear it.  An error
\* makes bind_batches() cancel the stream.
Respond(u, a) ==
  /\ Moves(u, "none")
  /\ client' = [client EXCEPT ![u] = IF @ = "turn" THEN a ELSE @]
  /\ cancelling' = IF client[u] = "turn" /\ a = "error" THEN cancelling \cup {u} ELSE cancelling

Tell(u, command) ==
  /\ mailbox' = [mailbox EXCEPT ![u] = Append(@, command)]
  /\ reply' = [reply EXCEPT ![u] = "none"]

\* BindUpload::cancel(): try_send().  The sender is dropped in any case.
CancelActors(us) ==
  mailbox' = [u \in Uploads |-> IF u \in us /\ mailbox[u] = <<>> THEN <<"cancel">> ELSE mailbox[u]]

--------------------------------------------------------------------------------
(* Opening the exchange.                                                    *)

\* The first turn: its handler finds the session.
Start(u) ==
  /\ client[u] = "idle"
  /\ ~dropped
  /\ client' = [client EXCEPT ![u] = "turn"]
  /\ Moves(u, "starting")
  /\ UNCHANGED <<sizes, sent, cancelling, registry, lock, spool, job, statement, creating, dropped,
                 bound, cancelled>>

\* start_bind_upload(): under the lock of the statements its statement is looked
\* up.  Then the actor is started; it may fail to set up its file, and then fails
\* every command.
StartLookup(u) ==
  /\ handler[u] = "starting"
  /\ ~creating
  /\ IF statement = "open"
       THEN /\ Moves(u, "inserting")
            /\ actor' = [actor EXCEPT ![u] = "running"]
            /\ written' = [written EXCEPT ![u] = Header]
            /\ terminal' \in {terminal, terminal \cup {u}}
            /\ UNCHANGED client
       ELSE /\ Moves(u, "none")
            /\ client' = [client EXCEPT ![u] = "error"]
            /\ UNCHANGED <<actor, written, terminal>>
  /\ UNCHANGED <<sizes, sent, cancelling, registry, lock, mailbox, staged, reply, job, statement,
                 creating, dropped, bound, cancelled>>

\* Then the upload is registered.
StartInsert(u) ==
  /\ handler[u] = "inserting"
  /\ lock = None
  /\ registry' = registry \cup {u}
  /\ Respond(u, "open")
  /\ UNCHANGED <<sizes, sent, lock, spool, job, statement, creating, dropped, bound, cancelled>>

--------------------------------------------------------------------------------
(* The client.                                                              *)

\* The next turn: a batch, or after the last one the finish.
SendTurn(u) ==
  /\ client[u] = "open"
  /\ ~dropped
  /\ client' = [client EXCEPT ![u] = "turn"]
  /\ Moves(u, IF sent[u] < Len(sizes[u]) THEN "push" ELSE "finish")
  /\ UNCHANGED <<sizes, sent, cancelling, registry, lock, spool, job, statement, creating, dropped,
                 bound, cancelled>>

\* A batch cannot be read or is over the client's own limit; a turn's answer is
\* late or lost.  An exchange that was never opened is not cancelled.
ClientFails(u) ==
  /\ client[u] \in {"open", "turn"}
  /\ client' = [client EXCEPT ![u] = "error"]
  /\ cancelling' = IF handler[u] \in {"starting", "inserting"}
                     THEN cancelling ELSE cancelling \cup {u}
  /\ UNCHANGED <<sizes, sent, handler, registry, lock, spool, job, statement, creating, dropped,
                 bound, cancelled>>

\* on_cancel().  Nothing makes the cancellation arrive.
OnCancel(u) ==
  /\ u \in cancelling
  /\ ~dropped
  /\ lock = None
  /\ cancelling' = cancelling \ {u}
  /\ registry' = registry \ {u}
  /\ cancelled' = cancelled \cup (registry \cap {u})
  /\ CancelActors(registry \cap {u})
  /\ UNCHANGED <<sizes, client, sent, handler, lock, actor, terminal, staged, written, reply, job,
                 statement, creating, dropped, bound>>

--------------------------------------------------------------------------------
(* A data turn.                                                             *)

\* decode_bind_turn() fails: the upload is cancelled.
Undecodable(u) ==
  /\ handler[u] = "push"
  /\ Moves(u, "undo")
  /\ UNCHANGED <<sizes, client, sent, cancelling, registry, lock, spool, job, statement, creating,
                 dropped, bound, cancelled>>

\* Variant: the lock is released once the upload is found.
PushUnlocked(u) ==
  /\ handler[u] = "push"
  /\ lock = None
  /\ IF u \in registry
       THEN Tell(u, "push") /\ Moves(u, "pushing")
       ELSE Moves(u, "undo") /\ UNCHANGED <<mailbox, reply>>
  /\ UNCHANGED <<sizes, client, sent, cancelling, registry, lock, actor, terminal, staged, written,
                 job, statement, creating, dropped, bound, cancelled>>

\* push_bind_upload(): the lock is kept until the actor replies.
Push(u) ==
  /\ handler[u] = "push"
  /\ lock = None
  /\ IF u \in registry
       THEN lock' = u /\ Tell(u, "push") /\ Moves(u, "pushing")
       ELSE Moves(u, "undo") /\ UNCHANGED <<lock, mailbox, reply>>
  /\ UNCHANGED <<sizes, client, sent, cancelling, registry, actor, terminal, staged, written, job,
                 statement, creating, dropped, bound, cancelled>>

\* Variant: an error leaves the lock behind.
PushReturnsLocked(u) ==
  /\ handler[u] = "pushing"
  /\ reply[u] # "none"
  /\ IF reply[u] = "ok"
       THEN /\ lock' = None
            /\ sent' = [sent EXCEPT ![u] = @ + 1]
            /\ Respond(u, "open")
       ELSE Moves(u, "undo") /\ UNCHANGED <<client, sent, cancelling, lock>>
  /\ UNCHANGED <<sizes, registry, spool, job, statement, creating, dropped, bound, cancelled>>

PushReturns(u) ==
  /\ handler[u] = "pushing"
  /\ reply[u] # "none"
  /\ lock' = None
  /\ IF reply[u] = "ok"
       THEN sent' = [sent EXCEPT ![u] = @ + 1] /\ Respond(u, "open")
       ELSE Moves(u, "undo") /\ UNCHANGED <<client, sent, cancelling>>
  /\ UNCHANGED <<sizes, registry, spool, job, statement, creating, dropped, bound, cancelled>>

\* cancel_bind_upload() after a push that failed.
Undo(u) ==
  /\ handler[u] = "undo"
  /\ lock = None
  /\ registry' = registry \ {u}
  /\ cancelled' = cancelled \cup (registry \cap {u})
  /\ CancelActors(registry \cap {u})
  /\ Respond(u, "error")
  /\ UNCHANGED <<sizes, sent, lock, actor, terminal, staged, written, reply, job, statement,
                 creating, dropped, bound>>

--------------------------------------------------------------------------------
(* The finish turn.                                                         *)

\* Variant: the entry is looked up, and stays in the registry.
FinishKeepingEntry(u) ==
  /\ handler[u] = "finish"
  /\ lock = None
  /\ IF u \in registry
       THEN Tell(u, "finish") /\ Moves(u, "finishing") /\ UNCHANGED <<client, cancelling>>
       ELSE Respond(u, "error") /\ UNCHANGED <<mailbox, reply>>
  /\ UNCHANGED <<sizes, sent, registry, lock, actor, terminal, staged, written, job, statement,
                 creating, dropped, bound, cancelled>>

\* finish_bind_upload(): the entry is taken out of the registry first.
Finish(u) ==
  /\ handler[u] = "finish"
  /\ lock = None
  /\ registry' = registry \ {u}
  /\ IF u \in registry
       THEN Tell(u, "finish") /\ Moves(u, "finishing") /\ UNCHANGED <<client, cancelling>>
       ELSE Respond(u, "error") /\ UNCHANGED <<mailbox, reply>>
  /\ UNCHANGED <<sizes, sent, lock, actor, terminal, staged, written, job, statement, creating,
                 dropped, bound, cancelled>>

\* The reader is there: BindMode::Batch wants exactly one batch of it.
FinishReturns(u) ==
  /\ handler[u] = "finishing"
  /\ reply[u] # "none"
  /\ IF reply[u] = "ok" /\ (Mode[u] = "batch" => Len(staged[u]) = 1)
       THEN /\ Moves(u, "binding")
            /\ job' = [job EXCEPT ![u] = "queued"]
            /\ UNCHANGED <<client, cancelling>>
       ELSE Respond(u, "error") /\ UNCHANGED job
  /\ UNCHANGED <<sizes, sent, registry, lock, spool, statement, creating, dropped, bound,
                 cancelled>>

\* with_statement(), its job at the worker, one at a time.
BindBegins(u) ==
  /\ job[u] = "queued"
  /\ ~creating
  /\ \A v \in Uploads : job[v] # "running"
  /\ job' = [job EXCEPT ![u] = "running"]
  /\ UNCHANGED <<sizes, exchange, registry, lock, spool, statement, creating, dropped, bound,
                 cancelled>>

\* The statement is given the batches, unless it is gone or the driver refuses;
\* a handler that has timed out is not told.
BindEnds(u) ==
  /\ job[u] = "running"
  /\ job' = [job EXCEPT ![u] = "done"]
  /\ \E ok \in BOOLEAN :
       /\ ok => statement = "open"
       /\ bound' = IF ok THEN bound \cup {<<u, staged[u]>>} ELSE bound
       /\ IF handler[u] = "binding"
            THEN Respond(u, IF ok THEN "ok" ELSE "error")
            ELSE UNCHANGED <<client, cancelling, handler>>
  /\ UNCHANGED <<sizes, sent, registry, lock, spool, statement, creating, dropped, cancelled>>

\* The deadline passes, or the queue is full: a job not begun never will be.
BindTimesOut(u) ==
  /\ handler[u] = "binding"
  /\ job' = [job EXCEPT ![u] = IF @ = "queued" THEN "done" ELSE @]
  /\ Respond(u, "error")
  /\ UNCHANGED <<sizes, sent, registry, lock, spool, statement, creating, dropped, bound,
                 cancelled>>

--------------------------------------------------------------------------------
(* The actor.                                                               *)

Takes(u, command) ==
  /\ actor[u] = "running"
  /\ mailbox[u] # <<>>
  /\ Head(mailbox[u]) = command
  /\ mailbox' = [mailbox EXCEPT ![u] = Tail(@)]

Replies(u, answer) == reply' = [reply EXCEPT ![u] = answer]

\* Command::Push: the batch is written, then the limit looked at.  An error is
\* the answer to every later command.
Stage(u) ==
  /\ Takes(u, "push")
  /\ \/ /\ Replies(u, "error")
        /\ terminal' = terminal \cup {u}
        /\ UNCHANGED <<staged, written>>
     \/ /\ u \notin terminal
        /\ written' = [written EXCEPT ![u] = @ + sizes[u][sent[u] + 1]]
        /\ staged' = [staged EXCEPT ![u] = Append(@, sent[u] + 1)]
        /\ IF written'[u] > MaxBytes
             THEN Replies(u, "error") /\ terminal' = terminal \cup {u}
             ELSE Replies(u, "ok") /\ UNCHANGED terminal
  /\ UNCHANGED <<sizes, exchange, registry, lock, actor, job, statement, creating, dropped, bound,
                 cancelled>>

\* Variant: the end-of-stream marker is not counted.
SealUncounted(u) ==
  /\ Takes(u, "finish")
  /\ actor' = [actor EXCEPT ![u] = "gone"]
  /\ written' = [written EXCEPT ![u] = @ + Trailer]
  /\ Replies(u, IF u \in terminal THEN "error" ELSE "ok")
  /\ UNCHANGED <<sizes, exchange, registry, lock, terminal, staged, job, statement, creating,
                 dropped, bound, cancelled>>

\* Command::Finish and finish_reader(): the trailer is written and the limit
\* looked at again; the file may fail to rewind.
Seal(u) ==
  /\ Takes(u, "finish")
  /\ actor' = [actor EXCEPT ![u] = "gone"]
  /\ written' = [written EXCEPT ![u] = IF u \in terminal THEN @ ELSE @ + Trailer]
  /\ \/ Replies(u, "error")
     \/ u \notin terminal /\ written'[u] <= MaxBytes /\ Replies(u, "ok")
  /\ UNCHANGED <<sizes, exchange, registry, lock, terminal, staged, job, statement, creating,
                 dropped, bound, cancelled>>

\* Some handler or the registry has the sender of the actor's channel.
HasSender(u) == u \in registry \/ handler[u] \in {"inserting", "finishing"}

\* Command::Cancel, or the channel is empty and has no sender: the file goes.
Exit(u) ==
  /\ \/ Takes(u, "cancel")
     \/ /\ actor[u] = "running"
        /\ mailbox[u] = <<>>
        /\ ~HasSender(u)
        /\ UNCHANGED mailbox
  /\ actor' = [actor EXCEPT ![u] = "gone"]
  /\ UNCHANGED <<sizes, exchange, registry, lock, terminal, staged, written, reply, job, statement,
                 creating, dropped, bound, cancelled>>

--------------------------------------------------------------------------------
(* The statement and the session.                                           *)

\* close_statement(): the statement is removed, by a job of the worker.
CloseRemove ==
  /\ statement = "open"
  /\ ~dropped
  /\ ~creating
  /\ \A u \in Uploads : job[u] # "running"
  /\ statement' = "removed"
  /\ UNCHANGED <<sizes, exchange, registry, lock, spool, job, creating, dropped, bound, cancelled>>

\* Its uploads follow, if the invalidation of its results in between succeeds.
CloseDrain ==
  /\ statement = "removed"
  /\ ~dropped
  /\ lock = None
  /\ statement' \in {"closed", "aborted"}
  /\ IF statement' = "closed"
       THEN registry' = {} /\ CancelActors(registry)
       ELSE UNCHANGED <<registry, mailbox>>
  /\ UNCHANGED <<sizes, exchange, lock, actor, terminal, staged, written, reply, job, creating,
                 dropped, bound, cancelled>>

\* Some other request's new_statement(), as a job of the worker: it takes the lock
\* of the statements and calls the driver.
NewStatement ==
  /\ ~creating
  /\ ~dropped
  /\ \A u \in Uploads : job[u] # "running"
  /\ creating' = TRUE
  /\ UNCHANGED <<sizes, exchange, registry, lock, spool, job, statement, dropped, bound, cancelled>>

\* The driver returns, if it does.
NewStatementReturns ==
  /\ creating
  /\ creating' = FALSE
  /\ UNCHANGED <<sizes, exchange, registry, lock, spool, job, statement, dropped, bound, cancelled>>

\* The registry and the last handler let go of the session.
LetGo ==
  /\ ~dropped
  /\ statement # "removed"
  /\ \A u \in Uploads : handler[u] = "none"
  /\ dropped' = TRUE
  /\ UNCHANGED <<sizes, exchange, registry, lock, spool, job, statement, creating, bound,
                 cancelled>>

\* Variant: the session alone is dropped, and the uploads are left where they are.
DropSessionOnly == dropped /\ ~creating /\ UNCHANGED vars

\* Session::drop: the lock of the statements first, then the uploads are drained.
DropSession ==
  /\ dropped
  /\ registry # {}
  /\ ~creating
  /\ registry' = {}
  /\ CancelActors(registry)
  /\ UNCHANGED <<sizes, exchange, lock, actor, terminal, staged, written, reply, job, statement,
                 creating, dropped, bound, cancelled>>

--------------------------------------------------------------------------------
ServerStep(u) ==
  \/ StartInsert(u)
  \/ Push(u) \/ PushReturns(u) \/ Undo(u)
  \/ Finish(u) \/ FinishReturns(u)
  \/ BindTimesOut(u)

ActorStep(u) == Stage(u) \/ Seal(u) \/ Exit(u)

Next ==
  \/ \E u \in Uploads :
       \/ Start(u) \/ SendTurn(u) \/ ClientFails(u) \/ Undecodable(u) \/ OnCancel(u)
       \/ StartLookup(u)
       \/ ServerStep(u)
       \/ ActorStep(u)
       \/ BindBegins(u) \/ BindEnds(u)
  \/ CloseRemove \/ CloseDrain \/ NewStatement \/ NewStatementReturns \/ LetGo \/ DropSession

Spec == Init /\ [][Next]_vars

\* Handlers and actors are scheduled, the actor's file operations return, and a
\* lock that is free again and again is got.  The driver's bind() and
\* new_statement() need not return, nor need any message of the client arrive.
FairSpec ==
  /\ Spec
  /\ \A u \in Uploads :
       /\ SF_vars(StartLookup(u))
       /\ WF_vars(ServerStep(u))
       /\ WF_vars(ActorStep(u))
  /\ WF_vars(DropSession)

--------------------------------------------------------------------------------
\* The type invariant.  A channel holds one command at most.
TypeOK ==
  /\ sizes \in Inputs
  /\ client \in [Uploads -> ClientState]
  /\ sent \in [Uploads -> Nat]
  /\ cancelling \subseteq Uploads
  /\ handler \in [Uploads -> HandlerState]
  /\ registry \subseteq Uploads
  /\ lock \in Uploads \cup {None}
  /\ mailbox \in [Uploads -> {<<>>, <<"push">>, <<"finish">>, <<"cancel">>}]
  /\ actor \in [Uploads -> {"none", "running", "gone"}]
  /\ terminal \subseteq Uploads
  /\ staged \in [Uploads -> Seq(Nat)]
  /\ written \in [Uploads -> Nat]
  /\ reply \in [Uploads -> {"none", "ok", "error"}]
  /\ job \in [Uploads -> {"none", "queued", "running", "done"}]
  /\ statement \in {"open", "removed", "closed", "aborted"}
  /\ creating \in BOOLEAN
  /\ dropped \in BOOLEAN
  /\ bound \subseteq Uploads \X Seq(Nat)
  /\ cancelled \subseteq Uploads

\* The downstream statement is only ever given a whole binding: every batch of
\* the client, once and in order, within max_bind_bytes framing included, and
\* exactly one batch for bind(); and a client told ok has its parameters bound.
BoundWhole ==
  /\ \A b \in bound :
       /\ b[2] = [i \in 1..Len(sizes[b[1]]) |-> i]
       /\ written[b[1]] <= MaxBytes
       /\ Mode[b[1]] = "batch" => Len(b[2]) = 1
  /\ \A u \in Uploads : client[u] = "ok" => \E b \in bound : b[1] = u

\* An upload that was cancelled while it was registered is never bound, though
\* a finish turn may be on its way or at work.
CancelledNotBound == \A b \in bound : b[1] \notin cancelled

\* Whoever takes an upload out of the registry finds the actor's channel empty:
\* no push is under way, and the try_send() of a cancellation is never lost.
CancelsReach ==
  [][\A u \in registry \ registry' : mailbox[u] = <<>>]_vars

\* Every turn is answered, whatever the client does and although the driver's bind()
\* may never return: the lock that push_bind_upload() keeps while the actor writes
\* blocks nobody for ever.  The one exception is the first turn of an upload, in
\* start_bind_upload() behind a new_statement() the driver never returns from.
TurnsAnswered ==
  \A u \in Uploads :
    \/ handler[u] # "none" ~> handler[u] = "none"
    \/ <>[](creating /\ handler[u] = "starting")

\* Once nobody has the session, every upload thread ends and its file with it,
\* unless Session::drop waits for ever for such a new_statement() to let go of the
\* statements.
SpoolsReclaimed ==
  \/ dropped ~> \A u \in Uploads : actor[u] # "running"
  \/ <>[](creating /\ registry # {})

================================================================================

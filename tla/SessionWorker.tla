----------------------------- MODULE SessionWorker -----------------------------
(***************************************************************************)
(* SessionWorker of crates/grainlift-server/src/session.rs: the thread     *)
(* that owns a session's downstream calls, the bounded channel in front of *)
(* it, and the callers that wait for it with a deadline.                   *)
(*                                                                         *)
(* A caller that gives up marks its job abandoned.  The decision to give   *)
(* up and the store of the flag are two steps, as are the receipt of a job *)
(* and the load of its flag, so the two threads race as in the code.       *)
(***************************************************************************)
EXTENDS Naturals, Sequences

CONSTANTS
  Calls,      \* invocations of call(); a job bears the name of its invocation
  QueueBound  \* capacity of the channel, 32 in the code

ASSUME WorkerAssumption == QueueBound \in Nat \ {0}

VARIABLES
  call,      \* where each invocation of call() is
  sent,      \* the jobs try_send() has accepted, in order
  received,  \* how many of them recv() has taken off the channel
  worker,    \* where the "grainlift-session" thread is
  abandoned, \* the jobs whose flag has been stored
  replied,   \* the jobs whose reply_tx.send() has happened
  dropped    \* the last Arc<Session>, and with it tx, is gone

vars == <<call, sent, received, worker, abandoned, replied, dropped>>

--------------------------------------------------------------------------------
CallState == {"idle", "waiting", "expired", "returned", "timeout", "busy", "stopped"}

\* "loading": a job has been received, its flag not yet looked at.
\* "dead": an operation panicked, the receiver is gone.  "exited": recv()
\* found the channel empty and without a sender.
WorkerState == {"idle", "loading", "running", "dead", "exited"}

Waiting(c) == call[c] \in {"waiting", "expired"}
Queued == Len(sent) - received
Job == sent[received]
Return(c, answer) == call' = [call EXCEPT ![c] = answer]

Init ==
  /\ call = [c \in Calls |-> "idle"]
  /\ sent = <<>>
  /\ received = 0
  /\ worker = "idle"
  /\ abandoned = {}
  /\ replied = {}
  /\ dropped = FALSE

--------------------------------------------------------------------------------
\* call(): try_send() of the job.
Call(c) ==
  /\ call[c] = "idle"
  /\ ~dropped
  /\ IF worker = "dead"
       THEN Return(c, "stopped") /\ UNCHANGED sent
       ELSE IF Queued >= QueueBound
              THEN Return(c, "busy") /\ UNCHANGED sent
              ELSE Return(c, "waiting") /\ sent' = Append(sent, c)
  /\ UNCHANGED <<received, worker, abandoned, replied, dropped>>

\* recv_timeout() hands over the reply.
TakeReply(c) ==
  /\ call[c] = "waiting"
  /\ c \in replied
  /\ Return(c, "returned")
  /\ UNCHANGED <<sent, received, worker, abandoned, replied, dropped>>

\* Variant: recv() in place of recv_timeout().
ExpireNever(c) == FALSE /\ c \in Calls /\ UNCHANGED vars

\* recv_timeout() comes back with Timeout: the reply slot was empty, and its
\* sender alive.
Expire(c) ==
  /\ call[c] = "waiting"
  /\ c \notin replied
  /\ worker # "dead"
  /\ Return(c, "expired")
  /\ UNCHANGED <<sent, received, worker, abandoned, replied, dropped>>

\* Variant: the flag is not stored.
GiveUpSilently(c) ==
  /\ call[c] = "expired"
  /\ Return(c, "timeout")
  /\ UNCHANGED <<sent, received, worker, abandoned, replied, dropped>>

\* abandoned.store(true), and the TIMEOUT answer.
GiveUp(c) ==
  /\ call[c] = "expired"
  /\ abandoned' = abandoned \cup {c}
  /\ Return(c, "timeout")
  /\ UNCHANGED <<sent, received, worker, replied, dropped>>

\* The job was dropped unanswered, which a waiting caller meets only after a
\* panic: the reply channel is disconnected.
FindDisconnected(c) ==
  /\ call[c] = "waiting"
  /\ c \notin replied
  /\ worker = "dead"
  /\ Return(c, "stopped")
  /\ UNCHANGED <<sent, received, worker, abandoned, replied, dropped>>

--------------------------------------------------------------------------------
\* rx.recv() of the worker loop.
Receive ==
  /\ worker = "idle"
  /\ Queued > 0
  /\ received' = received + 1
  /\ worker' = "loading"
  /\ UNCHANGED <<call, sent, abandoned, replied, dropped>>

\* Variant: the flag is not looked at.
LoadIgnored ==
  /\ worker = "loading"
  /\ worker' = "running"
  /\ UNCHANGED <<call, sent, received, abandoned, replied, dropped>>

\* Variant: an abandoned job stops the loop.
LoadStuck ==
  /\ worker = "loading"
  /\ Job \notin abandoned
  /\ worker' = "running"
  /\ UNCHANGED <<call, sent, received, abandoned, replied, dropped>>

\* The job's abandoned.load(): return at once, or start the operation.
Load ==
  /\ worker = "loading"
  /\ worker' = IF Job \in abandoned THEN "idle" ELSE "running"
  /\ UNCHANGED <<call, sent, received, abandoned, replied, dropped>>

\* The operation returns, with a value or an error, and the reply is sent.
Finish ==
  /\ worker = "running"
  /\ worker' = "idle"
  /\ replied' = replied \cup {Job}
  /\ UNCHANGED <<call, sent, received, abandoned, dropped>>

\* The operation panics and unwinds the thread; the channel and the jobs in it
\* are dropped.
Panic ==
  /\ worker = "running"
  /\ worker' = "dead"
  /\ UNCHANGED <<call, sent, received, abandoned, replied, dropped>>

\* The registry and the last handler let go of the session: call() borrows it,
\* so no caller is left waiting.
DropSession ==
  /\ ~dropped
  /\ \A c \in Calls : ~Waiting(c)
  /\ dropped' = TRUE
  /\ UNCHANGED <<call, sent, received, worker, abandoned, replied>>

\* recv() fails: the channel is empty and has lost its sender.
Exit ==
  /\ worker = "idle"
  /\ Queued = 0
  /\ dropped
  /\ worker' = "exited"
  /\ UNCHANGED <<call, sent, received, abandoned, replied, dropped>>

--------------------------------------------------------------------------------
CallerStep(c) == TakeReply(c) \/ Expire(c) \/ GiveUp(c) \/ FindDisconnected(c)

Next ==
  \/ \E c \in Calls : Call(c) \/ CallerStep(c)
  \/ Receive
  \/ Load
  \/ Finish
  \/ Panic
  \/ DropSession
  \/ Exit

Spec == Init /\ [][Next]_vars

\* Threads are scheduled and deadlines pass.  No operation is assumed to return.
Fairness ==
  /\ \A c \in Calls : WF_vars(CallerStep(c))
  /\ WF_vars(Receive)
  /\ WF_vars(Load)
  /\ WF_vars(Exit)

FairSpec == Spec /\ Fairness

--------------------------------------------------------------------------------
\* The type invariant.  The channel never holds more than its capacity.
TypeOK ==
  /\ call \in [Calls -> CallState]
  /\ sent \in Seq(Calls)
  /\ received \in 0..Len(sent)
  /\ Queued <= QueueBound
  /\ worker \in WorkerState
  /\ abandoned \subseteq Calls
  /\ replied \subseteq Calls
  /\ dropped \in BOOLEAN

\* The contract's view of this state.  A caller that has yet to store its flag
\* is still waiting; a job is taken once its flag has been looked at.
Told == [c \in Calls |-> IF call[c] = "expired" THEN "waiting" ELSE call[c]]
Taken == IF worker = "loading" THEN received - 1 ELSE received
Activity == IF worker = "loading" THEN "idle"
            ELSE IF worker \in {"dead", "exited"} THEN "gone"
            ELSE worker

Contract ==
  INSTANCE WorkerContract
    WITH call <- Told, taken <- Taken, activity <- Activity, done <- replied

\* call() keeps the contract: accepted operations run in order, one at a time,
\* at most once, never after their caller was told TIMEOUT; a result answers
\* the operation that ran, and a refused operation never runs.
KeepsContract == Contract!Spec

\* Once a session is dropped its worker starts no downstream operation: jobs
\* still in the channel were given up by their callers, and their flags show it.
QuietAfterDrop == [][dropped /\ worker # "running" => worker' # "running"]_vars

\* Every call is answered within its deadline, although the operation ahead of
\* it, or its own, may never return.
CallsAnswered == \A c \in Calls : Waiting(c) ~> ~Waiting(c)

\* A dropped session gives its thread back unless an operation never returns.
ThreadReclaimed == []<>(worker # "running") => (dropped ~> worker \in {"dead", "exited"})

================================================================================

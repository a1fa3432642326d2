---------------------------- MODULE WorkerContract ----------------------------
(***************************************************************************)
(* What a session's worker promises to the callers of SessionWorker::call  *)
(* (crates/grainlift-server/src/session.rs), without its channel, flags    *)
(* and reply slots.                                                        *)
(*                                                                         *)
(* Accepted operations run one at a time, in the order of acceptance, each *)
(* at most once, and only while their caller waits.  An operation is       *)
(* passed over only if its caller has been told TIMEOUT.  A caller gets a  *)
(* result only of an operation that has run to its end; a caller that was  *)
(* refused can rely on nothing having run.                                 *)
(***************************************************************************)
EXTENDS Naturals, Sequences

CONSTANT Calls

VARIABLES
  call,     \* what each caller knows
  sent,     \* the accepted calls, in order
  taken,    \* how many of them have been begun or passed over
  activity, \* what the worker does
  done      \* the calls whose operation has ended

vars == <<call, sent, taken, activity, done>>

Init ==
  /\ call = [c \in Calls |-> "idle"]
  /\ sent = <<>>
  /\ taken = 0
  /\ activity = "idle"
  /\ done = {}

Accept(c) ==
  /\ call[c] = "idle"
  /\ activity # "gone"
  /\ call' = [call EXCEPT ![c] = "waiting"]
  /\ sent' = Append(sent, c)
  /\ UNCHANGED <<taken, activity, done>>

\* "busy" for a full queue, "stopped" for a worker that is gone.
Refuse(c) ==
  /\ call[c] = "idle"
  /\ \/ activity # "gone" /\ call' = [call EXCEPT ![c] = "busy"]
     \/ activity = "gone" /\ call' = [call EXCEPT ![c] = "stopped"]
  /\ UNCHANGED <<sent, taken, activity, done>>

Begin ==
  /\ activity = "idle"
  /\ taken < Len(sent)
  /\ call[sent[taken + 1]] = "waiting"
  /\ taken' = taken + 1
  /\ activity' = "running"
  /\ UNCHANGED <<call, sent, done>>

PassOver ==
  /\ activity = "idle"
  /\ taken < Len(sent)
  /\ call[sent[taken + 1]] = "timeout"
  /\ taken' = taken + 1
  /\ UNCHANGED <<call, sent, activity, done>>

End ==
  /\ activity = "running"
  /\ activity' = "idle"
  /\ done' = done \cup {sent[taken]}
  /\ UNCHANGED <<call, sent, taken>>

\* The worker ends, in the middle of an operation or, with nobody left to
\* call it and nothing left to do, between two.
Stop ==
  /\ \/ activity = "running"
     \/ activity = "idle" /\ taken = Len(sent)
  /\ activity' = "gone"
  /\ UNCHANGED <<call, sent, taken, done>>

Answer(c) ==
  /\ call[c] = "waiting"
  /\ \/ c \in done /\ call' = [call EXCEPT ![c] = "returned"]
     \/ call' = [call EXCEPT ![c] = "timeout"]
     \/ activity = "gone" /\ call' = [call EXCEPT ![c] = "stopped"]
  /\ UNCHANGED <<sent, taken, activity, done>>

Next ==
  \/ \E c \in Calls : Accept(c) \/ Refuse(c) \/ Answer(c)
  \/ Begin
  \/ PassOver
  \/ End
  \/ Stop

Spec == Init /\ [][Next]_vars

================================================================================

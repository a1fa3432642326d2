-------------------------- MODULE SessionWorkerProofs --------------------------
(***************************************************************************)
(* SessionWorker is type correct, keeps WorkerContract and is quiet once   *)
(* its session is dropped, for any set of calls and any queue bound.       *)
(*                                                                         *)
(* The argument rests on where an accepted job can be: a job at or beyond  *)
(* the head of the channel has neither run nor been answered with anything *)
(* but TIMEOUT, unless the worker is dead.                                 *)
(***************************************************************************)
EXTENDS SessionWorker, TLAPS

\* The positions of the channel whose job has not been looked at.
Ahead(i) == IF worker = "loading" THEN i >= received ELSE i > received

\* What callers and worker have done to each other's state.
CallerInv ==
  /\ \A c \in Calls : call[c] = "timeout" <=> c \in abandoned
  /\ \A c \in Calls : call[c] = "stopped" => worker = "dead"
  /\ \A c \in Calls : call[c] = "returned" => c \in replied
  /\ worker \in {"loading", "running"} => received > 0
  /\ worker = "exited" => dropped /\ received = Len(sent)
  /\ dropped => \A c \in Calls : ~Waiting(c)

\* Where an accepted job is.
JobInv ==
  /\ \A i, j \in 1..Len(sent) : sent[i] = sent[j] => i = j
  /\ \A i \in 1..Len(sent) : call[sent[i]] \notin {"idle", "busy"}
  /\ \A i \in 1..Len(sent) : Ahead(i) => sent[i] \notin replied
  /\ \A c \in replied : call[c] \notin {"idle", "busy"}
  /\ worker = "running" => Job \notin replied

IInv == TypeOK /\ CallerInv /\ JobInv

--------------------------------------------------------------------------------
\* Before the first call nothing is queued, running or answered.
LEMMA InitInv == Init => IInv
<1> SUFFICES ASSUME Init PROVE IInv
  BY Zenon
<1>1. sent = <<>> /\ sent \in Seq(Calls) /\ Len(sent) = 0
  BY DEF Init
<1>2. TypeOK
  <2>1. dropped \in BOOLEAN /\ abandoned \subseteq Calls /\ replied \subseteq Calls
    BY Zenon DEF Init
  <2>2. call \in [Calls -> CallState] /\ worker \in WorkerState
    BY Zenon DEF Init, CallState, WorkerState
  <2>3. received \in 0..Len(sent) /\ Queued <= QueueBound
    BY <1>1, WorkerAssumption DEF Init, Queued
  <2> QED
    BY <1>1, <2>1, <2>2, <2>3, Zenon DEF TypeOK
<1>3. CallerInv
  BY <1>1, Zenon DEF Init, CallerInv, Waiting
<1>4. JobInv
  BY <1>1 DEF Init, JobInv
<1> QED
  BY <1>2, <1>3, <1>4, Zenon DEF IInv

\* Every step preserves the invariant.
LEMMA NextInv == IInv /\ [Next]_vars => IInv'
<1> SUFFICES ASSUME IInv, [Next]_vars PROVE IInv'
  BY Zenon
<1> USE DEF IInv
<1>1. ASSUME NEW c \in Calls, Call(c)
      PROVE  IInv'
  <2>1. CASE /\ sent' = Append(sent, c) /\ Return(c, "waiting")
             /\ Queued < QueueBound /\ worker # "dead"
    <3>0. /\ Len(sent') = Len(sent) + 1
          /\ \A i \in 1..Len(sent) : sent'[i] = sent[i]
          /\ sent'[Len(sent) + 1] = c
          /\ sent' \in Seq(Calls)
          /\ Len(sent) \in Nat
      BY <2>1 DEF TypeOK
    <3>1. TypeOK'
      BY <1>1, <2>1, <3>0, WorkerAssumption DEF Call, TypeOK, CallState, Return, Queued
    <3>2. CallerInv'
      BY <1>1, <2>1, <3>0, Zenon DEF Call, TypeOK, CallerInv, Return, Waiting
    <3>3. JobInv'
      <4>1. \A i \in 1..Len(sent) : sent[i] # c
        BY <1>1, Zenon DEF Call, JobInv
      <4>2. c \notin replied
        BY <1>1, Zenon DEF Call, JobInv
      <4>3. \A i \in 1..Len(sent') : i \in 1..Len(sent) \/ i = Len(sent) + 1
        BY <3>0
      <4>4. UNCHANGED <<received, worker, replied>>
        BY <1>1, Zenon DEF Call
      <4>5. \A i, j \in 1..Len(sent') : sent'[i] = sent'[j] => i = j
        BY <3>0, <4>1, <4>3 DEF JobInv
      <4>6. \A i \in 1..Len(sent') : call'[sent'[i]] \notin {"idle", "busy"}
        BY <2>1, <3>0, <4>3 DEF JobInv, TypeOK, Return
      <4>7. \A i \in 1..Len(sent') : Ahead(i)' => sent'[i] \notin replied'
        BY <3>0, <4>2, <4>3, <4>4, Zenon DEF JobInv, Ahead
      <4>8. \A d \in replied' : call'[d] \notin {"idle", "busy"}
        BY <2>1, <4>4, Zenon DEF JobInv, TypeOK, Return
      <4>9. worker' = "running" => Job' \notin replied'
        BY <3>0, <4>4 DEF JobInv, CallerInv, TypeOK, Job
      <4> QED
        BY <4>5, <4>6, <4>7, <4>8, <4>9, Zenon DEF JobInv
    <3> QED
      BY <3>1, <3>2, <3>3, Zenon
  <2>2. ASSUME sent' = sent, NEW a \in {"busy", "stopped"}, Return(c, a),
               a = "stopped" => worker = "dead"
        PROVE  IInv'
    <3>1. TypeOK'
      BY <1>1, <2>2, Zenon DEF Call, TypeOK, CallState, Return, Queued
    <3>2. CallerInv'
      BY <1>1, <2>2, Zenon DEF Call, TypeOK, CallerInv, Return, Waiting
    <3>3. JobInv'
      BY <1>1, <2>2 DEF Call, TypeOK, JobInv, Return, Ahead, Job
    <3> QED
      BY <3>1, <3>2, <3>3, Zenon
  <2>3. Queued \in Nat /\ QueueBound \in Nat
    BY WorkerAssumption DEF Queued, TypeOK
  <2>4. CASE worker = "dead"
    BY <1>1, <2>2, <2>4, Zenon DEF Call
  <2>5. CASE worker # "dead" /\ Queued >= QueueBound
    BY <1>1, <2>2, <2>5, Zenon DEF Call
  <2>6. CASE worker # "dead" /\ ~(Queued >= QueueBound)
    BY <1>1, <2>1, <2>3, <2>6 DEF Call
  <2> QED
    BY <2>4, <2>5, <2>6, Zenon
<1>2. ASSUME NEW c \in Calls, CallerStep(c)
      PROVE  IInv'
  <2>1. PICK a \in {"returned", "expired", "timeout", "stopped"} :
          /\ call' = [call EXCEPT ![c] = a]
          /\ call[c] \in {"waiting", "expired"}
          /\ a = "returned" => c \in replied
          /\ a = "stopped" => worker = "dead"
          /\ abandoned' = IF a = "timeout" THEN abandoned \cup {c} ELSE abandoned
    BY <1>2, Zenon DEF CallerStep, TakeReply, Expire, GiveUp, FindDisconnected, Return
  <2>2. UNCHANGED <<sent, received, worker, replied, dropped>>
    BY <1>2, Zenon DEF CallerStep, TakeReply, Expire, GiveUp, FindDisconnected
  <2>3. TypeOK'
    BY <2>1, <2>2, Zenon DEF TypeOK, CallState, Queued
  <2>4. CallerInv'
    BY <2>1, <2>2, Zenon DEF TypeOK, CallerInv, Waiting
  <2>5. JobInv'
    BY <2>1, <2>2 DEF TypeOK, JobInv, Ahead, Job
  <2> QED
    BY <2>3, <2>4, <2>5, Zenon
<1>3. CASE Receive
  <2>1. TypeOK'
    <3>1. Len(sent) \in Nat /\ received \in Nat /\ Len(sent) - received > 0
      BY <1>3 DEF Receive, TypeOK, Queued
    <3>2. received' \in 0..Len(sent') /\ Queued' <= QueueBound
      BY <1>3, <3>1, WorkerAssumption DEF Receive, TypeOK, Queued
    <3> QED
      BY <1>3, <3>2, Zenon DEF Receive, TypeOK, WorkerState
  <2>2. CallerInv'
    BY <1>3 DEF Receive, TypeOK, CallerInv, Waiting
  <2>3. JobInv'
    BY <1>3 DEF Receive, TypeOK, JobInv, Ahead, Queued
  <2> QED
    BY <2>1, <2>2, <2>3, Zenon
<1>4. CASE Load
  <2>1. TypeOK'
    BY <1>4, Zenon DEF Load, TypeOK, WorkerState, Queued
  <2>2. CallerInv'
    BY <1>4, Zenon DEF Load, TypeOK, CallerInv, Waiting
  <2>3. JobInv'
    BY <1>4 DEF Load, TypeOK, CallerInv, JobInv, Ahead, Job
  <2> QED
    BY <2>1, <2>2, <2>3, Zenon
<1>5. CASE Finish
  <2>1. Job \in Calls /\ received \in 1..Len(sent)
    BY <1>5 DEF Finish, TypeOK, CallerInv, Job
  <2>2. TypeOK'
    BY <1>5, <2>1, Zenon DEF Finish, TypeOK, WorkerState, Queued
  <2>3. CallerInv'
    BY <1>5, <2>1, Zenon DEF Finish, TypeOK, CallerInv, Waiting
  <2>4. JobInv'
    BY <1>5, <2>1 DEF Finish, TypeOK, JobInv, Ahead, Job
  <2> QED
    BY <2>2, <2>3, <2>4, Zenon
<1>6. CASE Panic
  <2>1. TypeOK'
    BY <1>6, Zenon DEF Panic, TypeOK, WorkerState, Queued
  <2>2. CallerInv'
    BY <1>6, Zenon DEF Panic, TypeOK, CallerInv, Waiting
  <2>3. JobInv'
    BY <1>6, Zenon DEF Panic, TypeOK, JobInv, Ahead
  <2> QED
    BY <2>1, <2>2, <2>3, Zenon
<1>7. CASE DropSession
  <2>1. TypeOK'
    BY <1>7, Zenon DEF DropSession, TypeOK, Queued
  <2>2. CallerInv'
    BY <1>7, Zenon DEF DropSession, CallerInv, Waiting
  <2>3. JobInv'
    BY <1>7, ZenonT(30) DEF DropSession, JobInv, Ahead, Job
  <2> QED
    BY <2>1, <2>2, <2>3, Zenon
<1>8. CASE Exit
  <2>1. TypeOK'
    BY <1>8, Zenon DEF Exit, TypeOK, WorkerState, Queued
  <2>2. CallerInv'
    BY <1>8 DEF Exit, TypeOK, CallerInv, Waiting, Queued
  <2>3. JobInv'
    BY <1>8, ZenonT(30) DEF Exit, JobInv, Ahead
  <2> QED
    BY <2>1, <2>2, <2>3, Zenon
<1>9. CASE UNCHANGED vars
  BY <1>9, ZenonT(30) DEF vars, TypeOK, CallerInv, JobInv, Waiting, Queued, Ahead, Job
<1> QED
  BY <1>1, <1>2, <1>3, <1>4, <1>5, <1>6, <1>7, <1>8, <1>9, Zenon DEF Next

\* The invariant holds of every reachable state.
LEMMA Invariance == Spec => []IInv
BY InitInv, NextInv, PTL DEF Spec

--------------------------------------------------------------------------------
\* Type correctness; in particular the channel of a session never holds more
\* than QueueBound jobs.
THEOREM TypeCorrect == Spec => []TypeOK
<1>1. IInv => TypeOK
  BY Zenon DEF IInv
<1> QED
  BY <1>1, Invariance, PTL

\* A step of callers or worker is a step of the contract, or is invisible to it.
LEMMA StepSimulation == IInv /\ [Next]_vars => [Contract!Next]_Contract!vars
<1> SUFFICES ASSUME IInv, [Next]_vars PROVE [Contract!Next]_Contract!vars
  BY Zenon
<1> USE DEF IInv
<1>1. ASSUME NEW c \in Calls, Call(c)
      PROVE  Contract!Accept(c) \/ Contract!Refuse(c)
  <2>1. call[c] = "idle" /\ Told[c] = "idle" /\ worker # "exited"
    BY <1>1, Zenon DEF Call, CallerInv, Told
  <2>2. \A a : Return(c, a) /\ a # "expired" => Told' = [Told EXCEPT ![c] = a]
    BY Zenon DEF Return, Told, TypeOK
  <2>3. UNCHANGED <<Taken, Activity, replied>>
    BY <1>1, Zenon DEF Call, Taken, Activity
  <2>4. CASE sent' = sent /\ worker = "dead" /\ Return(c, "stopped")
    BY <2>1, <2>2, <2>3, <2>4, Zenon DEF Contract!Refuse, Activity
  <2>5. CASE sent' = sent /\ worker # "dead" /\ Return(c, "busy")
    BY <2>1, <2>2, <2>3, <2>5, Zenon DEF Contract!Refuse, Activity, TypeOK, WorkerState
  <2>6. CASE sent' = Append(sent, c) /\ worker # "dead" /\ Return(c, "waiting")
    BY <2>1, <2>2, <2>3, <2>6, Zenon DEF Contract!Accept, Activity, TypeOK, WorkerState
  <2> QED
    BY <1>1, <2>4, <2>5, <2>6, Zenon DEF Call
<1>2. ASSUME NEW c \in Calls, CallerStep(c)
      PROVE  Contract!Answer(c) \/ UNCHANGED Contract!vars
  BY <1>2, Zenon DEF CallerStep, TakeReply, Expire, GiveUp, FindDisconnected, Return, TypeOK,
              Contract!Answer, Contract!vars, Told, Taken, Activity
<1>3. CASE Receive \/ DropSession \/ UNCHANGED vars
  BY <1>3 DEF Receive, DropSession, vars, TypeOK, Contract!vars, Told, Taken, Activity
<1>4. CASE Load
  <2>1. received \in 1..Len(sent) /\ Job \in Calls
    BY <1>4 DEF Load, TypeOK, CallerInv, Job
  <2>2. CASE Job \in abandoned
    <3> QED
      BY <1>4, <2>1, <2>2
        DEF Load, TypeOK, CallerInv, Contract!PassOver, Told, Taken, Activity, Job, Contract!Next
  <2>3. CASE Job \notin abandoned
    <3>1. call[Job] \in {"waiting", "expired"}
      BY <1>4, <2>1, <2>3 DEF Load, TypeOK, CallerInv, JobInv, CallState, Ahead, Job
    <3> QED
      BY <1>4, <2>1, <2>3, <3>1
        DEF Load, TypeOK, Contract!Begin, Told, Taken, Activity, Job, Contract!Next
  <2> QED
    BY <2>2, <2>3, Zenon
<1>5. CASE Finish
  BY <1>5, Zenon DEF Finish, Contract!End, Told, Taken, Activity, Job, Contract!Next
<1>6. CASE Panic \/ Exit
  BY <1>6 DEF Panic, Exit, TypeOK, Queued, Contract!Stop, Told, Taken, Activity, Contract!Next
<1> QED
  BY <1>1, <1>2, <1>3, <1>4, <1>5, <1>6, Zenon DEF Next, Contract!Next

\* SessionWorker::call and the worker loop implement WorkerContract.
THEOREM ContractKept == Spec => KeepsContract
<1>1. Init => Contract!Init
  BY Zenon DEF Init, Contract!Init, Told, Taken, Activity
<1> QED
  BY <1>1, StepSimulation, Invariance, PTL DEF Spec, KeepsContract, Contract!Spec

\* No downstream operation starts after its session was dropped.
THEOREM DropIsQuiet == Spec => QuietAfterDrop
<1>1. IInv /\ [Next]_vars => [dropped /\ worker # "running" => worker' # "running"]_vars
  <2> SUFFICES ASSUME IInv, Next, dropped, worker # "running", worker' = "running"
               PROVE  FALSE
    BY Zenon DEF IInv
  <2>1. Load
    BY Zenon DEF Next, Call, CallerStep, TakeReply, Expire, GiveUp, FindDisconnected,
           Receive, Finish, Panic, DropSession, Exit
  <2>2. received \in 1..Len(sent) /\ Job \in Calls
    BY <2>1 DEF IInv, Load, TypeOK, CallerInv, Job
  <2>3. Job \notin abandoned /\ ~Waiting(Job)
    BY <2>1, <2>2, Zenon DEF IInv, Load, CallerInv
  <2> QED
    BY <2>1, <2>2, <2>3 DEF IInv, Load, TypeOK, CallerInv, JobInv, CallState, Ahead, Job, Waiting
<1> QED
  BY <1>1, Invariance, PTL DEF Spec, QuietAfterDrop

--------------------------------------------------------------------------------
\* The job of the call is the one that runs, or its flag has yet to be looked at.
Pending(c) ==
  \/ worker = "running" /\ Job = c
  \/ \E i \in 1..Len(sent) : Ahead(i) /\ sent[i] = c

\* No job is lost under its caller: while a caller waits in recv_timeout() the reply
\* is there, or the job that will send it is in the channel or with the worker, or
\* the worker has panicked.  Its reply channel is disconnected in no other way.
JobsKept ==
  \A c \in Calls : Waiting(c) => c \in replied \/ Pending(c) \/ worker = "dead"

\* A step that leaves the channel and the worker alone keeps the jobs of those who
\* go on waiting.
LEMMA CallerKeepsJobs ==
  ASSUME JobsKept, UNCHANGED <<sent, received, worker, replied>>,
         \A c \in Calls : Waiting(c)' => Waiting(c)
  PROVE  JobsKept'
<1>1. \A c : Pending(c)' <=> Pending(c)
  BY Zenon DEF Pending, Job, Ahead
<1> QED
  BY <1>1, Zenon DEF JobsKept

\* try_send(): the job of the caller is last in the channel.
LEMMA CallKeepsJobs ==
  ASSUME IInv, JobsKept, NEW c \in Calls, Call(c)
  PROVE  JobsKept'
<1>0. sent \in Seq(Calls) /\ Len(sent) \in Nat /\ received \in 0..Len(sent)
  BY DEF IInv, TypeOK
<1>1. UNCHANGED <<received, worker, replied>> /\ call \in [Calls -> CallState]
  BY Zenon DEF Call, IInv, TypeOK
<1>2. CASE UNCHANGED sent
  <2>1. \A d \in Calls : Waiting(d)' => Waiting(d)
    BY <1>1, <1>2, <1>0 DEF Call, Return, Waiting
  <2> QED
    BY <1>1, <1>2, <2>1, CallerKeepsJobs, Zenon
<1>3. CASE sent' = Append(sent, c) /\ Return(c, "waiting")
  <2>1. /\ Len(sent') = Len(sent) + 1 /\ sent'[Len(sent) + 1] = c
        /\ \A i \in 1..Len(sent) : sent'[i] = sent[i] /\ i \in 1..Len(sent')
        /\ Len(sent) + 1 \in 1..Len(sent')
    BY <1>0, <1>3
  <2>2. \A i : Ahead(i)' <=> Ahead(i)
    BY <1>1, Zenon DEF Ahead
  <2>3. ASSUME NEW d \in Calls, Waiting(d)' PROVE d \in replied \/ Pending(d)' \/ worker = "dead"
    <3>1. CASE d = c
      <4>1. Ahead(Len(sent) + 1)
        BY <1>0 DEF Ahead
      <4> QED
        BY <2>1, <2>2, <3>1, <4>1, Zenon DEF Pending
    <3>2. CASE d # c
      <4>1. d \in replied \/ Pending(d) \/ worker = "dead"
        BY <1>1, <1>3, <2>3, <3>2, Zenon DEF Return, Waiting, JobsKept
      <4>2. worker = "running" => Job' = Job
        <5>1. worker = "running" => received \in 1..Len(sent)
          BY <1>0 DEF IInv, CallerInv
        <5> QED
          BY <1>1, <2>1, <5>1, Zenon DEF Job
      <4>3. Pending(d) => Pending(d)'
        BY <1>1, <2>1, <2>2, <4>2, Zenon DEF Pending
      <4> QED
        BY <4>1, <4>3, Zenon
    <3> QED
      BY <3>1, <3>2, Zenon
  <2> QED
    BY <1>1, <2>3, Zenon DEF JobsKept
<1> QED
  BY <1>2, <1>3, Zenon DEF Call

\* recv() and abandoned.load(): only a job that was given up is passed over.
LEMMA WorkerKeepsJobs ==
  ASSUME IInv, JobsKept, Receive \/ Load
  PROVE  JobsKept'
<1>0. received \in Nat /\ \A i \in 1..Len(sent) : i \in Nat
  BY DEF IInv, TypeOK
<1>1. UNCHANGED <<call, sent, replied>> /\ worker \in {"idle", "loading"}
  BY Zenon DEF Receive, Load
<1> SUFFICES ASSUME NEW c \in Calls, Waiting(c), c \notin replied
             PROVE  Pending(c)'
  BY <1>1, Zenon DEF JobsKept, Waiting
<1>2. PICK i \in 1..Len(sent) : Ahead(i) /\ sent[i] = c
  BY <1>1, Zenon DEF JobsKept, Pending
<1>3. CASE Receive
  <2>1. Ahead(i)'
    BY <1>0, <1>2, <1>3 DEF Receive, Ahead
  <2> QED
    BY <1>1, <1>2, <2>1, Zenon DEF Pending
<1>4. CASE Load
  <2>1. worker = "loading" /\ i >= received /\ received' = received
    BY <1>2, <1>4, Zenon DEF Load, Ahead
  <2>2. CASE i = received
    <3>1. c \notin abandoned
      BY Zenon DEF Waiting, IInv, CallerInv
    <3>2. Job = c /\ Job' = Job
      BY <1>1, <1>2, <2>1, <2>2, Zenon DEF Job
    <3> QED
      BY <1>4, <3>1, <3>2, Zenon DEF Load, Pending
  <2>3. CASE i # received
    <3>1. i > received /\ worker' # "loading"
      BY <1>0, <1>4, <2>1, <2>3 DEF Load
    <3> QED
      BY <1>1, <1>2, <2>1, <3>1, Zenon DEF Ahead, Pending
  <2> QED
    BY <2>2, <2>3, Zenon
<1> QED
  BY <1>3, <1>4, Zenon

\* The operation returns, panics, or the thread ends: the job that ran is answered,
\* and the others stay where they were.
LEMMA EndKeepsJobs ==
  ASSUME IInv, JobsKept, Finish \/ Panic \/ Exit
  PROVE  JobsKept'
<1>1. /\ UNCHANGED <<call, sent, received>>
      /\ worker # "loading" /\ worker' # "loading"
  BY Zenon DEF Finish, Panic, Exit
<1>2. \A i : Ahead(i)' <=> Ahead(i)
  BY <1>1, Zenon DEF Ahead
<1>3. CASE Finish
  BY <1>1, <1>2, <1>3, Zenon DEF Finish, JobsKept, Pending, Waiting, Job
<1>4. CASE Panic
  BY <1>4, Zenon DEF Panic, JobsKept
<1>5. CASE Exit
  BY <1>1, <1>2, <1>5, Zenon DEF Exit, JobsKept, Pending, Waiting, Job
<1> QED
  BY <1>3, <1>4, <1>5, Zenon

\* A job that is accepted while its caller waits is never lost, whatever other
\* callers give up and whenever the session is dropped.
THEOREM NoJobLost == Spec => []JobsKept
<1>1. Init => JobsKept
  BY Zenon DEF Init, JobsKept, Waiting
<1>2. IInv /\ JobsKept /\ [Next]_vars => JobsKept'
  <2> SUFFICES ASSUME IInv, JobsKept, [Next]_vars PROVE JobsKept'
    BY Zenon
  <2>1. ASSUME NEW c \in Calls, CallerStep(c) PROVE JobsKept'
    <3>1. UNCHANGED <<sent, received, worker, replied>>
      BY <2>1, Zenon DEF CallerStep, TakeReply, Expire, GiveUp, FindDisconnected
    <3>2. Waiting(c) /\ \A d \in Calls : d # c => call'[d] = call[d]
      BY <2>1, Zenon
         DEF CallerStep, TakeReply, Expire, GiveUp, FindDisconnected, Return, Waiting, IInv, TypeOK
    <3> QED
      BY <3>1, <3>2, CallerKeepsJobs, Zenon DEF Waiting
  <2>2. CASE DropSession \/ UNCHANGED vars
    BY <2>2, CallerKeepsJobs, Zenon DEF DropSession, vars, Waiting
  <2> QED
    BY <2>1, <2>2, CallKeepsJobs, WorkerKeepsJobs, EndKeepsJobs, Zenon DEF Next
<1> QED
  BY <1>1, <1>2, Invariance, PTL DEF Spec

================================================================================

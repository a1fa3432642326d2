------------------------------ MODULE ResultCursor ------------------------------
(***************************************************************************)
(* One result read over HTTP: the RemoteReader of                          *)
(* crates/adbc-driver-grainlift/src/lib.rs, the continuation tokens of     *)
(* ResultProducer in crates/grainlift-server/src/service.rs, and the       *)
(* replayable cursor ResultEntry in session.rs.                            *)
(*                                                                         *)
(* A request names the sequence number it wants.  Requests and replies can *)
(* be lost, delayed and repeated: both stay in their sets once sent, and   *)
(* are handled any number of times, or never.  The cursor runs on the      *)
(* session's worker, so one request at a time is at the downstream reader; *)
(* its caller may be told TIMEOUT while the reader is still at work.       *)
(***************************************************************************)
EXTENDS Naturals, Sequences

CONSTANT MaxBatches  \* bound: how many batches the downstream reader returns

ASSUME CursorAssumption == MaxBatches \in Nat

VARIABLES
  reader,         \* the downstream RecordBatchReader
  produced,       \* how many batches it has returned
  last,           \* ResultEntry::last
  terminal_error, \* ResultEntry::terminal_error, the sequence number
  next_sequence,  \* ResultEntry::next_sequence
  finished,       \* ResultEntry::finished
  registered,     \* the result is in SessionResources::results
  serving,        \* the sequence for which reader.next() is running
  expected,       \* its caller is still waiting for the reply
  requests,       \* sequence numbers asked for, from the token in each request
  replies,        \* replies on their way to the client
  pending,        \* RemoteReaderMode::Http::pending
  continuation,   \* RemoteReaderMode::Http::continuation, the token's sequence
  awaited,        \* the sequence the client is waiting for
  phase,          \* where the RemoteReader is
  read            \* the batches its iterator has returned

cursor == <<last, terminal_error, next_sequence, finished>>
server == <<reader, produced, cursor, registered, serving, expected>>
client == <<pending, continuation, awaited, phase, read>>
vars == <<server, requests, replies, client>>

--------------------------------------------------------------------------------
\* Option<T>: a sequence of at most one element.
None == <<>>
Some(x) == <<x>>
Option(S) == {None} \cup {Some(x) : x \in S}

Sequence == 0..MaxBatches
Phase == {"new", "opening", "reading", "done", "ended", "failed", "dropped"}

\* "data" and "end" and "error" are the cursor's answers; "refused" stands for
\* NOT_FOUND, INVALID_STATE, TIMEOUT and busy, which say nothing of the data.
Reply == [kind : {"data"}, sequence : Sequence, batch : 1..MaxBatches]
         \cup [kind : {"end", "error", "refused"}, sequence : Sequence]

Init ==
  /\ reader = "live"
  /\ produced = 0
  /\ last = None
  /\ terminal_error = None
  /\ next_sequence = 0
  /\ finished = FALSE
  /\ registered = TRUE
  /\ serving = None
  /\ expected = FALSE
  /\ requests = {}
  /\ replies = {}
  /\ pending = None
  /\ continuation = None
  /\ awaited = None
  /\ phase = "new"
  /\ read = <<>>

--------------------------------------------------------------------------------
(* The server.                                                              *)

Answer(k, q) == replies' = replies \cup {[kind |-> k, sequence |-> q]}
AnswerData(q, b) == replies' = replies \cup {[kind |-> "data", sequence |-> q, batch |-> b]}

\* Variant: the last batch answers whatever is asked.
ReplayableAlways(q) == last # None /\ q \in Sequence

\* ResultEntry::next: the retained batch answers a repeated request.
Replayable(q) == last # None /\ last[1][1] = q

\* produce() and ResultEntry::next up to the call of the reader.
Handle(q) ==
  /\ q \in requests
  /\ serving = None
  /\ IF ~registered THEN Answer("refused", q) /\ UNCHANGED server
     ELSE IF Replayable(q) THEN AnswerData(q, last[1][2]) /\ UNCHANGED server
     ELSE IF terminal_error = Some(q) THEN Answer("error", q) /\ UNCHANGED server
     ELSE IF q # next_sequence THEN Answer("refused", q) /\ UNCHANGED server
     ELSE IF finished THEN Answer("end", q) /\ UNCHANGED server
     ELSE /\ serving' = Some(q)
          /\ expected' = TRUE
          /\ UNCHANGED <<reader, produced, cursor, registered, replies>>
  /\ UNCHANGED <<requests, client>>

\* The reply of the running call reaches its caller unless that has given up.
Reply1(reply) == IF expected THEN reply ELSE UNCHANGED replies
Served ==
  /\ serving' = None
  /\ expected' = FALSE
  /\ UNCHANGED <<registered, requests, client>>

\* reader.next() returns a batch.
ReadBatch ==
  /\ serving # None
  /\ produced < MaxBatches
  /\ produced' = produced + 1
  /\ last' = Some(<<serving[1], produced + 1>>)
  /\ next_sequence' = next_sequence + 1
  /\ Reply1(AnswerData(serving[1], produced + 1))
  /\ Served
  /\ UNCHANGED <<reader, terminal_error, finished>>

\* Variant: the error is not kept for a repeated request.
ReadErrorForgotten ==
  /\ serving # None
  /\ reader' = "failed"
  /\ finished' = TRUE
  /\ Reply1(Answer("error", serving[1]))
  /\ Served
  /\ UNCHANGED <<produced, last, terminal_error, next_sequence>>

\* It returns an error, which ends the stream.
ReadError ==
  /\ serving # None
  /\ reader' = "failed"
  /\ terminal_error' = serving
  /\ finished' = TRUE
  /\ Reply1(Answer("error", serving[1]))
  /\ Served
  /\ UNCHANGED <<produced, last, next_sequence>>

\* It returns None.
ReadEnd ==
  /\ serving # None
  /\ reader' = "ended"
  /\ finished' = TRUE
  /\ last' = None
  /\ Reply1(Answer("end", serving[1]))
  /\ Served
  /\ UNCHANGED <<produced, terminal_error, next_sequence>>

\* Variant: a caller waits as long as the reader takes.
TimesOutNever(q) == FALSE /\ q \in Sequence /\ UNCHANGED vars

\* SessionWorker::call gives up on a request, the one being served or one in
\* the queue, behind it or behind a job for another handle; or the queue is full.
TimesOut(q) ==
  /\ q \in requests
  /\ Answer("refused", q)
  /\ expected' = (expected /\ serving # Some(q))
  /\ UNCHANGED <<reader, produced, cursor, registered, serving, requests, client>>

\* The statement is executed again or closed, the session goes, or the reader
\* is dropped after its end and closes the result.
Invalidate ==
  /\ registered
  /\ registered' = FALSE
  /\ UNCHANGED <<reader, produced, cursor, serving, expected, requests, replies, client>>

--------------------------------------------------------------------------------
(* The client.                                                              *)

\* RemoteReader::open asks for sequence 0.
Open ==
  /\ phase = "new"
  /\ phase' = "opening"
  /\ requests' = requests \cup {0}
  /\ awaited' = Some(0)
  /\ UNCHANGED <<server, replies, pending, continuation, read>>

\* The first reply: a batch is kept in pending, with the token of the next
\* sequence; an error fails the open, and no RemoteReader comes to be.
OpenGets(r) ==
  /\ phase = "opening"
  /\ awaited = Some(r.sequence)
  /\ awaited' = None
  /\ IF r.kind = "data"
       THEN /\ pending' = Some(r.batch)
            /\ continuation' = Some(r.sequence + 1)
            /\ phase' = "reading"
       ELSE /\ phase' = IF r.kind = "end" THEN "done" ELSE "failed"
            /\ UNCHANGED <<pending, continuation>>
  /\ UNCHANGED <<server, requests, replies, read>>

\* next_remote(): the pending batch first,
NextPending ==
  /\ phase = "reading"
  /\ pending # None
  /\ read' = Append(read, pending[1])
  /\ pending' = None
  /\ UNCHANGED <<server, requests, replies, continuation, awaited, phase>>

\* then the token is taken and sent.
NextRequest ==
  /\ phase = "reading"
  /\ pending = None
  /\ continuation # None
  /\ continuation' = None
  /\ awaited' = continuation
  /\ requests' = requests \cup {continuation[1]}
  /\ UNCHANGED <<server, replies, pending, phase, read>>

\* The reply: a batch is returned, the end ends the iterator, an error is
\* returned and nothing follows it.
NextGets(r) ==
  /\ phase = "reading"
  /\ awaited = Some(r.sequence)
  /\ awaited' = None
  /\ IF r.kind = "data"
       THEN /\ read' = Append(read, r.batch)
            /\ continuation' = Some(r.sequence + 1)
            /\ UNCHANGED phase
       ELSE /\ phase' = IF r.kind = "end" THEN "ended" ELSE "failed"
            /\ UNCHANGED <<read, continuation>>
  /\ UNCHANGED <<server, requests, replies, pending>>

\* next_remote() of a reader that was finished when it was opened.
NextDone ==
  /\ phase = "done"
  /\ phase' = "ended"
  /\ UNCHANGED <<server, requests, replies, pending, continuation, awaited, read>>

\* The request or its reply is lost: the transport reports an error.
TransportFails ==
  /\ phase \in {"opening", "reading"}
  /\ awaited # None
  /\ awaited' = None
  /\ phase' = "failed"
  /\ UNCHANGED <<server, requests, replies, pending, continuation, read>>

\* RemoteReader::drop between two calls of next(); its CLOSE_RESULT may be lost.
Drop ==
  /\ phase \in {"reading", "done"}
  /\ awaited = None
  /\ phase' = "dropped"
  /\ registered' \in {registered, FALSE}
  /\ UNCHANGED <<reader, produced, cursor, serving, expected, requests, replies,
                 pending, continuation, awaited, read>>

--------------------------------------------------------------------------------
ClientStep ==
  \/ Open
  \/ \E r \in replies : OpenGets(r) \/ NextGets(r)
  \/ NextPending
  \/ NextRequest
  \/ NextDone

Next ==
  \/ \E q \in requests : Handle(q) \/ TimesOut(q)
  \/ ReadBatch \/ ReadError \/ ReadEnd
  \/ Invalidate
  \/ ClientStep
  \/ TransportFails
  \/ Drop

Spec == Init /\ [][Next]_vars

--------------------------------------------------------------------------------
\* The type invariant.
TypeOK ==
  /\ reader \in {"live", "ended", "failed"}
  /\ produced \in 0..MaxBatches
  /\ last \in Option(Sequence \X (1..MaxBatches))
  /\ terminal_error \in Option(Sequence)
  /\ next_sequence \in Sequence
  /\ finished \in BOOLEAN
  /\ registered \in BOOLEAN
  /\ serving \in Option(Sequence)
  /\ expected \in BOOLEAN
  /\ requests \subseteq Sequence
  /\ replies \subseteq Reply
  /\ pending \in Option(1..MaxBatches)
  /\ continuation \in Option(Sequence)
  /\ awaited \in Option(Sequence)
  /\ phase \in Phase
  /\ read \in Seq(1..MaxBatches)

\* What the application knows: until the iterator has said so, it is reading.
Outcome == IF phase \in {"ended", "failed"} THEN phase ELSE "reading"

Stream == INSTANCE ResultStream WITH source <- reader, outcome <- Outcome

\* Lost, repeated and reordered requests and replies, timeouts of reads that
\* complete later, and invalidation never make a reader skip, repeat or reorder
\* a batch, or take a truncated stream for a complete one.
ReadsTheStream == Stream!Spec

\* A repeated request gets the answer of the first: whatever the cursor says of
\* a sequence number, batch, error or end, it says every time.
AnswersAgree ==
  \A r1, r2 \in replies :
    r1.sequence = r2.sequence /\ "refused" \notin {r1.kind, r2.kind} => r1 = r2

\* The downstream reader is never called again after it ended or failed.
CalledWhileLive == serving # None => reader = "live"

\* A reader that goes on asking comes to an end, a failure at worst.
ReadingEnds == phase \in {"opening", "reading"} ~> phase \notin {"opening", "reading"}

================================================================================

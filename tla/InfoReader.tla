------------------------------- MODULE InfoReader -------------------------------
(***************************************************************************)
(* get_info() of the client driver, in                                     *)
(* crates/adbc-driver-grainlift/src/lib.rs: the response that names the    *)
(* remote result is decoded (IpcFraming), the result is read (ResultCursor) *)
(* and GrainliftInfoReader puts the driver's own rows in place of those of *)
(* the downstream driver.                                                  *)
(*                                                                         *)
(* A row is the info code it is about, a u32.                              *)
(***************************************************************************)
EXTENDS ResultCursor, IpcFraming

CONSTANTS
  Payloads,    \* the responses to GET_INFO
  DriverCodes, \* is_grainlift_driver_info(): the codes, in the driver's order
  Contents,    \* what the batches of the downstream reader may hold
  NoColumn,    \* the contents of a reader whose batches have no info_name
  CodeSets     \* the codes an application may ask for; None is for all

VARIABLES
  response,   \* the response to GET_INFO; None once it has been used
  decoded,    \* whether decode_batch_ipc() accepted it
  codes,      \* the codes asked for
  contents,   \* the rows of the downstream reader's batches
  own,        \* grainlift_batch
  runs,       \* GrainliftInfoReader::pending
  given,      \* the batches next() has returned
  errors      \* next() has returned an error

infoVars == <<response, decoded, codes, contents, own, runs, given, errors>>
allVars == <<vars, infoVars>>

Codes == {DriverCodes[i] : i \in DOMAIN DriverCodes}

ASSUME InfoAssumption ==
  /\ Payloads \subseteq Seq(Words)
  /\ DriverCodes \in Seq(Nat)
  /\ Contents \ {NoColumn} \subseteq [1 .. MaxBatches -> Seq(Nat)]

\* The rows of a batch that are in a set.
Only(rows, set) ==
  LET kept[i \in 0 .. Len(rows)] ==
        IF i = 0 THEN <<>>
        ELSE IF rows[i] \in set THEN Append(kept[i - 1], rows[i])
        ELSE kept[i - 1]
  IN  kept[Len(rows)]

\* The driver's own rows, for the codes asked for.
OwnRows(wanted) == Only(DriverCodes, IF wanted = None THEN Codes ELSE wanted[1])

\* grainlift_info_batch(): a row for every driver code asked for, or no batch.
InfoBatch(wanted) == IF OwnRows(wanted) = <<>> THEN None ELSE Some(OwnRows(wanted))

InfoInit ==
  /\ Init
  /\ response \in {Some(b) : b \in Payloads}
  /\ decoded = None
  /\ codes = None
  /\ contents = NoColumn
  /\ own = None
  /\ runs = <<>>
  /\ given = <<>>
  /\ errors = FALSE

\* reader_from_response(): the response is decoded first.
DecodeResponse ==
  /\ decoded = None
  /\ decoded' = Some(DecodeBatchIpc(response[1]))
  /\ UNCHANGED <<vars, response, codes, contents, own, runs, given, errors>>

\* Then RemoteReader::open(), for a record.  What was asked for, and what the downstream reader
\* has, matters from here on.
OpenReader ==
  /\ decoded = Some(TRUE)
  /\ response # None /\ DecodeRecordIpc(response[1])
  /\ Open
  /\ response' = None
  /\ codes' \in CodeSets
  /\ contents' \in Contents
  /\ UNCHANGED <<decoded, own, runs, given, errors>>

\* Its first reply; with the reader open get_info() makes the driver's own batch.
OpenReturns ==
  /\ \E r \in replies : OpenGets(r)
  /\ own' = IF phase' = "failed" THEN None ELSE InfoBatch(codes)
  /\ UNCHANGED <<response, decoded, codes, contents, runs, given, errors>>

--------------------------------------------------------------------------------
\* Variant: the start of a run is not given up when the run ends.
RunsNotTaken(batch) ==
  LET scan[i \in 0 .. Len(batch)] ==
        IF i = 0 THEN [start |-> None, runs |-> <<>>]
        ELSE
          LET s == scan[i - 1]
          IN  IF s.start = None THEN [s EXCEPT !.start = IF batch[i] \in Codes THEN @ ELSE Some(i)]
              ELSE IF batch[i] \in Codes
                THEN [s EXCEPT !.runs = Append(@, SubSeq(batch, s.start[1], i - 1))]
              ELSE s
      final == scan[Len(batch)]
  IN  IF final.start = None THEN final.runs
      ELSE Append(final.runs, SubSeq(batch, final.start[1], Len(batch)))

\* The runs of rows between those of the driver's codes, as next() slices them.
Runs(batch) ==
  LET scan[i \in 0 .. Len(batch)] ==
        IF i = 0 THEN [start |-> None, runs |-> <<>>]
        ELSE
          LET s == scan[i - 1]
          IN  IF batch[i] \in Codes
                THEN IF s.start = None THEN s
                     ELSE [start |-> None,
                           runs |-> Append(s.runs, SubSeq(batch, s.start[1], i - 1))]
                ELSE IF s.start = None THEN [s EXCEPT !.start = Some(i)] ELSE s
      final == scan[Len(batch)]
  IN  IF final.start = None THEN final.runs
      ELSE Append(final.runs, SubSeq(batch, final.start[1], Len(batch)))

\* GrainliftInfoReader::next(): the driver's own batch,
NextOwn ==
  /\ phase \in {"reading", "done"}
  /\ own # None
  /\ given' = Append(given, own[1])
  /\ own' = None
  /\ UNCHANGED <<vars, response, decoded, codes, contents, runs, errors>>

\* then a run of the last batch,
NextRun ==
  /\ phase = "reading"
  /\ own = None
  /\ runs # <<>>
  /\ given' = Append(given, Head(runs))
  /\ runs' = Tail(runs)
  /\ UNCHANGED <<vars, response, decoded, codes, contents, own, errors>>

\* then the remote reader's next(), again while its batches have nothing to give.
NextDownstream ==
  /\ own = None
  /\ runs = <<>>
  /\ \/ NextPending
     \/ NextRequest
     \/ NextDone
     \/ \E r \in replies : NextGets(r)
     \/ TransportFails /\ phase = "reading"
  /\ IF Len(read') = Len(read)
       THEN errors' = (errors \/ phase' = "failed") /\ UNCHANGED <<runs, given>>
     ELSE IF contents = NoColumn
       THEN errors' = TRUE /\ UNCHANGED <<runs, given>>
     ELSE LET found == Runs(contents[read'[Len(read')]])
          IN  /\ runs' = IF found = <<>> THEN found ELSE Tail(found)
              /\ given' = IF found = <<>> THEN given ELSE Append(given, Head(found))
              /\ UNCHANGED errors
  /\ UNCHANGED <<response, decoded, codes, contents, own>>

\* The rest of ResultCursor: the server, an open that fails, the reader dropped.
Others ==
  /\ \/ \E q \in requests : Handle(q) \/ TimesOut(q)
     \/ ReadBatch \/ ReadError \/ ReadEnd
     \/ Invalidate
     \/ TransportFails /\ phase = "opening"
     \/ Drop
  /\ UNCHANGED infoVars

\* The application goes on with the call.
InfoStep == DecodeResponse \/ OpenReader \/ OpenReturns \/ NextOwn \/ NextRun \/ NextDownstream

InfoNext == InfoStep \/ Others

InfoSpec == InfoInit /\ [][InfoNext]_allVars

\* As FairSpec: the application reads on, requests arrive, deadlines pass.
InfoFairSpec ==
  /\ InfoSpec
  /\ WF_allVars(InfoStep)
  /\ \A q \in Sequence :
       /\ WF_allVars(Handle(q) /\ UNCHANGED infoVars)
       /\ WF_allVars(serving # None /\ TimesOut(q) /\ UNCHANGED infoVars)

--------------------------------------------------------------------------------
\* A payload is accepted exactly if it is one complete stream of one batch with its
\* dictionaries, within the limit before and after decoding: truncated, extended and
\* repeated streams are refused, wherever the lengths in them point.
FramesAgree ==
  response # None /\ decoded # None => decoded[1] = IsOneBatch(response[1])

Concat(batches) ==
  LET upTo[i \in 0 .. Len(batches)] == IF i = 0 THEN <<>> ELSE upTo[i - 1] \o batches[i]
  IN  upTo[Len(batches)]

\* What a complete answer is: the driver's own rows for the codes asked for, then the
\* rows of the first n downstream batches that are not about the driver.
Complete(n) ==
  OwnRows(codes) \o Concat([i \in 1 .. n |-> Only(contents[i], Nat \ Codes)])

\* However batches are cut, repeated by the network or emptied by the filter, the
\* application gets the rows of the answer in order, none twice and no batch empty;
\* all of them if the reader came to its end without an error.
InfoRowsExact ==
  contents # NoColumn =>
    LET rows == Concat(given)
    IN  /\ Len(rows) <= Len(Complete(produced))
        /\ rows = SubSeq(Complete(produced), 1, Len(rows))
        /\ \A i \in DOMAIN given : given[i] # <<>>
        /\ phase = "ended" /\ ~errors => rows = Complete(produced)

================================================================================

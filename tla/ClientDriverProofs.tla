--------------------------- MODULE ClientDriverProofs ---------------------------
(***************************************************************************)
(* Proofs about ClientDriver for any number of statements, readers and     *)
(* cancellations, over either transport.                                   *)
(***************************************************************************)
EXTENDS ClientDriver, TLAPS

\* A thread that has or will have a call on the wire, CLOSE_CONNECTION apart, or
\* has yet to give its reference up.
Working(t) == doing[t] \in (Methods \ {"close_connection"}) \cup {"opening", "draining", "release"}

\* The reference counts: whoever lives or works holds the connection, and it is
\* closed when nobody does.
HolderInv ==
  /\ \A o \in Objects : obj[o] = "live" => o \in holders
  /\ \A t \in Threads : Working(t) => t \in holders
  /\ \A t \in Threads : doing[t] = "close_connection" => holders = {}
  /\ Conn \in sent => holders = {}

\* A child that exists has the connection or has sent its close.
ChildInv ==
  \A o \in Statements \cup Readers : obj[o] # "absent" => o \in holders \/ o \in sent

\* What a thread is making, and where the binding of a reader leads.
MakeInv ==
  /\ \A t \in Threads : doing[t] = "new_statement" =>
       t = Conn /\ making[t] \in Statements /\ obj[making[t]] = "absent"
  /\ \A t \in Threads : doing[t] \in {"execute", "opening"} =>
       making[t] \in Readers /\ Maker[making[t]] = t /\ obj[making[t]] = "absent"
  /\ \A t \in Threads : doing[t] \in {"bind", "draining"} =>
       t \in Statements /\ making[t] \in Readers
  /\ \A t \in Threads : doing[t] = "bind" => obj[making[t]] = "live"
  /\ \A s, t \in Threads :
       /\ doing[s] \in {"bind", "draining"} /\ doing[t] \in {"bind", "draining"}
       /\ making[s] = making[t]
       => s = t

\* A close is sent before the reference goes.
CloseInv ==
  /\ \A t \in Threads : doing[t] \in {"close_statement", "close_result"} =>
       t \in Statements \cup Readers
  /\ \A t \in Statements \cup Readers :
       doing[t] \in {"release", "close_connection", "hangup"} => t \in sent
  /\ \A o \in Objects : doing[o] # "cancel"
  /\ \A t \in inflight : doing[t] \in {"close_statement", "close_result"} => t \in sent

\* What the thread of an object may be at in each part of the object's life.
LifeInv ==
  /\ \A t \in inflight : doing[t] \in Methods
  /\ \A o \in Statements \cup Readers : obj[o] = "absent" => doing[o] = "idle"
  /\ \A r \in Readers : obj[r] = "live" => doing[r] = "idle"
  /\ \A o \in Objects :
       doing[o] \in {"close_statement", "close_result", "release", "close_connection",
                     "hangup", "done"} =>
         obj[o] # "live"

CallsInv == CallsTypeOK /\ HolderInv /\ ChildInv /\ MakeInv /\ CloseInv /\ LifeInv

\* A batch that is on its way was counted.
ReplyInv == \A r \in Readers : reply[r] = "batch" => produced[r] \in 1..MaxBatches

StreamsInv == StreamsTypeOK /\ ReplyInv

--------------------------------------------------------------------------------
\* The kinds of threads.
LEMMA Kinds ==
  /\ Conn \in Objects /\ Statements \subseteq Objects /\ Readers \subseteq Objects
  /\ Objects \subseteq Threads /\ Cancels \subseteq Threads
  /\ Conn \notin Statements /\ Conn \notin Readers /\ Conn \notin Cancels
  /\ Objects = {Conn} \cup Statements \cup Readers
  /\ Threads = Objects \cup Cancels
  /\ Statements \cap Readers = {} /\ Cancels \cap Objects = {}
  /\ None \notin Threads
  /\ Maker \in [Readers -> {Conn} \cup Statements]
  /\ MaxBatches \in Nat
BY DriverAssumption, Zenon DEF Objects, Threads

\* What a reader has read grows by a batch.
LEMMA OneMoreBatch ==
  ASSUME NEW S, NEW batches \in Seq(S), NEW b \in S
  PROVE  Append(batches, b) \in Seq(S)
OBVIOUS

\* In the beginning the connection alone holds the session.
LEMMA InitInv == Init => CallsInv /\ StreamsInv
<1> SUFFICES ASSUME Init PROVE CallsInv /\ StreamsInv
  BY Zenon
<1> USE Kinds DEF Init
<1>1. CallsTypeOK
  BY Zenon DEF CallsTypeOK
<1>2. HolderInv
  BY Zenon DEF HolderInv, Working, Methods
<1>3. ChildInv
  BY Zenon DEF ChildInv
<1>4. MakeInv
  BY Zenon DEF MakeInv
<1>5. CloseInv
  BY Zenon DEF CloseInv
<1>6. LifeInv
  BY Zenon DEF LifeInv
<1>7. StreamsInv
  BY DEF StreamsInv, StreamsTypeOK, ReplyInv
<1> QED
  BY <1>1, <1>2, <1>3, <1>4, <1>5, <1>6, <1>7, Zenon DEF CallsInv

\* Reading leaves the calls alone.
LEMMA CallsUnchanged ==
  ASSUME CallsInv, UNCHANGED <<transport, obj, calls, holders, sent>>
  PROVE  CallsInv'
BY DEF CallsInv, CallsTypeOK, HolderInv, Working, ChildInv, MakeInv, CloseInv, LifeInv, calls

\* Most calls leave the streams alone.
LEMMA StreamsUnchanged ==
  ASSUME StreamsInv, UNCHANGED streams
  PROVE  StreamsInv'
BY Zenon DEF StreamsInv, StreamsTypeOK, ReplyInv, streams

\* A call goes out.
LEMMA SendInv ==
  ASSUME CallsInv, NEW t \in Threads, Send(t)
  PROVE  CallsInv'
<1> USE Kinds DEF Send
<1>0. CallsTypeOK /\ HolderInv /\ ChildInv /\ MakeInv /\ CloseInv /\ LifeInv
  BY Zenon DEF CallsInv
<1>1. CallsTypeOK'
  BY <1>0 DEF CallsTypeOK, MakeInv, CloseInv, Methods
<1>2. HolderInv'
  BY <1>0, ZenonT(30) DEF HolderInv, Working, Methods, MakeInv, CloseInv, LifeInv, CallsTypeOK
<1>3. ChildInv'
  BY <1>0, Zenon DEF ChildInv, HolderInv, Working, MakeInv, CloseInv, CallsTypeOK
<1>4. MakeInv'
  BY <1>0 DEF MakeInv, LifeInv, CallsTypeOK
<1>5. CloseInv'
  BY <1>0 DEF CloseInv, CallsTypeOK, MakeInv, LifeInv, Methods
<1>6. LifeInv'
  BY <1>0, ZenonT(30) DEF LifeInv, CallsTypeOK, MakeInv, CloseInv, Methods
<1> QED
  BY <1>1, <1>2, <1>3, <1>4, <1>5, <1>6, Zenon DEF CallsInv

\* A statement is asked for.
LEMMA NewStatementInv ==
  ASSUME CallsInv, NEW s \in Statements, NewStatement(s)
  PROVE  CallsInv'
<1> USE Kinds DEF NewStatement, Free, Begins
<1>0. CallsTypeOK /\ HolderInv /\ ChildInv /\ MakeInv /\ CloseInv /\ LifeInv
  BY Zenon DEF CallsInv
<1>1. CallsTypeOK'
  BY <1>0, Zenon DEF CallsTypeOK, MakeInv, CloseInv, Methods
<1>2. HolderInv'
  BY <1>0 DEF HolderInv, Working, Methods, MakeInv, CloseInv, LifeInv, CallsTypeOK
<1>3. ChildInv'
  BY <1>0, Zenon DEF ChildInv, HolderInv, Working, MakeInv, CloseInv, CallsTypeOK
<1>4. MakeInv'
  BY <1>0 DEF MakeInv, LifeInv, CallsTypeOK
<1>5. CloseInv'
  BY <1>0 DEF CloseInv, CallsTypeOK, MakeInv, LifeInv, Methods
<1>6. LifeInv'
  BY <1>0 DEF LifeInv, CallsTypeOK, MakeInv, CloseInv, Methods
<1> QED
  BY <1>1, <1>2, <1>3, <1>4, <1>5, <1>6, Zenon DEF CallsInv

\* The statement is there, with a reference of its own, or is not.
LEMMA NewStatementReturnsInv ==
  ASSUME CallsInv, NewStatementReturns
  PROVE  CallsInv'
<1> USE Kinds DEF NewStatementReturns, Returns, Goes, Becomes
<1>0. CallsTypeOK /\ HolderInv /\ ChildInv /\ MakeInv /\ CloseInv /\ LifeInv
  BY Zenon DEF CallsInv
<1>1. CallsTypeOK'
  BY <1>0 DEF CallsTypeOK, MakeInv, CloseInv, Methods
<1>2. HolderInv'
  BY <1>0 DEF HolderInv, Working, Methods, MakeInv, CloseInv, LifeInv, CallsTypeOK
<1>3. ChildInv'
  BY <1>0 DEF ChildInv, HolderInv, Working, MakeInv, CloseInv, CallsTypeOK
<1>4. MakeInv'
  BY <1>0 DEF MakeInv, LifeInv, CallsTypeOK
<1>5. CloseInv'
  BY <1>0 DEF CloseInv, CallsTypeOK, MakeInv, LifeInv, Methods
<1>6. LifeInv'
  BY <1>0 DEF LifeInv, CallsTypeOK, MakeInv, CloseInv, Methods
<1> QED
  BY <1>1, <1>2, <1>3, <1>4, <1>5, <1>6, Zenon DEF CallsInv

\* A result is asked for.
LEMMA ExecuteInv ==
  ASSUME CallsInv, NEW r \in Readers, Execute(r)
  PROVE  CallsInv'
<1> USE Kinds DEF Execute, Free, Begins
<1>0. CallsTypeOK /\ HolderInv /\ ChildInv /\ MakeInv /\ CloseInv /\ LifeInv
  BY Zenon DEF CallsInv
<1>1. CallsTypeOK'
  BY <1>0, Zenon DEF CallsTypeOK, MakeInv, CloseInv, Methods
<1>2. HolderInv'
  BY <1>0 DEF HolderInv, Working, Methods, MakeInv, CloseInv, LifeInv, CallsTypeOK
<1>3. ChildInv'
  BY <1>0, Zenon DEF ChildInv, HolderInv, Working, MakeInv, CloseInv, CallsTypeOK
<1>4. MakeInv'
  BY <1>0 DEF MakeInv, LifeInv, CallsTypeOK
<1>5. CloseInv'
  BY <1>0 DEF CloseInv, CallsTypeOK, MakeInv, LifeInv, Methods
<1>6. LifeInv'
  BY <1>0 DEF LifeInv, CallsTypeOK, MakeInv, CloseInv, Methods
<1> QED
  BY <1>1, <1>2, <1>3, <1>4, <1>5, <1>6, Zenon DEF CallsInv

\* The server has a result, or an error.
LEMMA ExecuteReturnsInv ==
  ASSUME CallsInv, NEW t \in Threads, ExecuteReturns(t)
  PROVE  CallsInv'
<1> USE Kinds DEF ExecuteReturns, Returns, Goes
<1>0. CallsTypeOK /\ HolderInv /\ ChildInv /\ MakeInv /\ CloseInv /\ LifeInv
  BY Zenon DEF CallsInv
<1>1. CallsTypeOK'
  BY <1>0 DEF CallsTypeOK, MakeInv, CloseInv, Methods
<1>2. HolderInv'
  BY <1>0 DEF HolderInv, Working, Methods, MakeInv, CloseInv, LifeInv, CallsTypeOK
<1>3. ChildInv'
  BY <1>0, Zenon DEF ChildInv, HolderInv, Working, MakeInv, CloseInv, CallsTypeOK
<1>4. MakeInv'
  BY <1>0 DEF MakeInv, LifeInv, CallsTypeOK
<1>5. CloseInv'
  BY <1>0 DEF CloseInv, CallsTypeOK, MakeInv, LifeInv, Methods
<1>6. LifeInv'
  BY <1>0, SMTT(30) DEF LifeInv, CallsTypeOK, MakeInv, CloseInv, Methods
<1> QED
  BY <1>1, <1>2, <1>3, <1>4, <1>5, <1>6, Zenon DEF CallsInv

\* The reader is there, with a reference of its own, or is not.
LEMMA OpenReaderInv ==
  ASSUME CallsInv, NEW t \in Threads, OpenReader(t)
  PROVE  CallsInv'
<1> USE Kinds DEF OpenReader, Goes, Becomes
<1>0. CallsTypeOK /\ HolderInv /\ ChildInv /\ MakeInv /\ CloseInv /\ LifeInv
  BY Zenon DEF CallsInv
<1>1. CallsTypeOK'
  BY <1>0 DEF CallsTypeOK, MakeInv, CloseInv, Methods
<1>2. HolderInv'
  BY <1>0 DEF HolderInv, Working, Methods, MakeInv, CloseInv, LifeInv, CallsTypeOK
<1>3. ChildInv'
  BY <1>0 DEF ChildInv, HolderInv, Working, MakeInv, CloseInv, CallsTypeOK
<1>4. MakeInv'
  BY <1>0 DEF MakeInv, LifeInv, CallsTypeOK
<1>5. CloseInv'
  BY <1>0 DEF CloseInv, CallsTypeOK, MakeInv, LifeInv, Methods
<1>6. LifeInv'
  BY <1>0 DEF LifeInv, CallsTypeOK, MakeInv, CloseInv, Methods
<1> QED
  BY <1>1, <1>2, <1>3, <1>4, <1>5, <1>6, Zenon DEF CallsInv

\* Another call of a connection or a statement.
LEMMA OperateInv ==
  ASSUME CallsInv, NEW t \in {Conn} \cup Statements, Operate(t)
  PROVE  CallsInv'
<1> USE Kinds DEF Operate, Free, Begins
<1>0. CallsTypeOK /\ HolderInv /\ ChildInv /\ MakeInv /\ CloseInv /\ LifeInv
  BY Zenon DEF CallsInv
<1>1. CallsTypeOK'
  BY <1>0, Zenon DEF CallsTypeOK, MakeInv, CloseInv, Methods
<1>2. HolderInv'
  BY <1>0 DEF HolderInv, Working, Methods, MakeInv, CloseInv, LifeInv, CallsTypeOK
<1>3. ChildInv'
  BY <1>0, Zenon DEF ChildInv, HolderInv, Working, MakeInv, CloseInv, CallsTypeOK
<1>4. MakeInv'
  BY <1>0 DEF MakeInv, LifeInv, CallsTypeOK
<1>5. CloseInv'
  BY <1>0 DEF CloseInv, CallsTypeOK, MakeInv, LifeInv, Methods
<1>6. LifeInv'
  BY <1>0 DEF LifeInv, CallsTypeOK, MakeInv, CloseInv, Methods
<1> QED
  BY <1>1, <1>2, <1>3, <1>4, <1>5, <1>6, Zenon DEF CallsInv

\* It returns.
LEMMA OperateReturnsInv ==
  ASSUME CallsInv, NEW t \in Threads, OperateReturns(t)
  PROVE  CallsInv'
<1> USE Kinds DEF OperateReturns, Returns, Goes
<1>0. CallsTypeOK /\ HolderInv /\ ChildInv /\ MakeInv /\ CloseInv /\ LifeInv
  BY Zenon DEF CallsInv
<1>1. CallsTypeOK'
  BY <1>0, SMTT(30) DEF CallsTypeOK, MakeInv, CloseInv, Methods
<1>2. HolderInv'
  BY <1>0 DEF HolderInv, Working, Methods, MakeInv, CloseInv, LifeInv, CallsTypeOK
<1>3. ChildInv'
  BY <1>0, Zenon DEF ChildInv, HolderInv, Working, MakeInv, CloseInv, CallsTypeOK
<1>4. MakeInv'
  BY <1>0 DEF MakeInv, LifeInv, CallsTypeOK
<1>5. CloseInv'
  BY <1>0 DEF CloseInv, CallsTypeOK, MakeInv, LifeInv, Methods
<1>6. LifeInv'
  BY <1>0 DEF LifeInv, CallsTypeOK, MakeInv, CloseInv, Methods
<1> QED
  BY <1>1, <1>2, <1>3, <1>4, <1>5, <1>6, Zenon DEF CallsInv

\* A statement binds from a reader, which is then its own.
LEMMA BindInv ==
  ASSUME CallsInv, NEW s \in Statements, NEW r \in Readers, Bind(s, r)
  PROVE  CallsInv'
<1> USE Kinds DEF Bind, Free, Given, Begins
<1>0. CallsTypeOK /\ HolderInv /\ ChildInv /\ MakeInv /\ CloseInv /\ LifeInv
  BY Zenon DEF CallsInv
<1>1. CallsTypeOK'
  BY <1>0, Zenon DEF CallsTypeOK, MakeInv, CloseInv, Methods
<1>2. HolderInv'
  BY <1>0 DEF HolderInv, Working, Methods, MakeInv, CloseInv, LifeInv, CallsTypeOK
<1>3. ChildInv'
  BY <1>0, Zenon DEF ChildInv, HolderInv, Working, MakeInv, CloseInv, CallsTypeOK
<1>4. MakeInv'
  BY <1>0 DEF MakeInv, LifeInv, CallsTypeOK
<1>5. CloseInv'
  BY <1>0 DEF CloseInv, CallsTypeOK, MakeInv, LifeInv, Methods
<1>6. LifeInv'
  BY <1>0 DEF LifeInv, CallsTypeOK, MakeInv, CloseInv, Methods
<1> QED
  BY <1>1, <1>2, <1>3, <1>4, <1>5, <1>6, Zenon DEF CallsInv

\* The reader of a binding is dropped after it.
LEMMA BindReturnsInv ==
  ASSUME CallsInv, NEW s \in Statements, BindReturns(s)
  PROVE  CallsInv'
<1> USE Kinds DEF BindReturns, Returns, Becomes
<1>0. CallsTypeOK /\ HolderInv /\ ChildInv /\ MakeInv /\ CloseInv /\ LifeInv
  BY Zenon DEF CallsInv
<1>1. CallsTypeOK'
  BY <1>0 DEF CallsTypeOK, MakeInv, CloseInv, Methods
<1>2. HolderInv'
  BY <1>0 DEF HolderInv, Working, Methods, MakeInv, CloseInv, LifeInv, CallsTypeOK
<1>3. ChildInv'
  BY <1>0, ZenonT(30) DEF ChildInv, HolderInv, Working, MakeInv, CloseInv, CallsTypeOK
<1>4. MakeInv'
  BY <1>0, SMTT(30) DEF MakeInv, LifeInv, CallsTypeOK
<1>5. CloseInv'
  BY <1>0 DEF CloseInv, CallsTypeOK, MakeInv, LifeInv, Methods
<1>6. LifeInv'
  BY <1>0, SMTT(30) DEF LifeInv, CallsTypeOK, MakeInv, CloseInv, Methods
<1> QED
  BY <1>1, <1>2, <1>3, <1>4, <1>5, <1>6, Zenon DEF CallsInv

\* A statement is done with a binding.
LEMMA BindEndsInv ==
  ASSUME CallsInv, NEW s \in Statements, BindEnds(s)
  PROVE  CallsInv'
<1> USE Kinds DEF BindEnds, Goes
<1>0. CallsTypeOK /\ HolderInv /\ ChildInv /\ MakeInv /\ CloseInv /\ LifeInv
  BY Zenon DEF CallsInv
<1>1. CallsTypeOK'
  BY <1>0, Zenon DEF CallsTypeOK, MakeInv, CloseInv, Methods
<1>2. HolderInv'
  BY <1>0, SMTT(30) DEF HolderInv, Working, Methods, MakeInv, CloseInv, LifeInv, CallsTypeOK
<1>3. ChildInv'
  BY <1>0, Zenon DEF ChildInv, HolderInv, Working, MakeInv, CloseInv, CallsTypeOK
<1>4. MakeInv'
  BY <1>0 DEF MakeInv, LifeInv, CallsTypeOK
<1>5. CloseInv'
  BY <1>0, SMTT(30) DEF CloseInv, CallsTypeOK, MakeInv, LifeInv, Methods
<1>6. LifeInv'
  BY <1>0 DEF LifeInv, CallsTypeOK, MakeInv, CloseInv, Methods
<1> QED
  BY <1>1, <1>2, <1>3, <1>4, <1>5, <1>6, Zenon DEF CallsInv

\* A cancellation holds the connection if there is one.
LEMMA CancelInv ==
  ASSUME CallsInv, NEW t \in Cancels, Cancel(t)
  PROVE  CallsInv'
<1> USE Kinds DEF Cancel, Begins
<1>0. CallsTypeOK /\ HolderInv /\ ChildInv /\ MakeInv /\ CloseInv /\ LifeInv
  BY Zenon DEF CallsInv
<1>1. CallsTypeOK'
  BY <1>0, SMTT(30) DEF CallsTypeOK, MakeInv, CloseInv, Methods
<1>2. HolderInv'
  BY <1>0, SMTT(30) DEF HolderInv, Working, Methods, MakeInv, CloseInv, LifeInv, CallsTypeOK
<1>3. ChildInv'
  BY <1>0 DEF ChildInv, HolderInv, Working, MakeInv, CloseInv, CallsTypeOK
<1>4. MakeInv'
  BY <1>0 DEF MakeInv, LifeInv, CallsTypeOK
<1>5. CloseInv'
  BY <1>0 DEF CloseInv, CallsTypeOK, MakeInv, LifeInv, Methods
<1>6. LifeInv'
  BY <1>0 DEF LifeInv, CallsTypeOK, MakeInv, CloseInv, Methods
<1> QED
  BY <1>1, <1>2, <1>3, <1>4, <1>5, <1>6, Zenon DEF CallsInv

\* An object is dropped: it has its reference until its close has been sent.
LEMMA DropInv ==
  ASSUME CallsInv, NEW o \in Objects, Drop(o)
  PROVE  CallsInv'
<1> USE Kinds DEF Drop, Free, Given, Becomes, Begins, CloseOf
<1>0. CallsTypeOK /\ HolderInv /\ ChildInv /\ MakeInv /\ CloseInv /\ LifeInv
  BY Zenon DEF CallsInv
<1>1. CallsTypeOK'
  BY <1>0, Zenon DEF CallsTypeOK, MakeInv, CloseInv, Methods
<1>2. HolderInv'
  BY <1>0 DEF HolderInv, Working, Methods, MakeInv, CloseInv, LifeInv, CallsTypeOK
<1>3. ChildInv'
  BY <1>0, Zenon DEF ChildInv, HolderInv, Working, MakeInv, CloseInv, CallsTypeOK
<1>4. MakeInv'
  BY <1>0 DEF MakeInv, LifeInv, CallsTypeOK
<1>5. CloseInv'
  BY <1>0, SMTT(30) DEF CloseInv, CallsTypeOK, MakeInv, LifeInv, Methods
<1>6. LifeInv'
  BY <1>0 DEF LifeInv, CallsTypeOK, MakeInv, CloseInv, Methods
<1> QED
  BY <1>1, <1>2, <1>3, <1>4, <1>5, <1>6, Zenon DEF CallsInv

\* A close or a cancellation returns.
LEMMA CloseReturnsInv ==
  ASSUME CallsInv, NEW t \in Threads, CloseReturns(t)
  PROVE  CallsInv'
<1> USE Kinds DEF CloseReturns, Returns, Goes
<1>0. CallsTypeOK /\ HolderInv /\ ChildInv /\ MakeInv /\ CloseInv /\ LifeInv
  BY Zenon DEF CallsInv
<1>1. CallsTypeOK'
  BY <1>0, SMTT(30) DEF CallsTypeOK, MakeInv, CloseInv, Methods
<1>2. HolderInv'
  BY <1>0 DEF HolderInv, Working, Methods, MakeInv, CloseInv, LifeInv, CallsTypeOK
<1>3. ChildInv'
  BY <1>0, Zenon DEF ChildInv, HolderInv, Working, MakeInv, CloseInv, CallsTypeOK
<1>4. MakeInv'
  BY <1>0, SMTT(30) DEF MakeInv, LifeInv, CallsTypeOK
<1>5. CloseInv'
  BY <1>0 DEF CloseInv, CallsTypeOK, MakeInv, LifeInv, Methods
<1>6. LifeInv'
  BY <1>0 DEF LifeInv, CallsTypeOK, MakeInv, CloseInv, Methods
<1> QED
  BY <1>1, <1>2, <1>3, <1>4, <1>5, <1>6, Zenon DEF CallsInv

\* A reference is given up; the last one closes the session.
LEMMA ReleaseInv ==
  ASSUME CallsInv, NEW t \in Threads, Release(t)
  PROVE  CallsInv'
<1> USE Kinds DEF Release, Leaves, Goes
<1>0. CallsTypeOK /\ HolderInv /\ ChildInv /\ MakeInv /\ CloseInv /\ LifeInv
  BY Zenon DEF CallsInv
<1>1. CallsTypeOK'
  BY <1>0 DEF CallsTypeOK, MakeInv, CloseInv, Methods
<1>2. HolderInv'
  BY <1>0 DEF HolderInv, Working, Methods, MakeInv, CloseInv, LifeInv, CallsTypeOK
<1>3. ChildInv'
  BY <1>0 DEF ChildInv, HolderInv, Working, MakeInv, CloseInv, CallsTypeOK
<1>4. MakeInv'
  BY <1>0 DEF MakeInv, LifeInv, CallsTypeOK
<1>5. CloseInv'
  BY <1>0 DEF CloseInv, CallsTypeOK, MakeInv, LifeInv, Methods
<1>6. LifeInv'
  BY <1>0, SMTT(30) DEF LifeInv, CallsTypeOK, MakeInv, CloseInv, Methods
<1> QED
  BY <1>1, <1>2, <1>3, <1>4, <1>5, <1>6, Zenon DEF CallsInv

\* CLOSE_CONNECTION returns.
LEMMA ConnectionClosesInv ==
  ASSUME CallsInv, NEW t \in Threads, ConnectionCloses(t)
  PROVE  CallsInv'
<1> USE Kinds DEF ConnectionCloses, Returns, Leaves, Goes
<1>0. CallsTypeOK /\ HolderInv /\ ChildInv /\ MakeInv /\ CloseInv /\ LifeInv
  BY Zenon DEF CallsInv
<1>1. CallsTypeOK'
  BY <1>0 DEF CallsTypeOK, MakeInv, CloseInv, Methods
<1>2. HolderInv'
  BY <1>0, SMTT(30) DEF HolderInv, Working, Methods, MakeInv, CloseInv, LifeInv, CallsTypeOK
<1>3. ChildInv'
  BY <1>0 DEF ChildInv, HolderInv, Working, MakeInv, CloseInv, CallsTypeOK
<1>4. MakeInv'
  BY <1>0 DEF MakeInv, LifeInv, CallsTypeOK
<1>5. CloseInv'
  BY <1>0 DEF CloseInv, CallsTypeOK, MakeInv, LifeInv, Methods
<1>6. LifeInv'
  BY <1>0 DEF LifeInv, CallsTypeOK, MakeInv, CloseInv, Methods
<1> QED
  BY <1>1, <1>2, <1>3, <1>4, <1>5, <1>6, Zenon DEF CallsInv

\* A byte reader dismisses its thread.
LEMMA HangupInv ==
  ASSUME CallsInv, NEW r \in Readers, Hangup(r)
  PROVE  CallsInv'
<1> USE Kinds DEF Hangup, Goes, Becomes
<1>0. CallsTypeOK /\ HolderInv /\ ChildInv /\ MakeInv /\ CloseInv /\ LifeInv
  BY Zenon DEF CallsInv
<1>1. CallsTypeOK'
  BY <1>0, Zenon DEF CallsTypeOK, MakeInv, CloseInv, Methods
<1>2. HolderInv'
  BY <1>0 DEF HolderInv, Working, Methods, MakeInv, CloseInv, LifeInv, CallsTypeOK
<1>3. ChildInv'
  BY <1>0, ZenonT(30) DEF ChildInv, HolderInv, Working, MakeInv, CloseInv, CallsTypeOK
<1>4. MakeInv'
  BY <1>0 DEF MakeInv, LifeInv, CallsTypeOK
<1>5. CloseInv'
  BY <1>0 DEF CloseInv, CallsTypeOK, MakeInv, LifeInv, Methods
<1>6. LifeInv'
  BY <1>0 DEF LifeInv, CallsTypeOK, MakeInv, CloseInv, Methods
<1> QED
  BY <1>1, <1>2, <1>3, <1>4, <1>5, <1>6, Zenon DEF CallsInv

--------------------------------------------------------------------------------
\* A reader starts with a thread that runs.
LEMMA OpenReaderStreams ==
  ASSUME CallsInv, StreamsInv, NEW t \in Threads, OpenReader(t)
  PROVE  StreamsInv'
<1>1. making[t] \in Readers
  BY Zenon DEF OpenReader, CallsInv, MakeInv
<1>2. \/ worker' = [worker EXCEPT ![making[t]] = "running"]
      \/ worker' = [worker EXCEPT ![making[t]] = worker[making[t]]]
      \/ worker' = worker
  BY Zenon DEF OpenReader
<1>3. worker \in [Readers -> {"none", "running", "gone"}]
  BY Zenon DEF StreamsInv, StreamsTypeOK
<1>4. worker' \in [Readers -> {"none", "running", "gone"}]
  BY <1>1, <1>2, <1>3, Zenon
<1>5. UNCHANGED <<asked, chan, reply, finished, source, produced, read, outcome>>
  BY Zenon DEF OpenReader
<1> QED
  BY <1>4, <1>5, Zenon DEF StreamsInv, StreamsTypeOK, ReplyInv

\* A reader's thread is dismissed.
LEMMA HangupStreams ==
  ASSUME StreamsInv, NEW r \in Readers, Hangup(r)
  PROVE  StreamsInv'
<1> USE Kinds DEF StreamsInv, StreamsTypeOK, ReplyInv
<1>1. StreamsTypeOK'
  BY DEF Hangup
<1>2. ReplyInv'
  BY Zenon DEF Hangup
<1> QED
  BY <1>1, <1>2, Zenon

\* A reader asks for a batch.
LEMMA AskStreams ==
  ASSUME StreamsInv, NEW r \in Readers, Ask(r)
  PROVE  StreamsInv'
<1>1. StreamsTypeOK
  BY Zenon DEF StreamsInv
<1>2. asked' \subseteq Readers /\ finished' \subseteq Readers
  <2>1. /\ asked' = asked \/ asked' = asked \cup {r}
        /\ finished' = finished \/ finished' = finished \cup {r}
    BY Zenon DEF Ask, Fails
  <2>2. asked \subseteq Readers /\ finished \subseteq Readers
    BY <1>1, Zenon DEF StreamsTypeOK
  <2> QED
    BY <2>1, <2>2, Zenon
<1>3. chan' = [chan EXCEPT ![r] = "next"] \/ chan' = chan
  BY Zenon DEF Ask
<1>4. chan' \in [Readers -> {"empty", "next", "cancel"}]
  BY <1>1, <1>3, Zenon DEF StreamsTypeOK
<1>5. outcome' = [outcome EXCEPT ![r] = "failed"] \/ outcome' = outcome
  BY Zenon DEF Ask, Fails
<1>6. outcome' \in [Readers -> {"reading", "ended", "failed"}]
  BY <1>1, <1>5, Zenon DEF StreamsTypeOK
<1>7. UNCHANGED <<worker, reply, source, produced, read>>
  BY Zenon DEF Ask
<1> QED
  BY <1>1, <1>2, <1>4, <1>6, <1>7, Zenon DEF StreamsInv, StreamsTypeOK, ReplyInv

\* The thread answers.
LEMMA TickStreams ==
  ASSUME StreamsInv, NEW r \in Readers, Tick(r)
  PROVE  StreamsInv'
<1>1. StreamsTypeOK
  BY Zenon DEF StreamsInv
<1>2. chan' = [chan EXCEPT ![r] = "empty"]
  BY Zenon DEF Tick
<1>3. chan' \in [Readers -> {"empty", "next", "cancel"}]
  BY <1>1, <1>2, Zenon DEF StreamsTypeOK
<1>4. worker' = worker \/ worker' = [worker EXCEPT ![r] = "gone"]
  BY Zenon DEF Tick, Replies
<1>5. worker' \in [Readers -> {"none", "running", "gone"}]
  BY <1>1, <1>4, Zenon DEF StreamsTypeOK
<1>6. \E answer \in {"batch", "end", "error"} : reply' = [reply EXCEPT ![r] = answer]
  BY Zenon DEF Tick, Replies
<1>7. reply' \in [Readers -> {"none", "batch", "end", "error"}]
  BY <1>1, <1>6, Zenon DEF StreamsTypeOK
<1>8. source' = source \/ \E end \in {"ended", "failed"} : source' = [source EXCEPT ![r] = end]
  BY Zenon DEF Tick
<1>9. source' \in [Readers -> {"live", "ended", "failed"}]
  BY <1>1, <1>8, ZenonT(30) DEF StreamsTypeOK
<1>10. \/ produced' = produced
       \/ produced[r] < MaxBatches /\ produced' = [produced EXCEPT ![r] = produced[r] + 1]
  BY Zenon DEF Tick
<1>11. produced[r] \in Nat /\ produced[r] <= MaxBatches /\ MaxBatches \in Nat
  BY <1>1, Kinds DEF StreamsTypeOK
<1>12. produced' \in [Readers -> 0..MaxBatches]
  <2>1. CASE produced' = produced
    BY <1>1, <2>1, Zenon DEF StreamsTypeOK
  <2>2. CASE produced[r] < MaxBatches /\ produced' = [produced EXCEPT ![r] = produced[r] + 1]
    <3>1. produced[r] + 1 \in 0..MaxBatches
      BY <1>11, <2>2
    <3> QED
      BY <1>1, <2>2, <3>1, Zenon DEF StreamsTypeOK
  <2> QED
    BY <1>10, <2>1, <2>2, Zenon
<1>13. ReplyInv'
  BY Kinds, SMTT(30) DEF StreamsInv, StreamsTypeOK, Tick, Replies, ReplyInv
<1>14. UNCHANGED <<asked, finished, read, outcome>>
  BY Zenon DEF Tick
<1> QED
  BY <1>1, <1>3, <1>5, <1>7, <1>9, <1>12, <1>13, <1>14, Zenon DEF StreamsInv, StreamsTypeOK

\* The thread ends.
LEMMA WorkerCancelsStreams ==
  ASSUME StreamsInv, NEW r \in Readers, WorkerCancels(r)
  PROVE  StreamsInv'
<1> USE Kinds DEF StreamsInv, StreamsTypeOK, ReplyInv
<1>1. StreamsTypeOK'
  BY Zenon DEF WorkerCancels
<1>2. ReplyInv'
  BY Zenon DEF WorkerCancels
<1> QED
  BY <1>1, <1>2, Zenon

\* The application has the answer.
LEMMA DeliversStreams ==
  ASSUME StreamsInv, NEW r \in Readers, Delivers(r)
  PROVE  StreamsInv'
<1>1. StreamsTypeOK
  BY Zenon DEF StreamsInv
<1>2. asked' \subseteq Readers /\ finished' \subseteq Readers
  BY <1>1, Zenon DEF Delivers, Receives, Fails, StreamsTypeOK
<1>3. reply' = [reply EXCEPT ![r] = "none"]
  BY Zenon DEF Delivers, Receives
<1>4. reply' \in [Readers -> {"none", "batch", "end", "error"}]
  BY <1>1, <1>3, Zenon DEF StreamsTypeOK
<1>5. outcome' = outcome \/ \E end \in {"ended", "failed"} : outcome' = [outcome EXCEPT ![r] = end]
  BY Zenon DEF Delivers, Fails
<1>6. outcome' \in [Readers -> {"reading", "ended", "failed"}]
  BY <1>1, <1>5, Zenon DEF StreamsTypeOK
<1>7. \/ read' = read
      \/ reply[r] = "batch" /\ read' = [read EXCEPT ![r] = Append(read[r], produced[r])]
  BY Zenon DEF Delivers
<1>8. read' \in [Readers -> Seq(1..MaxBatches)]
  <2>1. CASE read' = read
    BY <1>1, <2>1, Zenon DEF StreamsTypeOK
  <2>2. CASE reply[r] = "batch" /\ read' = [read EXCEPT ![r] = Append(read[r], produced[r])]
    <3>1. read[r] \in Seq(1..MaxBatches) /\ produced[r] \in 1..MaxBatches
      BY <1>1, <2>2, Zenon DEF StreamsInv, StreamsTypeOK, ReplyInv
    <3>2. Append(read[r], produced[r]) \in Seq(1..MaxBatches)
      BY <3>1, OneMoreBatch, Zenon
    <3> QED
      BY <1>1, <2>2, <3>2, Zenon DEF StreamsTypeOK
  <2> QED
    BY <1>7, <2>1, <2>2, Zenon
<1>9. UNCHANGED <<chan, worker, source, produced>>
  BY Zenon DEF Delivers, Receives
<1>10. ReplyInv'
  BY <1>1, <1>3, <1>9, Zenon DEF StreamsInv, StreamsTypeOK, ReplyInv
<1> QED
  BY <1>1, <1>2, <1>4, <1>6, <1>8, <1>9, <1>10, Zenon DEF StreamsInv, StreamsTypeOK

--------------------------------------------------------------------------------
Inv == CallsInv /\ StreamsInv

\* Every step keeps the invariant.
LEMMA NextInv ==
  ASSUME Inv, [Next]_vars
  PROVE  Inv'
<1>0. CallsInv /\ StreamsInv
  BY Zenon DEF Inv
<1>1. ASSUME NEW t \in Threads, Send(t) PROVE Inv'
  BY <1>0, <1>1, SendInv, StreamsUnchanged, Zenon DEF Send, Inv
<1>2. ASSUME NEW t \in Threads, ThreadStep(t) PROVE Inv'
  <2>1. CASE ExecuteReturns(t)
    BY <1>0, <2>1, ExecuteReturnsInv, StreamsUnchanged, Zenon DEF ExecuteReturns, Inv
  <2>2. CASE OpenReader(t)
    BY <1>0, <2>2, OpenReaderInv, OpenReaderStreams, Zenon DEF Inv
  <2>3. CASE OperateReturns(t)
    BY <1>0, <2>3, OperateReturnsInv, StreamsUnchanged, Zenon DEF OperateReturns, Inv
  <2>4. CASE CloseReturns(t)
    BY <1>0, <2>4, CloseReturnsInv, StreamsUnchanged, Zenon DEF CloseReturns, Inv
  <2>5. CASE Release(t)
    BY <1>0, <2>5, ReleaseInv, StreamsUnchanged, Zenon DEF Release, Inv
  <2>6. CASE ConnectionCloses(t)
    BY <1>0, <2>6, ConnectionClosesInv, StreamsUnchanged, Zenon DEF ConnectionCloses, Inv
  <2> QED
    BY <1>2, <2>1, <2>2, <2>3, <2>4, <2>5, <2>6, Zenon DEF ThreadStep
<1>3. CASE NewStatementReturns
  BY <1>0, <1>3, NewStatementReturnsInv, StreamsUnchanged, Zenon DEF NewStatementReturns, Inv
<1>4. ASSUME NEW s \in Statements, NewStatement(s) \/ StatementStep(s) PROVE Inv'
  <2>1. CASE NewStatement(s)
    BY <1>0, <2>1, NewStatementInv, StreamsUnchanged, Zenon DEF NewStatement, Inv
  <2>2. CASE BindReturns(s)
    BY <1>0, <2>2, BindReturnsInv, StreamsUnchanged, Zenon DEF BindReturns, Inv
  <2>3. CASE BindEnds(s)
    BY <1>0, <2>3, BindEndsInv, StreamsUnchanged, Zenon DEF BindEnds, Inv
  <2> QED
    BY <1>4, <2>1, <2>2, <2>3, Zenon DEF StatementStep
<1>5. ASSUME NEW r \in Readers, Execute(r) \/ Ask(r) \/ ReaderStep(r) PROVE Inv'
  <2>1. CASE Execute(r)
    BY <1>0, <2>1, ExecuteInv, StreamsUnchanged, Zenon DEF Execute, Inv
  <2>2. CASE Ask(r)
    BY <1>0, <2>2, CallsUnchanged, AskStreams, Zenon DEF Ask, Inv
  <2>3. CASE Hangup(r)
    BY <1>0, <2>3, HangupInv, HangupStreams, Zenon DEF Inv
  <2>4. CASE Tick(r)
    BY <1>0, <2>4, CallsUnchanged, TickStreams, Zenon DEF Tick, Inv
  <2>5. CASE WorkerCancels(r)
    BY <1>0, <2>5, CallsUnchanged, WorkerCancelsStreams, Zenon DEF WorkerCancels, Inv
  <2>6. CASE Delivers(r)
    BY <1>0, <2>6, CallsUnchanged, DeliversStreams, Zenon DEF Delivers, Receives, Inv
  <2> QED
    BY <1>5, <2>1, <2>2, <2>3, <2>4, <2>5, <2>6, Zenon DEF ReaderStep
<1>6. ASSUME NEW t \in {Conn} \cup Statements, Operate(t) PROVE Inv'
  BY <1>0, <1>6, OperateInv, StreamsUnchanged, Zenon DEF Operate, Inv
<1>7. ASSUME NEW s \in Statements, NEW r \in Readers, Bind(s, r) PROVE Inv'
  BY <1>0, <1>7, BindInv, StreamsUnchanged, Zenon DEF Bind, Inv
<1>8. ASSUME NEW o \in Objects, Drop(o) PROVE Inv'
  BY <1>0, <1>8, DropInv, StreamsUnchanged, Zenon DEF Drop, Inv
<1>9. ASSUME NEW t \in Cancels, Cancel(t) PROVE Inv'
  BY <1>0, <1>9, CancelInv, StreamsUnchanged, Zenon DEF Cancel, Inv
<1>10. CASE UNCHANGED vars
  BY <1>0, <1>10, CallsUnchanged, StreamsUnchanged, Zenon DEF vars, Inv
<1> QED
  BY <1>1, <1>2, <1>3, <1>4, <1>5, <1>6, <1>7, <1>8, <1>9, <1>10, Zenon DEF Next

\* The invariant holds throughout.
LEMMA Invariance == Spec => []Inv
<1>1. Init => Inv
  BY InitInv, Zenon DEF Inv
<1> QED
  BY <1>1, NextInv, PTL DEF Spec

--------------------------------------------------------------------------------
\* Type correctness of the driver's objects; over a byte stream one call is on the
\* wire at a time.
THEOREM TypeCorrect == Spec => []TypeOK
<1>1. Inv => TypeOK
  BY Zenon DEF Inv, CallsInv, StreamsInv, TypeOK
<1> QED
  BY <1>1, Invariance, PTL

\* No call of a session follows its CLOSE_CONNECTION: whoever has a call to make
\* still holds the RemoteConnection.
THEOREM NothingAfterClose == Spec => []CloseIsLast
<1>1. Inv => CloseIsLast
  BY Zenon DEF Inv, CallsInv, HolderInv, Working, CloseIsLast
<1> QED
  BY <1>1, Invariance, PTL

\* The drops of statements and readers send their closes before they give up the
\* references that keep the session open.
THEOREM ChildrenFirst == Spec => []ChildrenClosedFirst
<1>1. Inv => ChildrenClosedFirst
  BY Zenon DEF Inv, CallsInv, HolderInv, ChildInv, ChildrenClosedFirst
<1> QED
  BY <1>1, Invariance, PTL

--------------------------------------------------------------------------------
(* The readers of a byte stream.                                            *)

\* What the application lacks of what the thread has read is the batch of a reply.
Lacking(r) == produced[r] = Len(read[r]) + (IF reply[r] = "batch" THEN 1 ELSE 0)

\* The thread of a reader and the reader take turns: a command is on its way, or
\* its reply, or neither.
Delivery(r) ==
  /\ obj[r] = "absent" => worker[r] = "none"
  /\ worker[r] \in {"none", "running"} => source[r] = "live"
  /\ chan[r] = "next" => r \in asked /\ reply[r] = "none" /\ worker[r] = "running"
  /\ reply[r] # "none" => r \in asked
  /\ r \in asked => r \notin finished
  /\ outcome[r] = "reading" <=> r \notin finished
  /\ Lacking(r)
  /\ reply[r] = "end" => source[r] = "ended"

DeliveryInv == \A r \in Readers : Delivery(r)

\* What reading one reader does to another: nothing.
Untouched(q) ==
  /\ q \in asked' <=> q \in asked
  /\ q \in finished' <=> q \in finished
  /\ obj'[q] = "absent" => obj[q] = "absent"
  /\ chan'[q] = chan[q] /\ worker'[q] = worker[q] /\ reply'[q] = reply[q]
  /\ source'[q] = source[q] /\ produced'[q] = produced[q]
  /\ read'[q] = read[q] /\ outcome'[q] = outcome[q]

Simulated(r) == Stream(r)!Next \/ UNCHANGED Stream(r)!vars

\* A step keeps the invariant and is a step of each stream, or none of it.
StreamStep == DeliveryInv' /\ \A r \in Readers : Simulated(r)

\* A stream stutters when what the thread has read and what the reader has given
\* the application stay as they are.
LEMMA StreamStutters ==
  ASSUME NEW q, source'[q] = source[q], produced'[q] = produced[q],
         read'[q] = read[q], outcome'[q] = outcome[q]
  PROVE  Simulated(q)
<1>1. UNCHANGED Stream(q)!vars
  BY Zenon DEF Stream!vars
<1> QED
  BY <1>1, Zenon DEF Simulated

\* The application lacks the same as long as its batches, those of the thread and
\* the reply are the same.
LEMMA SameLacking ==
  ASSUME NEW q, Lacking(q), produced'[q] = produced[q], read'[q] = read[q],
         reply'[q] = reply[q]
  PROVE  Lacking(q)'
BY Zenon DEF Lacking

\* A reader that is not touched is as it was, and its stream stutters.
LEMMA UntouchedKeeps ==
  ASSUME NEW q, Delivery(q), Untouched(q)
  PROVE  Delivery(q)' /\ Simulated(q)
<1>1. Lacking(q)'
  BY SameLacking, Zenon DEF Delivery, Untouched
<1>2. Delivery(q)'
  BY <1>1, Zenon DEF Delivery, Untouched
<1>3. Simulated(q)
  BY StreamStutters, Zenon DEF Untouched
<1> QED
  BY <1>2, <1>3, Zenon

\* The calls, and drops, of objects leave every reader's stream alone.
LEMMA OutsideKeeps ==
  ASSUME CallsInv, DeliveryInv, UNCHANGED streams,
         \/ UNCHANGED obj
         \/ \E o : Becomes(o, "live") \/ Becomes(o, "dropping")
         \/ \E t : obj' = [o \in Objects |-> IF o = t THEN "gone" ELSE obj[o]]
  PROVE  StreamStep
<1>1. ASSUME NEW q \in Readers, obj'[q] = "absent"
      PROVE  obj[q] = "absent"
  <2>1. q \in Objects /\ obj \in [Objects -> {"absent", "live", "dropping", "gone"}]
    BY Kinds, Zenon DEF CallsInv, CallsTypeOK
  <2>2. ASSUME NEW o, Becomes(o, "live") \/ Becomes(o, "dropping")
        PROVE  obj[q] = "absent"
    BY <1>1, <2>1, <2>2, Zenon DEF Becomes
  <2>3. ASSUME NEW t, obj' = [o \in Objects |-> IF o = t THEN "gone" ELSE obj[o]]
        PROVE  obj[q] = "absent"
    BY <1>1, <2>1, <2>3, Zenon
  <2> QED
    BY <1>1, <2>2, <2>3, Zenon
<1>2. ASSUME NEW q \in Readers
      PROVE  Untouched(q)
  BY <1>1, Zenon DEF Untouched, streams
<1> QED
  BY <1>2, UntouchedKeeps, Zenon DEF DeliveryInv, StreamStep

\* A step of one reader, its thread or its channel.
LEMMA OneReader ==
  ASSUME DeliveryInv, NEW r \in Readers, Delivery(r)', Simulated(r),
         \A q \in Readers \ {r} : Untouched(q)
  PROVE  StreamStep
<1>1. ASSUME NEW q \in Readers
      PROVE  Delivery(q)' /\ Simulated(q)
  <2>1. CASE q = r
    BY <2>1, Zenon
  <2>2. CASE q # r
    BY <2>2, UntouchedKeeps, Zenon DEF DeliveryInv
  <2> QED
    BY <2>1, <2>2, Zenon
<1> QED
  BY <1>1, Zenon DEF DeliveryInv, StreamStep

\* A reader comes to be, with nothing read.
LEMMA OpenReaderDelivers ==
  ASSUME Inv, DeliveryInv, NEW t \in Threads, OpenReader(t)
  PROVE  StreamStep
<1>0. PICK r \in Readers : r = making[t] /\ obj[r] = "absent"
  BY Zenon DEF OpenReader, Inv, CallsInv, MakeInv
<1>1. r \in Objects /\ Delivery(r)
  BY Kinds, Zenon DEF DeliveryInv
<1>2. /\ obj \in [Objects -> {"absent", "live", "dropping", "gone"}]
      /\ worker \in [Readers -> {"none", "running", "gone"}]
  BY Zenon DEF Inv, CallsInv, CallsTypeOK, StreamsInv, StreamsTypeOK
<1>3. UNCHANGED <<asked, chan, reply, finished, source, produced, read, outcome>>
  BY Zenon DEF OpenReader
<1>4. CASE UNCHANGED <<obj, worker>>
  <2>1. UNCHANGED streams
    BY <1>3, <1>4, Zenon DEF streams
  <2> QED
    BY <1>4, <2>1, OutsideKeeps, Zenon DEF Inv
<1>5. CASE /\ obj' = [obj EXCEPT ![r] = "live"]
           /\ worker' = [worker EXCEPT ![r] = IF transport = "byte" THEN "running" ELSE @]
  <2>1. obj'[r] = "live" /\ worker[r] = "none" /\ worker'[r] \in {"none", "running"}
    BY <1>0, <1>1, <1>2, <1>5, Zenon DEF Delivery
  <2>2. Delivery(r)'
    BY <1>1, <1>3, <2>1, SameLacking, Zenon DEF Delivery
  <2>3. Simulated(r)
    BY <1>3, StreamStutters, Zenon
  <2>4. \A q \in Readers \ {r} : Untouched(q)
    <3>1. ASSUME NEW q \in Readers \ {r}
          PROVE  obj'[q] = obj[q] /\ worker'[q] = worker[q]
      BY <1>2, <1>5, Kinds
    <3> QED
      BY <1>3, <3>1, Zenon DEF Untouched
  <2> QED
    BY <2>2, <2>3, <2>4, OneReader, Zenon
<1> QED
  BY <1>0, <1>4, <1>5, Zenon DEF OpenReader, Becomes

\* A reader dismisses its thread, when it has no command on its way.
LEMMA HangupDelivers ==
  ASSUME Inv, DeliveryInv, NEW r \in Readers, Hangup(r)
  PROVE  StreamStep
<1>1. r \in Objects /\ Delivery(r)
  BY Kinds, Zenon DEF DeliveryInv
<1>2. /\ obj \in [Objects -> {"absent", "live", "dropping", "gone"}]
      /\ chan \in [Readers -> {"empty", "next", "cancel"}]
  BY Zenon DEF Inv, CallsInv, CallsTypeOK, StreamsInv, StreamsTypeOK
<1>3. UNCHANGED <<asked, worker, reply, finished, source, produced, read, outcome>>
  BY Zenon DEF Hangup
<1>4. /\ obj' = [obj EXCEPT ![r] = "gone"]
      /\ chan' = chan \/ chan' = [chan EXCEPT ![r] = "cancel"]
  BY Zenon DEF Hangup, Becomes
<1>5. Delivery(r)'
  BY <1>1, <1>2, <1>3, <1>4, SameLacking, Zenon DEF Delivery
<1>6. Simulated(r)
  BY <1>3, StreamStutters, Zenon
<1>7. \A q \in Readers \ {r} : Untouched(q)
  BY <1>1, <1>2, <1>3, <1>4, Kinds, SMTT(30) DEF Untouched
<1> QED
  BY <1>5, <1>6, <1>7, OneReader, Zenon

\* A reader sends a command, or finds its thread gone: an error, and the last.
LEMMA AskDelivers ==
  ASSUME Inv, DeliveryInv, NEW r \in Readers, Ask(r)
  PROVE  StreamStep
<1>1. Delivery(r)
  BY Zenon DEF DeliveryInv
<1>2. /\ chan \in [Readers -> {"empty", "next", "cancel"}]
      /\ outcome \in [Readers -> {"reading", "ended", "failed"}]
  BY Zenon DEF Inv, StreamsInv, StreamsTypeOK
<1>3. /\ UNCHANGED <<obj, worker, reply, source, produced, read>>
      /\ r \notin finished /\ r \notin asked
  BY Zenon DEF Ask
<1>4. CASE /\ worker[r] = "running" /\ chan' = [chan EXCEPT ![r] = "next"]
           /\ asked' = asked \cup {r} /\ UNCHANGED <<finished, outcome>>
  <2>1. Delivery(r)'
    BY <1>1, <1>2, <1>3, <1>4, SameLacking, ZenonT(30) DEF Delivery
  <2>2. Simulated(r)
    BY <1>3, <1>4, StreamStutters, Zenon
  <2>3. \A q \in Readers \ {r} : Untouched(q)
    BY <1>2, <1>3, <1>4, Zenon DEF Untouched
  <2> QED
    BY <2>1, <2>2, <2>3, OneReader, Zenon
<1>5. CASE Fails(r) /\ UNCHANGED <<chan, asked>>
  <2>1. outcome[r] = "reading" /\ outcome'[r] = "failed"
    BY <1>1, <1>2, <1>3, <1>5, Zenon DEF Fails, Delivery
  <2>2. Delivery(r)'
    BY <1>1, <1>3, <1>5, <2>1, SameLacking, Zenon DEF Delivery, Fails
  <2>3. Simulated(r)
    BY <1>3, <2>1, Zenon DEF Simulated, Stream!Next, Stream!Fail
  <2>4. \A q \in Readers \ {r} : Untouched(q)
    BY <1>2, <1>3, <1>5, Zenon DEF Untouched, Fails
  <2> QED
    BY <2>2, <2>3, <2>4, OneReader, Zenon
<1> QED
  BY <1>4, <1>5, Zenon DEF Ask

\* The thread reads on: a batch is produced, or the stream ends.
LEMMA TickDelivers ==
  ASSUME Inv, DeliveryInv, NEW r \in Readers, Tick(r)
  PROVE  StreamStep
<1>1. Delivery(r)
  BY Zenon DEF DeliveryInv
<1>2. /\ chan \in [Readers -> {"empty", "next", "cancel"}]
      /\ worker \in [Readers -> {"none", "running", "gone"}]
      /\ reply \in [Readers -> {"none", "batch", "end", "error"}]
      /\ source \in [Readers -> {"live", "ended", "failed"}]
      /\ produced \in [Readers -> 0..MaxBatches]
      /\ read[r] \in Seq(1..MaxBatches)
  BY Zenon DEF Inv, StreamsInv, StreamsTypeOK
<1>3. /\ UNCHANGED <<obj, asked, finished, read, outcome>>
      /\ worker[r] = "running" /\ chan[r] = "next" /\ chan' = [chan EXCEPT ![r] = "empty"]
  BY Zenon DEF Tick
<1>4. source[r] = "live" /\ r \in asked /\ reply[r] = "none"
  BY <1>1, <1>3, Zenon DEF Delivery
<1>5. CASE /\ produced' = [produced EXCEPT ![r] = @ + 1]
           /\ Replies(r, "batch") /\ UNCHANGED source
  <2>1. /\ produced'[r] = produced[r] + 1 /\ reply'[r] = "batch" /\ chan'[r] = "empty"
        /\ UNCHANGED worker
    BY <1>2, <1>3, <1>5, Zenon DEF Replies
  <2>2. Delivery(r)'
    <3>1. Lacking(r)'
      <4>1. Lacking(r)
        BY <1>1, Zenon DEF Delivery
      <4>2. Len(read[r]) \in Nat
        BY <1>2
      <4>3. produced[r] = Len(read[r])
        BY <1>4, <4>1, <4>2, SMT DEF Lacking
      <4> QED
        BY <1>3, <2>1, <4>3, Zenon DEF Lacking
    <3> QED
      BY <1>1, <1>3, <1>4, <1>5, <2>1, <3>1, Zenon DEF Delivery
  <2>3. Simulated(r)
    BY <1>3, <1>4, <1>5, <2>1, Zenon DEF Simulated, Stream!Next, Stream!Produce
  <2>4. \A q \in Readers \ {r} : Untouched(q)
    BY <1>2, <1>3, <1>5, Zenon DEF Untouched, Replies
  <2> QED
    BY <2>2, <2>3, <2>4, OneReader, Zenon
<1>6. ASSUME NEW end \in {"ended", "failed"}, NEW answer \in {"end", "error"},
             answer = "end" => end = "ended",
             source' = [source EXCEPT ![r] = end], Replies(r, answer), UNCHANGED produced
      PROVE  StreamStep
  <2>1. /\ source'[r] = end /\ reply'[r] = answer /\ chan'[r] = "empty" /\ worker'[r] = "gone"
    BY <1>2, <1>3, <1>6, Zenon DEF Replies
  <2>2. Delivery(r)'
    <3>1. answer # "batch"
      BY <1>6, Zenon
    <3>2. Lacking(r)'
      BY <1>1, <1>3, <1>4, <1>6, <2>1, <3>1, Zenon DEF Delivery, Lacking
    <3> QED
      BY <1>1, <1>3, <1>4, <1>6, <2>1, <3>2, Zenon DEF Delivery
  <2>3. Simulated(r)
    BY <1>3, <1>4, <1>6, <2>1, Zenon DEF Simulated, Stream!Next, Stream!Produce
  <2>4. \A q \in Readers \ {r} : Untouched(q)
    BY <1>2, <1>3, <1>6, Zenon DEF Untouched, Replies
  <2> QED
    BY <2>2, <2>3, <2>4, OneReader, Zenon
<1> QED
  BY <1>5, <1>6, Zenon DEF Tick

\* The thread is dismissed.
LEMMA WorkerCancelsDelivers ==
  ASSUME Inv, DeliveryInv, NEW r \in Readers, WorkerCancels(r)
  PROVE  StreamStep
<1>1. Delivery(r)
  BY Zenon DEF DeliveryInv
<1>2. /\ chan \in [Readers -> {"empty", "next", "cancel"}]
      /\ worker \in [Readers -> {"none", "running", "gone"}]
  BY Zenon DEF Inv, StreamsInv, StreamsTypeOK
<1>3. /\ UNCHANGED <<obj, asked, reply, finished, source, produced, read, outcome>>
      /\ worker[r] = "running" /\ chan[r] = "cancel"
      /\ chan' = [chan EXCEPT ![r] = "empty"] /\ worker' = [worker EXCEPT ![r] = "gone"]
  BY Zenon DEF WorkerCancels
<1>4. Delivery(r)'
  BY <1>1, <1>2, <1>3, SameLacking, ZenonT(30) DEF Delivery
<1>5. Simulated(r)
  BY <1>3, StreamStutters, Zenon
<1>6. \A q \in Readers \ {r} : Untouched(q)
  BY <1>2, <1>3, Zenon DEF Untouched
<1> QED
  BY <1>4, <1>5, <1>6, OneReader, Zenon

\* The application gets the batch it lacks, the end after all of them, or the error.
LEMMA DeliversDelivers ==
  ASSUME Inv, DeliveryInv, NEW r \in Readers, Delivers(r)
  PROVE  StreamStep
<1>1. Delivery(r)
  BY Zenon DEF DeliveryInv
<1>2. /\ reply \in [Readers -> {"none", "batch", "end", "error"}]
      /\ produced[r] \in Nat
      /\ read \in [Readers -> Seq(1..MaxBatches)]
      /\ outcome \in [Readers -> {"reading", "ended", "failed"}]
  BY Kinds DEF Inv, StreamsInv, StreamsTypeOK
<1>3. /\ UNCHANGED <<obj, chan, worker, source, produced>>
      /\ r \in asked /\ reply[r] # "none"
      /\ asked' = asked \ {r} /\ reply' = [reply EXCEPT ![r] = "none"]
  BY Zenon DEF Delivers, Receives
<1>4. chan[r] # "next" /\ r \notin finished /\ outcome[r] = "reading"
  BY <1>1, <1>3, Zenon DEF Delivery
<1>5. reply'[r] = "none" /\ r \notin asked'
  BY <1>2, <1>3, Zenon
<1>6. CASE /\ reply[r] = "batch" /\ UNCHANGED <<finished, outcome>>
           /\ read' = [read EXCEPT ![r] = Append(@, produced[r])]
  <2>1. read[r] \in Seq(1..MaxBatches) /\ read'[r] = Append(read[r], produced[r])
    BY <1>2, <1>6, Zenon
  <2>2. produced[r] = Len(read[r]) + 1 /\ Len(read'[r]) = Len(read[r]) + 1
    <3>1. Lacking(r)
      BY <1>1, Zenon DEF Delivery
    <3> QED
      BY <1>6, <2>1, <3>1, SMTT(30) DEF Lacking
  <2>3. Delivery(r)'
    <3>1. Lacking(r)'
      <4>1. produced'[r] = Len(read'[r]) /\ Len(read'[r]) \in Nat
        BY <1>2, <1>3, <2>2, Zenon
      <4> QED
        BY <1>5, <4>1, SMT DEF Lacking
    <3> QED
      BY <1>1, <1>3, <1>4, <1>5, <1>6, <3>1, Zenon DEF Delivery
  <2>4. Len(read[r]) \in Nat
    BY <2>1
  <2>5. Simulated(r)
    <3>1. Len(read[r]) < produced[r]
      BY <2>2, <2>4, SMTT(30)
    <3>2. Stream(r)!Deliver
      BY <1>3, <1>4, <1>6, <2>1, <2>2, <3>1, Zenon DEF Stream!Deliver
    <3> QED
      BY <3>2, Zenon DEF Simulated, Stream!Next
  <2>6. \A q \in Readers \ {r} : Untouched(q)
    BY <1>2, <1>3, <1>6, Zenon DEF Untouched
  <2> QED
    BY <2>3, <2>5, <2>6, OneReader, Zenon
<1>7. ASSUME NEW end \in {"ended", "failed"}, reply[r] # "batch",
             end = "ended" => reply[r] = "end",
             outcome' = [outcome EXCEPT ![r] = end],
             finished' = finished \cup {r}, UNCHANGED read
      PROVE  StreamStep
  <2>1. outcome'[r] = end /\ produced[r] = Len(read[r])
    <3>1. Lacking(r)
      BY <1>1, Zenon DEF Delivery
    <3>2. read[r] \in Seq(1..MaxBatches)
      BY <1>2, Zenon
    <3>3. Len(read[r]) \in Nat
      BY <3>2
    <3>4. produced[r] = Len(read[r])
      BY <1>7, <3>1, <3>3, SMT DEF Lacking
    <3> QED
      BY <1>2, <1>7, <3>4, Zenon
  <2>2. Delivery(r)'
    <3>1. Lacking(r)'
      BY <1>1, <1>3, <1>5, <1>7, Zenon DEF Delivery, Lacking
    <3>2. outcome'[r] # "reading" /\ r \in finished'
      BY <1>7, <2>1, Zenon
    <3> QED
      BY <1>1, <1>3, <1>4, <1>5, <3>1, <3>2, Zenon DEF Delivery
  <2>3. end = "ended" => source[r] = "ended"
    BY <1>1, <1>7, ZenonT(30) DEF Delivery
  <2>4. Simulated(r)
    BY <1>3, <1>4, <1>7, <2>1, <2>3, ZenonT(30) DEF Simulated, Stream!Next, Stream!End, Stream!Fail
  <2>5. \A q \in Readers \ {r} : Untouched(q)
    BY <1>2, <1>3, <1>7, Zenon DEF Untouched
  <2> QED
    BY <2>2, <2>4, <2>5, OneReader, Zenon
<1> QED
  BY <1>6, <1>7, Zenon DEF Delivers, Fails

\* Every step is a step of one stream, or of none.
LEMMA NextDelivers ==
  ASSUME Inv, DeliveryInv, [Next]_vars
  PROVE  StreamStep
<1>0. CallsInv
  BY Zenon DEF Inv
<1>1. ASSUME NEW t \in Threads, Send(t) \/ ExecuteReturns(t) \/ OperateReturns(t) \/ CloseReturns(t)
      PROVE  StreamStep
  BY <1>0, <1>1, OutsideKeeps, Zenon DEF Send, ExecuteReturns, OperateReturns, CloseReturns
<1>2. ASSUME NEW t \in Threads, OpenReader(t) PROVE StreamStep
  BY <1>2, OpenReaderDelivers, Zenon
<1>3. ASSUME NEW t \in Threads, Release(t) \/ ConnectionCloses(t) PROVE StreamStep
  BY <1>0, <1>3, OutsideKeeps, Zenon DEF Release, ConnectionCloses, Leaves
<1>4. CASE NewStatementReturns
  BY <1>0, <1>4, OutsideKeeps, Zenon DEF NewStatementReturns
<1>5. ASSUME NEW s \in Statements, NewStatement(s) \/ BindEnds(s) PROVE StreamStep
  BY <1>0, <1>5, OutsideKeeps, Zenon DEF NewStatement, BindEnds
<1>6. ASSUME NEW s \in Statements, BindReturns(s) PROVE StreamStep
  BY <1>0, <1>6, OutsideKeeps, Zenon DEF BindReturns
<1>7. ASSUME NEW r \in Readers, Execute(r) PROVE StreamStep
  BY <1>0, <1>7, OutsideKeeps, Zenon DEF Execute
<1>8. ASSUME NEW r \in Readers, Ask(r) \/ ReaderStep(r) PROVE StreamStep
  BY <1>8, AskDelivers, HangupDelivers, TickDelivers, WorkerCancelsDelivers, DeliversDelivers,
     Zenon DEF ReaderStep
<1>9. ASSUME NEW t, Operate(t) PROVE StreamStep
  BY <1>0, <1>9, OutsideKeeps, Zenon DEF Operate
<1>10. ASSUME NEW s, NEW r, Bind(s, r) PROVE StreamStep
  BY <1>0, <1>10, OutsideKeeps, Zenon DEF Bind
<1>11. ASSUME NEW o, Drop(o) PROVE StreamStep
  BY <1>0, <1>11, OutsideKeeps, Zenon DEF Drop
<1>12. ASSUME NEW t, Cancel(t) PROVE StreamStep
  BY <1>0, <1>12, OutsideKeeps, Zenon DEF Cancel
<1>13. CASE UNCHANGED vars
  BY <1>0, <1>13, OutsideKeeps, Zenon DEF vars
<1>14. ASSUME NEW t \in Threads, Send(t) \/ ThreadStep(t) PROVE StreamStep
  BY <1>1, <1>2, <1>3, <1>14, Zenon DEF ThreadStep
<1>15. ASSUME NEW s \in Statements, NewStatement(s) \/ StatementStep(s) PROVE StreamStep
  BY <1>5, <1>6, <1>15, Zenon DEF StatementStep
<1> QED
  BY <1>4, <1>7, <1>8, <1>9, <1>10, <1>11, <1>12, <1>13, <1>14, <1>15, Zenon DEF Next

\* A ByteReader and its thread implement ResultStream, for any number of readers at
\* once: the application gets every batch once and in order, the end only after the
\* last of them, and nothing after the end or an error, whatever is dropped, bound
\* or cancelled meanwhile.
THEOREM StreamsRead == Spec => ReadsTheStream
<1>1. Init => DeliveryInv
  BY Kinds DEF Init, DeliveryInv, Delivery, Lacking
<1>2. Init => \A r \in Readers : Stream(r)!Init
  BY Zenon DEF Init, Stream!Init
<1>3. Spec => []DeliveryInv
  <2>1. Inv /\ DeliveryInv /\ [Next]_vars => DeliveryInv'
    BY NextDelivers, Zenon DEF StreamStep
  <2> QED
    BY <1>1, <2>1, Invariance, PTL DEF Spec
<1>4. Inv /\ DeliveryInv /\ [Next]_vars
        => [\A r \in Readers : Stream(r)!Next \/ UNCHANGED Stream(r)!vars]_vars
  BY NextDelivers, Zenon DEF Simulated, StreamStep
<1> QED
  BY <1>2, <1>3, <1>4, Invariance, PTL DEF Spec, ReadsTheStream

--------------------------------------------------------------------------------
\* Over a byte stream threads wait for the client's mutex, for a reply, for room in
\* a channel and for a reader that is dropped, and none of these waits is circular.
\* Whoever has the mutex has a call on the wire, and a bind_stream() that has it
\* draws on a reader that wants no call of its own; whoever is inside
\* ByteReader::next has its command with a running thread or the reply at hand; a
\* ByteReader::drop has room for its Cancel, or its thread is gone; and a
\* bind_stream() that waits for its reader to be dropped has given the mutex back.
NoCircularWait ==
  /\ lock # None =>
       /\ lock \in inflight /\ doing[lock] \in Methods
       /\ doing[lock] = "bind" => doing[making[lock]] = "idle"
  /\ \A r \in asked : reply[r] # "none" \/ (worker[r] = "running" /\ chan[r] = "next")
  /\ \A r \in Readers : doing[r] = "hangup" =>
       worker[r] = "gone" \/ (worker[r] = "running" /\ chan[r] = "empty")
  /\ \A s \in Statements : doing[s] = "draining" =>
       lock # s /\ obj[making[s]] \in {"dropping", "gone"}

\* The strengthening: HTTP needs no mutex, a bind_stream() that is over has dropped
\* its reader, and the thread, the channel and the reply of each reader.
LockWait == transport = "http" => lock = None

DrainWait ==
  \A t \in Threads : doing[t] = "draining" => obj[making[t]] \in {"dropping", "gone"}

ReaderWaits(r) ==
  /\ transport = "byte" /\ worker[r] = "none" => obj[r] = "absent"
  /\ doing[r] = "hangup" => transport = "byte"
  /\ r \in asked => obj[r] = "live"
  /\ r \in asked /\ reply[r] = "none" => worker[r] = "running" /\ chan[r] = "next"
  /\ reply[r] # "none" => r \in asked /\ chan[r] = "empty"
  /\ chan[r] = "next" => r \in asked
  /\ chan[r] = "cancel" => doing[r] = "done"

WaitInv == LockWait /\ DrainWait /\ \A r \in Readers : ReaderWaits(r)

\* A step of one thread outside the channels: it moves objects forward only, and
\* none that is being read.
OneThread(t) ==
  /\ UNCHANGED <<transport, asked, chan, worker, reply>>
  /\ transport = "http" => lock' \in {lock, None}
  /\ doing[t] # "done" /\ doing'[t] # "draining"
  /\ t \in Readers /\ doing'[t] = "hangup" => transport = "byte"
  /\ \A u \in Threads \ {t} : doing'[u] = doing[u] /\ making'[u] = making[u]
  /\ \A o \in Objects :
       /\ o \in Readers /\ obj[o] = "absent" => obj'[o] = "absent"
       /\ o \in asked => obj'[o] = obj[o]
       /\ obj[o] \in {"dropping", "gone"} => obj'[o] \in {"dropping", "gone"}

\* Nothing about the reader changes.
SameReader(q) ==
  /\ transport' = transport
  /\ obj'[q] = obj[q] /\ doing'[q] = doing[q]
  /\ q \in asked' <=> q \in asked
  /\ chan'[q] = chan[q] /\ worker'[q] = worker[q] /\ reply'[q] = reply[q]

\* Then it waits for what it waited for.
LEMMA SameReaderWaits ==
  ASSUME NEW q, ReaderWaits(q), SameReader(q)
  PROVE  ReaderWaits(q)'
BY Zenon DEF ReaderWaits, SameReader

\* A step outside the channels keeps everybody served.
LEMMA OneThreadWaits ==
  ASSUME Inv, WaitInv, NEW t \in Threads, OneThread(t)
  PROVE  WaitInv'
<1>1. LockWait'
  BY Zenon DEF WaitInv, LockWait, OneThread
<1>2. DrainWait'
  <2> SUFFICES ASSUME NEW u \in Threads, doing'[u] = "draining"
               PROVE  obj'[making'[u]] \in {"dropping", "gone"}
    BY Zenon DEF DrainWait
  <2>1. u # t /\ doing[u] = "draining" /\ making'[u] = making[u]
    BY Zenon DEF OneThread
  <2>2. making[u] \in Objects /\ obj[making[u]] \in {"dropping", "gone"}
    BY <2>1, Kinds, Zenon DEF WaitInv, DrainWait, Inv, CallsInv, MakeInv
  <2> QED
    BY <2>1, <2>2, Zenon DEF OneThread
<1>3. ASSUME NEW r \in Readers PROVE ReaderWaits(r)'
  <2>1. ReaderWaits(r) /\ r \in Objects /\ r \in Threads
    BY Kinds, Zenon DEF WaitInv
  <2>2. doing'[r] = "hangup" => transport = "byte"
    BY <2>1, Zenon DEF OneThread, ReaderWaits
  <2>3. doing[r] = "done" => doing'[r] = "done"
    BY <2>1, Zenon DEF OneThread
  <2> QED
    BY <2>1, <2>2, <2>3, Zenon DEF OneThread, ReaderWaits
<1> QED
  BY <1>1, <1>2, <1>3, Zenon DEF WaitInv

\* The calls that leave the objects alone are steps of one thread.
LEMMA CallSteps ==
  ASSUME Inv, NEW t \in Threads,
         \/ Send(t) \/ ExecuteReturns(t) \/ OperateReturns(t) \/ CloseReturns(t)
         \/ Operate(t) \/ Cancel(t) \/ BindEnds(t)
  PROVE  OneThread(t)
<1> USE DEF Inv, CallsInv, CallsTypeOK, OneThread, streams
<1>1. CASE Send(t)
  BY <1>1, Zenon DEF Send, Methods
<1>2. CASE ExecuteReturns(t)
  BY <1>2, Zenon DEF ExecuteReturns, Returns, Goes
<1>3. CASE OperateReturns(t)
  BY <1>3, Zenon DEF OperateReturns, Returns, Goes
<1>4. CASE CloseReturns(t)
  BY <1>4, Zenon DEF CloseReturns, Returns, Goes
<1>5. CASE Operate(t)
  BY <1>5, Zenon DEF Operate, Free, Begins
<1>6. CASE Cancel(t)
  BY <1>6, ZenonT(30) DEF Cancel, Begins
<1>7. CASE BindEnds(t)
  BY <1>7, Zenon DEF BindEnds, Goes
<1> QED
  BY <1>1, <1>2, <1>3, <1>4, <1>5, <1>6, <1>7, Zenon

\* So are those that begin a call for another object, or get one.
LEMMA MakingSteps ==
  ASSUME Inv, NEW t \in Threads,
         \/ \E s \in Statements : t = Conn /\ NewStatement(s)
         \/ t = Conn /\ NewStatementReturns
         \/ \E r \in Readers : t = Maker[r] /\ Execute(r)
         \/ \E r \in Readers : Bind(t, r)
  PROVE  OneThread(t)
<1> USE DEF Inv, CallsInv, CallsTypeOK, OneThread, streams
<1>1. ASSUME NEW s \in Statements, t = Conn, NewStatement(s) PROVE OneThread(t)
  BY <1>1, Zenon DEF NewStatement, Free, Begins
<1>2. ASSUME NEW r \in Readers, t = Maker[r], Execute(r) PROVE OneThread(t)
  BY <1>2, Zenon DEF Execute, Free, Begins
<1>3. ASSUME NEW r \in Readers, Bind(t, r) PROVE OneThread(t)
  BY <1>3, Zenon DEF Bind, Free, Begins
<1>4. ASSUME t = Conn, NewStatementReturns PROVE OneThread(t)
  <2>1. making[t] \in Statements /\ obj[making[t]] = "absent" /\ asked \subseteq Readers
    BY <1>4, Zenon DEF NewStatementReturns, Returns, MakeInv, StreamsInv, StreamsTypeOK
  <2>2. \A o \in Objects : o # making[t] => obj'[o] = obj[o]
    BY <1>4, Zenon DEF NewStatementReturns, Becomes
  <2>3. \A o \in Objects :
          /\ o \in Readers /\ obj[o] = "absent" => obj'[o] = "absent"
          /\ o \in asked => obj'[o] = obj[o]
          /\ obj[o] \in {"dropping", "gone"} => obj'[o] \in {"dropping", "gone"}
    <3>1. making[t] \notin Readers /\ making[t] \notin asked
      BY <2>1, Kinds, Zenon
    <3> QED
      BY <2>1, <2>2, <3>1, Zenon
  <2> QED
    BY <1>4, <2>3, Zenon DEF NewStatementReturns, Returns, Goes
<1> QED
  BY <1>1, <1>2, <1>3, <1>4, Zenon

\* So is the beginning of a drop, and the end of one when no thread is left behind.
LEMMA DropSteps ==
  ASSUME Inv, WaitInv, NEW t \in Threads,
         (t \in Objects /\ Drop(t)) \/ Release(t) \/ ConnectionCloses(t)
  PROVE  OneThread(t)
<1> USE DEF Inv, CallsInv, CallsTypeOK
<1>1. CASE t \in Objects /\ Drop(t)
  <2>1. t \notin asked /\ obj[t] = "live" /\ doing[t] = "idle"
    BY <1>1, Zenon DEF Drop, Free
  <2>2. \A o \in Objects : o # t => obj'[o] = obj[o]
    BY <1>1, Zenon DEF Drop, Becomes
  <2>3. doing'[t] = CloseOf(t) /\ obj'[t] = "dropping"
    BY <1>1, Zenon DEF Drop, Begins, Becomes
  <2> QED
    BY <1>1, <2>1, <2>2, <2>3, Zenon DEF Drop, Begins, CloseOf, OneThread, streams
<1>2. ASSUME doing[t] \in {"release", "close_connection"}, Leaves(t)
      PROVE  /\ doing'[t] # "draining"
             /\ doing'[t] = "hangup" /\ t \in Readers => transport = "byte"
             /\ \A u \in Threads \ {t} : doing'[u] = doing[u] /\ making'[u] = making[u]
             /\ \A o \in Objects :
                  /\ o \in Readers /\ obj[o] = "absent" => obj'[o] = "absent"
                  /\ o \in asked => obj'[o] = obj[o]
                  /\ obj[o] \in {"dropping", "gone"} => obj'[o] \in {"dropping", "gone"}
  <2>1. CASE t \in Readers /\ transport = "byte"
    BY <1>2, <2>1, Zenon DEF Leaves, Goes
  <2>2. CASE ~(t \in Readers /\ transport = "byte")
    <3>1. \A o \in Objects : obj'[o] = IF o = t THEN "gone" ELSE obj[o]
      BY <1>2, <2>2, Zenon DEF Leaves
    <3>2. t \in Readers => obj[t] # "absent"
      BY <1>2, Zenon DEF LifeInv
    <3>3. t \in asked => obj[t] = "live" /\ t \in Objects
      BY Kinds, Zenon DEF WaitInv, ReaderWaits, StreamsInv, StreamsTypeOK
    <3>4. t \notin asked
      BY <1>2, <3>3, Zenon DEF LifeInv
    <3> QED
      BY <1>2, <2>2, <3>1, <3>2, <3>4, Zenon DEF Leaves, Goes
  <2> QED
    BY <2>1, <2>2, Zenon
<1>3. CASE Release(t)
  <2>1. CASE holders' = {}
    BY <1>3, <2>1, Zenon DEF Release, Goes, OneThread, streams
  <2>2. CASE holders' # {}
    <3>1. doing[t] = "release" /\ Leaves(t)
      BY <1>3, <2>2, Zenon DEF Release
    <3> QED
      BY <1>2, <1>3, <3>1, Zenon DEF Release, OneThread, streams
  <2> QED
    BY <2>1, <2>2, Zenon
<1>4. CASE ConnectionCloses(t)
  <2>1. doing[t] = "close_connection" /\ Leaves(t)
    BY <1>4, Zenon DEF ConnectionCloses, Returns
  <2> QED
    BY <1>2, <1>4, <2>1, Zenon DEF ConnectionCloses, Returns, OneThread, streams
<1> QED
  BY <1>1, <1>3, <1>4, Zenon

\* A bind_stream() whose exchange is over gives the mutex back and then drops its
\* reader, which nobody is reading.
LEMMA BindReturnsWaits ==
  ASSUME Inv, WaitInv, NEW s \in Statements, BindReturns(s)
  PROVE  WaitInv'
<1> DEFINE r == making[s]
<1>1. s \in Threads /\ r \in Readers /\ r \in Threads /\ r \in Objects /\ obj[r] = "live" /\ s # r
  BY Kinds, ZenonT(30) DEF BindReturns, Returns, Inv, CallsInv, MakeInv
<1>2. /\ UNCHANGED <<transport, making, asked, chan, worker, reply>>
      /\ lock' \in {lock, None} /\ r \notin asked
      /\ doing' = [doing EXCEPT ![s] = "draining", ![r] = "close_result"]
      /\ obj' = [obj EXCEPT ![r] = "dropping"]
  BY Zenon DEF BindReturns, Returns, Becomes, streams
<1>3. /\ \A u \in Threads : u # s /\ u # r => doing'[u] = doing[u]
      /\ doing'[s] = "draining" /\ doing'[r] = "close_result"
      /\ \A o \in Objects : obj'[o] = IF o = r THEN "dropping" ELSE obj[o]
  BY <1>1, <1>2, Zenon DEF Inv, CallsInv, CallsTypeOK
<1>4. LockWait'
  BY <1>2, Zenon DEF WaitInv, LockWait
<1>5. DrainWait'
  <2> SUFFICES ASSUME NEW u \in Threads, doing'[u] = "draining"
               PROVE  obj'[making[u]] \in {"dropping", "gone"}
    BY <1>2, Zenon DEF DrainWait
  <2>1. u # r
    BY <1>3, Zenon
  <2>2. CASE u = s
    BY <1>1, <1>3, <2>2, Zenon
  <2>3. CASE u # s
    <3>1. doing[u] = "draining"
      BY <1>3, <2>1, <2>3, Zenon
    <3>2. making[u] \in Objects /\ obj[making[u]] \in {"dropping", "gone"}
      BY <3>1, Kinds, Zenon DEF WaitInv, DrainWait, Inv, CallsInv, MakeInv
    <3> QED
      BY <1>3, <3>2, Zenon
  <2> QED
    BY <2>2, <2>3, Zenon
<1>6. ASSUME NEW q \in Readers PROVE ReaderWaits(q)'
  <2>1. ReaderWaits(q) /\ q \in Threads /\ q \in Objects /\ q # s
    BY Kinds, ZenonT(30) DEF WaitInv
  <2>2. CASE q = r
    <3>1. doing[r] = "idle"
      BY <1>1, Zenon DEF Inv, CallsInv, LifeInv
    <3> QED
      BY <1>1, <1>2, <1>3, <2>1, <2>2, <3>1, Zenon DEF ReaderWaits
  <2>3. CASE q # r
    BY <1>2, <1>3, <2>1, <2>3, SameReaderWaits, Zenon DEF SameReader
  <2> QED
    BY <2>2, <2>3, Zenon
<1> QED
  BY <1>4, <1>5, <1>6, Zenon DEF WaitInv

\* The steps of one reader, its thread or its channel, that leave the calls alone.
LEMMA OneReaderWaits ==
  ASSUME WaitInv, NEW r \in Readers, ReaderWaits(r)',
         UNCHANGED <<transport, obj, calls>>, \A q \in Readers \ {r} : SameReader(q)
  PROVE  WaitInv'
<1>1. UNCHANGED <<transport, obj, doing, making, lock>>
  BY Zenon DEF calls
<1>2. LockWait' /\ DrainWait'
  BY <1>1, Zenon DEF WaitInv, LockWait, DrainWait
<1>3. ASSUME NEW q \in Readers PROVE ReaderWaits(q)'
  BY SameReaderWaits, Zenon DEF WaitInv
<1> QED
  BY <1>2, <1>3, Zenon DEF WaitInv

\* reader_from_response(): a ByteReader has its thread from the beginning.
LEMMA OpenReaderWaits ==
  ASSUME Inv, WaitInv, NEW t \in Threads, OpenReader(t)
  PROVE  WaitInv'
<1> DEFINE r == making[t]
<1>1. /\ r \in Readers /\ r \in Objects /\ t \notin Readers
      /\ obj[r] = "absent" /\ doing[r] = "idle"
  <2>1. r \in Readers /\ t = Maker[r] /\ obj[r] = "absent"
    BY Zenon DEF OpenReader, Inv, CallsInv, MakeInv
  <2>2. t \in {Conn} \cup Statements
    BY <2>1, Kinds, ZenonT(30)
  <2> QED
    BY <2>1, <2>2, Kinds, Zenon DEF Inv, CallsInv, LifeInv
<1>2. /\ UNCHANGED <<transport, lock, asked, chan, reply>>
      /\ \A u \in Threads : u # t => doing'[u] = doing[u] /\ making'[u] = making[u]
      /\ doing'[t] = "idle"
      /\ \A o \in Objects : o # r => obj'[o] = obj[o]
      /\ \A q \in Readers : q # r => worker'[q] = worker[q]
      /\ (obj'[r] = "absent" /\ worker'[r] = worker[r])
           \/ (obj'[r] = "live" /\ (transport = "byte" => worker'[r] = "running"))
  <2> USE DEF OpenReader, Inv, CallsInv, CallsTypeOK, StreamsInv, StreamsTypeOK
  <2>1. /\ UNCHANGED <<transport, lock, asked, chan, reply>>
        /\ \A u \in Threads : u # t => doing'[u] = doing[u] /\ making'[u] = making[u]
        /\ doing'[t] = "idle"
    BY ZenonT(30) DEF Goes
  <2>2. CASE UNCHANGED <<obj, worker>>
    BY <1>1, <2>1, <2>2, Zenon
  <2>3. CASE /\ Becomes(r, "live")
             /\ worker' = [worker EXCEPT ![r] = IF transport = "byte" THEN "running" ELSE @]
    BY <1>1, <2>1, <2>3, ZenonT(30) DEF Becomes
  <2> QED
    BY <2>2, <2>3, Zenon
<1>3. LockWait'
  BY <1>2, Zenon DEF WaitInv, LockWait
<1>4. DrainWait'
  <2> SUFFICES ASSUME NEW u \in Threads, doing'[u] = "draining"
               PROVE  obj'[making'[u]] \in {"dropping", "gone"}
    BY Zenon DEF DrainWait
  <2>1. doing[u] = "draining" /\ making'[u] = making[u]
    BY <1>2, Zenon
  <2>2. making[u] \in Objects /\ obj[making[u]] \in {"dropping", "gone"}
    BY <2>1, Kinds, Zenon DEF WaitInv, DrainWait, Inv, CallsInv, MakeInv
  <2> QED
    BY <1>1, <1>2, <2>1, <2>2, Zenon
<1>5. ASSUME NEW q \in Readers PROVE ReaderWaits(q)'
  <2>1. ReaderWaits(q) /\ q \in Threads /\ q \in Objects
    BY Kinds, Zenon DEF WaitInv
  <2>2. CASE q = r
    <3>1. r \notin asked /\ reply[r] = "none" /\ chan[r] = "empty"
      BY <1>1, <2>1, <2>2, Zenon DEF ReaderWaits, Inv, StreamsInv, StreamsTypeOK
    <3>2. doing'[r] = "idle"
      BY <1>1, <1>2, <2>1, <2>2, Zenon
    <3> QED
      BY <1>2, <2>2, <3>1, <3>2, Zenon DEF ReaderWaits
  <2>3. CASE q # r
    BY <1>1, <1>2, <2>1, <2>3, SameReaderWaits, Zenon DEF SameReader
  <2> QED
    BY <2>2, <2>3, Zenon
<1> QED
  BY <1>3, <1>4, <1>5, Zenon DEF WaitInv

\* ByteReader::drop: the thread is told or gone, and the reader is through.
LEMMA HangupWaits ==
  ASSUME Inv, WaitInv, NEW r \in Readers, Hangup(r)
  PROVE  WaitInv'
<1>1. r \in Threads /\ r \in Objects /\ ReaderWaits(r) /\ doing[r] = "hangup"
  BY Kinds, Zenon DEF WaitInv, Hangup
<1>2. /\ UNCHANGED <<transport, lock, asked, worker, reply>>
      /\ \A u \in Threads : u # r => doing'[u] = doing[u] /\ making'[u] = making[u]
      /\ doing'[r] = "done"
      /\ \A o \in Objects : obj'[o] = IF o = r THEN "gone" ELSE obj[o]
      /\ \A q \in Readers : q # r => chan'[q] = chan[q]
      /\ chan'[r] \in {chan[r], "cancel"}
  BY <1>1, ZenonT(30)
     DEF Hangup, Goes, Becomes, Inv, CallsInv, CallsTypeOK, StreamsInv, StreamsTypeOK
<1>3. LockWait'
  BY <1>2, Zenon DEF WaitInv, LockWait
<1>4. DrainWait'
  <2> SUFFICES ASSUME NEW u \in Threads, doing'[u] = "draining"
               PROVE  obj'[making'[u]] \in {"dropping", "gone"}
    BY Zenon DEF DrainWait
  <2>1. doing[u] = "draining" /\ making'[u] = making[u]
    BY <1>2, Zenon
  <2>2. making[u] \in Objects /\ obj[making[u]] \in {"dropping", "gone"}
    BY <2>1, Kinds, Zenon DEF WaitInv, DrainWait, Inv, CallsInv, MakeInv
  <2> QED
    BY <1>2, <2>1, <2>2, Zenon
<1>5. ASSUME NEW q \in Readers PROVE ReaderWaits(q)'
  <2>1. CASE q = r
    <3>1. obj[r] # "live" /\ obj[r] # "absent"
      BY <1>1, Zenon DEF Inv, CallsInv, LifeInv
    <3>2. r \notin asked /\ reply[r] = "none" /\ chan[r] # "next"
      BY <1>1, <3>1, Zenon DEF ReaderWaits
    <3> QED
      BY <1>1, <1>2, <2>1, <3>1, <3>2, Zenon DEF ReaderWaits
  <2>2. CASE q # r
    <3>1. q \in Threads /\ q \in Objects /\ ReaderWaits(q)
      BY Kinds, Zenon DEF WaitInv
    <3> QED
      BY <1>2, <2>2, <3>1, SameReaderWaits, Zenon DEF SameReader
  <2> QED
    BY <2>1, <2>2, Zenon
<1> QED
  BY <1>3, <1>4, <1>5, Zenon DEF WaitInv

\* ByteReader::next: the command is with a running thread before next() waits.
LEMMA AskWaits ==
  ASSUME Inv, WaitInv, NEW r \in Readers, Ask(r)
  PROVE  WaitInv'
<1>1. UNCHANGED <<transport, obj, calls, worker, reply>> /\ doing' = doing
  BY Zenon DEF Ask, calls
<1>2. \A q \in Readers \ {r} : SameReader(q)
  <2>1. /\ chan' = chan \/ chan' = [chan EXCEPT ![r] = "next"]
        /\ asked' = asked \/ asked' = asked \cup {r}
    BY Zenon DEF Ask
  <2>2. chan \in [Readers -> {"empty", "next", "cancel"}]
    BY Zenon DEF Inv, StreamsInv, StreamsTypeOK
  <2> QED
    BY <1>1, <2>1, <2>2, Zenon DEF SameReader
<1>3. ReaderWaits(r)'
  <2>1. ReaderWaits(r) /\ obj[r] = "live" /\ r \notin asked
    BY Zenon DEF WaitInv, Ask
  <2>2. CASE worker[r] = "running"
    <3>1. chan'[r] = "next" /\ r \in asked' /\ reply[r] = "none"
      BY <2>1, <2>2, Zenon DEF Ask, ReaderWaits, Inv, StreamsInv, StreamsTypeOK
    <3> QED
      BY <1>1, <2>1, <2>2, <3>1, Zenon DEF ReaderWaits
  <2>3. CASE worker[r] # "running"
    BY <1>1, <2>1, <2>3, Zenon DEF Ask, ReaderWaits
  <2> QED
    BY <2>2, <2>3, Zenon
<1> QED
  BY <1>1, <1>2, <1>3, OneReaderWaits, Zenon

\* The thread answers the command it takes, whatever the server's answer is.
LEMMA TickWaits ==
  ASSUME Inv, WaitInv, NEW r \in Readers, Tick(r)
  PROVE  WaitInv'
<1>1. UNCHANGED <<transport, obj, calls, asked>> /\ doing' = doing
  BY Zenon DEF Tick, calls
<1>2. /\ chan \in [Readers -> {"empty", "next", "cancel"}]
      /\ worker \in [Readers -> {"none", "running", "gone"}]
      /\ reply \in [Readers -> {"none", "batch", "end", "error"}]
  BY Zenon DEF Inv, StreamsInv, StreamsTypeOK
<1>3. PICK answer \in {"batch", "end", "error"} : Replies(r, answer)
  BY Zenon DEF Tick
<1>4. chan' = [chan EXCEPT ![r] = "empty"] /\ reply' = [reply EXCEPT ![r] = answer]
  BY <1>3, Zenon DEF Tick, Replies
<1>5. worker' = worker \/ worker' = [worker EXCEPT ![r] = "gone"]
  BY <1>3, Zenon DEF Replies
<1>6. \A q \in Readers \ {r} : SameReader(q)
  BY <1>1, <1>2, <1>4, <1>5, Zenon DEF SameReader
<1>7. ReaderWaits(r)'
  <2>1. ReaderWaits(r) /\ chan[r] = "next" /\ worker[r] = "running"
    BY Zenon DEF WaitInv, Tick
  <2>2. chan'[r] = "empty" /\ reply'[r] # "none" /\ worker'[r] \in {"running", "gone"}
    BY <2>1, <1>2, <1>3, <1>4, <1>5, Zenon
  <2> QED
    BY <1>1, <2>1, <2>2, Zenon DEF ReaderWaits
<1> QED
  BY <1>1, <1>6, <1>7, OneReaderWaits, Zenon

\* A thread that is told to stop has nobody waiting for it.
LEMMA WorkerCancelsWaits ==
  ASSUME Inv, WaitInv, NEW r \in Readers, WorkerCancels(r)
  PROVE  WaitInv'
<1>1. UNCHANGED <<transport, obj, calls, asked, reply>> /\ doing' = doing
  BY Zenon DEF WorkerCancels, calls
<1>2. \A q \in Readers \ {r} : SameReader(q)
  BY <1>1, Zenon DEF WorkerCancels, SameReader, Inv, StreamsInv, StreamsTypeOK
<1>3. ReaderWaits(r)'
  <2>1. ReaderWaits(r) /\ chan[r] = "cancel"
    BY Zenon DEF WaitInv, WorkerCancels
  <2>2. chan'[r] = "empty" /\ worker'[r] = "gone"
    BY Zenon DEF WorkerCancels, Inv, StreamsInv, StreamsTypeOK
  <2>3. r \notin asked
    BY <2>1, Zenon DEF ReaderWaits, Inv, CallsInv, LifeInv
  <2> QED
    BY <1>1, <2>1, <2>2, <2>3, Zenon DEF ReaderWaits
<1> QED
  BY <1>1, <1>2, <1>3, OneReaderWaits, Zenon

\* next() returns: the reply is taken, and no command is left in the channel.
LEMMA DeliversWaits ==
  ASSUME Inv, WaitInv, NEW r \in Readers, Delivers(r)
  PROVE  WaitInv'
<1>1. UNCHANGED <<transport, obj, calls, chan, worker>> /\ doing' = doing
  BY Zenon DEF Delivers, Receives, calls
<1>2. \A q \in Readers \ {r} : SameReader(q)
  BY <1>1, Zenon DEF Delivers, Receives, SameReader, Inv, StreamsInv, StreamsTypeOK
<1>3. ReaderWaits(r)'
  <2>1. ReaderWaits(r) /\ r \in asked /\ reply[r] # "none" /\ r \notin asked' /\ reply'[r] = "none"
    BY Zenon DEF WaitInv, Delivers, Receives, Inv, StreamsInv, StreamsTypeOK
  <2> QED
    BY <1>1, <2>1, Zenon DEF ReaderWaits
<1> QED
  BY <1>1, <1>2, <1>3, OneReaderWaits, Zenon

\* Every step keeps everybody served.
LEMMA NextWaits ==
  ASSUME Inv, WaitInv, [Next]_vars
  PROVE  WaitInv'
<1>1. ASSUME NEW t \in Threads, Send(t) \/ ThreadStep(t) PROVE WaitInv'
  BY <1>1, CallSteps, DropSteps, OneThreadWaits, OpenReaderWaits, Zenon DEF ThreadStep
<1>2. CASE NewStatementReturns
  BY <1>2, Kinds, MakingSteps, OneThreadWaits, Zenon
<1>3. ASSUME NEW s \in Statements, NewStatement(s) \/ StatementStep(s) PROVE WaitInv'
  BY <1>3, Kinds, CallSteps, MakingSteps, BindReturnsWaits, OneThreadWaits, Zenon
     DEF StatementStep
<1>4. ASSUME NEW r \in Readers, Execute(r) PROVE WaitInv'
  <2>1. Maker[r] \in Threads
    BY Kinds, DriverAssumption
  <2> QED
    BY <1>4, <2>1, MakingSteps, OneThreadWaits, Zenon
<1>5. ASSUME NEW r \in Readers, Ask(r) \/ ReaderStep(r) PROVE WaitInv'
  BY <1>5, AskWaits, HangupWaits, TickWaits, WorkerCancelsWaits, DeliversWaits, Zenon
     DEF ReaderStep
<1>6. ASSUME NEW t \in {Conn} \cup Statements, Operate(t) PROVE WaitInv'
  BY <1>6, Kinds, CallSteps, OneThreadWaits, Zenon
<1>7. ASSUME NEW s \in Statements, NEW r \in Readers, Bind(s, r) PROVE WaitInv'
  BY <1>7, Kinds, MakingSteps, OneThreadWaits, Zenon
<1>8. ASSUME NEW o \in Objects, Drop(o) PROVE WaitInv'
  BY <1>8, Kinds, DropSteps, OneThreadWaits, Zenon
<1>9. ASSUME NEW t \in Cancels, Cancel(t) PROVE WaitInv'
  BY <1>9, Kinds, CallSteps, OneThreadWaits, Zenon
<1>10. CASE UNCHANGED vars
  <2>1. UNCHANGED <<transport, obj, doing, making, lock, asked, chan, worker, reply>>
    BY <1>10, Zenon DEF vars, calls, streams
  <2>2. LockWait' /\ DrainWait'
    BY <2>1, Zenon DEF WaitInv, LockWait, DrainWait
  <2>3. \A r \in Readers : SameReader(r)
    BY <2>1, Zenon DEF SameReader
  <2> QED
    BY <2>2, <2>3, SameReaderWaits, Zenon DEF WaitInv
<1> QED
  BY <1>1, <1>2, <1>3, <1>4, <1>5, <1>6, <1>7, <1>8, <1>9, <1>10, Zenon DEF Next

\* Nobody waits for somebody who waits for them: neither the client's mutex, kept by
\* bind_stream() over a whole exchange, nor the channel of a reader closes a circle.
THEOREM NobodyStranded == Spec => []NoCircularWait
<1>1. Init => WaitInv
  <2> SUFFICES ASSUME Init PROVE WaitInv
    BY Zenon
  <2>1. LockWait /\ DrainWait
    BY Zenon DEF Init, LockWait, DrainWait
  <2>2. ASSUME NEW r \in Readers PROVE ReaderWaits(r)
    <3>1. /\ obj[r] = "absent" /\ doing[r] = "idle" /\ r \notin asked
          /\ reply[r] = "none" /\ chan[r] = "empty"
      BY Kinds, Zenon DEF Init
    <3> QED
      BY <3>1, Zenon DEF ReaderWaits
  <2> QED
    BY <2>1, <2>2, Zenon DEF WaitInv
<1>2. Inv /\ WaitInv => NoCircularWait
  <2> SUFFICES ASSUME Inv, WaitInv PROVE NoCircularWait
    BY Zenon
  <2>1. lock # None => lock \in inflight /\ lock \in Threads /\ doing[lock] \in Methods
    BY Zenon DEF WaitInv, LockWait, Inv, CallsInv, CallsTypeOK, LifeInv
  <2>2. lock # None /\ doing[lock] = "bind" => doing[making[lock]] = "idle"
    BY <2>1, Zenon DEF Inv, CallsInv, MakeInv, LifeInv
  <2>3. \A r \in asked : reply[r] # "none" \/ (worker[r] = "running" /\ chan[r] = "next")
    BY Zenon DEF WaitInv, ReaderWaits, Inv, StreamsInv, StreamsTypeOK
  <2>4. ASSUME NEW r \in Readers, doing[r] = "hangup"
        PROVE  worker[r] = "gone" \/ (worker[r] = "running" /\ chan[r] = "empty")
    <3>1. r \in Objects /\ ReaderWaits(r) /\ obj[r] # "absent" /\ obj[r] # "live"
      BY <2>4, Kinds, Zenon DEF WaitInv, Inv, CallsInv, LifeInv
    <3>2. worker[r] # "none" /\ chan[r] # "next" /\ chan[r] # "cancel"
      BY <2>4, <3>1, Zenon DEF ReaderWaits
    <3> QED
      BY <3>2, Zenon DEF Inv, StreamsInv, StreamsTypeOK
  <2>5. ASSUME NEW s \in Statements, doing[s] = "draining"
        PROVE  lock # s /\ obj[making[s]] \in {"dropping", "gone"}
    <3>1. s \in Threads /\ s # None /\ "draining" \notin Methods
      BY Kinds, ZenonT(30) DEF Methods
    <3> QED
      BY <2>1, <2>5, <3>1, Zenon DEF WaitInv, DrainWait
  <2> QED
    BY <2>1, <2>2, <2>3, <2>4, <2>5, Zenon DEF NoCircularWait
<1>3. Inv /\ WaitInv /\ [Next]_vars => WaitInv'
  BY NextWaits, Zenon
<1> QED
  BY <1>1, <1>2, <1>3, Invariance, PTL DEF Spec

================================================================================

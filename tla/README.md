# Verification of Grainlift

Grainlift is an ADBC proxy.  A client driver (`adbc-driver-grainlift`) looks like
any ADBC driver to an application; it speaks a typed RPC protocol
(`grainlift-protocol`, over VGI-RPC) to a server (`grainlift-server`), which runs
the real ADBC driver on the client's behalf.  This directory holds TLA+ models of
the parts of it that have state, concurrency or intricate case analysis, the TLC
runs that check them on small instances, and TLAPS proofs of what matters most for
every instance.

Paths below are relative to `src/crates/`.

## 1. The system

| Part | State | Operations | Hard because |
|---|---|---|---|
| Session registry, `grainlift-server/src/session.rs` `SessionManager` | sessions by id, opens in progress (total, per principal), shutdown flag, leases | `open`, `get`, `close`, `reap_expired`, `close_all`, `Session::drop` | `open` spans several lock sections and a thread with a deadline; shutdown and the reaper run meanwhile |
| Session worker, `SessionWorker` | bounded channel, worker thread, abandoned flags, reply slots | `start`, `call`, drop of the session | deadline races with the start of the job; panics; queue full; the driver may never return |
| Handles, `grainlift-server/src/service.rs` and `Session` | statements, results, owners, quotas | every unary RPC handler, `cancel_statement` | a handler is several worker jobs with other handlers' jobs in between; timed-out jobs have late effects |
| Result reading, `ResultEntry`, `ResultProducer`, `RemoteReader` (HTTP), `GrainliftInfoReader` | cursor with one replayable batch, terminal error, tokens | `next_result`, `produce`, `RemoteReader::open`, `next`, drop, `get_info` | requests and replies are lost, repeated, reordered; reads time out and complete later; batches are cut and merged |
| Parameter binding, `bind_upload.rs`, `BindExchange`, `bind_batches` | upload registry and its lock, upload actors with spool files | init, data, finish and cancel turns, `close_statement`, `Session::drop` | a lock is kept while an actor writes; finish races with cancel; sizes at the limit |
| Client objects, `adbc-driver-grainlift/src/lib.rs` | shared `RemoteConnection` by reference count, one client behind a mutex (byte streams), a thread per byte-stream reader | all ADBC methods, `try_cancel`, all drops | any thread may be the last to let go; the mutex is kept over a whole bind exchange |
| Iroh pool, `adbc-driver-grainlift/src/iroh_pool.rs` | weak map of slots, once-only cells, leases | `acquire`, `invalidate`, `open_client`, drop of a lease | initializers race, connections die, eviction by key races with reinsertion |
| Partition tokens, `partitions.rs` and `execute_partitions`, `read_partition` | signing key of the process, expiry, owner | seal, open | a clock that is set, a restart with a new key, clients that pass tokens on, the room left in a response |
| Configuration, options and access, `config.rs`, `backend.rs`, `session.rs` | none after start; the options of a session | `validate`, `remote_options`, `merge_options`, `set_connection_option`, `principal`, `TargetAuthorizer` | options pass four places that each filter; lists of permissions that are empty, partial or wild |
| Process, `main.rs` | listeners, reaper task, shutdown token and flag | start, failure of a listener, signal, drain, exit | one task is a blocking thread; what ends first decides what is awaited |
| Wire protocol, `grainlift-protocol` | none | `validate_ipc`, `decode_batch_ipc`, errors there and back | lengths in a payload may point anywhere |

The parts meet as follows.  A client object makes a call; a handler of the server
takes its session from the registry (`get` keeps an `Arc`), submits jobs to the
session's worker and answers.  The worker alone touches the downstream driver,
except for cancellation.  Results are read by a stream of their own whose cursor
lives in the session; uploads are staged by an actor and handed to the worker as
one bind.  Tokens outlive sessions, but not the process.

## 2. Modules

| Module | Models | Abstract specification |
|---|---|---|
| `SessionRegistry` | `SessionManager`, one step per `registry.lock()` section | |
| `SessionWorker` | `SessionWorker::start` and `call` | `WorkerContract` |
| `SessionHandles` | handlers as plans of jobs over the worker's contract | uses the contract's behaviour |
| `ResultCursor` | cursor, tokens and HTTP reader over a network | `ResultStream` |
| `IpcFraming` | `validate_ipc` and `decode_batch_ipc`, as functions on payloads | `IsOneBatch`, the format |
| `InfoReader` | `get_info`: composes `IpcFraming`, `ResultCursor` and the client's filter of rows | `ResultStream`, `Complete` |
| `BindUpload` | client, exchange, registry lock, actors, bind job | |
| `ClientDriver` | client objects, shared client, byte-stream readers | `ResultStream`, per reader |
| `IrohPool` | the pool and its callers | |
| `PartitionSigner` | `seal` and `open` of a token | |
| `OptionPolicy` | options from the application's maps to the driver | |
| `TargetAccess` | identities, permissions, `Config::validate` | |
| `WireErrors` | an ADBC error to the wire and back | |
| `ServerProcess` | `main()` and its listeners, kill and restart | |
| `ServerNode` | composes the five before it: clients, sessions, tokens and the process over time | |

`MC*` modules give constants values for TLC; `*Proofs` modules hold theorems.
Definitions that begin with "Variant:" in their comment are mistaken forms of the
definition that follows them; each shows that a property notices that mistake and
none is used in a specification.

### Correspondence

*SessionRegistry.*  A session bears the name of the `open()` call that made it.
`phase[s]` is how far that call is; `conn[s]` is its downstream connection, which
outlives the call when the deadline passes (`OpenTimesOut`) while the
"grainlift-open" thread is inside `backend.open()`.  `Holders(s)` is
`Arc::strong_count - 1`.  `expired` abstracts `last_used.elapsed() > ttl`; time is
`LeaseElapses`.  `close_all()` is two steps, since the flag is stored before the
lock is taken.  What leaves the registry is dropped after the lock, on the thread
that took it out: `drops[t]`, where a thread is an `open()`, a handler, the reaper or
`main()`.  `Drop` is the drop of one `Arc`; for the last one it is `Session::drop`,
which waits for the lock of the session's statements (`locked`, kept by a
`new_statement()` in the driver) and leaves cancellation and destructors to a
cleanup thread.  They run on the dropping thread when that thread cannot be spawned
or is done first, and `DestructorReturns` may then never come.

*SessionWorker.*  `sent` is the channel's history, `received` how much of it the
worker has taken.  The window between a caller's deadline (`Expire`) and its store
to the flag (`GiveUp`), and between the worker's `recv` (`Receive`) and its load of
the flag (`Load`), are steps of their own.

*SessionHandles.*  `PlanOf(kind)` is the list of worker jobs a handler runs:
`execute` is invalidate, run, invalidate, insert.  `cleanup` marks a handler whose
response could not be built and that undoes its effect by one more plan.  The
worker is its contract: jobs in order, one at a time, a job whose handler has
given up passed over unless it has begun.  `seen[r]` is not in the code: it is the
handles that had been delivered when r began, for `DeliveredSurvive`.  `Patient`
says whether a client waits for a statement's handler before its next call on the
statement.

*ResultCursor.*  Requests and replies are sets that only grow, so each can be lost,
repeated or reordered.  A token is the sequence number in it; what a token protects
against by its signature is not modelled.

*IpcFraming, InfoReader.*  A payload is a sequence of four-byte words; the first
word of a message's metadata stands for what `root_as_message` makes of all of it,
with what `batch_buffer_bytes` makes of a batch as its `size`.  `Passes` is Arrow's
`StreamReader::next`, which takes in dictionaries on its way to a batch or the end;
`DecodeRecordIpc` is how a response is decoded.
`DecodeResponse`, `OpenReader` and `OpenReturns` are `get_info()`; the `Next*`
actions are the branches of `GrainliftInfoReader::next`, which `Runs` gives its
slices.  A row is its info code.

*BindUpload.*  Batches are their sizes and their positions.  `lock` is the upload
registry's mutex, kept by `push_bind_upload` while the actor writes; `creating` says
that a `new_statement()` of another request has the lock of the statements, which
`StartLookup` and `DropSession` need.  `bound` records what reached the driver.

*ClientDriver.*  Each object has a thread (`doing`); `&mut self` methods exclude
each other, which is `Free`.  `Send` is taking the mutex and writing the request,
`Returns` the response or its failure.  A dropped object sends its own close, then
gives its reference up (`Release`); the last one sends `CLOSE_CONNECTION`; a byte
reader then dismisses its thread, because the field `mode` of `RemoteReader` is
dropped after `remote`.  How a reader reads over HTTP is left to `ResultCursor`.

*IrohPool.*  A slot is named after the acquisition that made it.  Weak references
are `Alive`: some caller holds the slot.  `Initialize`, `Connects`, `Joins` and
`InitFailed` are `OnceLock::get_or_init` with its one initializer.  After its last use
(`Ends`) a connection drops its client and then its lease, in the order of the fields of
`ByteTransport`; the thread of a reader (`Readers`) drops its lease and then its client,
explicitly at its end and in the reverse order of declaration on its early returns.

*ServerNode* and the modules it composes.  A configuration is a record (see
`TargetAccess`); the settings that are merely zero, blank or out of order are its
`faults`.  `OpenConnection` runs the whole way of an open, from the options of the
application (`NamesService`, `RemoteOptions`) over identity, permission and policy
to what the driver is given (`Merge`).  `Get` and the step that ends the handler are
apart, so that a session can be detached, the clock set or the process killed in
between.  The signature of a token is the key it was made with, the digest of its
owner the bytes it is taken of: target, NUL, principal.  `Room` is the running size
of a response to `execute_partitions`.  `ServerProcess` has one step for each await
of `main()`; `told` is the shutdown token and the TCP listener's flag, `left` the
tasks the drain has still to await.  `CloseAll` takes the sessions out of the
registry; `main()` then drops them one by one (`drops["main"]`) before `CloseAllReturns`
lets the grace period begin.  `drops["others"]` are those dropped by handlers and the
reaper.

External code is modelled from its use: the downstream driver (a call returns,
fails, or never returns), VGI-RPC (a call returns or fails; its HTTP transport may
lose and repeat), Iroh (a connection may be closed by its peer), the MAC and the
digest of a token (they tell different inputs apart), the listeners (each may end
at any time, with an error or without).

## 3. Runs

Every run is `tlc -config <cfg> <module>`.  State counts are distinct states.

| Run | Instance | States | Shows |
|---|---|---|---|
| `registry` | 3 opens, 2 principals, 2 handlers, quotas 2 and 1 | 122,976 | quotas, exact reservations, terminal shutdown, leases never expire under a handler; every open answered and every unowned connection let go of, unless a drop keeps the thread |
| `worker` | 3 calls, channel of 1 | 7,095 | `KeepsContract` (refinement), no operation after the drop, every call answered, thread given back |
| `handles` | four mixes of up to five requests, quotas of one statement and two results, queue of 2 | 428,387 | one result per statement, closed means clean, errors leave nothing, delivered results survive late effects of earlier calls, every request answered |
| `cursor` | responses of any 4 words over 9, or of up to 5 frames with dictionaries, whole or cut short; 3 batches, three contents, three sets of codes | 87,812 | the framing accepts one stream of one batch and nothing else, `ReadsTheStream` (refinement), answers to one sequence agree, the rows of `get_info` exact, reading ends |
| `bind` | 2 uploads, two sets of batches around the limit, a `new_statement()` beside them | 288,561 | bindings whole or absent and ok means bound, cancelled means not bound, cancellations reach their actor, turns answered, threads reclaimed |
| `iroh_pool` | 3 callers, one of them a reader, 2 keys | 158,065 | sharing by key only, fresh retry, leases, callers return |
| `client` | a statement, a reader, a cancellation, both transports | 15,710 | closes in order, no call after the last, byte reader refines `ResultStream`, drops finish, session closed |
| `server` | 2 processes, six workloads over eight configurations, clock of 2 values | 180,882 | tokens redeemed exactly by their owner in their lifetime at their process, errors of every status but Ok as they were, options by policy, sessions entitled, the server stops and says how unless it waits for a driver for ever |

### Why the bounds are enough

*registry*: two opens of one principal contend for its quota of one while another
principal opens; two handlers can hold one session while it expires, is closed or is
detached, and one thread can have two sessions to drop of which the first keeps it.
The principals' quotas add up to the global one here, so refusals by the global quota
alone are not in this instance. `QuotasHold` proves both quotas for all instances.
*worker*: one running, one queued and one refused call is the smallest case with all
outcomes. *handles*: two executions and a close of one statement are what it takes for
a late effect to meet a newer result; three metadata calls and a close of a result
reach the quota and come back below it; the other two mixes bring in the remaining
kinds of handler and a cancellation. The theorems cover all mixes. *cursor*: the
cursor keeps one batch, so three batches have one before, one at and one after it; the
contents begin, end, alternate and consist of rows that are filtered out. Four words
have every way to stop short in a prefix, in metadata or in a body, and every length
and kind of metadata at each place. The frames make whole streams: schemas with and
without a dictionary, a dictionary of theirs and one of no schema, batches with one
row, none, and too many bytes once decoded, terminators in both forms, in any order of
four and, after a schema and its dictionary, of three more. The limit of eleven words
is one that some of them meet and others pass. *bind*: sizes are chosen so that one
upload ends exactly at the limit, one exceeds it by the trailer alone, one by a batch,
and one has a batch too many for `bind()`. *iroh_pool*: two callers share, a
connection and a reader, which drop in different orders; a third differs in one field;
each makes two attempts. *client*: the statement binds from a reader of the
connection, so three objects and a cancellation can each be the last to let go.
*server*: a token is made, passed on, and redeemed by another client, at another time
or at the next process; the names are such that two owners have the same letters in a
row; each workload is about one concern, since clients, tokens and options of
different concerns do not meet.

The lifetime of a token is one tick of a clock of two values, which has a time
within the lifetime and one at its very end; the clock may go back.

### Fairness

Threads run and timers fire: weak fairness on the steps of handlers, workers,
actors and reapers, and on the drop of a session by a thread that nothing keeps.
Nothing is assumed of clients or of operators, except that in `cursor` the application
goes on reading.  Of the downstream driver nothing is assumed either: `Finish`,
`BackendOpenReturns`, `FinishJob`, `BindEnds`, `ReadBatch`, `NewStatementReturns` and
`DestructorReturns` have no fairness.  A driver that never returns can keep threads of
the server for ever, and where the code lets it, the properties say so themselves
instead of assuming it away.  `OpenAnswered`, `ConnectionsReclaimed` and
`AbandonedReclaimed` except a thread that the drop of a session keeps;
`TurnsAnswered` and `SpoolsReclaimed` except a wait for the lock of a `new_statement()`
that never returns; `ServerStops` excepts both, and a handler in the driver, for which
the runtime waits.  Each exception names a state that lasts for ever, so that a wait
for any other reason is a violation.  `ThreadReclaimed` assumes explicitly that
operations return.

In `bind`, the lock of the statements is got by a `StartLookup` if it is free again and
again, which is strong fairness; so is, in `server`, the exit of a runtime whose threads
are idle again and again.  In `client`, calls
return because each has the request timeout, and `Send` has strong fairness: a
thread that waits for a mutex that is free again and again gets it.  The standard
library's mutex does not promise that in theory; its queue makes starvation a
matter of scheduling only.  In `server`, `main()` goes on and its grace period
passes; no listener is assumed to drain, except that `serve_tcp()`, which is
external and runs on a blocking thread that `abort()` cannot stop, returns once its
flag is set.  Without that `ServerStops` would not hold.

### Where the documentation and the code differ

Four runs state what a document says and end in a counterexample.

| Run | Document | Code |
|---|---|---|
| `concurrent_opens` | docs/security.md:76, concurrent opens cannot exceed the bounds | a timed-out `open()` gives its reservation back while its thread is still in the driver |
| `overlapping_executions` | docs/adbc-protocol-review.md:102, execution invalidates earlier results | two overlapping executions both insert after both have invalidated |
| `cursor_release` | docs/typed-protocol.md:95, a cursor is released if the response cannot be built | the release is a worker job whose timeout is ignored |
| `cancel_bypass` | docs/security.md:87, cancellation bypasses the actor | `cancel_statement` waits for the lock `new_statement` keeps across the driver call |

The passing runs take the weaker reading that the code keeps: quotas count
reservations and sessions; one result per statement holds for clients that wait for a
handler before the next call. `server.driver_operation_timeout_seconds` defaults to
270 (`config.rs`:125), so a client with the default request timeout of 30 s does not
wait.

Three more differences are in the statements of properties that hold.

* docs/security.md says that shutdown "detaches and cancels all sessions, then drains
  listeners for at most `server.shutdown_grace_seconds`", and a comment in
  `Session::drop` that what may block is kept "off the registry/shutdown thread".
  `close_all()` drops sessions on the thread of `main()`, before the grace period: it
  waits there for the lock of a `new_statement()`, and runs destructors when the
  cleanup thread cannot be spawned or is done first.  These are the exceptions of
  `ServerStops`.
* The comment on `Lease` in `iroh_pool.rs` says that it keeps the connection alive
  "while a caller owns its logical stream".  The thread of a reader drops its lease
  before its client, so the connection may be closed under a client that has only to
  be dropped.  `LeaseKeepsLink` says exactly that.
* `grainlift-protocol` has a name for the status Ok (`"ok"`), and accepts it in an
  error, where docs/typed-protocol.md lists the names of failures.  Nothing here makes an
  error of that status, and `TokensRedeemed` is about the others.

## 4. Proofs

`tlapm` proves these for every value of the constants under the named assumptions
of each module.  Every safety property of a passing run is the subject of a
theorem.

| Module | Theorems | Inductive invariant |
|---|---|---|
| `SessionRegistryProofs` | types, `ReservationsAreExact`, `QuotasHold`, `ShutdownTerminal`, `ConnectionsUsable`, `InFlightIsKept`, `SessionsDroppedOnce` | reservations equal the opens between reserve and release; a session is registered by a finished open with a live connection; what a thread drops has left the registry and is dropped by no other |
| `SessionWorkerProofs` | types, `ContractKept` (refinement), `DropIsQuiet`, `NoJobLost` | where each accepted call is relative to the worker's position, and what its caller has been told |
| `SessionHandlesProofs` | types and quotas, `ErrorsLeaveNothing`; for patient clients `OneResult`, `ClosedStaysClean`, `DeliveriesSurvive`; `HandlersAttended` | `Inv`: a handler has one job at the worker at most, and what is left of its plan tells what it has made; `Calm`, see below |
| `ResultCursorProofs` | of `ResultCursor`: types, `RepliesAgree`, `ReaderCalledWhileLive`, `StreamRead` (refinement); of `IpcFraming`: `DecodingExact`; of `InfoReader`: `FramesAlwaysAgree`, `InfoReadsTheStream` (refinement), `InfoRowsAreExact` | every reply was the cursor's answer, the replayable batch is the last produced, and the client's position is within what was produced; what has been given and what waits are together the answer to the batches read |
| `BindUploadProofs` | types, `WholeBindings`, `CancelledStayOut`, `CancellationsReach`, `HandlersServed` | per upload: where its turn is, between client, handler, channel and actor; what the spool holds of what was sent; who has the registry's lock |
| `IrohPoolProofs` | types, `OneConnection`, `OwnSettings`, `FreshRetry`, `LeaseHolds`, `OneInitializer` | a held slot was made for the holder's key; a living slot that has not failed is the entry of its key |
| `ClientDriverProofs` | types, `NothingAfterClose`, `ChildrenFirst`, `StreamsRead` (refinement), `NobodyStranded` | who lives or has a call to make holds the connection; a child without its reference has sent its close; a reader that has ended has had all the thread read |
| `ServerNodeProofs` | `TokensAreRedeemed`, `OptionsFollowPolicy`, `SessionsAreEntitled`, `ExitIsTrue`, `WaitsTold` | the running configuration is a valid one; a session's options and principal are those its open decided on; a token says who made it, where and when; what the drain has awaited ended without error |

The properties are not inductive by themselves.  `QuotaRespected`, for example,
needs that the counters are exact before an admission can be shown to respect it;
`CloseIsLast` needs to know that a thread in the middle of an execution, a binding
or a drop still has its reference, and so what each thread can be making and at
what point of its object's life it can be.

For `SessionHandles` the difficulty is a handler that has given up while the worker
is still at its job.  With patient clients the next handler of the statement may
then be at work, but has not got beyond its first job, which is behind the late one
in the queue (`TurnsInv`).  From that follow, along the plan of `execute`, that its
statement has no result between the second invalidation and the insertion
(`Executing`), that a close has removed what it has passed (`Closing`), and that
whoever invalidates began after what it takes away was delivered (`Seeing`).  The
assumption that clients are patient is needed: `overlapping_executions` shows what
happens without it.  `ErrorsLeaveNothing` and the quotas do without.

For `BindUpload` the invariant follows one turn at a time through the four places
it can be at.  A cancellation reaches its actor because a push keeps the registry's
lock until the actor has answered, so whoever gets the lock finds the channel empty
(`CancelsReach`).

For `ServerNode` the heart is a lemma about text, `OwnersDiffer`: the bytes an owner's
digest is taken of are target, NUL, principal, and they tell owners apart because
`validate_handle` admits no NUL in a target, while a principal may hold one.
`NameFound` is its counterpart for `split_once` in `TargetAuthorizer::allows`.  The
rest follows an open through the places that filter options.

For `InfoReader` and `IpcFraming` the difficulty is data: the scan of a batch, the
concatenation of batches and the loop of `validate_ipc` are recursive functions on
sequences of any length.  The induction rules of the library cannot be used here, so
`Induction` is proved from the least member of a set of numbers (`W!WFMin`), and
`Recursion` from it says that such a function exists; `Backwards` is the same for a
function that looks ahead, as the loop of `validate_ipc` does and the reader that passes
over dictionaries.  From them come a loop of any number of turns (`ValidFacts`) and a
reader that stops at the first message that is no dictionary (`PassesFacts`).  One half
of `DecodingExact`, `DecodedIsOne`, finds in an accepted payload the cuts of the format
between the offsets of the loop (`PassesAre`).  The other, `OneIsDecoded`, goes over any
way to cut a payload into dictionaries and shows that the reader stops at these cuts and
no others (`PassesOnly`).  `FoundStep` says that the runs found so
far, with the run that is open, are the rows so far without the driver's own.

Assumptions are few and hold in the code by construction.  Limits are numbers;
timeouts, channels and quotas that must not be zero are not; a stream has finitely
many batches; the lengths in a payload are integers and may have any value; domains
of principals have no NUL; partitions have a positive size.  TLC evaluates all of
them in the runs.  `StreamsRead` and the theorems of `ServerNodeProofs` range over
all clients, statements, readers, names, options and configurations.

Each proof has one lemma or step per action.  The invariants were checked with TLC
on the instances above first.  Type correctness is among the theorems, with the
capacities and quotas that the modules' `TypeOK` states, and not among the
properties of the runs.

`tlapm` takes a few minutes a module, and about twenty for `ResultCursorProofs`, whose
context is the largest.  It gives up on an obligation that it cannot translate for SMT
within five seconds, whatever time the solver is allowed, and translation is slower
the more of a module has gone before.  Leaves without arithmetic therefore go to Zenon,
and what an action does to the variables of one thread, upload or slot is a step of
its own before an invariant is looked at.

### Who waits for whom

Liveness, and what depends on ENABLED, is beyond the prover and checked by TLC only:
`OpenAnswered`, `ConnectionsReclaimed`, `AbandonedReclaimed`, `CallsAnswered`,
`ThreadReclaimed`, `RequestsAnswered`, `ReadingEnds`, `TurnsAnswered`,
`SpoolsReclaimed`, `OpensReturn`, `DropsFinish`, `SessionClosed` and `ServerStops`.
What could keep something from happening in these programs is mostly a wait for
somebody who is gone, or for oneself, and that is a matter of safety.  Six liveness
properties have such a half, proved for every value of the constants; fairness then
does the rest, and for that TLC's instances stand.

| Liveness | Safety half | Says | Strengthening |
|---|---|---|---|
| `CallsAnswered` | `NoJobLost` | the job of a caller that waits is in the channel or with the worker until it is answered, unless the worker has panicked; so `RecvTimeoutError::Disconnected` means a panic | `Inv`: which calls are ahead of the worker |
| `RequestsAnswered` | `HandlersAttended` | a handler that waits has its reply, or its job is queued or running | `Inv`: one job a handler |
| `TurnsAnswered` | `HandlersServed` | apart from the wait for the statements' lock, an upload's actor does not end under a handler that waits for it, and the registry is locked only for a push an actor is at work on | `ActorInv`: an actor that is registered, being inserted or finishing runs |
| `OpensReturn` | `OneInitializer` | a `OnceCell` that is being initialized has exactly one caller at it | `BusyInv`, and `LinkInv` for there being one at most |
| `DropsFinish` | `NobodyStranded` | the client's mutex, `bind_stream()`, the channel to a reader's thread and `ByteReader::drop` do not wait for each other in a circle | `WaitInv`: for each reader, what its thread, its channel and its reply can be together |
| `ServerStops` | `WaitsTold`, `ExitIsTrue` | `main()` and the runtime wait only for listeners that were started and told to stop, and `main()` for the sessions it drops only once all are told and none is registered; what `main()` returns hides no failure it has seen | `ToldInv`: `main()` from one listener to the next |

The other seven say that something is given back in the end (a connection, a thread, a
spool, a session) or that an open or a reading comes to an end.  No safety half is
stated for them.

## 5. What is not modelled

* Arrow, MessagePack, schemas, and the conversion of options and columns
  (`WireOptionValue`, `batches.rs`): data.  Their failures are a turn that cannot be
  decoded and a response that cannot be built.  How `batch_buffer_bytes` counts the
  buffers of a batch is data too; that its result is held against the limit is modelled.
* TLS set-up, health probes, telemetry, reading TOML, and what the TLS, JWT and Iroh
  libraries verify: I/O, and external.  A credential is accepted or it is not.
* Single settings that `Config::validate()` checks for being zero, blank or out of
  range: one fault among others in a configuration.
* The wrappers around the downstream driver in `backend.rs`: they have no state; the
  calls they make are nondeterministic in the modules that make them.
* The choice of a transport from an address, and building requests from arguments,
  in the client: data conversion.
* A data turn of a bind exchange that is delivered twice: `BindCursor` has no
  sequence number, and whether a transport repeats a request is not visible in the
  source.
* A poisoned mutex, except where `main()` meets it, and a panic of a client thread.
* Messages of errors.  Their statuses, codes and details, which go there and back in
  base64, are modelled in `WireErrors`.
* Validation suites, load tests and deployment scripts.

## 6. What could follow

1. `SessionRegistry` composed with `SessionWorker`: a session detached while its
   worker is busy.  Each is checked by itself now, with the other's part abstracted.
2. A data turn of a bind exchange delivered twice, once the transport's promise about
   it can be read from the source.

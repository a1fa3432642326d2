------------------------------- MODULE ServerNode -------------------------------
(***************************************************************************)
(* The server as its clients meet it over its life: the process            *)
(* (ServerProcess), who may open what (TargetAccess), the options that     *)
(* reach the driver (OptionPolicy), partition tokens (PartitionSigner) and *)
(* the errors clients see (WireErrors).                                    *)
(*                                                                         *)
(* How opens, handlers, leases and the worker interleave is the subject of *)
(* SessionRegistry, SessionWorker and SessionHandles; here a request looks *)
(* its session up in one step and takes effect in another, and a client    *)
(* has no other session until its last one is dropped.                     *)
(***************************************************************************)
EXTENDS ServerProcess, WireErrors, FiniteSets

CONSTANTS
  Workloads,     \* what the clients of a behaviour do; see below
  MaxControl,    \* MAX_CONTROL_BYTES
  ResponseLimits, \* what a response may take beside its schema
  Entry,         \* the size of a Bytes value in the response
  Ttl,           \* lifetime of tokens: the session's ttl
  MaxClock,      \* bound: the clock of the machine
  MaxTokens,     \* bound: no more executions when there are so many tokens
  None           \* no session

VARIABLES
  workload,    \* one of Workloads, for all of the behaviour
  session,     \* the session of a client: the object, not its registration
  registered,  \* clients whose session is in the registry
  busy,        \* clients with a handler that has looked its session up
  locked,      \* clients whose session's worker is in a new_statement() past its deadline
  drops,       \* what main() has to drop, and what handlers and the reaper have to
  tokens,      \* tokens handed out; a client may pass them on
  clock,       \* the machine's clock, which may be set
  last         \* the redemption made by the last step, if it was one

sessionVars == <<session, registered, busy, locked, drops>>
vars == <<sessionVars, tokens, clock, last, processVars, workload>>

\* A workload has:
\*   configs    the configurations its processes may find
\*   login      the clients, with transport and credential
\*   databases  the options an application may give its database
\*   options    and its connection, at the start and later
\*   results    what execute_partitions() of the driver may return
\*   errors     and with what its read_partition() may fail
\*   hangs      whether its new_statement() and its destructors may not return
Clients == DOMAIN workload.login
Login == workload.login

\* The driver manager makes a success of the status Ok, so no error has it.
ASSUME NodeAssumption ==
  /\ \A w \in Workloads :
       /\ \A c \in DOMAIN w.login : w.login[c].transport \in Listeners
       /\ \A c \in DOMAIN w.login, conf \in w.configs :
            Identities(conf, w.login[c]) \subseteq Seq(Letters) \cup {Nobody}
       /\ w.results \subseteq Seq(Descriptors)
       /\ w.errors \subseteq {e \in AdbcErrors : e.status # "Ok"}
       /\ None \notin w.errors \cup {Plain("Ok")}
  /\ MaxControl \in Nat
  /\ ResponseLimits \subseteq 0 .. MaxControl
  /\ Entry \in Nat
  /\ Ttl \in Nat \ {0}
  /\ MaxClock \in Nat
  /\ MaxTokens \in Nat

Droppers == {"main", "others"}

\* A token with who made it, which only the properties look at.
Made(token, c) ==
  [token |-> token, process |-> process, target |-> session[c].target,
   principal |-> session[c].principal, issued |-> clock]

\* The client sees what rpc_error() makes of the server's error.
Seen(e) == RpcError(AdbcRpcError(e))

--------------------------------------------------------------------------------
Init ==
  /\ workload \in Workloads
  /\ \E c \in workload.configs : ProcessInit(c)
  /\ session = [c \in Clients |-> None]
  /\ registered = {}
  /\ busy = {}
  /\ locked = {}
  /\ drops = [t \in Droppers |-> {}]
  /\ tokens = {}
  /\ clock = 0
  /\ last = None

\* A listener that has started takes requests, on old connections to the end.
Reachable(c) == listener[Login[c].transport] \in {"up", "ended", "failed"} /\ phase # "exited"

Closing == phase \in {"dropping", "draining", "returned"}

\* new_connection_with_opts() and its handler: the client's options, request
\* validation, identity, permission, target, policy, driver, registration.
OpenConnection(c) ==
  /\ session[c] = None
  /\ \A t \in Droppers : c \notin drops[t]
  /\ Reachable(c)
  /\ \E database \in workload.databases, connection \in workload.options,
        principal \in Principals(config, Login[c]), name \in DOMAIN config.targets :
       LET target == config.targets[name]
           sent == RemoteOptions(database)
       IN  /\ NamesService(database)
           /\ ValidHandle(name)
           /\ Distinct(sent) /\ Distinct(connection)
           /\ Allows(config, principal, name)
           /\ Mergeable(sent, Policy(target, "database"))
           /\ Mergeable(connection, Policy(target, "connection"))
           /\ session' = [session EXCEPT ![c] =
                [target |-> name, principal |-> principal,
                 policy |-> Policy(target, "connection"),
                 database |-> Merge(sent, target.configured["database"]),
                 connection |-> Merge(connection, target.configured["connection"])]]
  /\ ~Closing
  /\ registered' = registered \cup {c}
  /\ last' = None
  /\ UNCHANGED <<processVars, busy, locked, drops, tokens, clock>>

\* get(): a handler takes hold of the session.
Get(c) ==
  /\ c \in registered \ busy
  /\ Reachable(c)
  /\ busy' = busy \cup {c}
  /\ last' = None
  /\ UNCHANGED <<processVars, session, registered, locked, drops, tokens, clock>>

\* Who has let go of the session of c drops it.
Drops(t, c) == drops' = [drops EXCEPT ![t] = @ \cup {c}]

\* The handler is done, and drops a session that is not registered any more and
\* that nobody else has.
Done(c, object) ==
  /\ busy' = busy \ {c}
  /\ session' = [session EXCEPT ![c] = object]
  /\ IF c \in registered \cup drops["main"] THEN UNCHANGED drops ELSE Drops("others", c)
  /\ UNCHANGED <<processVars, registered, clock>>

\* The deadline of a new_statement() answers its handler; the worker stays in the
\* driver, with the lock of the session's statements.
NewStatementTimesOut(c) ==
  /\ workload.hangs
  /\ c \in busy \ locked
  /\ locked' = locked \cup {c}
  /\ Done(c, session[c])
  /\ last' = None
  /\ UNCHANGED tokens

\* The driver returns to the worker, at any time or never.
NewStatementReturns(c) ==
  /\ c \in locked
  /\ locked' = locked \ {c}
  /\ last' = None
  /\ UNCHANGED <<processVars, session, registered, busy, drops, tokens, clock>>

\* Variant: set_connection_option() asks the driver only.
SetConnectionOptionUnchecked(c) ==
  /\ c \in busy \ locked
  /\ \E options \in workload.options : \E o \in options :
       Done(c, [session[c] EXCEPT !.connection =
                  {p \in session[c].connection : p.key # o.key} \cup {o}])
  /\ last' = None
  /\ UNCHANGED <<locked, tokens>>

\* set_connection_option(): the policy, then the driver.
SetConnectionOption(c) ==
  /\ c \in busy \ locked
  /\ \E options \in workload.options : \E o \in options :
       /\ Permits(session[c].policy, o.key)
       /\ Done(c, [session[c] EXCEPT !.connection =
                     {p \in session[c].connection : p.key # o.key} \cup {o}])
  /\ last' = None
  /\ UNCHANGED <<locked, tokens>>

\* A handler that ends without effect: any other method, or an error.
OtherMethod(c) ==
  /\ c \in busy
  /\ Done(c, session[c])
  /\ last' = None
  /\ UNCHANGED <<locked, tokens>>

\* The room in the response for each token, when those before it are in.
Room(descriptors, limit) ==
  LET room[i \in 1 .. Len(descriptors) + 1] ==
        IF i = 1 THEN limit ELSE room[i - 1] - (Size(descriptors[i - 1]) + Entry)
  IN  room

\* PartitionSigner::new(): a key of its own for every process.
Key == process

\* execute_partitions(): a token for every descriptor, or an error and none.
ExecutePartitions(c) ==
  /\ c \in busy \ locked
  /\ Cardinality(tokens) < MaxTokens
  /\ \E descriptors \in workload.results, limit \in ResponseLimits :
       LET room == Room(descriptors, limit)
           sealed == [i \in DOMAIN descriptors |->
                        Seal(Key, clock, Ttl, session[c].target, session[c].principal,
                             descriptors[i], room[i])]
       IN  /\ \A i \in DOMAIN descriptors : sealed[i].ok /\ room[i + 1] >= 0
           /\ tokens' = tokens \cup {Made(sealed[i], c) : i \in DOMAIN descriptors}
  /\ Done(c, session[c])
  /\ last' = None
  /\ UNCHANGED locked

\* read_partition(): the token, then the driver, which may fail.
ReadPartition(c) ==
  /\ c \in busy
  /\ \E made \in tokens :
       LET opened == Open(Key, clock, session[c].target, session[c].principal, made.token,
                          MaxControl)
       IN  /\ opened => c \notin locked
           /\ \E driver \in IF opened THEN {Plain("Ok")} \cup workload.errors ELSE {None} :
             last' = [made |-> made, process |-> process, target |-> session[c].target,
                      principal |-> session[c].principal, at |-> clock, driver |-> driver,
                      answer |-> IF driver = Plain("Ok") THEN driver
                                 ELSE Seen(IF opened THEN driver ELSE Plain("NotFound"))]
  /\ Done(c, session[c])
  /\ UNCHANGED <<locked, tokens>>

\* close(), or the reaper, which leaves a session that is in use.
Detach(c) ==
  /\ c \in registered
  /\ registered' = registered \ {c}
  /\ IF c \in busy THEN UNCHANGED drops ELSE Drops("others", c)
  /\ last' = None
  /\ UNCHANGED <<processVars, session, busy, locked, tokens, clock>>

\* SystemTime: the clock goes on, or is set.
ClockMoves ==
  /\ clock' \in 0 .. MaxClock
  /\ clock' # clock
  /\ last' = None
  /\ UNCHANGED <<processVars, sessionVars, tokens>>

--------------------------------------------------------------------------------
\* The next session is let go of.  If a handler has it that is all; else
\* Session::drop waits for the lock of its statements and leaves the rest to a
\* cleanup thread, unless that cannot be spawned or is done first, and the driver's
\* destructors run here.
Drop(t) ==
  /\ t = "main" => \A c \in drops[t] : session[c] # None
  /\ \E c \in drops[t] :
       /\ session[c] # None
       /\ IF c \in busy THEN UNCHANGED session
          ELSE c \notin locked /\ session' = [session EXCEPT ![c] = None]
       /\ \/ drops' = [drops EXCEPT ![t] = @ \ {c}]
          \/ workload.hangs /\ session' # session /\ UNCHANGED drops
  /\ last' = None
  /\ UNCHANGED <<processVars, registered, busy, locked, tokens, clock>>

DestructorReturns(t) ==
  /\ \E c \in drops[t] :
       /\ session[c] = None
       /\ drops' = [drops EXCEPT ![t] = @ \ {c}]
  /\ last' = None
  /\ UNCHANGED <<processVars, session, registered, busy, locked, tokens, clock>>

\* A drop that waits: for the lock, or for a destructor.
Kept(t) == \E c \in drops[t] : session[c] = None \/ c \in locked \ busy

\* close_all() takes every session out of the registry.
Shutdown ==
  /\ CloseAll
  /\ IF phase' = "dropping"
       THEN registered' = {} /\ drops' = [drops EXCEPT !["main"] = registered]
       ELSE UNCHANGED <<registered, drops>>
  /\ last' = None
  /\ UNCHANGED <<session, busy, locked, tokens, clock>>

\* It returns when it has dropped them.
ShutdownReturns ==
  /\ CloseAllReturns
  /\ drops["main"] = {}
  /\ last' = None
  /\ UNCHANGED <<sessionVars, tokens, clock>>

\* main() has returned without close_all(), and the manager may go, with its sessions.
DropManager ==
  /\ phase = "returned"
  /\ registered # {}
  /\ registered' = {}
  /\ drops' = [drops EXCEPT !["main"] = @ \cup registered]
  /\ last' = None
  /\ UNCHANGED <<processVars, session, busy, locked, tokens, clock>>

\* The runtime goes when nothing runs on its threads, or the process is killed.
\* Nothing of the process outlives it but the tokens its clients have.
Dies ==
  /\ (Exit /\ busy = {} /\ \A t \in Droppers : drops[t] = {}) \/ Killed
  /\ session' = [c \in Clients |-> None]
  /\ registered' = {}
  /\ busy' = {}
  /\ locked' = {}
  /\ drops' = [t \in Droppers |-> {}]
  /\ last' = None
  /\ UNCHANGED <<tokens, clock>>

ProcessStep ==
  /\ MainStep \/ Signal
     \/ (\E l \in Listeners : ListenerEnds(l))
     \/ (\E c \in workload.configs : Restart(c))
  /\ last' = None
  /\ UNCHANGED <<sessionVars, tokens, clock>>

ClientStep(c) ==
  \/ OpenConnection(c)
  \/ Get(c)
  \/ SetConnectionOption(c)
  \/ ExecutePartitions(c)
  \/ ReadPartition(c)
  \/ OtherMethod(c)
  \/ NewStatementTimesOut(c)
  \/ NewStatementReturns(c)
  \/ Detach(c)

Next ==
  /\ \/ ProcessStep
     \/ Shutdown
     \/ ShutdownReturns
     \/ DropManager
     \/ \E t \in Droppers : Drop(t) \/ DestructorReturns(t)
     \/ Dies
     \/ ClockMoves
     \/ \E c \in Clients : ClientStep(c)
  /\ UNCHANGED workload

Spec == Init /\ [][Next]_vars

Rest == UNCHANGED <<workload, sessionVars, tokens, clock>>

\* What the thread of main() does next.
MainThread ==
  \/ MainStep /\ last' = None /\ Rest
  \/ (Shutdown \/ ShutdownReturns \/ (~Kept("main") /\ Drop("main"))) /\ UNCHANGED workload

\* main() goes on, the deadline of the drain passes, serve_tcp() returns once its
\* flag is set, and sessions are dropped as long as nothing keeps who drops them.
\* Nothing is assumed of clients, of the other listeners, or of the driver: a
\* handler, a new_statement() and a destructor may each never return.
FairSpec ==
  /\ Spec
  /\ WF_vars(MainThread)
  /\ WF_vars(~Kept("others") /\ Drop("others") /\ UNCHANGED workload)
  /\ SF_vars(Exit /\ Dies /\ UNCHANGED workload)
  /\ WF_vars("tcp" \in told /\ ListenerEnds("tcp") /\ last' = None /\ Rest)

--------------------------------------------------------------------------------
Ascii(e) == \A i \in DOMAIN e.sqlstate : e.sqlstate[i] < 128

\* docs/typed-protocol.md: "Tokens can outlive the issuing connection within their
\* configured lifetime".  The driver is given the descriptor in a token exactly if
\* this process made it, for the same target and the same principal, less than its
\* lifetime ago by the clock; else the client is told NOT_FOUND, whatever the cause.
\* An error of the driver, whose status is any but Ok, reaches the client with its
\* status, codes and details, or as INVALID_DATA if its SQLSTATE is none.
TokensRedeemed ==
  last # None =>
    /\ last.driver # None <=>
         /\ last.made.process = last.process
         /\ last.made.target = last.target
         /\ last.made.principal = last.principal
         /\ last.at < last.made.issued + Ttl
    /\ last.answer = IF last.driver = None THEN Plain("NotFound")
                     ELSE IF Ascii(last.driver) THEN last.driver
                     ELSE Plain("InvalidData")

\* What the operator configures for a target is what its driver has, for as long as
\* the session lives; whatever else it has is open to clients by the policy and has
\* one value.  A database has it from an application, which does not mean it for the
\* Grainlift driver and does not name the service by it.
OptionsByPolicy ==
  \A c \in Clients : session[c] # None =>
    LET target == config.targets[session[c].target]
        more(kind) == session[c][kind] \ target.configured[kind]
    IN  /\ \A kind \in Kinds :
             /\ target.configured[kind] \subseteq session[c][kind]
             /\ Distinct(session[c][kind])
             /\ \A o \in more(kind) : target.allow_all[kind] \/ o.key \in target.allowed[kind]
        /\ \E given \in workload.databases : \A o \in more("database") :
             o \in given /\ o.key \notin OwnKeys \cup {ServiceKey(given)}

\* A session is that of a client whom its transport identifies, with authentication
\* if the configuration asks for it, on a target the client's name, or else its
\* principal, is listed for if anyone is listed.
SessionsEntitled ==
  \A c \in Clients : session[c] # None =>
    \E name \in Identities(config, Login[c]) :
      LET known == IF name = Nobody THEN Anonymous ELSE name
          entry == IF known \in DOMAIN config.permissions THEN known ELSE session[c].principal
      IN  /\ config.require_auth => name # Nobody
          /\ DOMAIN config.permissions # {} =>
               /\ entry \in DOMAIN config.permissions
               /\ {session[c].target, AnyTarget} \cap config.permissions[entry] # {}

\* What main() returns is true: the process ends with success only when a signal
\* stopped it and no listener whose end it has seen had failed.
CleanExit ==
  exit = "ok" =>
    /\ chosen = "signal"
    /\ \A l \in Configured : listener[l] = "failed" => \E i \in DOMAIN left : left[i] = l

Stopping ==
  \/ phase \in {"joining", "closing", "dropping", "draining", "returned"}
  \/ phase = "serving" /\ (signalled \/ \E l \in Listeners : Finished(l))

\* docs/security.md: "Graceful SIGTERM/Ctrl-C shutdown detaches and cancels all
\* sessions, then drains listeners for at most `server.shutdown_grace_seconds`".
\* A server that is signalled, loses a listener or fails to start one does end,
\* although a listener may never drain, and does not report a success it did not have.
\* It does not if the driver never returns: close_all() may wait for ever for the lock
\* a new_statement() has, or for a destructor, and the grace period does not begin;
\* and the runtime waits for a handler, or for who drops a session, on its threads.
ServerStops ==
  \/ Stopping ~> (phase = "exited" /\ CleanExit)
  \/ <>[](phase = "dropping" /\ Kept("main"))
  \/ <>[](phase = "returned" /\ (busy # {} \/ \E t \in Droppers : Kept(t)))

================================================================================

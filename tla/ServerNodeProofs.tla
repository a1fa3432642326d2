---------------------------- MODULE ServerNodeProofs ----------------------------
(***************************************************************************)
(* Proofs about ServerNode for any configurations, clients, options,       *)
(* partitions, errors and limits.                                          *)
(***************************************************************************)
EXTENDS ServerNode, TLAPS

--------------------------------------------------------------------------------
(* Names, principals and owners.                                            *)

\* Text d before a NUL, and n after it.
IsJoined(p, d, n) ==
  /\ p \in Seq(Letters)
  /\ Len(p) = Len(d) + 1 + Len(n)
  /\ \A i \in 1 .. Len(d) : p[i] = d[i] /\ p[i] # NUL
  /\ p[Len(d) + 1] = NUL
  /\ \A i \in 1 .. Len(n) : p[Len(d) + 1 + i] = n[i]

\* Text before the first NUL and what follows it, as principal() and owner() put
\* them together.
LEMMA Joined ==
  ASSUME NEW d \in Names, NEW n \in Seq(Letters)
  PROVE  IsJoined(d \o <<NUL>> \o n, d, n)
<1> DEFINE p == d \o <<NUL>> \o n
<1> SUFFICES IsJoined(p, d, n)
  BY Zenon
<1>0. NUL \in Letters
  BY SignerAssumption, Zenon
<1>1. d \in Seq(Letters) /\ Len(d) \in Nat /\ Len(n) \in Nat
  BY DEF Names
<1>2. \A i \in 1 .. Len(d) : d[i] # NUL
  BY DEF Names
<1> DEFINE q == d \o <<NUL>>
<1>3. q \in Seq(Letters) /\ Len(q) = Len(d) + 1
  BY <1>0, <1>1
<1>4. \A i \in 1 .. Len(d) : q[i] = d[i]
  BY <1>1
<1>5. q[Len(d) + 1] = NUL
  BY <1>1
<1> HIDE DEF q
<1>6. p = q \o n
  BY Zenon DEF q
<1> HIDE DEF p
<1>7. p \in Seq(Letters)
  BY <1>1, <1>3, <1>6
<1>10. Len(p) = Len(d) + 1 + Len(n)
  <2>1. Len(q \o n) = Len(q) + Len(n)
    BY <1>3
  <2> QED
    BY <1>1, <1>3, <1>6, <2>1, Zenon
<1>8. \A i \in 1 .. Len(d) + 1 : p[i] = q[i]
  BY <1>1, <1>3, <1>6
<1>9. \A i \in 1 .. Len(n) : p[Len(d) + 1 + i] = n[i]
  BY <1>1, <1>3, <1>6, SMTT(30)
<1>11. \A i \in 1 .. Len(d) : p[i] = d[i] /\ p[i] # NUL
  BY <1>1, <1>2, <1>4, <1>8
<1>12. p[Len(d) + 1] = NUL
  BY <1>1, <1>5, <1>8
<1> QED
  BY <1>7, <1>9, <1>10, <1>11, <1>12, Zenon DEF IsJoined

\* split_once('\0') of TargetAuthorizer::allows() finds the name principal() put in,
\* whatever the name.
LEMMA NameFound ==
  ASSUME NEW d \in Names, NEW n \in Seq(Letters)
  PROVE  NameIn(Principal(d, n)) = n
<1> DEFINE p == d \o <<NUL>> \o n
           nul == CHOOSE i \in DOMAIN p : p[i] = NUL /\ \A j \in 1 .. i - 1 : p[j] # NUL
<1>1. IsJoined(p, d, n)
  BY Joined, Zenon
<1>2. Len(d) \in Nat /\ Len(n) \in Nat
  BY DEF Names
<1>3. NameIn(Principal(d, n)) = SubSeq(p, nul + 1, Len(p))
  BY Zenon DEF NameIn, Principal
<1> HIDE DEF p
<1> USE DEF IsJoined
<1>4. \A i \in DOMAIN p : p[i] = NUL /\ (\A j \in 1 .. i - 1 : p[j] # NUL) <=> i = Len(d) + 1
  <2>1. DOMAIN p = 1 .. Len(d) + 1 + Len(n)
    BY <1>1, <1>2
  <2> QED
    BY <1>1, <1>2, <2>1
<1>5. Len(d) + 1 \in DOMAIN p
  BY <1>1, <1>2
<1>6. nul = Len(d) + 1
  BY <1>4, <1>5, Zenon
<1> HIDE DEF nul
<1>7. SubSeq(p, Len(d) + 2, Len(p)) = n
  BY <1>1, <1>2
<1> QED
  BY <1>2, <1>3, <1>6, <1>7

\* The digest of owner() is taken of different bytes for different owners, because a
\* request cannot name a target with a NUL.
LEMMA OwnersDiffer ==
  ASSUME NEW t1 \in Names, NEW t2 \in Names,
         NEW p1 \in Seq(Letters), NEW p2 \in Seq(Letters)
  PROVE  Owner(t1, p1) = Owner(t2, p2) <=> t1 = t2 /\ p1 = p2
<1>1. Owner(t1, p1) = Principal(t1, p1) /\ Owner(t2, p2) = Principal(t2, p2)
  BY Zenon DEF Owner, Principal
<1> SUFFICES ASSUME Owner(t1, p1) = Owner(t2, p2)
             PROVE  t1 = t2 /\ p1 = p2
  BY Zenon
<1>2. p1 = p2
  BY <1>1, NameFound, Zenon
<1> DEFINE o == Owner(t1, p1)
<1>3. IsJoined(o, t1, p1)
  BY Joined, Zenon DEF Owner
<1>4. IsJoined(o, t2, p2)
  BY Joined, Zenon DEF Owner
<1> HIDE DEF o
<1> USE DEF IsJoined
<1>6. Len(t1) \in Nat /\ Len(t2) \in Nat /\ Len(p1) \in Nat
  BY DEF Names
<1>7. Len(t1) = Len(t2)
  BY <1>2, <1>3, <1>4, <1>6
<1>8. \A i \in 1 .. Len(t1) : t1[i] = t2[i]
  BY <1>3, <1>4, <1>7, Zenon
<1>9. t1 = t2
  BY <1>7, <1>8, SMTT(30) DEF Names
<1> QED
  BY <1>2, <1>9, Zenon

--------------------------------------------------------------------------------
(* Errors.                                                                  *)

\* status_from_name() undoes status_name(), and "unknown" is the only name of Unknown.
LEMMA StatusesReturn ==
  ASSUME NEW s \in Statuses
  PROVE  /\ StatusFromName(StatusName[s]) = s
         /\ s = "Unknown" => StatusName[s] = "unknown"
<1>1. Statuses = {"Ok", "Unknown", "NotImplemented", "NotFound", "AlreadyExists",
                  "InvalidArguments", "InvalidState", "InvalidData", "Integrity", "Internal",
                  "IO", "Cancelled", "Timeout", "Unauthenticated", "Unauthorized"}
  BY Zenon DEF Statuses, StatusName
<1> QED
  BY <1>1 DEF StatusFromName, StatusName, NamedStatus

\* What the client makes of an error of the driver: the error, if its SQLSTATE is
\* ASCII, and one of its own if not.
LEMMA ErrorsArrive ==
  ASSUME NEW e \in AdbcErrors
  PROVE  Seen(e) = IF Ascii(e) THEN e ELSE Plain("InvalidData")
<1> DEFINE w == ToWire(e)
<1>1. /\ e.status \in Statuses /\ e.sqlstate \in [1 .. 5 -> 0 .. 255]
      /\ e.details \in Seq([key : STRING, value : Bytes])
      /\ e = [status |-> e.status, vendor_code |-> e.vendor_code, sqlstate |-> e.sqlstate,
              details |-> e.details]
  BY Zenon DEF AdbcErrors
<1>2. Seen(e) = IntoAdbc(w)
  BY Zenon DEF Seen, RpcError, AdbcRpcError
<1>3. /\ w.status = StatusName[e.status] /\ w.vendor_code = e.vendor_code
      /\ w.sqlstate = [i \in 1 .. 5 |-> AsI8(e.sqlstate[i])]
      /\ w.details = [i \in DOMAIN e.details |->
                        [key |-> e.details[i].key, value |-> Encode64[e.details[i].value]]]
  BY <1>1, Zenon DEF ToWire
<1> HIDE DEF w
<1>4. \A i \in DOMAIN e.details : e.details[i] \in [key : STRING, value : Bytes]
  <2>1. ASSUME NEW S, NEW q \in Seq(S)
        PROVE  \A i \in DOMAIN q : q[i] \in S
    OBVIOUS
  <2> QED
    BY <1>1, <2>1, Zenon
<1>5. /\ DOMAIN w.details = DOMAIN e.details
      /\ \A i \in DOMAIN e.details : w.details[i].key = e.details[i].key
      /\ \A i \in DOMAIN e.details : w.details[i].value = Encode64[e.details[i].value]
  BY <1>3
<1>6. \A i \in DOMAIN e.details : Decode64[w.details[i].value] = e.details[i].value
  BY <1>4, <1>5, Base64Assumption, Zenon
<1>7. \A i \in DOMAIN w.details : Decode64[w.details[i].value] # Malformed
  BY <1>4, <1>5, <1>6, Base64Assumption, SMTT(30)
<1>8. [i \in DOMAIN w.details |->
         [key |-> w.details[i].key, value |-> Decode64[w.details[i].value]]]
        = e.details
  <2>1. \A i \in DOMAIN e.details :
          [key |-> w.details[i].key, value |-> Decode64[w.details[i].value]] = e.details[i]
    BY <1>4, <1>5, <1>6, Zenon
  <2> DEFINE d == [i \in DOMAIN w.details |->
                     [key |-> w.details[i].key, value |-> Decode64[w.details[i].value]]]
             q == e.details
  <2>2. d = [i \in DOMAIN d |-> d[i]] /\ DOMAIN d = DOMAIN q
    BY <1>5, Zenon
  <2>3. \A i \in DOMAIN d : d[i] = q[i]
    BY <1>5, <2>1, Zenon
  <2>4. q = [i \in DOMAIN q |-> q[i]]
    BY <1>1
  <2> HIDE DEF d, q
  <2>5. d = q
    BY <2>2, <2>3, <2>4, Zenon
  <2> QED
    BY <2>5, Zenon DEF d, q
<1>9. StatusFromName(w.status) = e.status /\ (e.status = "Unknown" => w.status = "unknown")
  BY <1>1, <1>3, StatusesReturn, Zenon
<1>10. Len(w.sqlstate) = 5 /\ DOMAIN w.sqlstate = DOMAIN e.sqlstate
  BY <1>1, <1>3
<1>11. \A i \in DOMAIN e.sqlstate :
         /\ w.sqlstate[i] >= 0 <=> e.sqlstate[i] < 128
         /\ e.sqlstate[i] < 128 => w.sqlstate[i] = e.sqlstate[i]
  <2>1. \A b \in 0 .. 255 : /\ AsI8(b) >= 0 <=> b < 128
                            /\ b < 128 => AsI8(b) = b
    BY DEF AsI8
  <2>2. \A i \in DOMAIN e.sqlstate : /\ e.sqlstate[i] \in 0 .. 255
                                     /\ w.sqlstate[i] = AsI8(e.sqlstate[i])
    BY <1>1, <1>3, ZenonT(30)
  <2> QED
    BY <2>1, <2>2, ZenonT(30)
<1>12. WellFormed(w) <=> Ascii(e)
  <2>1. Ascii(e) <=> \A i \in DOMAIN w.sqlstate : w.sqlstate[i] >= 0
    BY <1>10, <1>11, Zenon DEF Ascii
  <2> QED
    BY <1>7, <1>9, <1>10, <2>1, Zenon DEF WellFormed
<1>13. Ascii(e) => w.sqlstate = e.sqlstate
  <2>1. Ascii(e) => \A i \in DOMAIN e.sqlstate : w.sqlstate[i] = e.sqlstate[i]
    BY <1>11, Zenon DEF Ascii
  <2>2. w.sqlstate = [i \in DOMAIN e.sqlstate |-> w.sqlstate[i]]
    BY <1>1, <1>3, Zenon
  <2>3. e.sqlstate = [i \in DOMAIN e.sqlstate |-> e.sqlstate[i]]
    BY <1>1, Zenon
  <2>4. ASSUME NEW f, NEW g, NEW S, f = [i \in S |-> f[i]], g = [i \in S |-> g[i]],
               \A i \in S : f[i] = g[i]
        PROVE  f = g
    BY <2>4, Zenon
  <2> QED
    BY <2>1, <2>2, <2>3, <2>4, Zenon
<1>14. CASE Ascii(e)
  <2>1. IntoAdbc(w) = [status |-> e.status, vendor_code |-> e.vendor_code,
                       sqlstate |-> e.sqlstate, details |-> e.details]
    BY <1>3, <1>8, <1>9, <1>12, <1>13, <1>14, Zenon DEF IntoAdbc
  <2> QED
    BY <1>1, <1>2, <1>14, <2>1, Zenon
<1>15. CASE ~Ascii(e)
  BY <1>2, <1>12, <1>15, Zenon DEF IntoAdbc
<1> QED
  BY <1>14, <1>15, Zenon

--------------------------------------------------------------------------------
(* Options.                                                                 *)

\* What the driver has, of either kind, is the operator's and what clients may set.
HasOptions(target, kind, options) ==
  /\ target.configured[kind] \subseteq options
  /\ Distinct(options)
  /\ \A o \in options \ target.configured[kind] : Permits(Policy(target, kind), o.key)

\* What a database has beside the operator's options is some application's, and
\* neither for the Grainlift driver nor the name of the service.
FromApplication(target, databases, options) ==
  \E given \in databases : \A o \in options \ target.configured["database"] :
    o \in given /\ o.key \notin OwnKeys \cup {ServiceKey(given)}

\* merge_options() gives the driver such options.
LEMMA MergedOptions ==
  ASSUME NEW target, ValidTarget(target), NEW kind \in Kinds, NEW client,
         Distinct(client), Mergeable(client, Policy(target, kind))
  PROVE  HasOptions(target, kind, Merge(client, target.configured[kind]))
<1> DEFINE own == target.configured[kind]
           merged == Merge(client, own)
<1>1. Distinct(own)
  BY Zenon DEF ValidTarget
<1>2. own \subseteq merged /\ \A o \in merged \ own : o \in client /\ o.key \notin Keys(own)
  BY Zenon DEF Merge
<1>3. \A o \in own : o.key \in Keys(own)
  BY Zenon DEF Keys
<1>4. Distinct(merged)
  BY <1>1, <1>2, <1>3, Zenon DEF Distinct
<1> QED
  BY <1>2, <1>4, Zenon DEF HasOptions, Mergeable

\* set_connection_option() keeps them so.
LEMMA SetOptions ==
  ASSUME NEW target, NEW kind, NEW options, HasOptions(target, kind, options),
         NEW o, Permits(Policy(target, kind), o.key)
  PROVE  HasOptions(target, kind, {p \in options : p.key # o.key} \cup {o})
<1> DEFINE own == target.configured[kind]
           set == {p \in options : p.key # o.key} \cup {o}
<1>1. o.key \notin Keys(own)
  BY Zenon DEF Permits, Policy
<1>2. \A p \in own : p.key # o.key
  BY <1>1, Zenon DEF Keys
<1>3. own \subseteq set
  BY <1>2, Zenon DEF HasOptions
<1>4. Distinct(set)
  BY Zenon DEF HasOptions, Distinct
<1>5. \A p \in set \ own : Permits(Policy(target, kind), p.key)
  BY Zenon DEF HasOptions
<1> QED
  BY <1>3, <1>4, <1>5, Zenon DEF HasOptions

\* remote_options() sends neither an option of the Grainlift driver nor the one that
\* names the service.
LEMMA SentOptions ==
  ASSUME NEW given, NEW o \in RemoteOptions(given)
  PROVE  o \in given /\ o.key \notin OwnKeys \cup {ServiceKey(given)}
BY OptionsAssumption, Zenon DEF RemoteOptions, ServiceKey

--------------------------------------------------------------------------------
(* The process: a listener is up only under a configuration that is valid.  *)

AllOff == \A l \in Listeners : listener[l] = "off"

ProcInv ==
  /\ workload \in Workloads
  /\ config \in workload.configs
  /\ listener \in [Listeners -> {"off", "bound", "up", "ended", "failed", "aborted"}]
  /\ phase = "config" => AllOff
  /\ phase \in {"http", "tcp", "iroh"} => ValidConfig(config)
  /\ AllOff \/ ValidConfig(config)

\* Steps of main(), of a listener, and the end of the process.
LEMMA ProcKept ==
  ASSUME ProcInv, UNCHANGED workload,
         \/ MainStep \/ Signal \/ (\E l \in Listeners : ListenerEnds(l))
         \/ CloseAll \/ CloseAllReturns \/ Exit \/ Killed
  PROVE  ProcInv' /\ config' = config /\ (phase = "exited" => phase' = "exited")
<1> USE DEF ProcInv, AllOff
<1>0. "http" \in Listeners /\ "tcp" \in Listeners /\ "iroh" \in Listeners
  BY Zenon DEF Listeners
<1>1. CASE LoadConfig
  BY <1>1, Zenon DEF LoadConfig, Return
<1>2. CASE BindHttp
  BY <1>0, <1>2, Zenon DEF BindHttp, Return
<1>3. CASE StartTcp
  BY <1>0, <1>3, Zenon DEF StartTcp, Return
<1>4. CASE StartIroh
  BY <1>0, <1>4, Zenon DEF StartIroh
<1>5. CASE IrohFails
  BY <1>5, Zenon DEF IrohFails, Return
<1>6. CASE JoinTcp
  BY <1>6, Zenon DEF JoinTcp, Return
<1>7. CASE Select
  BY <1>7, Zenon DEF Select
<1>8. CASE Await
  BY <1>8, Zenon DEF Await, Return
<1>9. CASE Drained
  BY <1>9, Zenon DEF Drained, Finish, Return
<1>10. CASE GraceExpires
  BY <1>10, Zenon DEF GraceExpires, Finish, Return
<1>11. CASE Signal
  BY <1>11, Zenon DEF Signal
<1>12. ASSUME NEW l \in Listeners, ListenerEnds(l)
       PROVE  ProcInv' /\ config' = config /\ (phase = "exited" => phase' = "exited")
  BY <1>12, Zenon DEF ListenerEnds
<1>13. CASE CloseAll
  BY <1>13, Zenon DEF CloseAll, Return
<1>14. CASE Exit
  BY <1>14, Zenon DEF Exit
<1>15. CASE Killed
  BY <1>15, Zenon DEF Killed
<1>16. CASE CloseAllReturns
  BY <1>16, Zenon DEF CloseAllReturns
<1> QED
  BY <1>1, <1>2, <1>3, <1>4, <1>5, <1>6, <1>7, <1>8, <1>9, <1>10, <1>11, <1>12, <1>13, <1>14,
     <1>15, <1>16, Zenon DEF MainStep

\* A restart finds the configuration anew.
LEMMA ProcRestarts ==
  ASSUME ProcInv, UNCHANGED workload, NEW c \in workload.configs, Restart(c)
  PROVE  ProcInv'
BY Zenon DEF Restart, StartWith, ProcInv, AllOff

--------------------------------------------------------------------------------
(* Sessions: each is as SessionManager::open() made it under the            *)
(* configuration of this process, but for what policies let clients set.    *)

Opened(conf, login, databases, s) ==
  LET target == conf.targets[s.target]
  IN  /\ s = [target |-> s.target, principal |-> s.principal, policy |-> s.policy,
              database |-> s.database, connection |-> s.connection]
      /\ s.target \in DOMAIN conf.targets /\ ValidHandle(s.target)
      /\ s.principal \in Principals(conf, login)
      /\ Allows(conf, s.principal, s.target)
      /\ s.policy = Policy(target, "connection")
      /\ HasOptions(target, "database", s.database)
      /\ FromApplication(target, databases, s.database)
      /\ HasOptions(target, "connection", s.connection)

\* A session that is registered, or that a handler or a client still has.
Live(c) == session[c] # None \/ c \in registered \/ c \in busy

SessionInv ==
  /\ session = [c \in Clients |-> session[c]]
  /\ registered \subseteq Clients /\ busy \subseteq Clients
  /\ phase = "exited" => \A c \in Clients : ~Live(c)
  /\ \A c \in Clients : Live(c) => Opened(config, Login[c], workload.databases, session[c])

\* new_connection_with_opts() and its handler.
LEMMA OpenedByManager ==
  ASSUME ProcInv, NEW c \in Clients, OpenConnection(c), session = [d \in Clients |-> session[d]]
  PROVE  Opened(config, Login[c], workload.databases, session'[c])
<1>1. PICK database \in workload.databases, connection \in workload.options,
           principal \in Principals(config, Login[c]), name \in DOMAIN config.targets :
        LET target == config.targets[name]
            sent == RemoteOptions(database)
        IN  /\ NamesService(database)
            /\ ValidHandle(name)
            /\ Distinct(sent) /\ Distinct(connection)
            /\ Allows(config, principal, name)
            /\ Mergeable(sent, Policy(target, "database"))
            /\ Mergeable(connection, Policy(target, "connection"))
            /\ session' = [session EXCEPT ![c] =
                 [target |-> name, principal |-> principal,
                  policy |-> Policy(target, "connection"),
                  database |-> Merge(sent, target.configured["database"]),
                  connection |-> Merge(connection, target.configured["connection"])]]
  BY Zenon DEF OpenConnection
<1> DEFINE target == config.targets[name]
           merged == Merge(RemoteOptions(database), target.configured["database"])
           more == Merge(connection, target.configured["connection"])
           s == session'[c]
<1>2. s = [target |-> name, principal |-> principal, policy |-> Policy(target, "connection"),
           database |-> merged, connection |-> more]
  BY <1>1, Zenon
<1>3. ValidConfig(config)
  <2>1. Login[c].transport \in Listeners
    BY NodeAssumption, Zenon DEF ProcInv, Clients, Login
  <2>2. listener[Login[c].transport] # "off"
    BY Zenon DEF OpenConnection, Reachable
  <2> QED
    BY <2>1, <2>2, Zenon DEF ProcInv, AllOff
<1>4. ValidTarget(target)
  BY <1>3, Zenon DEF ValidConfig
<1>5. HasOptions(target, "database", merged)
  BY <1>1, <1>4, MergedOptions, Zenon DEF Kinds
<1>6. HasOptions(target, "connection", more)
  BY <1>1, <1>4, MergedOptions, Zenon DEF Kinds
<1>7. FromApplication(target, workload.databases, merged)
  <2>1. \A o \in merged \ target.configured["database"] : o \in RemoteOptions(database)
    BY Zenon DEF Merge
  <2> QED
    BY <2>1, SentOptions, Zenon DEF FromApplication
<1> HIDE DEF s, merged, more
<1>8. /\ s.target = name /\ s.principal = principal /\ s.policy = Policy(target, "connection")
      /\ s.database = merged /\ s.connection = more
  BY <1>2, Zenon
<1>9. s = [target |-> s.target, principal |-> s.principal, policy |-> s.policy,
           database |-> s.database, connection |-> s.connection]
  BY <1>2, <1>8, Zenon
<1>10. Opened(config, Login[c], workload.databases, s)
  BY <1>1, <1>5, <1>6, <1>7, <1>8, <1>9, Zenon DEF Opened
<1> QED
  BY <1>10, Zenon DEF s

\* set_connection_option(), which the policy the session was opened with permits.
LEMMA OpenedWithOption ==
  ASSUME NEW conf, NEW login, NEW databases, NEW s, Opened(conf, login, databases, s),
         NEW o, Permits(s.policy, o.key)
  PROVE  Opened(conf, login, databases,
                [s EXCEPT !.connection = {p \in s.connection : p.key # o.key} \cup {o}])
<1> DEFINE more == {p \in s.connection : p.key # o.key} \cup {o}
           t == [s EXCEPT !.connection = more]
<1>1. HasOptions(conf.targets[s.target], "connection", more)
  BY SetOptions, Zenon DEF Opened
<1>2. s = [target |-> s.target, principal |-> s.principal, policy |-> s.policy,
           database |-> s.database, connection |-> s.connection]
  BY Zenon DEF Opened
<1> HIDE DEF more
<1>3. t = [target |-> s.target, principal |-> s.principal, policy |-> s.policy,
           database |-> s.database, connection |-> more]
  BY <1>2
<1> HIDE DEF t
<1>4. /\ t.target = s.target /\ t.principal = s.principal /\ t.policy = s.policy
      /\ t.database = s.database /\ t.connection = more
  BY <1>3, Zenon
<1>5. t = [target |-> t.target, principal |-> t.principal, policy |-> t.policy,
           database |-> t.database, connection |-> t.connection]
  BY <1>3, <1>4, Zenon
<1>6. Opened(conf, login, databases, t)
  BY <1>1, <1>4, <1>5, Zenon DEF Opened
<1> QED
  BY <1>6, Zenon DEF t, more

\* A step on the session of one client, which leaves that as it should be.
LEMMA OneSession ==
  ASSUME SessionInv, UNCHANGED <<workload, config, phase>>, phase # "exited",
         NEW c \in Clients, NEW x, session' = [session EXCEPT ![c] = x],
         registered' \subseteq Clients, busy' \subseteq Clients,
         \A d \in Clients \ {c} : (d \in registered' => d \in registered)
                                /\ (d \in busy' => d \in busy),
         x # None \/ c \in registered' \/ c \in busy'
           => Opened(config, Login[c], workload.databases, x)
  PROVE  SessionInv'
<1>1. Clients' = Clients /\ Login' = Login /\ workload.databases' = workload.databases
  BY Zenon DEF Clients, Login
<1>2. /\ session' = [d \in Clients |-> session'[d]]
      /\ session'[c] = x
      /\ \A d \in Clients : d # c => session'[d] = session[d]
  BY Zenon DEF SessionInv
<1>3. ASSUME NEW d \in Clients, Live(d)'
      PROVE  Opened(config, Login[d], workload.databases, session'[d])
  <2>1. CASE d = c
    BY <1>2, <1>3, <2>1, Zenon DEF Live
  <2>2. CASE d # c
    BY <1>2, <1>3, <2>2, Zenon DEF Live, SessionInv
  <2> QED
    BY <2>1, <2>2, Zenon
<1>4. \A d \in Clients : Live(d)' => Opened(config', Login'[d], workload'.databases, session'[d])
  BY <1>1, <1>3, Zenon
<1> QED
  BY <1>1, <1>2, <1>4, Zenon DEF SessionInv

\* A handler that is done leaves its session as it should be.
LEMMA DoneInv ==
  ASSUME SessionInv, UNCHANGED workload, NEW c \in Clients, c \in busy, NEW x, Done(c, x),
         Opened(config, Login[c], workload.databases, x)
  PROVE  SessionInv'
<1>1. phase # "exited"
  BY Zenon DEF SessionInv, Live
<1>2. /\ session' = [session EXCEPT ![c] = x]
      /\ registered' = registered /\ busy' = busy \ {c}
      /\ UNCHANGED <<workload, config, phase>>
  BY Zenon DEF Done, processVars
<1>4. /\ registered' \subseteq Clients /\ busy' \subseteq Clients
      /\ \A d \in Clients \ {c} : (d \in registered' => d \in registered)
                                /\ (d \in busy' => d \in busy)
  BY <1>2, Zenon DEF SessionInv
<1> QED
  BY <1>1, <1>2, <1>4, OneSession, Zenon

\* The sessions are left alone, if not in the registry, and so is the configuration
\* they were opened under.
LEMMA SessionsLeft ==
  ASSUME SessionInv, UNCHANGED <<workload, config, session, busy>>,
         registered' \subseteq registered, phase' = "exited" => phase = "exited"
  PROVE  SessionInv'
<1>1. Clients' = Clients /\ Login' = Login
  BY Zenon DEF Clients, Login
<1>2. \A c \in Clients : Live(c)' => Live(c)
  BY Zenon DEF Live
<1>3. registered' \subseteq Clients
  BY Zenon DEF SessionInv
<1> QED
  BY <1>1, <1>2, <1>3, Zenon DEF SessionInv

\* The steps of a client.
LEMMA ClientKeepsSessions ==
  ASSUME ProcInv, SessionInv, UNCHANGED workload, NEW c \in Clients, ClientStep(c)
  PROVE  SessionInv'
<1> DEFINE opened == Opened(config, Login[c], workload.databases, session[c])
<1>1. c \in busy \/ c \in registered => opened
  BY Zenon DEF SessionInv, Live
<1>2. CASE OpenConnection(c)
  <2>1. PICK x : session' = [session EXCEPT ![c] = x]
    BY <1>2, ZenonT(30) DEF OpenConnection
  <2>2. session'[c] = x
    BY <2>1, Zenon DEF SessionInv
  <2>3. Opened(config, Login[c], workload.databases, x)
    BY <1>2, <2>2, OpenedByManager, Zenon DEF SessionInv
  <2>4. /\ registered' = registered \cup {c} /\ UNCHANGED <<workload, config, phase, busy>>
        /\ phase # "exited"
    BY <1>2, Zenon DEF OpenConnection, Reachable, processVars
  <2>5. /\ registered' \subseteq Clients /\ busy' \subseteq Clients
        /\ \A d \in Clients \ {c} : (d \in registered' => d \in registered)
                                  /\ (d \in busy' => d \in busy)
    BY <2>4, Zenon DEF SessionInv
  <2> QED
    BY <2>1, <2>3, <2>4, <2>5, OneSession, ZenonT(30)
<1>3. CASE Get(c)
  <2>1. /\ c \in registered /\ busy' = busy \cup {c} /\ phase # "exited"
        /\ UNCHANGED <<workload, config, phase, session, registered>>
    BY <1>3, Zenon DEF Get, Reachable, processVars
  <2>2. session' = [session EXCEPT ![c] = session[c]]
    BY <2>1, Zenon DEF SessionInv
  <2>3. /\ registered' \subseteq Clients /\ busy' \subseteq Clients
        /\ \A d \in Clients \ {c} : (d \in registered' => d \in registered)
                                  /\ (d \in busy' => d \in busy)
    BY <2>1, Zenon DEF SessionInv
  <2> QED
    BY <1>1, <2>1, <2>2, <2>3, OneSession, Zenon
<1>4. CASE SetConnectionOption(c)
  <2>1. PICK o : /\ c \in busy
                 /\ Permits(session[c].policy, o.key)
                 /\ Done(c, [session[c] EXCEPT !.connection =
                               {p \in session[c].connection : p.key # o.key} \cup {o}])
    BY <1>4, Zenon DEF SetConnectionOption
  <2> QED
    BY <1>1, <2>1, OpenedWithOption, DoneInv, Zenon
<1>5. CASE \/ ExecutePartitions(c) \/ ReadPartition(c) \/ OtherMethod(c)
           \/ NewStatementTimesOut(c)
  <2>1. c \in busy /\ Done(c, session[c])
    BY <1>5, Zenon DEF ExecutePartitions, ReadPartition, OtherMethod, NewStatementTimesOut
  <2> QED
    BY <1>1, <2>1, DoneInv, Zenon
<1>6. CASE Detach(c) \/ NewStatementReturns(c)
  <2>1. /\ UNCHANGED <<workload, config, phase, session, busy>>
        /\ registered' \subseteq registered
    BY <1>6, Zenon DEF Detach, NewStatementReturns, processVars
  <2> QED
    BY <2>1, SessionsLeft, Zenon
<1> QED
  BY <1>2, <1>3, <1>4, <1>5, <1>6, Zenon DEF ClientStep

\* close_all() and the end of the manager leave the sessions to who drops them.
LEMMA ShutdownKeepsSessions ==
  ASSUME SessionInv, UNCHANGED workload, Shutdown \/ ShutdownReturns \/ DropManager
  PROVE  SessionInv'
<1>1. CASE Shutdown
  <2>1. UNCHANGED <<config, session, busy>> /\ phase' # "exited"
    BY <1>1, Zenon DEF Shutdown, CloseAll, Return
  <2>2. registered' \subseteq registered
    BY <1>1, Zenon DEF Shutdown
  <2> QED
    BY <2>1, <2>2, SessionsLeft, Zenon
<1>2. CASE ShutdownReturns
  <2>1. UNCHANGED <<config, session, busy, registered>> /\ phase' # "exited"
    BY <1>2, Zenon DEF ShutdownReturns, CloseAllReturns, sessionVars
  <2> QED
    BY <2>1, SessionsLeft, Zenon
<1>3. CASE DropManager
  <2>1. UNCHANGED <<config, session, busy, phase>> /\ registered' = {}
    BY <1>3, Zenon DEF DropManager, processVars
  <2> QED
    BY <2>1, SessionsLeft, Zenon
<1> QED
  BY <1>1, <1>2, <1>3, Zenon

\* What is to be dropped has left the registry.
DropsInv ==
  /\ drops = [t \in Droppers |-> drops[t]]
  /\ \A t \in Droppers : drops[t] \subseteq Clients \ registered

\* Session::drop ends a session that is neither registered nor in use.
LEMMA DropKeepsSessions ==
  ASSUME SessionInv, DropsInv, UNCHANGED workload, NEW t \in Droppers,
         Drop(t) \/ DestructorReturns(t)
  PROVE  SessionInv'
<1>1. UNCHANGED <<config, phase, registered, busy>>
  BY Zenon DEF Drop, DestructorReturns, processVars
<1>2. CASE DestructorReturns(t)
  BY <1>1, <1>2, SessionsLeft, Zenon DEF DestructorReturns
<1>3. CASE Drop(t)
  <2>1. PICK c \in drops[t] :
          /\ session[c] # None
          /\ \/ UNCHANGED session
             \/ c \notin busy /\ session' = [session EXCEPT ![c] = None]
    BY <1>3, Zenon DEF Drop
  <2>2. c \in Clients /\ c \notin registered
    BY Zenon DEF DropsInv
  <2>3. CASE UNCHANGED session
    BY <1>1, <2>3, SessionsLeft, Zenon
  <2>4. CASE c \notin busy /\ session' = [session EXCEPT ![c] = None]
    <3>1. phase # "exited"
      BY <2>1, <2>2, Zenon DEF SessionInv, Live
    <3>2. /\ registered' \subseteq Clients /\ busy' \subseteq Clients
          /\ \A d \in Clients \ {c} : (d \in registered' => d \in registered)
                                    /\ (d \in busy' => d \in busy)
      BY <1>1, Zenon DEF SessionInv
    <3> QED
      BY <1>1, <2>2, <2>4, <3>1, <3>2, OneSession, Zenon
  <2> QED
    BY <2>1, <2>3, <2>4, Zenon
<1> QED
  BY <1>2, <1>3, Zenon

\* One who drops sessions is given others, that are not registered any more.
LEMMA DropsGiven ==
  ASSUME DropsInv, UNCHANGED workload, NEW t \in Droppers, NEW S,
         drops' = [drops EXCEPT ![t] = S], S \subseteq Clients \ registered',
         registered' \subseteq registered
  PROVE  DropsInv'
<1>1. Clients' = Clients /\ Droppers' = Droppers
  BY Zenon DEF Clients, Droppers
<1>2. /\ drops' = [u \in Droppers |-> drops'[u]]
      /\ drops'[t] = S
      /\ \A u \in Droppers : u # t => drops'[u] = drops[u]
  BY Zenon DEF DropsInv
<1>3. ASSUME NEW u \in Droppers PROVE drops'[u] \subseteq Clients \ registered'
  BY <1>2, Zenon DEF DropsInv
<1> QED
  BY <1>1, <1>2, <1>3, Zenon DEF DropsInv

\* Nobody has others to drop.
LEMMA DropsStay ==
  ASSUME DropsInv, UNCHANGED <<workload, drops>>, registered' \subseteq registered
  PROVE  DropsInv'
<1>1. Clients' = Clients
  BY Zenon DEF Clients
<1> QED
  BY <1>1, Zenon DEF DropsInv

\* A client's steps leave to be dropped what they take out of the registry, or use last.
LEMMA ClientDrops ==
  ASSUME SessionInv, DropsInv, UNCHANGED workload, NEW c \in Clients, ClientStep(c)
  PROVE  DropsInv'
<1>0. "others" \in Droppers
  BY Zenon DEF Droppers
<1>1. CASE OpenConnection(c)
  <2>1. /\ UNCHANGED drops /\ registered' = registered \cup {c}
        /\ \A t \in Droppers : c \notin drops[t]
    BY <1>1, Zenon DEF OpenConnection
  <2>2. Clients' = Clients
    BY Zenon DEF Clients
  <2> QED
    BY <2>1, <2>2, Zenon DEF DropsInv
<1>2. CASE Get(c) \/ NewStatementReturns(c)
  BY <1>2, DropsStay, Zenon DEF Get, NewStatementReturns
<1>3. ASSUME Drops("others", c), registered' \subseteq registered, c \notin registered'
      PROVE  DropsInv'
  <2>1. drops' = [drops EXCEPT !["others"] = drops["others"] \cup {c}]
    BY <1>3, Zenon DEF Drops
  <2>2. drops["others"] \cup {c} \subseteq Clients \ registered'
    BY <1>0, <1>3, Zenon DEF DropsInv
  <2> QED
    BY <1>0, <1>3, <2>1, <2>2, DropsGiven, Zenon
<1>4. CASE Detach(c)
  <2>1. registered' = registered \ {c} /\ (UNCHANGED drops \/ Drops("others", c))
    BY <1>4, Zenon DEF Detach
  <2> QED
    BY <1>3, <2>1, DropsStay, Zenon
<1>5. CASE \/ SetConnectionOption(c) \/ ExecutePartitions(c) \/ ReadPartition(c)
           \/ OtherMethod(c) \/ NewStatementTimesOut(c)
  <2>1. \E x : Done(c, x)
    BY <1>5, Zenon DEF SetConnectionOption, ExecutePartitions, ReadPartition, OtherMethod,
       NewStatementTimesOut
  <2>2. /\ UNCHANGED registered
        /\ UNCHANGED drops \/ (c \notin registered /\ Drops("others", c))
    BY <2>1, Zenon DEF Done
  <2> QED
    BY <1>3, <2>2, DropsStay, Zenon
<1> QED
  BY <1>1, <1>2, <1>4, <1>5, Zenon DEF ClientStep

\* So do close_all() and the manager's end, and who drops goes on.
LEMMA ServerDrops ==
  ASSUME SessionInv, DropsInv, UNCHANGED workload,
         \/ Shutdown \/ ShutdownReturns \/ DropManager
         \/ \E t \in Droppers : Drop(t) \/ DestructorReturns(t)
  PROVE  DropsInv'
<1>0. "main" \in Droppers
  BY Zenon DEF Droppers
<1>1. CASE Shutdown
  <2>1. CASE registered' = {} /\ drops' = [drops EXCEPT !["main"] = registered]
    <3>1. registered \subseteq Clients \ registered' /\ registered' \subseteq registered
      BY <2>1, Zenon DEF SessionInv
    <3> QED
      BY <1>0, <2>1, <3>1, DropsGiven, Zenon
  <2>2. CASE UNCHANGED <<registered, drops>>
    BY <2>2, DropsStay, Zenon
  <2> QED
    BY <1>1, <2>1, <2>2, Zenon DEF Shutdown
<1>2. CASE ShutdownReturns
  BY <1>2, DropsStay, Zenon DEF ShutdownReturns, sessionVars
<1>3. CASE DropManager
  <2>1. /\ registered' = {}
        /\ drops' = [drops EXCEPT !["main"] = drops["main"] \cup registered]
    BY <1>3, Zenon DEF DropManager
  <2>2. /\ drops["main"] \cup registered \subseteq Clients \ registered'
        /\ registered' \subseteq registered
    BY <1>0, <2>1, Zenon DEF DropsInv, SessionInv
  <2> QED
    BY <1>0, <2>1, <2>2, DropsGiven, Zenon
<1>4. ASSUME NEW t \in Droppers, Drop(t) \/ DestructorReturns(t)
      PROVE  DropsInv'
  <2>1. UNCHANGED registered
    BY <1>4, Zenon DEF Drop, DestructorReturns
  <2>2. UNCHANGED drops \/ \E c : drops' = [drops EXCEPT ![t] = drops[t] \ {c}]
    BY <1>4, Zenon DEF Drop, DestructorReturns
  <2>3. \A c : drops[t] \ {c} \subseteq Clients \ registered'
    BY <2>1, Zenon DEF DropsInv
  <2>4. CASE UNCHANGED drops
    BY <2>1, <2>4, DropsStay, Zenon
  <2>5. ASSUME NEW c, drops' = [drops EXCEPT ![t] = drops[t] \ {c}]
        PROVE  DropsInv'
    <3>1. registered' \subseteq registered
      BY <2>1, Zenon
    <3> QED
      BY <2>3, <2>5, <3>1, DropsGiven, Zenon
  <2> QED
    BY <2>2, <2>4, <2>5, Zenon
<1> QED
  BY <1>1, <1>2, <1>3, <1>4, Zenon

\* No session outlives its process.
LEMMA DeathEndsSessions ==
  ASSUME UNCHANGED workload, Dies
  PROVE  SessionInv' /\ DropsInv'
<1>1. Clients' = Clients
  BY Zenon DEF Clients
<1>2. \A c \in Clients : ~Live(c)'
  BY Zenon DEF Dies, Live
<1>3. session' = [c \in Clients |-> session'[c]]
  BY Zenon DEF Dies
<1>4. registered' = {} /\ busy' = {}
  BY Zenon DEF Dies
<1>5. SessionInv'
  BY <1>1, <1>2, <1>3, <1>4, Zenon DEF SessionInv
<1>6. drops' = [t \in Droppers |-> {}]
  BY Zenon DEF Dies
<1>7. DropsInv'
  BY <1>6, Zenon DEF DropsInv
<1> QED
  BY <1>5, <1>7, Zenon

\* What the process does otherwise leaves the sessions alone, and a restart finds none.
LEMMA ProcessKeepsSessions ==
  ASSUME ProcInv, SessionInv, UNCHANGED workload, ProcessStep
  PROVE  SessionInv'
<1>1. UNCHANGED <<session, registered, busy>>
  BY Zenon DEF ProcessStep, sessionVars
<1>2. CASE MainStep \/ Signal \/ (\E l \in Listeners : ListenerEnds(l))
  <2>1. config' = config
    BY <1>2, ProcKept, Zenon
  <2>2. phase' = "exited" => phase = "exited"
    BY <1>2, Zenon DEF MainStep, LoadConfig, BindHttp, StartTcp, StartIroh, IrohFails, JoinTcp,
       Select, Await, Drained, GraceExpires, Finish, Return, Signal, ListenerEnds
  <2> QED
    BY <1>1, <2>1, <2>2, SessionsLeft, Zenon
<1>3. ASSUME NEW c \in workload.configs, Restart(c)
      PROVE  SessionInv'
  <2>1. phase = "exited"
    BY <1>3, Zenon DEF Restart
  <2>2. Clients' = Clients /\ \A d \in Clients : ~Live(d)'
    BY <1>1, <2>1, Zenon DEF Clients, Live, SessionInv
  <2> QED
    BY <1>1, <2>2, Zenon DEF SessionInv
<1> QED
  BY <1>2, <1>3, Zenon DEF ProcessStep

Inv == ProcInv /\ SessionInv /\ DropsInv

\* Configurations that were validated, and sessions opened under them.
THEOREM Invariant == Spec => []Inv
<1>1. Init => Inv
  <2> SUFFICES ASSUME Init PROVE Inv
    BY Zenon
  <2>1. ProcInv
    BY Zenon DEF Init, ProcessInit, ProcInv, AllOff
  <2>2. \A c \in Clients : session[c] = None
    BY Zenon DEF Init
  <2>3. session = [c \in Clients |-> session[c]]
    BY Zenon DEF Init
  <2>4. \A c \in Clients : ~Live(c)
    BY <2>2, Zenon DEF Init, Live
  <2>5. SessionInv
    BY <2>3, <2>4, Zenon DEF SessionInv, Init
  <2>6. DropsInv
    BY Zenon DEF DropsInv, Init
  <2> QED
    BY <2>1, <2>5, <2>6, Zenon DEF Inv
<1>2. Inv /\ [Next]_vars => Inv'
  <2> SUFFICES ASSUME Inv, [Next]_vars PROVE Inv'
    BY Zenon
  <2>0. ProcInv /\ SessionInv /\ DropsInv
    BY Zenon DEF Inv
  <2>1. ASSUME UNCHANGED <<workload, processVars>>
        PROVE  ProcInv'
    BY <2>0, <2>1, Zenon DEF ProcInv, AllOff, processVars
  <2>2. CASE UNCHANGED workload /\ ProcessStep
    <3>1. ProcInv'
      BY <2>0, <2>2, ProcKept, ProcRestarts, Zenon DEF ProcessStep
    <3>2. DropsInv'
      BY <2>0, <2>2, DropsStay, Zenon DEF ProcessStep, sessionVars
    <3> QED
      BY <2>0, <2>2, <3>1, <3>2, ProcessKeepsSessions, Zenon DEF Inv
  <2>3. CASE UNCHANGED workload /\ (Shutdown \/ ShutdownReturns \/ DropManager)
    <3>1. ProcInv'
      BY <2>0, <2>1, <2>3, ProcKept, Zenon DEF Shutdown, ShutdownReturns, DropManager
    <3> QED
      BY <2>0, <2>3, <3>1, ServerDrops, ShutdownKeepsSessions, Zenon DEF Inv
  <2>8. ASSUME UNCHANGED workload, NEW t \in Droppers, Drop(t) \/ DestructorReturns(t)
        PROVE  Inv'
    <3>1. ProcInv'
      BY <2>1, <2>8, Zenon DEF Drop, DestructorReturns
    <3> QED
      BY <2>0, <2>8, <3>1, ServerDrops, DropKeepsSessions, Zenon DEF Inv
  <2>4. CASE UNCHANGED workload /\ Dies
    BY <2>0, <2>4, ProcKept, DeathEndsSessions, Zenon DEF Inv, Dies
  <2>5. CASE UNCHANGED workload /\ ClockMoves
    <3>1. UNCHANGED <<workload, config, session, registered, busy, phase, drops>>
      BY <2>5, Zenon DEF ClockMoves, processVars, sessionVars
    <3>2. ProcInv'
      BY <2>1, <2>5, Zenon DEF ClockMoves
    <3> QED
      BY <2>0, <3>1, <3>2, SessionsLeft, DropsStay, Zenon DEF Inv
  <2>6. ASSUME UNCHANGED workload, NEW c \in Clients, ClientStep(c)
        PROVE  Inv'
    <3>1. UNCHANGED processVars
      BY <2>6, Zenon DEF ClientStep, OpenConnection, Get, SetConnectionOption, ExecutePartitions,
         ReadPartition, OtherMethod, NewStatementTimesOut, NewStatementReturns, Detach, Done
    <3>2. ProcInv'
      BY <2>1, <2>6, <3>1, Zenon
    <3> QED
      BY <2>0, <2>6, <3>2, ClientKeepsSessions, ClientDrops, Zenon DEF Inv
  <2>7. CASE UNCHANGED vars
    <3>1. UNCHANGED <<workload, config, session, registered, busy, phase, drops, processVars>>
      BY <2>7, Zenon DEF vars, processVars, sessionVars
    <3>2. ProcInv'
      BY <2>1, <3>1, Zenon
    <3> QED
      BY <2>0, <3>1, <3>2, SessionsLeft, DropsStay, Zenon DEF Inv
  <2> QED
    BY <2>2, <2>3, <2>4, <2>5, <2>6, <2>7, <2>8, Zenon DEF Next
<1> QED
  BY <1>1, <1>2, PTL DEF Spec

\* For any configurations and applications, the driver of a session has the options of
\* the operator and, beside them, only what the policy opens to clients, once each; and
\* of a database only what an application means for it.
THEOREM OptionsFollowPolicy == Spec => []OptionsByPolicy
<1>1. Inv => OptionsByPolicy
  <2> SUFFICES ASSUME Inv, NEW c \in Clients, session[c] # None
               PROVE  LET target == config.targets[session[c].target]
                          more(kind) == session[c][kind] \ target.configured[kind]
                      IN  /\ \A kind \in Kinds :
                               /\ target.configured[kind] \subseteq session[c][kind]
                               /\ Distinct(session[c][kind])
                               /\ \A o \in more(kind) :
                                    target.allow_all[kind] \/ o.key \in target.allowed[kind]
                          /\ \E given \in workload.databases : \A o \in more("database") :
                               o \in given /\ o.key \notin OwnKeys \cup {ServiceKey(given)}
    BY Zenon DEF OptionsByPolicy
  <2> DEFINE target == config.targets[session[c].target]
  <2>1. Opened(config, Login[c], workload.databases, session[c])
    BY Zenon DEF Inv, SessionInv, Live
  <2>2. \A kind \in Kinds : HasOptions(target, kind, session[c][kind])
    BY <2>1, Zenon DEF Opened, Kinds
  <2>3. FromApplication(target, workload.databases, session[c]["database"])
    BY <2>1, Zenon DEF Opened
  <2>4. \A kind, key : Permits(Policy(target, kind), key)
                        => target.allow_all[kind] \/ key \in target.allowed[kind]
    BY Zenon DEF Permits, Policy
  <2> QED
    BY <2>2, <2>3, <2>4, ZenonT(30) DEF HasOptions, FromApplication
<1> QED
  BY <1>1, Invariant, PTL

\* For any configurations and credentials, a session is one its client was entitled to
\* when it was opened, and the configuration has not changed since.
THEOREM SessionsAreEntitled == Spec => []SessionsEntitled
<1>1. Inv => SessionsEntitled
  <2> SUFFICES ASSUME Inv, NEW c \in Clients, session[c] # None
               PROVE  \E name \in Identities(config, Login[c]) :
                        LET known == IF name = Nobody THEN Anonymous ELSE name
                            entry == IF known \in DOMAIN config.permissions THEN known
                                     ELSE session[c].principal
                        IN  /\ config.require_auth => name # Nobody
                            /\ DOMAIN config.permissions # {} =>
                                 /\ entry \in DOMAIN config.permissions
                                 /\ {session[c].target, AnyTarget}
                                      \cap config.permissions[entry] # {}
    BY Zenon DEF SessionsEntitled
  <2> DEFINE p == session[c].principal
             login == Login[c]
  <2>1. Opened(config, login, workload.databases, session[c])
    BY Zenon DEF Inv, SessionInv, Live
  <2>2. p \in Principals(config, login) /\ Allows(config, p, session[c].target)
    BY <2>1, Zenon DEF Opened
  <2>3. PICK name \in Identities(config, login) :
          /\ config.require_auth => name # Nobody
          /\ p = IF name = Nobody THEN Principal(<<>>, Anonymous)
                 ELSE Principal(Domains[login.transport], name)
    BY <2>2, Zenon DEF Principals
  <2> DEFINE known == IF name = Nobody THEN Anonymous ELSE name
  <2>4. login.transport \in Listeners /\ name \in Seq(Letters) \cup {Nobody}
    BY NodeAssumption, Zenon DEF Inv, ProcInv, Clients, Login
  <2>5. /\ <<>> \in Names /\ Anonymous \in Names /\ Anonymous \in Seq(Letters)
        /\ Domains[login.transport] \in Names
    BY <2>4, AccessAssumption DEF Listeners, Names
  <2>6. NameIn(p) = known
    BY <2>3, <2>4, <2>5, NameFound, ZenonT(30)
  <2> QED
    BY <2>2, <2>3, <2>6, Zenon DEF Allows
<1> QED
  BY <1>1, Invariant, PTL

--------------------------------------------------------------------------------
(* Induction over the naturals, for the response that tokens are put into   *)
(* one after the other.                                                     *)

W == INSTANCE WellFoundedInduction

\* A set of naturals that is not empty has a least member.
LEMMA LeastMember ==
  ASSUME NEW T, T \subseteq Nat, T # {}
  PROVE  \E x \in T : \A y \in T : x <= y
<1> DEFINE R == {p \in Nat \X Nat : p[1] < p[2]}
<1>1. W!IsWellFoundedOn(R, Nat)
  BY W!NatLessThanWellFounded, Zenon DEF W!OpToRel
<1>2. \E x \in T : \A y \in T : ~(<<y, x>> \in R)
  BY <1>1, W!WFMin, Zenon
<1>3. \A x, y \in Nat : x < y => <<x, y>> \in R
  BY Zenon
<1> HIDE DEF R
<1>4. PICK x \in T : \A y \in T : ~(<<y, x>> \in R)
  BY <1>2, Zenon
<1>5. \A y \in T : ~(y < x)
  BY <1>3, <1>4, Zenon
<1>6. \A y \in T : x <= y
  BY <1>5
<1> QED
  BY <1>6, Zenon

\* So a set with 0 and the successors of its members has all of them.
LEMMA Induction ==
  ASSUME NEW T, 0 \in T, \A n \in Nat : n \in T => n + 1 \in T
  PROVE  Nat \subseteq T
<1> DEFINE U == Nat \ T
<1>1. SUFFICES ASSUME U # {} PROVE FALSE
  BY Zenon
<1>2. PICK x \in U : \A y \in U : x <= y
  BY <1>1, LeastMember, Zenon
<1>3. x # 0 /\ x - 1 \in Nat /\ x - 1 \notin U
  BY <1>2
<1> QED
  BY <1>3

RunsDown(f, N, limit, cost) ==
  f = [i \in 1 .. N + 1 |-> IF i = 1 THEN limit ELSE f[i - 1] - cost[i - 1]]

\* What is left of a limit as costs are taken off it one after the other.
LEMMA SomethingRunsDown ==
  ASSUME NEW N \in Nat, NEW limit \in Int, NEW cost \in [1 .. N -> Nat]
  PROVE  \E f : RunsDown(f, N, limit, cost)
<1> DEFINE Down(n, f) == /\ f \in [1 .. n + 1 -> Int]
                         /\ f[1] = limit
                         /\ \A i \in 2 .. n + 1 : f[i] = f[i - 1] - cost[i - 1]
           T == {n \in Nat : n <= N => \E f : Down(n, f)}
<1>1. 0 \in T
  <2>1. Down(0, [i \in 1 .. 1 |-> limit])
    OBVIOUS
  <2> QED
    BY <2>1, Zenon
<1> HIDE DEF Down
<1>2. ASSUME NEW n \in Nat, n \in T
      PROVE  n + 1 \in T
  <2> SUFFICES ASSUME n + 1 <= N PROVE \E f : Down(n + 1, f)
    OBVIOUS
  <2>1. PICK f : Down(n, f)
    BY <1>2
  <2> USE DEF Down
  <2> DEFINE g == [i \in 1 .. n + 2 |-> IF i = n + 2 THEN f[n + 1] - cost[n + 1] ELSE f[i]]
  <2>2. f[n + 1] \in Int /\ cost[n + 1] \in Nat
    BY <2>1
  <2>3. g \in [1 .. (n + 1) + 1 -> Int]
    BY <2>1, <2>2
  <2>4. g[1] = limit
    BY <2>1
  <2>5. \A i \in 2 .. n + 1 : g[i] = g[i - 1] - cost[i - 1]
    BY <2>1
  <2>6. g[n + 2] = g[n + 1] - cost[n + 1]
    BY <2>1
  <2> HIDE DEF g
  <2>7. ASSUME NEW i \in 2 .. (n + 1) + 1
        PROVE  g[i] = g[i - 1] - cost[i - 1]
    <3>1. CASE i = n + 2
      BY <2>6, <3>1
    <3>2. CASE i # n + 2
      BY <2>5, <3>2
    <3> QED
      BY <3>1, <3>2, Zenon
  <2>8. Down(n + 1, g)
    BY <2>3, <2>4, <2>7, Zenon
  <2> QED
    BY <2>8, Zenon
<1> HIDE DEF T
<1>3. N \in T
  BY <1>1, <1>2, Induction, Zenon
<1>4. PICK f : Down(N, f)
  BY <1>3 DEF T
<1>5. RunsDown(f, N, limit, cost)
  BY <1>4 DEF Down, RunsDown
<1> QED
  BY <1>5, Zenon

\* It is never more than the limit.
LEMMA RunsOnlyDown ==
  ASSUME NEW N \in Nat, NEW limit \in Int, NEW cost \in [1 .. N -> Nat],
         NEW f, RunsDown(f, N, limit, cost)
  PROVE  \A i \in 1 .. N + 1 : f[i] \in Int /\ f[i] <= limit
<1> DEFINE T == {n \in Nat : n <= N => f[n + 1] \in Int /\ f[n + 1] <= limit}
<1>1. 0 \in T
  BY DEF RunsDown
<1>2. ASSUME NEW n \in Nat, n \in T
      PROVE  n + 1 \in T
  <2> SUFFICES ASSUME n + 1 <= N PROVE f[n + 2] \in Int /\ f[n + 2] <= limit
    OBVIOUS
  <2>1. f[n + 1] \in Int /\ f[n + 1] <= limit
    BY <1>2
  <2>2. f[n + 2] = f[n + 1] - cost[n + 1] /\ cost[n + 1] \in Nat
    BY DEF RunsDown
  <2> QED
    BY <2>1, <2>2, SMTT(30)
<1> HIDE DEF T
<1>3. Nat \subseteq T
  BY <1>1, <1>2, Induction, Zenon
<1>4. ASSUME NEW i \in 1 .. N + 1
      PROVE  f[i] \in Int /\ f[i] <= limit
  <2>1. i - 1 \in T
    BY <1>3
  <2> QED
    BY <2>1 DEF T
<1> QED
  BY <1>4, Zenon

\* execute_partitions() never leaves a token more room than the response has.
LEMMA RoomWithin ==
  ASSUME NEW descriptors \in Seq(Descriptors), NEW limit \in Nat
  PROVE  \A i \in DOMAIN descriptors :
           Room(descriptors, limit)[i] \in Int /\ Room(descriptors, limit)[i] <= limit
<1> DEFINE N == Len(descriptors)
           cost == [i \in 1 .. N |-> Size(descriptors[i]) + Entry]
           Is(f) == f = [i \in 1 .. Len(descriptors) + 1 |->
                          IF i = 1 THEN limit
                          ELSE f[i - 1] - (Size(descriptors[i - 1]) + Entry)]
<1>1. N \in Nat /\ DOMAIN descriptors = 1 .. N
  OBVIOUS
<1>2. cost \in [1 .. N -> Nat]
  BY SignerAssumption, NodeAssumption, SMTT(30) DEF Size
<1>3. ASSUME NEW f
      PROVE  Is(f) <=> RunsDown(f, N, limit, cost)
  <2>1. \A i \in 1 .. N + 1 : i # 1 => cost[i - 1] = Size(descriptors[i - 1]) + Entry
    BY <1>1
  <2> QED
    BY <2>1, ZenonT(30) DEF RunsDown
<1>4. Room(descriptors, limit) = CHOOSE f : Is(f)
  BY Zenon DEF Room
<1> HIDE DEF Is, N, cost
<1>5. \E f : RunsDown(f, N, limit, cost)
  BY <1>1, <1>2, SomethingRunsDown, SMTT(30)
<1>6. RunsDown(Room(descriptors, limit), N, limit, cost)
  BY <1>3, <1>4, <1>5, Zenon
<1>7. \A i \in 1 .. N + 1 : Room(descriptors, limit)[i] \in Int
                            /\ Room(descriptors, limit)[i] <= limit
  BY <1>1, <1>2, <1>6, RunsOnlyDown
<1> QED
  BY <1>1, <1>7

--------------------------------------------------------------------------------
(* Tokens.                                                                  *)

\* A token is what seal() made of the session it was made for.
Sealed(m) ==
  /\ m.token.key = m.process
  /\ m.issued \in Nat /\ m.token.expires = m.issued + Ttl
  /\ m.target \in Names /\ m.principal \in Seq(Letters)
  /\ m.token.owner = Owner(m.target, m.principal)
  /\ Size(m.token.descriptor) <= MaxControl

TokensInv == clock \in Nat /\ \A m \in tokens : Sealed(m)

\* The names that sessions bear.
LEMMA SessionNames ==
  ASSUME Inv, NEW c \in Clients, c \in busy
  PROVE  session[c].target \in Names /\ session[c].principal \in Seq(Letters)
<1> DEFINE p == session[c].principal
           login == Login[c]
<1>1. Opened(config, login, workload.databases, session[c])
  BY Zenon DEF Inv, SessionInv, Live
<1>2. session[c].target \in Names /\ p \in Principals(config, login)
  BY <1>1, Zenon DEF Opened, ValidHandle
<1>3. PICK name \in Identities(config, login) :
        p = IF name = Nobody THEN Principal(<<>>, Anonymous)
            ELSE Principal(Domains[login.transport], name)
  BY <1>2, Zenon DEF Principals
<1>4. login.transport \in Listeners /\ name \in Seq(Letters) \cup {Nobody}
  BY NodeAssumption, Zenon DEF Inv, ProcInv, Clients, Login
<1>5. /\ <<>> \in Names /\ Anonymous \in Seq(Letters)
      /\ Domains[login.transport] \in Names
  BY <1>4, AccessAssumption DEF Listeners, Names
<1>6. p \in Seq(Letters)
  <2>1. ASSUME NEW d \in Names, NEW n \in Seq(Letters)
        PROVE  Principal(d, n) \in Seq(Letters)
    <3>1. IsJoined(Principal(d, n), d, n)
      BY Joined, Zenon DEF Principal
    <3> QED
      BY <3>1, Zenon DEF IsJoined
  <2> QED
    BY <1>3, <1>4, <1>5, <2>1, Zenon
<1> QED
  BY <1>2, <1>6, Zenon

SealedFor(t, key, now, target, principal, descriptor, limit) ==
  /\ t.key = key /\ t.expires = now + Ttl /\ t.owner = Owner(target, principal)
  /\ t.descriptor = descriptor
  /\ ~(Size(descriptor) > limit)

\* seal() refuses, or the token says who it is for and until when.
LEMMA SealedOrRefused ==
  ASSUME NEW key, NEW now, NEW target, NEW principal, NEW descriptor, NEW limit,
         Seal(key, now, Ttl, target, principal, descriptor, limit).ok
  PROVE  SealedFor(Seal(key, now, Ttl, target, principal, descriptor, limit),
                   key, now, target, principal, descriptor, limit)
<1> DEFINE t == Seal(key, now, Ttl, target, principal, descriptor, limit)
<1>1. CASE now + Ttl > MaxMillis \/ Size(descriptor) > limit
  <2>1. t = [ok |-> FALSE]
    BY <1>1, Zenon DEF Seal, Invalid
  <2>2. ~t.ok
    BY <2>1, SMTT(30)
  <2> QED
    BY <2>2, Zenon
<1>2. CASE ~(now + Ttl > MaxMillis \/ Size(descriptor) > limit)
  <2>1. t = [ok |-> TRUE, key |-> key, expires |-> now + Ttl,
             owner |-> Owner(target, principal), descriptor |-> descriptor]
    BY <1>2, ZenonT(30) DEF Seal
  <2> QED
    BY <1>2, <2>1 DEF SealedFor
<1> QED
  BY <1>1, <1>2, Zenon

\* execute_partitions() hands out such tokens.
LEMMA ExecuteSeals ==
  ASSUME Inv, TokensInv, NEW c \in Clients, ExecutePartitions(c)
  PROVE  \A m \in tokens' : Sealed(m)
<1>1. PICK descriptors \in workload.results, limit \in ResponseLimits :
        LET room == Room(descriptors, limit)
            sealed == [i \in DOMAIN descriptors |->
                         Seal(Key, clock, Ttl, session[c].target, session[c].principal,
                              descriptors[i], room[i])]
        IN  /\ \A i \in DOMAIN descriptors : sealed[i].ok /\ room[i + 1] >= 0
            /\ tokens' = tokens \cup {Made(sealed[i], c) : i \in DOMAIN descriptors}
  BY Zenon DEF ExecutePartitions
<1>2. /\ descriptors \in Seq(Descriptors) /\ limit \in Nat /\ limit <= MaxControl
      /\ MaxControl \in Nat
  <2>1. limit \in 0 .. MaxControl /\ MaxControl \in Nat
    BY NodeAssumption, Zenon
  <2>2. descriptors \in Seq(Descriptors)
    BY NodeAssumption, Zenon DEF Inv, ProcInv
  <2> QED
    BY <2>1, <2>2
<1> SUFFICES ASSUME NEW i \in DOMAIN descriptors
             PROVE  Sealed(Made(Seal(Key, clock, Ttl, session[c].target, session[c].principal,
                                     descriptors[i], Room(descriptors, limit)[i]), c))
  BY <1>1, Zenon DEF TokensInv
<1> DEFINE room == Room(descriptors, limit)[i]
           t == Seal(Key, clock, Ttl, session[c].target, session[c].principal, descriptors[i], room)
           m == Made(t, c)
<1>3. t.ok
  BY <1>1, Zenon
<1>4. room \in Int /\ room <= limit
  BY <1>2, RoomWithin, Zenon
<1>5. /\ t.key = Key /\ t.expires = clock + Ttl
      /\ t.owner = Owner(session[c].target, session[c].principal)
      /\ t.descriptor = descriptors[i] /\ ~(Size(descriptors[i]) > room)
  <2>1. SealedFor(t, Key, clock, session[c].target, session[c].principal, descriptors[i], room)
    BY <1>3, SealedOrRefused, Zenon
  <2> QED
    BY <2>1, Zenon DEF SealedFor
<1>6. Size(descriptors[i]) \in Nat
  BY <1>2, SignerAssumption DEF Size
<1>7. c \in busy
  BY Zenon DEF ExecutePartitions
<1>8. session[c].target \in Names /\ session[c].principal \in Seq(Letters)
  BY <1>7, SessionNames, ZenonT(30)
<1> HIDE DEF t, room
<1>9. /\ m.token = t /\ m.process = process /\ m.issued = clock
      /\ m.target = session[c].target /\ m.principal = session[c].principal
  BY Zenon DEF Made
<1>10. Size(m.token.descriptor) <= MaxControl
  BY <1>2, <1>4, <1>5, <1>6, <1>9
<1> HIDE DEF m
<1>11. Sealed(m)
  BY <1>5, <1>8, <1>9, <1>10, Zenon DEF Sealed, TokensInv, Key
<1> QED
  BY <1>11, ZenonT(30) DEF m, t, room

Redeemable(m, key, now, target, principal) ==
  /\ m.process = key /\ m.target = target /\ m.principal = principal
  /\ now < m.issued + Ttl

\* open() gives the descriptor out to those who are like its maker, in time.
LEMMA OpensForOwner ==
  ASSUME NEW m, Sealed(m), NEW key, NEW now \in Nat, NEW target \in Names,
         NEW principal \in Seq(Letters)
  PROVE  Open(key, now, target, principal, m.token, MaxControl)
           <=> Redeemable(m, key, now, target, principal)
<1>1. m.token.owner = Owner(target, principal) <=> m.target = target /\ m.principal = principal
  <2>1. Owner(m.target, m.principal) = Owner(target, principal)
          <=> m.target = target /\ m.principal = principal
    BY OwnersDiffer DEF Sealed
  <2> QED
    BY <2>1, Zenon DEF Sealed
<1>2. m.token.expires > now <=> now < m.issued + Ttl
  BY NodeAssumption, Zenon DEF Sealed
<1> QED
  BY <1>1, <1>2, Zenon DEF Open, Sealed, Redeemable

\* The server's own errors are errors like those of drivers, and arrive whole.
LEMMA OwnErrors ==
  /\ Plain("Ok") \in AdbcErrors /\ Plain("NotFound") \in AdbcErrors
  /\ Ascii(Plain("Ok")) /\ Ascii(Plain("NotFound"))
<1>1. "Ok" \in Statuses /\ "NotFound" \in Statuses
  BY Zenon DEF Statuses, StatusName
<1>2. ASSUME NEW status \in Statuses
      PROVE  Plain(status) \in AdbcErrors /\ Ascii(Plain(status))
  <2>1. Plain(status) \in AdbcErrors
    BY DEF AdbcErrors, Plain
  <2>2. Ascii(Plain(status))
    BY DEF Plain, Ascii
  <2> QED
    BY <2>1, <2>2, Zenon
<1> QED
  BY <1>1, <1>2, ZenonT(30)

\* read_partition() is told what it should be.
LEMMA ReadsRedeem ==
  ASSUME Inv, TokensInv, NEW c \in Clients, ReadPartition(c)
  PROVE  TokensRedeemed'
<1>1. PICK made \in tokens :
        LET opened == Open(Key, clock, session[c].target, session[c].principal, made.token,
                           MaxControl)
        IN  \E driver \in IF opened THEN {Plain("Ok")} \cup workload.errors ELSE {None} :
              last' = [made |-> made, process |-> process, target |-> session[c].target,
                       principal |-> session[c].principal, at |-> clock, driver |-> driver,
                       answer |-> IF driver = Plain("Ok") THEN driver
                                  ELSE Seen(IF opened THEN driver ELSE Plain("NotFound"))]
  BY Zenon DEF ReadPartition
<1> DEFINE opened == Open(Key, clock, session[c].target, session[c].principal, made.token,
                          MaxControl)
<1>2. PICK driver \in IF opened THEN {Plain("Ok")} \cup workload.errors ELSE {None} :
        last' = [made |-> made, process |-> process, target |-> session[c].target,
                 principal |-> session[c].principal, at |-> clock, driver |-> driver,
                 answer |-> IF driver = Plain("Ok") THEN driver
                            ELSE Seen(IF opened THEN driver ELSE Plain("NotFound"))]
  BY <1>1, Zenon
<1>3. c \in busy
  BY Zenon DEF ReadPartition
<1>4. session[c].target \in Names /\ session[c].principal \in Seq(Letters)
  BY <1>3, SessionNames, Zenon
<1>5. opened <=> /\ made.process = process /\ made.target = session[c].target
                 /\ made.principal = session[c].principal /\ clock < made.issued + Ttl
  <2>1. Sealed(made) /\ clock \in Nat
    BY Zenon DEF TokensInv
  <2>2. opened <=> Redeemable(made, Key, clock, session[c].target, session[c].principal)
    BY <1>4, <2>1, OpensForOwner, Zenon
  <2> QED
    BY <2>2, Zenon DEF Key, Redeemable
<1>6. workload.errors \subseteq AdbcErrors /\ None \notin workload.errors \cup {Plain("Ok")}
  BY NodeAssumption, Zenon DEF Inv, ProcInv
<1>7. /\ Plain("Ok") \in AdbcErrors /\ Plain("NotFound") \in AdbcErrors
      /\ Ascii(Plain("Ok")) /\ Ascii(Plain("NotFound"))
  BY OwnErrors, Zenon
<1> HIDE DEF opened
<1>8. driver # None <=> opened
  BY <1>6, Zenon
<1> DEFINE answer == IF driver = Plain("Ok") THEN driver
                     ELSE Seen(IF opened THEN driver ELSE Plain("NotFound"))
<1>9. answer = IF driver = None THEN Plain("NotFound")
               ELSE IF Ascii(driver) THEN driver ELSE Plain("InvalidData")
  <2>1. CASE driver = None
    <3>1. answer = Seen(Plain("NotFound"))
      BY <1>6, <1>8, <2>1, Zenon
    <3> QED
      BY <1>7, <2>1, <3>1, ErrorsArrive, Zenon
  <2>2. CASE driver = Plain("Ok")
    BY <1>6, <1>7, <2>2, Zenon
  <2>3. CASE driver # None /\ driver # Plain("Ok")
    <3>1. driver \in AdbcErrors /\ answer = Seen(driver)
      BY <1>6, <1>8, <2>3, Zenon
    <3> QED
      BY <2>3, <3>1, ErrorsArrive, Zenon
  <2> QED
    BY <2>1, <2>2, <2>3, Zenon
<1> HIDE DEF answer
<1>10. last' = [made |-> made, process |-> process, target |-> session[c].target,
                principal |-> session[c].principal, at |-> clock, driver |-> driver,
                answer |-> answer]
  BY <1>2, ZenonT(30) DEF answer
<1>11. /\ last'.made = made /\ last'.process = process /\ last'.target = session[c].target
       /\ last'.principal = session[c].principal /\ last'.at = clock
       /\ last'.driver = driver /\ last'.answer = answer
  BY <1>10, Zenon
<1> QED
  BY <1>5, <1>8, <1>9, <1>11, ZenonT(30) DEF TokensRedeemed

\* For any processes, clients, clocks and errors, the driver is given the descriptor in
\* a token exactly if it is the holder's to redeem, and the client is told the outcome.
THEOREM TokensAreRedeemed == Spec => []TokensRedeemed
<1>1. Init => TokensInv /\ TokensRedeemed
  BY DEF Init, TokensInv, TokensRedeemed
<1>2. Inv /\ TokensInv /\ TokensRedeemed /\ [Next]_vars => TokensInv' /\ TokensRedeemed'
  <2> SUFFICES ASSUME Inv, TokensInv, TokensRedeemed, [Next]_vars
               PROVE  TokensInv' /\ TokensRedeemed'
    BY Zenon
  <2>1. CASE UNCHANGED <<tokens, clock>> /\ last' = None
    BY <2>1, ZenonT(30) DEF TokensInv, TokensRedeemed
  <2>2. CASE UNCHANGED vars
    <3>1. UNCHANGED <<tokens, clock, last>>
      BY <2>2, Zenon DEF vars
    <3> QED
      BY <3>1, Zenon DEF TokensInv, TokensRedeemed
  <2>3. CASE ClockMoves
    <3>1. UNCHANGED tokens /\ last' = None /\ clock' \in Nat
      BY <2>3 DEF ClockMoves
    <3> QED
      BY <3>1, Zenon DEF TokensInv, TokensRedeemed
  <2>4. CASE \/ ProcessStep \/ Shutdown \/ ShutdownReturns \/ DropManager \/ Dies
             \/ \E t \in Droppers : Drop(t) \/ DestructorReturns(t)
    BY <2>1, <2>4, Zenon
       DEF ProcessStep, Shutdown, ShutdownReturns, DropManager, Dies, Drop, DestructorReturns
  <2>5. ASSUME NEW c \in Clients, ExecutePartitions(c)
        PROVE  TokensInv' /\ TokensRedeemed'
    <3>1. clock' = clock /\ last' = None
      BY <2>5, Zenon DEF ExecutePartitions, Done
    <3> QED
      BY <2>5, <3>1, ExecuteSeals, Zenon DEF TokensInv, TokensRedeemed
  <2>6. ASSUME NEW c \in Clients, ReadPartition(c)
        PROVE  TokensInv' /\ TokensRedeemed'
    <3>1. UNCHANGED <<tokens, clock>>
      BY <2>6, Zenon DEF ReadPartition, Done
    <3> QED
      BY <2>6, <3>1, ReadsRedeem, Zenon DEF TokensInv
  <2>7. ASSUME NEW c \in Clients,
               \/ OpenConnection(c) \/ Get(c) \/ SetConnectionOption(c) \/ OtherMethod(c)
               \/ NewStatementTimesOut(c) \/ NewStatementReturns(c) \/ Detach(c)
        PROVE  TokensInv' /\ TokensRedeemed'
    BY <2>1, <2>7, Zenon
       DEF OpenConnection, Get, SetConnectionOption, OtherMethod, NewStatementTimesOut,
           NewStatementReturns, Detach, Done
  <2> QED
    BY <2>2, <2>3, <2>4, <2>5, <2>6, <2>7, Zenon DEF Next, ClientStep
<1> QED
  BY <1>1, <1>2, Invariant, PTL DEF Spec

--------------------------------------------------------------------------------
(* What main() returns.                                                     *)

\* A listener's task is among those the drain is to await.
Has(tasks, l) == \E i \in DOMAIN tasks : tasks[i] = l

\* Whatever the drain has awaited has ended without error, but for the task whose end
\* began the shutdown; success is only returned after that, and for a signal.
ExitInv ==
  /\ DOMAIN listener = Listeners
  /\ left \in Seq(Listeners)
  /\ phase = "draining" \/ exit = "ok" =>
       \A l \in Configured \ {chosen} : Has(left, l) \/ listener[l] = "ended"
  /\ exit = "ok" => chosen = "signal" /\ phase \in {"returned", "exited"}

\* Before the drain main() cannot succeed, only fail or go on.
LEMMA BeforeDrain ==
  ASSUME ExitInv, phase \notin {"draining", "returned", "exited"}, phase' # "draining",
         exit' \in {exit, "error"}, UNCHANGED left, DOMAIN listener' = Listeners
  PROVE  ExitInv'
<1>1. exit # "ok"
  BY Zenon DEF ExitInv
<1>2. exit' # "ok"
  BY <1>1, Zenon
<1>3. DOMAIN listener' = Listeners /\ left' \in Seq(Listeners)
  BY Zenon DEF ExitInv
<1> QED
  BY <1>2, <1>3, Zenon DEF ExitInv

\* main() up to the end of the service.
LEMMA ServingExit ==
  ASSUME ExitInv,
         LoadConfig \/ BindHttp \/ StartTcp \/ StartIroh \/ IrohFails \/ JoinTcp \/ Select
  PROVE  ExitInv'
<1> USE DEF Return
<1>0. \A s : \A l \in Listeners : DOMAIN [listener EXCEPT ![l] = s] = Listeners
  BY Zenon DEF ExitInv
<1>1. CASE LoadConfig
  BY <1>1, BeforeDrain, Zenon DEF LoadConfig, ExitInv
<1>2. CASE BindHttp
  BY <1>2, BeforeDrain, Zenon DEF BindHttp, ExitInv
<1>3. CASE StartTcp
  BY <1>3, BeforeDrain, Zenon DEF StartTcp, ExitInv
<1>4. CASE StartIroh
  BY <1>4, BeforeDrain, Zenon DEF StartIroh, ExitInv
<1>5. CASE IrohFails
  BY <1>5, BeforeDrain, Zenon DEF IrohFails, ExitInv
<1>6. CASE JoinTcp
  BY <1>6, BeforeDrain, Zenon DEF JoinTcp, ExitInv
<1>7. CASE Select
  BY <1>7, BeforeDrain, Zenon DEF Select, ExitInv
<1> QED
  BY <1>1, <1>2, <1>3, <1>4, <1>5, <1>6, <1>7, Zenon

\* Tasks awaited one after the other.
LEMMA TasksJoined ==
  ASSUME NEW a \in Seq(Listeners), NEW b \in Seq(Listeners)
  PROVE  a \o b \in Seq(Listeners) /\ \A l : Has(a, l) \/ Has(b, l) => Has(a \o b, l)
<1> DEFINE ab == a \o b
<1>1. /\ ab \in Seq(Listeners) /\ Len(ab) = Len(a) + Len(b)
      /\ \A i \in 1 .. Len(a) : ab[i] = a[i]
      /\ \A i \in 1 .. Len(b) : ab[Len(a) + i] = b[i]
  OBVIOUS
<1> HIDE DEF ab
<1>2. /\ DOMAIN a = 1 .. Len(a) /\ DOMAIN b = 1 .. Len(b) /\ DOMAIN ab = 1 .. Len(ab)
      /\ Len(a) \in Nat /\ Len(b) \in Nat
  BY <1>1
<1>3. ASSUME NEW i \in DOMAIN a PROVE i \in DOMAIN ab /\ ab[i] = a[i]
  BY <1>1, <1>2
<1>4. ASSUME NEW i \in DOMAIN b PROVE Len(a) + i \in DOMAIN ab /\ ab[Len(a) + i] = b[i]
  BY <1>1, <1>2
<1> QED
  BY <1>1, <1>3, <1>4, Zenon DEF Has, ab

\* When close_all() returns, the drain is to await every task but the one select! has
\* awaited.
LEMMA CloseAllExit ==
  ASSUME ExitInv, CloseAll \/ CloseAllReturns
  PROVE  ExitInv'
<1>1. DOMAIN listener' = Listeners /\ exit # "ok" /\ UNCHANGED <<listener, chosen, config>>
  BY Zenon DEF CloseAll, CloseAllReturns, ExitInv
<1>2. CASE CloseAll
  BY <1>1, <1>2, BeforeDrain, Zenon DEF CloseAll, Return
<1>3. CASE CloseAllReturns
  <2>1. \A l \in Listeners : Awaited(l) \in Seq(Listeners)
    BY DEF Awaited
  <2>2. \A l \in Configured \ {chosen} : Has(Awaited(l), l)
    BY DEF Awaited, Has
  <2>3. "http" \in Listeners /\ "tcp" \in Listeners /\ "iroh" \in Listeners
        /\ \A l \in Listeners : l = "http" \/ l = "tcp" \/ l = "iroh"
    BY Zenon DEF Listeners
  <2> DEFINE first == Awaited("http") \o Awaited("tcp")
  <2>4. first \in Seq(Listeners) /\
        \A l : Has(Awaited("http"), l) \/ Has(Awaited("tcp"), l) => Has(first, l)
    BY <2>1, <2>3, TasksJoined, Zenon
  <2> HIDE DEF first
  <2>5. first \o Awaited("iroh") \in Seq(Listeners) /\
        \A l : Has(first, l) \/ Has(Awaited("iroh"), l) => Has(first \o Awaited("iroh"), l)
    BY <2>1, <2>3, <2>4, TasksJoined, Zenon
  <2>6. left' \in Seq(Listeners) /\ left' = first \o Awaited("iroh")
    BY <1>3, <2>5, Zenon DEF first, CloseAllReturns
  <2>7. \A l \in Configured \ {chosen} : Has(left', l)
    <3>1. Configured \subseteq Listeners
      BY Zenon DEF Configured
    <3> QED
      BY <2>2, <2>3, <2>4, <2>5, <2>6, <3>1, Zenon
  <2>8. Configured' = Configured
    BY <1>1, Zenon DEF Configured
  <2> QED
    BY <1>1, <1>3, <2>6, <2>7, <2>8, Zenon DEF ExitInv, CloseAllReturns
<1> QED
  BY <1>2, <1>3, Zenon

\* The drain awaits a task: it goes on only if that has ended without error.
LEMMA AwaitExit ==
  ASSUME ExitInv, Await
  PROVE  ExitInv'
<1>1. DOMAIN listener' = Listeners /\ exit # "ok" /\ UNCHANGED <<listener, chosen, config>>
  BY Zenon DEF Await, ExitInv
<1>2. CASE listener[Head(left)] # "ended"
  BY <1>1, <1>2, Zenon DEF Await, Return, ExitInv
<1>3. CASE listener[Head(left)] = "ended"
  <2>1. left \in Seq(Listeners) /\ left # <<>> /\ left' = Tail(left) /\ UNCHANGED exit
        /\ phase = "draining"
    BY <1>3, Zenon DEF Await, ExitInv
  <2>2. left' \in Seq(Listeners)
    BY <2>1
  <2>3. ASSUME NEW l, Has(left, l), l # Head(left)
        PROVE  Has(left', l)
    <3>1. PICK i \in DOMAIN left : left[i] = l
      BY <2>3, Zenon DEF Has
    <3>2. i \in 2 .. Len(left)
      BY <2>1, <2>3, <3>1
    <3>3. i - 1 \in DOMAIN left' /\ left'[i - 1] = l
      BY <2>1, <3>1, <3>2
    <3> QED
      BY <3>3, Zenon DEF Has
  <2>4. \A l \in Configured \ {chosen} : Has(left, l) \/ listener[l] = "ended"
    BY <2>1, Zenon DEF ExitInv
  <2>5. Configured' = Configured
    BY <1>1, Zenon DEF Configured
  <2>6. \A l \in (Configured \ {chosen})' : Has(left', l) \/ listener'[l] = "ended"
    BY <1>1, <1>3, <2>3, <2>4, <2>5, Zenon
  <2> QED
    BY <1>1, <2>1, <2>2, <2>6, Zenon DEF ExitInv
<1> QED
  BY <1>2, <1>3, Zenon

\* main() returns from the drain.
LEMMA FinishExit ==
  ASSUME ExitInv, phase = "draining", Finish, UNCHANGED <<config, chosen, left>>,
         DOMAIN listener' = Listeners,
         \A l \in Listeners : listener[l] = "ended" => listener'[l] = "ended"
  PROVE  ExitInv'
<1>1. Configured' = Configured /\ Configured \subseteq Listeners
  BY Zenon DEF Configured
<1>2. \A l : Has(left', l) <=> Has(left, l)
  BY Zenon DEF Has
<1>3. \A l \in Configured \ {chosen} : Has(left, l) \/ listener[l] = "ended"
  BY Zenon DEF ExitInv
<1>4. \A l \in (Configured \ {chosen})' : Has(left', l) \/ listener'[l] = "ended"
  BY <1>1, <1>2, <1>3, Zenon
<1>5. phase' = "returned" /\ (exit' = "ok" => chosen' = "signal") /\ left' \in Seq(Listeners)
  BY Zenon DEF Finish, Return, ExitInv
<1> QED
  BY <1>4, <1>5, Zenon DEF ExitInv

\* The drain ends, or its deadline passes and tasks that are up are aborted.
LEMMA DrainExit ==
  ASSUME ExitInv, Drained \/ GraceExpires
  PROVE  ExitInv'
<1>1. CASE Drained
  BY <1>1, FinishExit, Zenon DEF Drained, ExitInv
<1>2. CASE GraceExpires
  BY <1>2, FinishExit, Zenon DEF GraceExpires, ExitInv
<1> QED
  BY <1>1, <1>2, Zenon

\* What leaves main() where it is keeps what it has awaited.
LEMMA OutsideExit ==
  ASSUME ExitInv, UNCHANGED <<config, chosen, left>>, DOMAIN listener' = Listeners,
         \A l \in Listeners : listener[l] = "ended" => listener'[l] = "ended",
         \/ UNCHANGED <<phase, exit>>
         \/ exit' = "killed" /\ phase' = "exited"
         \/ exit' = exit /\ phase = "returned" /\ phase' = "exited"
  PROVE  ExitInv'
<1>1. Configured' = Configured /\ Configured \subseteq Listeners
  BY Zenon DEF Configured
<1>2. \A l : Has(left', l) <=> Has(left, l)
  BY Zenon DEF Has
<1>3. phase' = "draining" \/ exit' = "ok" =>
        \A l \in Configured \ {chosen} : Has(left, l) \/ listener[l] = "ended"
  BY Zenon DEF ExitInv
<1>4. phase' = "draining" \/ exit' = "ok" =>
        \A l \in (Configured \ {chosen})' : Has(left', l) \/ listener'[l] = "ended"
  BY <1>1, <1>2, <1>3, Zenon
<1>5. /\ exit' = "ok" => chosen' = "signal" /\ phase' \in {"returned", "exited"}
      /\ left' \in Seq(Listeners)
  BY Zenon DEF ExitInv
<1> QED
  BY <1>4, <1>5, Zenon DEF ExitInv

\* What main() returns is true: it succeeds only for a signal, and when no listener
\* whose end the drain has seen had failed, whatever fails, ends or hangs meanwhile.
THEOREM ExitIsTrue == Spec => []CleanExit
<1>1. Init => ExitInv
  BY DEF Init, ProcessInit, ExitInv, Listeners
<1>2. ExitInv /\ [Next]_vars => ExitInv'
  <2> SUFFICES ASSUME ExitInv, [Next]_vars PROVE ExitInv'
    BY Zenon
  <2>1. CASE UNCHANGED processVars
    BY <2>1, OutsideExit, Zenon DEF processVars, ExitInv
  <2>2. CASE MainStep
    BY <2>2, ServingExit, AwaitExit, DrainExit, Zenon DEF MainStep
  <2>3. CASE Signal
    BY <2>3, OutsideExit, Zenon DEF Signal, ExitInv
  <2>4. ASSUME NEW l \in Listeners, ListenerEnds(l) PROVE ExitInv'
    BY <2>4, OutsideExit, Zenon DEF ListenerEnds, ExitInv
  <2>5. ASSUME NEW c, Restart(c) PROVE ExitInv'
    BY <2>5 DEF Restart, StartWith, ExitInv
  <2>6. CASE CloseAll \/ CloseAllReturns
    BY <2>6, CloseAllExit, Zenon
  <2>7. CASE Exit \/ Killed
    BY <2>7, OutsideExit, Zenon DEF Exit, Killed, ExitInv
  <2>8. ASSUME NEW c \in Clients, ClientStep(c) PROVE UNCHANGED processVars
    BY <2>8, Zenon DEF ClientStep, OpenConnection, Get, SetConnectionOption, ExecutePartitions,
       ReadPartition, OtherMethod, NewStatementTimesOut, NewStatementReturns, Detach, Done
  <2>9. CASE UNCHANGED vars
    BY <2>1, <2>9, Zenon DEF vars
  <2> QED
    BY <2>1, <2>2, <2>3, <2>4, <2>5, <2>6, <2>7, <2>8, <2>9, Zenon
       DEF Next, ProcessStep, Shutdown, ShutdownReturns, DropManager, Dies, ClockMoves, Drop,
           DestructorReturns
<1>3. ExitInv => CleanExit
  <2> SUFFICES ASSUME ExitInv, exit = "ok", NEW l \in Configured, listener[l] = "failed"
               PROVE  \E i \in DOMAIN left : left[i] = l
    BY Zenon DEF CleanExit, ExitInv
  <2>1. chosen = "signal" /\ l # "signal"
    BY Zenon DEF ExitInv, Configured, Listeners
  <2> QED
    BY <2>1, Zenon DEF ExitInv, Has
<1> QED
  BY <1>1, <1>2, <1>3, PTL DEF Spec

--------------------------------------------------------------------------------
(* Whom main() and the runtime wait for.                                    *)

\* A listener's task that was started, and may have ended, but was not aborted.
Launched == {"up", "ended", "failed"}

\* main() awaits only tasks that were started and told to stop: the TCP listener's
\* when Iroh fails to start, and every listener's in the drain.  In close_all() it waits
\* for sessions, which may be for ever; then too every listener has been told, and no
\* session is left that a request could still look up.  So has the runtime told the
\* one listener's thread it waits for when main() has returned, and which nobody can
\* abort, wherever main() returned from.
WaitsAreTold ==
  /\ phase = "joining" => "tcp" \in told /\ listener["tcp"] \in Launched
  /\ phase = "dropping" => told = Listeners /\ registered = {}
  /\ phase = "draining" => \A l \in Configured : l \in told /\ listener[l] \in Launched
  /\ phase = "returned" /\ listener["tcp"] = "up" => "tcp" \in told

\* The strengthening follows main() from one listener to the next.
ToldInv ==
  /\ WaitsAreTold
  /\ DOMAIN listener = Listeners
  /\ phase \in {"config", "http", "tcp"} => listener["tcp"] = "off"
  /\ phase = "iroh" /\ "tcp" \in Configured => listener["tcp"] \in Launched
  /\ phase \in {"serving", "closing", "dropping"} =>
       \A l \in Configured : listener[l] \in Launched
  /\ phase \in {"closing", "dropping", "draining"} => told = Listeners

\* main() up to the TCP listener: nothing the runtime would wait for has begun.
LEMMA StartingTold ==
  ASSUME ToldInv, LoadConfig \/ BindHttp \/ StartTcp
  PROVE  ToldInv'
<1> USE DEF ToldInv, WaitsAreTold, Return
<1>1. "http" \in Listeners /\ "tcp" \in Listeners /\ Configured' = Configured
  BY Zenon DEF Listeners, Configured, LoadConfig, BindHttp, StartTcp
<1>2. CASE LoadConfig
  BY <1>1, <1>2, Zenon DEF LoadConfig
<1>3. CASE BindHttp
  BY <1>1, <1>3, Zenon DEF BindHttp
<1>4. CASE StartTcp
  BY <1>1, <1>4, Zenon DEF StartTcp, Launched
<1> QED
  BY <1>2, <1>3, <1>4, Zenon

\* The Iroh listener, and what happens when it fails to start.
LEMMA IrohTold ==
  ASSUME ToldInv, StartIroh \/ IrohFails \/ JoinTcp
  PROVE  ToldInv'
<1> USE DEF ToldInv, WaitsAreTold, Return
<1>1. "http" \in Listeners /\ "tcp" \in Listeners /\ "iroh" \in Listeners
      /\ (\A l \in Listeners : l = "http" \/ l = "tcp" \/ l = "iroh")
      /\ Configured' = Configured /\ Configured \subseteq Listeners
  BY Zenon DEF Listeners, Configured, StartIroh, IrohFails, JoinTcp
<1>2. CASE StartIroh
  <2>1. /\ phase' = "serving" /\ DOMAIN listener' = Listeners
        /\ listener'["http"] = "up" /\ listener'["tcp"] = listener["tcp"]
        /\ "iroh" \in Configured => listener'["iroh"] = "up"
    BY <1>1, <1>2, Zenon DEF StartIroh
  <2>2. \A l \in Configured : listener'[l] \in Launched
    BY <1>1, <1>2, <2>1, Zenon DEF StartIroh, Launched
  <2> QED
    BY <1>1, <2>1, <2>2, Zenon
<1>3. CASE IrohFails
  BY <1>1, <1>3, Zenon DEF IrohFails
<1>4. CASE JoinTcp
  BY <1>1, <1>4, Zenon DEF JoinTcp, Finished
<1> QED
  BY <1>2, <1>3, <1>4, Zenon

\* The end of the service: the token and the flag first, then the wait.
LEMMA EndingTold ==
  ASSUME ToldInv, phase' = "dropping" => registered' = {},
         Select \/ CloseAll \/ CloseAllReturns \/ Await \/ Drained \/ GraceExpires
  PROVE  ToldInv'
<1> USE DEF ToldInv, WaitsAreTold, Return
<1>1. "tcp" \in Listeners /\ Configured' = Configured /\ Configured \subseteq Listeners
  BY Zenon DEF Listeners, Configured, Select, CloseAll, CloseAllReturns, Await, Drained,
     GraceExpires
<1>2. CASE Select
  BY <1>1, <1>2, Zenon DEF Select
<1>3. CASE CloseAll
  BY <1>1, <1>3, Zenon DEF CloseAll
<1>4. CASE Await
  <2>1. CASE phase' = "draining"
    BY <1>1, <1>4, <2>1, Zenon DEF Await
  <2>2. CASE phase' = "returned"
    BY <1>1, <1>4, <2>2, Zenon DEF Await
  <2> QED
    BY <1>4, <2>1, <2>2, Zenon DEF Await
<1>5. CASE Drained
  BY <1>1, <1>5, Zenon DEF Drained, Finish
<1>6. CASE GraceExpires
  BY <1>1, <1>6, Zenon DEF GraceExpires, Finish
<1>7. CASE CloseAllReturns
  BY <1>1, <1>7, Zenon DEF CloseAllReturns
<1> QED
  BY <1>2, <1>3, <1>4, <1>5, <1>6, <1>7, Zenon

\* A listener ends, a signal comes, the process goes or another one starts.  No session
\* is registered meanwhile if close_all() has taken them.
LEMMA OutsideTold ==
  ASSUME ToldInv, phase' = "dropping" => registered' \subseteq registered,
         \/ \E l \in Listeners : ListenerEnds(l)
         \/ Signal \/ Exit \/ Killed \/ (\E c : Restart(c)) \/ UNCHANGED processVars
  PROVE  ToldInv'
<1> USE DEF ToldInv, WaitsAreTold
<1>1. ASSUME NEW l \in Listeners, ListenerEnds(l) PROVE ToldInv'
  <2>1. /\ UNCHANGED <<phase, told>> /\ DOMAIN listener' = Listeners /\ listener[l] = "up"
        /\ \A k \in Listeners : k # l => listener'[k] = listener[k]
        /\ listener'[l] \in {"ended", "failed"} /\ Configured' = Configured
    BY <1>1, Zenon DEF ListenerEnds, Configured
  <2>2. "tcp" \in Listeners /\ Configured \subseteq Listeners
    BY Zenon DEF Listeners, Configured
  <2>3. \A k \in Listeners : listener[k] \in Launched => listener'[k] \in Launched
    BY <2>1, Zenon DEF Launched
  <2>4. listener["tcp"] = "off" => listener'["tcp"] = "off"
    BY <2>1, <2>2, Zenon
  <2>5. listener'["tcp"] = "up" => listener["tcp"] = "up"
    BY <2>1, <2>2, Zenon
  <2> QED
    BY <2>1, <2>2, <2>3, <2>4, <2>5, Zenon
<1>2. CASE Signal \/ UNCHANGED processVars
  <2>1. UNCHANGED <<phase, told, listener, config>>
    BY <1>2, Zenon DEF Signal, processVars
  <2> QED
    BY <2>1, Zenon DEF Configured
<1>3. CASE Exit \/ Killed
  BY <1>3, Zenon DEF Exit, Killed
<1>4. ASSUME NEW c, Restart(c) PROVE ToldInv'
  BY <1>4, Zenon DEF Restart, StartWith, Listeners
<1> QED
  BY <1>1, <1>2, <1>3, <1>4, Zenon

\* For any configuration and whatever fails or hangs on the way, nobody waits for a
\* listener that has not been told to stop, and main() waits for sessions only when it
\* has told them all.
THEOREM WaitsTold == Spec => []WaitsAreTold
<1>1. Init => ToldInv
  BY Zenon DEF Init, ProcessInit, ToldInv, WaitsAreTold, Listeners
<1>2. ToldInv /\ [Next]_vars => ToldInv'
  <2> SUFFICES ASSUME ToldInv, [Next]_vars PROVE ToldInv'
    BY Zenon
  <2>1. ASSUME NEW c \in Clients, ClientStep(c) PROVE ToldInv'
    <3>1. UNCHANGED processVars
      BY <2>1, Zenon DEF ClientStep, OpenConnection, Get, SetConnectionOption,
         ExecutePartitions, ReadPartition, OtherMethod, NewStatementTimesOut,
         NewStatementReturns, Detach, Done
    <3>2. phase' = "dropping" => registered' \subseteq registered
      <4>1. CASE OpenConnection(c)
        BY <4>1, Zenon DEF OpenConnection, Closing, processVars
      <4>2. CASE ~OpenConnection(c)
        BY <2>1, <4>2, Zenon DEF ClientStep, Get, SetConnectionOption, ExecutePartitions,
           ReadPartition, OtherMethod, NewStatementTimesOut, NewStatementReturns, Detach, Done
      <4> QED
        BY <4>1, <4>2, Zenon
    <3> QED
      BY <3>1, <3>2, OutsideTold, Zenon
  <2>2. CASE ClockMoves \/ UNCHANGED vars
    BY <2>2, OutsideTold, Zenon DEF ClockMoves, vars, sessionVars
  <2>3. CASE ProcessStep
    <3>1. UNCHANGED registered
      BY <2>3, Zenon DEF ProcessStep, sessionVars
    <3>2. MainStep => phase' # "dropping"
      BY Zenon DEF MainStep, LoadConfig, BindHttp, StartTcp, StartIroh, IrohFails, JoinTcp,
         Select, Await, Drained, GraceExpires, Finish, Return
    <3> QED
      BY <2>3, <3>1, <3>2, StartingTold, IrohTold, EndingTold, OutsideTold, Zenon
         DEF ProcessStep, MainStep
  <2>4. CASE Shutdown \/ ShutdownReturns
    <3>1. phase' = "dropping" => registered' = {}
      BY <2>4, Zenon DEF Shutdown, ShutdownReturns, CloseAllReturns
    <3> QED
      BY <2>4, <3>1, EndingTold, Zenon DEF Shutdown, ShutdownReturns
  <2>5. CASE DropManager \/ \E t \in Droppers : Drop(t) \/ DestructorReturns(t)
    <3>1. UNCHANGED processVars /\ registered' \subseteq registered
      BY <2>5, Zenon DEF DropManager, Drop, DestructorReturns
    <3> QED
      BY <3>1, OutsideTold, Zenon
  <2>6. CASE Dies
    BY <2>6, OutsideTold, Zenon DEF Dies
  <2> QED
    BY <2>1, <2>2, <2>3, <2>4, <2>5, <2>6, Zenon DEF Next
<1>3. ToldInv => WaitsAreTold
  BY Zenon DEF ToldInv
<1> QED
  BY <1>1, <1>2, <1>3, PTL DEF Spec

================================================================================

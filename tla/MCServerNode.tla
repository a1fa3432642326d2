------------------------------ MODULE MCServerNode ------------------------------
(***************************************************************************)
(* An instance of ServerNode.  Names are sequences over two letters.  The  *)
(* target t2 begins as t1 does, and the name of the one known client is    *)
(* that of anonymous clients.  No request can name t0, which has a NUL.   *)
(***************************************************************************)
EXTENDS ServerNode, TLC

CONSTANTS Service, c1, c2, d1, d2, d3, k, m, own

MCEncode64 == "bytes" :> "text"
MCDecode64 == ("text" :> "bytes") @@ ("other" :> Malformed)
MCLetters == {"0", "a", "b"}
t0 == <<"a", "0", "b">>
t1 == <<"a">>
t2 == <<"a", "b">>
MCDomains == [http |-> <<"b">>, tcp |-> <<"b", "b">>, iroh |-> <<"a">>]
MCAnonymous == <<"a">>
MCPayloadSize == (d1 :> 1) @@ (d2 :> 4) @@ (d3 :> 6)

\* An error of every status but Ok: with a SQLSTATE and a detail; or with a byte above 127.
MCErrors ==
  LET detail == [key |-> "k", value |-> "bytes"]
  IN  {[status |-> s, vendor_code |-> -1, sqlstate |-> <<52, 50, 83, 48, 50>>,
        details |-> <<detail>>] : s \in Statuses \ {"Ok"}}
      \cup {[Plain("IO") EXCEPT !.sqlstate[1] = 200]}

Opt(key, value) == [key |-> key, value |-> value]
NoOptions == [database |-> {}, connection |-> {}]

\* t1 has a uri and one connection option of its own; t2 lets clients choose theirs.
Target1 ==
  [configured |-> [database |-> {Opt(Uri, "op")}, connection |-> {Opt(k, "op")}],
   allow_all  |-> [database |-> FALSE, connection |-> TRUE],
   allowed    |-> [database |-> {k}, connection |-> {}]]
Target2 ==
  [configured |-> NoOptions,
   allow_all  |-> [database |-> TRUE, connection |-> FALSE],
   allowed    |-> [database |-> {}, connection |-> {m}]]

\* Everyone may do everything, by HTTP or more transports; everything is for the known
\* client only, although an anonymous one has the same name; known clients only,
\* and only t1 for the one name, which is that of the Iroh endpoint or is not, or any
\* target for the principal of the endpoint; and a target that lets clients set what
\* it sets.
Http1 ==
  [listeners |-> [tcp |-> FALSE, iroh |-> FALSE], tls |-> FALSE, require_auth |-> FALSE,
   bearer |-> "token" :> <<"a">>, endpoints |-> <<>>, permissions |-> <<>>,
   targets |-> (t0 :> Target2) @@ (t1 :> Target1) @@ (t2 :> Target2), faults |-> {}]
Http2 ==
  [Http1 EXCEPT !.permissions = (Principal(<<>>, MCAnonymous) :> {t2})
                                @@ (Principal(MCDomains["http"], <<"a">>) :> {AnyTarget})]
Iroh1 == [Http1 EXCEPT !.listeners["iroh"] = TRUE]
Open1 == [Iroh1 EXCEPT !.listeners["tcp"] = TRUE]
Closed1 ==
  [Http1 EXCEPT !.listeners["iroh"] = TRUE, !.require_auth = TRUE,
                !.endpoints = "id" :> <<"a">>, !.permissions = (<<"a">> :> {t1})]
Closed2 == [Closed1 EXCEPT !.endpoints = "id" :> <<"b">>]
Closed3 ==
  [Closed2 EXCEPT !.permissions = Principal(MCDomains["iroh"], <<"b">>) :> {AnyTarget}]
Wrong1 == [Http1 EXCEPT !.targets[t1].allowed["database"] = {k, Uri}]

\* Tokens passed between two clients; one client and its options, with a
\* configuration that is refused; tokens of several partitions, and errors; the other
\* transports; and two clients of a driver whose calls may not return.
MCWorkloads ==
  LET by(t, c) == [transport |-> t, credential |-> c]
      remote == Opt(GrainliftUri, Service)
  IN  {[configs |-> {Http2},
        login |-> (c1 :> by("http", "token")) @@ (c2 :> by("http", Nobody)),
        databases |-> {{remote}}, options |-> {{}}, results |-> {<<d1>>},
        errors |-> {}, hangs |-> FALSE],
       [configs |-> {Http1, Wrong1}, login |-> c1 :> by("http", "token"),
        databases |-> {{Opt(Uri, Service), Opt(k, "app")}, {remote, Opt(Uri, "app")},
                       {remote, Opt(own, "app")}, {Opt(k, "app")}},
        options |-> {{}, {Opt(k, "app")}, {Opt(m, "app")}, {Opt(m, "app"), Opt(m, "other")}},
        results |-> {}, errors |-> {}, hangs |-> FALSE],
       [configs |-> {Http1}, login |-> c1 :> by("http", "token"), databases |-> {{remote}},
        options |-> {{}}, results |-> {<<d2, d1>>, <<d3>>, <<d1, d3>>},
        errors |-> MCErrors, hangs |-> FALSE],
       [configs |-> {Iroh1, Closed1, Closed2, Closed3}, login |-> c1 :> by("iroh", "id"),
        databases |-> {{remote}}, options |-> {{}}, results |-> {}, errors |-> {},
        hangs |-> FALSE],
       [configs |-> {Open1}, login |-> c1 :> by("tcp", Nobody), databases |-> {{remote}},
        options |-> {{}}, results |-> {}, errors |-> {}, hangs |-> FALSE],
       [configs |-> {Http2},
        login |-> (c1 :> by("http", "token")) @@ (c2 :> by("http", Nobody)),
        databases |-> {{remote}}, options |-> {{}}, results |-> {}, errors |-> {},
        hangs |-> TRUE]}

================================================================================

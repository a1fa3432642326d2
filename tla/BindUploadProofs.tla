---------------------------- MODULE BindUploadProofs ----------------------------
(***************************************************************************)
(* Proofs about BindUpload for any uploads, inputs, sizes and limits.      *)
(***************************************************************************)
EXTENDS BindUpload, TLAPS

\* The type invariant, in two halves.
ExchangeTypes ==
  /\ sizes \in Inputs
  /\ client \in [Uploads -> ClientState] /\ sent \in [Uploads -> Nat]
  /\ cancelling \subseteq Uploads
  /\ handler \in [Uploads -> HandlerState]
  /\ registry \subseteq Uploads /\ lock \in Uploads \cup {None}
  /\ statement \in {"open", "removed", "closed", "aborted"}
  /\ cancelled \subseteq Uploads

SpoolTypes ==
  /\ mailbox \in [Uploads -> {<<>>, <<"push">>, <<"finish">>, <<"cancel">>}]
  /\ actor \in [Uploads -> {"none", "running", "gone"}]
  /\ terminal \subseteq Uploads
  /\ staged \in [Uploads -> Seq(Nat)] /\ written \in [Uploads -> Nat]
  /\ reply \in [Uploads -> {"none", "ok", "error"}]
  /\ job \in [Uploads -> {"none", "queued", "running", "done"}]
  /\ bound \subseteq Uploads \X Seq(Nat)

\* What the client's state says of the handler, and the lock of its holder; nobody
\* has a session that is being dropped.
Turns(u) ==
  /\ client[u] = "idle" =>
       /\ handler[u] = "none" /\ job[u] = "none" /\ mailbox[u] = <<>>
       /\ u \notin registry /\ u \notin cancelled
       /\ sent[u] = 0 /\ staged[u] = <<>>
  /\ client[u] = "open" => handler[u] = "none" /\ job[u] = "none"
  /\ client[u] = "turn" => handler[u] # "none"
  /\ handler[u] = "starting" => sent[u] = 0 /\ staged[u] = <<>>
  /\ handler[u] \in {"starting", "inserting"} =>
       /\ job[u] = "none" /\ mailbox[u] = <<>>
       /\ u \notin registry /\ u \notin cancelled
  /\ handler[u] = "pushing" <=> lock = u
  /\ dropped => handler[u] = "none"

\* An upload that is registered is at nobody's disposal but its push's, and one
\* that has been taken out for its finish cannot be cancelled any more.
Registered(u) ==
  /\ u \in registry =>
       /\ job[u] = "none" /\ u \notin cancelled
       /\ handler[u] \notin {"starting", "inserting", "finishing", "binding"}
       /\ handler[u] # "pushing" => mailbox[u] = <<>>
  /\ handler[u] = "pushing" =>
       /\ u \in registry
       /\ mailbox[u] = IF reply[u] = "none" THEN <<"push">> ELSE <<>>
  /\ handler[u] = "finishing" =>
       /\ job[u] = "none" /\ u \notin registry /\ u \notin cancelled
       /\ mailbox[u] = IF reply[u] = "none" THEN <<"finish">> ELSE <<>>
  /\ mailbox[u] = <<"push">> => handler[u] = "pushing"
  /\ mailbox[u] = <<"finish">> => handler[u] = "finishing"

\* The file has the batches acknowledged, and the one whose acknowledgement is
\* on its way, unless the actor has failed.
Progress(u) ==
  /\ sent[u] <= Len(sizes[u])
  /\ handler[u] \in {"push", "pushing"} => sent[u] < Len(sizes[u])
  /\ handler[u] \in {"finish", "finishing"} => sent[u] = Len(sizes[u])
  /\ handler[u] = "pushing" /\ reply[u] = "error" => u \in terminal
  /\ u \notin terminal =>
       /\ Len(staged[u]) = IF handler[u] = "pushing" /\ reply[u] = "ok"
                            THEN sent[u] + 1 ELSE sent[u]
       /\ \A i \in 1..Len(staged[u]) : staged[u][i] = i

\* What goes to the statement is whole and does not change any more.
Sealed(u) ==
  /\ u \notin terminal /\ actor[u] = "gone" /\ written[u] <= MaxBytes
  /\ Len(staged[u]) = Len(sizes[u])

Handed(u) ==
  /\ handler[u] = "finishing" /\ reply[u] = "ok" => Sealed(u)
  /\ handler[u] = "binding" => job[u] \in {"queued", "running"}
  /\ job[u] # "none" =>
       /\ Sealed(u)
       /\ Mode[u] = "batch" => Len(staged[u]) = 1
       /\ handler[u] \in {"none", "binding"}
       /\ client[u] \notin {"idle", "open"}
       /\ u \notin registry /\ u \notin cancelled

Given(u) ==
  /\ \A b \in bound : b[1] = u => job[u] = "done" /\ b[2] = staged[u]
  /\ client[u] = "ok" => \E b \in bound : b[1] = u

UploadInv(u) == Turns(u) /\ Registered(u) /\ Progress(u) /\ Handed(u) /\ Given(u)

Inv ==
  /\ ExchangeTypes /\ SpoolTypes /\ dropped \in BOOLEAN
  /\ \A u \in Uploads : UploadInv(u)

--------------------------------------------------------------------------------
\* Nothing the invariant says of an upload has changed.
Same(u) ==
  /\ sizes' = sizes
  /\ client'[u] = client[u] /\ sent'[u] = sent[u] /\ handler'[u] = handler[u]
  /\ u \in registry' <=> u \in registry
  /\ lock' = u <=> lock = u
  /\ mailbox'[u] = mailbox[u] /\ actor'[u] = actor[u] /\ staged'[u] = staged[u]
  /\ u \in terminal' <=> u \in terminal
  /\ written'[u] = written[u] /\ reply'[u] = reply[u] /\ job'[u] = job[u]
  /\ u \in cancelled' <=> u \in cancelled
  /\ dropped' = dropped
  /\ \A b : b[1] = u => (b \in bound' <=> b \in bound)

\* What does not touch an upload keeps what is known of it.
LEMMA SameKeeps ==
  ASSUME NEW u \in Uploads, UploadInv(u), Same(u)
  PROVE  UploadInv(u)'
<1>1. Turns(u)'
  BY Zenon DEF UploadInv, Same, Turns
<1>2. Registered(u)'
  BY Zenon DEF UploadInv, Same, Registered
<1>3. Progress(u)'
  BY Zenon DEF UploadInv, Same, Progress
<1>4. Handed(u)'
  BY Zenon DEF UploadInv, Same, Handed, Sealed
<1>5. Given(u)'
  BY Zenon DEF UploadInv, Same, Given
<1> QED
  BY <1>1, <1>2, <1>3, <1>4, <1>5, Zenon DEF UploadInv

\* So a step that touches upload u keeps the invariant if it keeps what is known
\* of u.
LEMMA StepKeeps ==
  ASSUME Inv, NEW u \in Uploads, ExchangeTypes' /\ SpoolTypes', dropped' \in BOOLEAN,
         \A v \in Uploads \ {u} : Same(v), UploadInv(u)'
  PROVE  Inv'
<1>1. ASSUME NEW v \in Uploads, v # u PROVE UploadInv(v)'
  BY <1>1, SameKeeps, Zenon DEF Inv
<1> QED
  BY <1>1, Zenon DEF Inv

\* The channels of an actor.
LEMMA Channels ==
  /\ \A c \in {"push", "finish", "cancel"} :
       Append(<<>>, c) = <<c>> /\ Head(<<c>>) = c /\ Tail(<<c>>) = <<>> /\ <<c>> # <<>>
  /\ <<"push">> # <<"finish">> /\ <<"push">> # <<"cancel">> /\ <<"finish">> # <<"cancel">>
OBVIOUS

\* A handler moves on, or answers.
LEMMA MovesTypes ==
  ASSUME ExchangeTypes, NEW u \in Uploads, NEW h \in HandlerState, Moves(u, h)
  PROVE  handler' \in [Uploads -> HandlerState]
BY Zenon DEF ExchangeTypes, Moves

\* An answer to a handler leaves the variables in their types.
LEMMA RespondTypes ==
  ASSUME ExchangeTypes, NEW u \in Uploads, NEW a \in ClientState, Respond(u, a)
  PROVE  /\ client' \in [Uploads -> ClientState]
         /\ handler' \in [Uploads -> HandlerState]
         /\ cancelling' \subseteq Uploads
<1>1. client' \in [Uploads -> ClientState]
  <2>1. client' = [client EXCEPT ![u] = a] \/ client' = client
    BY Zenon DEF ExchangeTypes, Respond
  <2> QED
    BY <2>1, Zenon DEF ExchangeTypes
<1>2. Moves(u, "none") /\ "none" \in HandlerState
  BY Zenon DEF Respond, HandlerState
<1>3. handler' \in [Uploads -> HandlerState]
  BY <1>2, MovesTypes, Zenon
<1>4. cancelling' \subseteq Uploads
  BY Zenon DEF ExchangeTypes, Respond
<1> QED
  BY <1>1, <1>3, <1>4, Zenon

\* In the beginning nothing has been sent.
LEMMA InitInv == Init => Inv
<1> SUFFICES ASSUME Init PROVE Inv
  BY Zenon
<1>1. ExchangeTypes /\ SpoolTypes
  BY DEF Init, ExchangeTypes, SpoolTypes, ClientState, HandlerState
<1>2. dropped \in BOOLEAN
  BY Zenon DEF Init
<1>3. ASSUME NEW u \in Uploads PROVE UploadInv(u)
  <2>1. sizes[u] \in Seq(Nat) /\ None # u
    BY BindAssumption, Zenon DEF Init
  <2>2. Turns(u) /\ Registered(u) /\ Progress(u) /\ Handed(u) /\ Given(u)
    BY <2>1 DEF Init, Turns, Registered, Progress, Handed, Given
  <2> QED
    BY <2>2, Zenon DEF UploadInv
<1> QED
  BY <1>1, <1>2, <1>3, Zenon DEF Inv

\* A client's first turn.
LEMMA StartKeeps ==
  ASSUME Inv, NEW u \in Uploads, Start(u)
  PROVE  Inv'
<1>1. /\ ExchangeTypes /\ SpoolTypes /\ UploadInv(u) /\ dropped' \in BOOLEAN
      /\ sizes[u] \in Seq(Nat) /\ sent[u] \in Nat /\ None \notin Uploads
  BY BindAssumption DEF Inv, ExchangeTypes, Start
<1>2. /\ client[u] = "idle" /\ client'[u] = "turn" /\ handler'[u] = "starting" /\ ~dropped
      /\ UNCHANGED <<sizes, sent, registry, lock, spool, job, dropped, bound, cancelled>>
  BY <1>1, Zenon DEF Start, Moves, ExchangeTypes
<1>3. ExchangeTypes' /\ SpoolTypes'
  <2>1. ExchangeTypes'
    BY <1>1, Zenon DEF Start, Moves, ExchangeTypes, ClientState, HandlerState
  <2>2. SpoolTypes'
    BY <1>1, Zenon DEF Start, SpoolTypes, spool
  <2> QED
    BY <2>1, <2>2, Zenon
<1>4. \A v \in Uploads \ {u} : Same(v)
  BY DEF Start, Moves, Same, spool
<1>5. UploadInv(u)'
  BY <1>1, <1>2, Zenon DEF UploadInv, Turns, Registered, spool, Progress, Handed, Given
<1> QED
  BY <1>1, <1>3, <1>4, <1>5, StepKeeps, Zenon

\* The statement is found and the upload started, or it is not.
LEMMA StartLookupKeeps ==
  ASSUME Inv, NEW u \in Uploads, StartLookup(u)
  PROVE  Inv'
<1>1. /\ ExchangeTypes /\ SpoolTypes /\ UploadInv(u) /\ dropped' \in BOOLEAN
      /\ sizes[u] \in Seq(Nat) /\ sent[u] \in Nat /\ None \notin Uploads
  BY BindAssumption DEF Inv, ExchangeTypes, StartLookup
<1>2. /\ handler[u] = "starting"
      /\ \/ handler'[u] = "inserting" /\ client' = client
         \/ handler'[u] = "none" /\ client'[u] = "error"
      /\ terminal \subseteq terminal'
      /\ UNCHANGED <<sizes, sent, registry, lock, mailbox, staged, reply, job, dropped, bound,
                     cancelled>>
  BY <1>1, Zenon DEF StartLookup, Moves, ExchangeTypes
<1>3. ExchangeTypes' /\ SpoolTypes'
  <2>1. ExchangeTypes'
    BY <1>1, Zenon DEF StartLookup, Moves, ExchangeTypes, ClientState, HandlerState
  <2>2. actor' \in [Uploads -> {"none", "running", "gone"}] /\ terminal' \subseteq Uploads
    <3>1. actor' = [actor EXCEPT ![u] = "running"] \/ actor' = actor
      BY Zenon DEF StartLookup
    <3>2. actor' \in [Uploads -> {"none", "running", "gone"}]
      BY <1>1, <3>1, Zenon DEF SpoolTypes
    <3>3. terminal' \in {terminal, terminal \cup {u}}
      BY Zenon DEF StartLookup
    <3> QED
      BY <1>1, <3>2, <3>3, Zenon DEF SpoolTypes
  <2>3. written' \in [Uploads -> Nat]
    <3>1. written' = [written EXCEPT ![u] = Header] \/ written' = written
      BY Zenon DEF StartLookup
    <3>2. written \in [Uploads -> Nat] /\ Header \in Nat
      BY <1>1, BindAssumption, Zenon DEF SpoolTypes
    <3> QED
      BY <3>1, <3>2, Zenon
  <2>4. SpoolTypes'
    BY <1>1, <2>2, <2>3, Zenon DEF StartLookup, SpoolTypes
  <2> QED
    BY <2>1, <2>4, Zenon
<1>4. \A v \in Uploads \ {u} : Same(v)
  BY <1>1 DEF StartLookup, Moves, ExchangeTypes, SpoolTypes, Same, UploadInv, Turns
<1>5. UploadInv(u)'
  BY <1>1, <1>2, Zenon DEF UploadInv, Turns, Registered, Progress, Handed, Given
<1> QED
  BY <1>1, <1>3, <1>4, <1>5, StepKeeps, Zenon

\* It is registered.
LEMMA StartInsertKeeps ==
  ASSUME Inv, NEW u \in Uploads, StartInsert(u)
  PROVE  Inv'
<1>1. /\ ExchangeTypes /\ SpoolTypes /\ UploadInv(u) /\ dropped' \in BOOLEAN
      /\ sizes[u] \in Seq(Nat) /\ sent[u] \in Nat /\ None \notin Uploads
  BY BindAssumption DEF Inv, ExchangeTypes, StartInsert
<1>2. /\ handler[u] = "inserting" /\ lock = None
      /\ registry' = registry \cup {u}
      /\ handler'[u] = "none" /\ client'[u] = IF client[u] = "turn" THEN "open" ELSE client[u]
      /\ UNCHANGED <<sizes, sent, lock, spool, job, dropped, bound, cancelled>>
  BY <1>1, Zenon DEF StartInsert, Respond, Moves, ExchangeTypes
<1>3. ExchangeTypes' /\ SpoolTypes'
  <2>1. "open" \in ClientState
    BY Zenon DEF ClientState
  <2>2. /\ client' \in [Uploads -> ClientState] /\ handler' \in [Uploads -> HandlerState]
        /\ cancelling' \subseteq Uploads
    BY <1>1, <2>1, RespondTypes, Zenon DEF StartInsert
  <2>4. ExchangeTypes'
    BY <1>1, <2>2, Zenon DEF StartInsert, ExchangeTypes
  <2>5. SpoolTypes'
    BY <1>1, Zenon DEF StartInsert, SpoolTypes, spool
  <2> QED
    BY <2>4, <2>5, Zenon
<1>4. \A v \in Uploads \ {u} : Same(v)
  BY DEF StartInsert, Respond, Moves, Same, spool
<1>5. UploadInv(u)'
  BY <1>1, <1>2, Zenon DEF UploadInv, Turns, Registered, spool, Progress, Handed, Given
<1> QED
  BY <1>1, <1>3, <1>4, <1>5, StepKeeps, Zenon

\* A turn is sent.
LEMMA SendTurnKeeps ==
  ASSUME Inv, NEW u \in Uploads, SendTurn(u)
  PROVE  Inv'
<1>1. /\ ExchangeTypes /\ SpoolTypes /\ UploadInv(u) /\ dropped' \in BOOLEAN
      /\ sizes[u] \in Seq(Nat) /\ sent[u] \in Nat /\ None \notin Uploads
  BY BindAssumption DEF Inv, ExchangeTypes, SendTurn
<1>2. /\ client[u] = "open" /\ client'[u] = "turn" /\ ~dropped
      /\ handler'[u] = IF sent[u] < Len(sizes[u]) THEN "push" ELSE "finish"
      /\ UNCHANGED <<sizes, sent, registry, lock, spool, job, dropped, bound, cancelled>>
  BY <1>1, Zenon DEF SendTurn, Moves, ExchangeTypes
<1>3. ExchangeTypes' /\ SpoolTypes'
  <2>1. ExchangeTypes'
    BY <1>1, Zenon DEF SendTurn, Moves, ExchangeTypes, ClientState, HandlerState
  <2>2. SpoolTypes'
    BY <1>1, Zenon DEF SendTurn, SpoolTypes, spool
  <2> QED
    BY <2>1, <2>2, Zenon
<1>4. \A v \in Uploads \ {u} : Same(v)
  BY DEF SendTurn, Moves, Same, spool
<1>5. UploadInv(u)'
  BY <1>1, <1>2 DEF UploadInv, Turns, Registered, spool, Progress, Handed, Given
<1> QED
  BY <1>1, <1>3, <1>4, <1>5, StepKeeps, Zenon

\* The client gives up.
LEMMA ClientFailsKeeps ==
  ASSUME Inv, NEW u \in Uploads, ClientFails(u)
  PROVE  Inv'
<1>1. /\ ExchangeTypes /\ SpoolTypes /\ UploadInv(u) /\ dropped' \in BOOLEAN
      /\ sizes[u] \in Seq(Nat) /\ sent[u] \in Nat /\ None \notin Uploads
  BY BindAssumption DEF Inv, ExchangeTypes, ClientFails
<1>2. /\ client[u] \in {"open", "turn"} /\ client'[u] = "error"
      /\ UNCHANGED <<sizes, sent, handler, registry, lock, spool, job, dropped, bound, cancelled>>
  BY <1>1, Zenon DEF ClientFails, ExchangeTypes
<1>3. ExchangeTypes' /\ SpoolTypes'
  <2>1. ExchangeTypes'
    BY <1>1, Zenon DEF ClientFails, ExchangeTypes, ClientState
  <2>2. SpoolTypes'
    BY <1>1, Zenon DEF ClientFails, SpoolTypes, spool
  <2> QED
    BY <2>1, <2>2, Zenon
<1>4. \A v \in Uploads \ {u} : Same(v)
  BY DEF ClientFails, Same, spool
<1>5. UploadInv(u)'
  BY <1>1, <1>2, ZenonT(30) DEF UploadInv, Turns, spool, Registered, Progress, Handed, Sealed, Given
<1> QED
  BY <1>1, <1>3, <1>4, <1>5, StepKeeps, Zenon

\* A turn cannot be decoded.
LEMMA UndecodableKeeps ==
  ASSUME Inv, NEW u \in Uploads, Undecodable(u)
  PROVE  Inv'
<1>1. /\ ExchangeTypes /\ SpoolTypes /\ UploadInv(u) /\ dropped' \in BOOLEAN
      /\ sizes[u] \in Seq(Nat) /\ sent[u] \in Nat /\ None \notin Uploads
  BY BindAssumption DEF Inv, ExchangeTypes, Undecodable
<1>2. /\ handler[u] = "push" /\ handler'[u] = "undo"
      /\ UNCHANGED <<sizes, client, sent, registry, lock, spool, job, dropped, bound, cancelled>>
  BY <1>1, Zenon DEF Undecodable, Moves, ExchangeTypes
<1>3. ExchangeTypes' /\ SpoolTypes'
  <2>1. ExchangeTypes'
    BY <1>1, Zenon DEF Undecodable, Moves, ExchangeTypes, HandlerState
  <2>2. SpoolTypes'
    BY <1>1, Zenon DEF Undecodable, SpoolTypes, spool
  <2> QED
    BY <2>1, <2>2, Zenon
<1>4. \A v \in Uploads \ {u} : Same(v)
  BY DEF Undecodable, Moves, Same, spool
<1>5. UploadInv(u)'
  BY <1>1, <1>2, Zenon DEF UploadInv, Turns, Registered, spool, Progress, Handed, Given
<1> QED
  BY <1>1, <1>3, <1>4, <1>5, StepKeeps, Zenon

\* A cancellation arrives.
LEMMA OnCancelKeeps ==
  ASSUME Inv, NEW u \in Uploads, OnCancel(u)
  PROVE  Inv'
<1>1. /\ ExchangeTypes /\ SpoolTypes /\ UploadInv(u) /\ dropped' \in BOOLEAN
      /\ sizes[u] \in Seq(Nat) /\ sent[u] \in Nat /\ None \notin Uploads
  BY BindAssumption DEF Inv, ExchangeTypes, OnCancel
<1>2. /\ lock = None
      /\ registry' = registry \ {u} /\ cancelled' = cancelled \cup (registry \cap {u})
      /\ mailbox'[u] = IF u \in registry /\ mailbox[u] = <<>> THEN <<"cancel">> ELSE mailbox[u]
      /\ UNCHANGED <<sizes, client, sent, handler, lock, actor, terminal, staged, written, reply,
                     job, dropped, bound>>
  BY Zenon DEF OnCancel, CancelActors
<1>3. ExchangeTypes' /\ SpoolTypes'
  <2>1. ExchangeTypes'
    BY <1>1, Zenon DEF OnCancel, ExchangeTypes
  <2>2. SpoolTypes'
    BY <1>1, Zenon DEF OnCancel, CancelActors, SpoolTypes
  <2> QED
    BY <2>1, <2>2, Zenon
<1>4. \A v \in Uploads \ {u} : Same(v)
  BY Zenon DEF OnCancel, CancelActors, Same
<1>5. UploadInv(u)'
  <2>1. Turns(u)'
    BY <1>1, <1>2, Zenon DEF UploadInv, Turns, Registered, Handed
  <2>2. Registered(u)'
    BY <1>1, <1>2 DEF UploadInv, Turns, Registered, Handed
  <2>3. Progress(u)'
    BY <1>1, <1>2, Zenon DEF UploadInv, Turns, Registered, Progress, Handed
  <2>4. Handed(u)'
    BY <1>1, <1>2, Zenon DEF UploadInv, Turns, Registered, Progress, Handed, Sealed
  <2>5. Given(u)'
    BY <1>1, <1>2, Zenon DEF UploadInv, Turns, Registered, Handed, Given
  <2> QED
    BY <2>1, <2>2, <2>3, <2>4, <2>5, Zenon DEF UploadInv
<1> QED
  BY <1>1, <1>3, <1>4, <1>5, StepKeeps, Zenon

\* The actor's answer to a push.
LEMMA PushReturnsKeeps ==
  ASSUME Inv, NEW u \in Uploads, PushReturns(u)
  PROVE  Inv'
<1>1. /\ ExchangeTypes /\ SpoolTypes /\ UploadInv(u) /\ dropped' \in BOOLEAN
      /\ sizes[u] \in Seq(Nat) /\ sent[u] \in Nat /\ None \notin Uploads
  BY BindAssumption DEF Inv, ExchangeTypes, PushReturns
<1>2. /\ handler[u] = "pushing" /\ reply[u] # "none" /\ lock' = None
      /\ \/ /\ reply[u] = "ok" /\ sent'[u] = sent[u] + 1
            /\ handler'[u] = "none" /\ client'[u] = IF client[u] = "turn" THEN "open" ELSE client[u]
         \/ /\ reply[u] = "error" /\ UNCHANGED <<client, sent>>
            /\ handler'[u] = "undo"
      /\ UNCHANGED <<sizes, registry, spool, job, dropped, bound, cancelled>>
  BY <1>1, Zenon DEF PushReturns, Respond, Moves, ExchangeTypes, SpoolTypes
<1>3. ExchangeTypes' /\ SpoolTypes'
  <2>1. "open" \in ClientState /\ "undo" \in HandlerState
    BY Zenon DEF ClientState, HandlerState
  <2>2. /\ client' \in [Uploads -> ClientState] /\ handler' \in [Uploads -> HandlerState]
        /\ cancelling' \subseteq Uploads
    BY <1>1, <2>1, RespondTypes, MovesTypes, Zenon DEF PushReturns, ExchangeTypes
  <2>3. sent' \in [Uploads -> Nat]
    <3>1. sent' = [sent EXCEPT ![u] = sent[u] + 1] \/ sent' = sent
      BY Zenon DEF PushReturns
    <3>2. sent \in [Uploads -> Nat] /\ sent[u] + 1 \in Nat
      BY <1>1 DEF ExchangeTypes
    <3> QED
      BY <3>1, <3>2, Zenon
  <2>4. ExchangeTypes'
    BY <1>1, <2>2, <2>3, Zenon DEF PushReturns, ExchangeTypes
  <2>5. SpoolTypes'
    BY <1>1, Zenon DEF PushReturns, SpoolTypes, spool
  <2> QED
    BY <2>4, <2>5, Zenon
<1>4. ASSUME NEW v \in Uploads, v # u PROVE UploadInv(v)'
  <2>1. Same(v)
    BY <1>1, <1>4, Zenon DEF PushReturns, Respond, Moves, ExchangeTypes, Same, UploadInv, Turns,
       spool
  <2> QED
    BY <2>1, SameKeeps, Zenon DEF Inv
<1>5. Turns(u)'
  BY <1>1, <1>2, Zenon DEF UploadInv, Turns, Handed
<1>6. Registered(u)'
  BY <1>1, <1>2, Channels, Zenon DEF UploadInv, Registered, spool
<1>7. Progress(u)'
  BY <1>1, <1>2 DEF UploadInv, Turns, Progress, spool
<1>8. Handed(u)'
  BY <1>1, <1>2, Zenon DEF UploadInv, Handed
<1>9. Given(u)'
  BY <1>1, <1>2, Zenon DEF UploadInv, Given, spool
<1> QED
  BY <1>1, <1>3, <1>4, <1>5, <1>6, <1>7, <1>8, <1>9, Zenon DEF Inv, UploadInv

\* A push that failed is undone.
LEMMA UndoKeeps ==
  ASSUME Inv, NEW u \in Uploads, Undo(u)
  PROVE  Inv'
<1>1. /\ ExchangeTypes /\ SpoolTypes /\ UploadInv(u) /\ dropped' \in BOOLEAN
      /\ sizes[u] \in Seq(Nat) /\ sent[u] \in Nat /\ None \notin Uploads
  BY BindAssumption DEF Inv, ExchangeTypes, Undo
<1>2. /\ handler[u] = "undo" /\ lock = None
      /\ registry' = registry \ {u} /\ cancelled' = cancelled \cup (registry \cap {u})
      /\ mailbox'[u] = IF u \in registry /\ mailbox[u] = <<>> THEN <<"cancel">> ELSE mailbox[u]
      /\ handler'[u] = "none" /\ client'[u] = IF client[u] = "turn" THEN "error" ELSE client[u]
      /\ UNCHANGED <<sizes, sent, lock, actor, terminal, staged, written, reply, job, dropped,
                     bound>>
  BY <1>1, Zenon DEF Undo, CancelActors, Respond, Moves, ExchangeTypes
<1>3. ExchangeTypes' /\ SpoolTypes'
  <2>1. "error" \in ClientState
    BY Zenon DEF ClientState
  <2>2. /\ client' \in [Uploads -> ClientState] /\ handler' \in [Uploads -> HandlerState]
        /\ cancelling' \subseteq Uploads
    BY <1>1, <2>1, RespondTypes, Zenon DEF Undo
  <2>4. ExchangeTypes'
    BY <1>1, <2>2, Zenon DEF Undo, ExchangeTypes
  <2>5. SpoolTypes'
    BY <1>1, Zenon DEF Undo, SpoolTypes, spool, CancelActors
  <2> QED
    BY <2>4, <2>5, Zenon
<1>4. \A v \in Uploads \ {u} : Same(v)
  BY DEF Undo, CancelActors, Respond, Moves, Same
<1>5. UploadInv(u)'
  BY <1>1, <1>2 DEF UploadInv, Turns, Registered, Progress, Handed, Given
<1> QED
  BY <1>1, <1>3, <1>4, <1>5, StepKeeps, Zenon

\* The reader is there, or is not.
LEMMA FinishReturnsKeeps ==
  ASSUME Inv, NEW u \in Uploads, FinishReturns(u)
  PROVE  Inv'
<1>1. /\ ExchangeTypes /\ SpoolTypes /\ UploadInv(u) /\ dropped' \in BOOLEAN
      /\ sizes[u] \in Seq(Nat) /\ sent[u] \in Nat /\ None \notin Uploads
  BY BindAssumption DEF Inv, ExchangeTypes, FinishReturns
<1>2. /\ handler[u] = "finishing" /\ reply[u] # "none"
      /\ \/ /\ reply[u] = "ok" /\ (Mode[u] = "batch" => Len(staged[u]) = 1)
            /\ handler'[u] = "binding" /\ job'[u] = "queued" /\ client' = client
         \/ /\ handler'[u] = "none"
            /\ client'[u] = IF client[u] = "turn" THEN "error" ELSE client[u]
            /\ job' = job
      /\ UNCHANGED <<sizes, sent, registry, lock, spool, dropped, bound, cancelled>>
  BY <1>1 DEF FinishReturns, Respond, Moves, ExchangeTypes, SpoolTypes
<1>3. ExchangeTypes' /\ SpoolTypes'
  <2>1. "error" \in ClientState /\ "binding" \in HandlerState
    BY Zenon DEF ClientState, HandlerState
  <2>2. /\ client' \in [Uploads -> ClientState] /\ handler' \in [Uploads -> HandlerState]
        /\ cancelling' \subseteq Uploads
    BY <1>1, <2>1, RespondTypes, MovesTypes, Zenon DEF FinishReturns, ExchangeTypes
  <2>4. ExchangeTypes'
    BY <1>1, <2>2, Zenon DEF FinishReturns, ExchangeTypes
  <2>5. SpoolTypes'
    BY <1>1, Zenon DEF FinishReturns, SpoolTypes, spool
  <2> QED
    BY <2>4, <2>5, Zenon
<1>4. \A v \in Uploads \ {u} : Same(v)
  BY <1>1, SMTT(30) DEF FinishReturns, Respond, Moves, ExchangeTypes, SpoolTypes, Same, spool
<1>5. UploadInv(u)'
  BY <1>1, <1>2, Channels, Zenon
     DEF UploadInv, Turns, Registered, spool, Progress, Handed, Sealed, Given
<1> QED
  BY <1>1, <1>3, <1>4, <1>5, StepKeeps, Zenon

\* The binding times out.
LEMMA BindTimesOutKeeps ==
  ASSUME Inv, NEW u \in Uploads, BindTimesOut(u)
  PROVE  Inv'
<1>1. /\ ExchangeTypes /\ SpoolTypes /\ UploadInv(u) /\ dropped' \in BOOLEAN
      /\ sizes[u] \in Seq(Nat) /\ sent[u] \in Nat /\ None \notin Uploads
  BY BindAssumption DEF Inv, ExchangeTypes, BindTimesOut
<1>2. /\ handler[u] = "binding"
      /\ handler'[u] = "none" /\ client'[u] = IF client[u] = "turn" THEN "error" ELSE client[u]
      /\ job'[u] = IF job[u] = "queued" THEN "done" ELSE job[u]
      /\ UNCHANGED <<sizes, sent, registry, lock, spool, dropped, bound, cancelled>>
  BY <1>1, Zenon DEF BindTimesOut, Respond, Moves, ExchangeTypes, SpoolTypes
<1>3. ExchangeTypes' /\ SpoolTypes'
  <2>1. "error" \in ClientState
    BY Zenon DEF ClientState
  <2>2. /\ client' \in [Uploads -> ClientState] /\ handler' \in [Uploads -> HandlerState]
        /\ cancelling' \subseteq Uploads
    BY <1>1, <2>1, RespondTypes, Zenon DEF BindTimesOut
  <2>4. ExchangeTypes'
    BY <1>1, <2>2, Zenon DEF BindTimesOut, ExchangeTypes
  <2>5. SpoolTypes'
    BY <1>1, Zenon DEF BindTimesOut, SpoolTypes, spool
  <2> QED
    BY <2>4, <2>5, Zenon
<1>4. \A v \in Uploads \ {u} : Same(v)
  BY DEF BindTimesOut, Respond, Moves, Same, spool
<1>5. UploadInv(u)'
  BY <1>1, <1>2, Zenon
     DEF UploadInv, Turns, Registered, spool, Progress, Handed, Sealed, Given
<1> QED
  BY <1>1, <1>3, <1>4, <1>5, StepKeeps, Zenon

\* The job begins.
LEMMA BindBeginsKeeps ==
  ASSUME Inv, NEW u \in Uploads, BindBegins(u)
  PROVE  Inv'
<1>1. /\ ExchangeTypes /\ SpoolTypes /\ UploadInv(u) /\ dropped' \in BOOLEAN
      /\ sizes[u] \in Seq(Nat) /\ sent[u] \in Nat /\ None \notin Uploads
  BY BindAssumption DEF Inv, ExchangeTypes, BindBegins
<1>2. /\ job[u] = "queued" /\ job'[u] = "running"
      /\ UNCHANGED <<sizes, client, sent, handler, registry, lock, spool, dropped, bound,
                     cancelled>>
  BY <1>1, Zenon DEF BindBegins, exchange, SpoolTypes
<1>3. ExchangeTypes' /\ SpoolTypes'
  <2>1. ExchangeTypes'
    BY <1>1, Zenon DEF BindBegins, exchange, ExchangeTypes
  <2>2. SpoolTypes'
    BY <1>1, Zenon DEF BindBegins, exchange, SpoolTypes, spool
  <2> QED
    BY <2>1, <2>2, Zenon
<1>4. \A v \in Uploads \ {u} : Same(v)
  BY DEF BindBegins, exchange, Same, spool
<1>5. UploadInv(u)'
  BY <1>1, <1>2, Zenon
     DEF UploadInv, Turns, Registered, spool, Progress, Handed, Sealed, Given
<1> QED
  BY <1>1, <1>3, <1>4, <1>5, StepKeeps, Zenon

\* The job ends.
LEMMA BindEndsKeeps ==
  ASSUME Inv, NEW u \in Uploads, BindEnds(u)
  PROVE  Inv'
<1>1. /\ ExchangeTypes /\ SpoolTypes /\ UploadInv(u) /\ dropped' \in BOOLEAN
      /\ sizes[u] \in Seq(Nat) /\ sent[u] \in Nat /\ None \notin Uploads
  BY BindAssumption DEF Inv, ExchangeTypes, BindEnds
<1>2. /\ job[u] = "running" /\ job'[u] = "done"
      /\ bound' \in {bound, bound \cup {<<u, staged[u]>>}}
      /\ \/ handler[u] # "binding" /\ UNCHANGED <<client, handler>>
         \/ /\ handler[u] = "binding" /\ bound' = bound /\ handler'[u] = "none"
            /\ client'[u] = IF client[u] = "turn" THEN "error" ELSE client[u]
         \/ /\ handler[u] = "binding" /\ bound' = bound \cup {<<u, staged[u]>>}
            /\ handler'[u] = "none" /\ client'[u] = IF client[u] = "turn" THEN "ok" ELSE client[u]
      /\ UNCHANGED <<sizes, sent, registry, lock, spool, dropped, cancelled>>
  BY <1>1, ZenonT(30) DEF BindEnds, Respond, Moves, ExchangeTypes, SpoolTypes
<1>3. ExchangeTypes' /\ SpoolTypes'
  <2>1. "ok" \in ClientState /\ "error" \in ClientState
    BY Zenon DEF ClientState
  <2>2. /\ client' \in [Uploads -> ClientState] /\ handler' \in [Uploads -> HandlerState]
        /\ cancelling' \subseteq Uploads
    BY <1>1, <2>1, RespondTypes, Zenon DEF BindEnds, ExchangeTypes
  <2>4. ExchangeTypes'
    BY <1>1, <2>2, Zenon DEF BindEnds, ExchangeTypes
  <2>5. SpoolTypes'
    BY <1>1 DEF BindEnds, SpoolTypes, spool
  <2> QED
    BY <2>4, <2>5, Zenon
<1>4. ASSUME NEW v \in Uploads, v # u PROVE UploadInv(v)'
  <2>1. Same(v)
    BY <1>1, <1>4 DEF BindEnds, Respond, Moves, ExchangeTypes, Same, spool
  <2> QED
    BY <2>1, SameKeeps, Zenon DEF Inv
<1>5. Turns(u)'
  BY <1>1, <1>2, Zenon DEF UploadInv, Turns
<1>6. Registered(u)'
  BY <1>1, <1>2, Zenon DEF UploadInv, Registered, spool
<1>7. Progress(u)'
  BY <1>1, <1>2, Zenon DEF UploadInv, Registered, Progress, spool
<1>8. Handed(u)'
  BY <1>1, <1>2, Zenon DEF UploadInv, Handed, Sealed, spool
<1>9. Given(u)'
  <2>1. <<u, staged[u]>>[1] = u /\ <<u, staged[u]>>[2] = staged[u] /\ staged' = staged
    BY <1>2, Zenon DEF spool
  <2>2. \A b \in bound' : b[1] = u => job'[u] = "done" /\ b[2] = staged'[u]
    BY <1>1, <1>2, <2>1, Zenon DEF UploadInv, Given
  <2>3. client'[u] = "ok" => \E b \in bound' : b[1] = u
    BY <1>1, <1>2, <2>1, Zenon DEF UploadInv, Given
  <2> QED
    BY <2>2, <2>3, Zenon DEF Given
<1> QED
  BY <1>1, <1>3, <1>4, <1>5, <1>6, <1>7, <1>8, <1>9, Zenon DEF Inv, UploadInv

\* A push reaches the actor.
LEMMA PushKeeps ==
  ASSUME Inv, NEW u \in Uploads, Push(u)
  PROVE  Inv'
<1>1. /\ ExchangeTypes /\ SpoolTypes /\ UploadInv(u) /\ dropped' \in BOOLEAN
      /\ sizes[u] \in Seq(Nat) /\ sent[u] \in Nat /\ None \notin Uploads
  BY BindAssumption, ZenonT(30) DEF Inv, ExchangeTypes, Push
<1>2. /\ handler[u] = "push" /\ lock = None
      /\ \/ /\ u \in registry /\ mailbox[u] = <<>>
            /\ mailbox' = [mailbox EXCEPT ![u] = <<"push">>]
            /\ mailbox'[u] = <<"push">> /\ reply'[u] = "none"
            /\ lock' = u /\ handler'[u] = "pushing" /\ client' = client
         \/ /\ u \notin registry /\ UNCHANGED <<mailbox, reply>>
            /\ handler'[u] = "undo" /\ UNCHANGED <<lock, client>>
      /\ UNCHANGED <<sizes, sent, registry, actor, terminal, staged, written, job, dropped, bound,
                     cancelled>>
  <2>1. u \in registry => mailbox[u] = <<>>
    BY <1>1, Zenon DEF Push, UploadInv, Registered
  <2>2. u \in registry => mailbox' = [mailbox EXCEPT ![u] = <<"push">>]
    BY <2>1, Channels, Zenon DEF Push, Tell
  <2>3. u \in registry => mailbox'[u] = <<"push">>
    BY <1>1, <2>2, Zenon DEF SpoolTypes
  <2>4. u \in registry => reply'[u] = "none"
    BY <1>1, Zenon DEF Push, Tell, SpoolTypes
  <2> QED
    BY <1>1, <2>1, <2>2, <2>3, <2>4, Zenon DEF Push, Moves, ExchangeTypes
<1>3. ExchangeTypes' /\ SpoolTypes'
  <2>4. ExchangeTypes'
    BY <1>1, Zenon DEF Push, Moves, ExchangeTypes, HandlerState
  <2>6. mailbox' \in [Uploads -> {<<>>, <<"push">>, <<"finish">>, <<"cancel">>}]
    <3>1. mailbox \in [Uploads -> {<<>>, <<"push">>, <<"finish">>, <<"cancel">>}]
      BY <1>1, Zenon DEF SpoolTypes
    <3>2. mailbox' = [mailbox EXCEPT ![u] = <<"push">>] \/ mailbox' = mailbox
      BY <1>2, Zenon
    <3> QED
      BY <3>1, <3>2, Zenon
  <2>7. reply' \in [Uploads -> {"none", "ok", "error"}]
    BY <1>1, Zenon DEF Push, Tell, SpoolTypes
  <2> QED
    BY <1>1, <2>4, <2>6, <2>7, Zenon DEF Push, SpoolTypes
<1>4. ASSUME NEW v \in Uploads, v # u PROVE Same(v)
  <2>1. mailbox'[v] = mailbox[v]
    BY <1>1, <1>2, <1>4, Zenon DEF SpoolTypes
  <2>2. reply'[v] = reply[v]
    BY <1>1, <1>4, Zenon DEF Push, Tell, SpoolTypes
  <2> QED
    BY <1>1, <1>4, <2>1, <2>2, Zenon DEF Push, Moves, ExchangeTypes, Same
<1>5. UploadInv(u)'
  <2>1. Turns(u)'
    BY <1>1, <1>2, Zenon DEF UploadInv, Turns, Registered, Handed
  <2>2. Registered(u)'
    BY <1>1, <1>2, Channels, Zenon DEF UploadInv, Turns, Registered, Handed
  <2>3. Progress(u)'
    BY <1>1, <1>2, Zenon DEF UploadInv, Turns, Registered, Progress, Handed
  <2>4. Handed(u)'
    BY <1>1, <1>2, Zenon DEF UploadInv, Turns, Registered, Progress, Handed, Sealed
  <2>5. Given(u)'
    BY <1>1, <1>2, Zenon DEF UploadInv, Turns, Registered, Handed, Given
  <2> QED
    BY <2>1, <2>2, <2>3, <2>4, <2>5, Zenon DEF UploadInv
<1> QED
  BY <1>1, <1>3, <1>4, <1>5, StepKeeps, Zenon

\* The finish turn takes the upload.
LEMMA FinishKeeps ==
  ASSUME Inv, NEW u \in Uploads, Finish(u)
  PROVE  Inv'
<1>1. /\ ExchangeTypes /\ SpoolTypes /\ UploadInv(u) /\ dropped' \in BOOLEAN
      /\ sizes[u] \in Seq(Nat) /\ sent[u] \in Nat /\ None \notin Uploads
  BY BindAssumption DEF Inv, ExchangeTypes, Finish
<1>2. /\ handler[u] = "finish" /\ lock = None
      /\ \/ /\ u \in registry /\ mailbox[u] = <<>>
            /\ mailbox' = [mailbox EXCEPT ![u] = <<"finish">>]
            /\ mailbox'[u] = <<"finish">> /\ reply'[u] = "none"
            /\ handler'[u] = "finishing" /\ client' = client
         \/ /\ u \notin registry /\ UNCHANGED <<mailbox, reply>>
            /\ handler'[u] = "none"
            /\ client'[u] = IF client[u] = "turn" THEN "error" ELSE client[u]
      /\ UNCHANGED <<sizes, sent, lock, actor, terminal, staged, written, job, dropped, bound,
                     cancelled>>
      /\ registry' = registry \ {u}
  <2>1. u \in registry => mailbox[u] = <<>>
    BY <1>1, Zenon DEF Finish, UploadInv, Registered
  <2>2. u \in registry => mailbox' = [mailbox EXCEPT ![u] = <<"finish">>]
    BY <2>1, Channels, Zenon DEF Finish, Tell
  <2>3. u \in registry => mailbox'[u] = <<"finish">>
    BY <1>1, <2>2, Zenon DEF SpoolTypes
  <2>4. u \in registry => reply'[u] = "none"
    BY <1>1, Zenon DEF Finish, Tell, SpoolTypes
  <2> QED
    BY <1>1, <2>1, <2>2, <2>3, <2>4, Zenon DEF Finish, Moves, Respond, ExchangeTypes
<1>3. ExchangeTypes' /\ SpoolTypes'
  <2>1. "error" \in ClientState /\ "finishing" \in HandlerState
    BY Zenon DEF ClientState, HandlerState
  <2>2. /\ client' \in [Uploads -> ClientState] /\ handler' \in [Uploads -> HandlerState]
        /\ cancelling' \subseteq Uploads
    BY <1>1, <2>1, RespondTypes, MovesTypes, Zenon DEF Finish, ExchangeTypes
  <2>4. ExchangeTypes'
    BY <1>1, <2>2, Zenon DEF Finish, ExchangeTypes
  <2>6. mailbox' \in [Uploads -> {<<>>, <<"push">>, <<"finish">>, <<"cancel">>}]
    <3>1. mailbox \in [Uploads -> {<<>>, <<"push">>, <<"finish">>, <<"cancel">>}]
      BY <1>1, Zenon DEF SpoolTypes
    <3>2. mailbox' = [mailbox EXCEPT ![u] = <<"finish">>] \/ mailbox' = mailbox
      BY <1>2, Zenon
    <3> QED
      BY <3>1, <3>2, Zenon
  <2>7. reply' \in [Uploads -> {"none", "ok", "error"}]
    BY <1>1, Zenon DEF Finish, Tell, SpoolTypes
  <2> QED
    BY <1>1, <2>4, <2>6, <2>7, Zenon DEF Finish, SpoolTypes
<1>4. ASSUME NEW v \in Uploads, v # u PROVE Same(v)
  <2>1. mailbox'[v] = mailbox[v]
    BY <1>1, <1>2, <1>4, Zenon DEF SpoolTypes
  <2>2. reply'[v] = reply[v]
    BY <1>1, <1>4, Zenon DEF Finish, Tell, SpoolTypes
  <2> QED
    BY <1>1, <1>4, <2>1, <2>2, Zenon DEF Finish, Moves, Respond, ExchangeTypes, Same
<1>5. UploadInv(u)'
  BY <1>1, <1>2, Channels, Zenon DEF UploadInv, Turns, Registered, Progress, Handed, Given
<1> QED
  BY <1>1, <1>3, <1>4, <1>5, StepKeeps, Zenon

\* The actor ends.
LEMMA ExitKeeps ==
  ASSUME Inv, NEW u \in Uploads, Exit(u)
  PROVE  Inv'
<1>1. /\ ExchangeTypes /\ SpoolTypes /\ UploadInv(u) /\ dropped' \in BOOLEAN
      /\ sizes[u] \in Seq(Nat) /\ sent[u] \in Nat /\ None \notin Uploads
  BY BindAssumption DEF Inv, ExchangeTypes, Exit
<1>2. /\ \/ mailbox[u] = <<"cancel">> /\ mailbox' = [mailbox EXCEPT ![u] = <<>>]
         \/ mailbox' = mailbox
      /\ actor'[u] = "gone"
      /\ UNCHANGED <<sizes, client, sent, handler, registry, lock, terminal, staged, written, reply,
                     job, dropped, bound, cancelled>>
  <2>1. mailbox[u] \in {<<>>, <<"push">>, <<"finish">>, <<"cancel">>}
    BY <1>1, Zenon DEF SpoolTypes
  <2> QED
    BY <1>1, <2>1, Channels, Zenon DEF Exit, Takes, exchange, SpoolTypes
<1>m. mailbox'[u] = mailbox[u] \/ (mailbox[u] = <<"cancel">> /\ mailbox'[u] = <<>>)
  BY <1>1, <1>2, Zenon DEF SpoolTypes
<1>3. ExchangeTypes' /\ SpoolTypes'
  <2>1. ExchangeTypes'
    BY <1>1, Zenon DEF Exit, exchange, ExchangeTypes
  <2>2. mailbox' \in [Uploads -> {<<>>, <<"push">>, <<"finish">>, <<"cancel">>}]
    <3>1. mailbox \in [Uploads -> {<<>>, <<"push">>, <<"finish">>, <<"cancel">>}]
      BY <1>1, Zenon DEF SpoolTypes
    <3> QED
      BY <1>2, <3>1, Zenon
  <2>3. actor' \in [Uploads -> {"none", "running", "gone"}]
    BY <1>1, Zenon DEF Exit, SpoolTypes
  <2> QED
    BY <1>1, <1>2, <2>1, <2>2, <2>3, Zenon DEF SpoolTypes
<1>4. ASSUME NEW v \in Uploads, v # u PROVE Same(v)
  <2>1. mailbox'[v] = mailbox[v] /\ actor'[v] = actor[v]
    BY <1>1, <1>2, <1>4, Zenon DEF Exit, SpoolTypes
  <2> QED
    BY <1>2, <2>1, Zenon DEF Same
<1>5. UploadInv(u)'
  <2>1. Turns(u)'
    BY <1>1, <1>2, <1>m, Zenon DEF UploadInv, Turns, Registered, Handed
  <2>2. Registered(u)'
    BY <1>1, <1>2, <1>m, Channels, ZenonT(30) DEF UploadInv, Turns, Registered
  <2>3. Progress(u)'
    BY <1>1, <1>2, <1>m, Zenon DEF UploadInv, Turns, Registered, Progress, Handed
  <2>4. Handed(u)'
    BY <1>1, <1>2, <1>m, Zenon DEF UploadInv, Turns, Registered, Progress, Handed, Sealed
  <2>5. Given(u)'
    BY <1>1, <1>2, <1>m, Zenon DEF UploadInv, Turns, Registered, Handed, Given
  <2> QED
    BY <2>1, <2>2, <2>3, <2>4, <2>5, Zenon DEF UploadInv
<1> QED
  BY <1>1, <1>3, <1>4, <1>5, StepKeeps, Zenon

\* A batch is staged.
LEMMA StageKeeps ==
  ASSUME Inv, NEW u \in Uploads, Stage(u)
  PROVE  Inv'
<1>1. /\ ExchangeTypes /\ SpoolTypes /\ UploadInv(u) /\ dropped' \in BOOLEAN
      /\ sizes[u] \in Seq(Nat) /\ sent[u] \in Nat /\ None \notin Uploads
  BY BindAssumption DEF Inv, ExchangeTypes, Stage
<1>m. mailbox[u] = <<"push">> /\ mailbox' = [mailbox EXCEPT ![u] = <<>>] /\ handler[u] = "pushing"
  <2>1. mailbox[u] \in {<<>>, <<"push">>, <<"finish">>, <<"cancel">>}
    BY <1>1, Zenon DEF SpoolTypes
  <2> QED
    BY <1>1, <2>1, Channels, Zenon DEF Stage, Takes, UploadInv, Registered
<1>n. sent[u] \in Nat /\ sent[u] + 1 \in 1..Len(sizes[u]) /\ sizes[u][sent[u] + 1] \in Nat
  <2>1. sent[u] < Len(sizes[u])
    BY <1>1, <1>m, Zenon DEF UploadInv, Progress
  <2> QED
    BY <1>1, <2>1, SMTT(30)
<1>r. reply' \in {[reply EXCEPT ![u] = "ok"], [reply EXCEPT ![u] = "error"]}
  BY Zenon DEF Stage, Replies
<1>2. ExchangeTypes' /\ SpoolTypes'
  <2>1. mailbox' \in [Uploads -> {<<>>, <<"push">>, <<"finish">>, <<"cancel">>}]
    BY <1>1, <1>m, Zenon DEF SpoolTypes
  <2>2. reply' \in [Uploads -> {"none", "ok", "error"}]
    BY <1>1, <1>r, Zenon DEF SpoolTypes
  <2>3. written' \in [Uploads -> Nat]
    <3>1. \/ written' = [written EXCEPT ![u] = written[u] + sizes[u][sent[u] + 1]]
          \/ written' = written
      BY Zenon DEF Stage
    <3>2. written \in [Uploads -> Nat] /\ written[u] \in Nat
      BY <1>1, Zenon DEF SpoolTypes
    <3>3. written[u] + sizes[u][sent[u] + 1] \in Nat
      BY <1>n, <3>2, SMTT(30)
    <3> QED
      BY <3>1, <3>2, <3>3, Zenon
  <2>4. staged' \in [Uploads -> Seq(Nat)]
    <3>1. staged' = [staged EXCEPT ![u] = Append(staged[u], sent[u] + 1)] \/ staged' = staged
      BY Zenon DEF Stage
    <3>2. staged \in [Uploads -> Seq(Nat)] /\ Append(staged[u], sent[u] + 1) \in Seq(Nat)
      BY <1>1 DEF SpoolTypes
    <3> QED
      BY <3>1, <3>2, Zenon
  <2>5. terminal' \subseteq Uploads
    BY <1>1 DEF Stage, SpoolTypes
  <2> QED
    BY <1>1, <2>1, <2>2, <2>3, <2>4, <2>5, Zenon DEF Stage, exchange, ExchangeTypes, SpoolTypes
<1>3. ASSUME NEW v \in Uploads, v # u PROVE UploadInv(v)'
  <2>1. Same(v)
    BY <1>1, <1>3 DEF Stage, Takes, Replies, exchange, SpoolTypes, Same
  <2> QED
    BY <2>1, SameKeeps, Zenon DEF Inv
<1>4. mailbox'[u] = <<>> /\ reply'[u] # "none" /\ reply'[u] \in {"ok", "error"}
  BY <1>1, <1>m, <1>r, Zenon DEF SpoolTypes
<1>5. Turns(u)'
  BY <1>1, <1>m, Zenon DEF Stage, exchange, UploadInv, Turns
<1>6. Registered(u)'
  BY <1>1, <1>4 DEF Stage, exchange, UploadInv, Registered
<1>7. Progress(u)'
  <2>1. CASE u \in terminal'
    BY <1>1, <2>1, Zenon DEF Stage, exchange, UploadInv, Progress
  <2>2. CASE u \notin terminal'
    <3>1. /\ u \notin terminal /\ reply'[u] = "ok"
          /\ staged'[u] = Append(staged[u], sent[u] + 1)
      BY <1>1, <2>2, Zenon DEF Stage, Replies, SpoolTypes
    <3>2. reply[u] = "none"
      BY <1>1, <1>m DEF UploadInv, Registered
    <3>3. Len(staged[u]) = sent[u] /\ \A i \in 1..Len(staged[u]) : staged[u][i] = i
      BY <1>1, <3>1, <3>2, Zenon DEF UploadInv, Progress
    <3>4. staged[u] \in Seq(Nat)
      BY <1>1, Zenon DEF SpoolTypes
    <3>5. Len(staged'[u]) = sent[u] + 1 /\ \A i \in 1..Len(staged'[u]) : staged'[u][i] = i
      BY <3>1, <3>3
    <3> QED
      BY <1>1, <1>m, <3>1, <3>5, Zenon DEF Stage, exchange, UploadInv, Progress
  <2> QED
    BY <2>1, <2>2, Zenon
<1>8. job[u] = "none" /\ job' = job /\ bound' = bound /\ UNCHANGED exchange
  BY <1>1, <1>m, Zenon DEF Stage, UploadInv, Registered
<1>9. Handed(u)' /\ Given(u)'
  BY <1>1, <1>m, <1>8, Zenon DEF exchange, UploadInv, Handed, Given
<1> QED
  BY <1>1, <1>2, <1>3, <1>5, <1>6, <1>7, <1>9, Zenon DEF Inv, UploadInv

\* The file is finished.
LEMMA SealKeeps ==
  ASSUME Inv, NEW u \in Uploads, Seal(u)
  PROVE  Inv'
<1>1. /\ ExchangeTypes /\ SpoolTypes /\ UploadInv(u) /\ dropped' \in BOOLEAN
      /\ sizes[u] \in Seq(Nat) /\ sent[u] \in Nat /\ None \notin Uploads
  BY BindAssumption, SMTT(30) DEF Inv, ExchangeTypes, Seal
<1>m. /\ mailbox[u] = <<"finish">> /\ mailbox' = [mailbox EXCEPT ![u] = <<>>]
      /\ handler[u] = "finishing"
  <2>1. mailbox[u] \in {<<>>, <<"push">>, <<"finish">>, <<"cancel">>}
    BY <1>1, Zenon DEF SpoolTypes
  <2> QED
    BY <1>1, <2>1, Channels, Zenon DEF Seal, Takes, UploadInv, Registered
<1>r. reply' \in {[reply EXCEPT ![u] = "ok"], [reply EXCEPT ![u] = "error"]}
  BY Zenon DEF Seal, Replies
<1>2. ExchangeTypes' /\ SpoolTypes'
  <2>1. mailbox' \in [Uploads -> {<<>>, <<"push">>, <<"finish">>, <<"cancel">>}]
    BY <1>1, <1>m, Zenon DEF SpoolTypes
  <2>2. reply' \in [Uploads -> {"none", "ok", "error"}]
    BY <1>1, <1>r, Zenon DEF SpoolTypes
  <2>3. written' \in [Uploads -> Nat]
    <3>1. written' = [written EXCEPT ![u] = written[u] + Trailer] \/ written' = written
      BY <1>1, Zenon DEF Seal, SpoolTypes
    <3>2. written \in [Uploads -> Nat] /\ written[u] + Trailer \in Nat
      BY <1>1, BindAssumption DEF SpoolTypes
    <3> QED
      BY <3>1, <3>2, Zenon
  <2>4. actor' \in [Uploads -> {"none", "running", "gone"}]
    BY <1>1, Zenon DEF Seal, SpoolTypes
  <2> QED
    BY <1>1, <2>1, <2>2, <2>3, Zenon DEF Seal, exchange, ExchangeTypes, SpoolTypes
<1>3. ASSUME NEW v \in Uploads, v # u PROVE UploadInv(v)'
  <2>1. Same(v)
    BY <1>1, <1>3, Zenon DEF Seal, Takes, Replies, exchange, SpoolTypes, Same
  <2> QED
    BY <2>1, SameKeeps, Zenon DEF Inv
<1>4. mailbox'[u] = <<>> /\ reply'[u] # "none"
  BY <1>1, <1>m, <1>r, Zenon DEF SpoolTypes
<1>5. Turns(u)'
  BY <1>1, <1>m, Zenon DEF Seal, exchange, UploadInv, Turns
<1>6. Registered(u)'
  BY <1>1, <1>4 DEF Seal, exchange, UploadInv, Registered
<1>7. Progress(u)'
  BY <1>1, <1>m, Zenon DEF Seal, exchange, UploadInv, Progress
<1>8. Handed(u)'
  BY <1>1, <1>m, Zenon DEF Seal, Replies, exchange, SpoolTypes, UploadInv, Progress, Handed,
     Sealed
<1>9. Given(u)'
  BY <1>1, Zenon DEF Seal, exchange, UploadInv, Given
<1> QED
  BY <1>1, <1>2, <1>3, <1>5, <1>6, <1>7, <1>8, <1>9, Zenon DEF Inv, UploadInv

\* The statement is closed.
LEMMA CloseRemoveKeeps ==
  ASSUME Inv, CloseRemove
  PROVE  Inv'
<1>1. ExchangeTypes' /\ SpoolTypes' /\ dropped' \in BOOLEAN
  BY Zenon DEF Inv, ExchangeTypes, SpoolTypes, CloseRemove, exchange, spool
<1>2. ASSUME NEW v \in Uploads PROVE UploadInv(v)'
  <2>1. Same(v)
    BY Zenon DEF CloseRemove, exchange, spool, Same
  <2> QED
    BY <2>1, SameKeeps, Zenon DEF Inv
<1> QED
  BY <1>1, <1>2, Zenon DEF Inv

\* Another request's new_statement() takes the worker and the statements' lock.
LEMMA NewStatementKeeps ==
  ASSUME Inv, NewStatement \/ NewStatementReturns
  PROVE  Inv'
<1>1. ExchangeTypes' /\ SpoolTypes' /\ dropped' \in BOOLEAN
  BY Zenon DEF Inv, ExchangeTypes, SpoolTypes, NewStatement, NewStatementReturns, exchange, spool
<1>2. ASSUME NEW v \in Uploads PROVE UploadInv(v)'
  <2>1. Same(v)
    BY Zenon DEF NewStatement, NewStatementReturns, exchange, spool, Same
  <2> QED
    BY <2>1, SameKeeps, Zenon DEF Inv
<1> QED
  BY <1>1, <1>2, Zenon DEF Inv

\* The registry is emptied when nobody is inside a push.
LEMMA DrainKeeps ==
  ASSUME Inv, \A u \in Uploads : handler[u] # "pushing",
         registry' = {}, CancelActors(registry),
         statement' \in {"open", "removed", "closed", "aborted"},
         UNCHANGED <<sizes, exchange, lock, actor, terminal, staged, written, reply, job, dropped,
                     bound, cancelled>>
  PROVE  Inv'
<1>1. ExchangeTypes' /\ SpoolTypes'
  <2>1. mailbox' \in [Uploads -> {<<>>, <<"push">>, <<"finish">>, <<"cancel">>}]
    BY Zenon DEF Inv, SpoolTypes, CancelActors
  <2> QED
    BY <2>1, Zenon DEF Inv, ExchangeTypes, SpoolTypes, exchange
<1>2. ASSUME NEW u \in Uploads PROVE UploadInv(u)'
  <2>1. UploadInv(u) /\ handler[u] # "pushing"
    BY Zenon DEF Inv
  <2>2. \/ mailbox'[u] = mailbox[u]
        \/ u \in registry /\ mailbox[u] = <<>> /\ mailbox'[u] = <<"cancel">>
    BY Zenon DEF CancelActors
  <2>3. Turns(u)'
    BY <2>1, <2>2, Zenon DEF UploadInv, Turns, exchange
  <2>4. Registered(u)'
    BY <2>1, <2>2 DEF UploadInv, Registered, exchange
  <2>5. Progress(u)' /\ Handed(u)' /\ Given(u)'
    BY <2>1, Zenon DEF UploadInv, Progress, Handed, Sealed, Given, exchange
  <2> QED
    BY <2>3, <2>4, <2>5, Zenon DEF UploadInv
<1> QED
  BY <1>1, <1>2, Zenon DEF Inv

\* close_statement() and Session::drop empty the registry.
LEMMA CloseDrainKeeps ==
  ASSUME Inv, CloseDrain
  PROVE  Inv'
<1>1. \A u \in Uploads : handler[u] # "pushing"
  BY BindAssumption, Zenon DEF Inv, UploadInv, Turns, CloseDrain
<1>2. CASE statement' = "closed"
  BY <1>1, <1>2, DrainKeeps, Zenon DEF CloseDrain
<1>3. CASE statement' # "closed"
  <2>1. ExchangeTypes' /\ SpoolTypes' /\ dropped' \in BOOLEAN
    BY <1>3, Zenon DEF Inv, ExchangeTypes, SpoolTypes, CloseDrain, exchange
  <2>2. ASSUME NEW v \in Uploads PROVE UploadInv(v)'
    <3>1. Same(v)
      BY <1>3, Zenon DEF CloseDrain, exchange, Same
    <3> QED
      BY <3>1, SameKeeps, Zenon DEF Inv
  <2> QED
    BY <2>1, <2>2, Zenon DEF Inv
<1> QED
  BY <1>2, <1>3, Zenon

\* Session::drop empties the registry.
LEMMA DropSessionKeeps ==
  ASSUME Inv, DropSession
  PROVE  Inv'
<1>1. \A u \in Uploads : handler[u] # "pushing"
  BY Zenon DEF DropSession, Inv, UploadInv, Turns
<1>2. statement' \in {"open", "removed", "closed", "aborted"}
  BY Zenon DEF Inv, ExchangeTypes, DropSession
<1> QED
  BY <1>1, <1>2, DrainKeeps, Zenon DEF DropSession

\* The last of those who have the session lets go of it.
LEMMA LetGoKeeps ==
  ASSUME Inv, LetGo
  PROVE  Inv'
<1>1. ExchangeTypes' /\ SpoolTypes' /\ dropped' \in BOOLEAN
  BY Zenon DEF Inv, ExchangeTypes, SpoolTypes, LetGo, exchange, spool
<1>2. ASSUME NEW u \in Uploads PROVE UploadInv(u)'
  <2>1. /\ UploadInv(u) /\ handler[u] = "none"
        /\ UNCHANGED <<sizes, exchange, registry, lock, spool, job, bound, cancelled>>
    BY Zenon DEF Inv, LetGo
  <2>2. Turns(u)'
    BY <2>1, Zenon DEF UploadInv, Turns, exchange, spool
  <2>3. Registered(u)'
    BY <2>1, Zenon DEF UploadInv, Registered, exchange, spool
  <2>4. Progress(u)'
    BY <2>1, Zenon DEF UploadInv, Progress, exchange, spool
  <2>5. Handed(u)' /\ Given(u)'
    BY <2>1, Zenon DEF UploadInv, Handed, Sealed, Given, exchange, spool
  <2> QED
    BY <2>2, <2>3, <2>4, <2>5, Zenon DEF UploadInv
<1> QED
  BY <1>1, <1>2, Zenon DEF Inv

\* Nothing happens.
LEMMA StutterKeeps ==
  ASSUME Inv, UNCHANGED vars
  PROVE  Inv'
<1>1. ExchangeTypes' /\ SpoolTypes' /\ dropped' \in BOOLEAN
  BY Zenon DEF Inv, ExchangeTypes, SpoolTypes, vars, exchange, spool
<1>2. ASSUME NEW v \in Uploads PROVE UploadInv(v)'
  <2>1. Same(v)
    BY Zenon DEF vars, exchange, spool, Same
  <2> QED
    BY <2>1, SameKeeps, Zenon DEF Inv
<1> QED
  BY <1>1, <1>2, Zenon DEF Inv

\* The invariant is inductive.
THEOREM Invariant == Spec => []Inv
<1>1. ASSUME Inv, [Next]_vars PROVE Inv'
  <2>1. ASSUME NEW u \in Uploads,
               \/ Start(u) \/ SendTurn(u) \/ ClientFails(u) \/ Undecodable(u) \/ OnCancel(u)
               \/ StartLookup(u) \/ BindBegins(u) \/ BindEnds(u)
        PROVE  Inv'
    BY <1>1, <2>1, StartKeeps, SendTurnKeeps, ClientFailsKeeps, UndecodableKeeps, OnCancelKeeps,
       StartLookupKeeps, BindBeginsKeeps, BindEndsKeeps, Zenon
  <2>2. ASSUME NEW u \in Uploads, ServerStep(u)
        PROVE  Inv'
    BY <1>1, <2>2, StartInsertKeeps, PushKeeps, PushReturnsKeeps, UndoKeeps, FinishKeeps,
       FinishReturnsKeeps, BindTimesOutKeeps, Zenon DEF ServerStep
  <2>3. ASSUME NEW u \in Uploads, ActorStep(u)
        PROVE  Inv'
    BY <1>1, <2>3, StageKeeps, SealKeeps, ExitKeeps, Zenon DEF ActorStep
  <2> QED
    BY <1>1, <2>1, <2>2, <2>3, CloseRemoveKeeps, CloseDrainKeeps, NewStatementKeeps, LetGoKeeps,
       DropSessionKeeps, StutterKeeps, Zenon DEF Next
<1> QED
  BY <1>1, InitInv, PTL DEF Spec

\* The worker does one job at a time: it is in the driver's new_statement() or in a
\* binding, not in both.
OneJob ==
  /\ creating \in BOOLEAN
  /\ creating => \A u \in Uploads : job[u] # "running"

\* Only BindBegins starts a job, and NewStatement the other kind.
LEMMA OneJobStep ==
  ASSUME Inv, OneJob, [Next]_vars
  PROVE  OneJob'
<1>1. CASE NewStatement
  BY <1>1, Zenon DEF NewStatement, OneJob
<1>2. CASE NewStatementReturns
  BY <1>2, Zenon DEF NewStatementReturns, OneJob
<1>3. ASSUME NEW v \in Uploads, BindBegins(v) PROVE OneJob'
  BY <1>3, Zenon DEF BindBegins, OneJob
<1>4. ASSUME NEW v \in Uploads, FinishReturns(v) \/ BindTimesOut(v) \/ BindEnds(v) PROVE OneJob'
  <2>1. /\ creating' = creating
        /\ \/ job' = job \/ job' = [job EXCEPT ![v] = "queued"] \/ job' = [job EXCEPT ![v] = "done"]
    BY <1>4, Zenon DEF Inv, SpoolTypes, FinishReturns, BindTimesOut, BindEnds
  <2> QED
    BY <2>1, Zenon DEF OneJob, Inv, SpoolTypes
<1>5. CASE UNCHANGED <<creating, job>>
  BY <1>5, Zenon DEF OneJob
<1>6. ASSUME NEW v \in Uploads,
             \/ Start(v) \/ StartLookup(v) \/ SendTurn(v) \/ ClientFails(v) \/ Undecodable(v)
             \/ OnCancel(v) \/ StartInsert(v) \/ Push(v) \/ PushReturns(v) \/ Undo(v) \/ Finish(v)
             \/ Stage(v) \/ Seal(v) \/ Exit(v)
      PROVE  UNCHANGED <<creating, job>>
  BY <1>6, Zenon DEF Start, StartLookup, SendTurn, ClientFails, Undecodable, OnCancel, StartInsert,
     Push, PushReturns, Undo, Finish, Stage, Seal, Exit
<1>7. CASE CloseRemove \/ CloseDrain \/ LetGo \/ DropSession \/ UNCHANGED vars
  <2>1. UNCHANGED <<creating, job>>
    BY <1>7, Zenon DEF CloseRemove, CloseDrain, LetGo, DropSession, vars
  <2> QED
    BY <1>5, <2>1, Zenon
<1> QED
  BY <1>1, <1>2, <1>3, <1>4, <1>5, <1>6, <1>7, Zenon DEF Next, ServerStep, ActorStep

\* At every moment.
LEMMA OneJobAtATime == Spec => []OneJob
<1>1. Init => OneJob
  BY Zenon DEF Init, OneJob
<1>2. Inv /\ OneJob /\ [Next]_vars => OneJob'
  BY OneJobStep, Zenon
<1> QED
  BY <1>1, <1>2, Invariant, PTL DEF Spec

\* The variables of BindUpload keep their types: a channel of an actor holds one
\* command at most, so that push(), finish() and cancel() never wait for room.
THEOREM TypeCorrect == Spec => []TypeOK
<1>1. Inv /\ OneJob => TypeOK
  BY Zenon DEF Inv, OneJob, TypeOK, ExchangeTypes, SpoolTypes
<1> QED
  BY <1>1, Invariant, OneJobAtATime, PTL

\* Whatever is bound is the client's batches, each once, in order and within the
\* limit, and whoever is told ok has its parameters bound: finish_bind_upload()
\* takes the entry out of the registry, the actor stops after the last command,
\* and a failed actor answers with its error for ever.
THEOREM WholeBindings == Spec => []BoundWhole
<1>1. ASSUME Inv PROVE BoundWhole
  <2>1. ASSUME NEW b \in bound
        PROVE  /\ b[2] = [i \in 1..Len(sizes[b[1]]) |-> i]
               /\ written[b[1]] <= MaxBytes
               /\ Mode[b[1]] = "batch" => Len(b[2]) = 1
    <3> DEFINE u == b[1]
    <3>1. u \in Uploads /\ staged[u] \in Seq(Nat)
      BY <1>1, Zenon DEF Inv, SpoolTypes
    <3>2. job[u] = "done" /\ b[2] = staged[u]
      BY <1>1, <3>1, Zenon DEF Inv, UploadInv, Given
    <3>3. Sealed(u) /\ (Mode[u] = "batch" => Len(staged[u]) = 1)
      BY <1>1, <3>1, <3>2, Zenon DEF Inv, UploadInv, Handed
    <3>4. \A i \in 1..Len(staged[u]) : staged[u][i] = i
      BY <1>1, <3>1, <3>3, Zenon DEF Inv, UploadInv, Progress, Sealed
    <3>5. staged[u] = [i \in 1..Len(staged[u]) |-> i]
      <4>1. DOMAIN staged[u] = 1..Len(staged[u])
        OBVIOUS
      <4>2. staged[u] = [i \in DOMAIN staged[u] |-> staged[u][i]]
        BY <3>1
      <4> QED
        BY <3>4, <4>2
    <3> QED
      BY <3>2, <3>3, <3>5, Zenon DEF Sealed
  <2>2. \A u \in Uploads : client[u] = "ok" => \E b \in bound : b[1] = u
    BY <1>1, Zenon DEF Inv, UploadInv, Given
  <2> QED
    BY <2>1, <2>2, Zenon DEF BoundWhole
<1> QED
  BY <1>1, Invariant, PTL

\* An upload that cancel_bind_upload() found in the registry is never bound: the
\* finish turn that comes later finds no entry, and one that has taken the entry
\* cannot be cancelled.
THEOREM CancelledStayOut == Spec => []CancelledNotBound
<1>1. ASSUME Inv PROVE CancelledNotBound
  <2>1. ASSUME NEW b \in bound PROVE b[1] \notin cancelled
    <3>1. b[1] \in Uploads
      BY <1>1, Zenon DEF Inv, SpoolTypes
    <3>2. job[b[1]] = "done"
      BY <1>1, <3>1, Zenon DEF Inv, UploadInv, Given
    <3> QED
      BY <1>1, <3>1, <3>2, Zenon DEF Inv, UploadInv, Handed
  <2> QED
    BY <2>1, Zenon DEF CancelledNotBound
<1> QED
  BY <1>1, Invariant, PTL

\* Whoever takes an upload out of the registry finds the channel of its actor
\* empty, so that the try_send() of BindUpload::cancel() reaches it: a push keeps
\* the registry's lock until its command has been taken and answered.
THEOREM CancellationsReach == Spec => CancelsReach
<1>1. ASSUME Inv, [Next]_vars, NEW u \in registry \ registry'
      PROVE  mailbox[u] = <<>>
  <2>1. u \in Uploads
    BY <1>1, Zenon DEF Inv, ExchangeTypes
  <2>2. handler[u] # "pushing" => mailbox[u] = <<>>
    BY <1>1, <2>1, Zenon DEF Inv, UploadInv, Registered
  <2>3. lock = None => handler[u] # "pushing"
    BY <1>1, <2>1, BindAssumption, Zenon DEF Inv, UploadInv, Turns
  <2>5. dropped => handler[u] = "none"
    BY <1>1, <2>1, Zenon DEF Inv, UploadInv, Turns
  <2>4. lock = None \/ handler[u] = "none"
    BY <1>1, <2>1, <2>5, ZenonT(30) DEF Next, ServerStep, ActorStep, Start, StartInsert, SendTurn,
       ClientFails, OnCancel, Undecodable, Push, PushReturns, Undo, Finish, FinishReturns,
       BindBegins, BindEnds, BindTimesOut, Stage, Seal, Exit, CloseRemove, CloseDrain,
       StartLookup, NewStatement, NewStatementReturns, LetGo, DropSession, vars
  <2> QED
    BY <2>2, <2>3, <2>4, Zenon
<1>2. Inv /\ [Next]_vars => [\A u \in registry \ registry' : mailbox[u] = <<>>]_vars
  BY <1>1, Zenon
<1> QED
  BY <1>2, Invariant, PTL DEF Spec, CancelsReach

--------------------------------------------------------------------------------
\* The actor of the upload may yet be sent a command, or has one to answer.
InUse(u) ==
  \/ u \in registry \/ handler[u] = "inserting"
  \/ handler[u] = "finishing" /\ reply[u] = "none"

\* An actor does not end while it is in use.
ActorInv == \A u \in Uploads : InUse(u) => actor[u] = "running"

\* A handler waits only for somebody who is at work.  A push or a finish that waits
\* for the actor has its reply, or the actor runs and has the command; a binding has
\* its job at the worker; and the registry is locked for a push alone, so that
\* whoever waits for the lock waits for an actor that runs, or for nobody.  The
\* statements' lock, which start_bind_upload() waits for, is the worker's own: it has
\* it for a new_statement() that runs and never in a bind(), so that no binding,
\* however long, keeps another upload from starting.
TurnsServed ==
  /\ \A u \in Uploads : handler[u] \in {"pushing", "finishing"} =>
       reply[u] # "none" \/ (actor[u] = "running" /\ mailbox[u] \in {<<"push">>, <<"finish">>})
  /\ \A u \in Uploads : handler[u] = "binding" => job[u] \in {"queued", "running"}
  /\ lock # None => handler[lock] = "pushing"
  /\ creating => \A u \in Uploads : job[u] # "running"

\* A step that neither ends an actor nor takes one into use.
Neutral(u) == actor'[u] = actor[u] /\ (InUse(u)' => InUse(u))

\* The client's own steps and the looks at an upload use no actor that was not used.
LEMMA ClientNeutral ==
  ASSUME Inv, NEW u \in Uploads, NEW v \in Uploads,
         \/ Start(v) \/ SendTurn(v) \/ ClientFails(v) \/ OnCancel(v) \/ Undecodable(v)
         \/ BindBegins(v) \/ BindEnds(v) \/ BindTimesOut(v)
  PROVE  Neutral(u)
<1> USE DEF Inv, ExchangeTypes, SpoolTypes, Neutral, InUse, Moves, Respond
<1>1. CASE SendTurn(v)
  BY <1>1, Zenon DEF SendTurn, spool
<1>2. CASE ClientFails(v)
  BY <1>2, Zenon DEF ClientFails, spool
<1>3. CASE OnCancel(v)
  BY <1>3, Zenon DEF OnCancel
<1>4. CASE Undecodable(v)
  BY <1>4, Zenon DEF Undecodable, spool
<1>5. CASE BindBegins(v)
  BY <1>5, Zenon DEF BindBegins, exchange, spool
<1>6. CASE BindEnds(v)
  BY <1>6, ZenonT(30) DEF BindEnds, spool
<1>7. CASE BindTimesOut(v)
  BY <1>7, Zenon DEF BindTimesOut, spool
<1>8. CASE Start(v)
  BY <1>8, Zenon DEF Start, spool
<1> QED
  BY <1>1, <1>2, <1>3, <1>4, <1>5, <1>6, <1>7, <1>8, Zenon

\* Neither do the handlers: a finish takes over the actor of the entry it removes.
LEMMA TurnNeutral ==
  ASSUME Inv, NEW u \in Uploads, NEW v \in Uploads,
         \/ StartInsert(v) \/ Push(v) \/ PushReturns(v) \/ Undo(v)
         \/ Finish(v) \/ FinishReturns(v) \/ Stage(v)
  PROVE  Neutral(u)
<1> USE DEF Inv, ExchangeTypes, SpoolTypes, Neutral, InUse, Moves, Respond
<1>1. CASE StartInsert(v)
  BY <1>1, Zenon DEF StartInsert, spool
<1>2. CASE Push(v)
  BY <1>2, ZenonT(30) DEF Push, Tell
<1>3. CASE PushReturns(v)
  BY <1>3, ZenonT(30) DEF PushReturns, spool
<1>4. CASE Undo(v)
  BY <1>4, Zenon DEF Undo
<1>5. CASE Finish(v)
  <2>1. UNCHANGED actor /\ registry' = registry \ {v}
    BY <1>5, Zenon DEF Finish
  <2>2. CASE v \in registry
    <3>1. Moves(v, "finishing") /\ reply' = [reply EXCEPT ![v] = "none"]
      BY <1>5, <2>2, Zenon DEF Finish, Tell
    <3> QED
      BY <2>1, <2>2, <3>1, Zenon
  <2>3. CASE v \notin registry
    <3>1. Moves(v, "none") /\ reply' = reply
      BY <1>5, <2>3, Zenon DEF Finish
    <3> QED
      BY <2>1, <2>3, <3>1, Zenon
  <2> QED
    BY <2>2, <2>3, Zenon
<1>6. CASE FinishReturns(v)
  BY <1>6, ZenonT(30) DEF FinishReturns, spool
<1>7. CASE Stage(v)
  BY <1>7, ZenonT(30) DEF Stage, Replies, exchange
<1> QED
  BY <1>1, <1>2, <1>3, <1>4, <1>5, <1>6, <1>7, Zenon

\* Nor the end of a statement or of the session.
LEMMA CloseNeutral ==
  ASSUME Inv, NEW u \in Uploads,
         \/ CloseRemove \/ CloseDrain \/ LetGo \/ DropSession
         \/ NewStatement \/ NewStatementReturns \/ UNCHANGED vars
  PROVE  Neutral(u)
<1>1. UNCHANGED <<actor, handler, reply>> /\ registry' \subseteq registry
  BY Zenon DEF CloseRemove, CloseDrain, LetGo, DropSession, NewStatement, NewStatementReturns, vars,
     exchange, spool
<1> QED
  BY <1>1, Zenon DEF Neutral, InUse

\* start_bind_upload() uses the actor it starts.
LEMMA StartServes ==
  ASSUME Inv, ActorInv, NEW v \in Uploads, StartLookup(v)
  PROVE  ActorInv'
<1> SUFFICES ASSUME NEW u \in Uploads, InUse(u)' PROVE actor'[u] = "running"
  BY Zenon DEF ActorInv
<1>1. CASE u = v /\ statement = "open"
  BY <1>1, Zenon DEF StartLookup, Inv, SpoolTypes
<1>2. CASE u # v \/ statement # "open"
  <2>1. actor'[u] = actor[u] /\ (InUse(u)' => InUse(u))
    BY <1>2, ZenonT(30) DEF StartLookup, Moves, InUse, Inv, ExchangeTypes, SpoolTypes
  <2> QED
    BY <2>1, Zenon DEF ActorInv
<1> QED
  BY <1>1, <1>2, Zenon

\* The actor ends with the finish it answers.
LEMMA SealServes ==
  ASSUME Inv, ActorInv, NEW v \in Uploads, Seal(v)
  PROVE  ActorInv'
<1> SUFFICES ASSUME NEW u \in Uploads, InUse(u)' PROVE actor'[u] = "running"
  BY Zenon DEF ActorInv
<1>1. UNCHANGED <<registry, handler>> /\ reply'[v] # "none"
  BY Zenon DEF Seal, Replies, exchange, Inv, SpoolTypes
<1>2. handler[v] = "finishing" /\ v \notin registry
  <2>1. mailbox[v] = <<"finish">>
    BY Channels DEF Seal, Takes, Inv, SpoolTypes
  <2> QED
    BY <2>1, Zenon DEF Inv, UploadInv, Registered
<1>3. u # v
  BY <1>1, <1>2, Zenon DEF InUse
<1>4. actor'[u] = actor[u] /\ reply'[u] = reply[u]
  BY <1>3, Zenon DEF Seal, Replies, Inv, SpoolTypes
<1> QED
  BY <1>1, <1>4, Zenon DEF ActorInv, InUse

\* An actor that is told to go, or finds its channel without a sender, is not used.
LEMMA ExitServes ==
  ASSUME Inv, ActorInv, NEW v \in Uploads, Exit(v)
  PROVE  ActorInv'
<1>1. UNCHANGED <<registry, handler, reply>>
  BY Zenon DEF Exit, exchange
<1>2. \A u \in Uploads : u # v => actor'[u] = actor[u]
  BY Zenon DEF Exit, Inv, SpoolTypes
<1>3. ~InUse(v)
  <2>1. CASE Takes(v, "cancel")
    <3>1. mailbox[v] = <<"cancel">>
      BY <2>1, Channels DEF Takes, Inv, SpoolTypes
    <3>2. mailbox[v] # <<>> /\ mailbox[v] # <<"push">> /\ mailbox[v] # <<"finish">>
      BY <3>1, Channels
    <3> QED
      BY <3>2, Zenon DEF InUse, Inv, UploadInv, Turns, Registered
  <2>2. CASE ~HasSender(v)
    BY <2>2, Zenon DEF HasSender, InUse
  <2> QED
    BY <2>1, <2>2, Zenon DEF Exit
<1> QED
  BY <1>1, <1>2, <1>3, Zenon DEF ActorInv, InUse

\* Every turn that waits is served: the actor's thread never ends under a handler
\* that waits for its answer, nor under one that may still send to it.
THEOREM HandlersServed == Spec => []TurnsServed
<1>1. Init => ActorInv
  BY Zenon DEF Init, ActorInv, InUse
<1>2. Inv /\ ActorInv /\ [Next]_vars => ActorInv'
  <2> SUFFICES ASSUME Inv, ActorInv, [Next]_vars PROVE ActorInv'
    BY Zenon
  <2>0. ASSUME \A u \in Uploads : Neutral(u) PROVE ActorInv'
    BY <2>0, Zenon DEF Neutral, ActorInv
  <2>1. CASE \/ CloseRemove \/ CloseDrain \/ LetGo \/ DropSession
             \/ NewStatement \/ NewStatementReturns \/ UNCHANGED vars
    BY <2>0, <2>1, CloseNeutral, Zenon
  <2>2. ASSUME NEW v \in Uploads,
               \/ Start(v) \/ SendTurn(v) \/ ClientFails(v) \/ OnCancel(v) \/ Undecodable(v)
               \/ BindBegins(v) \/ BindEnds(v) \/ BindTimesOut(v)
        PROVE  ActorInv'
    BY <2>0, <2>2, ClientNeutral, Zenon
  <2>3. ASSUME NEW v \in Uploads,
               \/ StartInsert(v) \/ Push(v) \/ PushReturns(v) \/ Undo(v)
               \/ Finish(v) \/ FinishReturns(v) \/ Stage(v)
        PROVE  ActorInv'
    BY <2>0, <2>3, TurnNeutral, Zenon
  <2>4. ASSUME NEW v \in Uploads, StartLookup(v) \/ Seal(v) \/ Exit(v) PROVE ActorInv'
    BY <2>4, StartServes, SealServes, ExitServes, Zenon
  <2> QED
    BY <2>1, <2>2, <2>3, <2>4, Zenon DEF Next, ServerStep, ActorStep
<1>3. Inv /\ ActorInv /\ OneJob => TurnsServed
  <2> SUFFICES ASSUME Inv, ActorInv, OneJob PROVE TurnsServed
    BY Zenon
  <2>1. ASSUME NEW u \in Uploads, handler[u] \in {"pushing", "finishing"}, reply[u] = "none"
        PROVE  actor[u] = "running" /\ mailbox[u] \in {<<"push">>, <<"finish">>}
    BY <2>1, Zenon DEF Inv, UploadInv, Registered, ActorInv, InUse
  <2>2. ASSUME NEW u \in Uploads, handler[u] = "binding" PROVE job[u] \in {"queued", "running"}
    BY <2>2, Zenon DEF Inv, UploadInv, Handed
  <2>3. lock # None => handler[lock] = "pushing"
    BY Zenon DEF Inv, ExchangeTypes, UploadInv, Turns
  <2> QED
    BY <2>1, <2>2, <2>3, Zenon DEF TurnsServed, OneJob
<1> QED
  BY <1>1, <1>2, <1>3, Invariant, OneJobAtATime, PTL DEF Spec

================================================================================

------------------------------ MODULE TargetAccess ------------------------------
(***************************************************************************)
(* Who a client is and which targets are open to it: authentication as     *)
(* main.rs sets it up, SessionManager::principal() and TargetAuthorizer of *)
(* session.rs, and the checks of Config::validate() (config.rs), all under *)
(* crates/grainlift-server/src.                                            *)
(*                                                                         *)
(* A configuration is a record:                                            *)
(*   listeners    whether there is a TCP and an Iroh listener              *)
(*   tls          whether TCP has mutual TLS                               *)
(*   require_auth server.require_authentication                            *)
(*   bearer       names by bearer token                                    *)
(*   endpoints    names by Iroh endpoint                                   *)
(*   permissions  targets, or AnyTarget, by the name of a principal        *)
(*   targets      the targets by name, with their options                  *)
(*   faults       settings that are zero, blank or out of order, and       *)
(*                plaintext listeners outside loopback not acknowledged    *)
(***************************************************************************)
EXTENDS PartitionSigner, OptionPolicy

CONSTANTS
  Domains,    \* the domain of identities by transport
  Anonymous,  \* the name of clients without an identity
  AnyTarget,  \* "*"
  Nobody      \* no credential, no identity

ASSUME AccessAssumption ==
  /\ Domains \in [{"http", "tcp", "iroh"} -> Names]
  /\ Anonymous \in Names

\* validate_handle(): text, which has no NUL, and not empty.
ValidHandle(name) == name \in Names \ {<<>>}

\* Config::validate()
ValidConfig(config) ==
  /\ config.faults = {}
  /\ DOMAIN config.targets # {}
  /\ config.require_auth =>
       /\ DOMAIN config.bearer # {}
       /\ config.listeners["tcp"] => config.tls
       /\ config.listeners["iroh"] => DOMAIN config.endpoints # {}
  /\ \A name \in DOMAIN config.permissions :
       /\ config.permissions[name] # {}
       /\ config.permissions[name] \subseteq DOMAIN config.targets \cup {AnyTarget}
  /\ \A target \in DOMAIN config.targets : ValidTarget(config.targets[target])

--------------------------------------------------------------------------------
\* What a listener makes of a credential: a name, Nobody for a client without an
\* identity, or refusal.  HTTP: the bearer tokens; TCP: the client's certificate;
\* Iroh: iroh_policy().
Names_Http(config, credential) ==
  IF credential = Nobody THEN {Nobody}
  ELSE {config.bearer[token] : token \in DOMAIN config.bearer \cap {credential}}

Names_Iroh(config, credential) ==
  IF credential \in DOMAIN config.endpoints THEN {config.endpoints[credential]}
  ELSE IF config.require_auth \/ DOMAIN config.endpoints # {} THEN {}
  ELSE {Nobody}

Identities(config, login) ==
  CASE login.transport = "http" -> Names_Http(config, login.credential)
    [] login.transport = "iroh" -> Names_Iroh(config, login.credential)
    [] login.transport = "tcp"  -> {IF config.tls THEN login.credential ELSE Nobody}

\* principal(), for those who have one.
Principals(config, login) ==
  {IF name = Nobody THEN Principal(<<>>, Anonymous)
   ELSE Principal(Domains[login.transport], name) :
     name \in {n \in Identities(config, login) : config.require_auth => n # Nobody}}

\* The name in a principal: what follows the first NUL.
NameIn(principal) ==
  LET nul == CHOOSE i \in DOMAIN principal :
               principal[i] = NUL /\ \A j \in 1 .. i - 1 : principal[j] # NUL
  IN  SubSeq(principal, nul + 1, Len(principal))

\* Variant: those who are not listed may open everything.
AllowsUnlisted(config, principal, target) ==
  NameIn(principal) \in DOMAIN config.permissions =>
    {target, AnyTarget} \cap config.permissions[NameIn(principal)] # {}

\* TargetAuthorizer::allows(): without permissions, everything; else by the name,
\* or by the whole principal.
Allows(config, principal, target) ==
  LET entry == IF NameIn(principal) \in DOMAIN config.permissions
                 THEN NameIn(principal) ELSE principal
  IN  \/ DOMAIN config.permissions = {}
      \/ /\ entry \in DOMAIN config.permissions
         /\ {target, AnyTarget} \cap config.permissions[entry] # {}

================================================================================

------------------------------ MODULE OptionPolicy ------------------------------
(***************************************************************************)
(* Database and connection options on their way to the downstream driver:  *)
(* remote_options() of the client (crates/adbc-driver-grainlift/src/lib.rs),*)
(* validation of requests (grainlift-protocol/src/requests.rs), the policy *)
(* of a target (grainlift-server/src/config.rs) and merge_options()        *)
(* (grainlift-server/src/backend.rs).                                      *)
(*                                                                         *)
(* A list of options is a set of records with a key and a value.           *)
(***************************************************************************)

CONSTANTS
  OwnKeys,      \* the options of the Grainlift driver itself
  GrainliftUri, \* the one of them that names the service
  Uri           \* the standard option "uri"

ASSUME OptionsAssumption == GrainliftUri \in OwnKeys /\ Uri \notin OwnKeys

Keys(options) == {o.key : o \in options}
Distinct(options) == \A o, p \in options : o.key = p.key => o = p
Kinds == {"database", "connection"}

\* remote_options(): what of the database's options is sent.  The standard uri
\* names the service when grainlift.uri is not given.
RemoteOptions(options) ==
  {o \in options : /\ o.key \notin OwnKeys
                   /\ o.key = Uri => GrainliftUri \in Keys(options)}

\* string_option_any(): the option that names the service.
ServiceKey(options) == IF GrainliftUri \in Keys(options) THEN GrainliftUri ELSE Uri

\* validate() of the database's own options: a service to call.
NamesService(options) == ServiceKey(options) \in Keys(options)

--------------------------------------------------------------------------------
\* A target has, for each kind, the options configured, those clients may set,
\* and whether they may set all others.

\* ClientOptionPolicy::new()
Policy(target, kind) ==
  [allow_all |-> target.allow_all[kind],
   allowed   |-> target.allowed[kind],
   protected |-> Keys(target.configured[kind])]

\* permits()
Permits(policy, key) ==
  key \notin policy.protected /\ (policy.allow_all \/ key \in policy.allowed)

\* validate_options() and validate_option_policy() for one target; a blank key is
\* no key here.
ValidTarget(target) ==
  \A kind \in Kinds :
    /\ Distinct(target.configured[kind])
    /\ ~(target.allow_all[kind] /\ target.allowed[kind] # {})
    /\ target.allowed[kind] \cap Keys(target.configured[kind]) = {}

\* merge_options(), the part after the policy: the values of the operator win.
Merge(client, configured) ==
  configured \cup {o \in client : o.key \notin Keys(configured)}

\* merge_options(), the part before: every option of the client is permitted.
Mergeable(client, policy) == \A o \in client : Permits(policy, o.key)

================================================================================

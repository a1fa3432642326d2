------------------------------- MODULE WireErrors -------------------------------
(***************************************************************************)
(* Errors on their way to the client: WireAdbcError and the names of the   *)
(* statuses (crates/grainlift-protocol/src/lib.rs), adbc_rpc_error() of the *)
(* server (grainlift-server/src/service.rs) and rpc_error() of the client  *)
(* (adbc-driver-grainlift/src/lib.rs).                                     *)
(*                                                                         *)
(* Messages are left out, and so is JSON, which gives back what it was     *)
(* given.  An error without details has the empty sequence of them.        *)
(***************************************************************************)
EXTENDS Integers, Sequences

CONSTANTS
  Bytes,      \* the values of details
  Texts64,    \* texts, base64 or not
  Encode64,   \* base64 (external)
  Decode64,   \* its decoder
  Malformed   \* what is not base64

ASSUME Base64Assumption ==
  /\ Encode64 \in [Bytes -> Texts64]
  /\ Decode64 \in [Texts64 -> Bytes \cup {Malformed}]
  /\ Malformed \notin Bytes
  /\ \A b \in Bytes : Decode64[Encode64[b]] = b

\* status_name()
StatusName ==
  [Ok |-> "ok", Unknown |-> "unknown", NotImplemented |-> "not_implemented",
   NotFound |-> "not_found", AlreadyExists |-> "already_exists",
   InvalidArguments |-> "invalid_arguments", InvalidState |-> "invalid_state",
   InvalidData |-> "invalid_data", Integrity |-> "integrity", Internal |-> "internal",
   IO |-> "io", Cancelled |-> "cancelled", Timeout |-> "timeout",
   Unauthenticated |-> "unauthenticated", Unauthorized |-> "unauthorized"]

Statuses == DOMAIN StatusName

\* The errors of drivers, adbc_core's Error; a C char is one of 256 values.
AdbcErrors ==
  [status : Statuses, vendor_code : Int, sqlstate : [1 .. 5 -> 0 .. 255],
   details : Seq([key : STRING, value : Bytes])]

\* status_from_name(), the names it knows.
NamedStatus ==
  [ok |-> "Ok", not_implemented |-> "NotImplemented", not_found |-> "NotFound",
   already_exists |-> "AlreadyExists", invalid_arguments |-> "InvalidArguments",
   invalid_state |-> "InvalidState", invalid_data |-> "InvalidData",
   integrity |-> "Integrity", internal |-> "Internal", io |-> "IO",
   cancelled |-> "Cancelled", timeout |-> "Timeout",
   unauthenticated |-> "Unauthenticated", unauthorized |-> "Unauthorized"]

StatusFromName(name) ==
  IF name \in DOMAIN NamedStatus THEN NamedStatus[name] ELSE "Unknown"

\* A C char as the wire's i8, whatever its sign is on this machine.
AsI8(char) == IF char > 127 THEN char - 256 ELSE char

\* WireAdbcError::from()
ToWire(e) ==
  [status |-> StatusName[e.status], vendor_code |-> e.vendor_code,
   sqlstate |-> [i \in DOMAIN e.sqlstate |-> AsI8(e.sqlstate[i])],
   details |-> [i \in DOMAIN e.details |->
                  [key |-> e.details[i].key, value |-> Encode64[e.details[i].value]]]]

\* An error the client makes itself: with_message_and_status().
Plain(status) ==
  [status |-> status, vendor_code |-> 0, sqlstate |-> <<0, 0, 0, 0, 0>>, details |-> <<>>]

\* try_into_adbc(), the checks.
WellFormed(w) ==
  /\ Len(w.sqlstate) = 5
  /\ \A i \in DOMAIN w.sqlstate : w.sqlstate[i] >= 0
  /\ StatusFromName(w.status) = "Unknown" => w.status = "unknown"
  /\ \A i \in DOMAIN w.details : Decode64[w.details[i].value] # Malformed

\* into_adbc()
IntoAdbc(w) ==
  IF WellFormed(w)
    THEN [status |-> StatusFromName(w.status), vendor_code |-> w.vendor_code,
          sqlstate |-> w.sqlstate,
          details |-> [i \in DOMAIN w.details |->
                         [key |-> w.details[i].key, value |-> Decode64[w.details[i].value]]]]
    ELSE Plain("InvalidData")

\* adbc_rpc_error()
AdbcRpcError(e) == [error_type |-> "AdbcError", message |-> ToWire(e)]

\* rpc_error().  Requests that cannot be decoded, identities that are refused and
\* versions that do not match are errors of other types.
RpcError(error) ==
  IF error.error_type = "AdbcError" THEN IntoAdbc(error.message) ELSE Plain("IO")

================================================================================

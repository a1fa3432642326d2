---------------------------- MODULE PartitionSigner ----------------------------
(***************************************************************************)
(* Partition tokens: seal() and open() of PartitionSigner in               *)
(* crates/grainlift-server/src/partitions.rs.                              *)
(*                                                                         *)
(* A token carries its claims and a signature over them.  The signature is *)
(* modelled by the key it was made with: it verifies with that key only.   *)
(* The digest of the owner is modelled by the bytes it is taken of, in     *)
(* which a NUL stands between the target and the principal.                *)
(***************************************************************************)
EXTENDS Naturals, Sequences

CONSTANTS
  Letters,      \* the characters of names
  NUL,          \* the separator
  Descriptors,  \* the driver's partition descriptors
  PayloadSize,  \* the length of the encoded claims of each
  Header,       \* 36: the magic and the signature ahead of the claims
  MaxMillis     \* i64::MAX, the last time there is

Names == Seq(Letters \ {NUL})

ASSUME SignerAssumption ==
  /\ NUL \in Letters
  /\ PayloadSize \in [Descriptors -> Nat \ {0}]
  /\ Header \in Nat
  /\ MaxMillis \in Nat

Invalid == [ok |-> FALSE]

\* principal(): the domain and the name of an authenticated client; the domain
\* has no NUL, the name may have.
Principal(domain, name) == domain \o <<NUL>> \o name

\* Variant: nothing between the target and the principal.
OwnerRunTogether(target, principal) == target \o principal

\* owner()
Owner(target, principal) == target \o <<NUL>> \o principal

Size(descriptor) == Header + PayloadSize[descriptor]

\* seal(): the expiry is an i64, and the token is to fit the limit.
Seal(key, now, ttl, target, principal, descriptor, limit) ==
  IF now + ttl > MaxMillis \/ Size(descriptor) > limit
    THEN Invalid
    ELSE [ok |-> TRUE, key |-> key, expires |-> now + ttl,
          owner |-> Owner(target, principal), descriptor |-> descriptor]

\* open(): whether the descriptor in the token is given out.
Open(key, now, target, principal, token, limit) ==
  /\ Size(token.descriptor) <= limit
  /\ token.key = key
  /\ token.expires > now
  /\ token.owner = Owner(target, principal)

================================================================================

--------------------------- MODULE MCSessionRegistry ---------------------------
(***************************************************************************)
(* Instances of SessionRegistry.  Principal p1 makes two attempts and p2   *)
(* one: p1's second open contends for its quota.  The quotas of the two    *)
(* add up to the global one, whose own refusals the proof covers.          *)
(***************************************************************************)
EXTENDS SessionRegistry

CONSTANTS a1, a2, a3, h1, h2, p1, p2

MCCaller == [x \in Attempts \cup Handlers |-> IF x = a3 THEN p2 ELSE p1]

================================================================================

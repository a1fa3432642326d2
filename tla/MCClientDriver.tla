----------------------------- MODULE MCClientDriver -----------------------------
(***************************************************************************)
(* An instance of ClientDriver: a statement that can bind from a result of *)
(* the connection, and a cancellation at any time.                         *)
(***************************************************************************)
EXTENDS ClientDriver

CONSTANTS s1, r1, k1

MCMaker == [r \in Readers |-> Conn]

================================================================================

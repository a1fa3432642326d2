------------------------------- MODULE MCIrohPool -------------------------------
(***************************************************************************)
(* Three callers of one peer: c1 and c2 have the same settings, c1 by      *)
(* default and c2 by naming the process's key; c3 differs from them by its *)
(* timeout only.  c2 is the thread of a reader.                            *)
(***************************************************************************)
EXTENDS IrohPool

CONSTANTS c1, c2, c3, peer

MCConfig ==
  [c \in Callers |->
     [secret_key |-> IF c = c2 THEN ProcessKey ELSE None,
      remote_id |-> peer,
      direct_address |-> None,
      rpc_timeout |-> IF c = c3 THEN 2 ELSE 1]]

================================================================================

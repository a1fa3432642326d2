---------------------------- MODULE MCSessionWorker ----------------------------
(***************************************************************************)
(* An instance of SessionWorker: one call more than the channel and the    *)
(* running operation can hold, so that busy, skipped and late jobs occur.  *)
(***************************************************************************)
EXTENDS SessionWorker

CONSTANTS c1, c2, c3

================================================================================

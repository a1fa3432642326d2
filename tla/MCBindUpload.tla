------------------------------ MODULE MCBindUpload ------------------------------
(***************************************************************************)
(* An instance of BindUpload, with sizes in units that make the framing    *)
(* count: Header and Trailer are 1, and MaxBytes is 6.                     *)
(***************************************************************************)
EXTENDS BindUpload, TLC

CONSTANTS u1, u2

MCMode == (u1 :> "stream" @@ u2 :> "batch")

\* u1 fits exactly and u2 is over by its trailer alone; or u1 is over with its
\* third batch, and u2 fits but has one batch more than bind() takes.
MCInputs == {(u1 :> <<2, 2>> @@ u2 :> <<5>>), (u1 :> <<2, 2, 2, 2>> @@ u2 :> <<2, 2>>)}

================================================================================

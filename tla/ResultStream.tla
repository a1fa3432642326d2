------------------------------ MODULE ResultStream ------------------------------
(***************************************************************************)
(* What reading a remote result promises to the application: the batches   *)
(* of the downstream reader, each once and in order; the end only after    *)
(* all of them and only if the reader ended; an error at any time, and     *)
(* nothing after it.  Batches are numbered by their place in the stream.   *)
(***************************************************************************)
EXTENDS Naturals, Sequences

VARIABLES
  source,   \* "live", "ended" or "failed": the downstream reader
  produced, \* how many batches it has returned
  read,     \* what the application has been given
  outcome   \* "reading", "ended" or "failed": what the application knows

vars == <<source, produced, read, outcome>>

Init ==
  /\ source = "live"
  /\ produced = 0
  /\ read = <<>>
  /\ outcome = "reading"

Produce ==
  /\ source = "live"
  /\ \/ produced' = produced + 1 /\ UNCHANGED source
     \/ source' \in {"ended", "failed"} /\ UNCHANGED produced
  /\ UNCHANGED <<read, outcome>>

Deliver ==
  /\ outcome = "reading"
  /\ Len(read) < produced
  /\ read' = Append(read, Len(read) + 1)
  /\ UNCHANGED <<source, produced, outcome>>

End ==
  /\ outcome = "reading"
  /\ source = "ended"
  /\ Len(read) = produced
  /\ outcome' = "ended"
  /\ UNCHANGED <<source, produced, read>>

Fail ==
  /\ outcome = "reading"
  /\ outcome' = "failed"
  /\ UNCHANGED <<source, produced, read>>

Next == Produce \/ Deliver \/ End \/ Fail

Spec == Init /\ [][Next]_vars

================================================================================

---------------------------- MODULE MCSessionHandles ----------------------------
(***************************************************************************)
(* Instances of SessionHandles.  The first letter of a request tells its   *)
(* method.                                                                 *)
(***************************************************************************)
EXTENDS SessionHandles

CONSTANTS n1, n2, e1, e2, u1, s1, k1, m1, m2, m3, c1, d1, x1

MCKind ==
  [r \in Requests |->
     CASE r \in {n1, n2} -> "new"
       [] r \in {e1, e2} -> "execute"
       [] r = u1 -> "update"
       [] r = s1 -> "statement"
       [] r = k1 -> "connection"
       [] r \in {m1, m2, m3} -> "metadata"
       [] r = c1 -> "close_statement"
       [] r = d1 -> "close_result"
       [] r = x1 -> "cancel"]

\* Executions of one statement, its close, and a result without a statement;
\* results up to the quota; the remaining methods and a cancellation.
MCWorkloads ==
  {{n1, e1, e2, m1, c1}, {m1, m2, m3, d1}, {n1, e1, u1, x1}, {n1, s1, k1}}

================================================================================

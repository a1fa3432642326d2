------------------------------ MODULE MCInfoReader ------------------------------
(***************************************************************************)
(* An instance of InfoReader.  Two codes are about the driver, 0 and 1, and *)
(* two are not; the batches of the downstream reader begin, end, alternate *)
(* and consist of rows of either sort, or have none.                       *)
(***************************************************************************)
EXTENDS InfoReader

MCDriverCodes == <<0, 1>>
MCContents ==
  {[i \in 1..3 |-> <<<<5, 0, 6>>, <<>>, <<1, 6, 5>>>>[i]],
   [i \in 1..3 |-> <<<<0, 1>>, <<5, 6, 0, 1, 5>>, <<6>>>>[i]],
   NoColumn}
MCCodeSets == {None, Some({1, 5}), Some({5})}

\* Metadata: the schema of the record, one with a dictionary, the dictionary and one
\* of no schema, a batch of one row and a body of one word, one without rows, one that
\* is too large when it is decoded, no message, and a body of length -1.
MCMetadata ==
  [w \in -1 .. 7 |->
     CASE w = 0  -> [kind |-> "schema", body |-> 0, ids |-> {}, record |-> TRUE]
       [] w = 1  -> [kind |-> "batch", body |-> 1, rows |-> 1, size |-> 1]
       [] w = 2  -> [kind |-> "schema", body |-> 0, ids |-> {5}, record |-> FALSE]
       [] w = 3  -> [kind |-> "dictionary", body |-> 0, id |-> 5]
       [] w = 4  -> [kind |-> "dictionary", body |-> 0, id |-> 6]
       [] w = 5  -> [kind |-> "batch", body |-> 0, rows |-> 0, size |-> 0]
       [] w = 6  -> [kind |-> "batch", body |-> 0, rows |-> 1, size |-> 99]
       [] w = 7  -> Malformed
       [] w = -1 -> [kind |-> "batch", body |-> -1, rows |-> 1, size |-> 1]]
MCWords == -1 .. 7

\* A payload: any words, or frames put together, the last of them perhaps cut short.
Frames ==
  {<<1, 0>>, <<1, 2>>, <<-1, 1, 3>>, <<1, 4>>, <<1, 1, 0>>, <<2, 5, 0>>, <<1, 6>>, <<0>>, <<-1, 0>>}
Streams == {Concat(f) : f \in UNION {[1 .. n -> Frames] : n \in 0 .. 4}}
           \cup {<<1, 2, 1, 3>> \o Concat(f) : f \in [1 .. 3 -> Frames]}
MCPayloads ==
  UNION {[1 .. n -> MCWords] : n \in 0 .. 4}
  \cup Streams
  \cup {SubSeq(s, 1, Len(s) - 1) : s \in Streams \ {<<>>}}

================================================================================

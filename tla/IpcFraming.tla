------------------------------- MODULE IpcFraming -------------------------------
(***************************************************************************)
(* The framing of a payload nested in a control message: validate_ipc()    *)
(* and decode_batch_ipc() of crates/grainlift-protocol/src/responses.rs.   *)
(*                                                                         *)
(* A payload is a sequence of words of four bytes; a word is the integer   *)
(* it holds, and lengths are in words.  Metadata says of which kind its    *)
(* message is and how long the body that follows; its first word stands    *)
(* for all of it.  Of a schema it gives the ids of its dictionaries and    *)
(* whether it is the schema of the record expected, of a dictionary the    *)
(* id, and of a batch the rows and what batch_buffer_bytes() makes of it.  *)
(***************************************************************************)
EXTENDS Integers, Sequences

CONSTANTS
  Words,      \* the words of payloads
  Metadata,   \* what root_as_message() makes of metadata, by its first word
  Malformed,  \* metadata that is not a message
  Limit       \* the size limit of the payload

Messages == {Metadata[w] : w \in Words} \ {Malformed}

ASSUME FramingAssumption ==
  /\ Words \subseteq Int
  /\ \A m \in Messages : m.body \in Int
  /\ Limit \in Nat

\* What a prefix at an offset leads to: a length, behind a continuation marker if
\* there is one; the message of that length; what follows its body.
Start(bytes, offset) == offset + IF bytes[offset + 1] = -1 THEN 2 ELSE 1
Length(bytes, offset) == bytes[Start(bytes, offset)]
MessageAt(bytes, offset) == Metadata[bytes[Start(bytes, offset) + 1]]
After(bytes, offset) ==
  Start(bytes, offset) + Length(bytes, offset) + MessageAt(bytes, offset).body

\* The prefix is there,
HasPrefix(bytes, offset) == offset + 1 <= Len(bytes) /\ Start(bytes, offset) <= Len(bytes)

\* and is the terminator,
HasEnd(bytes, offset) == HasPrefix(bytes, offset) /\ Length(bytes, offset) = 0

\* or that of a message whose metadata and body are there.
HasMessage(bytes, offset) ==
  /\ HasPrefix(bytes, offset)
  /\ Length(bytes, offset) > 0
  /\ Start(bytes, offset) + Length(bytes, offset) <= Len(bytes)
  /\ MessageAt(bytes, offset) # Malformed
  /\ MessageAt(bytes, offset).body >= 0
  /\ After(bytes, offset) <= Len(bytes)

\* Variant: what follows the terminator is not looked at.
AtEndAnywhere(bytes, offset) == offset <= Len(bytes)

\* The test on reaching the terminator.
AtEnd(bytes, offset) == offset = Len(bytes)

\* validate_ipc(): the loop, from an offset on.
ValidateIpc(bytes) ==
  LET from[offset \in 0 .. Len(bytes)] ==
        \/ HasEnd(bytes, offset) /\ AtEnd(bytes, Start(bytes, offset))
        \/ HasMessage(bytes, offset) /\ from[After(bytes, offset)]
  IN  Len(bytes) <= Limit /\ from[0]

\* StreamReader::next(), from an offset on, passes over dictionaries: where it stops,
\* and whose dictionaries it has then.
Passes(bytes) ==
  LET pass[offset \in 0 .. Len(bytes)] ==
        IF HasMessage(bytes, offset) /\ MessageAt(bytes, offset).kind = "dictionary"
          THEN LET rest == pass[After(bytes, offset)]
               IN  [at |-> rest.at, ids |-> rest.ids \cup {MessageAt(bytes, offset).id}]
          ELSE [at |-> offset, ids |-> {}]
  IN  pass

\* decode_batch_ipc(): the reader finds a schema, next() then a batch, with the
\* dictionaries of the schema and no others before it, and next() again the end.
DecodeBatchIpc(bytes) ==
  /\ ValidateIpc(bytes)
  /\ LET schema == MessageAt(bytes, 0)
         first == Passes(bytes)[After(bytes, 0)]
         batch == MessageAt(bytes, first.at)
         second == Passes(bytes)[After(bytes, first.at)]
     IN  /\ HasMessage(bytes, 0) /\ schema.kind = "schema"
         /\ HasMessage(bytes, first.at) /\ batch.kind = "batch" /\ first.ids = schema.ids
         /\ HasEnd(bytes, second.at) /\ second.ids \subseteq schema.ids
         /\ batch.size <= Limit

\* decode_record_ipc(): the batch is one row of the type expected.
DecodeRecordIpc(bytes) ==
  /\ DecodeBatchIpc(bytes)
  /\ MessageAt(bytes, 0).record
  /\ MessageAt(bytes, Passes(bytes)[After(bytes, 0)].at).rows = 1

--------------------------------------------------------------------------------
\* The format: a length, which a continuation marker may precede, and so many words
\* of metadata and of body; the terminator is a length of 0.
Prefix(bytes, length) == bytes = <<length>> \/ bytes = <<-1, length>>

IsMessage(bytes, message) ==
  \E p \in 1 .. Len(bytes), m \in 1 .. Len(bytes) :
    /\ p < Len(bytes)
    /\ Prefix(SubSeq(bytes, 1, p), m)
    /\ Metadata[bytes[p + 1]] = message
    /\ Len(bytes) = p + m + message.body
    /\ message.body >= 0

Piece(bytes, i, j) == SubSeq(bytes, i + 1, j)

\* A dictionary for an id.
IsDictionary(bytes, id) ==
  \E d \in Messages : d.kind = "dictionary" /\ d.id = id /\ IsMessage(bytes, d)

\* Two cuts with none between them.
Adjacent(cuts, i, j) == i < j /\ \A c \in cuts : c <= i \/ j <= c

\* The words from i to j can be cut into dictionaries for these ids.
AreDictionaries(bytes, i, j, ids) ==
  \E cuts \in SUBSET (i .. j) :
    /\ i \in cuts /\ j \in cuts
    /\ \A x, y \in cuts :
         Adjacent(cuts, x, y) => \E id \in ids : IsDictionary(Piece(bytes, x, y), id)
    /\ \A id \in ids :
         \E x, y \in cuts : Adjacent(cuts, x, y) /\ IsDictionary(Piece(bytes, x, y), id)

\* The stream of one batch: a schema, its dictionaries, the batch, any of its
\* dictionaries again, the terminator.
IsOneBatch(bytes) ==
  /\ Len(bytes) <= Limit
  /\ \E schema \in Messages, s \in 1 .. Len(bytes) :
       /\ schema.kind = "schema" /\ IsMessage(Piece(bytes, 0, s), schema)
       /\ \E batch \in Messages, i \in s .. Len(bytes), j \in s .. Len(bytes) :
            /\ i < j
            /\ batch.kind = "batch" /\ batch.size <= Limit
            /\ IsMessage(Piece(bytes, i, j), batch)
            /\ AreDictionaries(bytes, s, i, schema.ids)
            /\ \E e \in j .. Len(bytes), ids \in SUBSET schema.ids :
                 /\ Prefix(Piece(bytes, e, Len(bytes)), 0)
                 /\ AreDictionaries(bytes, j, e, ids)

================================================================================

-------------------------------- MODULE IrohPool --------------------------------
(***************************************************************************)
(* The client's process-wide pool of Iroh connections:                     *)
(* crates/adbc-driver-grainlift/src/iroh_pool.rs.                          *)
(*                                                                         *)
(* Each caller runs open_client() once, on a thread of its own, and some   *)
(* time later drops what it got, a client and a lease: a connection        *)
(* (ByteTransport in lib.rs) in this order, the thread of a result reader  *)
(* (ByteReader) in the other.  A slot is named after the acquisition that  *)
(* made it: the caller and the number of its attempt.  The pool's map      *)
(* keeps weak references, so a slot is alive while some caller holds it,   *)
(* and its connection is closed when the last one lets go.                 *)
(***************************************************************************)
EXTENDS Naturals

CONSTANTS
  Callers,     \* calls of open_client()
  Readers,     \* those made by the thread of a ByteReader
  Config,      \* the configuration of each caller
  ProcessKey,  \* process_secret_key(): the identity of callers without one
  None         \* no slot; no secret key

VARIABLES
  stage,    \* where each caller is in open_client()
  attempt,  \* the number of its attempt, 0 or 1
  slot,     \* the slot it holds a strong reference to
  stream,   \* the slot whose connection carries the logical stream of its RpcClient
  refused,  \* history: the slot on which its first attempt failed
  entries,  \* WeakPool::entries
  cell,     \* Slot::value, a OnceLock
  link,     \* the physical connection of a slot
  failing   \* history: the slots on which opening a stream has failed

vars == <<stage, attempt, slot, stream, refused, entries, cell, link, failing>>

--------------------------------------------------------------------------------
Stage ==
  {"acquire", "init", "connecting", "open", "evict", "leased", "ending", "error", "dropped"}
Slots == Callers \X {0, 1}

ASSUME PoolAssumption == None \notin Slots /\ Readers \subseteq Callers

\* What a connection is made with: initialize_resource().
Settings(c) ==
  [local_id |-> IF Config[c].secret_key = None THEN ProcessKey ELSE Config[c].secret_key,
   remote_id |-> Config[c].remote_id,
   direct_address |-> Config[c].direct_address,
   rpc_timeout |-> Config[c].rpc_timeout]

\* Variant: a key that leaves the timeout out.
PoolKeyOfPeer(c) ==
  [local_id |-> Settings(c).local_id,
   remote_id |-> Settings(c).remote_id,
   direct_address |-> Settings(c).direct_address]

\* PoolKey, as open_client() builds it.
PoolKey(c) ==
  [local_id |-> Settings(c).local_id,
   remote_id |-> Settings(c).remote_id,
   direct_address |-> Settings(c).direct_address,
   rpc_timeout |-> Settings(c).rpc_timeout]

Keys == {PoolKey(c) : c \in Callers}

Holders(s) == {c \in Callers : slot[c] = s}
Alive(s) == Holders(s) # {}

Init ==
  /\ stage = [c \in Callers |-> "acquire"]
  /\ attempt = [c \in Callers |-> 0]
  /\ slot = [c \in Callers |-> None]
  /\ stream = [c \in Callers |-> None]
  /\ refused = [c \in Callers |-> None]
  /\ entries = [k \in Keys |-> None]
  /\ cell = [s \in Slots |-> "empty"]
  /\ link = [s \in Slots |-> "none"]
  /\ failing = {}

--------------------------------------------------------------------------------
\* The caller gives up its reference; the last one drops the slot's value, and
\* ConnectionResource::drop closes the connection.
Release(c) ==
  /\ slot' = [slot EXCEPT ![c] = None]
  /\ link' = IF Holders(slot[c]) = {c} /\ link[slot[c]] # "none"
               THEN [link EXCEPT ![slot[c]] = "closed"]
               ELSE link

\* retain(): entries whose slot is gone are dropped.
Swept(k) ==
  IF entries[k] # None /\ Alive(entries[k]) THEN entries[k] ELSE None

\* acquire(), under the lock: the living slot of the key, or a new one.
Acquire(c) ==
  /\ stage[c] = "acquire"
  /\ LET key == PoolKey(c)
         found == Swept(key)
         s == IF found # None THEN found ELSE <<c, attempt[c]>>
     IN  /\ slot' = [slot EXCEPT ![c] = s]
         /\ entries' = [k \in Keys |-> IF k = key THEN s ELSE Swept(k)]
  /\ stage' = [stage EXCEPT ![c] = "init"]
  /\ UNCHANGED <<attempt, stream, refused, cell, link, failing>>

\* get_or_init(): the first caller runs the initializer, the others wait for it;
\* all of them get its result.
Initialize(c) ==
  /\ stage[c] = "init"
  /\ cell[slot[c]] = "empty"
  /\ cell' = [cell EXCEPT ![slot[c]] = "busy"]
  /\ stage' = [stage EXCEPT ![c] = "connecting"]
  /\ UNCHANGED <<attempt, slot, stream, refused, entries, link, failing>>

\* Variant: an initializer that fails leaves the others waiting.
ConnectsOrHangs(c) ==
  /\ stage[c] = "connecting"
  /\ \/ /\ cell' = [cell EXCEPT ![slot[c]] = "ok"]
        /\ link' = [link EXCEPT ![slot[c]] = "up"]
     \/ UNCHANGED <<cell, link>>
  /\ stage' = [stage EXCEPT ![c] = "init"]
  /\ UNCHANGED <<attempt, slot, stream, refused, entries, failing>>

\* initialize_resource() returns: connected or not.
Connects(c) ==
  /\ stage[c] = "connecting"
  /\ \/ /\ cell' = [cell EXCEPT ![slot[c]] = "ok"]
        /\ link' = [link EXCEPT ![slot[c]] = "up"]
     \/ /\ cell' = [cell EXCEPT ![slot[c]] = "failed"]
        /\ UNCHANGED link
  /\ stage' = [stage EXCEPT ![c] = "init"]
  /\ UNCHANGED <<attempt, slot, stream, refused, entries, failing>>

Joins(c) ==
  /\ stage[c] = "init"
  /\ cell[slot[c]] = "ok"
  /\ stage' = [stage EXCEPT ![c] = "open"]
  /\ UNCHANGED <<attempt, slot, stream, refused, entries, cell, link, failing>>

\* The error of the initializer is every waiting caller's error.
InitFailed(c) ==
  /\ stage[c] = "init"
  /\ cell[slot[c]] = "failed"
  /\ Release(c)
  /\ stage' = [stage EXCEPT ![c] = "error"]
  /\ UNCHANGED <<attempt, stream, refused, entries, cell, failing>>

\* Variant: the lease is dropped when open_client() returns.
OpenedUnleased(c) ==
  /\ stage[c] = "open"
  /\ link[slot[c]] = "up"
  /\ stream' = [stream EXCEPT ![c] = slot[c]]
  /\ Release(c)
  /\ stage' = [stage EXCEPT ![c] = "leased"]
  /\ UNCHANGED <<attempt, refused, entries, cell, failing>>

\* connection.open_client() succeeds; the lease keeps the slot.
Opened(c) ==
  /\ stage[c] = "open"
  /\ link[slot[c]] = "up"
  /\ stream' = [stream EXCEPT ![c] = slot[c]]
  /\ stage' = [stage EXCEPT ![c] = "leased"]
  /\ UNCHANGED <<attempt, slot, refused, entries, cell, link, failing>>

\* It fails, because the peer has closed the connection or for this stream
\* alone: the first time the caller goes on to evict, the second it returns.
OpenFailed(c) ==
  /\ stage[c] = "open"
  /\ failing' = failing \cup {slot[c]}
  /\ IF attempt[c] = 0
       THEN /\ stage' = [stage EXCEPT ![c] = "evict"]
            /\ UNCHANGED <<slot, link>>
       ELSE /\ stage' = [stage EXCEPT ![c] = "error"]
            /\ Release(c)
  /\ UNCHANGED <<attempt, stream, refused, entries, cell>>

\* The caller drops its references and tries again.
Retry(c) ==
  /\ Release(c)
  /\ refused' = [refused EXCEPT ![c] = slot[c]]
  /\ attempt' = [attempt EXCEPT ![c] = @ + 1]
  /\ stage' = [stage EXCEPT ![c] = "acquire"]
  /\ UNCHANGED <<stream, cell, failing>>

\* Variant: eviction left to the sweep.
InvalidateNever(c) ==
  /\ stage[c] = "evict"
  /\ UNCHANGED entries
  /\ Retry(c)

\* Variant: the entry goes whatever slot it holds by now.
InvalidateKey(c) ==
  /\ stage[c] = "evict"
  /\ entries' = [entries EXCEPT ![PoolKey(c)] = None]
  /\ Retry(c)

\* invalidate(): the entry goes if it is still the caller's slot.
Invalidate(c) ==
  /\ stage[c] = "evict"
  /\ entries' = IF entries[PoolKey(c)] = slot[c]
                  THEN [entries EXCEPT ![PoolKey(c)] = None]
                  ELSE entries
  /\ Retry(c)

\* The client has been used for the last time: its connection is dropped, or the
\* reader's exchange is over or could not be begun.
Ends(c) ==
  /\ stage[c] = "leased"
  /\ stage' = [stage EXCEPT ![c] = "ending"]
  /\ UNCHANGED <<attempt, slot, stream, refused, entries, cell, link, failing>>

\* Whoever drops both is done with the second of them.
Dropped(c, second) ==
  stage' = [stage EXCEPT ![c] = IF second THEN "dropped" ELSE "ending"]

\* RpcClient is dropped, by a reader after its lease.
DropClient(c) ==
  /\ stage[c] = "ending" /\ stream[c] # None
  /\ c \in Readers => slot[c] = None
  /\ stream' = [stream EXCEPT ![c] = None]
  /\ Dropped(c, c \in Readers)
  /\ UNCHANGED <<attempt, slot, refused, entries, cell, link, failing>>

\* Lease is dropped, by a connection after its client.
DropLease(c) ==
  /\ stage[c] = "ending" /\ slot[c] # None
  /\ c \notin Readers => stream[c] = None
  /\ Release(c)
  /\ Dropped(c, c \notin Readers)
  /\ UNCHANGED <<attempt, stream, refused, entries, cell, failing>>

\* The remote endpoint closes the connection.
PeerCloses(s) ==
  /\ link[s] = "up"
  /\ link' = [link EXCEPT ![s] = "down"]
  /\ UNCHANGED <<stage, attempt, slot, stream, refused, entries, cell, failing>>

Returns(c) == Joins(c) \/ InitFailed(c)
Opens(c) == Opened(c) \/ OpenFailed(c)
Closes(c) == Ends(c) \/ DropClient(c) \/ DropLease(c)

Next ==
  \/ \E c \in Callers :
       \/ Acquire(c) \/ Initialize(c) \/ Connects(c) \/ Returns(c) \/ Opens(c)
       \/ Invalidate(c) \/ Closes(c)
  \/ \E s \in Slots : PeerCloses(s)

Spec == Init /\ [][Next]_vars

\* Threads run, and connecting and opening a stream end within their timeouts.
Fairness ==
  \A c \in Callers :
    /\ WF_vars(Acquire(c))
    /\ WF_vars(Initialize(c))
    /\ WF_vars(Connects(c))
    /\ WF_vars(Returns(c))
    /\ WF_vars(Opens(c))
    /\ WF_vars(Invalidate(c))

FairSpec == Spec /\ Fairness

--------------------------------------------------------------------------------
\* The type invariant: open_client() makes two attempts at most.
TypeOK ==
  /\ stage \in [Callers -> Stage]
  /\ attempt \in [Callers -> {0, 1}]
  /\ slot \in [Callers -> Slots \cup {None}]
  /\ stream \in [Callers -> Slots \cup {None}]
  /\ refused \in [Callers -> Slots \cup {None}]
  /\ entries \in [Keys -> Slots \cup {None}]
  /\ cell \in [Slots -> {"empty", "busy", "ok", "failed"}]
  /\ link \in [Slots -> {"none", "up", "down", "closed"}]
  /\ failing \in SUBSET Slots

\* Callers of one key share one connection: acquire() makes a second slot beside
\* a living one only after opening a stream on the living one has failed,
\* however acquisitions, evictions and dropped leases interleave.
OneConnectionPerKey ==
  \A s, t \in Slots :
    /\ Alive(s) /\ Alive(t) /\ s # t
    /\ PoolKey(s[1]) = PoolKey(t[1])
    => s \in failing \/ t \in failing

\* A stream runs on a connection made with the caller's own identity, peer,
\* address and timeout, although another caller may have made it.
StreamIsOwn ==
  \A c \in Callers :
    stream[c] # None => Settings(stream[c][1]) = Settings(c)

\* The retry of open_client() is never given the connection that has just failed
\* it, even when other callers keep that connection alive.
RetryIsFresh ==
  \A c \in Callers : slot[c] # None => slot[c] # refused[c]

\* The lease keeps the connection under a client from being closed by this process,
\* whatever the other callers drop or evict, for as long as the client is used.  A
\* connection drops its client before its lease, so that this holds until the client
\* is gone; the thread of a reader drops its lease first, so that the link may be
\* closed under a client that has only to be dropped.
LeaseKeepsLink ==
  \A c \in Callers :
    stream[c] # None =>
      \/ link[stream[c]] \in {"up", "down"}
      \/ c \in Readers /\ stage[c] = "ending" /\ slot[c] = None

\* A caller returns from open_client(): nobody waits for an initializer that is
\* gone.
OpensReturn ==
  \A c \in Callers :
    stage[c] = "acquire" ~> stage[c] \in {"leased", "ending", "error", "dropped"}

================================================================================

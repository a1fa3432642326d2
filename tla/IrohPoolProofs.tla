----------------------------- MODULE IrohPoolProofs -----------------------------
(***************************************************************************)
(* Proofs about IrohPool for any number of callers and any configurations. *)
(***************************************************************************)
EXTENDS IrohPool, TLAPS

\* The acquisition after which the slot is named has happened.
Made(s) ==
  \/ s[2] < attempt[s[1]]
  \/ s[2] = attempt[s[1]] /\ stage[s[1]] # "acquire"

\* A caller holds a slot between acquire() and its return, or while it has a lease;
\* its client has a lease beside it, but for a reader's that is to be dropped.
HoldingInv ==
  \A c \in Callers :
    /\ stage[c] \in {"init", "connecting", "open", "evict", "leased"} => slot[c] \in Slots
    /\ stage[c] \in {"acquire", "error", "dropped"} => slot[c] = None
    /\ stage[c] = "evict" => attempt[c] = 0 /\ slot[c] \in failing
    /\ stream[c] # None => stage[c] \in {"leased", "ending"}
    /\ stream[c] # None =>
         stream[c] = slot[c] \/ (c \in Readers /\ stage[c] = "ending" /\ slot[c] = None)

\* Slots are filed and handed out under the key they were made for.
KeyInv ==
  /\ \A c \in Callers : slot[c] # None => PoolKey(slot[c][1]) = PoolKey(c)
  /\ \A c \in Callers : stream[c] # None => PoolKey(stream[c][1]) = PoolKey(c)
  /\ \A k \in Keys : entries[k] # None => PoolKey(entries[k][1]) = k

\* Every slot anybody refers to was made by an acquisition.
MadeInv ==
  /\ \A c \in Callers : slot[c] # None => Made(slot[c])
  /\ \A c \in Callers : refused[c] # None => Made(refused[c])
  /\ \A k \in Keys : entries[k] # None => Made(entries[k])
  /\ \A s \in failing : Made(s)
  /\ \A s \in Slots : ~Made(s) => cell[s] = "empty"

\* A living slot is in the pool unless a stream has failed on it, and a caller
\* never finds the slot that failed it there.
PoolInv ==
  /\ \A c \in Callers :
       slot[c] # None /\ slot[c] \notin failing => entries[PoolKey(c)] = slot[c]
  /\ \A c \in Callers :
       refused[c] # None => entries[PoolKey(c)] # refused[c] /\ slot[c] # refused[c]

\* One caller runs the initializer; a slot that is held has an open connection
\* once it is initialized.
LinkInv ==
  /\ \A c \in Callers : stage[c] = "connecting" => cell[slot[c]] = "busy"
  /\ \A c, d \in Callers :
       stage[c] = "connecting" /\ stage[d] = "connecting" /\ slot[c] = slot[d] => c = d
  /\ \A c \in Callers : stage[c] \in {"open", "evict", "leased"} => cell[slot[c]] = "ok"
  /\ \A c \in Callers : stage[c] = "ending" /\ slot[c] # None => cell[slot[c]] = "ok"
  /\ \A c \in Callers :
       slot[c] # None /\ cell[slot[c]] = "ok" => link[slot[c]] \in {"up", "down"}

Inv == TypeOK /\ HoldingInv /\ KeyInv /\ MadeInv /\ PoolInv /\ LinkInv

--------------------------------------------------------------------------------
\* A slot is a caller and an attempt, and the absent slot is neither.
LEMMA SlotFacts ==
  /\ None \notin Slots
  /\ \A s \in Slots : s[1] \in Callers /\ s[2] \in {0, 1}
  /\ \A c \in Callers, a \in {0, 1} :
       <<c, a>> \in Slots /\ <<c, a>>[1] = c /\ <<c, a>>[2] = a
  /\ \A c \in Callers : PoolKey(c) \in Keys
BY PoolAssumption, Zenon DEF Slots, Keys

\* In the beginning nobody holds, has filed or has made anything.
LEMMA InitInv == Init => Inv
<1> SUFFICES ASSUME Init PROVE Inv
  BY Zenon
<1>1. TypeOK
  BY Zenon DEF Init, TypeOK, Stage
<1>2. HoldingInv
  BY Zenon DEF Init, HoldingInv
<1>3. KeyInv
  BY Zenon DEF Init, KeyInv
<1>4. MadeInv
  BY Zenon DEF Init, MadeInv
<1>5. PoolInv
  BY SlotFacts, Zenon DEF Init, PoolInv
<1>6. LinkInv
  BY Zenon DEF Init, LinkInv
<1> QED
  BY <1>1, <1>2, <1>3, <1>4, <1>5, <1>6, Zenon DEF Inv

\* get_or_init() begins: its cell was empty, so nobody else is at it.
LEMMA InitializeInv ==
  ASSUME Inv, NEW c \in Callers, Initialize(c)
  PROVE  Inv'
<1> USE SlotFacts DEF Initialize
<1>0. TypeOK /\ HoldingInv /\ KeyInv /\ MadeInv /\ PoolInv /\ LinkInv
  BY Zenon DEF Inv
<1>1. TypeOK'
  BY <1>0, Zenon DEF TypeOK, Stage, HoldingInv
<1>2. HoldingInv'
  BY <1>0 DEF HoldingInv, TypeOK
<1>3. KeyInv'
  BY <1>0, Zenon DEF KeyInv, HoldingInv, TypeOK
<1>4. MadeInv'
  BY <1>0 DEF MadeInv, Made, HoldingInv, TypeOK
<1>5. PoolInv'
  BY <1>0, Zenon DEF PoolInv, HoldingInv, KeyInv, MadeInv, TypeOK
<1>6. LinkInv'
  BY <1>0 DEF LinkInv, HoldingInv, MadeInv, TypeOK
<1> QED
  BY <1>1, <1>2, <1>3, <1>4, <1>5, <1>6, Zenon DEF Inv

\* The initializer returns: the cell is set once, by the one caller that runs it.
LEMMA ConnectsInv ==
  ASSUME Inv, NEW c \in Callers, Connects(c)
  PROVE  Inv'
<1> USE SlotFacts DEF Connects
<1>0. TypeOK /\ HoldingInv /\ KeyInv /\ MadeInv /\ PoolInv /\ LinkInv
  BY Zenon DEF Inv
<1>1. TypeOK'
  BY <1>0, SMTT(30) DEF TypeOK, Stage, HoldingInv
<1>2. HoldingInv'
  BY <1>0 DEF HoldingInv, TypeOK
<1>3. KeyInv'
  BY <1>0, Zenon DEF KeyInv, HoldingInv, TypeOK
<1>4. MadeInv'
  BY <1>0 DEF MadeInv, Made, HoldingInv, TypeOK
<1>5. PoolInv'
  BY <1>0, Zenon DEF PoolInv, HoldingInv, KeyInv, MadeInv, TypeOK
<1>6. LinkInv'
  BY <1>0 DEF LinkInv, HoldingInv, MadeInv, TypeOK
<1> QED
  BY <1>1, <1>2, <1>3, <1>4, <1>5, <1>6, Zenon DEF Inv

\* A caller takes the connection out of an initialized slot.
LEMMA JoinsInv ==
  ASSUME Inv, NEW c \in Callers, Joins(c)
  PROVE  Inv'
<1> USE SlotFacts DEF Joins
<1>0. TypeOK /\ HoldingInv /\ KeyInv /\ MadeInv /\ PoolInv /\ LinkInv
  BY Zenon DEF Inv
<1>1. TypeOK'
  BY <1>0, Zenon DEF TypeOK, Stage, HoldingInv
<1>2. HoldingInv'
  BY <1>0 DEF HoldingInv, TypeOK
<1>3. KeyInv'
  BY <1>0, Zenon DEF KeyInv, HoldingInv, TypeOK
<1>4. MadeInv'
  BY <1>0 DEF MadeInv, Made, HoldingInv, TypeOK
<1>5. PoolInv'
  BY <1>0, Zenon DEF PoolInv, HoldingInv, KeyInv, MadeInv, TypeOK
<1>6. LinkInv'
  BY <1>0 DEF LinkInv, HoldingInv, MadeInv, TypeOK
<1> QED
  BY <1>1, <1>2, <1>3, <1>4, <1>5, <1>6, Zenon DEF Inv

\* A caller leaves with the initializer's error.
LEMMA InitFailedInv ==
  ASSUME Inv, NEW c \in Callers, InitFailed(c)
  PROVE  Inv'
<1> USE SlotFacts DEF InitFailed, Release, Holders
<1>0. TypeOK /\ HoldingInv /\ KeyInv /\ MadeInv /\ PoolInv /\ LinkInv
  BY Zenon DEF Inv
<1>1. TypeOK'
  BY <1>0, Zenon DEF TypeOK, Stage, HoldingInv
<1>2. HoldingInv'
  BY <1>0 DEF HoldingInv, TypeOK
<1>3. KeyInv'
  BY <1>0 DEF KeyInv, HoldingInv, TypeOK
<1>4. MadeInv'
  BY <1>0 DEF MadeInv, Made, HoldingInv, TypeOK
<1>5. PoolInv'
  BY <1>0 DEF PoolInv, HoldingInv, KeyInv, MadeInv, TypeOK
<1>6. LinkInv'
  BY <1>0 DEF LinkInv, HoldingInv, MadeInv, TypeOK
<1> QED
  BY <1>1, <1>2, <1>3, <1>4, <1>5, <1>6, Zenon DEF Inv

\* A stream is opened and the slot leased.
LEMMA OpenedInv ==
  ASSUME Inv, NEW c \in Callers, Opened(c)
  PROVE  Inv'
<1> USE SlotFacts DEF Opened
<1>0. TypeOK /\ HoldingInv /\ KeyInv /\ MadeInv /\ PoolInv /\ LinkInv
  BY Zenon DEF Inv
<1>1. TypeOK'
  BY <1>0, Zenon DEF TypeOK, Stage, HoldingInv
<1>2. HoldingInv'
  BY <1>0 DEF HoldingInv, TypeOK
<1>3. KeyInv'
  <2>1. \A d \in Callers : stream'[d] # None => PoolKey(stream'[d][1]) = PoolKey(d)
    <3> SUFFICES ASSUME NEW d \in Callers, stream'[d] # None
                 PROVE  PoolKey(stream'[d][1]) = PoolKey(d)
      BY Zenon
    <3>1. CASE d = c
      BY <3>1, <1>0, Zenon DEF KeyInv, TypeOK
    <3>2. CASE d # c
      BY <3>2, <1>0, Zenon DEF KeyInv, TypeOK
    <3> QED
      BY <3>1, <3>2, Zenon
  <2> QED
    BY <2>1, <1>0, Zenon DEF KeyInv
<1>4. MadeInv'
  BY <1>0 DEF MadeInv, Made, HoldingInv, TypeOK
<1>5. PoolInv'
  BY <1>0, Zenon DEF PoolInv, HoldingInv, KeyInv, MadeInv, TypeOK
<1>6. LinkInv'
  BY <1>0 DEF LinkInv, HoldingInv, MadeInv, TypeOK
<1> QED
  BY <1>1, <1>2, <1>3, <1>4, <1>5, <1>6, Zenon DEF Inv

\* A stream cannot be opened.
LEMMA OpenFailedInv ==
  ASSUME Inv, NEW c \in Callers, OpenFailed(c)
  PROVE  Inv'
<1> USE SlotFacts DEF OpenFailed, Release, Holders
<1>0. TypeOK /\ HoldingInv /\ KeyInv /\ MadeInv /\ PoolInv /\ LinkInv
  BY Zenon DEF Inv
<1>1. TypeOK'
  BY <1>0, SMTT(30) DEF TypeOK, Stage, HoldingInv
<1>2. HoldingInv'
  BY <1>0 DEF HoldingInv, TypeOK
<1>3. KeyInv'
  BY <1>0 DEF KeyInv, HoldingInv, TypeOK
<1>4. MadeInv'
  <2>1. \A s \in Slots : Made(s)' <=> Made(s)
    BY <1>0 DEF Made, TypeOK
  <2>2. /\ slot[c] \in Slots /\ slot[c] # None
        /\ \A d \in Callers : slot'[d] # None => slot'[d] = slot[d]
    BY <1>0 DEF HoldingInv, TypeOK
  <2>3. /\ \A d \in Callers : slot[d] # None => slot[d] \in Slots
        /\ \A d \in Callers : refused[d] # None => refused[d] \in Slots
        /\ \A k \in Keys : entries[k] # None => entries[k] \in Slots
        /\ failing \subseteq Slots
    BY <1>0 DEF TypeOK
  <2>4. UNCHANGED <<refused, entries, cell>> /\ failing' = failing \cup {slot[c]}
    BY Zenon
  <2> QED
    BY <1>0, <2>1, <2>2, <2>3, <2>4, ZenonT(30) DEF MadeInv
<1>5. PoolInv'
  <2>1. \A d \in Callers : slot'[d] = slot[d] \/ slot'[d] = None
    BY <1>0, ZenonT(30) DEF TypeOK
  <2>2. UNCHANGED <<refused, entries>> /\ failing \subseteq failing'
    BY Zenon
  <2> QED
    BY <1>0, <2>1, <2>2, ZenonT(30) DEF PoolInv
<1>6. LinkInv'
  BY <1>0, SMTT(30) DEF LinkInv, HoldingInv, MadeInv, TypeOK
<1> QED
  BY <1>1, <1>2, <1>3, <1>4, <1>5, <1>6, Zenon DEF Inv

\* A caller evicts the slot that failed it, if it is still in the pool.
LEMMA InvalidateInv ==
  ASSUME Inv, NEW c \in Callers, Invalidate(c)
  PROVE  Inv'
<1> USE SlotFacts DEF Invalidate, Retry, Release, Holders
<1>0. TypeOK /\ HoldingInv /\ KeyInv /\ MadeInv /\ PoolInv /\ LinkInv
  BY Zenon DEF Inv
<1>1. TypeOK'
  BY <1>0 DEF TypeOK, Stage, HoldingInv
<1>2. HoldingInv'
  BY <1>0 DEF HoldingInv, TypeOK
<1>3. KeyInv'
  BY <1>0 DEF KeyInv, HoldingInv, TypeOK
<1>4. MadeInv'
  BY <1>0 DEF MadeInv, Made, HoldingInv, TypeOK
<1>5. PoolInv'
  BY <1>0 DEF PoolInv, HoldingInv, KeyInv, MadeInv, TypeOK
<1>6. LinkInv'
  BY <1>0 DEF LinkInv, HoldingInv, MadeInv, TypeOK
<1> QED
  BY <1>1, <1>2, <1>3, <1>4, <1>5, <1>6, Zenon DEF Inv

\* The client has been used for the last time.
LEMMA EndsInv ==
  ASSUME Inv, NEW c \in Callers, Ends(c)
  PROVE  Inv'
<1> USE SlotFacts DEF Ends
<1>0. TypeOK /\ HoldingInv /\ KeyInv /\ MadeInv /\ PoolInv /\ LinkInv
  BY Zenon DEF Inv
<1>1. TypeOK'
  BY <1>0, Zenon DEF TypeOK, Stage, HoldingInv
<1>2. HoldingInv'
  BY <1>0 DEF HoldingInv, TypeOK
<1>3. KeyInv'
  BY <1>0 DEF KeyInv, HoldingInv, TypeOK
<1>4. MadeInv'
  BY <1>0 DEF MadeInv, Made, HoldingInv, TypeOK
<1>5. PoolInv'
  BY <1>0 DEF PoolInv, HoldingInv, KeyInv, MadeInv, TypeOK
<1>6. LinkInv'
  BY <1>0 DEF LinkInv, HoldingInv, MadeInv, TypeOK
<1> QED
  BY <1>1, <1>2, <1>3, <1>4, <1>5, <1>6, Zenon DEF Inv

\* A client is dropped.
LEMMA DropClientInv ==
  ASSUME Inv, NEW c \in Callers, DropClient(c)
  PROVE  Inv'
<1> USE SlotFacts DEF DropClient, Dropped
<1>0. TypeOK /\ HoldingInv /\ KeyInv /\ MadeInv /\ PoolInv /\ LinkInv
  BY Zenon DEF Inv
<1>1. TypeOK'
  BY <1>0, Zenon DEF TypeOK, Stage, HoldingInv
<1>2. HoldingInv'
  BY <1>0 DEF HoldingInv, TypeOK
<1>3. KeyInv'
  BY <1>0 DEF KeyInv, HoldingInv, TypeOK
<1>4. MadeInv'
  BY <1>0 DEF MadeInv, Made, HoldingInv, TypeOK
<1>5. PoolInv'
  BY <1>0 DEF PoolInv, HoldingInv, KeyInv, MadeInv, TypeOK
<1>6. LinkInv'
  BY <1>0 DEF LinkInv, HoldingInv, MadeInv, TypeOK
<1> QED
  BY <1>1, <1>2, <1>3, <1>4, <1>5, <1>6, Zenon DEF Inv

\* A lease is dropped.
LEMMA DropLeaseInv ==
  ASSUME Inv, NEW c \in Callers, DropLease(c)
  PROVE  Inv'
<1> USE SlotFacts DEF DropLease, Dropped, Release, Holders
<1>0. TypeOK /\ HoldingInv /\ KeyInv /\ MadeInv /\ PoolInv /\ LinkInv
  BY Zenon DEF Inv
<1>1. TypeOK'
  BY <1>0, Zenon DEF TypeOK, Stage, HoldingInv
<1>2. HoldingInv'
  BY <1>0 DEF HoldingInv, TypeOK
<1>3. KeyInv'
  BY <1>0 DEF KeyInv, HoldingInv, TypeOK
<1>4. MadeInv'
  BY <1>0 DEF MadeInv, Made, HoldingInv, TypeOK
<1>5. PoolInv'
  BY <1>0 DEF PoolInv, HoldingInv, KeyInv, MadeInv, TypeOK
<1>6. LinkInv'
  BY <1>0 DEF LinkInv, HoldingInv, MadeInv, TypeOK
<1> QED
  BY <1>1, <1>2, <1>3, <1>4, <1>5, <1>6, Zenon DEF Inv

\* acquire(): a caller joins the living slot of its key or files a new one.
LEMMA AcquireInv ==
  ASSUME Inv, NEW c \in Callers, Acquire(c)
  PROVE  Inv'
<1> USE SlotFacts
<1>0. TypeOK /\ HoldingInv /\ KeyInv /\ MadeInv /\ PoolInv /\ LinkInv
  BY Zenon DEF Inv
<1> DEFINE key == PoolKey(c)
           found == Swept(key)
           new == <<c, attempt[c]>>
           s == IF found # None THEN found ELSE new
           MadeThen(t) == \/ t[2] < attempt'[t[1]]
                          \/ t[2] = attempt'[t[1]] /\ stage'[t[1]] # "acquire"
<1>a. /\ stage[c] = "acquire" /\ slot[c] = None
      /\ slot' = [slot EXCEPT ![c] = s]
      /\ entries' = [k \in Keys |-> IF k = key THEN s ELSE Swept(k)]
      /\ stage' = [stage EXCEPT ![c] = "init"]
      /\ UNCHANGED <<attempt, stream, refused, cell, link, failing>>
  BY <1>0, Zenon DEF Acquire, HoldingInv
<1>b. key \in Keys /\ new \in Slots /\ new[1] = c /\ new[2] = attempt[c] /\ ~Made(new)
  <2>1. attempt[c] \in {0, 1} /\ key \in Keys
    BY <1>0, Zenon DEF TypeOK
  <2>2. new \in Slots /\ new[1] = c /\ new[2] = attempt[c]
    BY <2>1, Zenon
  <2> QED
    BY <2>1, <2>2, <1>a DEF Made
<1>c. \A k \in Keys :
        \/ Swept(k) = None
        \/ Swept(k) = entries[k] /\ entries[k] # None /\ \E d \in Callers : slot[d] = entries[k]
  BY Zenon DEF Swept, Alive, Holders
<1>d. \A d \in Callers : slot[d] # None /\ slot[d] \notin failing =>
        Swept(PoolKey(d)) = slot[d]
  BY <1>0, Zenon DEF PoolInv, Swept, Alive, Holders
<1>e. \/ s = new /\ found = None
      \/ s = found /\ s = entries[key] /\ s # None /\ \E d \in Callers : slot[d] = s
  BY <1>b, <1>c
<1>f. s \in Slots /\ PoolKey(s[1]) = key /\ s # None
  <2>1. CASE s = new
    BY <2>1, <1>b, Zenon
  <2>2. CASE s = entries[key] /\ s # None
    BY <2>2, <1>0, <1>b DEF TypeOK, KeyInv
  <2> QED
    BY <2>1, <2>2, <1>e, Zenon
<1> HIDE DEF key, found, new, s, MadeThen
<1>1. TypeOK'
  <2>1. \A k \in Keys : Swept(k) \in Slots \cup {None}
    BY <1>c, <1>0 DEF TypeOK
  <2> QED
    BY <2>1, <1>a, <1>f, <1>0, Zenon DEF TypeOK, Stage
<1>2. HoldingInv'
  BY <1>0, <1>a, <1>f DEF HoldingInv, TypeOK
<1>3. KeyInv'
  BY <1>0, <1>a, <1>c, <1>f, ZenonT(30) DEF KeyInv, TypeOK, key
<1>m. \A t \in Slots : (Made(t) => MadeThen(t)) /\ (~MadeThen(t) => ~Made(t))
  BY <1>0, <1>a, <1>b, Zenon DEF Made, MadeThen, TypeOK
<1>n. MadeThen(s)
  <2>1. CASE s = new
    BY <2>1, <1>a, <1>b, <1>0, Zenon DEF MadeThen, TypeOK
  <2>2. CASE s = entries[key] /\ s # None
    BY <2>2, <1>0, <1>b, <1>f, <1>m, Zenon DEF MadeInv
  <2> QED
    BY <2>1, <2>2, <1>e, Zenon
<1>4. MadeInv'
  <2>1. \A d \in Callers : slot'[d] # None => MadeThen(slot'[d])
    BY <1>0, <1>a, <1>m, <1>n DEF MadeInv, TypeOK
  <2>2. \A d \in Callers : refused'[d] # None => MadeThen(refused'[d])
    BY <1>0, <1>a, <1>m DEF MadeInv, TypeOK
  <2>3. \A k \in Keys : entries'[k] # None => MadeThen(entries'[k])
    BY <1>0, <1>a, <1>c, <1>m, <1>n DEF MadeInv, TypeOK
  <2>4. \A t \in failing' : MadeThen(t)
    BY <1>0, <1>a, <1>m, Zenon DEF MadeInv, TypeOK
  <2>5. \A t \in Slots : ~MadeThen(t) => cell'[t] = "empty"
    BY <1>0, <1>a, <1>m, Zenon DEF MadeInv, TypeOK
  <2> QED
    BY <2>1, <2>2, <2>3, <2>4, <2>5, <1>a, Zenon DEF MadeInv, Made, MadeThen
<1>5. PoolInv'
  <2>1. ASSUME NEW d \in Callers, slot'[d] # None, slot'[d] \notin failing'
        PROVE  entries'[PoolKey(d)] = slot'[d]
    <3>1. CASE d = c
      BY <3>1, <1>a, <1>b, <1>0, Zenon DEF TypeOK, key
    <3>2. CASE d # c /\ PoolKey(d) # key
      BY <3>2, <2>1, <1>a, <1>d, <1>0, Zenon DEF TypeOK
    <3>3. CASE d # c /\ PoolKey(d) = key
      <4>1. slot'[d] = slot[d] /\ found = slot[d] /\ found # None
        BY <3>3, <2>1, <1>a, <1>d, <1>0, Zenon DEF TypeOK, found
      <4> QED
        BY <4>1, <3>3, <1>a, <1>b, Zenon DEF s
    <3> QED
      BY <3>1, <3>2, <3>3, Zenon
  <2>2. ASSUME NEW d \in Callers, refused'[d] # None
        PROVE  entries'[PoolKey(d)] # refused'[d] /\ slot'[d] # refused'[d]
    <3>1. /\ refused'[d] = refused[d] /\ refused[d] \in Slots /\ Made(refused[d])
          /\ entries[PoolKey(d)] # refused[d] /\ slot[d] # refused[d]
      BY <2>2, <1>a, <1>0 DEF PoolInv, MadeInv, TypeOK
    <3>2. refused[d] # new
      BY <3>1, <1>b, Zenon
    <3>3. PoolKey(d) = key => s # refused[d]
      BY <3>1, <3>2, <1>e, Zenon
    <3>4. entries'[PoolKey(d)] # refused[d]
      BY <3>1, <3>3, <1>a, <1>c, Zenon
    <3>5. slot'[d] # refused[d]
      BY <3>1, <3>3, <1>a, <1>0, Zenon DEF TypeOK, key
    <3> QED
      BY <3>1, <3>4, <3>5, Zenon
  <2> QED
    BY <2>1, <2>2, Zenon DEF PoolInv
<1>6. LinkInv'
  <2>1. cell[s] = "ok" => link[s] \in {"up", "down"}
    BY <1>0, <1>b, <1>e, <1>f DEF MadeInv, LinkInv
  <2> QED
    BY <2>1, <1>0, <1>a, <1>f DEF LinkInv, HoldingInv, TypeOK
<1> QED
  BY <1>1, <1>2, <1>3, <1>4, <1>5, <1>6, Zenon DEF Inv

\* A connection that the peer closes is still not closed by this process.
LEMMA PeerClosesInv ==
  ASSUME Inv, NEW s \in Slots, PeerCloses(s)
  PROVE  Inv'
<1>1. TypeOK'
  BY Zenon DEF Inv, TypeOK, PeerCloses
<1>2. HoldingInv' /\ KeyInv' /\ MadeInv' /\ PoolInv'
  BY DEF Inv, HoldingInv, KeyInv, MadeInv, Made, PoolInv, PeerCloses
<1>3. LinkInv'
  BY DEF Inv, TypeOK, LinkInv, PeerCloses
<1> QED
  BY <1>1, <1>2, <1>3, Zenon DEF Inv

\* The invariant is inductive.
LEMMA NextInv == Inv /\ [Next]_vars => Inv'
<1> SUFFICES ASSUME Inv, [Next]_vars PROVE Inv'
  BY Zenon
<1>1. ASSUME NEW c \in Callers, Acquire(c) PROVE Inv'
  BY <1>1, AcquireInv, Zenon
<1>2. ASSUME NEW c \in Callers, Initialize(c) \/ Connects(c) PROVE Inv'
  BY <1>2, InitializeInv, ConnectsInv, Zenon
<1>3. ASSUME NEW c \in Callers, Returns(c) PROVE Inv'
  BY <1>3, JoinsInv, InitFailedInv, Zenon DEF Returns
<1>4. ASSUME NEW c \in Callers, Opens(c) PROVE Inv'
  BY <1>4, OpenedInv, OpenFailedInv, Zenon DEF Opens
<1>5. ASSUME NEW c \in Callers, Invalidate(c) \/ Closes(c) PROVE Inv'
  BY <1>5, InvalidateInv, EndsInv, DropClientInv, DropLeaseInv, Zenon DEF Closes
<1>6. ASSUME NEW s \in Slots, PeerCloses(s) PROVE Inv'
  BY <1>6, PeerClosesInv, Zenon
<1>7. CASE UNCHANGED vars
  <2> USE <1>7 DEF vars, Inv
  <2>1. TypeOK' /\ HoldingInv'
    BY Zenon DEF TypeOK, HoldingInv
  <2>2. KeyInv' /\ PoolInv'
    BY Zenon DEF KeyInv, PoolInv
  <2>3. MadeInv'
    BY Zenon DEF MadeInv, Made
  <2>4. LinkInv'
    BY Zenon DEF LinkInv
  <2> QED
    BY <2>1, <2>2, <2>3, <2>4, Zenon
<1> QED
  BY <1>1, <1>2, <1>3, <1>4, <1>5, <1>6, <1>7, Zenon DEF Next

\* The invariant holds throughout.
LEMMA Invariance == Spec => []Inv
<1> QED
  BY InitInv, NextInv, PTL DEF Spec

--------------------------------------------------------------------------------
\* Type correctness of the pool and its callers.
THEOREM TypeCorrect == Spec => []TypeOK
<1>1. Inv => TypeOK
  BY Zenon DEF Inv
<1> QED
  BY <1>1, Invariance, PTL

\* acquire() and invalidate() keep one connection per key: of two living slots of
\* a key, opening a stream has failed on one.
THEOREM OneConnection == Spec => []OneConnectionPerKey
<1>1. Inv => OneConnectionPerKey
  <2> SUFFICES ASSUME Inv, NEW s \in Slots, NEW t \in Slots,
                      Alive(s), Alive(t), PoolKey(s[1]) = PoolKey(t[1]),
                      s \notin failing, t \notin failing
               PROVE  s = t
    BY Zenon DEF OneConnectionPerKey
  <2>1. PICK c \in Callers : slot[c] = s
    BY Zenon DEF Alive, Holders
  <2>2. PICK d \in Callers : slot[d] = t
    BY Zenon DEF Alive, Holders
  <2>3. PoolKey(c) = PoolKey(s[1]) /\ PoolKey(d) = PoolKey(t[1])
    BY <2>1, <2>2, SlotFacts, Zenon DEF Inv, KeyInv
  <2> QED
    BY <2>1, <2>2, <2>3, SlotFacts DEF Inv, PoolInv
<1> QED
  BY <1>1, Invariance, PTL

\* Equal keys mean equal settings: PoolKey leaves nothing out.
LEMMA KeyIsSettings ==
  ASSUME NEW c, NEW d, PoolKey(c) = PoolKey(d)
  PROVE  Settings(c) = Settings(d)
<1>1. \A e : Settings(e) = PoolKey(e)
  BY Zenon DEF Settings, PoolKey
<1> QED
  BY <1>1, Zenon

\* Streams run on connections with their owner's settings.
THEOREM OwnSettings == Spec => []StreamIsOwn
<1>1. Inv => StreamIsOwn
  BY KeyIsSettings DEF Inv, HoldingInv, KeyInv, StreamIsOwn
<1> QED
  BY <1>1, Invariance, PTL

\* open_client() never retries on the connection that failed it.
THEOREM FreshRetry == Spec => []RetryIsFresh
<1>1. Inv => RetryIsFresh
  BY Zenon DEF Inv, PoolInv, RetryIsFresh
<1> QED
  BY <1>1, Invariance, PTL

\* This process does not close a connection under a client that is still used, nor
\* under one that a ByteTransport has yet to drop.
THEOREM LeaseHolds == Spec => []LeaseKeepsLink
<1>1. Inv => LeaseKeepsLink
  <2> SUFFICES ASSUME Inv, NEW c \in Callers, stream[c] # None,
                      ~(c \in Readers /\ stage[c] = "ending" /\ slot[c] = None)
               PROVE  link[stream[c]] \in {"up", "down"}
    BY Zenon DEF LeaseKeepsLink
  <2>1. stage[c] \in {"leased", "ending"} /\ stream[c] = slot[c] /\ slot[c] # None
    BY Zenon DEF Inv, HoldingInv
  <2>2. cell[slot[c]] = "ok"
    BY <2>1, Zenon DEF Inv, LinkInv
  <2> QED
    BY <2>1, <2>2, Zenon DEF Inv, LinkInv
<1> QED
  BY <1>1, Invariance, PTL

\* A caller that waits in get_or_init() waits for somebody: of the callers that hold
\* a slot whose cell is being initialized, exactly one runs the initializer, and it
\* still does.
InitializerPresent ==
  \A s \in Slots : cell[s] = "busy" =>
    \E c \in Callers :
      /\ stage[c] = "connecting" /\ slot[c] = s
      /\ \A d \in Callers : stage[d] = "connecting" /\ slot[d] = s => d = c

\* The half of it that LinkInv leaves open.
BusyInv ==
  \A s \in Slots : cell[s] = "busy" => \E c \in Callers : stage[c] = "connecting" /\ slot[c] = s

\* The caller is not connecting, and nobody else is touched.
StepsAlone(c) ==
  /\ stage[c] # "connecting"
  /\ \A d \in Callers : d # c => stage'[d] = stage[d] /\ slot'[d] = slot[d]
  /\ cell' = cell

\* Such a step leaves the initializers where they are.
LEMMA AloneBusy ==
  ASSUME NEW c \in Callers, BusyInv, StepsAlone(c)
  PROVE  BusyInv'
<1> SUFFICES ASSUME NEW s \in Slots, cell'[s] = "busy"
             PROVE  \E d \in Callers : stage'[d] = "connecting" /\ slot'[d] = s
  BY Zenon DEF BusyInv
<1>1. PICK d \in Callers : stage[d] = "connecting" /\ slot[d] = s
  BY Zenon DEF BusyInv, StepsAlone
<1> QED
  BY <1>1, Zenon DEF StepsAlone

\* open_client() outside the initializer, and the drop of what it returned.
LEMMA OthersStepAlone ==
  ASSUME NEW c \in Callers, Inv,
         Acquire(c) \/ Returns(c) \/ Opens(c) \/ Invalidate(c) \/ Closes(c)
  PROVE  StepsAlone(c)
<1> USE DEF Inv, TypeOK, StepsAlone, Release
<1>1. CASE Acquire(c)
  BY <1>1, Zenon DEF Acquire
<1>2. CASE Joins(c)
  BY <1>2, Zenon DEF Joins
<1>3. CASE InitFailed(c)
  BY <1>3, Zenon DEF InitFailed
<1>4. CASE Opened(c)
  BY <1>4, Zenon DEF Opened
<1>5. CASE OpenFailed(c)
  BY <1>5, Zenon DEF OpenFailed
<1>6. CASE Invalidate(c)
  BY <1>6, Zenon DEF Invalidate, Retry
<1>7. CASE Ends(c) \/ DropClient(c)
  BY <1>7, Zenon DEF Ends, DropClient, Dropped
<1>8. CASE DropLease(c)
  BY <1>8, Zenon DEF DropLease, Dropped
<1> QED
  BY <1>1, <1>2, <1>3, <1>4, <1>5, <1>6, <1>7, <1>8, Zenon DEF Returns, Opens, Closes

\* get_or_init() by the first caller: it is the initializer.
LEMMA InitializeBusy ==
  ASSUME NEW c \in Callers, Inv, BusyInv, Initialize(c)
  PROVE  BusyInv'
<1> SUFFICES ASSUME NEW s \in Slots, cell'[s] = "busy"
             PROVE  \E d \in Callers : stage'[d] = "connecting" /\ slot'[d] = s
  BY Zenon DEF BusyInv
<1>1. /\ stage'[c] = "connecting" /\ slot' = slot
      /\ \A d \in Callers : d # c => stage'[d] = stage[d]
      /\ s # slot[c] => cell'[s] = cell[s]
  BY Zenon DEF Initialize, Inv, TypeOK
<1>2. CASE s = slot[c]
  BY <1>1, <1>2, Zenon
<1>3. CASE s # slot[c]
  BY <1>1, <1>3, ZenonT(30) DEF BusyInv
<1> QED
  BY <1>2, <1>3, Zenon

\* initialize_resource() returns: the cell it was busy with is not busy any more.
LEMMA ConnectsBusy ==
  ASSUME NEW c \in Callers, Inv, BusyInv, Connects(c)
  PROVE  BusyInv'
<1> SUFFICES ASSUME NEW s \in Slots, cell'[s] = "busy"
             PROVE  \E d \in Callers : stage'[d] = "connecting" /\ slot'[d] = s
  BY Zenon DEF BusyInv
<1>1. /\ slot' = slot
      /\ \A d \in Callers : d # c => stage'[d] = stage[d]
      /\ s # slot[c] /\ cell'[s] = cell[s]
  BY DEF Connects, Inv, TypeOK
<1>2. PICK d \in Callers : stage[d] = "connecting" /\ slot[d] = s
  BY <1>1, Zenon DEF BusyInv
<1> QED
  BY <1>1, <1>2, Zenon

\* Somebody is connecting for every caller that waits in get_or_init(), and nobody
\* connects twice.
THEOREM OneInitializer == Spec => []InitializerPresent
<1>1. Init => BusyInv
  BY Zenon DEF Init, BusyInv
<1>2. Inv /\ BusyInv /\ [Next]_vars => BusyInv'
  <2> SUFFICES ASSUME Inv, BusyInv, [Next]_vars PROVE BusyInv'
    BY Zenon
  <2>1. ASSUME NEW c \in Callers,
               Acquire(c) \/ Returns(c) \/ Opens(c) \/ Invalidate(c) \/ Closes(c)
        PROVE  BusyInv'
    BY <2>1, OthersStepAlone, AloneBusy, Zenon
  <2>2. ASSUME NEW c \in Callers, Initialize(c) \/ Connects(c) PROVE BusyInv'
    BY <2>2, InitializeBusy, ConnectsBusy, Zenon
  <2>3. ASSUME NEW s \in Slots, PeerCloses(s) PROVE BusyInv'
    BY <2>3, Zenon DEF PeerCloses, BusyInv
  <2>4. CASE UNCHANGED vars
    BY <2>4, Zenon DEF vars, BusyInv
  <2> QED
    BY <2>1, <2>2, <2>3, <2>4, Zenon DEF Next
<1>3. Inv /\ BusyInv => InitializerPresent
  <2> SUFFICES ASSUME Inv, BusyInv, NEW s \in Slots, cell[s] = "busy"
               PROVE  \E c \in Callers :
                        /\ stage[c] = "connecting" /\ slot[c] = s
                        /\ \A d \in Callers : stage[d] = "connecting" /\ slot[d] = s => d = c
    BY Zenon DEF InitializerPresent
  <2>1. PICK c \in Callers : stage[c] = "connecting" /\ slot[c] = s
    BY Zenon DEF BusyInv
  <2>2. \A d \in Callers : stage[d] = "connecting" /\ slot[d] = s => d = c
    BY <2>1, Zenon DEF Inv, LinkInv
  <2> QED
    BY <2>1, <2>2, Zenon
<1> QED
  BY <1>1, <1>2, <1>3, Invariance, PTL DEF Spec

================================================================================

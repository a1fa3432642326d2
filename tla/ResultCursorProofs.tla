--------------------------- MODULE ResultCursorProofs ---------------------------
(***************************************************************************)
(* ResultCursor is type correct, its replies agree, and it implements      *)
(* ResultStream, for a stream of any length; InfoReader, which reads it,   *)
(* gives exactly the rows of the answer, and the framing it decodes is     *)
(* exactly the format.                                                     *)
(*                                                                         *)
(* The argument: sequence numbers count batches.  The cursor's             *)
(* next_sequence is the number of batches produced; a reply for sequence q *)
(* carries batch q + 1, or says how the stream ended after q batches; the  *)
(* client asks for the sequence that is the number of batches it has.  So  *)
(* a reply, however old, that answers what the client awaits is right.     *)
(* For the rows: what has been given and what waits are together the       *)
(* answer to the batches read.  For the framing: what the two loops make   *)
(* of a payload from an offset on depends on what they make of it further  *)
(* on, so by induction backwards they cut it where the format does.        *)
(***************************************************************************)
EXTENDS InfoReader, TLAPS

--------------------------------------------------------------------------------
(* Induction and recursion over numbers.                                    *)

\* Well-founded relations: the order of the numbers is one.
W == INSTANCE WellFoundedInduction

\* Every set of numbers has a least member.
LEMMA LeastMember ==
  ASSUME NEW T, T \subseteq Nat, T # {}
  PROVE  \E x \in T : \A y \in T : x <= y
<1> DEFINE R == {p \in Nat \X Nat : p[1] < p[2]}
<1>1. W!IsWellFoundedOn(R, Nat)
  BY W!NatLessThanWellFounded, Zenon DEF W!OpToRel
<1>2. \E x \in T : \A y \in T : ~(<<y, x>> \in R)
  BY <1>1, W!WFMin, Zenon
<1>3. \A x, y \in Nat : x < y => <<x, y>> \in R
  BY Zenon
<1> HIDE DEF R
<1>4. PICK x \in T : \A y \in T : ~(<<y, x>> \in R)
  BY <1>2, Zenon
<1>5. \A y \in T : ~(y < x)
  BY <1>3, <1>4, Zenon
<1>6. \A y \in T : x <= y
  BY <1>5
<1> QED
  BY <1>6, Zenon

\* So a set with 0 and the successors of its members has all of them.
LEMMA Induction ==
  ASSUME NEW T, 0 \in T, \A n \in Nat : n \in T => n + 1 \in T
  PROVE  Nat \subseteq T
<1> DEFINE U == Nat \ T
<1>1. SUFFICES ASSUME U # {} PROVE FALSE
  BY Zenon
<1>2. PICK x \in U : \A y \in U : x <= y
  BY <1>1, LeastMember, Zenon
<1>3. x # 0 /\ x - 1 \in Nat /\ x - 1 \notin U
  BY <1>2
<1> QED
  BY <1>3

\* What holds at a number up to L if it holds at the later ones holds at all.
LEMMA Downwards ==
  ASSUME NEW L \in Nat, NEW T, \A i \in 0 .. L : (\A j \in i + 1 .. L : j \in T) => i \in T
  PROVE  0 .. L \subseteq T
<1> DEFINE U == {n \in Nat : n <= L /\ L - n \notin T}
<1>1. SUFFICES ASSUME NEW i \in 0 .. L, i \notin T PROVE FALSE
  BY Zenon
<1>2. L - i \in U /\ U \subseteq Nat
  BY <1>1
<1>3. PICK x \in U : \A y \in U : x <= y
  BY <1>2, LeastMember, Zenon
<1>4. x \in Nat /\ x <= L /\ L - x \in 0 .. L /\ L - x \notin T
  BY <1>3
<1>5. \A j \in (L - x) + 1 .. L : j \in T
  <2> SUFFICES ASSUME NEW j \in (L - x) + 1 .. L, j \notin T PROVE FALSE
    BY Zenon
  <2>1. L - j \in Nat /\ L - j <= L /\ L - (L - j) = j /\ ~(x <= L - j)
    BY <1>4
  <2>2. L - j \in U
    BY <2>1
  <2> QED
    BY <1>3, <2>1, <2>2, Zenon
<1> QED
  BY <1>4, <1>5, Zenon

\* What a function with values in R is to be at the numbers up to L: those of E look at
\* its value at a later one, J, and make something of it, G; the others have the value B.
Later(L, R, E, J, G, B) ==
  /\ L \in Nat /\ E \in SUBSET (0 .. L)
  /\ \A i \in E : J[i] \in i + 1 .. L
  /\ \A i \in E, r \in R : G[i][r] \in R
  /\ \A i \in 0 .. L : B[i] \in R

\* It is.
Made(f, L, R, E, J, G, B) ==
  /\ f \in [0 .. L -> R]
  /\ \A i \in E : f[i] = G[i][f[J[i]]]
  /\ \A i \in 0 .. L : i \notin E => f[i] = B[i]

\* There is such a function.
LEMMA Backwards ==
  ASSUME NEW L, NEW R, NEW E, NEW J, NEW G, NEW B, Later(L, R, E, J, G, B)
  PROVE  \E f : Made(f, L, R, E, J, G, B)
<1> DEFINE D == 0 .. L
           Value(f, i) == IF i \in E THEN G[i][f[J[i]]] ELSE B[i]
           From(f, n) == \A i \in D : n <= i => f[i] = Value(f, i)
           T == {n \in D : \E f \in [D -> R] : From(f, n)}
<1>0. /\ L \in Nat /\ E \in SUBSET D
      /\ \A i \in E : J[i] \in i + 1 .. L
      /\ \A i \in E, r \in R : G[i][r] \in R
      /\ \A i \in D : B[i] \in R
  BY Zenon DEF Later
<1>1. ASSUME NEW n \in D, \A j \in n + 1 .. L : j \in T
      PROVE  n \in T
  <2>1. PICK f \in [D -> R] : \A i \in D : n < i => f[i] = Value(f, i)
    <3>1. CASE n = L
      <4> DEFINE f == [i \in D |-> B[i]]
      <4>1. f \in [D -> R] /\ \A i \in D : ~(n < i)
        BY <1>0, <3>1
      <4> QED
        BY <4>1, Zenon
    <3>2. CASE n # L
      <4>1. n + 1 \in n + 1 .. L /\ \A i \in D : n < i => n + 1 <= i
        BY <1>0, <3>2
      <4>2. PICK f \in [D -> R] : From(f, n + 1)
        BY <1>1, <4>1, Zenon
      <4> QED
        BY <4>1, <4>2, Zenon
    <3> QED
      BY <3>1, <3>2, Zenon
  <2> DEFINE v == Value(f, n)
             g == [f EXCEPT ![n] = v]
  <2>2. v \in R
    <3>1. CASE n \in E
      <4>1. J[n] \in D
        <5>1. J[n] \in n + 1 .. L
          BY <1>0, <3>1, Zenon
        <5> QED
          BY <1>0, <5>1
      <4>2. f[J[n]] \in R
        BY <2>1, <4>1, Zenon
      <4> QED
        BY <1>0, <3>1, <4>2, Zenon
    <3>2. CASE n \notin E
      BY <1>0, <3>2, Zenon
    <3> QED
      BY <3>1, <3>2, Zenon
  <2>3. g \in [D -> R] /\ g[n] = v /\ \A i \in D : i # n => g[i] = f[i]
    BY <2>1, <2>2, Zenon
  <2> HIDE DEF g
  <2>4. ASSUME NEW i \in D, n <= i PROVE g[i] = Value(g, i)
    <3>1. Value(g, i) = Value(f, i)
      <4>1. CASE i \in E
        <5>1. J[i] \in i + 1 .. L
          BY <1>0, <4>1, Zenon
        <5>2. J[i] \in D /\ J[i] # n
          BY <1>0, <2>4, <5>1
        <5> QED
          BY <2>3, <4>1, <5>2, Zenon
      <4>2. CASE i \notin E
        BY <4>2, Zenon
      <4> QED
        BY <4>1, <4>2, Zenon
    <3> HIDE DEF Value
    <3>2. CASE i = n
      BY <2>3, <3>1, <3>2, Zenon
    <3>3. CASE i # n
      <4>1. n < i
        BY <1>0, <2>4, <3>3
      <4> QED
        BY <2>1, <2>3, <3>1, <3>3, <4>1, Zenon
    <3> QED
      BY <3>2, <3>3, Zenon
  <2>5. From(g, n)
    BY <2>4, Zenon
  <2> QED
    BY <2>3, <2>5, Zenon
<1>2. 0 \in T
  <2> HIDE DEF T
  <2>1. D \subseteq T
    BY <1>0, <1>1, Downwards, Zenon
  <2> QED
    BY <1>0, <2>1
<1>3. PICK f \in [D -> R] : From(f, 0)
  BY <1>2, Zenon
<1>4. \A i \in D : 0 <= i
  OBVIOUS
<1>5. \A i \in D : f[i] = Value(f, i)
  BY <1>3, <1>4, Zenon
<1>6. \A i \in E : f[i] = G[i][f[J[i]]]
  BY <1>0, <1>5, Zenon
<1>7. \A i \in D : i \notin E => f[i] = B[i]
  BY <1>5, Zenon
<1> QED
  BY <1>3, <1>6, <1>7, Zenon DEF Made

--------------------------------------------------------------------------------
(* Sequences.                                                               *)

\* Joined sequences.
LEMMA JoinFacts ==
  ASSUME NEW S, NEW a \in Seq(S), NEW s \in Seq(S)
  PROVE  /\ a \o s \in Seq(S) /\ Len(a \o s) = Len(a) + Len(s)
         /\ \A i \in 1 .. Len(a) : (a \o s)[i] = a[i]
         /\ \A i \in 1 .. Len(s) : (a \o s)[i + Len(a)] = s[i]
OBVIOUS

\* Pairs are equal if their elements are,
LEMMA PairOf ==
  ASSUME NEW S, NEW t \in Seq(S), NEW d \in Seq(S), Len(t) = 2, Len(d) = 2,
         t[1] = d[1], t[2] = d[2]
  PROVE  t = d
OBVIOUS

\* so are sequences of one,
LEMMA OneOf ==
  ASSUME NEW S, NEW t \in Seq(S), NEW d \in Seq(S), Len(t) = 1, Len(d) = 1, t[1] = d[1]
  PROVE  t = d
OBVIOUS

\* and both are what they are written as.
LEMMA TupleFacts ==
  ASSUME NEW S, NEW x \in S, NEW y \in S
  PROVE  /\ <<x>> \in Seq(S) /\ Len(<<x>>) = 1 /\ <<x>>[1] = x
         /\ <<x, y>> \in Seq(S) /\ Len(<<x, y>>) = 2 /\ <<x, y>>[1] = x /\ <<x, y>>[2] = y
OBVIOUS

\* A part of a sequence.
LEMMA PartFacts ==
  ASSUME NEW S, NEW b \in Seq(S), NEW o \in Nat, NEW e \in Nat, o <= e, e <= Len(b)
  PROVE  /\ SubSeq(b, o + 1, e) \in Seq(S) /\ Len(SubSeq(b, o + 1, e)) = e - o
         /\ \A i \in 1 .. e - o : SubSeq(b, o + 1, e)[i] = b[o + i]
<1> DEFINE c == SubSeq(b, o + 1, e)
<1>1. Len(b) \in Nat /\ (e - (o + 1)) + 1 = e - o /\ e - o \in Nat
  OBVIOUS
<1>2. c \in Seq(S) /\ Len(c) = e - o
  BY <1>1
<1>3. \A i \in 1 .. e - o : c[i] = b[(o + 1) + i - 1]
  BY <1>1
<1>4. \A i \in 1 .. e - o : (o + 1) + i - 1 = o + i
  OBVIOUS
<1> QED
  BY <1>2, <1>3, <1>4, Zenon

\* Sequences with the same elements are the same.
LEMMA SameRows ==
  ASSUME NEW s \in Seq(Nat), NEW t \in Seq(Nat), Len(s) = Len(t),
         \A i \in 1 .. Len(s) : s[i] = t[i]
  PROVE  s = t
BY SMTT(30)

\* The rows from one to another of a batch.
LEMMA Slice ==
  ASSUME NEW batch \in Seq(Nat), NEW k \in Nat \ {0}, NEW n \in Nat, n <= Len(batch)
  PROVE  /\ SubSeq(batch, k, n) \in Seq(Nat)
         /\ k <= n => SubSeq(batch, k, n) # <<>>
         /\ k <= n + 1 /\ n + 1 <= Len(batch) =>
              SubSeq(batch, k, n + 1) = SubSeq(batch, k, n) \o <<batch[n + 1]>>
<1>1. Len(batch) \in Nat
  OBVIOUS
<1>2. SubSeq(batch, k, n) \in Seq(Nat) /\ (k <= n => SubSeq(batch, k, n) # <<>>)
  BY <1>1, SMTT(30)
<1>3. ASSUME k <= n + 1, n + 1 <= Len(batch)
      PROVE  SubSeq(batch, k, n + 1) = SubSeq(batch, k, n) \o <<batch[n + 1]>>
  <2> DEFINE l == SubSeq(batch, k, n + 1)
             p == SubSeq(batch, k, n)
             r == p \o <<batch[n + 1]>>
  <2>1. l \in Seq(Nat) /\ Len(l) = n + 2 - k /\ \A i \in 1 .. n + 2 - k : l[i] = batch[k + i - 1]
    <3>1. n + 1 \in Nat /\ k \in Int /\ n + 2 - k \in Nat
      BY <1>3
    <3>2. l \in Seq(Nat)
      BY <1>1, <1>3
    <3>3. Len(l) = n + 2 - k
      BY <1>1, <1>3, <3>1
    <3>4. \A i \in 1 .. n + 2 - k : l[i] = batch[k + i - 1]
      BY <1>1, <1>3, <3>1
    <3> QED
      BY <3>2, <3>3, <3>4, Zenon
  <2>2. p \in Seq(Nat) /\ Len(p) = n + 1 - k /\ \A i \in 1 .. n + 1 - k : p[i] = batch[k + i - 1]
    BY <1>1, <1>3, SMTT(30)
  <2>3. <<batch[n + 1]>> \in Seq(Nat) /\ Len(<<batch[n + 1]>>) = 1
        /\ <<batch[n + 1]>>[1] = batch[n + 1]
    BY <1>1, <1>3
  <2> HIDE DEF l, p
  <2>4. r \in Seq(Nat) /\ Len(r) = n + 2 - k
    BY <1>3, <2>2, <2>3, SMTT(30)
  <2>5. \A i \in 1 .. n + 2 - k : r[i] = batch[k + i - 1]
    BY <1>3, <2>2, <2>3, SMTT(30)
  <2> HIDE DEF r
  <2>6. Len(l) = Len(r) /\ \A i \in 1 .. Len(l) : l[i] = r[i]
    BY <2>1, <2>4, <2>5, Zenon
  <2>7. l = r
    BY <2>1, <2>4, <2>6, SameRows, Zenon
  <2> QED
    BY <2>7, Zenon DEF l, r, p
<1> QED
  BY <1>2, <1>3, Zenon

--------------------------------------------------------------------------------
(* The framing of a payload.                                                *)

\* A word is an integer,
LEMMA WordsAreIntegers == Words \subseteq Int
BY FramingAssumption, Zenon

\* and a terminator is no message.
LEMMA EndOrMessage ==
  ASSUME NEW bytes, NEW offset
  PROVE  ~(HasEnd(bytes, offset) /\ HasMessage(bytes, offset))
BY DEF HasEnd, HasMessage

\* The words of a message and where they are.
LEMMA MessageFacts ==
  ASSUME NEW bytes \in Seq(Words), NEW offset \in 0 .. Len(bytes), HasMessage(bytes, offset)
  PROVE  /\ Start(bytes, offset) \in offset + 1 .. Len(bytes)
         /\ bytes[Start(bytes, offset)] \in Nat \ {0}
         /\ MessageAt(bytes, offset).body \in Nat
         /\ MessageAt(bytes, offset) \in Messages
         /\ After(bytes, offset) \in offset + 1 .. Len(bytes)
<1> DEFINE s == Start(bytes, offset)
           m == MessageAt(bytes, offset)
<1>1. offset \in Nat /\ Len(bytes) \in Nat /\ offset + 1 <= Len(bytes)
  BY DEF HasMessage, HasPrefix
<1>2. s \in offset + 1 .. Len(bytes)
  BY <1>1 DEF HasMessage, HasPrefix, Start
<1> HIDE DEF s
<1>3. bytes[s] \in Words /\ bytes[s] \in Int /\ bytes[s] > 0 /\ s + bytes[s] <= Len(bytes)
  <2>1. s \in 1 .. Len(bytes)
    BY <1>1, <1>2
  <2>2. bytes[s] \in Words
    BY <2>1
  <2> QED
    BY <2>2, WordsAreIntegers, Zenon DEF HasMessage, Length, s
<1>4. bytes[s + 1] \in Words
  BY <1>1, <1>2, <1>3
<1>5. m = Metadata[bytes[s + 1]] /\ m # Malformed /\ m.body >= 0
  BY Zenon DEF MessageAt, HasMessage, s
<1>6. m \in Messages
  BY <1>4, <1>5, Zenon DEF Messages
<1>7. m.body \in Int
  BY <1>6, FramingAssumption, Zenon
<1>8. After(bytes, offset) = s + bytes[s] + m.body /\ After(bytes, offset) <= Len(bytes)
  BY Zenon DEF After, HasMessage, Length, s
<1> HIDE DEF m
<1>9. After(bytes, offset) \in offset + 1 .. Len(bytes) /\ m.body \in Nat
  BY <1>1, <1>2, <1>3, <1>5, <1>7, <1>8, SMTT(30)
<1> QED
  BY <1>2, <1>3, <1>6, <1>9, SMTT(30) DEF s, m

\* The loop of validate_ipc() at an offset, with f for what it makes of later ones,
Turn(f, bytes, offset) ==
  \/ HasEnd(bytes, offset) /\ AtEnd(bytes, Start(bytes, offset))
  \/ HasMessage(bytes, offset) /\ f[After(bytes, offset)]

\* and the whole of it.
Valid(bytes) == CHOOSE f : f = [offset \in 0 .. Len(bytes) |-> Turn(f, bytes, offset)]

\* validate_ipc() is its loop from the first word on.
LEMMA ValidateIs ==
  ASSUME NEW bytes
  PROVE  ValidateIpc(bytes) <=> Len(bytes) <= Limit /\ Valid(bytes)[0]
BY Zenon DEF ValidateIpc, Valid, Turn

\* The loop goes forward, so it is well defined.
LEMMA ValidFacts ==
  ASSUME NEW bytes \in Seq(Words)
  PROVE  \A i \in 0 .. Len(bytes) : Valid(bytes)[i] <=> Turn(Valid(bytes), bytes, i)
<1> DEFINE L == Len(bytes)
           D == 0 .. L
           E == {i \in D : HasMessage(bytes, i)}
           J == [i \in D |-> After(bytes, i)]
           B == [i \in D |-> HasEnd(bytes, i) /\ AtEnd(bytes, Start(bytes, i))]
           G == [i \in D |-> [r \in BOOLEAN |-> r]]
<1>1. L \in Nat
  OBVIOUS
<1>2. \A i \in E : J[i] \in i + 1 .. L
  BY MessageFacts, Zenon
<1>3. \A i \in D : B[i] \in BOOLEAN
  BY Zenon
<1>4. \A i \in E, r \in BOOLEAN : G[i][r] = r
  BY Zenon
<1>5. E \in SUBSET D /\ \A i \in E, r \in BOOLEAN : G[i][r] \in BOOLEAN
  BY <1>4, Zenon
<1>6. /\ \A i \in D : i \in E <=> HasMessage(bytes, i)
      /\ \A i \in D : J[i] = After(bytes, i)
      /\ \A i \in D : B[i] <=> HasEnd(bytes, i) /\ AtEnd(bytes, Start(bytes, i))
  BY Zenon
<1> HIDE DEF E, J, B, G
<1>7. PICK f \in [D -> BOOLEAN] :
        /\ \A i \in E : f[i] = G[i][f[J[i]]]
        /\ \A i \in D : i \notin E => f[i] = B[i]
  <2>1. Later(L, BOOLEAN, E, J, G, B)
    BY <1>1, <1>2, <1>3, <1>5, Zenon DEF Later
  <2>2. \E f : Made(f, L, BOOLEAN, E, J, G, B)
    BY <2>1, Backwards, Zenon
  <2> QED
    BY <2>2, Zenon DEF Made
<1>8. ASSUME NEW i \in D
      PROVE  f[i] <=> Turn(f, bytes, i)
  <2>1. CASE HasMessage(bytes, i)
    <3>1. i \in E /\ J[i] = After(bytes, i) /\ J[i] \in i + 1 .. L
      BY <1>2, <1>6, <2>1, Zenon
    <3>2. J[i] \in D
      BY <1>1, <3>1
    <3>3. f[J[i]] \in BOOLEAN /\ f[i] = G[i][f[J[i]]]
      BY <1>7, <3>1, <3>2, Zenon
    <3>4. f[i] = f[J[i]]
      BY <1>4, <3>1, <3>3, Zenon
    <3> QED
      BY <2>1, <3>1, <3>4, EndOrMessage, Zenon DEF Turn
  <2>2. CASE ~HasMessage(bytes, i)
    BY <1>6, <1>7, <2>2, Zenon DEF Turn
  <2> QED
    BY <2>1, <2>2, Zenon
<1>9. f = [i \in D |-> Turn(f, bytes, i)]
  <2>1. \A i \in D : Turn(f, bytes, i) \in BOOLEAN
    BY Zenon DEF Turn
  <2>2. \A i \in D : f[i] \in BOOLEAN
    BY <1>7, Zenon
  <2>3. \A i \in D : f[i] = Turn(f, bytes, i)
    BY <1>8, <2>1, <2>2, Zenon
  <2> QED
    BY <1>7, <2>3, Zenon
<1>10. Valid(bytes) = [i \in D |-> Turn(Valid(bytes), bytes, i)]
  BY <1>9, Zenon DEF Valid
<1> QED
  BY <1>10, Zenon

\* A dictionary is at an offset.
DictionaryAt(bytes, offset) ==
  HasMessage(bytes, offset) /\ MessageAt(bytes, offset).kind = "dictionary"

\* next() at an offset, with f for what it does at later ones,
Pass(f, bytes, offset) ==
  IF DictionaryAt(bytes, offset)
    THEN [at |-> f[After(bytes, offset)].at,
          ids |-> f[After(bytes, offset)].ids \cup {MessageAt(bytes, offset).id}]
    ELSE [at |-> offset, ids |-> {}]

\* is what it passes.
LEMMA PassesIs ==
  ASSUME NEW bytes
  PROVE  Passes(bytes) = CHOOSE f : f = [offset \in 0 .. Len(bytes) |-> Pass(f, bytes, offset)]
BY Zenon DEF Passes, Pass, DictionaryAt

\* It goes forward too.
LEMMA PassesFacts ==
  ASSUME NEW bytes \in Seq(Words)
  PROVE  \A i \in 0 .. Len(bytes) : Passes(bytes)[i] = Pass(Passes(bytes), bytes, i)
<1> DEFINE L == Len(bytes)
           D == 0 .. L
           Ids == {m.id : m \in Messages}
           R == [at : D, ids : SUBSET Ids]
           E == {i \in D : DictionaryAt(bytes, i)}
           J == [i \in D |-> After(bytes, i)]
           B == [i \in D |-> [at |-> i, ids |-> {}]]
           G == [i \in D |-> [r \in R |->
                   [at |-> r.at, ids |-> r.ids \cup {MessageAt(bytes, i).id}]]]
<1>1. L \in Nat
  OBVIOUS
<1>2. \A i \in E : J[i] \in i + 1 .. L /\ MessageAt(bytes, i).id \in Ids
  BY MessageFacts, Zenon DEF DictionaryAt
<1>3. \A i \in D : B[i] \in R
  OBVIOUS
<1>4. \A i \in D, r \in R :
        G[i][r] = [at |-> r.at, ids |-> r.ids \cup {MessageAt(bytes, i).id}]
  BY Zenon
<1> HIDE DEF G
<1>5. ASSUME NEW i \in E, NEW r \in R
      PROVE  G[i][r] \in R
  <2>1. r.at \in D /\ r.ids \in SUBSET Ids /\ i \in D /\ MessageAt(bytes, i).id \in Ids
    BY <1>2, Zenon
  <2> DEFINE id == MessageAt(bytes, i).id
  <2>2. G[i][r] = [at |-> r.at, ids |-> r.ids \cup {id}]
    BY <1>4, <2>1, Zenon
  <2> HIDE DEF id, D, Ids
  <2>3. r.ids \cup {id} \in SUBSET Ids
    BY <2>1 DEF id
  <2>4. ASSUME NEW x \in D, NEW y \in SUBSET Ids
        PROVE  [at |-> x, ids |-> y] \in [at : D, ids : SUBSET Ids]
    OBVIOUS
  <2>5. [at |-> r.at, ids |-> r.ids \cup {id}] \in [at : D, ids : SUBSET Ids]
    BY <2>1, <2>3, <2>4, Zenon
  <2> QED
    BY <2>2, <2>5, Zenon
<1>6. /\ E \in SUBSET D
      /\ \A i \in D : i \in E <=> DictionaryAt(bytes, i)
      /\ \A i \in D : J[i] = After(bytes, i)
      /\ \A i \in D : B[i] = [at |-> i, ids |-> {}]
  BY Zenon
<1>7. \A i \in E : J[i] \in i + 1 .. L
  BY <1>2, Zenon
<1> HIDE DEF E, J, B, R
<1>8. PICK f \in [D -> R] : /\ \A i \in E : f[i] = G[i][f[J[i]]]
                            /\ \A i \in D : i \notin E => f[i] = B[i]
  <2>1. Later(L, R, E, J, G, B)
    BY <1>1, <1>3, <1>5, <1>6, <1>7, Zenon DEF Later
  <2>2. \E f : Made(f, L, R, E, J, G, B)
    BY <2>1, Backwards, Zenon
  <2> QED
    BY <2>2, Zenon DEF Made
<1>9. ASSUME NEW i \in D
      PROVE  f[i] = Pass(f, bytes, i)
  <2>1. CASE DictionaryAt(bytes, i)
    <3>1. i \in E /\ J[i] = After(bytes, i) /\ J[i] \in i + 1 .. L
      BY <1>6, <1>7, <2>1, Zenon
    <3>2. J[i] \in D
      BY <1>1, <3>1
    <3>3. f[J[i]] \in R
      BY <1>8, <3>2, Zenon
    <3> QED
      BY <1>4, <1>8, <2>1, <3>1, <3>3, ZenonT(30) DEF Pass
  <2>2. CASE ~DictionaryAt(bytes, i)
    BY <1>6, <1>8, <2>2, Zenon DEF Pass
  <2> QED
    BY <2>1, <2>2, Zenon
<1>10. f = [i \in D |-> Pass(f, bytes, i)]
  BY <1>8, <1>9, Zenon
<1>11. Passes(bytes) = [i \in D |-> Pass(Passes(bytes), bytes, i)]
  BY <1>10, PassesIs, Zenon
<1> QED
  BY <1>11, Zenon

\* It passes a dictionary, and what it passes after it,
LEMMA PassesOne ==
  ASSUME NEW bytes \in Seq(Words), NEW i \in 0 .. Len(bytes), DictionaryAt(bytes, i)
  PROVE  /\ Passes(bytes)[i].at = Passes(bytes)[After(bytes, i)].at
         /\ Passes(bytes)[i].ids =
              Passes(bytes)[After(bytes, i)].ids \cup {MessageAt(bytes, i).id}
<1> DEFINE a == Passes(bytes)[After(bytes, i)].at
           I == Passes(bytes)[After(bytes, i)].ids \cup {MessageAt(bytes, i).id}
<1>1. Passes(bytes)[i] = Pass(Passes(bytes), bytes, i)
  BY PassesFacts, Zenon
<1>2. Pass(Passes(bytes), bytes, i) = [at |-> a, ids |-> I]
  BY Zenon DEF Pass
<1> HIDE DEF a, I
<1>3. [at |-> a, ids |-> I].at = a /\ [at |-> a, ids |-> I].ids = I
  OBVIOUS
<1> QED
  BY <1>1, <1>2, <1>3, Zenon DEF a, I

\* and nothing else.
LEMMA PassesNone ==
  ASSUME NEW bytes \in Seq(Words), NEW i \in 0 .. Len(bytes), ~DictionaryAt(bytes, i)
  PROVE  Passes(bytes)[i].at = i /\ Passes(bytes)[i].ids = {}
<1>1. Passes(bytes)[i] = Pass(Passes(bytes), bytes, i)
  BY PassesFacts, Zenon
<1>2. Pass(Passes(bytes), bytes, i) = [at |-> i, ids |-> {}]
  BY Zenon DEF Pass
<1>3. [at |-> i, ids |-> {}].at = i /\ [at |-> i, ids |-> {}].ids = {}
  OBVIOUS
<1> QED
  BY <1>1, <1>2, <1>3, Zenon

\* A prefix is one word, or two.
LEMMA PrefixIs ==
  ASSUME NEW c \in Seq(Words), NEW n \in Int
  PROVE  Prefix(c, n) <=> \/ Len(c) = 1 /\ c[1] = n
                          \/ Len(c) = 2 /\ c[1] = -1 /\ c[2] = n
<1> DEFINE x == <<n>>
           y == <<-1, n>>
<1>1. c \in Seq(Int)
  <2>1. c \in [1 .. Len(c) -> Words] /\ Len(c) \in Nat
    OBVIOUS
  <2>2. c \in [1 .. Len(c) -> Int]
    BY <2>1, WordsAreIntegers, Zenon
  <2> QED
    BY <2>1, <2>2
<1>2. n \in Int /\ -1 \in Int
  OBVIOUS
<1>3. x \in Seq(Int) /\ Len(x) = 1 /\ x[1] = n
  BY <1>2, TupleFacts, Zenon
<1>4. y \in Seq(Int) /\ Len(y) = 2 /\ y[1] = -1 /\ y[2] = n
  BY <1>2
<1> HIDE DEF x, y
<1>5. c = x <=> Len(c) = 1 /\ c[1] = n
  BY <1>1, <1>3, OneOf, Zenon
<1>6. c = y <=> Len(c) = 2 /\ c[1] = -1 /\ c[2] = n
  BY <1>1, <1>4, PairOf, Zenon
<1>7. Prefix(c, n) <=> c = x \/ c = y
  BY Zenon DEF Prefix, x, y
<1> QED
  BY <1>5, <1>6, <1>7, Zenon

\* The terminator in the format is the one at which the loop stops.
LEMMA EndIs ==
  ASSUME NEW b \in Seq(Words), NEW o \in 0 .. Len(b)
  PROVE  Prefix(Piece(b, o, Len(b)), 0) <=> HasEnd(b, o) /\ AtEnd(b, Start(b, o))
<1> DEFINE L == Len(b)
           c == SubSeq(b, o + 1, L)
           Ends == HasEnd(b, o) /\ AtEnd(b, Start(b, o))
<1>1. L \in Nat /\ o \in Nat /\ o <= L /\ L <= Len(b) /\ 0 \in Int
  OBVIOUS
<1>2. c \in Seq(Words) /\ Len(c) = L - o /\ \A i \in 1 .. L - o : c[i] = b[o + i]
  BY <1>1, PartFacts, Zenon
<1>3. Prefix(c, 0) <=> \/ Len(c) = 1 /\ c[1] = 0
                       \/ Len(c) = 2 /\ c[1] = -1 /\ c[2] = 0
  <2> HIDE DEF c
  <2>1. c \in Seq(Words)
    BY <1>2, Zenon
  <2> QED
    BY <2>1, PrefixIs
<1> HIDE DEF c
<1>4. Ends <=> /\ o + 1 <= L
               /\ \/ b[o + 1] = -1 /\ o + 2 = L /\ b[o + 2] = 0
                  \/ b[o + 1] # -1 /\ o + 1 = L /\ b[o + 1] = 0
  BY <1>1 DEF HasEnd, HasPrefix, Start, Length, AtEnd
<1> HIDE DEF L, Ends
<1>5. CASE L - o = 1
  <2>1. c[1] = b[o + 1] /\ o + 1 = L /\ o + 2 # L /\ 1 # 2 /\ 0 # -1 /\ o + 1 <= L
    BY <1>1, <1>2, <1>5
  <2>2. Prefix(c, 0) <=> c[1] = 0
    BY <1>2, <1>3, <1>5, <2>1, Zenon
  <2>3. Ends <=> b[o + 1] = 0
    BY <1>4, <2>1, Zenon
  <2> QED
    BY <2>1, <2>2, <2>3, Zenon DEF c, L, Ends, Piece
<1>6. CASE L - o = 2
  <2>1. c[1] = b[o + 1] /\ c[2] = b[o + 2] /\ o + 2 = L /\ o + 1 # L /\ o + 1 <= L /\ 2 # 1
    BY <1>1, <1>2, <1>6
  <2>2. Prefix(c, 0) <=> c[1] = -1 /\ c[2] = 0
    BY <1>2, <1>3, <1>6, <2>1, Zenon
  <2>3. Ends <=> b[o + 1] = -1 /\ b[o + 2] = 0
    BY <1>4, <2>1, Zenon
  <2> QED
    BY <2>1, <2>2, <2>3, Zenon DEF c, L, Ends, Piece
<1>7. CASE L - o # 1 /\ L - o # 2
  <2>1. o + 1 # L /\ o + 2 # L
    BY <1>1, <1>7
  <2>2. ~Prefix(c, 0)
    BY <1>2, <1>3, <1>7, Zenon
  <2>3. ~Ends
    BY <1>4, <2>1, Zenon
  <2> QED
    BY <2>2, <2>3, Zenon DEF c, L, Ends, Piece
<1> QED
  BY <1>5, <1>6, <1>7, Zenon

\* A message in the format is one the loop passes.
LEMMA MessageIs ==
  ASSUME NEW b \in Seq(Words), NEW o \in Nat, NEW e \in Nat, o < e, e <= Len(b),
         NEW message \in Messages
  PROVE  IsMessage(Piece(b, o, e), message) <=>
           HasMessage(b, o) /\ MessageAt(b, o) = message /\ After(b, o) = e
<1> DEFINE L == Len(b)
           c == SubSeq(b, o + 1, e)
           s == Start(b, o)
<1>1. L \in Nat /\ o <= e /\ o + 1 <= L /\ e - o \in Nat /\ o \in 0 .. L
  OBVIOUS
<1>2. c \in Seq(Words) /\ Len(c) = e - o /\ \A i \in 1 .. e - o : c[i] = b[o + i]
  BY <1>1, PartFacts, ZenonT(30)
<1>3. message # Malformed /\ message.body \in Int
  BY FramingAssumption, Zenon DEF Messages
<1> HIDE DEF c
<1>4. ASSUME NEW p \in Nat, p <= Len(c), NEW m \in Int
      PROVE  Prefix(SubSeq(c, 1, p), m) <=> \/ p = 1 /\ c[1] = m
                                            \/ p = 2 /\ c[1] = -1 /\ c[2] = m
  <2> DEFINE d == SubSeq(c, 1, p)
  <2>1. d \in Seq(Words) /\ Len(d) = p /\ \A i \in 1 .. p : d[i] = c[i]
    BY <1>2, <1>4
  <2>2. Prefix(d, m) <=> \/ Len(d) = 1 /\ d[1] = m
                         \/ Len(d) = 2 /\ d[1] = -1 /\ d[2] = m
    BY <2>1, PrefixIs, Zenon
  <2> HIDE DEF d
  <2>3. CASE p = 1
    <3>1. d[1] = c[1] /\ 1 # 2
      BY <2>1, <2>3
    <3> QED
      BY <2>1, <2>2, <2>3, <3>1, Zenon DEF d
  <2>4. CASE p = 2
    <3>1. d[1] = c[1] /\ d[2] = c[2] /\ 2 # 1
      BY <2>1, <2>4
    <3> QED
      BY <2>1, <2>2, <2>4, <3>1, Zenon DEF d
  <2>5. CASE p # 1 /\ p # 2
    BY <2>1, <2>2, <2>5, Zenon DEF d
  <2> QED
    BY <2>3, <2>4, <2>5, Zenon
<1>5. ASSUME IsMessage(c, message)
      PROVE  HasMessage(b, o) /\ MessageAt(b, o) = message /\ After(b, o) = e
  <2>1. PICK p \in 1 .. Len(c), m \in 1 .. Len(c) :
          /\ p < Len(c)
          /\ Prefix(SubSeq(c, 1, p), m)
          /\ Metadata[c[p + 1]] = message
          /\ Len(c) = p + m + message.body
          /\ message.body >= 0
    BY <1>5, Zenon DEF IsMessage
  <2>2. p \in Nat /\ p >= 1 /\ p <= Len(c) /\ m \in Int /\ m > 0 /\ p + 1 \in 1 .. e - o
        /\ 1 \in 1 .. e - o
    BY <1>1, <1>2, <2>1
  <2>3. \/ p = 1 /\ c[1] = m
        \/ p = 2 /\ c[1] = -1 /\ c[2] = m
    BY <1>4, <2>1, <2>2, Zenon
  <2>4. c[1] = b[o + 1] /\ c[p] = b[o + p] /\ c[p + 1] = b[(o + p) + 1]
    <3>1. p \in 1 .. e - o /\ o + (p + 1) = (o + p) + 1
      BY <1>1, <1>2, <2>1, <2>2
    <3>2. c[1] = b[o + 1] /\ c[p] = b[o + p] /\ c[p + 1] = b[o + (p + 1)]
      BY <1>2, <2>2, <3>1, Zenon
    <3> QED
      BY <3>1, <3>2, Zenon
  <2>5. s = o + p /\ b[o + p] = m
    <3>1. CASE p = 1 /\ c[1] = m
      <4>1. b[o + 1] # -1
        BY <2>2, <2>4, <3>1
      <4> QED
        BY <2>4, <3>1, <4>1, Zenon DEF Start
    <3>2. CASE p = 2 /\ c[1] = -1 /\ c[2] = m
      BY <2>4, <3>2, Zenon DEF Start
    <3> QED
      BY <2>3, <3>1, <3>2, Zenon
  <2>6. MessageAt(b, o) = message
    BY <2>1, <2>4, <2>5, Zenon DEF MessageAt
  <2>7. After(b, o) = (o + p) + m + message.body
    BY <2>5, <2>6, Zenon DEF After, Length
  <2>9. e - o = p + m + message.body /\ message.body >= 0
    BY <1>2, <2>1, Zenon
  <2>10. After(b, o) = e
    BY <1>1, <1>3, <2>2, <2>7, <2>9, SMTT(30)
  <2>11. o + p <= L /\ (o + p) + m <= L
    BY <1>1, <1>3, <2>2, <2>9, SMTT(30)
  <2>12. HasPrefix(b, o)
    BY <1>1, <2>5, <2>11, Zenon DEF HasPrefix
  <2>13. HasMessage(b, o)
    BY <1>3, <2>2, <2>5, <2>6, <2>9, <2>10, <2>11, <2>12, Zenon DEF HasMessage, Length
  <2> QED
    BY <2>6, <2>10, <2>13, Zenon
<1>6. ASSUME HasMessage(b, o), MessageAt(b, o) = message, After(b, o) = e
      PROVE  IsMessage(c, message)
  <2> DEFINE m == b[s]
             p == s - o
  <2>2. /\ s \in o + 1 .. L /\ m \in Nat \ {0} /\ message.body \in Nat
        /\ e = s + m + message.body
    <3>1. /\ s \in o + 1 .. L /\ m \in Nat \ {0} /\ message.body \in Nat
      BY <1>1, <1>6, MessageFacts, Zenon
    <3> QED
      BY <1>6, <3>1, Zenon DEF After, Length
  <2>3. (b[o + 1] = -1 /\ s = o + 2) \/ (b[o + 1] # -1 /\ s = o + 1)
    BY Zenon DEF Start
  <2>10. message = Metadata[b[s + 1]]
    BY <1>6, Zenon DEF MessageAt
  <2> HIDE DEF s, m
  <2>4. /\ p \in 1 .. Len(c) /\ m \in 1 .. Len(c) /\ p < Len(c) /\ p \in Nat /\ p <= Len(c)
        /\ Len(c) = p + m + message.body /\ message.body >= 0 /\ p + 1 \in 1 .. e - o
        /\ o + (p + 1) = s + 1 /\ m \in Int /\ p \in 1 .. e - o /\ o + p = s /\ 1 \in 1 .. e - o
    BY <1>1, <1>2, <2>2, SMTT(30)
  <2> HIDE DEF p
  <2>5. c[p + 1] = b[s + 1] /\ c[p] = b[s] /\ c[1] = b[o + 1]
    BY <1>2, <2>4, Zenon
  <2>6. (p = 2 /\ c[1] = -1 /\ c[2] = m) \/ (p = 1 /\ c[1] = m)
    <3>1. CASE b[o + 1] = -1 /\ s = o + 2
      <4>1. p = 2
        BY <1>1, <3>1 DEF p
      <4> QED
        BY <2>5, <3>1, <4>1, Zenon DEF m
    <3>2. CASE b[o + 1] # -1 /\ s = o + 1
      <4>1. p = 1
        BY <1>1, <3>2 DEF p
      <4> QED
        BY <2>5, <3>2, <4>1, Zenon DEF m
    <3> QED
      BY <2>3, <3>1, <3>2, Zenon
  <2>7. Prefix(SubSeq(c, 1, p), m)
    BY <1>4, <2>4, <2>6, Zenon
  <2>8. message = Metadata[c[p + 1]]
    BY <2>5, <2>10, Zenon
  <2> QED
    BY <2>2, <2>4, <2>7, <2>8, Zenon DEF IsMessage
<1> QED
  BY <1>5, <1>6, Zenon DEF c, Piece

\* A dictionary in the format is one that next() passes.
LEMMA DictionaryIs ==
  ASSUME NEW b \in Seq(Words), NEW o \in Nat, NEW e \in Nat, o < e, e <= Len(b), NEW id
  PROVE  IsDictionary(Piece(b, o, e), id) <=>
           DictionaryAt(b, o) /\ MessageAt(b, o).id = id /\ After(b, o) = e
<1>1. o \in 0 .. Len(b)
  OBVIOUS
<1>2. ASSUME IsDictionary(Piece(b, o, e), id)
      PROVE  DictionaryAt(b, o) /\ MessageAt(b, o).id = id /\ After(b, o) = e
  <2>1. PICK d \in Messages :
          d.kind = "dictionary" /\ d.id = id /\ IsMessage(Piece(b, o, e), d)
    BY <1>2, Zenon DEF IsDictionary
  <2>2. HasMessage(b, o) /\ MessageAt(b, o) = d /\ After(b, o) = e
    BY <2>1, MessageIs, Zenon
  <2> QED
    BY <2>1, <2>2, Zenon DEF DictionaryAt
<1>3. ASSUME DictionaryAt(b, o), MessageAt(b, o).id = id, After(b, o) = e
      PROVE  IsDictionary(Piece(b, o, e), id)
  <2>1. MessageAt(b, o) \in Messages /\ HasMessage(b, o)
    BY <1>1, <1>3, MessageFacts, Zenon DEF DictionaryAt
  <2>2. IsMessage(Piece(b, o, e), MessageAt(b, o))
    BY <1>3, <2>1, MessageIs, Zenon
  <2> QED
    BY <1>3, <2>1, <2>2, Zenon DEF IsDictionary, DictionaryAt
<1> QED
  BY <1>2, <1>3, Zenon

\* The words between cuts are dictionaries for these ids.
Cuts(bytes, i, j, ids, cuts) ==
  /\ cuts \in SUBSET (i .. j)
  /\ i \in cuts /\ j \in cuts
  /\ \A x, y \in cuts :
       Adjacent(cuts, x, y) => \E id \in ids : IsDictionary(Piece(bytes, x, y), id)
  /\ \A id \in ids :
       \E x, y \in cuts : Adjacent(cuts, x, y) /\ IsDictionary(Piece(bytes, x, y), id)

\* One more cut in front makes no others adjacent, nor fewer.
LEMMA CutBefore ==
  ASSUME NEW o \in Nat, NEW a \in Nat, o < a, NEW z \in Nat,
         NEW cuts \in SUBSET (a .. z), a \in cuts
  PROVE  /\ \A x, y \in cuts : Adjacent(cuts \cup {o}, x, y) <=> Adjacent(cuts, x, y)
         /\ \A x \in cuts : ~Adjacent(cuts \cup {o}, x, o)
         /\ \A y \in cuts : Adjacent(cuts \cup {o}, o, y) <=> y = a
         /\ ~Adjacent(cuts \cup {o}, o, o)
<1>1. \A x \in cuts : x \in Nat /\ a <= x /\ o < x /\ o <= x /\ ~(x < o)
  OBVIOUS
<1>2. ASSUME NEW x \in cuts, NEW y \in cuts
      PROVE  Adjacent(cuts \cup {o}, x, y) <=> Adjacent(cuts, x, y)
  BY <1>1, <1>2, Zenon DEF Adjacent
<1>3. ASSUME NEW x \in cuts
      PROVE  ~Adjacent(cuts \cup {o}, x, o)
  BY <1>1, <1>3, Zenon DEF Adjacent
<1>4. ASSUME NEW y \in cuts, Adjacent(cuts \cup {o}, o, y)
      PROVE  y = a
  <2>1. a <= o \/ y <= a
    BY <1>4, Zenon DEF Adjacent
  <2> QED
    BY <1>1, <2>1
<1>5. Adjacent(cuts \cup {o}, o, a)
  BY <1>1 DEF Adjacent
<1>6. ~Adjacent(cuts \cup {o}, o, o)
  BY DEF Adjacent
<1> QED
  BY <1>2, <1>3, <1>4, <1>5, <1>6, Zenon

\* A dictionary before dictionaries.
LEMMA DictionaryBefore ==
  ASSUME NEW b \in Seq(Words), NEW o \in 0 .. Len(b), DictionaryAt(b, o),
         NEW z \in 0 .. Len(b), NEW ids, NEW cuts, Cuts(b, After(b, o), z, ids, cuts)
  PROVE  Cuts(b, o, z, ids \cup {MessageAt(b, o).id}, cuts \cup {o})
<1> DEFINE a == After(b, o)
           d == MessageAt(b, o).id
           new == cuts \cup {o}
<1>1. a \in o + 1 .. Len(b)
  BY MessageFacts, Zenon DEF DictionaryAt
<1>2. /\ cuts \in SUBSET (a .. z) /\ a \in cuts /\ z \in cuts
      /\ \A x, y \in cuts : Adjacent(cuts, x, y) => \E id \in ids : IsDictionary(Piece(b, x, y), id)
      /\ \A id \in ids : \E x, y \in cuts : Adjacent(cuts, x, y) /\ IsDictionary(Piece(b, x, y), id)
  BY Zenon DEF Cuts
<1>3. o \in Nat /\ a \in Nat /\ o < a /\ z \in Nat /\ a <= Len(b)
  <2> HIDE DEF a
  <2> QED
    BY <1>1
<1>4. IsDictionary(Piece(b, o, a), d)
  <2>1. DictionaryAt(b, o) /\ MessageAt(b, o).id = d /\ After(b, o) = a
    BY Zenon
  <2> HIDE DEF a, d
  <2>2. IsDictionary(Piece(b, o, a), d) <=>
          DictionaryAt(b, o) /\ MessageAt(b, o).id = d /\ After(b, o) = a
    BY <1>3, DictionaryIs, Zenon
  <2> QED
    BY <2>1, <2>2, Zenon
<1> HIDE DEF a, d
<1>5. /\ \A x, y \in cuts : Adjacent(new, x, y) <=> Adjacent(cuts, x, y)
      /\ \A x \in cuts : ~Adjacent(new, x, o)
      /\ \A y \in cuts : Adjacent(new, o, y) <=> y = a
      /\ ~Adjacent(new, o, o)
  BY <1>2, <1>3, CutBefore, Zenon
<1>6. new \in SUBSET (o .. z) /\ o \in new /\ z \in new
  <2>1. a \in a .. z
    BY <1>2, Zenon
  <2>2. o \in o .. z /\ \A x \in a .. z : x \in o .. z
    BY <1>3, <2>1
  <2> QED
    BY <1>2, <2>2, Zenon
<1>7. ASSUME NEW x \in new, NEW y \in new, Adjacent(new, x, y)
      PROVE  \E id \in ids \cup {d} : IsDictionary(Piece(b, x, y), id)
  <2>1. CASE x = o
    <3>1. y # o
      BY <1>5, <1>7, <2>1, Zenon
    <3>2. y = a
      BY <1>5, <1>7, <2>1, <3>1, Zenon
    <3> QED
      BY <1>4, <2>1, <3>2, Zenon
  <2>2. CASE x # o
    <3>1. x \in cuts /\ y \in cuts
      BY <1>5, <1>7, <2>2, Zenon
    <3> QED
      BY <1>2, <1>5, <1>7, <3>1, Zenon
  <2> QED
    BY <2>1, <2>2, Zenon
<1>8. ASSUME NEW id \in ids \cup {d}
      PROVE  \E x, y \in new : Adjacent(new, x, y) /\ IsDictionary(Piece(b, x, y), id)
  <2>1. CASE id = d
    <3>1. o \in new /\ a \in new /\ Adjacent(new, o, a)
      BY <1>2, <1>5, Zenon
    <3> QED
      BY <1>4, <2>1, <3>1, Zenon
  <2>2. CASE id \in ids
    <3>1. PICK x \in cuts, y \in cuts : Adjacent(cuts, x, y) /\ IsDictionary(Piece(b, x, y), id)
      BY <1>2, <2>2, Zenon
    <3>2. x \in new /\ y \in new /\ Adjacent(new, x, y)
      BY <1>5, <3>1, Zenon
    <3> QED
      BY <3>1, <3>2, Zenon
  <2> QED
    BY <1>8, <2>1, <2>2, Zenon
<1> QED
  BY <1>6, <1>7, <1>8, Zenon DEF Cuts, d

\* What next() passes are dictionaries, and it stops at something else; the rest of the
\* payload is valid from there if it was.
LEMMA PassesAre ==
  ASSUME NEW b \in Seq(Words), NEW o \in 0 .. Len(b)
  PROVE  /\ Passes(b)[o].at \in o .. Len(b)
         /\ AreDictionaries(b, o, Passes(b)[o].at, Passes(b)[o].ids)
         /\ ~DictionaryAt(b, Passes(b)[o].at)
         /\ Valid(b)[o] <=> Valid(b)[Passes(b)[o].at]
<1> DEFINE L == Len(b)
           p == Passes(b)
           Right(i) == /\ p[i].at \in i .. L
                       /\ \E cuts : Cuts(b, i, p[i].at, p[i].ids, cuts)
                       /\ ~DictionaryAt(b, p[i].at)
                       /\ Valid(b)[i] <=> Valid(b)[p[i].at]
           T == {i \in 0 .. L : Right(i)}
<1>1. L \in Nat
  OBVIOUS
<1> HIDE DEF p
<1>2. ASSUME NEW i \in 0 .. L, \A j \in i + 1 .. L : j \in T
      PROVE  Right(i)
  <2>1. CASE DictionaryAt(b, i)
    <3> DEFINE a == After(b, i)
    <3>1. a \in i + 1 .. L /\ HasMessage(b, i)
      BY <2>1, MessageFacts, Zenon DEF DictionaryAt
    <3>2. p[i].at = p[a].at /\ p[i].ids = p[a].ids \cup {MessageAt(b, i).id}
      BY <2>1, PassesOne, Zenon DEF p
    <3>3. Right(a)
      BY <1>2, <3>1, Zenon
    <3>4. Valid(b)[i] <=> Valid(b)[a]
      BY <3>1, ValidFacts, EndOrMessage, Zenon DEF Turn
    <3>5. PICK cuts : Cuts(b, a, p[a].at, p[a].ids, cuts)
      BY <3>3, Zenon
    <3>6. p[i].at \in i .. L /\ p[a].at \in 0 .. L
      <4>1. p[i].at \in a .. L
        BY <3>2, <3>3, Zenon
      <4> HIDE DEF a
      <4> QED
        BY <1>1, <3>1, <3>2, <4>1
    <3>7. Cuts(b, i, p[i].at, p[i].ids, cuts \cup {i})
      <4>1. Cuts(b, i, p[a].at, p[a].ids \cup {MessageAt(b, i).id}, cuts \cup {i})
        BY <2>1, <3>5, <3>6, DictionaryBefore, Zenon
      <4> QED
        BY <3>2, <4>1, Zenon
    <3> QED
      BY <3>2, <3>3, <3>4, <3>6, <3>7, Zenon
  <2>2. CASE ~DictionaryAt(b, i)
    <3>1. p[i].at = i /\ p[i].ids = {}
      BY <2>2, PassesNone, Zenon DEF p
    <3>2. i \in i .. L /\ ~(i < i) /\ i \in i .. i
      BY <1>1
    <3>3. Cuts(b, i, i, {}, {i})
      BY <3>2, Zenon DEF Cuts, Adjacent
    <3> QED
      BY <2>2, <3>1, <3>2, <3>3, Zenon
  <2> QED
    BY <2>1, <2>2, Zenon
<1> HIDE DEF Right
<1>3. \A i \in 0 .. L : (\A j \in i + 1 .. L : j \in T) => i \in T
  BY <1>2, Zenon
<1> HIDE DEF T
<1>4. o \in T
  BY <1>1, <1>3, Downwards, Zenon
<1>5. Right(o)
  BY <1>4, Zenon DEF T
<1> QED
  BY <1>5, Zenon DEF Right, AreDictionaries, Cuts, p

\* Dictionaries that are not none begin with one, and go on with the others.
LEMMA DictionaryFirst ==
  ASSUME NEW b \in Seq(Words), NEW o \in 0 .. Len(b), NEW z \in o .. Len(b), o # z,
         NEW ids, NEW cuts, Cuts(b, o, z, ids, cuts)
  PROVE  /\ DictionaryAt(b, o) /\ After(b, o) \in o + 1 .. z
         /\ \E others : /\ ids = others \cup {MessageAt(b, o).id}
                        /\ Cuts(b, After(b, o), z, others, cuts \ {o})
<1> DEFINE later == cuts \ {o}
           a == After(b, o)
           d == MessageAt(b, o).id
<1>1. /\ cuts \in SUBSET (o .. z) /\ o \in cuts /\ z \in cuts
      /\ \A x, y \in cuts : Adjacent(cuts, x, y) => \E id \in ids : IsDictionary(Piece(b, x, y), id)
      /\ \A id \in ids : \E x, y \in cuts : Adjacent(cuts, x, y) /\ IsDictionary(Piece(b, x, y), id)
  BY Zenon DEF Cuts
<1>2. /\ o \in Nat /\ z \in Nat /\ z <= Len(b) /\ later \subseteq Nat
      /\ \A x \in later : o < x /\ x <= z
  BY <1>1
<1>3. z \in later
  BY <1>1, Zenon
<1>4. PICK y \in later : \A x \in later : y <= x
  BY <1>2, <1>3, LeastMember, Zenon
<1>5. y \in Nat /\ o < y /\ y <= z /\ y <= Len(b) /\ o <= o
  BY <1>2, <1>4
<1>6. cuts = later \cup {o} /\ y \in cuts
  BY <1>1, Zenon
<1>7. later \in SUBSET (y .. z)
  BY <1>2, <1>4, <1>5
<1> HIDE DEF later
<1>8. /\ \A u, v \in later : Adjacent(cuts, u, v) <=> Adjacent(later, u, v)
      /\ \A u \in later : ~Adjacent(cuts, u, o)
      /\ \A v \in later : Adjacent(cuts, o, v) <=> v = y
      /\ ~Adjacent(cuts, o, o)
  <2>1. /\ \A u, v \in later : Adjacent(later \cup {o}, u, v) <=> Adjacent(later, u, v)
        /\ \A u \in later : ~Adjacent(later \cup {o}, u, o)
        /\ \A v \in later : Adjacent(later \cup {o}, o, v) <=> v = y
        /\ ~Adjacent(later \cup {o}, o, o)
    BY <1>2, <1>4, <1>5, <1>7, CutBefore, ZenonT(30)
  <2> QED
    BY <1>6, <2>1, Zenon
<1>9. PICK id \in ids : IsDictionary(Piece(b, o, y), id)
  BY <1>1, <1>4, <1>6, <1>8, Zenon
<1>10. DictionaryAt(b, o) /\ d = id /\ a = y
  BY <1>2, <1>5, <1>9, DictionaryIs, Zenon
<1> HIDE DEF d, a
<1> DEFINE Given(i) == \E u, v \in later : Adjacent(later, u, v) /\ IsDictionary(Piece(b, u, v), i)
           others == {i \in ids : Given(i)}
<1>11. ASSUME NEW i \in ids, i # d
       PROVE  i \in others
  <2>1. PICK u \in cuts, v \in cuts : Adjacent(cuts, u, v) /\ IsDictionary(Piece(b, u, v), i)
    BY <1>1, Zenon
  <2>2. u # o
    <3> SUFFICES ASSUME u = o PROVE FALSE
      BY Zenon
    <3>1. v = y
      BY <1>6, <1>8, <2>1, Zenon
    <3>2. MessageAt(b, o).id = i
      BY <1>2, <1>5, <2>1, <3>1, DictionaryIs, Zenon
    <3> QED
      BY <1>11, <3>2, Zenon DEF d
  <2>3. u \in later /\ v \in later
    BY <1>6, <1>8, <2>1, <2>2, Zenon
  <2> QED
    BY <1>8, <2>1, <2>3, Zenon
<1>12. ids = others \cup {d}
  BY <1>9, <1>10, <1>11, Zenon
<1>13. \A u, v \in later :
         Adjacent(later, u, v) => \E i \in others : IsDictionary(Piece(b, u, v), i)
  BY <1>1, <1>6, <1>8, Zenon
<1>14. Cuts(b, a, z, others, later)
  BY <1>3, <1>4, <1>7, <1>10, <1>13, Zenon DEF Cuts
<1>15. a \in o + 1 .. z
  BY <1>2, <1>5, <1>10
<1> HIDE DEF others
<1> QED
  BY <1>10, <1>12, <1>14, <1>15, Zenon DEF later, a, d

\* Dictionaries up to something else are what next() passes.
LEMMA PassesOnly ==
  ASSUME NEW b \in Seq(Words), NEW o \in 0 .. Len(b), NEW z \in o .. Len(b), NEW ids,
         AreDictionaries(b, o, z, ids), ~DictionaryAt(b, z)
  PROVE  Passes(b)[o].at = z /\ Passes(b)[o].ids = ids
<1> DEFINE L == Len(b)
           p == Passes(b)
           Right(i) == \A I : \A cuts :
                         i <= z /\ Cuts(b, i, z, I, cuts) => p[i].at = z /\ p[i].ids = I
           T == {i \in 0 .. L : Right(i)}
<1>1. L \in Nat /\ z \in 0 .. L /\ o <= z
  OBVIOUS
<1> HIDE DEF p
<1>2. ASSUME NEW i \in 0 .. L, \A j \in i + 1 .. L : j \in T
      PROVE  Right(i)
  <2> SUFFICES ASSUME NEW I, NEW cuts, i <= z, Cuts(b, i, z, I, cuts)
               PROVE  p[i].at = z /\ p[i].ids = I
    BY Zenon
  <2>1. CASE i = z
    <3>1. p[i].at = z /\ p[i].ids = {}
      BY <2>1, PassesNone, Zenon DEF p
    <3>2. \A x \in cuts : x = i
      <4>1. cuts \in SUBSET (i .. i)
        BY <2>1, Zenon DEF Cuts
      <4> QED
        BY <4>1
    <3>3. ~(i < i)
      OBVIOUS
    <3>4. \A x, y \in cuts : ~Adjacent(cuts, x, y)
      BY <3>2, <3>3, Zenon DEF Adjacent
    <3>5. \A id \in I : FALSE
      BY <3>4, Zenon DEF Cuts
    <3>6. I = {}
      BY <3>5, Zenon
    <3> QED
      BY <3>1, <3>6, Zenon
  <2>2. CASE i # z
    <3> DEFINE a == After(b, i)
    <3>1. z \in i .. L
      BY <1>1
    <3>2. /\ DictionaryAt(b, i) /\ a \in i + 1 .. z
          /\ \E others : /\ I = others \cup {MessageAt(b, i).id}
                         /\ Cuts(b, a, z, others, cuts \ {i})
      BY <2>2, <3>1, DictionaryFirst, Zenon
    <3>3. PICK others : /\ I = others \cup {MessageAt(b, i).id}
                        /\ Cuts(b, a, z, others, cuts \ {i})
      BY <3>2, Zenon
    <3>4. p[i].at = p[a].at /\ p[i].ids = p[a].ids \cup {MessageAt(b, i).id}
      BY <3>2, PassesOne, Zenon DEF p
    <3>5. a \in i + 1 .. L /\ a <= z
      <4>1. a \in i + 1 .. z
        BY <3>2, Zenon
      <4> HIDE DEF a
      <4> QED
        BY <1>1, <4>1
    <3>6. Right(a)
      BY <1>2, <3>5, Zenon
    <3>7. p[a].at = z /\ p[a].ids = others
      BY <3>3, <3>5, <3>6, Zenon
    <3> QED
      BY <3>3, <3>4, <3>7, Zenon
  <2> QED
    BY <2>1, <2>2, Zenon
<1> HIDE DEF Right
<1>3. \A i \in 0 .. L : (\A j \in i + 1 .. L : j \in T) => i \in T
  BY <1>2, Zenon
<1> HIDE DEF T
<1>4. o \in T
  BY <1>1, <1>3, Downwards, Zenon
<1>5. Right(o)
  BY <1>4, Zenon DEF T
<1>6. \E cuts : Cuts(b, o, z, ids, cuts)
  BY Zenon DEF AreDictionaries, Cuts
<1> QED
  BY <1>1, <1>5, <1>6, Zenon DEF Right, p

\* What decode_batch_ipc() accepts is a stream of one batch.
LEMMA DecodedIsOne ==
  ASSUME NEW b \in Seq(Words), DecodeBatchIpc(b)
  PROVE  IsOneBatch(b)
<1> DEFINE L == Len(b)
           v == Valid(b)
           schema == MessageAt(b, 0)
           s == After(b, 0)
           i == Passes(b)[s].at
           batch == MessageAt(b, i)
           j == After(b, i)
           e == Passes(b)[j].at
           ids == Passes(b)[j].ids
<1>1. /\ HasMessage(b, 0) /\ schema.kind = "schema"
      /\ HasMessage(b, i) /\ batch.kind = "batch" /\ Passes(b)[s].ids = schema.ids
      /\ HasEnd(b, e) /\ ids \subseteq schema.ids
      /\ batch.size <= Limit
      /\ L <= Limit /\ v[0]
  BY ValidateIs, Zenon DEF DecodeBatchIpc
<1>2. L \in Nat /\ 0 \in 0 .. L /\ 0 + 1 = 1
  OBVIOUS
<1> HIDE DEF v
<1>3. s \in 1 .. L /\ schema \in Messages
  BY <1>1, <1>2, MessageFacts, Zenon
<1>4. s \in 0 .. L /\ 0 \in Nat /\ s \in Nat /\ 0 < s /\ s <= L
  <2> HIDE DEF s
  <2> QED
    BY <1>2, <1>3
<1>5. IsMessage(Piece(b, 0, s), schema)
  BY <1>1, <1>3, <1>4, MessageIs, Zenon
<1>6. i \in s .. L /\ AreDictionaries(b, s, i, schema.ids) /\ (v[s] <=> v[i])
  BY <1>1, <1>4, PassesAre, Zenon DEF v
<1>7. i \in 0 .. L /\ i \in Nat
  <2> HIDE DEF s, i
  <2> QED
    BY <1>2, <1>4, <1>6
<1>8. j \in i + 1 .. L /\ batch \in Messages
  BY <1>1, <1>7, MessageFacts, Zenon
<1>9. j \in 0 .. L /\ j \in Nat /\ i < j /\ j <= L /\ j \in s .. L
  <2> HIDE DEF s, i, j
  <2> QED
    BY <1>2, <1>4, <1>6, <1>7, <1>8
<1>10. IsMessage(Piece(b, i, j), batch)
  <2>1. HasMessage(b, i) /\ MessageAt(b, i) = batch /\ After(b, i) = j
    BY <1>1, Zenon
  <2> HIDE DEF i, j, batch
  <2> QED
    BY <1>7, <1>8, <1>9, <2>1, MessageIs, Zenon
<1>11. e \in j .. L /\ AreDictionaries(b, j, e, ids) /\ (v[j] <=> v[e])
  BY <1>9, PassesAre, Zenon DEF v
<1>12. e \in 0 .. L
  <2> HIDE DEF j, e
  <2> QED
    BY <1>2, <1>9, <1>11
<1>13. v[e]
  <2>1. v[0] <=> v[s]
    BY <1>1, <1>2, ValidFacts, EndOrMessage, Zenon DEF Turn, v
  <2>2. v[i] <=> v[j]
    BY <1>1, <1>7, ValidFacts, EndOrMessage, Zenon DEF Turn, v
  <2> QED
    BY <1>1, <1>6, <1>11, <2>1, <2>2, Zenon
<1>14. Prefix(Piece(b, e, L), 0)
  <2>1. HasEnd(b, e) /\ AtEnd(b, Start(b, e))
    BY <1>1, <1>12, <1>13, ValidFacts, EndOrMessage, Zenon DEF Turn, v
  <2> QED
    BY <1>12, <2>1, EndIs, Zenon
<1> HIDE DEF s, i, j, e, ids, schema, batch
<1>15. \E z \in j .. L, I \in SUBSET schema.ids :
         Prefix(Piece(b, z, L), 0) /\ AreDictionaries(b, j, z, I)
  BY <1>1, <1>11, <1>14, Zenon
<1>16. \E m \in Messages, x \in s .. L, y \in s .. L :
         /\ x < y
         /\ m.kind = "batch" /\ m.size <= Limit
         /\ IsMessage(Piece(b, x, y), m)
         /\ AreDictionaries(b, s, x, schema.ids)
         /\ \E z \in y .. L, I \in SUBSET schema.ids :
              Prefix(Piece(b, z, L), 0) /\ AreDictionaries(b, y, z, I)
  BY <1>1, <1>6, <1>8, <1>9, <1>10, <1>15, Zenon
<1> QED
  BY <1>1, <1>3, <1>5, <1>16, Zenon DEF IsOneBatch

\* And conversely.
LEMMA OneIsDecoded ==
  ASSUME NEW b \in Seq(Words), IsOneBatch(b)
  PROVE  DecodeBatchIpc(b)
<1> DEFINE L == Len(b)
           v == Valid(b)
<1>1. PICK schema \in Messages, s \in 1 .. L :
        /\ schema.kind = "schema" /\ IsMessage(Piece(b, 0, s), schema)
        /\ \E batch \in Messages, i \in s .. L, j \in s .. L :
             /\ i < j
             /\ batch.kind = "batch" /\ batch.size <= Limit
             /\ IsMessage(Piece(b, i, j), batch)
             /\ AreDictionaries(b, s, i, schema.ids)
             /\ \E e \in j .. L, ids \in SUBSET schema.ids :
                  Prefix(Piece(b, e, L), 0) /\ AreDictionaries(b, j, e, ids)
  BY Zenon DEF IsOneBatch
<1>2. PICK batch \in Messages, i \in s .. L, j \in s .. L :
        /\ i < j
        /\ batch.kind = "batch" /\ batch.size <= Limit
        /\ IsMessage(Piece(b, i, j), batch)
        /\ AreDictionaries(b, s, i, schema.ids)
        /\ \E e \in j .. L, ids \in SUBSET schema.ids :
             Prefix(Piece(b, e, L), 0) /\ AreDictionaries(b, j, e, ids)
  BY <1>1, Zenon
<1>3. PICK e \in j .. L, ids \in SUBSET schema.ids :
        Prefix(Piece(b, e, L), 0) /\ AreDictionaries(b, j, e, ids)
  BY <1>2, Zenon
<1>4. /\ L \in Nat /\ 0 \in Nat /\ s \in Nat /\ i \in Nat /\ j \in Nat /\ 0 < s
      /\ s <= L /\ j <= L /\ 0 \in 0 .. L /\ s \in 0 .. L /\ i \in 0 .. L /\ j \in 0 .. L
      /\ e \in 0 .. L
  OBVIOUS
<1>5. HasMessage(b, 0) /\ MessageAt(b, 0) = schema /\ After(b, 0) = s
  BY <1>1, <1>4, MessageIs, Zenon
<1>6. HasMessage(b, i) /\ MessageAt(b, i) = batch /\ After(b, i) = j
  BY <1>2, <1>4, MessageIs, Zenon
<1>7. HasEnd(b, e) /\ AtEnd(b, Start(b, e))
  BY <1>3, <1>4, EndIs, Zenon
<1>8. ~DictionaryAt(b, i) /\ ~DictionaryAt(b, e)
  <2>1. "batch" # "dictionary"
    OBVIOUS
  <2> QED
    BY <1>2, <1>6, <1>7, <2>1, EndOrMessage, Zenon DEF DictionaryAt
<1>9. Passes(b)[s].at = i /\ Passes(b)[s].ids = schema.ids
  BY <1>2, <1>4, <1>8, PassesOnly, Zenon
<1>10. Passes(b)[j].at = e /\ Passes(b)[j].ids = ids
  BY <1>3, <1>4, <1>8, PassesOnly, Zenon
<1>11. v[0]
  <2>1. v[e]
    BY <1>4, <1>7, ValidFacts, Zenon DEF Turn
  <2>2. v[j] /\ (v[s] <=> v[i])
    BY <1>4, <1>9, <1>10, <2>1, PassesAre, Zenon
  <2>3. v[i]
    BY <1>4, <1>6, <2>2, ValidFacts, Zenon DEF Turn
  <2>4. v[0] <=> v[s]
    BY <1>4, <1>5, ValidFacts, EndOrMessage, Zenon DEF Turn
  <2> QED
    BY <2>2, <2>3, <2>4, Zenon
<1>12. ValidateIpc(b)
  BY <1>11, ValidateIs, Zenon DEF IsOneBatch
<1> QED
  BY <1>1, <1>2, <1>3, <1>5, <1>6, <1>7, <1>9, <1>10, <1>12, Zenon DEF DecodeBatchIpc

\* validate_ipc()'s loop and StreamReader's in decode_batch_ipc() accept exactly the
\* payloads that are a schema, its dictionaries, one batch and the terminator, within
\* the limit before and after decoding, whatever lengths and markers they hold.
THEOREM DecodingExact ==
  ASSUME NEW bytes \in Seq(Words)
  PROVE  DecodeBatchIpc(bytes) = IsOneBatch(bytes)
<1>1. DecodeBatchIpc(bytes) <=> IsOneBatch(bytes)
  BY DecodedIsOne, OneIsDecoded, Zenon
<1>2. DecodeBatchIpc(bytes) \in BOOLEAN /\ IsOneBatch(bytes) \in BOOLEAN
  BY Zenon DEF DecodeBatchIpc, IsOneBatch
<1>3. ASSUME NEW p \in BOOLEAN, NEW q \in BOOLEAN, p <=> q
      PROVE  p = q
  BY <1>3, Zenon
<1> QED
  BY <1>1, <1>2, <1>3, Zenon

\* What steps lead to from a start, one after the other.
Leads(f, N, a, G) == f[0] = a /\ \A i \in 1 .. N : f[i] = G[<<i, f[i - 1]>>]

\* It exists.
LEMMA Recursion ==
  ASSUME NEW S, NEW a \in S, NEW G \in [Nat \X S -> S], NEW N \in Nat
  PROVE  \E f \in [0 .. N -> S] : Leads(f, N, a, G)
<1> DEFINE T == {n \in Nat : \E f \in [0 .. n -> S] : Leads(f, n, a, G)}
<1>1. 0 \in T
  <2> DEFINE f == [i \in 0 .. 0 |-> a]
  <2>1. f \in [0 .. 0 -> S] /\ Leads(f, 0, a, G)
    BY DEF Leads
  <2> QED
    BY <2>1, Zenon
<1>2. ASSUME NEW n \in Nat, n \in T
      PROVE  n + 1 \in T
  <2>1. PICK f \in [0 .. n -> S] : Leads(f, n, a, G)
    BY <1>2, Zenon
  <2> DEFINE next == G[<<n + 1, f[n]>>]
             g == [i \in 0 .. n + 1 |-> IF i = n + 1 THEN next ELSE f[i]]
  <2>2. f[n] \in S
    BY <2>1
  <2>3. next \in S
    BY <2>2
  <2> HIDE DEF next
  <2>4. g \in [0 .. n + 1 -> S]
    BY <2>1, <2>3
  <2>5. /\ g[n + 1] = next
        /\ \A i \in 0 .. n : g[i] = f[i]
    OBVIOUS
  <2> HIDE DEF g
  <2>6. ASSUME NEW i \in 1 .. n + 1
        PROVE  g[i] = G[<<i, g[i - 1]>>]
    <3>1. CASE i = n + 1
      <4>1. g[i - 1] = f[n]
        BY <2>5, <3>1
      <4> QED
        BY <2>5, <3>1, <4>1, Zenon DEF next
    <3>2. CASE i # n + 1
      <4>1. g[i] = f[i] /\ g[i - 1] = f[i - 1] /\ i \in 1 .. n
        BY <2>5, <3>2
      <4> QED
        BY <2>1, <4>1, Zenon DEF Leads
    <3> QED
      BY <3>1, <3>2, Zenon
  <2>7. Leads(g, n + 1, a, G)
    BY <2>1, <2>5, <2>6 DEF Leads
  <2> QED
    BY <2>4, <2>7
<1> HIDE DEF T
<1>3. N \in T
  BY <1>1, <1>2, Induction, Zenon
<1> QED
  BY <1>3, Zenon DEF T

--------------------------------------------------------------------------------
(* Concatenation.                                                           *)

\* Batches of rows.
Batches == Seq(Seq(Nat))

\* Concatenation is associative.
LEMMA Associative ==
  ASSUME NEW s \in Seq(Nat), NEW t \in Seq(Nat), NEW u \in Seq(Nat)
  PROVE  (s \o t) \o u = s \o (t \o u)
<1> DEFINE l == (s \o t) \o u
           r == s \o (t \o u)
<1>1. Len(s) \in Nat /\ Len(t) \in Nat /\ Len(u) \in Nat
  OBVIOUS
<1>2. /\ s \o t \in Seq(Nat) /\ Len(s \o t) = Len(s) + Len(t)
      /\ t \o u \in Seq(Nat) /\ Len(t \o u) = Len(t) + Len(u)
  OBVIOUS
<1>3. /\ l \in Seq(Nat) /\ Len(l) = Len(s) + Len(t) + Len(u)
      /\ r \in Seq(Nat) /\ Len(r) = Len(s) + Len(t) + Len(u)
  BY <1>1, <1>2
<1>4. \A i \in 1 .. Len(s) + Len(t) + Len(u) : l[i] = r[i]
  BY <1>1, <1>2
<1> HIDE DEF l, r
<1>5. l = r
  BY <1>1, <1>3, <1>4
<1> QED
  BY <1>5, Zenon DEF l, r

\* The function Concat() recurs on,
UpTo(f, batches) ==
  f = [i \in 0 .. Len(batches) |-> IF i = 0 THEN <<>> ELSE f[i - 1] \o batches[i]]

\* The concatenations of the first batches exist.
LEMMA UpToExists ==
  ASSUME NEW batches \in Batches
  PROVE  \E f : UpTo(f, batches)
<1> DEFINE N == Len(batches)
           S == Seq(Nat)
           G == [p \in Nat \X S |-> IF p[1] \in 1 .. N THEN p[2] \o batches[p[1]] ELSE <<>>]
<1>1. N \in Nat /\ \A i \in 1 .. N : batches[i] \in S
  BY DEF Batches
<1>2. G \in [Nat \X S -> S]
  <2>1. ASSUME NEW p \in Nat \X S
        PROVE  (IF p[1] \in 1 .. N THEN p[2] \o batches[p[1]] ELSE <<>>) \in S
    <3>1. CASE p[1] \in 1 .. N
      BY <1>1, <3>1
    <3>2. CASE p[1] \notin 1 .. N
      BY <3>2
    <3> QED
      BY <3>1, <3>2, Zenon
  <2> HIDE DEF N, S
  <2> QED
    BY <2>1, Zenon
<1>3. <<>> \in S
  OBVIOUS
<1>4. ASSUME NEW i \in 1 .. N, NEW s \in S
      PROVE  G[<<i, s>>] = s \o batches[i]
  <2>1. <<i, s>> \in Nat \X S /\ <<i, s>>[1] = i /\ <<i, s>>[2] = s
    BY <1>1
  <2> HIDE DEF S, N
  <2> QED
    BY <2>1, Zenon
<1> HIDE DEF G, S
<1>5. PICK f \in [0 .. N -> S] : Leads(f, N, <<>>, G)
  BY <1>1, <1>2, <1>3, Recursion, Zenon
<1>6. ASSUME NEW i \in 0 .. N
      PROVE  f[i] = IF i = 0 THEN <<>> ELSE f[i - 1] \o batches[i]
  <2>1. CASE i = 0
    BY <1>5, <2>1, Zenon DEF Leads
  <2>2. CASE i # 0
    <3>1. i \in 1 .. N /\ f[i - 1] \in S
      BY <1>1, <1>5, <2>2
    <3> QED
      BY <1>4, <1>5, <2>2, <3>1, Zenon DEF Leads
  <2> QED
    BY <2>1, <2>2, Zenon
<1>7. UpTo(f, batches)
  BY <1>5, <1>6, Zenon DEF UpTo
<1> QED
  BY <1>7, Zenon

\* Each adds a batch to the one before.
LEMMA UpToSteps ==
  ASSUME NEW batches \in Batches, NEW f, UpTo(f, batches)
  PROVE  /\ f[0] = <<>>
         /\ \A i \in Nat : i + 1 <= Len(batches) => f[i + 1] = f[i] \o batches[i + 1]
<1>1. Len(batches) \in Nat
  BY DEF Batches
<1>2. f[0] = <<>>
  BY <1>1 DEF UpTo
<1>3. ASSUME NEW i \in Nat, i + 1 <= Len(batches)
      PROVE  f[i + 1] = f[i] \o batches[i + 1]
  <2>1. i + 1 \in 0 .. Len(batches) /\ i + 1 # 0 /\ (i + 1) - 1 = i
    BY <1>1, <1>3
  <2>2. f[i + 1] = IF i + 1 = 0 THEN <<>> ELSE f[(i + 1) - 1] \o batches[i + 1]
    BY <2>1, Zenon DEF UpTo
  <2> QED
    BY <2>1, <2>2, Zenon
<1> QED
  BY <1>2, <1>3, Zenon

\* They are rows, and depend on those batches alone.
LEMMA UpToRows ==
  ASSUME NEW batches \in Batches, NEW f, UpTo(f, batches)
  PROVE  \A i \in 0 .. Len(batches) : f[i] \in Seq(Nat)
<1> DEFINE T == {n \in Nat : n <= Len(batches) => f[n] \in Seq(Nat)}
<1>1. Len(batches) \in Nat
  BY DEF Batches
<1>2. 0 \in T
  BY <1>1 DEF UpTo
<1>3. ASSUME NEW n \in Nat, n \in T
      PROVE  n + 1 \in T
  <2> SUFFICES ASSUME n + 1 <= Len(batches) PROVE f[n + 1] \in Seq(Nat)
    OBVIOUS
  <2>1. f[n] \in Seq(Nat) /\ batches[n + 1] \in Seq(Nat)
    BY <1>1, <1>3 DEF Batches
  <2>2. f[n + 1] = f[n] \o batches[n + 1]
    BY UpToSteps, Zenon
  <2> QED
    BY <2>1, <2>2
<1> HIDE DEF T
<1>4. Nat \subseteq T
  BY <1>2, <1>3, Induction, Zenon
<1> QED
  BY <1>1, <1>4 DEF T

\* Two sequences with the same first batches have the same rows in them.
LEMMA UpToAgree ==
  ASSUME NEW b \in Batches, NEW c \in Batches, NEW f, NEW g, UpTo(f, b), UpTo(g, c),
         NEW m \in Nat, m <= Len(b), m <= Len(c), \A i \in 1 .. m : b[i] = c[i]
  PROVE  f[m] = g[m]
<1> DEFINE T == {n \in Nat : n <= m => f[n] = g[n]}
<1>1. Len(b) \in Nat /\ Len(c) \in Nat
  BY DEF Batches
<1>2. 0 \in T
  BY <1>1 DEF UpTo
<1>3. ASSUME NEW n \in Nat, n \in T
      PROVE  n + 1 \in T
  <2> SUFFICES ASSUME n + 1 <= m PROVE f[n + 1] = g[n + 1]
    OBVIOUS
  <2>1. f[n] = g[n] /\ b[n + 1] = c[n + 1]
    BY <1>3
  <2>2. n + 1 <= Len(b) /\ n + 1 <= Len(c)
    BY <1>1
  <2>3. f[n + 1] = f[n] \o b[n + 1] /\ g[n + 1] = g[n] \o c[n + 1]
    BY <2>2, UpToSteps, Zenon
  <2> QED
    BY <2>1, <2>3, Zenon
<1> HIDE DEF T
<1>4. m \in T
  BY <1>2, <1>3, Induction, Zenon
<1> QED
  BY <1>4 DEF T

\* Concat() is the last of them.
LEMMA ConcatIsLast ==
  ASSUME NEW batches \in Batches, NEW f, UpTo(f, batches)
  PROVE  Concat(batches) = f[Len(batches)] /\ Concat(batches) \in Seq(Nat)
<1> DEFINE g == CHOOSE h : UpTo(h, batches)
<1>1. Concat(batches) = g[Len(batches)]
  BY Zenon DEF Concat, UpTo
<1>2. UpTo(g, batches)
  BY Zenon
<1>3. Len(batches) \in Nat
  BY DEF Batches
<1> HIDE DEF g
<1>4. g[Len(batches)] = f[Len(batches)]
  BY <1>2, <1>3, UpToAgree
<1> QED
  BY <1>1, <1>3, <1>4, UpToRows

\* No batches have no rows.
LEMMA ConcatEmpty == Concat(<<>>) = <<>>
<1>1. <<>> \in Batches /\ Len(<<>>) = 0
  BY DEF Batches
<1>2. PICK f : UpTo(f, <<>>)
  BY <1>1, UpToExists, Zenon
<1>3. f[0] = <<>>
  BY <1>1, <1>2 DEF UpTo
<1> QED
  BY <1>1, <1>2, <1>3, ConcatIsLast, Zenon

\* A batch at the end leaves the others where they were,
LEMMA AppendFacts ==
  ASSUME NEW b \in Batches, NEW x \in Seq(Nat)
  PROVE  /\ Append(b, x) \in Batches /\ Len(b) \in Nat /\ Len(Append(b, x)) = Len(b) + 1
         /\ Append(b, x)[Len(b) + 1] = x /\ \A i \in 1 .. Len(b) : Append(b, x)[i] = b[i]
BY DEF Batches

\* A batch at the end adds its rows at the end,
LEMMA ConcatAppend ==
  ASSUME NEW batches \in Batches, NEW rows \in Seq(Nat)
  PROVE  /\ Append(batches, rows) \in Batches
         /\ Concat(Append(batches, rows)) = Concat(batches) \o rows
<1> DEFINE more == Append(batches, rows)
           n == Len(batches)
<1>1. /\ more \in Batches /\ n \in Nat /\ Len(more) = n + 1 /\ more[n + 1] = rows
      /\ \A i \in 1 .. n : batches[i] = more[i]
  BY DEF Batches
<1> HIDE DEF more, n
<1>2. PICK f : UpTo(f, batches)
  BY UpToExists, Zenon
<1>3. PICK g : UpTo(g, more)
  BY <1>1, UpToExists, Zenon
<1>4. f[n] = g[n]
  BY <1>1, <1>2, <1>3, UpToAgree, SMTT(30) DEF n
<1>5. g[n + 1] = g[n] \o more[n + 1]
  <2>1. n + 1 <= Len(more)
    BY <1>1
  <2> QED
    BY <1>1, <1>3, <2>1, UpToSteps, Zenon
<1>6. Concat(more) = g[n + 1] /\ Concat(batches) = f[n]
  BY <1>1, <1>2, <1>3, ConcatIsLast, Zenon DEF n
<1> QED
  BY <1>1, <1>4, <1>5, <1>6, Zenon DEF more

\* and the rows of the first batch come first.
LEMMA ConcatHead ==
  ASSUME NEW batches \in Batches, batches # <<>>
  PROVE  /\ Head(batches) \in Seq(Nat) /\ Tail(batches) \in Batches
         /\ Concat(batches) = Head(batches) \o Concat(Tail(batches))
<1> DEFINE b == batches
           c == Tail(batches)
           n == Len(c)
<1>1. /\ Head(b) = b[1] /\ b[1] \in Seq(Nat) /\ c \in Batches /\ n \in Nat
      /\ Len(b) = n + 1 /\ \A i \in 1 .. n : c[i] = b[i + 1] /\ c[i] \in Seq(Nat)
  BY DEF Batches
<1> HIDE DEF b, c, n
<1>2. PICK f : UpTo(f, b)
  BY UpToExists, Zenon DEF b
<1>3. PICK g : UpTo(g, c)
  BY <1>1, UpToExists, Zenon
<1>4. f[0] = <<>> /\ g[0] = <<>> /\ f[1] = f[0] \o b[1]
  <2>1. 0 + 1 <= Len(b) /\ 0 \in Nat /\ b \in Batches
    BY <1>1 DEF b
  <2>2. f[0] = <<>> /\ g[0] = <<>> /\ f[0 + 1] = f[0] \o b[0 + 1]
    BY <1>1, <1>2, <1>3, <2>1, UpToSteps, Zenon
  <2> QED
    BY <2>2
<1> DEFINE P(i) == i <= n => f[i + 1] = b[1] \o g[i]
           T == {i \in Nat : P(i)}
<1>5. P(0)
  <2>1. <<>> \o b[1] = b[1] /\ b[1] \o <<>> = b[1]
    BY <1>1
  <2> QED
    BY <1>4, <2>1
<1>6. ASSUME NEW i \in Nat, P(i)
      PROVE  P(i + 1)
  <2> SUFFICES ASSUME i + 1 <= n PROVE f[(i + 1) + 1] = b[1] \o g[i + 1]
    BY Zenon
  <2>0. i <= n
    BY <1>1
  <2>1. f[i + 1] = b[1] \o g[i]
    BY <1>6, <2>0, Zenon
  <2>2. (i + 1) + 1 <= Len(b) /\ i + 1 \in Nat
    BY <1>1
  <2>3. f[(i + 1) + 1] = f[i + 1] \o b[(i + 1) + 1]
    BY <1>2, <2>2, UpToSteps, Zenon DEF b
  <2>4. g[i + 1] = g[i] \o c[i + 1]
    BY <1>1, <1>3, UpToSteps, Zenon DEF n
  <2>5. c[i + 1] \in Seq(Nat) /\ c[i + 1] = b[(i + 1) + 1]
    BY <1>1
  <2>6. g[i] \in Seq(Nat)
    BY <1>1, <1>3, UpToRows DEF n
  <2>7. (b[1] \o g[i]) \o c[i + 1] = b[1] \o (g[i] \o c[i + 1])
    BY <1>1, <2>5, <2>6, Associative, ZenonT(30)
  <2> QED
    BY <2>1, <2>3, <2>4, <2>5, <2>7, Zenon
<1> HIDE DEF P
<1>7. 0 \in T /\ \A i \in Nat : i \in T => i + 1 \in T
  BY <1>5, <1>6
<1> HIDE DEF T
<1>9. n \in T
  BY <1>1, <1>7, Induction, Zenon
<1>10. f[n + 1] = b[1] \o g[n]
  <2>1. P(n) /\ n <= n
    BY <1>1, <1>9 DEF T
  <2> QED
    BY <2>1, Zenon DEF P
<1>8. Concat(b) = f[n + 1] /\ Concat(c) = g[n]
  BY <1>1, <1>2, <1>3, ConcatIsLast, Zenon DEF b, n
<1> QED
  BY <1>1, <1>8, <1>10, Zenon DEF b, c

--------------------------------------------------------------------------------
(* The filter.                                                              *)

\* The function Only() recurs on,
Keeps(f, rows, set) ==
  f = [i \in 0 .. Len(rows) |-> IF i = 0 THEN <<>>
                                ELSE IF rows[i] \in set THEN Append(f[i - 1], rows[i])
                                ELSE f[i - 1]]

\* What is kept of the first rows exists,
LEMMA KeepsExists ==
  ASSUME NEW rows \in Seq(Nat), NEW set
  PROVE  \E f \in [0 .. Len(rows) -> Seq(Nat)] : Keeps(f, rows, set)
<1> DEFINE N == Len(rows)
           S == Seq(Nat)
           Step(i, s) == IF rows[i] \in set THEN Append(s, rows[i]) ELSE s
           G == [p \in Nat \X S |-> IF p[1] \in 1 .. N THEN Step(p[1], p[2]) ELSE <<>>]
<1>1. N \in Nat /\ \A i \in 1 .. N : rows[i] \in Nat
  OBVIOUS
<1>2. <<>> \in S /\ \A i \in 1 .. N, s \in S : Step(i, s) \in S
  BY <1>1
<1> HIDE DEF N, S, Step
<1>3. G \in [Nat \X S -> S]
  BY <1>2, Zenon
<1>4. ASSUME NEW i \in 1 .. N, NEW s \in S
      PROVE  G[<<i, s>>] = Step(i, s)
  <2>1. <<i, s>> \in Nat \X S /\ <<i, s>>[1] = i /\ <<i, s>>[2] = s
    BY <1>1
  <2> QED
    BY <2>1, Zenon
<1> HIDE DEF G
<1>5. PICK f \in [0 .. N -> S] : Leads(f, N, <<>>, G)
  BY <1>1, <1>2, <1>3, Recursion, Zenon
<1>6. ASSUME NEW i \in 0 .. N
      PROVE  f[i] = IF i = 0 THEN <<>> ELSE Step(i, f[i - 1])
  <2>1. CASE i = 0
    BY <1>5, <2>1, Zenon DEF Leads
  <2>2. CASE i # 0
    <3>1. i \in 1 .. N /\ f[i - 1] \in S
      BY <1>1, <1>5, <2>2
    <3> QED
      BY <1>4, <1>5, <2>2, <3>1, Zenon DEF Leads
  <2> QED
    BY <2>1, <2>2, Zenon
<1>7. Keeps(f, rows, set)
  BY <1>5, <1>6, Zenon DEF Keeps, Step, N
<1> QED
  BY <1>5, <1>7, Zenon DEF N, S

\* one row of it,
KeepsRow(f, rows, set, i) ==
  /\ rows[i + 1] \in set => f[i + 1] = Append(f[i], rows[i + 1])
  /\ rows[i + 1] \notin set => f[i + 1] = f[i]

\* row by row.
LEMMA KeepsSteps ==
  ASSUME NEW rows \in Seq(Nat), NEW set, NEW f, Keeps(f, rows, set)
  PROVE  /\ f[0] = <<>>
         /\ \A i \in Nat : i + 1 <= Len(rows) => KeepsRow(f, rows, set, i)
<1>1. Len(rows) \in Nat
  OBVIOUS
<1>2. f[0] = <<>>
  BY <1>1 DEF Keeps
<1>3. ASSUME NEW i \in Nat, i + 1 <= Len(rows)
      PROVE  KeepsRow(f, rows, set, i)
  <2>1. i + 1 \in 0 .. Len(rows) /\ i + 1 # 0 /\ (i + 1) - 1 = i
    BY <1>1, <1>3
  <2>2. f[i + 1] = IF i + 1 = 0 THEN <<>>
                   ELSE IF rows[i + 1] \in set THEN Append(f[(i + 1) - 1], rows[i + 1])
                   ELSE f[(i + 1) - 1]
    BY <2>1, Zenon DEF Keeps
  <2> QED
    BY <2>1, <2>2, Zenon DEF KeepsRow
<1> QED
  BY <1>2, <1>3, Zenon

\* and the one it is.
KeptOf(rows, set) == CHOOSE f : Keeps(f, rows, set)

\* Only() is the last of it.
LEMMA OnlyIsLast ==
  ASSUME NEW rows \in Seq(Nat), NEW set
  PROVE  /\ Keeps(KeptOf(rows, set), rows, set)
         /\ Only(rows, set) = KeptOf(rows, set)[Len(rows)]
<1>1. Keeps(KeptOf(rows, set), rows, set)
  BY KeepsExists, Zenon DEF KeptOf
<1>2. Only(rows, set) = KeptOf(rows, set)[Len(rows)]
  BY Zenon DEF Only, KeptOf, Keeps
<1> QED
  BY <1>1, <1>2, Zenon

\* The rows that are kept are rows.
LEMMA KeptRows ==
  ASSUME NEW rows \in Seq(Nat), NEW set, NEW f, Keeps(f, rows, set)
  PROVE  \A i \in 0 .. Len(rows) : f[i] \in Seq(Nat)
<1> DEFINE P(n) == n <= Len(rows) => f[n] \in Seq(Nat)
           T == {n \in Nat : P(n)}
<1>1. Len(rows) \in Nat
  OBVIOUS
<1>2. P(0)
  <2>1. f[0] = <<>>
    BY KeepsSteps, Zenon
  <2> QED
    BY <2>1
<1>3. ASSUME NEW n \in Nat, P(n)
      PROVE  P(n + 1)
  <2> SUFFICES ASSUME n + 1 <= Len(rows) PROVE f[n + 1] \in Seq(Nat)
    BY Zenon
  <2>1. f[n] \in Seq(Nat) /\ rows[n + 1] \in Nat
    BY <1>1, <1>3
  <2>2. KeepsRow(f, rows, set, n)
    BY KeepsSteps, Zenon
  <2>3. Append(f[n], rows[n + 1]) \in Seq(Nat)
    BY <2>1
  <2> QED
    BY <2>1, <2>2, <2>3, Zenon DEF KeepsRow
<1> HIDE DEF P
<1>4. 0 \in T /\ \A n \in Nat : n \in T => n + 1 \in T
  BY <1>2, <1>3
<1> HIDE DEF T
<1>5. Nat \subseteq T
  BY <1>4, Induction, Zenon
<1>6. ASSUME NEW i \in 0 .. Len(rows)
      PROVE  f[i] \in Seq(Nat)
  <2>1. i \in T /\ i <= Len(rows)
    BY <1>1, <1>5
  <2> QED
    BY <2>1, Zenon DEF P, T
<1> QED
  BY <1>6, Zenon

\* What is kept of rows are rows.
LEMMA OnlyRows ==
  ASSUME NEW rows \in Seq(Nat), NEW set
  PROVE  Only(rows, set) \in Seq(Nat)
<1>1. Len(rows) \in 0 .. Len(rows)
  OBVIOUS
<1> QED
  BY <1>1, OnlyIsLast, KeptRows, Zenon

--------------------------------------------------------------------------------
(* The runs of rows.                                                        *)

\* The rows of a batch that is not empty.
Rows == Seq(Nat) \ {<<>>}

\* The scan of next(): where it starts,
ScanStart == [start |-> None, runs |-> <<>>]

\* what a row does to it,
ScanStep(batch, i, s) ==
  IF batch[i] \in Codes
    THEN IF s.start = None THEN s
         ELSE [start |-> None, runs |-> Append(s.runs, SubSeq(batch, s.start[1], i - 1))]
    ELSE IF s.start = None THEN [s EXCEPT !.start = Some(i)] ELSE s

\* the function Runs() recurs on,
Scans(f, batch) ==
  f = [i \in 0 .. Len(batch) |-> IF i = 0 THEN ScanStart ELSE ScanStep(batch, i, f[i - 1])]

\* and the one it is.
ScanOf(batch) == CHOOSE f : Scans(f, batch)

\* The scan exists,
LEMMA ScanExists ==
  ASSUME NEW batch \in Seq(Nat)
  PROVE  \E f : Scans(f, batch)
<1> DEFINE N == Len(batch)
           S == [start : {None} \cup {Some(k) : k \in Nat \ {0}}, runs : Batches]
           G == [p \in Nat \X S |-> IF p[1] \in 1 .. N THEN ScanStep(batch, p[1], p[2])
                                    ELSE ScanStart]
<1>1. N \in Nat
  OBVIOUS
<1>2. ScanStart \in S
  BY DEF ScanStart, Batches
<1>3. ASSUME NEW i \in 1 .. N, NEW s \in S
      PROVE  ScanStep(batch, i, s) \in S
  <2>1. s.start \in {None} \cup {Some(k) : k \in Nat \ {0}} /\ s.runs \in Batches
    BY Zenon
  <2>2. CASE batch[i] \in Codes /\ s.start # None
    <3>1. PICK k \in Nat \ {0} : s.start = Some(k)
      BY <2>1, <2>2, Zenon
    <3>2. i - 1 \in Nat /\ i - 1 <= Len(batch) /\ s.start[1] = k
      BY <1>1, <3>1 DEF Some
    <3>3. Append(s.runs, SubSeq(batch, s.start[1], i - 1)) \in Batches
      BY <2>1, <3>2, Slice, ConcatAppend, Zenon
    <3>4. ScanStep(batch, i, s)
            = [start |-> None, runs |-> Append(s.runs, SubSeq(batch, s.start[1], i - 1))]
      BY <2>2, Zenon DEF ScanStep
    <3> QED
      BY <3>3, <3>4
  <2>3. CASE batch[i] \notin Codes /\ s.start = None
    <3>1. ScanStep(batch, i, s) = [s EXCEPT !.start = Some(i)]
      BY <2>3, Zenon DEF ScanStep
    <3>2. Some(i) \in {Some(k) : k \in Nat \ {0}}
      BY <1>1
    <3> QED
      BY <3>1, <3>2, Zenon
  <2>4. CASE ~(batch[i] \in Codes /\ s.start # None) /\ ~(batch[i] \notin Codes /\ s.start = None)
    <3>1. ScanStep(batch, i, s) = s
      BY <2>4, Zenon DEF ScanStep
    <3> QED
      BY <3>1, Zenon
  <2> QED
    BY <2>2, <2>3, <2>4, Zenon
<1> HIDE DEF N, S
<1>4. G \in [Nat \X S -> S]
  BY <1>2, <1>3, Zenon
<1>5. ASSUME NEW i \in 1 .. N, NEW s \in S
      PROVE  G[<<i, s>>] = ScanStep(batch, i, s)
  <2>1. <<i, s>> \in Nat \X S /\ <<i, s>>[1] = i /\ <<i, s>>[2] = s
    BY <1>1
  <2> QED
    BY <2>1, Zenon
<1> HIDE DEF G
<1>6. PICK f \in [0 .. N -> S] : Leads(f, N, ScanStart, G)
  BY <1>1, <1>2, <1>4, Recursion, Zenon
<1>7. ASSUME NEW i \in 0 .. N
      PROVE  f[i] = IF i = 0 THEN ScanStart ELSE ScanStep(batch, i, f[i - 1])
  <2>1. CASE i = 0
    BY <1>6, <2>1, Zenon DEF Leads
  <2>2. CASE i # 0
    <3>1. i \in 1 .. N /\ f[i - 1] \in S
      BY <1>1, <1>6, <2>2
    <3> QED
      BY <1>5, <1>6, <2>2, <3>1, Zenon DEF Leads
  <2> QED
    BY <2>1, <2>2, Zenon
<1>8. Scans(f, batch)
  BY <1>6, <1>7, Zenon DEF Scans, N
<1> QED
  BY <1>8, Zenon

\* row by row.
LEMMA ScanSteps ==
  ASSUME NEW batch \in Seq(Nat), NEW f, Scans(f, batch)
  PROVE  /\ f[0] = ScanStart
         /\ \A i \in Nat : i + 1 <= Len(batch) => f[i + 1] = ScanStep(batch, i + 1, f[i])
<1>1. Len(batch) \in Nat
  OBVIOUS
<1>2. f[0] = ScanStart
  BY <1>1 DEF Scans
<1>3. ASSUME NEW i \in Nat, i + 1 <= Len(batch)
      PROVE  f[i + 1] = ScanStep(batch, i + 1, f[i])
  <2>1. i + 1 \in 0 .. Len(batch) /\ i + 1 # 0 /\ (i + 1) - 1 = i
    BY <1>1, <1>3
  <2>2. f[i + 1] = IF i + 1 = 0 THEN ScanStart ELSE ScanStep(batch, i + 1, f[(i + 1) - 1])
    BY <2>1, Zenon DEF Scans
  <2> QED
    BY <2>1, <2>2, Zenon
<1> QED
  BY <1>2, <1>3, Zenon

\* Runs() is what the scan ends with, and the run that is open then.
LEMMA RunsFromScan ==
  ASSUME NEW batch \in Seq(Nat)
  PROVE  /\ Scans(ScanOf(batch), batch)
         /\ LET final == ScanOf(batch)[Len(batch)]
            IN  Runs(batch) = IF final.start = None THEN final.runs
                              ELSE Append(final.runs, SubSeq(batch, final.start[1], Len(batch)))
<1>1. Scans(ScanOf(batch), batch)
  BY ScanExists, Zenon DEF ScanOf
<1>2. LET final == ScanOf(batch)[Len(batch)]
      IN  Runs(batch) = IF final.start = None THEN final.runs
                        ELSE Append(final.runs, SubSeq(batch, final.start[1], Len(batch)))
  BY Zenon DEF Runs, ScanOf, Scans, ScanStep, ScanStart
<1> QED
  BY <1>1, <1>2, Zenon

\* What the scan has found after i rows: whole runs, none of them empty, and the
\* rows of the run that is open.
Found(s, batch, i, kept) ==
  /\ s \in [start : Option(Nat), runs : Seq(Rows)]
  /\ \/ s.start = None /\ Concat(s.runs) = kept
     \/ \E k \in 1 .. i :
          s.start = Some(k) /\ Concat(s.runs) \o SubSeq(batch, k, i) = kept

\* Batches that are not empty are batches.
LEMMA RowsAreBatches == Seq(Rows) \subseteq Batches
BY DEF Rows, Batches

\* The end of a run.
LEMMA RunEnds ==
  ASSUME NEW found \in Seq(Rows), NEW batch \in Seq(Nat), NEW k \in Nat \ {0}, NEW n \in Nat,
         k <= n, n <= Len(batch)
  PROVE  /\ Append(found, SubSeq(batch, k, n)) \in Seq(Rows)
         /\ Concat(Append(found, SubSeq(batch, k, n))) = Concat(found) \o SubSeq(batch, k, n)
<1>1. SubSeq(batch, k, n) \in Seq(Nat) /\ SubSeq(batch, k, n) # <<>>
  BY Slice, Zenon
<1>2. found \in Batches
  BY RowsAreBatches, Zenon
<1>3. SubSeq(batch, k, n) \in Rows
  BY <1>1, Zenon DEF Rows
<1>4. Append(found, SubSeq(batch, k, n)) \in Seq(Rows)
  BY <1>3
<1>5. Concat(Append(found, SubSeq(batch, k, n))) = Concat(found) \o SubSeq(batch, k, n)
  BY <1>1, <1>2, ConcatAppend, Zenon
<1> QED
  BY <1>4, <1>5, Zenon

\* A row is found as it is kept.
LEMMA FoundStep ==
  ASSUME NEW batch \in Seq(Nat), NEW s, NEW i \in Nat, i + 1 <= Len(batch),
         NEW kept \in Seq(Nat), Found(s, batch, i, kept)
  PROVE  Found(ScanStep(batch, i + 1, s), batch, i + 1,
               IF batch[i + 1] \in Nat \ Codes THEN Append(kept, batch[i + 1]) ELSE kept)
<1> DEFINE x == batch[i + 1]
           t == ScanStep(batch, i + 1, s)
           more == IF x \in Nat \ Codes THEN Append(kept, x) ELSE kept
<1>1. x \in Nat /\ Len(batch) \in Nat /\ (i + 1) - 1 = i
  OBVIOUS
<1>0. s \in [start : Option(Nat), runs : Seq(Rows)]
  BY Zenon DEF Found
<1>2. s.runs \in Seq(Rows) /\ s.runs \in Batches
  BY <1>0, RowsAreBatches, Zenon
<1>3. Concat(s.runs) \in Seq(Nat)
  BY <1>2, UpToExists, ConcatIsLast, Zenon
<1>4. CASE x \in Codes /\ s.start = None
  <2>1. t = s /\ more = kept
    BY <1>4, Zenon DEF ScanStep
  <2>2. s.start = None /\ Concat(s.runs) = kept
    BY <1>4 DEF Found, Some, None
  <2> QED
    BY <1>0, <2>1, <2>2, Zenon DEF Found
<1>5. CASE x \in Codes /\ s.start # None
  <2>1. PICK k \in 1 .. i : s.start = Some(k) /\ Concat(s.runs) \o SubSeq(batch, k, i) = kept
    BY <1>5, Zenon DEF Found
  <2>2. s.start[1] = k
    BY <2>1 DEF Some
  <2>3. t = [start |-> None, runs |-> Append(s.runs, SubSeq(batch, k, i))] /\ more = kept
    <3>1. t = [start |-> None, runs |-> Append(s.runs, SubSeq(batch, s.start[1], (i + 1) - 1))]
      BY <1>5, Zenon DEF ScanStep
    <3>2. more = kept
      BY <1>5, Zenon
    <3> QED
      BY <1>1, <2>2, <3>1, <3>2, Zenon
  <2>4. k \in Nat \ {0} /\ k <= i /\ i <= Len(batch)
    BY <1>1, SMTT(30)
  <2>5. /\ Append(s.runs, SubSeq(batch, k, i)) \in Seq(Rows)
        /\ Concat(Append(s.runs, SubSeq(batch, k, i))) = kept
    BY <1>2, <2>1, <2>4, RunEnds, ZenonT(30)
  <2> HIDE DEF t, more
  <2>6. /\ t.start = None /\ t.runs = Append(s.runs, SubSeq(batch, k, i))
        /\ t \in [start : Option(Nat), runs : Seq(Rows)]
    BY <2>3, <2>5, Zenon DEF Option
  <2>7. Found(t, batch, i + 1, more)
    BY <2>3, <2>5, <2>6, Zenon DEF Found
  <2> QED
    BY <2>7, Zenon DEF t, more
<1>6. CASE x \notin Codes
  <2>0. more = Append(kept, x)
    BY <1>1, <1>6, Zenon
  <2> HIDE DEF more
  <2>1. more = kept \o <<x>> /\ <<x>> \in Seq(Nat)
    BY <1>1, <2>0, SMTT(30)
  <2>2. CASE s.start = None
    <3>1. t = [s EXCEPT !.start = Some(i + 1)]
      BY <1>6, <2>2, Zenon DEF ScanStep
    <3>2. Concat(s.runs) = kept
      BY <2>2 DEF Found, Some, None
    <3>3. SubSeq(batch, i + 1, i + 1) = <<x>>
      <4> DEFINE l == SubSeq(batch, i + 1, i + 1)
                 r == <<x>>
      <4>1. l \in Seq(Nat) /\ Len(l) = 1 /\ l[1] = x
        BY <1>1
      <4>2. r \in Seq(Nat) /\ Len(r) = 1 /\ r[1] = x
        BY <1>1
      <4> HIDE DEF l, r
      <4>3. l = r
        BY <4>1, <4>2, SameRows, SMTT(30)
      <4> QED
        BY <4>3, Zenon DEF l, r
    <3> HIDE DEF t, x
    <3>4. /\ t.start = Some(i + 1) /\ t.runs = s.runs
          /\ t \in [start : Option(Nat), runs : Seq(Rows)]
      <4>1. Some(i + 1) \in Option(Nat)
        BY SMTT(30) DEF Option
      <4> QED
        BY <1>0, <3>1, <4>1, Zenon
    <3>5. i + 1 \in 1 .. i + 1
      OBVIOUS
    <3>6. Found(t, batch, i + 1, more)
      BY <2>1, <3>2, <3>3, <3>4, <3>5, Zenon DEF Found
    <3> QED
      BY <3>6, Zenon DEF t, more, x
  <2>3. CASE s.start # None
    <3>1. PICK k \in 1 .. i : s.start = Some(k) /\ Concat(s.runs) \o SubSeq(batch, k, i) = kept
      BY <2>3, Zenon DEF Found
    <3>2. t = s
      BY <1>6, <2>3, Zenon DEF ScanStep
    <3>3. k \in Nat \ {0} /\ i <= Len(batch) /\ k <= i + 1 /\ k \in 1 .. i + 1
      BY <1>1
    <3>4. /\ SubSeq(batch, k, i) \in Seq(Nat)
          /\ SubSeq(batch, k, i + 1) = SubSeq(batch, k, i) \o <<x>>
      BY <3>3, Slice, Zenon
    <3>5. Concat(s.runs) \o SubSeq(batch, k, i + 1) = more
      <4>1. (Concat(s.runs) \o SubSeq(batch, k, i)) \o <<x>>
              = Concat(s.runs) \o (SubSeq(batch, k, i) \o <<x>>)
        BY <1>3, <2>1, <3>4, Associative, ZenonT(30)
      <4> QED
        BY <2>1, <3>1, <3>4, <4>1, Zenon
    <3>6. Found(t, batch, i + 1, more)
      BY <1>0, <3>1, <3>2, <3>3, <3>5, Zenon DEF Found
    <3> QED
      BY <3>6, Zenon DEF more
  <2> QED
    BY <2>2, <2>3, Zenon
<1> QED
  BY <1>4, <1>5, <1>6, Zenon

\* However the driver's rows are spread over a batch, the runs are the other rows, in
\* order and each once, and no run is empty.
LEMMA RunsExact ==
  ASSUME NEW batch \in Seq(Nat)
  PROVE  Runs(batch) \in Seq(Rows) /\ Concat(Runs(batch)) = Only(batch, Nat \ Codes)
<1> DEFINE N == Len(batch)
           set == Nat \ Codes
           f == ScanOf(batch)
           h == KeptOf(batch, set)
           P(i) == i <= N => Found(f[i], batch, i, h[i])
           T == {i \in Nat : P(i)}
<1> HIDE DEF set, f, h
<1>1. N \in Nat
  OBVIOUS
<1>2. Scans(f, batch) /\ Keeps(h, batch, set)
  BY RunsFromScan, OnlyIsLast, Zenon DEF f, h
<1>3. P(0)
  <2>1. f[0] = ScanStart /\ h[0] = <<>>
    BY <1>2, ScanSteps, KeepsSteps, Zenon
  <2>2. ScanStart \in [start : Option(Nat), runs : Seq(Rows)]
    BY DEF ScanStart, Option
  <2>3. ScanStart.start = None /\ ScanStart.runs = <<>>
    BY Zenon DEF ScanStart
  <2>4. Found(ScanStart, batch, 0, <<>>)
    BY <2>2, <2>3, ConcatEmpty, Zenon DEF Found
  <2> QED
    BY <2>1, <2>4, Zenon
<1>4. ASSUME NEW i \in Nat, P(i)
      PROVE  P(i + 1)
  <2> SUFFICES ASSUME i + 1 <= N PROVE Found(f[i + 1], batch, i + 1, h[i + 1])
    BY Zenon
  <2>1. i <= N /\ i \in 0 .. Len(batch)
    BY <1>1
  <2>2. Found(f[i], batch, i, h[i])
    BY <1>4, <2>1, Zenon
  <2>3. h[i] \in Seq(Nat)
    BY <1>2, <2>1, KeptRows, Zenon
  <2>4. f[i + 1] = ScanStep(batch, i + 1, f[i]) /\ KeepsRow(h, batch, set, i)
    BY <1>2, ScanSteps, KeepsSteps, Zenon
  <2>5. h[i + 1] = IF batch[i + 1] \in Nat \ Codes THEN Append(h[i], batch[i + 1]) ELSE h[i]
    BY <2>4, Zenon DEF KeepsRow, set
  <2> QED
    BY <2>2, <2>3, <2>4, <2>5, FoundStep, Zenon
<1> HIDE DEF P
<1>5. 0 \in T /\ \A i \in Nat : i \in T => i + 1 \in T
  BY <1>3, <1>4
<1> HIDE DEF T
<1>6. N \in T
  BY <1>1, <1>5, Induction, Zenon
<1>7. Found(f[N], batch, N, h[N])
  <2>1. N <= N
    BY <1>1
  <2> QED
    BY <1>6, <2>1, Zenon DEF P, T
<1>8. Only(batch, Nat \ Codes) = h[N]
  BY OnlyIsLast, Zenon DEF h, set
<1> DEFINE s == f[N]
<1>9. Runs(batch) = IF s.start = None THEN s.runs
                    ELSE Append(s.runs, SubSeq(batch, s.start[1], N))
  BY RunsFromScan, Zenon DEF f
<1>10. s.runs \in Seq(Rows)
  BY <1>7, Zenon DEF Found
<1> HIDE DEF s
<1>11. CASE s.start = None
  <2>1. Concat(s.runs) = h[N]
    BY <1>7, <1>11 DEF Found, Some, None, s
  <2> QED
    BY <1>8, <1>9, <1>10, <1>11, <2>1, Zenon
<1>12. CASE s.start # None
  <2>1. PICK k \in 1 .. N : s.start = Some(k) /\ Concat(s.runs) \o SubSeq(batch, k, N) = h[N]
    BY <1>7, <1>12, Zenon DEF Found, s
  <2>2. s.start[1] = k /\ k \in Nat \ {0} /\ k <= N
    BY <1>1, <2>1 DEF Some
  <2>3. Runs(batch) = Append(s.runs, SubSeq(batch, k, N))
    BY <1>9, <1>12, <2>2, Zenon
  <2>4. N <= Len(batch)
    BY <1>1
  <2>5. /\ Append(s.runs, SubSeq(batch, k, N)) \in Seq(Rows)
        /\ Concat(Append(s.runs, SubSeq(batch, k, N))) = Concat(s.runs) \o SubSeq(batch, k, N)
    BY <1>1, <1>10, <2>2, <2>4, RunEnds, ZenonT(30)
  <2> QED
    BY <1>8, <2>1, <2>3, <2>5, Zenon
<1> QED
  BY <1>11, <1>12, Zenon

--------------------------------------------------------------------------------
(* The complete answer.                                                     *)

\* A beginning of a sequence.
LEMMA Beginning ==
  ASSUME NEW s \in Seq(Nat), NEW t \in Seq(Nat)
  PROVE  Len(s) <= Len(s \o t) /\ SubSeq(s \o t, 1, Len(s)) = s
<1> DEFINE c == s \o t
           l == SubSeq(c, 1, Len(s))
<1>1. /\ c \in Seq(Nat) /\ Len(c) = Len(s) + Len(t) /\ Len(s) \in Nat /\ Len(t) \in Nat
      /\ \A i \in 1 .. Len(s) : c[i] = s[i]
  OBVIOUS
<1> HIDE DEF c
<1>2. l \in Seq(Nat) /\ Len(l) = Len(s) /\ \A i \in 1 .. Len(s) : l[i] = c[i]
  BY <1>1, SMTT(30)
<1> HIDE DEF l
<1>3. l = s
  BY <1>1, <1>2, SameRows, Zenon
<1> QED
  BY <1>1, <1>3 DEF c, l

\* The rows of the first n batches that are not about the driver,
NotOwn(ct, n) == [i \in 1 .. n |-> Only(ct[i], Nat \ Codes)]

\* and the answer made of them, for codes cs and contents ct.
CompleteOf(cs, ct, n) == OwnRows(cs) \o Concat(NotOwn(ct, n))

\* The driver's rows are rows,
LEMMA OwnRowsAreRows ==
  ASSUME NEW cs
  PROVE  OwnRows(cs) \in Seq(Nat)
BY InfoAssumption, OnlyRows, Zenon DEF OwnRows

\* and the others are in batches.
LEMMA OthersAreBatches ==
  ASSUME NEW ct \in [1 .. MaxBatches -> Seq(Nat)], NEW n \in 0 .. MaxBatches
  PROVE  NotOwn(ct, n) \in Batches /\ Len(NotOwn(ct, n)) = n
<1>1. n \in Nat /\ \A i \in 1 .. n : ct[i] \in Seq(Nat)
  BY CursorAssumption
<1>2. \A i \in 1 .. n : Only(ct[i], Nat \ Codes) \in Seq(Nat)
  BY <1>1, OnlyRows, Zenon
<1> DEFINE b == NotOwn(ct, n)
<1>3. b \in [1 .. n -> Seq(Nat)]
  BY <1>2, Zenon DEF NotOwn
<1> HIDE DEF b
<1>4. b \in Batches /\ Len(b) = n
  BY <1>1, <1>3 DEF Batches
<1> QED
  BY <1>4, Zenon DEF b

\* Before the first batch the driver's own rows are all.
LEMMA CompleteAtFirst ==
  ASSUME NEW cs, NEW ct
  PROVE  CompleteOf(cs, ct, 0) = OwnRows(cs)
<1>1. NotOwn(ct, 0) = <<>>
  BY DEF NotOwn
<1>2. OwnRows(cs) \o <<>> = OwnRows(cs)
  BY OwnRowsAreRows
<1> QED
  BY <1>1, <1>2, ConcatEmpty, Zenon DEF CompleteOf

\* Each batch adds the rows of it that are not about the driver.
LEMMA CompleteNext ==
  ASSUME NEW cs, NEW ct \in [1 .. MaxBatches -> Seq(Nat)], NEW n \in Nat, n + 1 <= MaxBatches
  PROVE  /\ CompleteOf(cs, ct, n) \in Seq(Nat)
         /\ Only(ct[n + 1], Nat \ Codes) \in Seq(Nat)
         /\ CompleteOf(cs, ct, n + 1) = CompleteOf(cs, ct, n) \o Only(ct[n + 1], Nat \ Codes)
<1> DEFINE b == NotOwn(ct, n)
           c == NotOwn(ct, n + 1)
           x == Only(ct[n + 1], Nat \ Codes)
<1>1. n \in 0 .. MaxBatches /\ n + 1 \in 0 .. MaxBatches /\ ct[n + 1] \in Seq(Nat)
  BY CursorAssumption
<1>2. b \in Batches /\ Len(b) = n /\ c \in Batches /\ Len(c) = n + 1
  BY <1>1, OthersAreBatches, Zenon
<1>3. x \in Seq(Nat)
  BY <1>1, OnlyRows, Zenon
<1>4. c[n + 1] = x /\ \A i \in 1 .. n : b[i] = c[i]
  <2>1. n + 1 \in 1 .. n + 1 /\ \A i \in 1 .. n : i \in 1 .. n + 1
    OBVIOUS
  <2> QED
    BY <2>1, Zenon DEF NotOwn
<1> HIDE DEF b, c, x
<1>5. c = Append(b, x)
  <2> DEFINE d == Append(b, x)
  <2>0. /\ d \in Batches /\ Len(d) = Len(b) + 1 /\ d[Len(b) + 1] = x
        /\ \A i \in 1 .. Len(b) : d[i] = b[i]
    BY <1>2, <1>3, AppendFacts, Zenon
  <2>1. d \in Batches /\ Len(d) = n + 1 /\ d[n + 1] = x /\ \A i \in 1 .. n : d[i] = b[i]
    BY <1>2, <2>0, Zenon
  <2> HIDE DEF d
  <2>2. \A i \in 1 .. n + 1 : c[i] = d[i]
    BY <1>4, <2>1
  <2>3. c = d
    BY <1>2, <2>1, <2>2 DEF Batches
  <2> QED
    BY <2>3, Zenon DEF d
<1>6. Concat(c) = Concat(b) \o x
  BY <1>2, <1>3, <1>5, ConcatAppend, Zenon
<1>7. Concat(b) \in Seq(Nat)
  BY <1>2, UpToExists, ConcatIsLast, Zenon
<1>8. OwnRows(cs) \in Seq(Nat)
  BY OwnRowsAreRows, Zenon
<1>9. OwnRows(cs) \o (Concat(b) \o x) = (OwnRows(cs) \o Concat(b)) \o x
  BY <1>3, <1>7, <1>8, Associative, Zenon
<1>10. OwnRows(cs) \o Concat(b) \in Seq(Nat)
  BY <1>7, <1>8
<1> QED
  BY <1>3, <1>6, <1>9, <1>10, Zenon DEF CompleteOf, b, c, x

\* So the answer of fewer batches begins the answer of more.
LEMMA CompleteGrows ==
  ASSUME NEW cs, NEW ct \in [1 .. MaxBatches -> Seq(Nat)],
         NEW n \in 0 .. MaxBatches, NEW m \in n .. MaxBatches
  PROVE  /\ CompleteOf(cs, ct, n) \in Seq(Nat)
         /\ \E rest \in Seq(Nat) : CompleteOf(cs, ct, m) = CompleteOf(cs, ct, n) \o rest
<1> DEFINE C(i) == CompleteOf(cs, ct, i)
           P(i) == n + i <= MaxBatches =>
                     \E rest \in Seq(Nat) : C(n + i) = C(n) \o rest
           T == {i \in Nat : P(i)}
<1>0. n \in Nat /\ MaxBatches \in Nat
  BY CursorAssumption
<1>1. C(n) \in Seq(Nat)
  <2>1. Concat(NotOwn(ct, n)) \in Seq(Nat)
    BY OthersAreBatches, UpToExists, ConcatIsLast, Zenon
  <2> QED
    BY <2>1, OwnRowsAreRows DEF CompleteOf
<1> HIDE DEF C
<1>2. P(0)
  <2>1. C(n) = C(n) \o <<>> /\ <<>> \in Seq(Nat) /\ n + 0 = n
    BY <1>0, <1>1
  <2> QED
    BY <2>1, Zenon
<1>3. ASSUME NEW i \in Nat, P(i)
      PROVE  P(i + 1)
  <2> SUFFICES ASSUME n + (i + 1) <= MaxBatches
               PROVE  \E rest \in Seq(Nat) : C(n + (i + 1)) = C(n) \o rest
    BY Zenon
  <2>1. n + i \in Nat /\ n + i <= MaxBatches /\ n + (i + 1) = (n + i) + 1
    BY <1>0
  <2>2. PICK rest \in Seq(Nat) : C(n + i) = C(n) \o rest
    BY <1>3, <2>1, Zenon
  <2> DEFINE x == Only(ct[(n + i) + 1], Nat \ Codes)
  <2>3. x \in Seq(Nat) /\ C((n + i) + 1) = C(n + i) \o x
    BY <2>1, CompleteNext, Zenon DEF C
  <2> HIDE DEF x
  <2>4. (C(n) \o rest) \o x = C(n) \o (rest \o x) /\ rest \o x \in Seq(Nat)
    <3>1. (C(n) \o rest) \o x = C(n) \o (rest \o x)
      BY <1>1, <2>3, Associative, Zenon
    <3>2. rest \o x \in Seq(Nat)
      BY <2>3
    <3> QED
      BY <3>1, <3>2, Zenon
  <2>5. C(n + (i + 1)) = C(n) \o (rest \o x)
    BY <2>1, <2>2, <2>3, <2>4, Zenon
  <2> QED
    BY <2>4, <2>5, Zenon
<1> HIDE DEF P
<1>4. 0 \in T /\ \A i \in Nat : i \in T => i + 1 \in T
  BY <1>2, <1>3
<1> HIDE DEF T
<1>5. m - n \in T
  <2>1. m - n \in Nat
    BY <1>0
  <2> QED
    BY <1>4, <2>1, Induction, Zenon
<1>6. \E rest \in Seq(Nat) : C(m) = C(n) \o rest
  <2>1. n + (m - n) = m /\ m <= MaxBatches
    BY <1>0
  <2>2. P(m - n)
    BY <1>5, Zenon DEF T
  <2> QED
    BY <2>1, <2>2, Zenon DEF P
<1> QED
  BY <1>1, <1>6, Zenon DEF C

--------------------------------------------------------------------------------
(* The cursor and its reader. *)

USE CursorAssumption

\* The replayable cursor: what it retains is about the last batch produced, or
\* about the one after it.
CursorInv ==
  /\ next_sequence = produced
  /\ finished <=> reader # "live"
  /\ reader = "failed" <=> terminal_error # None
  /\ terminal_error # None => terminal_error = Some(produced)
  /\ last # None => produced > 0 /\ last = Some(<<produced - 1, produced>>)
  /\ serving # None => serving = Some(produced) /\ reader = "live"

\* Replies stay true however long they travel.
RepliesInv ==
  \A r \in replies :
    /\ r.kind = "data" => r.batch = r.sequence + 1 /\ r.batch <= produced
    /\ r.kind = "end" => r.sequence = produced /\ reader = "ended"
    /\ r.kind = "error" => r.sequence = produced /\ reader = "failed"

\* The client: what it waits for, or will ask for, follows what it has.
ClientInv ==
  /\ Len(read) <= produced
  /\ pending # None => /\ pending = Some(1)
                       /\ Len(read) = 0
                       /\ produced > 0
                       /\ continuation = Some(1)
  /\ pending = None /\ continuation # None => continuation = Some(Len(read))
  /\ awaited # None => /\ awaited = Some(Len(read))
                       /\ pending = None
                       /\ continuation = None
  /\ phase \in {"new", "opening"} => Len(read) = 0 /\ pending = None /\ continuation = None
  /\ phase = "done" => Len(read) = 0 /\ produced = 0 /\ reader = "ended"

\* All of it.
Inv == TypeOK /\ CursorInv /\ RepliesInv /\ ClientInv

--------------------------------------------------------------------------------
\* An option is empty or holds one value.
LEMMA OptionFacts ==
  ASSUME NEW S, NEW o \in Option(S), o # None
  PROVE  o[1] \in S /\ o = Some(o[1])
  BY DEF Option, Some, None

\* Two options are equal when their values are; none with a value is empty.
LEMMA SomeFacts ==
  ASSUME NEW x, NEW y
  PROVE  /\ Some(x) # None
         /\ Some(x)[1] = x
         /\ Some(x) = Some(y) => x = y
         /\ \A S : x \in S => Some(x) \in Option(S)
  BY Zenon DEF Option, Some, None

\* The empty option is one of any type.
LEMMA NoneIsOption == \A S : None \in Option(S)
  BY Zenon DEF Option

\* The invariant holds initially.
LEMMA InitInv == Init => Inv
<1> SUFFICES ASSUME Init PROVE Inv
  BY Zenon
<1>1. TypeOK
  <2>1. finished \in BOOLEAN /\ registered \in BOOLEAN /\ expected \in BOOLEAN
    BY Zenon DEF Init
  <2>2. /\ reader \in {"live", "ended", "failed"}
        /\ produced \in 0..MaxBatches
        /\ next_sequence \in Sequence
        /\ phase \in Phase
        /\ read \in Seq(1..MaxBatches)
    BY DEF Init, Sequence, Phase
  <2> QED
    BY <2>1, <2>2, NoneIsOption, Zenon DEF Init, TypeOK
<1>2. CursorInv
  BY Zenon DEF Init, CursorInv
<1>3. RepliesInv
  BY Zenon DEF Init, RepliesInv
<1>4. ClientInv
  BY DEF Init, ClientInv
<1> QED
  BY <1>1, <1>2, <1>3, <1>4 DEF Inv

\* Every reply the server adds is well typed and right.
LEMMA AnswerInv ==
  ASSUME Inv, NEW k \in {"end", "error", "refused"}, NEW q \in Sequence, Answer(k, q),
         k = "end" => q = produced' /\ reader' = "ended",
         k = "error" => q = produced' /\ reader' = "failed",
         produced' = produced,
         reader # "live" => reader' = reader
  PROVE  replies' \subseteq Reply /\ RepliesInv'
<1> DEFINE new == [kind |-> k, sequence |-> q]
<1>1. new \in Reply /\ new.kind = k /\ new.sequence = q
  BY Zenon DEF Reply
<1>2. replies' = replies \cup {new}
  BY Zenon DEF Answer
<1>3. replies \subseteq Reply /\ RepliesInv
  BY Zenon DEF Inv, TypeOK
<1> QED
  BY <1>1, <1>2, <1>3 DEF RepliesInv

\* A batch that is sent keeps it,
LEMMA AnswerDataInv ==
  ASSUME Inv, NEW q \in Sequence, NEW b \in 1..MaxBatches, AnswerData(q, b),
         b = q + 1, b <= produced',
         produced' = produced \/ (produced' = produced + 1 /\ reader = "live"),
         reader' = reader
  PROVE  replies' \subseteq Reply /\ RepliesInv'
<1> DEFINE new == [kind |-> "data", sequence |-> q, batch |-> b]
<1>1. new \in Reply /\ new.kind = "data" /\ new.sequence = q /\ new.batch = b
  BY Zenon DEF Reply
<1>2. replies' = replies \cup {new}
  BY Zenon DEF AnswerData
<1>3. replies \subseteq Reply /\ RepliesInv /\ produced \in Nat
  BY DEF Inv, TypeOK
<1>4. \A r \in replies : r.kind = "data" => r.batch \in Nat
  BY <1>3 DEF Reply
<1> QED
  BY <1>1, <1>2, <1>3, <1>4, SMTT(30) DEF RepliesInv

\* No reply: what was said stays true while the reader goes on.
LEMMA SilentInv ==
  ASSUME Inv, UNCHANGED replies,
         \/ produced' = produced /\ (reader # "live" => reader' = reader)
         \/ produced' = produced + 1 /\ reader' = reader /\ reader = "live"
  PROVE  replies' \subseteq Reply /\ RepliesInv'
<1>1. replies \subseteq Reply /\ RepliesInv /\ produced \in Nat
  BY DEF Inv, TypeOK
<1>2. \A r \in replies : r.kind = "data" => r.batch \in Nat
  BY <1>1 DEF Reply
<1> QED
  BY <1>1, <1>2 DEF RepliesInv

\* A step of the server that leaves the client alone keeps the client's part.
LEMMA ServerKeepsClient ==
  ASSUME Inv, UNCHANGED client, produced' \in Nat,
         \/ produced' = produced /\ (reader # "live" => reader' = reader)
         \/ produced' = produced + 1 /\ reader = "live" /\ reader' = reader
  PROVE  ClientInv'
<1>1. ClientInv /\ produced \in Nat /\ read \in Seq(1..MaxBatches)
  BY DEF Inv, TypeOK
<1>2. Len(read) \in Nat
  BY <1>1
<1>3. UNCHANGED <<pending, continuation, awaited, phase, read>>
  BY Zenon DEF client
<1> QED
  BY <1>1, <1>2, <1>3 DEF ClientInv

\* ResultEntry's handler keeps the invariant,
LEMMA HandleInv ==
  ASSUME Inv, NEW q \in requests, Handle(q)
  PROVE  Inv'
<1> USE DEF Inv
<1>1. q \in Sequence /\ q \in Nat /\ produced \in Nat
  <2>1. q \in Sequence /\ produced \in 0..MaxBatches
    BY Zenon DEF TypeOK
  <2> QED
    BY <2>1 DEF Sequence
<1>2. /\ UNCHANGED <<reader, produced, cursor, registered, requests, client>>
      /\ serving = None
  BY Zenon DEF Handle, server
<1>3. ClientInv'
  BY <1>1, <1>2, ServerKeepsClient, Zenon
<1>0. /\ serving \in Option(Sequence) /\ expected \in BOOLEAN
      /\ UNCHANGED server => UNCHANGED <<reader, produced, serving, expected>>
  BY Zenon DEF TypeOK, server
<1>4. /\ replies' \subseteq Reply /\ RepliesInv'
      /\ serving' \in Option(Sequence) /\ expected' \in BOOLEAN
      /\ serving' # None => serving' = Some(produced) /\ reader = "live"
  <2>1. CASE UNCHANGED server /\ Answer("refused", q)
    BY <2>1, <1>0, <1>1, <1>2, AnswerInv, Zenon
  <2>2. CASE /\ UNCHANGED server /\ Replayable(q) /\ AnswerData(q, last[1][2])
    <3>1. last = Some(<<produced - 1, produced>>) /\ produced > 0
      BY <2>2, Zenon DEF Replayable, CursorInv
    <3>2. last[1] = <<produced - 1, produced>>
      BY <3>1, SomeFacts, Zenon
    <3>3. q = produced - 1 /\ last[1][2] = produced
      BY <2>2, <3>2 DEF Replayable
    <3>4. produced \in 0..MaxBatches
      BY Zenon DEF TypeOK
    <3>5. produced \in 1..MaxBatches /\ produced = q + 1 /\ produced <= produced
      BY <1>1, <3>1, <3>3, <3>4
    <3> QED
      BY <2>2, <3>3, <3>5, <1>0, <1>1, <1>2, AnswerDataInv, Zenon
  <2>3. CASE UNCHANGED server /\ terminal_error = Some(q) /\ Answer("error", q)
    <3>1. terminal_error # None
      BY <2>3, SomeFacts, Zenon
    <3>2. reader = "failed" /\ Some(q) = Some(produced)
      BY <2>3, <3>1, Zenon DEF CursorInv
    <3>3. q = produced
      BY <3>2, SomeFacts, Zenon
    <3> QED
      BY <2>3, <3>2, <3>3, <1>0, <1>1, <1>2, AnswerInv, Zenon
  <2>4. CASE /\ UNCHANGED server /\ terminal_error # Some(q)
             /\ q = next_sequence /\ finished /\ Answer("end", q)
    <3>1. q = produced /\ reader # "live"
      BY <2>4, Zenon DEF CursorInv
    <3>2. reader # "failed"
      BY <2>4, <3>1, Zenon DEF CursorInv
    <3>3. reader = "ended"
      BY <3>1, <3>2, Zenon DEF TypeOK
    <3> QED
      BY <2>4, <3>1, <3>3, <1>0, <1>1, <1>2, AnswerInv, Zenon
  <2>5. CASE /\ q = next_sequence /\ ~finished
             /\ serving' = Some(q) /\ expected' = TRUE /\ UNCHANGED replies
    <3>1. q = produced /\ reader = "live"
      BY <2>5, Zenon DEF CursorInv
    <3>2. serving' \in Option(Sequence)
      BY <2>5, <1>1, SomeFacts, Zenon
    <3> QED
      BY <2>5, <3>1, <3>2, <1>2, <1>1, SilentInv, Zenon
  <2> QED
    BY <2>1, <2>2, <2>3, <2>4, <2>5, ZenonT(30) DEF Handle
<1>5. CursorInv'
  BY <1>2, <1>4, Zenon DEF CursorInv, cursor
<1>6. TypeOK'
  BY <1>2, <1>4, Zenon DEF TypeOK, cursor, client
<1> QED
  BY <1>3, <1>4, <1>5, <1>6

\* What the three outcomes of a read have in common.
LEMMA ServedFacts ==
  ASSUME Inv, serving # None
  PROVE  /\ serving = Some(produced) /\ serving[1] = produced
         /\ reader = "live" /\ ~finished /\ terminal_error = None
         /\ produced \in Nat /\ produced \in Sequence /\ next_sequence = produced
<1>1. serving = Some(produced) /\ reader = "live" /\ next_sequence = produced
  BY Zenon DEF Inv, CursorInv
<1>2. ~finished /\ terminal_error = None
  BY <1>1, Zenon DEF Inv, CursorInv
<1>3. produced \in 0..MaxBatches
  BY Zenon DEF Inv, TypeOK
<1> QED
  BY <1>1, <1>2, <1>3, SomeFacts DEF Sequence

\* a batch the downstream reader returns does,
LEMMA ReadBatchInv ==
  ASSUME Inv, ReadBatch
  PROVE  Inv'
<1> USE DEF Inv
<1> DEFINE p == produced
<1>1. /\ serving[1] = p /\ reader = "live" /\ ~finished /\ terminal_error = None
      /\ p \in Nat /\ p \in Sequence /\ next_sequence = p /\ serving # None
  BY ServedFacts, Zenon DEF ReadBatch
<1>2. /\ produced' = p + 1 /\ last' = Some(<<p, p + 1>>) /\ next_sequence' = p + 1
      /\ serving' = None /\ expected' = FALSE
      /\ UNCHANGED <<reader, terminal_error, finished, registered, requests, client>>
      /\ p + 1 \in 1..MaxBatches
  BY <1>1 DEF ReadBatch, Served
<1>3. replies' \subseteq Reply /\ RepliesInv'
  <2>1. CASE expected
    <3>1. AnswerData(p, p + 1)
      BY <2>1, <1>1, Zenon DEF ReadBatch, Reply1
    <3> QED
      BY <3>1, <1>1, <1>2, AnswerDataInv
  <2>2. CASE ~expected
    BY <2>2, <1>1, <1>2, SilentInv, Zenon DEF ReadBatch, Reply1
  <2> QED
    BY <2>1, <2>2, Zenon
<1>4. ClientInv'
  BY <1>1, <1>2, ServerKeepsClient, SMTT(30)
<1>5. CursorInv'
  BY <1>1, <1>2, SMTT(30) DEF CursorInv
<1>6. TypeOK'
  <2>1. last' \in Option(Sequence \X (1..MaxBatches))
    BY <1>1, <1>2, SomeFacts, Zenon
  <2>2. produced' \in 0..MaxBatches /\ next_sequence' \in Sequence
    BY <1>1, <1>2 DEF Sequence
  <2>3. expected' \in BOOLEAN /\ serving' \in Option(Sequence)
    BY <1>2, NoneIsOption, Zenon
  <2> QED
    BY <2>1, <2>2, <2>3, <1>2, <1>3, SMTT(30) DEF TypeOK, client
<1> QED
  BY <1>3, <1>4, <1>5, <1>6, Zenon

\* an error of it,
LEMMA ReadErrorInv ==
  ASSUME Inv, ReadError
  PROVE  Inv'
<1> USE DEF Inv
<1>1. /\ serving = Some(produced) /\ serving[1] = produced /\ reader = "live"
      /\ produced \in Nat /\ produced \in Sequence /\ next_sequence = produced
  BY ServedFacts, Zenon DEF ReadError
<1>2. /\ reader' = "failed" /\ terminal_error' = Some(produced) /\ finished' = TRUE
      /\ serving' = None /\ expected' = FALSE
      /\ UNCHANGED <<produced, last, next_sequence, registered, requests, client>>
  BY <1>1 DEF ReadError, Served
<1>3. replies' \subseteq Reply /\ RepliesInv'
  <2>1. CASE expected
    <3>1. Answer("error", produced)
      BY <2>1, <1>1, Zenon DEF ReadError, Reply1
    <3> QED
      BY <3>1, <1>1, <1>2, AnswerInv
  <2>2. CASE ~expected
    BY <2>2, <1>1, <1>2, SilentInv, Zenon DEF ReadError, Reply1
  <2> QED
    BY <2>1, <2>2, Zenon
<1>4. ClientInv'
  BY <1>1, <1>2, ServerKeepsClient, Zenon
<1>5. CursorInv'
  <2>1. terminal_error' # None
    BY <1>2, SomeFacts, Zenon
  <2> QED
    BY <2>1, <1>1, <1>2, Zenon DEF CursorInv
<1>6. TypeOK'
  <2>1. terminal_error' \in Option(Sequence)
    BY <1>1, <1>2, SomeFacts, Zenon
  <2>2. expected' \in BOOLEAN /\ finished' \in BOOLEAN /\ serving' \in Option(Sequence)
    BY <1>2, NoneIsOption, Zenon
  <2> QED
    BY <2>1, <2>2, <1>2, <1>3, SMTT(30) DEF TypeOK, client
<1> QED
  BY <1>3, <1>4, <1>5, <1>6, Zenon

\* its end,
LEMMA ReadEndInv ==
  ASSUME Inv, ReadEnd
  PROVE  Inv'
<1> USE DEF Inv
<1>1. /\ serving = Some(produced) /\ serving[1] = produced /\ reader = "live"
      /\ produced \in Nat /\ produced \in Sequence /\ next_sequence = produced
      /\ terminal_error = None
  BY ServedFacts, Zenon DEF ReadEnd
<1>2. /\ reader' = "ended" /\ finished' = TRUE /\ last' = None
      /\ serving' = None /\ expected' = FALSE
      /\ UNCHANGED <<produced, terminal_error, next_sequence, registered, requests, client>>
  BY <1>1 DEF ReadEnd, Served
<1>3. replies' \subseteq Reply /\ RepliesInv'
  <2>1. CASE expected
    <3>1. Answer("end", produced)
      BY <2>1, <1>1, Zenon DEF ReadEnd, Reply1
    <3> QED
      BY <3>1, <1>1, <1>2, AnswerInv
  <2>2. CASE ~expected
    BY <2>2, <1>1, <1>2, SilentInv DEF ReadEnd, Reply1
  <2> QED
    BY <2>1, <2>2, Zenon
<1>4. ClientInv'
  BY <1>1, <1>2, ServerKeepsClient, Zenon
<1>5. CursorInv'
  BY <1>1, <1>2, Zenon DEF CursorInv
<1>6. TypeOK'
  <2>1. last' \in Option(Sequence \X (1..MaxBatches))
    BY <1>2, NoneIsOption, Zenon
  <2>2. expected' \in BOOLEAN /\ finished' \in BOOLEAN /\ serving' \in Option(Sequence)
    BY <1>2, NoneIsOption, Zenon
  <2> QED
    BY <2>1, <2>2, <1>2, <1>3, Zenon DEF TypeOK, client
<1> QED
  BY <1>3, <1>4, <1>5, <1>6, Zenon

\* a deadline that passes.
LEMMA TimesOutInv ==
  ASSUME Inv, NEW q \in requests, TimesOut(q)
  PROVE  Inv'
<1> USE DEF Inv
<1>1. q \in Sequence /\ produced \in Nat
  <2>1. q \in Sequence /\ produced \in 0..MaxBatches
    BY Zenon DEF TypeOK
  <2> QED
    BY <2>1
<1>2. /\ UNCHANGED <<reader, produced, cursor, registered, serving, requests, client>>
      /\ Answer("refused", q)
  BY Zenon DEF TimesOut
<1>3. replies' \subseteq Reply /\ RepliesInv'
  BY <1>1, <1>2, AnswerInv, Zenon
<1>4. ClientInv'
  BY <1>1, <1>2, ServerKeepsClient, Zenon
<1>5. CursorInv'
  BY <1>2, Zenon DEF CursorInv, cursor
<1>6. expected' \in BOOLEAN
  BY Zenon DEF TimesOut
<1>7. TypeOK'
  BY <1>2, <1>3, <1>6, Zenon DEF TypeOK, cursor, client
<1> QED
  BY <1>3, <1>4, <1>5, <1>7

\* The types of the client's variables, and of the network's, are all there is to check
\* of a step that leaves the server alone.
LEMMA ClientTypes ==
  ASSUME TypeOK, UNCHANGED server,
         requests' = requests \/ requests' \subseteq Sequence,
         replies' = replies,
         pending' = pending \/ pending' \in Option(1..MaxBatches),
         continuation' = continuation \/ continuation' \in Option(Sequence),
         awaited' = awaited \/ awaited' \in Option(Sequence),
         phase' = phase \/ phase' \in Phase,
         read' = read \/ read' \in Seq(1..MaxBatches)
  PROVE  TypeOK'
<1>1. UNCHANGED <<reader, produced, last, terminal_error, next_sequence, finished,
                  registered, serving, expected>>
  BY DEF server, cursor
<1> QED
  BY <1>1, ZenonT(30) DEF TypeOK

\* A step that leaves the cursor alone keeps its part, and that of the replies.
LEMMA ClientKeepsServer ==
  ASSUME Inv, UNCHANGED <<reader, produced, cursor, serving, expected, replies>>
  PROVE  CursorInv' /\ RepliesInv'
<1>1. CursorInv'
  BY Zenon DEF Inv, CursorInv, cursor
<1>2. RepliesInv'
  BY Zenon DEF Inv, RepliesInv
<1> QED
  BY <1>1, <1>2, Zenon

\* The result invalidated by its statement keeps it,
LEMMA InvalidateInv ==
  ASSUME Inv, Invalidate
  PROVE  Inv'
<1> USE DEF Inv
<1>1. /\ UNCHANGED <<reader, produced, cursor, serving, expected, requests, replies, client>>
      /\ registered' = FALSE
  BY Zenon DEF Invalidate
<1>2. CursorInv' /\ RepliesInv'
  BY <1>1, ClientKeepsServer, Zenon
<1>3. ClientInv'
  BY <1>1, Zenon DEF ClientInv, client
<1>4. registered' \in BOOLEAN
  BY <1>1, Zenon
<1>5. TypeOK'
  BY <1>1, <1>4, Zenon DEF TypeOK, cursor, client
<1> QED
  BY <1>2, <1>3, <1>5, Zenon

\* A reply to what the client waits for is about the batches it has.
LEMMA AwaitedReply ==
  ASSUME Inv, NEW r \in replies, awaited = Some(r.sequence)
  PROVE  /\ r.sequence = Len(read) /\ pending = None /\ continuation = None
         /\ r.kind = "data" => /\ r.batch = Len(read) + 1 /\ r.batch <= produced
                               /\ r.batch \in 1..MaxBatches
                               /\ r.sequence + 1 \in Sequence
         /\ r.kind = "end" => reader = "ended" /\ produced = Len(read)
<1>1. awaited # None
  BY SomeFacts, Zenon
<1>2. Some(r.sequence) = Some(Len(read)) /\ pending = None /\ continuation = None
  BY <1>1, Zenon DEF Inv, ClientInv
<1>3. r.sequence = Len(read)
  BY <1>2, SomeFacts, Zenon
<1>4. r \in Reply /\ produced \in 0..MaxBatches /\ read \in Seq(1..MaxBatches)
  BY Zenon DEF Inv, TypeOK
<1>5. Len(read) \in Nat
  BY <1>4
<1>6. ASSUME r.kind = "data"
      PROVE  r.batch = Len(read) + 1 /\ r.batch <= produced
  BY <1>3, <1>6, Zenon DEF Inv, RepliesInv
<1>7. ASSUME r.kind = "data"
      PROVE  r.batch \in 1..MaxBatches /\ r.sequence + 1 \in Sequence
  BY <1>3, <1>4, <1>5, <1>6, <1>7, SMTT(30) DEF Sequence
<1>8. ASSUME r.kind = "end"
      PROVE  reader = "ended" /\ produced = Len(read)
  BY <1>3, <1>8, SMTT(30) DEF Inv, RepliesInv
<1> QED
  BY <1>2, <1>3, <1>6, <1>7, <1>8, SMTT(30)

\* RemoteReader::open() keeps it,
LEMMA OpenInv ==
  ASSUME Inv, Open
  PROVE  Inv'
<1> USE DEF Inv
<1>1. /\ UNCHANGED <<server, replies, pending, continuation, read>>
      /\ phase = "new" /\ phase' = "opening"
      /\ requests' = requests \cup {0} /\ awaited' = Some(0)
  BY Zenon DEF Open
<1>2. CursorInv' /\ RepliesInv'
  BY <1>1, ClientKeepsServer, Zenon DEF server
<1>3. ClientInv'
  BY <1>1, Zenon DEF ClientInv, server
<1>4. TypeOK'
  <2>1. 0 \in Sequence
    BY SMTT(30) DEF Sequence
  <2>2. awaited' \in Option(Sequence) /\ requests' \subseteq Sequence
    BY <2>1, <1>1, SomeFacts, Zenon DEF TypeOK
  <2>3. phase' \in Phase
    BY <1>1, Zenon DEF Phase
  <2> QED
    BY <2>2, <2>3, <1>1, Zenon DEF TypeOK, server, cursor
<1> QED
  BY <1>2, <1>3, <1>4, Zenon

\* its first reply,
LEMMA OpenGetsInv ==
  ASSUME Inv, NEW r \in replies, OpenGets(r)
  PROVE  Inv'
<1> USE DEF Inv
<1>1. /\ UNCHANGED <<server, requests, replies, read>>
      /\ phase = "opening" /\ awaited = Some(r.sequence) /\ awaited' = None
  BY Zenon DEF OpenGets
<1>2. CursorInv' /\ RepliesInv'
  BY <1>1, ClientKeepsServer, Zenon DEF server
<1>3. Len(read) = 0 /\ pending = None /\ continuation = None /\ produced \in Nat
  <2>1. produced \in 0..MaxBatches
    BY Zenon DEF TypeOK
  <2> QED
    BY <2>1, <1>1, SMTT(30) DEF ClientInv
<1>4. awaited' \in Option(Sequence)
  BY <1>1, NoneIsOption, Zenon
<1>5. CASE r.kind = "data"
  <2>1. /\ r.batch = 1 /\ r.batch <= produced /\ r.sequence + 1 = 1
        /\ 1 \in 1..MaxBatches /\ 1 \in Sequence
    BY <1>1, <1>3, <1>5, AwaitedReply, SMTT(30)
  <2>2. pending' = Some(1) /\ continuation' = Some(1) /\ phase' = "reading"
    BY <1>5, <2>1, Zenon DEF OpenGets
  <2>3. ClientInv'
    <3>1. Some(1) # None
      BY SomeFacts, Zenon
    <3> QED
      BY <3>1, <2>1, <2>2, <1>1, <1>3, SMTT(30) DEF ClientInv, server
  <2>4. TypeOK'
    <3>1. pending' \in Option(1..MaxBatches) /\ continuation' \in Option(Sequence)
      BY <2>1, <2>2, SomeFacts, SMTT(30)
    <3>2. phase' \in Phase
      BY <2>2, SMTT(30) DEF Phase
    <3> QED
      BY <3>1, <3>2, <1>1, <1>4, ClientTypes, Zenon
  <2> QED
    BY <1>2, <2>3, <2>4, Zenon
<1>6. CASE r.kind # "data"
  <2>1. /\ UNCHANGED <<pending, continuation>>
        /\ phase' = IF r.kind = "end" THEN "done" ELSE "failed"
    BY <1>6, Zenon DEF OpenGets
  <2>2. phase' = "done" => produced = 0 /\ reader = "ended"
    BY <2>1, <1>1, <1>3, AwaitedReply, SMTT(30)
  <2>3. ClientInv'
    BY <2>1, <2>2, <1>1, <1>3, SMTT(30) DEF ClientInv, server
  <2>4. TypeOK'
    <3>1. phase' \in Phase
      BY <2>1, SMTT(30) DEF Phase
    <3> QED
      BY <3>1, <2>1, <1>1, <1>4, ClientTypes, Zenon
  <2> QED
    BY <1>2, <2>3, <2>4, Zenon
<1> QED
  BY <1>5, <1>6, Zenon

\* the batch that came with it,
LEMMA NextPendingInv ==
  ASSUME Inv, NextPending
  PROVE  Inv'
<1> USE DEF Inv
<1>1. /\ UNCHANGED <<server, requests, replies, continuation, awaited, phase>>
      /\ phase = "reading" /\ pending # None /\ pending' = None
      /\ read' = Append(read, pending[1])
  BY Zenon DEF NextPending
<1>2. CursorInv' /\ RepliesInv'
  BY <1>1, ClientKeepsServer, Zenon DEF server
<1>3. /\ pending[1] = 1 /\ Len(read) = 0 /\ produced > 0 /\ continuation = Some(1)
      /\ awaited = None /\ produced \in 0..MaxBatches /\ read \in Seq(1..MaxBatches)
  <2>1. pending = Some(1)
    BY <1>1, Zenon DEF ClientInv
  <2> QED
    BY <2>1, <1>1, SomeFacts, Zenon DEF ClientInv, TypeOK
<1>4. Len(read') = 1 /\ read' \in Seq(1..MaxBatches)
  BY <1>1, <1>3, SMTT(30)
<1>5. ClientInv'
  BY <1>1, <1>3, <1>4 DEF ClientInv, server
<1>6. pending' \in Option(1..MaxBatches)
  BY <1>1, NoneIsOption, Zenon
<1>7. TypeOK'
  BY <1>1, <1>4, <1>6, ClientTypes, Zenon
<1> QED
  BY <1>2, <1>5, <1>7, Zenon

\* a request for the next one,
LEMMA NextRequestInv ==
  ASSUME Inv, NextRequest
  PROVE  Inv'
<1> USE DEF Inv
<1>1. /\ UNCHANGED <<server, replies, pending, phase, read>>
      /\ phase = "reading" /\ pending = None /\ continuation # None
      /\ continuation' = None /\ awaited' = continuation
      /\ requests' = requests \cup {continuation[1]}
  BY Zenon DEF NextRequest
<1>2. CursorInv' /\ RepliesInv'
  BY <1>1, ClientKeepsServer, Zenon DEF server
<1>3. continuation = Some(Len(read))
  BY <1>1, Zenon DEF ClientInv
<1>4. ClientInv'
  BY <1>1, <1>3, Zenon DEF ClientInv, server
<1>5. TypeOK'
  <2>1. continuation \in Option(Sequence)
    BY Zenon DEF TypeOK
  <2>2. continuation[1] \in Sequence
    BY <2>1, <1>1, OptionFacts
  <2>3. continuation' \in Option(Sequence)
    BY <1>1, NoneIsOption, SMTT(30)
  <2>4. requests' \subseteq Sequence
    BY <1>1, <2>2, Zenon DEF TypeOK
  <2> QED
    BY <2>1, <2>3, <2>4, <1>1, ClientTypes, Zenon
<1> QED
  BY <1>2, <1>4, <1>5, Zenon

\* and the reply to that.
LEMMA NextGetsInv ==
  ASSUME Inv, NEW r \in replies, NextGets(r)
  PROVE  Inv'
<1> USE DEF Inv
<1>1. /\ UNCHANGED <<server, requests, replies, pending>>
      /\ phase = "reading" /\ awaited = Some(r.sequence) /\ awaited' = None
  BY Zenon DEF NextGets
<1>2. CursorInv' /\ RepliesInv'
  BY <1>1, ClientKeepsServer, Zenon DEF server
<1>3. /\ pending = None /\ continuation = None /\ r.sequence = Len(read)
      /\ read \in Seq(1..MaxBatches)
  BY <1>1, AwaitedReply, Zenon DEF TypeOK
<1>4. awaited' \in Option(Sequence)
  BY <1>1, NoneIsOption, SMTT(30)
<1>5. CASE r.kind = "data"
  <2>1. /\ r.batch = Len(read) + 1 /\ r.batch <= produced
        /\ r.batch \in 1..MaxBatches /\ r.sequence + 1 \in Sequence
    BY <1>1, <1>5, AwaitedReply, Zenon
  <2>2. /\ read' = Append(read, r.batch) /\ continuation' = Some(Len(read) + 1)
        /\ UNCHANGED phase
    BY <1>3, <1>5, Zenon DEF NextGets
  <2>3. Len(read') = Len(read) + 1 /\ read' \in Seq(1..MaxBatches)
    BY <1>3, <2>1, <2>2, SMTT(30)
  <2>4. ClientInv'
    BY <2>1, <2>2, <2>3, <1>1, <1>3, SMTT(30) DEF ClientInv, server
  <2>5. continuation' \in Option(Sequence)
    BY <1>3, <2>1, <2>2, SomeFacts, SMTT(30)
  <2>6. TypeOK'
    BY <2>2, <2>3, <2>5, <1>1, <1>4, ClientTypes, Zenon
  <2> QED
    BY <1>2, <2>4, <2>6, Zenon
<1>6. CASE r.kind # "data"
  <2>1. /\ UNCHANGED <<read, continuation>>
        /\ phase' = IF r.kind = "end" THEN "ended" ELSE "failed"
    BY <1>6, Zenon DEF NextGets
  <2>2. ClientInv'
    BY <2>1, <1>1, <1>3 DEF ClientInv, server
  <2>3. phase' \in Phase
    BY <2>1, Zenon DEF Phase
  <2>4. TypeOK'
    BY <2>1, <2>3, <1>1, <1>4, Zenon DEF TypeOK, server, cursor
  <2> QED
    BY <1>2, <2>2, <2>4, Zenon
<1> QED
  BY <1>5, <1>6, Zenon

\* The steps that only end the reader.
LEMMA LeaveInv ==
  ASSUME Inv, NextDone \/ TransportFails \/ Drop
  PROVE  Inv'
<1> USE DEF Inv
<1>1. /\ UNCHANGED <<reader, produced, cursor, serving, expected, requests, replies,
                     pending, continuation, read>>
      /\ awaited' \in {awaited, None}
      /\ phase' \in {"ended", "failed", "dropped"}
  BY Zenon DEF NextDone, TransportFails, Drop, server
<1>2. registered' \in BOOLEAN
  BY Zenon DEF NextDone, TransportFails, Drop, server, TypeOK
<1>3. CursorInv' /\ RepliesInv'
  BY <1>1, ClientKeepsServer, Zenon
<1>4. ClientInv'
  BY <1>1, Zenon DEF ClientInv
<1>5. awaited' \in Option(Sequence) /\ phase' \in Phase
  BY <1>1, NoneIsOption, Zenon DEF TypeOK, Phase
<1>6. TypeOK'
  BY <1>1, <1>2, <1>5 DEF TypeOK, cursor
<1> QED
  BY <1>3, <1>4, <1>6

\* Every step keeps the invariant.
LEMMA NextInv == Inv /\ [Next]_vars => Inv'
<1> SUFFICES ASSUME Inv, [Next]_vars PROVE Inv'
  BY Zenon
<1>1. ASSUME NEW q \in requests, Handle(q) \/ TimesOut(q) PROVE Inv'
  BY <1>1, HandleInv, TimesOutInv, Zenon
<1>2. CASE ReadBatch \/ ReadError \/ ReadEnd
  BY <1>2, ReadBatchInv, ReadErrorInv, ReadEndInv
<1>3. CASE Invalidate
  BY <1>3, InvalidateInv, SMTT(30)
<1>4. CASE Open \/ NextPending \/ NextRequest
  BY <1>4, OpenInv, NextPendingInv, NextRequestInv, Zenon
<1>5. ASSUME NEW r \in replies, OpenGets(r) \/ NextGets(r) PROVE Inv'
  BY <1>5, OpenGetsInv, NextGetsInv, Zenon
<1>6. CASE NextDone \/ TransportFails \/ Drop
  BY <1>6, LeaveInv
<1>7. CASE UNCHANGED vars
  BY <1>7, ZenonT(30)
     DEF vars, server, client, cursor, Inv, TypeOK, CursorInv, RepliesInv, ClientInv
<1> QED
  BY <1>1, <1>2, <1>3, <1>4, <1>5, <1>6, <1>7, SMTT(30) DEF Next, ClientStep

\* So it holds throughout.
LEMMA Invariant == Spec => []Inv
  BY InitInv, NextInv, PTL DEF Spec

--------------------------------------------------------------------------------
\* Cursor, network and client are well typed; in particular no sequence number
\* goes beyond the number of batches.
THEOREM TypeCorrect == Spec => []TypeOK
<1>1. Inv => TypeOK
  BY Zenon DEF Inv
<1> QED
  BY <1>1, Invariant, PTL

\* A repeated request gets the answer of the first: ResultEntry::next() replays
\* batches and errors faithfully, for a stream of any length.
THEOREM RepliesAgree == Spec => []AnswersAgree
<1>1. ASSUME Inv PROVE AnswersAgree
  <2> SUFFICES ASSUME NEW r1 \in replies, NEW r2 \in replies,
                      r1.sequence = r2.sequence, r1.kind # "refused", r2.kind # "refused"
               PROVE  r1 = r2
    BY Zenon DEF AnswersAgree
  <2>1. r1 \in Reply /\ r2 \in Reply /\ produced \in 0..MaxBatches
    BY <1>1, Zenon DEF Inv, TypeOK
  <2>2. /\ r1.sequence \in Nat /\ r1.kind \in {"data", "end", "error"}
        /\ r2.kind \in {"data", "end", "error"}
    BY <2>1 DEF Reply, Sequence
  <2>3. r1.kind = r2.kind /\ (r1.kind = "data" => r1.batch = r2.batch)
    BY <1>1, <2>1, <2>2 DEF Inv, RepliesInv
  <2>4. CASE r1.kind = "data"
    <3>1. /\ r1 = [kind |-> r1.kind, sequence |-> r1.sequence, batch |-> r1.batch]
          /\ r2 = [kind |-> r2.kind, sequence |-> r2.sequence, batch |-> r2.batch]
      BY <2>1, <2>3, <2>4, Zenon DEF Reply
    <3> QED
      BY <3>1, <2>3, <2>4, Zenon
  <2>5. CASE r1.kind # "data"
    <3>1. /\ r1 = [kind |-> r1.kind, sequence |-> r1.sequence]
          /\ r2 = [kind |-> r2.kind, sequence |-> r2.sequence]
      BY <2>1, <2>3, <2>5, Zenon DEF Reply
    <3> QED
      BY <3>1, <2>3, Zenon
  <2> QED
    BY <2>4, <2>5, Zenon
<1> QED
  BY <1>1, Invariant, PTL

\* ResultEntry::next() never calls a reader that has ended or failed.
THEOREM ReaderCalledWhileLive == Spec => []CalledWhileLive
<1>1. Inv => CalledWhileLive
  BY Zenon DEF Inv, CursorInv, CalledWhileLive
<1> QED
  BY <1>1, Invariant, PTL

\* A step at the reader is the stream producing a batch or coming to its end.
LEMMA ReadSimulates ==
  ASSUME Inv, ReadBatch \/ ReadError \/ ReadEnd
  PROVE  Stream!Produce
<1>1. reader = "live"
  BY ServedFacts, Zenon DEF ReadBatch, ReadError, ReadEnd
<1>2. UNCHANGED <<read, phase>>
  BY Zenon DEF ReadBatch, ReadError, ReadEnd, Served, client
<1>3. UNCHANGED Outcome
  BY <1>2, Zenon DEF Outcome
<1>4. CASE ReadBatch
  BY <1>1, <1>2, <1>3, <1>4, Zenon DEF ReadBatch, Stream!Produce
<1>5. CASE ReadError \/ ReadEnd
  BY <1>1, <1>2, <1>3, <1>5 DEF ReadError, ReadEnd, Stream!Produce
<1> QED
  BY <1>4, <1>5, Zenon

\* A batch the iterator returns is the next one of the stream.
LEMMA PendingSimulates ==
  ASSUME Inv, NextPending
  PROVE  Stream!Deliver
<1>1. pending = Some(1) /\ Len(read) = 0 /\ produced > 0
  BY Zenon DEF Inv, ClientInv, NextPending
<1>2. pending[1] = Len(read) + 1
  BY <1>1, SomeFacts
<1>3. Outcome = "reading" /\ UNCHANGED Outcome
  BY Zenon DEF Outcome, NextPending
<1> QED
  BY <1>1, <1>2, <1>3 DEF NextPending, server, Stream!Deliver

\* A reply is a batch, the end or a failure of the stream.
LEMMA GetsSimulates ==
  ASSUME Inv, NEW r \in replies, NextGets(r)
  PROVE  Stream!Next
<1>1. /\ awaited = Some(r.sequence) /\ Outcome = "reading"
      /\ UNCHANGED <<reader, produced>>
  BY Zenon DEF NextGets, Outcome, server
<1>2. CASE r.kind = "data"
  <2>1. r.batch = Len(read) + 1 /\ r.batch <= produced
    BY <1>1, <1>2, AwaitedReply, Zenon
  <2>2. read' = Append(read, Len(read) + 1) /\ UNCHANGED phase
    BY <2>1, <1>2, Zenon DEF NextGets
  <2>3. UNCHANGED Outcome
    BY <2>2, Zenon DEF Outcome
  <2>4. Len(read) < produced
    <3>1. produced \in 0..MaxBatches /\ read \in Seq(1..MaxBatches)
      BY Zenon DEF Inv, TypeOK
    <3> QED
      BY <2>1, <3>1, SMTT(30)
  <2> QED
    BY <2>2, <2>3, <2>4, <1>1, Zenon DEF Stream!Deliver, Stream!Next
<1>3. CASE r.kind = "end"
  <2>1. reader = "ended" /\ Len(read) = produced
    BY <1>1, <1>3, AwaitedReply, Zenon
  <2>2. phase' = "ended" /\ UNCHANGED read
    BY <1>3, Zenon DEF NextGets
  <2> QED
    BY <2>1, <2>2, <1>1, Zenon DEF Outcome, Stream!End, Stream!Next
<1>4. CASE r.kind \notin {"data", "end"}
  <2>1. phase' = "failed" /\ UNCHANGED read
    BY <1>4, Zenon DEF NextGets
  <2> QED
    BY <2>1, <1>1, Zenon DEF Outcome, Stream!Fail, Stream!Next
<1> QED
  BY <1>2, <1>3, <1>4, Zenon

\* Every other step is a failure, the end of an empty stream, or nothing.
LEMMA OthersSimulate ==
  ASSUME Inv,
         \/ \E q \in requests : Handle(q) \/ TimesOut(q)
         \/ Invalidate \/ Open \/ NextRequest \/ NextDone \/ TransportFails \/ Drop
         \/ \E r \in replies : OpenGets(r)
         \/ UNCHANGED vars
  PROVE  Stream!Next \/ UNCHANGED Stream!vars
<1>1. CASE \E q \in requests : Handle(q) \/ TimesOut(q)
  BY <1>1, Zenon DEF Handle, TimesOut, server, client, Outcome, Stream!vars
<1>2. CASE Invalidate \/ Open \/ NextRequest \/ Drop \/ UNCHANGED vars
  BY <1>2, Zenon DEF Invalidate, Open, NextRequest, Drop, vars, server, client, Outcome, Stream!vars
<1>3. CASE NextDone
  <2>1. reader = "ended" /\ Len(read) = produced
    BY <1>3, Zenon DEF NextDone, Inv, ClientInv
  <2> QED
    BY <2>1, <1>3, SMTT(30) DEF NextDone, server, Outcome, Stream!End, Stream!Next
<1>4. CASE TransportFails
  BY <1>4, Zenon DEF TransportFails, server, Outcome, Stream!Fail, Stream!Next
<1>5. ASSUME NEW r \in replies, OpenGets(r)
      PROVE  Stream!Next \/ UNCHANGED Stream!vars
  <2>1. /\ Outcome = "reading" /\ UNCHANGED <<reader, produced, read>>
        /\ phase' \in {"reading", "done", "failed"}
    BY <1>5, Zenon DEF OpenGets, Outcome, server
  <2>2. CASE phase' = "failed"
    BY <2>1, <2>2, Zenon DEF Outcome, Stream!Fail, Stream!Next
  <2>3. CASE phase' # "failed"
    BY <2>1, <2>3, Zenon DEF Outcome, Stream!vars
  <2> QED
    BY <2>2, <2>3, Zenon
<1> QED
  BY <1>1, <1>2, <1>3, <1>4, <1>5

\* Every step is a step of the stream, or none.
LEMMA StepSimulates ==
  ASSUME Inv, [Next]_vars
  PROVE  Stream!Next \/ UNCHANGED Stream!vars
<1>1. CASE ReadBatch \/ ReadError \/ ReadEnd
  BY <1>1, ReadSimulates, Zenon DEF Stream!Next
<1>2. CASE NextPending
  BY <1>2, PendingSimulates, Zenon DEF Stream!Next
<1>3. CASE \E r \in replies : NextGets(r)
  BY <1>3, GetsSimulates, Zenon
<1> QED
  BY <1>1, <1>2, <1>3, OthersSimulate DEF Next, ClientStep

\* RemoteReader, the continuation tokens and ResultEntry together implement
\* ResultStream: the application reads exactly the batches of the downstream
\* reader, in order, and is told of the end only after the last of them.
THEOREM StreamRead == Spec => ReadsTheStream
<1>1. Init => Stream!Init
  BY Zenon DEF Init, Outcome, Stream!Init
<1>2. Inv /\ [Next]_vars => [Stream!Next]_(Stream!vars)
  BY StepSimulates, Zenon
<1> QED
  BY <1>1, <1>2, Invariant, PTL DEF Spec, ReadsTheStream, Stream!Spec

--------------------------------------------------------------------------------
(* get_info(): its reader reads a stream.                                   *)

\* GrainliftInfoReader reads as any application does.
LEMMA InfoReadsOn == [InfoNext]_allVars => [Next]_vars
<1> SUFFICES ASSUME [InfoNext]_allVars PROVE [Next]_vars
  BY Zenon
<1>1. CASE UNCHANGED allVars
  BY <1>1, Zenon DEF allVars
<1>2. CASE DecodeResponse \/ NextOwn \/ NextRun
  BY <1>2, Zenon DEF DecodeResponse, NextOwn, NextRun
<1>3. CASE OpenReader \/ OpenReturns
  BY <1>3, Zenon DEF OpenReader, OpenReturns, Next, ClientStep
<1>4. CASE NextDownstream
  BY <1>4, Zenon DEF NextDownstream, Next, ClientStep
<1>5. CASE Others
  BY <1>5, Zenon DEF Others, Next
<1> QED
  BY <1>1, <1>2, <1>3, <1>4, <1>5 DEF InfoNext, InfoStep

\* A behaviour of get_info() is one of ResultCursor.
LEMMA InfoImplements == InfoSpec => Spec
<1>1. InfoInit => Init
  BY Zenon DEF InfoInit
<1> QED
  BY <1>1, InfoReadsOn, PTL DEF InfoSpec, Spec

\* The replies of the cursor agree, and the stream is read as ResultStream promises,
\* with GrainliftInfoReader for an application too.
THEOREM InfoReadsTheStream == InfoSpec => ReadsTheStream /\ []AnswersAgree
BY InfoImplements, StreamRead, RepliesAgree, PTL

\* What has been read are the first batches, and all of them at the end.
ReadInv ==
  /\ Len(read) <= produced
  /\ \A i \in 1 .. Len(read) : read[i] = i
  /\ phase = "ended" => Len(read) = produced /\ reader = "ended"

\* A stream that keeps its promise is read in order.
LEMMA StreamOrder ==
  ASSUME Inv, ReadInv, Stream!Next \/ UNCHANGED Stream!vars
  PROVE  ReadInv'
<1>1. read \in Seq(1..MaxBatches) /\ Len(read) \in Nat /\ produced \in Nat
  BY CursorAssumption DEF Inv, TypeOK
<1>2. (Outcome = "ended" <=> phase = "ended") /\ (Outcome' = "ended" <=> phase' = "ended")
  BY Zenon DEF Outcome
<1>3. CASE UNCHANGED Stream!vars
  BY <1>2, <1>3, Zenon DEF Stream!vars, ReadInv
<1>4. CASE Stream!Produce
  BY <1>1, <1>2, <1>4 DEF Stream!Produce, ReadInv
<1>5. CASE Stream!Deliver
  <2>1. read' = Append(read, Len(read) + 1) /\ Outcome' # "ended" /\ Len(read') <= produced'
    BY <1>1, <1>5 DEF Stream!Deliver
  <2>2. \A i \in 1 .. Len(read') : read'[i] = i
    BY <1>1, <2>1 DEF ReadInv
  <2> QED
    BY <1>2, <2>1, <2>2, Zenon DEF ReadInv
<1>6. CASE Stream!End \/ Stream!Fail
  BY <1>2, <1>6, Zenon DEF Stream!End, Stream!Fail, ReadInv
<1> QED
  BY <1>3, <1>4, <1>5, <1>6, Zenon DEF Stream!Next

\* The batches are read in order.
LEMMA ReadInOrder == Spec => [](Inv /\ ReadInv)
<1>1. Init => ReadInv
  BY DEF Init, ReadInv
<1>2. Inv /\ ReadInv /\ [Next]_vars => ReadInv'
  BY StepSimulates, StreamOrder, Zenon
<1> QED
  BY <1>1, <1>2, Invariant, PTL DEF Spec

--------------------------------------------------------------------------------
(* The rows of get_info().                                                  *)

\* What has been given and what is waiting to be are the answer so far.
Answered == Concat(given) \o Concat(runs) = Complete(Len(read))

\* The driver's own batch is the first to be given; from then on what has been given
\* and what waits are the answer to the batches read, and no batch is empty.
RowsInv ==
  /\ given \in Seq(Rows) /\ runs \in Seq(Rows)
  /\ contents \in Contents \cup {NoColumn}
  /\ phase \in {"new", "opening"} => own = None /\ given = <<>> /\ runs = <<>>
  /\ own # None => /\ own = Some(OwnRows(codes)) /\ OwnRows(codes) # <<>>
                   /\ given = <<>> /\ runs = <<>> /\ Len(read) = 0
                   /\ phase \in {"reading", "done", "dropped"}
  /\ runs # <<>> => phase \in {"reading", "dropped"}
  /\ contents # NoColumn /\ (given # <<>> \/ runs # <<>>) => Answered
  /\ contents # NoColumn /\ own = None /\ phase \in {"reading", "done", "ended"} => Answered

\* Complete() is about the codes and the contents.
LEMMA CompleteIs == \A n : Complete(n) = CompleteOf(codes, contents, n)
BY Zenon DEF Complete, CompleteOf, NotOwn

\* The contents are rows.
LEMMA ContentsRows ==
  ASSUME RowsInv, contents # NoColumn
  PROVE  contents \in [1 .. MaxBatches -> Seq(Nat)]
BY InfoAssumption, Zenon DEF RowsInv

\* With nothing given and nothing waiting.
LEMMA NothingGiven ==
  ASSUME given = <<>>, runs = <<>>
  PROVE  Concat(given) = <<>> /\ Concat(given) \o Concat(runs) = <<>>
<1>1. <<>> \o <<>> = <<>>
  OBVIOUS
<1> QED
  BY <1>1, ConcatEmpty, Zenon

\* Steps of the others: the server, a failure, a drop.
LEMMA OthersRows ==
  ASSUME Inv, RowsInv, Others \/ UNCHANGED allVars
  PROVE  RowsInv'
<1>1. UNCHANGED infoVars
  BY Zenon DEF Others, allVars
<1>2. UNCHANGED read
  BY Zenon DEF Others, allVars, vars, client, Handle, TimesOut, ReadBatch, ReadError, ReadEnd,
         Served, Invalidate, TransportFails, Drop
<1>3. \/ UNCHANGED phase
      \/ phase = "opening" /\ phase' = "failed"
      \/ phase \in {"reading", "done"} /\ phase' = "dropped"
  BY Zenon DEF Others, allVars, vars, client, Handle, TimesOut, ReadBatch, ReadError, ReadEnd,
         Served, Invalidate, TransportFails, Drop
<1>4. Answered' <=> Answered
  BY <1>1, <1>2, Zenon DEF Answered, infoVars, Complete
<1> QED
  BY <1>1, <1>2, <1>3, <1>4 DEF RowsInv, infoVars

\* The response is decoded, and the reader opened.
LEMMA OpenReaderRows ==
  ASSUME Inv, RowsInv, DecodeResponse \/ OpenReader
  PROVE  RowsInv'
<1>1. CASE DecodeResponse
  <2>1. Answered' <=> Answered
    BY <1>1, Zenon DEF DecodeResponse, vars, client, Answered, Complete
  <2> QED
    BY <1>1, <2>1, Zenon DEF DecodeResponse, vars, client, RowsInv
<1>2. CASE OpenReader
  BY <1>2, Zenon DEF OpenReader, Open, RowsInv
<1> QED
  BY <1>1, <1>2, Zenon

\* get_info() returns: the driver's rows are the first to be given.
LEMMA OpenReturnsRows ==
  ASSUME Inv, RowsInv, OpenReturns
  PROVE  RowsInv'
<1>1. /\ phase = "opening" /\ phase' \in {"reading", "done", "failed"}
      /\ UNCHANGED <<read, codes, contents, runs, given>>
      /\ own' = IF phase' = "failed" THEN None ELSE InfoBatch(codes)
  BY Zenon DEF OpenReturns, OpenGets
<1>2. given = <<>> /\ runs = <<>> /\ Len(read) = 0
  BY <1>1, Zenon DEF RowsInv, Inv, ClientInv
<1>3. own' # None => own' = Some(OwnRows(codes)) /\ OwnRows(codes) # <<>> /\ phase' # "failed"
  BY <1>1, Zenon DEF InfoBatch
<1>4. ASSUME own' = None, phase' # "failed"
      PROVE  Answered'
  <2>1. OwnRows(codes) = <<>>
    BY <1>1, <1>4, SomeFacts, Zenon DEF InfoBatch
  <2>2. CompleteOf(codes, contents, 0) = <<>>
    BY <2>1, CompleteAtFirst
  <2>3. Concat(given) \o Concat(runs) = Complete(0)
    BY <1>2, <2>2, CompleteIs, NothingGiven, Zenon
  <2> QED
    BY <1>1, <1>2, <2>3 DEF Answered, Complete
<1> QED
  BY <1>1, <1>2, <1>3, <1>4, SMTT(30) DEF RowsInv

\* The driver's own batch is given.
LEMMA NextOwnRows ==
  ASSUME Inv, RowsInv, NextOwn
  PROVE  RowsInv'
<1> DEFINE rows == OwnRows(codes)
<1>1. /\ own = Some(rows) /\ rows # <<>> /\ given = <<>> /\ runs = <<>> /\ Len(read) = 0
      /\ given' = Append(given, own[1]) /\ own' = None /\ phase \in {"reading", "done"}
      /\ UNCHANGED <<phase, read, codes, contents, runs>>
  BY Zenon DEF NextOwn, RowsInv, vars, client
<1>2. own[1] = rows /\ rows \in Seq(Nat)
  BY <1>1, SomeFacts, OwnRowsAreRows, Zenon
<1>3. given' = Append(<<>>, rows)
  BY <1>1, <1>2, Zenon
<1>4. given' \in Seq(Rows) /\ <<>> \in Batches
  BY <1>1, <1>2, <1>3 DEF Rows, Batches
<1>5. Concat(given') = <<>> \o rows
  BY <1>2, <1>3, <1>4, ConcatAppend, ConcatEmpty, Zenon
<1>6. Concat(given') = rows /\ rows \o <<>> = rows
  BY <1>2, <1>5
<1>7. CompleteOf(codes, contents, 0) = rows
  BY CompleteAtFirst, Zenon
<1>8. Concat(given') \o Concat(runs) = Complete(0)
  BY <1>1, <1>6, <1>7, ConcatEmpty, CompleteIs, Zenon
<1>9. Answered'
  BY <1>1, <1>8, SMTT(30) DEF Answered, Complete
<1> QED
  BY <1>1, <1>4, <1>9, SMTT(30) DEF RowsInv

\* What is given and what waits are sequences of batches, and so is what is given next.
LEMMA GiveFirst ==
  ASSUME NEW g \in Seq(Rows), NEW w \in Seq(Rows), w # <<>>
  PROVE  /\ Append(g, Head(w)) \in Seq(Rows) /\ Tail(w) \in Seq(Rows)
         /\ Concat(Append(g, Head(w))) \o Concat(Tail(w)) = Concat(g) \o Concat(w)
<1>1. Append(g, Head(w)) \in Seq(Rows) /\ Tail(w) \in Seq(Rows)
  OBVIOUS
<1>2. g \in Batches /\ w \in Batches
  BY RowsAreBatches, Zenon
<1>3. /\ Head(w) \in Seq(Nat) /\ Tail(w) \in Batches
      /\ Concat(w) = Head(w) \o Concat(Tail(w))
  BY <1>2, ConcatHead
<1>4. Concat(Append(g, Head(w))) = Concat(g) \o Head(w)
  BY <1>2, <1>3, ConcatAppend, Zenon
<1>5. Concat(g) \in Seq(Nat) /\ Concat(Tail(w)) \in Seq(Nat)
  BY <1>2, <1>3, UpToExists, ConcatIsLast, Zenon
<1>6. (Concat(g) \o Head(w)) \o Concat(Tail(w)) = Concat(g) \o (Head(w) \o Concat(Tail(w)))
  BY <1>3, <1>5, Associative, Zenon
<1> QED
  BY <1>1, <1>3, <1>4, <1>6, Zenon

\* The next run that waits is given.
LEMMA NextRunRows ==
  ASSUME Inv, RowsInv, NextRun
  PROVE  RowsInv'
<1>1. /\ phase = "reading" /\ own = None /\ runs # <<>>
      /\ given' = Append(given, Head(runs)) /\ runs' = Tail(runs)
      /\ UNCHANGED <<phase, read, codes, contents, own>>
  BY Zenon DEF NextRun, vars, client
<1>2. /\ given' \in Seq(Rows) /\ runs' \in Seq(Rows)
      /\ Concat(given') \o Concat(runs') = Concat(given) \o Concat(runs)
  <2>1. given \in Seq(Rows) /\ runs \in Seq(Rows)
    BY Zenon DEF RowsInv
  <2> QED
    BY <1>1, <2>1, GiveFirst, Zenon
<1>3. Answered' <=> Answered
  BY <1>1, <1>2, Zenon DEF Answered, Complete
<1> QED
  BY <1>1, <1>2, <1>3, SMTT(30) DEF RowsInv

\* What a call of the remote reader may do: it reads the next batch, or none.
ReadsOn ==
  /\ phase \in {"reading", "done"}
  /\ \/ read' = read /\ phase' \in {phase, "ended", "failed"}
     \/ /\ read' = Append(read, Len(read) + 1) /\ Len(read) + 1 <= MaxBatches
        /\ phase = "reading" /\ phase' = "reading"

\* The remote reader's next() does.
LEMMA DownstreamReads ==
  ASSUME Inv, NextDownstream
  PROVE  ReadsOn
<1>1. read \in Seq(1..MaxBatches) /\ Len(read) \in Nat /\ produced \in 0 .. MaxBatches
  BY DEF Inv, TypeOK
<1>2. CASE NextRequest \/ NextDone \/ (TransportFails /\ phase = "reading")
  BY <1>2, Zenon DEF NextRequest, NextDone, TransportFails, ReadsOn
<1>3. CASE NextPending
  <2>1. pending = Some(1) /\ Len(read) = 0 /\ produced > 0
    BY <1>3, Zenon DEF Inv, ClientInv, NextPending
  <2>2. pending[1] = Len(read) + 1 /\ Len(read) + 1 <= MaxBatches
    <3>1. pending[1] = 1
      BY <2>1, SomeFacts, Zenon
    <3> QED
      BY <1>1, <2>1, <3>1, CursorAssumption
  <2> QED
    BY <1>3, <2>2 DEF NextPending, ReadsOn
<1>4. ASSUME NEW r \in replies, NextGets(r)
      PROVE  ReadsOn
  <2>1. awaited = Some(r.sequence)
    BY <1>4, Zenon DEF NextGets
  <2>2. r.kind = "data" => r.batch = Len(read) + 1 /\ r.batch \in 1..MaxBatches
    BY <2>1, AwaitedReply, Zenon
  <2> QED
    BY <1>1, <1>4, <2>2 DEF NextGets, ReadsOn
<1>5. \/ NextPending \/ NextRequest \/ NextDone
      \/ \E r \in replies : NextGets(r)
      \/ TransportFails /\ phase = "reading"
  BY Zenon DEF NextDownstream
<1> QED
  BY <1>2, <1>3, <1>4, <1>5, Zenon

\* What is found in the next batch completes the answer to it.
LEMMA BatchAnswers ==
  ASSUME NEW cs, NEW ct \in [1 .. MaxBatches -> Seq(Nat)], NEW n \in Nat, n + 1 <= MaxBatches,
         NEW g \in Seq(Rows), Concat(g) = CompleteOf(cs, ct, n)
  PROVE  /\ Runs(ct[n + 1]) \in Seq(Rows)
         /\ Concat(g) \o Concat(Runs(ct[n + 1])) = CompleteOf(cs, ct, n + 1)
<1>1. ct[n + 1] \in Seq(Nat)
  BY CursorAssumption
<1> QED
  BY <1>1, RunsExact, CompleteNext, Zenon

\* The remote reader is called.
LEMMA NextDownstreamRows ==
  ASSUME Inv, RowsInv, NextDownstream
  PROVE  RowsInv'
<1>1. /\ own = None /\ runs = <<>> /\ UNCHANGED <<codes, contents, own>>
      /\ phase \in {"reading", "done"} /\ given \in Seq(Rows)
      /\ contents # NoColumn => Answered
  BY DownstreamReads, Zenon DEF NextDownstream, RowsInv, ReadsOn
<1>2. CASE read' = read /\ phase' \in {phase, "ended", "failed"}
  <2>1. UNCHANGED <<runs, given>>
    BY <1>2, Zenon DEF NextDownstream
  <2>2. Answered' <=> Answered
    BY <1>1, <1>2, <2>1, Zenon DEF Answered, Complete
  <2> QED
    BY <1>1, <1>2, <2>1, <2>2, Zenon DEF RowsInv
<1>3. CASE /\ read' = Append(read, Len(read) + 1) /\ Len(read) + 1 <= MaxBatches
           /\ phase = "reading" /\ phase' = "reading"
  <2> DEFINE n == Len(read)
             found == Runs(contents[n + 1])
  <2>1. n \in Nat /\ Len(read') = n + 1 /\ read'[n + 1] = n + 1 /\ Len(read') # n
    BY <1>3, SMTT(30) DEF Inv, TypeOK
  <2>2. CASE contents = NoColumn
    <3>1. UNCHANGED <<runs, given>>
      BY <2>1, <2>2, SMTT(30) DEF NextDownstream
    <3> QED
      BY <1>1, <1>3, <2>2, <3>1, SMTT(30) DEF RowsInv
  <2>3. CASE contents # NoColumn
    <3>1. /\ runs' = IF found = <<>> THEN found ELSE Tail(found)
          /\ given' = IF found = <<>> THEN given ELSE Append(given, Head(found))
      BY <2>1, <2>3 DEF NextDownstream
    <3>2. Concat(given) \in Seq(Nat) /\ Concat(given) \o <<>> = Concat(given)
      <4>1. Concat(given) \in Seq(Nat)
        BY <1>1, RowsAreBatches, UpToExists, ConcatIsLast, Zenon
      <4> QED
        BY <4>1
    <3>3. Concat(given) = CompleteOf(codes, contents, n)
      BY <1>1, <2>3, <3>2, ConcatEmpty, CompleteIs, Zenon DEF Answered
    <3>4. contents \in [1 .. MaxBatches -> Seq(Nat)]
      BY <2>3, ContentsRows
    <3>5. /\ found \in Seq(Rows)
          /\ Concat(given) \o Concat(found) = CompleteOf(codes, contents, n + 1)
      BY <1>1, <1>3, <2>1, <3>3, <3>4, BatchAnswers, Zenon
    <3> HIDE DEF n, found
    <3>6. /\ given' \in Seq(Rows) /\ runs' \in Seq(Rows)
          /\ Concat(given') \o Concat(runs') = Concat(given) \o Concat(found)
      <4>1. CASE found = <<>>
        BY <1>1, <3>1, <3>5, <4>1
      <4>2. CASE found # <<>>
        <5>1. given' = Append(given, Head(found)) /\ runs' = Tail(found)
          BY <3>1, <4>2
        <5> QED
          BY <1>1, <3>5, <4>2, <5>1, GiveFirst, Zenon
      <4> QED
        BY <4>1, <4>2, SMTT(30)
    <3>7. Concat(given') \o Concat(runs') = Complete(n + 1)
      BY <3>5, <3>6, CompleteIs, Zenon
    <3>8. Answered'
      BY <1>1, <2>1, <3>7 DEF Answered, Complete
    <3> QED
      BY <1>1, <1>3, <3>6, <3>8, SMTT(30) DEF RowsInv
  <2> QED
    BY <2>2, <2>3, Zenon
<1> QED
  BY <1>2, <1>3, DownstreamReads, Zenon DEF ReadsOn

\* The invariant holds of get_info().
LEMMA RowsInvariant == InfoSpec => [](Inv /\ ReadInv /\ RowsInv)
<1>1. InfoInit => RowsInv
  <2>1. <<>> \in Seq(Rows)
    OBVIOUS
  <2> QED
    BY <2>1, Zenon DEF InfoInit, Init, RowsInv
<1>2. Inv /\ RowsInv /\ [InfoNext]_allVars => RowsInv'
  BY OthersRows, OpenReaderRows, OpenReturnsRows, NextOwnRows, NextRunRows,
     NextDownstreamRows, SMTT(30)
     DEF InfoNext, InfoStep
<1> QED
  BY <1>1, <1>2, InfoImplements, ReadInOrder, PTL DEF InfoSpec

\* GrainliftInfoReader::next() gives the rows of the answer in order, none twice and no
\* batch empty, and all of them by the end: for any codes of the driver's, any contents
\* of any number of batches, and however the runs in them lie.
THEOREM InfoRowsAreExact == InfoSpec => []InfoRowsExact
<1>1. Inv /\ ReadInv /\ RowsInv => InfoRowsExact
  <2> SUFFICES ASSUME Inv, ReadInv, RowsInv, contents # NoColumn
               PROVE  LET rows == Concat(given)
                      IN  /\ Len(rows) <= Len(Complete(produced))
                          /\ rows = SubSeq(Complete(produced), 1, Len(rows))
                          /\ \A i \in DOMAIN given : given[i] # <<>>
                          /\ phase = "ended" /\ ~errors => rows = Complete(produced)
    BY Zenon DEF InfoRowsExact
  <2> DEFINE rows == Concat(given)
             waiting == Concat(runs)
             all == Complete(produced)
  <2>1. given \in Seq(Rows) /\ runs \in Seq(Rows)
    BY Zenon DEF RowsInv
  <2>2. rows \in Seq(Nat) /\ waiting \in Seq(Nat)
    BY <2>1, RowsAreBatches, UpToExists, ConcatIsLast, ZenonT(30)
  <2>3. Len(read) \in 0 .. MaxBatches /\ produced \in Len(read) .. MaxBatches
    <3>1. /\ produced \in 0 .. MaxBatches /\ read \in Seq(1 .. MaxBatches)
          /\ Len(read) <= produced
      BY Zenon DEF Inv, TypeOK, ClientInv
    <3> QED
      BY <3>1, CursorAssumption
  <2>4. /\ Complete(Len(read)) \in Seq(Nat)
        /\ \E rest \in Seq(Nat) : all = Complete(Len(read)) \o rest
    BY <2>3, ContentsRows, CompleteGrows, CompleteIs, Zenon
  <2>5. PICK rest \in Seq(Nat) : all = Complete(Len(read)) \o rest
    BY <2>4, ZenonT(30)
  <2>6. \A i \in DOMAIN given : given[i] # <<>>
    BY <2>1 DEF Rows
  <2>7. \E more \in Seq(Nat) : all = rows \o more
    <3>1. CASE given = <<>>
      <4>1. rows = <<>>
        BY <3>1, ConcatEmpty, Zenon
      <4>2. all \in Seq(Nat)
        BY <2>4, <2>5
      <4>3. all = <<>> \o all
        BY <4>2
      <4> QED
        BY <4>1, <4>2, <4>3, Zenon
    <3>2. CASE given # <<>>
      <4>1. Complete(Len(read)) = rows \o waiting
        BY <3>2, Zenon DEF RowsInv, Answered
      <4> HIDE DEF all, rows, waiting
      <4>2. (rows \o waiting) \o rest = rows \o (waiting \o rest)
        BY <2>2, Associative, Zenon
      <4>3. waiting \o rest \in Seq(Nat)
        BY <2>2
      <4> QED
        BY <2>5, <4>1, <4>2, <4>3, Zenon
    <3> QED
      BY <3>1, <3>2, Zenon
  <2>8. Len(rows) <= Len(all) /\ SubSeq(all, 1, Len(rows)) = rows
    BY <2>2, <2>7, Beginning, Zenon
  <2>9. ASSUME phase = "ended"
        PROVE  rows = all
    <3>1. runs = <<>> /\ own = None /\ Len(read) = produced
      BY <2>9, Zenon DEF RowsInv, ReadInv
    <3>2. rows \o waiting = all
      BY <2>9, <3>1, Zenon DEF RowsInv, Answered
    <3>3. waiting = <<>>
      BY <3>1, ConcatEmpty
    <3> QED
      BY <2>2, <3>2, <3>3
  <2> QED
    BY <2>6, <2>8, <2>9, ZenonT(30)
<1> QED
  BY <1>1, RowsInvariant, PTL

\* The response is a payload, and was decoded as it is.
ResponseInv ==
  /\ response # None => \E b \in Seq(Words) : response = Some(b)
  /\ response # None /\ decoded # None => decoded = Some(DecodeBatchIpc(response[1]))
  /\ response = None => decoded # None

\* It stays so.
LEMMA ResponseInvariant == InfoSpec => []ResponseInv
<1>1. InfoInit => ResponseInv
  <2> SUFFICES ASSUME InfoInit PROVE ResponseInv
    BY Zenon
  <2>1. PICK b \in Payloads : response = Some(b)
    BY Zenon DEF InfoInit
  <2>2. b \in Seq(Words)
    BY <2>1, InfoAssumption, Zenon
  <2>3. decoded = None /\ response # None
    BY <2>1, SomeFacts, Zenon DEF InfoInit
  <2> QED
    BY <2>1, <2>2, <2>3, Zenon DEF ResponseInv
<1>2. ResponseInv /\ [InfoNext]_allVars => ResponseInv'
  <2> SUFFICES ASSUME ResponseInv, [InfoNext]_allVars PROVE ResponseInv'
    BY Zenon
  <2>1. CASE DecodeResponse
    <3>1. decoded = None /\ decoded' = Some(DecodeBatchIpc(response[1])) /\ response' = response
      BY <2>1, Zenon DEF DecodeResponse
    <3> QED
      BY <3>1, SomeFacts, Zenon DEF ResponseInv
  <2>2. CASE OpenReader
    <3>1. response' = None /\ decoded = Some(TRUE) /\ decoded' = decoded
      BY <2>2, Zenon DEF OpenReader
    <3> QED
      BY <3>1, SomeFacts, Zenon DEF ResponseInv
  <2>3. CASE OpenReturns \/ NextOwn \/ NextRun \/ NextDownstream \/ Others \/ UNCHANGED allVars
    <3>1. response' = response /\ decoded' = decoded
      BY <2>3, Zenon DEF OpenReturns, NextOwn, NextRun, NextDownstream, Others, allVars, infoVars
    <3> QED
      BY <3>1, Zenon DEF ResponseInv
  <2> QED
    BY <2>1, <2>2, <2>3, Zenon DEF InfoNext, InfoStep
<1> QED
  BY <1>1, <1>2, PTL DEF InfoSpec

\* decode_batch_ipc() accepts a response exactly if it is one complete stream of one
\* batch within the limit, for payloads of any length and any words.
THEOREM FramesAlwaysAgree == InfoSpec => []FramesAgree
<1>1. ResponseInv => FramesAgree
  <2> SUFFICES ASSUME ResponseInv, response # None, decoded # None
               PROVE  decoded[1] = IsOneBatch(response[1])
    BY Zenon DEF FramesAgree
  <2>1. PICK b \in Seq(Words) : response = Some(b)
    BY Zenon DEF ResponseInv
  <2>2. response[1] = b
    BY <2>1, SomeFacts, Zenon
  <2>3. decoded = Some(DecodeBatchIpc(b))
    BY <2>2, Zenon DEF ResponseInv
  <2>4. decoded[1] = DecodeBatchIpc(b)
    BY <2>3, SomeFacts, Zenon
  <2> QED
    BY <2>2, <2>4, DecodingExact, Zenon
<1> QED
  BY <1>1, ResponseInvariant, PTL

================================================================================

----------------------- MODULE DirectoryListingProofs -----------------------
(***************************************************************************)
(* The proofs about UriCoding and DirectoryListing.                        *)
(***************************************************************************)
EXTENDS DirectoryListing, SharedLemmas, SequenceTheorems

----------------------------------------------------------------------------
(* Sequences one element longer at a time.                                 *)

LEMMA Longer ==
  ASSUME NEW T, NEW s \in Seq(T), NEW e \in T
  PROVE  /\ Append(s, e) \in Seq(T) /\ Len(Append(s, e)) = Len(s) + 1
         /\ Append(s, e)[Len(s) + 1] = e
         /\ \A i \in 1 .. Len(s) : Append(s, e)[i] = s[i]
         /\ Front(Append(s, e)) = s /\ Last(Append(s, e)) = e
         /\ Append(s, e) # <<>>
<1>1. /\ Append(s, e) \in Seq(T) /\ Len(Append(s, e)) = Len(s) + 1
      /\ Append(s, e)[Len(s) + 1] = e
      /\ \A i \in 1 .. Len(s) : Append(s, e)[i] = s[i]
      /\ Append(s, e) # <<>>
  BY AppendProperties
<1>2. Front(Append(s, e)) = s
  BY DEF Front
<1> QED
  BY <1>1, <1>2 DEF Last

LEMMA Shorter ==
  ASSUME NEW T, NEW s \in Seq(T), s # <<>>
  PROVE  /\ Front(s) \in Seq(T) /\ Last(s) \in T /\ s = Append(Front(s), Last(s))
         /\ Len(Front(s)) = Len(s) - 1 /\ Len(s) > 0
<1>1. PICK t \in Seq(T), e \in T : s = Append(t, e)
  BY SequenceEmptyOrAppend
<1>2. Front(s) = t /\ Last(s) = e /\ Len(s) = Len(t) + 1 /\ Len(t) \in Nat
  BY <1>1, Longer
<1> QED
  BY <1>1, <1>2

\* A set with the empty sequence and, with each sequence, those one element
\* longer has all of them.
LEMMA Lengthening ==
  ASSUME NEW T, NEW P, <<>> \in P,
         \A s \in Seq(T), e \in T : s \in P => Append(s, e) \in P
  PROVE  \A s \in Seq(T) : s \in P
<1> DEFINE S == {n \in Nat : \A s \in Seq(T) : Len(s) = n => s \in P}
<1>1. 0 \in S
  BY EmptySeq
<1>2. ASSUME NEW n \in Nat, n \in S PROVE n + 1 \in S
  <2>1. ASSUME NEW s \in Seq(T), Len(s) = n + 1 PROVE s \in P
    <3>1. s # <<>>
      BY <2>1, EmptySeq
    <3>2. /\ Front(s) \in Seq(T) /\ Last(s) \in T /\ s = Append(Front(s), Last(s))
          /\ Len(Front(s)) = n
      BY <2>1, <3>1, Shorter
    <3>3. Front(s) \in P
      BY <1>2, <3>2
    <3> QED BY <3>2, <3>3
  <2> QED BY <2>1
<1>3. ASSUME NEW s \in Seq(T) PROVE s \in P
  <2>1. Len(s) \in Nat
    OBVIOUS
  <2>2. 0 .. Len(s) \subseteq S
    <3> HIDE DEF S
    <3>1. \A n \in 0 .. Len(s) - 1 : n \in S => n + 1 \in S
      BY <1>2
    <3> QED BY <1>1, <2>1, <3>1, Upward, 0 \in Nat
  <2> QED BY <2>1, <2>2
<1> QED
  BY <1>3

LEMMA JoinedLonger ==
  ASSUME NEW T, NEW s \in Seq(T), NEW t \in Seq(T), NEW e \in T
  PROVE  Joined(s, Append(t, e)) = Append(Joined(s, t), e)
<1>1. Append(t, e) = t \o <<e>> /\ Append(s \o t, e) = (s \o t) \o <<e>>
  BY AppendIsConcat, ConcatProperties
<1>2. <<e>> \in Seq(T)
  OBVIOUS
<1>3. (s \o t) \o <<e>> = s \o (t \o <<e>>)
  BY <1>2, ConcatAssociative
<1> QED
  BY <1>1, <1>3, Zenon DEF Joined

LEMMA JoinedOne ==
  ASSUME NEW T, NEW s \in Seq(T), NEW e \in T
  PROVE  Joined(s, <<e>>) = Append(s, e)
BY AppendIsConcat DEF Joined

----------------------------------------------------------------------------
(* What a text makes of a value, element by element.                       *)

Folds(g, x, s, f) ==
  f[0] = x /\ \A i \in 1 .. Len(s) : f[i] = g[f[i - 1]][s[i]]

Folded(g, x, s) == (CHOOSE f : Folds(g, x, s, f))[Len(s)]

LEMMA FoldAt ==
  ASSUME NEW g, NEW x, NEW s, NEW f, Folds(g, x, s, f), NEW n, Len(s) = n
  PROVE  f[0] = x /\ \A i \in 1 .. n : f[i] = g[f[i - 1]][s[i]]
BY Zenon DEF Folds

\* There is such a function,
LEMMA FoldExists ==
  ASSUME NEW X, NEW D, NEW x \in X, NEW g \in [X -> [D -> X]]
  PROVE  \A s \in Seq(D) : \E f \in [0 .. Len(s) -> X] : Folds(g, x, s, f)
<1> DEFINE P == {s \in Seq(D) : \E f \in [0 .. Len(s) -> X] : Folds(g, x, s, f)}
<1>1. <<>> \in P
  <2>1. [i \in 0 .. 0 |-> x] \in [0 .. 0 -> X]
    OBVIOUS
  <2>2. <<>> \in Seq(D) /\ Len(<<>>) = 0
    BY EmptySeq
  <2>3. PICK f : f = [i \in 0 .. 0 |-> x]
    OBVIOUS
  <2>4. f[0] = x /\ 1 .. 0 = {}
    BY <2>3
  <2>5. Folds(g, x, <<>>, f)
    BY <2>2, <2>4, Zenon DEF Folds
  <2> QED BY <2>1, <2>2, <2>3, <2>5, Zenon
<1>2. ASSUME NEW s \in Seq(D), NEW e \in D, s \in P PROVE Append(s, e) \in P
  <2>1. PICK f \in [0 .. Len(s) -> X] : Folds(g, x, s, f)
    BY <1>2
  <2>2. PICK t : t = Append(s, e)
    OBVIOUS
  <2>3. /\ t \in Seq(D) /\ Len(t) = Len(s) + 1 /\ t[Len(s) + 1] = e
        /\ \A i \in 1 .. Len(s) : t[i] = s[i]
    BY <2>2, Longer
  <2>4. PICK n \in Nat : n = Len(s)
    OBVIOUS
  <2>5. PICK h : h = [i \in 0 .. n + 1 |-> IF i = n + 1 THEN g[f[n]][e] ELSE f[i]]
    OBVIOUS
  <2>6. h \in [0 .. Len(t) -> X]
    <3>1. f \in [0 .. n -> X]
      BY <2>1, <2>4
    <3>2. g[f[n]][e] \in X
      BY <3>1
    <3>3. h \in [0 .. n + 1 -> X]
      BY <2>5, <3>1, <3>2
    <3> QED BY <3>3, <2>3, <2>4
  <2>7. h[0] = x
    BY <2>1, <2>4, <2>5 DEF Folds
  <2>8. ASSUME NEW i \in 1 .. Len(t) PROVE h[i] = g[h[i - 1]][t[i]]
    <3>1. CASE i = n + 1
      <4>1. h[i] = g[f[n]][e] /\ h[i - 1] = f[n] /\ t[i] = e
        BY <3>1, <2>3, <2>4, <2>5
      <4> QED BY <4>1
    <3>2. CASE i \in 1 .. n
      <4>1. h[i] = f[i] /\ h[i - 1] = f[i - 1]
        BY <3>2, <2>5
      <4>2. t[i] = s[i]
        BY <3>2, <2>3, <2>4
      <4>3. \A j \in 1 .. n : f[j] = g[f[j - 1]][s[j]]
        <5>1. Folds(g, x, s, f) /\ Len(s) = n
          BY <2>1, <2>4
        <5> QED BY <5>1, Zenon DEF Folds
      <4>4. f[i] = g[f[i - 1]][s[i]]
        BY <3>2, <4>3, Zenon
      <4> QED BY <4>1, <4>2, <4>4
    <3> QED BY <3>1, <3>2, <2>3, <2>4
  <2> QED BY <2>2, <2>3, <2>6, <2>7, <2>8 DEF Folds
<1> HIDE DEF P
<1>3. \A s \in Seq(D) : s \in P
  BY <1>1, <1>2, Lengthening
<1> QED
  BY <1>3 DEF P

\* and its last value depends on nothing else.
LEMMA FoldUnique ==
  ASSUME NEW g, NEW x, NEW n \in Nat, NEW s, Len(s) = n,
         NEW f, NEW h, Folds(g, x, s, f), Folds(g, x, s, h)
  PROVE  \A i \in 0 .. n : f[i] = h[i]
<1> DEFINE S == {i \in Nat : f[i] = h[i]}
<1>1. 0 \in S
  BY Zenon, 0 \in Nat DEF Folds
<1>2. ASSUME NEW i \in 0 .. n - 1, i \in S PROVE i + 1 \in S
  <2>1. i + 1 \in 1 .. n /\ (i + 1) - 1 = i /\ i + 1 \in Nat
    OBVIOUS
  <2>2. f[i + 1] = g[f[(i + 1) - 1]][s[i + 1]] /\ h[i + 1] = g[h[(i + 1) - 1]][s[i + 1]]
    BY <2>1, FoldAt
  <2>3. f[i + 1] = h[i + 1]
    BY <1>2, <2>1, <2>2
  <2> QED BY <2>1, <2>3
<1>3. 0 .. n \subseteq S
  <2> HIDE DEF S
  <2> QED BY <1>1, <1>2, Upward, 0 \in Nat
<1> QED
  BY <1>3

LEMMA FoldIs ==
  ASSUME NEW g, NEW x, NEW n \in Nat, NEW s, Len(s) = n,
         NEW f, Folds(g, x, s, f)
  PROVE  Folded(g, x, s) = f[n]
<1>1. Folds(g, x, s, CHOOSE h : Folds(g, x, s, h))
  BY Zenon
<1>2. n \in 0 .. n
  OBVIOUS
<1>3. \A i \in 0 .. n : (CHOOSE h : Folds(g, x, s, h))[i] = f[i]
  <2>1. PICK h : h = CHOOSE k : Folds(g, x, s, k)
    OBVIOUS
  <2>2. Folds(g, x, s, h)
    BY <1>1, <2>1
  <2>3. \A i \in 0 .. n : h[i] = f[i]
    BY <2>2, FoldUnique
  <2> QED BY <2>1, <2>3
<1> QED
  BY <1>2, <1>3, Zenon DEF Folded

Stepper(g, X, D) == g \in [X -> [D -> X]]

StepByStep(g, x, X, D) ==
  /\ Folded(g, x, <<>>) = x
  /\ \A s \in Seq(D) : Folded(g, x, s) \in X
  /\ \A s \in Seq(D), e \in D : Folded(g, x, Append(s, e)) = g[Folded(g, x, s)][e]

LEMMA FoldSteps ==
  ASSUME NEW X, NEW D, NEW x \in X, NEW g, Stepper(g, X, D)
  PROVE  StepByStep(g, x, X, D)
<1>0. g \in [X -> [D -> X]]
  BY DEF Stepper
<1>1. ASSUME NEW s \in Seq(D)
      PROVE  \E f \in [0 .. Len(s) -> X] : Folds(g, x, s, f) /\ Folded(g, x, s) = f[Len(s)]
  <2>1. PICK f \in [0 .. Len(s) -> X] : Folds(g, x, s, f)
    BY <1>0, FoldExists
  <2>2. Folded(g, x, s) = f[Len(s)]
    BY <2>1, FoldIs, LenProperties
  <2> QED BY <2>1, <2>2
<1>2. Folded(g, x, <<>>) = x
  <2>1. <<>> \in Seq(D) /\ Len(<<>>) = 0
    BY EmptySeq
  <2>2. PICK f : Folds(g, x, <<>>, f) /\ Folded(g, x, <<>>) = f[0]
    BY <2>1, <1>1
  <2> QED BY <2>2, Zenon DEF Folds
<1>3. ASSUME NEW s \in Seq(D) PROVE Folded(g, x, s) \in X
  <2>1. PICK f \in [0 .. Len(s) -> X] : Folded(g, x, s) = f[Len(s)]
    BY <1>1
  <2>2. Len(s) \in 0 .. Len(s)
    OBVIOUS
  <2> QED BY <2>1, <2>2
<1>4. ASSUME NEW s \in Seq(D), NEW e \in D
      PROVE  Folded(g, x, Append(s, e)) = g[Folded(g, x, s)][e]
  <2>1. PICK t : t = Append(s, e)
    OBVIOUS
  <2>2. PICK n \in Nat : n = Len(s)
    OBVIOUS
  <2>3. /\ t \in Seq(D) /\ Len(t) = n + 1 /\ t[n + 1] = e
        /\ \A i \in 1 .. n : t[i] = s[i]
    BY <2>1, <2>2, Longer
  <2>4. PICK h : Folds(g, x, t, h) /\ Folded(g, x, t) = h[n + 1]
    BY <1>1, <2>3
  <2>5. Folds(g, x, s, h)
    <3>1. ASSUME NEW i \in 1 .. n PROVE h[i] = g[h[i - 1]][s[i]]
      <4>1. i \in 1 .. n + 1 /\ t[i] = s[i]
        BY <2>3
      <4>2. h[i] = g[h[i - 1]][t[i]]
        BY <4>1, <2>3, <2>4, Zenon DEF Folds
      <4> QED BY <4>1, <4>2
    <3> QED BY <3>1, <2>2, <2>4, Zenon DEF Folds
  <2>6. Folded(g, x, s) = h[n]
    BY <2>2, <2>5, FoldIs
  <2>7. n + 1 \in 1 .. Len(t) /\ (n + 1) - 1 = n
    BY <2>3
  <2>8. h[n + 1] = g[h[n]][t[n + 1]]
    BY <2>4, <2>7, Zenon DEF Folds
  <2> QED BY <2>1, <2>3, <2>4, <2>6, <2>8
<1> QED
  BY <1>2, <1>3, <1>4, Zenon DEF StepByStep

----------------------------------------------------------------------------
(* A text written element by element.                                      *)

Put(g, s) == FlattenSeq([i \in DOMAIN s |-> g[s[i]]])

LEMMA PutSteps ==
  ASSUME NEW D, NEW T, NEW g \in [D -> Seq(T)]
  PROVE  /\ Put(g, <<>>) = <<>>
         /\ \A s \in Seq(D) : Put(g, s) \in Seq(T)
         /\ \A s \in Seq(D), e \in D : Put(g, Append(s, e)) = Joined(Put(g, s), g[e])
<1>1. PICK X : X = Seq(T)
  OBVIOUS
<1>2. PICK x : x = <<>> /\ x \in X
  BY <1>1, EmptySeq, Zenon
<1>3. PICK k : k = [y \in X |-> [d \in D |-> Joined(y, g[d])]]
  OBVIOUS
<1>4. \A y \in X, d \in D : Joined(y, g[d]) \in X
  BY <1>1, JoinedIs
<1>5. k \in [X -> [D -> X]] /\ \A y \in X, d \in D : k[y][d] = Joined(y, g[d])
  BY <1>3, <1>4
<1>6. ASSUME NEW s \in Seq(D) PROVE Put(g, s) = Folded(k, x, s)
  <2>1. PICK n \in Nat : n = Len(s)
    OBVIOUS
  <2>2. PICK p : p = [i \in DOMAIN s |-> g[s[i]]]
    OBVIOUS
  <2>3. \A i \in 1 .. n : s[i] \in D
    BY <2>1
  <2>4. p = [i \in 1 .. n |-> g[s[i]]]
    BY <2>1, <2>2
  <2>5. \A i \in 1 .. n : g[s[i]] \in X
    BY <2>3, <1>1
  <2>6. p \in Seq(X) /\ Len(p) = n
    BY <2>4, <2>5
  <2>7. p \in Seq(Seq(T))
    BY <2>6, <1>1, Zenon
  <2>8. PICK f : /\ Flattens(p, f) /\ FlattenSeq(p) = f[n]
                 /\ \A i \in 0 .. n : f[i] \in X
    BY <2>6, <2>7, <1>1, FlattenSteps, Zenon
  <2>9. ASSUME NEW i \in 1 .. n PROVE f[i] = k[f[i - 1]][s[i]]
    <3>1. f[i] = Joined(f[i - 1], p[i])
      BY <2>6, <2>8, Zenon DEF Flattens
    <3>2. p[i] = g[s[i]]
      BY <2>4
    <3>3. f[i - 1] \in X
      BY <2>8
    <3> QED BY <3>1, <3>2, <3>3, <2>3, <1>5
  <2>10. Folds(k, x, s, f)
    <3>1. f[0] = x
      BY <1>2, <2>8, Zenon DEF Flattens
    <3> QED BY <3>1, <2>1, <2>9, Zenon DEF Folds
  <2>11. Folded(k, x, s) = f[n]
    BY <2>1, <2>10, FoldIs
  <2> QED BY <2>2, <2>8, <2>11, Zenon DEF Put
<1>7. /\ Folded(k, x, <<>>) = x
      /\ \A s \in Seq(D) : Folded(k, x, s) \in X
      /\ \A s \in Seq(D), e \in D : Folded(k, x, Append(s, e)) = k[Folded(k, x, s)][e]
  <2>1. Stepper(k, X, D)
    BY <1>5 DEF Stepper
  <2>2. StepByStep(k, x, X, D)
    BY <1>2, <2>1, FoldSteps
  <2> QED BY <2>2, Zenon DEF StepByStep
<1>8. <<>> \in Seq(D)
  BY EmptySeq
<1>9. ASSUME NEW s \in Seq(D), NEW e \in D
      PROVE  Put(g, Append(s, e)) = Joined(Put(g, s), g[e])
  <2>1. Append(s, e) \in Seq(D)
    BY Longer
  <2>2. Put(g, Append(s, e)) = Folded(k, x, Append(s, e)) /\ Put(g, s) = Folded(k, x, s)
    BY <1>6, <2>1
  <2> QED BY <2>2, <1>5, <1>7
<1>10. ASSUME NEW s \in Seq(D) PROVE Put(g, s) \in Seq(T)
  BY <1>1, <1>6, <1>7, Zenon
<1>11. Put(g, <<>>) = <<>>
  BY <1>2, <1>6, <1>7, <1>8, Zenon
<1> QED
  BY <1>9, <1>10, <1>11

LEMMA PutJoined ==
  ASSUME NEW D, NEW T, NEW g \in [D -> Seq(T)], NEW s \in Seq(D)
  PROVE  \A t \in Seq(D) : Put(g, Joined(s, t)) = Joined(Put(g, s), Put(g, t))
<1>0. /\ Put(g, <<>>) = <<>>
      /\ \A u \in Seq(D) : Put(g, u) \in Seq(T)
      /\ \A u \in Seq(D), e \in D : Put(g, Append(u, e)) = Joined(Put(g, u), g[e])
  BY PutSteps, Zenon
<1> DEFINE P == {t \in Seq(D) : Put(g, Joined(s, t)) = Joined(Put(g, s), Put(g, t))}
<1>1. <<>> \in P
  <2>1. <<>> \in Seq(D) /\ Joined(s, <<>>) = s
    BY EmptySeq, JoinedNothing
  <2>2. Put(g, <<>>) = <<>> /\ Put(g, s) \in Seq(T)
    BY <1>0
  <2>3. Joined(Put(g, s), <<>>) = Put(g, s)
    BY <2>2, JoinedNothing
  <2> QED BY <2>1, <2>2, <2>3
<1>2. ASSUME NEW t \in Seq(D), NEW e \in D, t \in P PROVE Append(t, e) \in P
  <2>1. Append(t, e) \in Seq(D) /\ Joined(s, t) \in Seq(D)
    BY Longer, JoinedIs
  <2>2. Joined(s, Append(t, e)) = Append(Joined(s, t), e)
    BY JoinedLonger
  <2>3. Put(g, Append(Joined(s, t), e)) = Joined(Put(g, Joined(s, t)), g[e])
    BY <1>0, <2>1
  <2>4. Put(g, Append(t, e)) = Joined(Put(g, t), g[e])
    BY <1>0
  <2>5. Put(g, s) \in Seq(T) /\ Put(g, t) \in Seq(T) /\ g[e] \in Seq(T)
    BY <1>0
  <2>6. Joined(Joined(Put(g, s), Put(g, t)), g[e]) = Joined(Put(g, s), Joined(Put(g, t), g[e]))
    BY <2>5, JoinedThree
  <2> QED BY <1>2, <2>1, <2>2, <2>3, <2>4, <2>6
<1> HIDE DEF P
<1>3. \A t \in Seq(D) : t \in P
  BY <1>1, <1>2, Lengthening
<1> QED
  BY <1>3 DEF P

----------------------------------------------------------------------------
(* unescape.                                                               *)

Encoded(s, i) == s[i] = Percent /\ isxdigit(ByteAt(s, i + 1)) /\ isxdigit(ByteAt(s, i + 2))

Reads(s, f, i) ==
  IF i > Len(s) THEN <<>>
  ELSE IF s[i] = Plus THEN Joined(<<Space>>, f[i + 1])
  ELSE IF Encoded(s, i) THEN Joined(<<FromHex(s[i + 1], s[i + 2])>>, f[i + 3])
  ELSE Joined(<<s[i]>>, f[i + 1])

LEMMA HexFacts ==
  /\ \A a, b \in Bytes : FromHex(a, b) \in Bytes
  /\ ~isxdigit(NUL)
<1>1. \A x \in Int : x % 256 \in 0 .. 255
  OBVIOUS
<1>2. ASSUME NEW a \in 0 .. 255 PROVE Nibble(a) \in Int
  <2>1. a % 16 \in 0 .. 15
    OBVIOUS
  <2>2. PICK h \in Int : h = IF a >= 64 THEN 9 ELSE 0
    OBVIOUS
  <2> QED BY <2>1, <2>2 DEF Nibble
<1>3. ASSUME NEW a \in 0 .. 255, NEW b \in 0 .. 255 PROVE FromHex(a, b) \in 0 .. 255
  <2>1. PICK x \in Int, y \in Int : x = Nibble(a) /\ y = Nibble(b)
    BY <1>2
  <2>2. 16 * x + y \in Int
    OBVIOUS
  <2> QED BY <1>1, <2>1, <2>2, Zenon DEF FromHex
<1>4. ~isxdigit(NUL)
  BY DEF isxdigit, DecDigits, NUL
<1> QED
  BY <1>3, <1>4, Zenon DEF Bytes

LEMMA EncodedFits ==
  ASSUME NEW s \in Seq(Bytes), NEW i \in 1 .. Len(s), Encoded(s, i)
  PROVE  i + 2 <= Len(s) /\ FromHex(s[i + 1], s[i + 2]) \in Bytes
<1>1. i + 2 <= Len(s)
  BY HexFacts DEF Encoded, ByteAt
<1>2. s[i + 1] \in Bytes /\ s[i + 2] \in Bytes
  BY <1>1
<1> QED
  BY <1>1, <1>2, HexFacts

\* What it reads of a text from place i on is a function of i.
LEMMA ReadingExists ==
  ASSUME NEW s \in Seq(Bytes)
  PROVE  \E f : f = [i \in 1 .. Len(s) + 1 |-> Reads(s, f, i)]
<1>0. PICK n \in Nat : n = Len(s)
  OBVIOUS
<1> DEFINE S == {k \in Nat : \E f : f = [i \in k .. n + 1 |-> Reads(s, f, i)]}
<1>1. n + 1 \in S
  <2>1. PICK e : e = <<>>
    OBVIOUS
  <2>2. PICK f : f = [i \in n + 1 .. n + 1 |-> e]
    OBVIOUS
  <2>3. \A i \in n + 1 .. n + 1 : Reads(s, f, i) = e
    <3>1. \A i \in n + 1 .. n + 1 : i > Len(s)
      BY <1>0
    <3> QED BY <2>1, <3>1, Zenon DEF Reads
  <2>4. f = [i \in n + 1 .. n + 1 |-> Reads(s, f, i)]
    BY <2>2, <2>3
  <2> QED BY <2>4
<1>2. ASSUME NEW k \in 2 .. n + 1, k \in S PROVE k - 1 \in S
  <2>1. PICK f : f = [i \in k .. n + 1 |-> Reads(s, f, i)]
    BY <1>2
  <2>2. PICK g : g = [i \in k - 1 .. n + 1 |-> IF i = k - 1 THEN Reads(s, f, i) ELSE f[i]]
    OBVIOUS
  <2>3. ASSUME NEW i \in k - 1 .. n + 1 PROVE Reads(s, g, i) = Reads(s, f, i)
    <3>1. CASE i > n
      BY <3>1, <1>0 DEF Reads
    <3>2. CASE i <= n
      <4>1. g[i + 1] = f[i + 1]
        BY <3>2, <2>2
      <4>2. Encoded(s, i) => g[i + 3] = f[i + 3]
        <5>1. i \in 1 .. Len(s)
          BY <3>2, <1>0
        <5>2. Encoded(s, i) => i + 2 <= n
          BY <5>1, <1>0, EncodedFits
        <5> QED BY <5>2, <2>2
      <4> QED BY <4>1, <4>2, Zenon DEF Reads
    <3> QED BY <3>1, <3>2
  <2>4. ASSUME NEW i \in k - 1 .. n + 1 PROVE g[i] = Reads(s, g, i)
    <3>1. CASE i = k - 1
      BY <3>1, <2>2, <2>3
    <3>2. CASE i # k - 1
      <4>1. f[i] = Reads(s, f, i)
        BY <3>2, <2>1
      <4>2. g[i] = f[i]
        BY <3>2, <2>2
      <4> QED BY <4>1, <4>2, <2>3
    <3> QED BY <3>1, <3>2
  <2>5. g = [i \in k - 1 .. n + 1 |-> Reads(s, g, i)]
    BY <2>2, <2>4
  <2> QED BY <2>5
<1>3. 1 \in S
  <2> HIDE DEF S
  <2>1. 1 + 1 = 2
    OBVIOUS
  <2>2. 1 .. n + 1 \subseteq S
    BY <1>1, <1>2, <2>1, Downward, 1 \in Nat
  <2> QED BY <2>2
<1> QED
  BY <1>0, <1>3

LEMMA ReadingIs ==
  ASSUME NEW s \in Seq(Bytes)
  PROVE  \E f : /\ f = [i \in 1 .. Len(s) + 1 |-> Reads(s, f, i)]
                /\ unescape(s) = f[1]
BY ReadingExists, Zenon DEF unescape, Reads, Encoded, Joined

LEMMA ReadsBytes ==
  ASSUME NEW s \in Seq(Bytes)
  PROVE  unescape(s) \in Seq(Bytes)
<1>0. PICK n \in Nat : n = Len(s)
  OBVIOUS
<1>1. PICK f : /\ f = [i \in 1 .. n + 1 |-> Reads(s, f, i)]
               /\ unescape(s) = f[1]
  BY <1>0, ReadingIs, Zenon
<1> DEFINE S == {k \in Nat : \A i \in k .. n + 1 : f[i] \in Seq(Bytes)}
<1>2. <<>> \in Seq(Bytes)
  BY EmptySeq
<1>3. n + 1 \in S
  <2>1. ASSUME NEW i \in n + 1 .. n + 1 PROVE f[i] \in Seq(Bytes)
    <3>1. i > Len(s) /\ i \in 1 .. n + 1
      BY <1>0
    <3>2. f[i] = Reads(s, f, i)
      BY <3>1, <1>1
    <3> QED BY <3>1, <3>2, <1>2, Zenon DEF Reads
  <2> QED BY <2>1
<1>4. ASSUME NEW k \in 2 .. n + 1, k \in S PROVE k - 1 \in S
  <2>1. k - 1 \in 1 .. n /\ k - 1 \in 1 .. Len(s) /\ ~(k - 1 > Len(s)) /\ k - 1 \in 1 .. n + 1
    BY <1>0
  <2>2. PICK j : j = k - 1
    OBVIOUS
  <2>3. f[j] = Reads(s, f, j)
    BY <1>1, <2>1, <2>2
  <2>4. f[j + 1] \in Seq(Bytes)
    BY <1>4, <2>2
  <2>5. Encoded(s, j) => f[j + 3] \in Seq(Bytes) /\ FromHex(s[j + 1], s[j + 2]) \in Bytes
    <3>1. Encoded(s, j) => j + 2 <= n /\ FromHex(s[j + 1], s[j + 2]) \in Bytes
      BY <1>0, <2>1, <2>2, EncodedFits
    <3> QED BY <3>1, <1>4, <2>2
  <2>6. s[j] \in Bytes /\ Space \in Bytes
    <3>1. s[j] \in Bytes
      BY <2>1, <2>2
    <3>2. Space \in Bytes
      BY DEF Space, Bytes
    <3> QED BY <3>1, <3>2
  <2>7. \A b \in Bytes : <<b>> \in Seq(Bytes)
    OBVIOUS
  <2>8. \A b \in Bytes, t \in Seq(Bytes) : Joined(<<b>>, t) \in Seq(Bytes)
    BY <2>7, JoinedIs
  <2>9. Reads(s, f, j) \in Seq(Bytes)
    BY <2>1, <2>2, <2>4, <2>5, <2>6, <2>8, Zenon DEF Reads
  <2>10. \A i \in k - 1 .. n + 1 : i = j \/ i \in k .. n + 1
    BY <2>2
  <2>11. \A i \in k - 1 .. n + 1 : f[i] \in Seq(Bytes)
    BY <1>4, <2>3, <2>9, <2>10
  <2> QED BY <2>1, <2>11
<1>5. 1 \in S
  <2> HIDE DEF S
  <2>1. 1 + 1 = 2
    OBVIOUS
  <2>2. 1 .. n + 1 \subseteq S
    BY <1>3, <1>4, <2>1, Downward, 1 \in Nat
  <2> QED BY <2>2
<1> QED
  BY <1>1, <1>5

\* What it reads of a text does not depend on what stands before.
LEMMA ReadingShifts ==
  ASSUME NEW u \in Seq(Bytes), NEW v \in Seq(Bytes)
  PROVE  \A f : f = [i \in 1 .. Len(Joined(u, v)) + 1 |-> Reads(Joined(u, v), f, i)]
                => unescape(v) = f[Len(u) + 1]
<1>a. PICK t : t = Joined(u, v)
  OBVIOUS
<1>b. SUFFICES ASSUME NEW f, f = [i \in 1 .. Len(t) + 1 |-> Reads(t, f, i)]
               PROVE  unescape(v) = f[Len(u) + 1]
  BY <1>a, Zenon
<1>c. PICK m \in Nat : m = Len(u)
  OBVIOUS
<1>0. PICK n \in Nat : n = Len(v)
  OBVIOUS
<1>1. PICK g : /\ g = [i \in 1 .. n + 1 |-> Reads(v, g, i)]
               /\ unescape(v) = g[1]
  BY <1>0, ReadingIs, Zenon
<1>2. /\ t \in Seq(Bytes) /\ Len(t) = m + n
      /\ \A i \in 1 .. n : t[m + i] = v[i]
  <2>1. /\ Joined(u, v) \in Seq(Bytes) /\ Len(Joined(u, v)) = Len(u) + Len(v)
        /\ \A i \in 1 .. Len(v) : Joined(u, v)[Len(u) + i] = v[i]
    BY JoinedIs
  <2> QED BY <1>a, <1>c, <1>0, <2>1, Zenon
<1> DEFINE Same(i) == f[m + i] = g[i]
           S == {k \in Nat : \A i \in k .. n + 1 : Same(i)}
<1>3. n + 1 \in S
  <2>1. ASSUME NEW i \in n + 1 .. n + 1 PROVE Same(i)
    <3>1. i > Len(v) /\ m + i > Len(t) /\ i \in 1 .. n + 1 /\ m + i \in 1 .. Len(t) + 1
      BY <1>0, <1>2
    <3>2. f[m + i] = Reads(t, f, m + i) /\ g[i] = Reads(v, g, i)
      BY <3>1, <1>1, <1>b
    <3> QED BY <3>1, <3>2, Zenon DEF Reads
  <2>2. n + 1 \in Nat
    OBVIOUS
  <2> HIDE DEF Same
  <2> QED BY <2>1, <2>2
<1>4. ASSUME NEW k \in 2 .. n + 1, k \in S PROVE k - 1 \in S
  <2>1. PICK j \in 1 .. n : j = k - 1
    OBVIOUS
  <2>2. /\ j \in 1 .. n + 1 /\ m + j \in 1 .. Len(t) + 1 /\ ~(j > Len(v)) /\ ~(m + j > Len(t))
        /\ j \in 1 .. Len(v) /\ m + j \in 1 .. Len(t)
    BY <1>0, <1>2
  <2>3. f[m + j] = Reads(t, f, m + j) /\ g[j] = Reads(v, g, j)
    BY <1>1, <2>2, <1>b
  <2>4. f[m + j + 1] = g[j + 1] /\ t[m + j] = v[j]
    <3>1. Same(j + 1)
      <4> HIDE DEF Same
      <4> QED BY <1>4, <2>1
    <3>2. m + (j + 1) = m + j + 1
      OBVIOUS
    <3> QED BY <3>1, <3>2, <1>2
  <2>5. \A i \in Nat : ByteAt(t, m + j + i) = ByteAt(v, j + i)
    <3>1. ASSUME NEW i \in Nat, j + i <= n PROVE ByteAt(t, m + j + i) = ByteAt(v, j + i)
      <4>1. t[m + (j + i)] = v[j + i] /\ m + (j + i) = m + j + i
        BY <3>1, <1>2
      <4>2. m + j + i <= Len(t) /\ j + i <= Len(v)
        BY <3>1, <1>0, <1>2
      <4> QED BY <4>1, <4>2 DEF ByteAt
    <3>2. ASSUME NEW i \in Nat, ~(j + i <= n) PROVE ByteAt(t, m + j + i) = ByteAt(v, j + i)
      <4>1. ~(m + j + i <= Len(t)) /\ ~(j + i <= Len(v))
        BY <3>2, <1>0, <1>2
      <4> QED BY <4>1, Zenon DEF ByteAt
    <3> QED BY <3>1, <3>2
  <2>6. Encoded(t, m + j) <=> Encoded(v, j)
    <3>1. ByteAt(t, m + j + 1) = ByteAt(v, j + 1) /\ ByteAt(t, m + j + 2) = ByteAt(v, j + 2)
      BY <2>5
    <3> QED BY <2>4, <3>1, Zenon DEF Encoded
  <2>7. ASSUME Encoded(v, j)
        PROVE  /\ f[m + j + 3] = g[j + 3]
               /\ t[m + j + 1] = v[j + 1] /\ t[m + j + 2] = v[j + 2]
    <3>1. j + 2 <= n
      BY <2>7, <1>0, <2>2, EncodedFits
    <3>2. Same(j + 3)
      <4> HIDE DEF Same
      <4> QED BY <3>1, <1>4, <2>1
    <3>3. t[m + (j + 1)] = v[j + 1] /\ t[m + (j + 2)] = v[j + 2]
      BY <3>1, <1>2
    <3>4. m + (j + 1) = m + j + 1 /\ m + (j + 2) = m + j + 2 /\ m + (j + 3) = m + j + 3
      OBVIOUS
    <3> QED BY <3>2, <3>3, <3>4
  <2>8. Reads(t, f, m + j) = Reads(v, g, j)
    BY <2>2, <2>4, <2>6, <2>7, Zenon DEF Reads
  <2>9. \A i \in k - 1 .. n + 1 : i = j \/ i \in k .. n + 1
    BY <2>1
  <2>10. Same(j)
    BY <2>3, <2>8
  <2>11. k - 1 \in Nat
    OBVIOUS
  <2> HIDE DEF Same
  <2> QED BY <1>4, <2>9, <2>10, <2>11
<1>5. 1 \in S
  <2> HIDE DEF S, Same
  <2>1. \A k \in 1 + 1 .. n + 1 : k \in S => k - 1 \in S
    BY <1>4
  <2>2. 1 .. n + 1 \subseteq S
    BY <1>3, <2>1, Downward, 1 \in Nat, n + 1 \in Nat
  <2> QED BY <2>2
<1>6. Same(1)
  <2> HIDE DEF Same
  <2> QED BY <1>5
<1> QED
  BY <1>1, <1>6, <1>c

\* The bytes u are read as s, whatever follows them.
Spells(u, s) ==
  /\ u \in Seq(Bytes) /\ s \in Seq(Bytes)
  /\ \A v \in Seq(Bytes) : unescape(Joined(u, v)) = Joined(s, unescape(v))

LEMMA FirstRead ==
  ASSUME NEW u \in Seq(Bytes), NEW v \in Seq(Bytes)
  PROVE  \E f : /\ unescape(Joined(u, v)) = Reads(Joined(u, v), f, 1)
                /\ unescape(v) = f[Len(u) + 1]
<1>1. PICK t : t = Joined(u, v)
  OBVIOUS
<1>2. t \in Seq(Bytes)
  BY <1>1, JoinedIs
<1>3. PICK f : /\ f = [i \in 1 .. Len(t) + 1 |-> Reads(t, f, i)]
               /\ unescape(t) = f[1]
  BY <1>2, ReadingIs, Zenon
<1>4. unescape(v) = f[Len(u) + 1]
  <2>1. \A h : h = [i \in 1 .. Len(Joined(u, v)) + 1 |-> Reads(Joined(u, v), h, i)]
               => unescape(v) = h[Len(u) + 1]
    BY ReadingShifts
  <2>2. \A h : h = [i \in 1 .. Len(t) + 1 |-> Reads(t, h, i)] => unescape(v) = h[Len(u) + 1]
    BY <1>1, <2>1, Zenon
  <2> QED BY <1>3, <2>2, Zenon
<1>5. 1 \in 1 .. Len(t) + 1
  BY <1>2
<1>6. f[1] = Reads(t, f, 1)
  BY <1>3, <1>5
<1> QED
  BY <1>1, <1>3, <1>4, <1>6, Zenon

LEMMA OneByte ==
  ASSUME NEW c \in Bytes
  PROVE  \E u \in Seq(Bytes) : u = <<c>> /\ Len(u) = 1 /\ u[1] = c
<1>1. <<c>> \in Seq(Bytes) /\ Len(<<c>>) = 1 /\ <<c>>[1] = c
  OBVIOUS
<1> QED
  BY <1>1

LEMMA ThreeBytes ==
  ASSUME NEW a \in Bytes, NEW b \in Bytes, NEW c \in Bytes
  PROVE  \E u \in Seq(Bytes) :
           u = <<a, b, c>> /\ Len(u) = 3 /\ u[1] = a /\ u[2] = b /\ u[3] = c
<1>1. /\ <<a, b, c>> \in Seq(Bytes) /\ Len(<<a, b, c>>) = 3
      /\ <<a, b, c>>[1] = a /\ <<a, b, c>>[2] = b /\ <<a, b, c>>[3] = c
  OBVIOUS
<1> QED
  BY <1>1

LEMMA JoinedBegins ==
  ASSUME NEW u \in Seq(Bytes), NEW v \in Seq(Bytes), NEW n \in Nat, Len(u) = n,
         NEW i \in 1 .. n
  PROVE  Joined(u, v)[i] = u[i] /\ i <= Len(Joined(u, v))
<1>1. /\ Len(Joined(u, v)) = Len(u) + Len(v)
      /\ \A j \in 1 .. Len(u) : Joined(u, v)[j] = u[j]
  BY JoinedIs, Zenon
<1>2. Len(v) \in Nat
  OBVIOUS
<1> QED
  BY <1>1, <1>2

LEMMA BytesDistinct ==
  /\ Plus \in Bytes /\ Percent \in Bytes /\ Space \in Bytes /\ Slash \in Bytes /\ Dot \in Bytes
  /\ Plus # Percent
BY DEF Plus, Percent, Space, Slash, Dot, Bytes

LEMMA ReadsPlain ==
  ASSUME NEW c \in Bytes, c # Plus, c # Percent
  PROVE  Spells(<<c>>, <<c>>)
<1>1. PICK u \in Seq(Bytes) : u = <<c>> /\ Len(u) = 1 /\ u[1] = c
  BY OneByte
<1>2. ASSUME NEW v \in Seq(Bytes) PROVE unescape(Joined(u, v)) = Joined(u, unescape(v))
  <2>1. PICK f : /\ unescape(Joined(u, v)) = Reads(Joined(u, v), f, 1)
                 /\ unescape(v) = f[Len(u) + 1]
    BY <1>1, FirstRead
  <2>2. PICK t : t = Joined(u, v)
    OBVIOUS
  <2>3. t[1] = c /\ ~(1 > Len(t)) /\ Len(u) + 1 = 1 + 1
    <3>1. t[1] = u[1] /\ 1 <= Len(t)
      BY <1>1, <2>2, JoinedBegins, 1 \in 1 .. 1
    <3>2. Len(t) \in Nat
      BY <2>2, JoinedIs
    <3> QED BY <1>1, <3>1, <3>2
  <2> QED BY <1>1, <2>1, <2>2, <2>3, Zenon DEF Reads, Encoded
<1> QED
  BY <1>1, <1>2, Zenon DEF Spells

LEMMA ReadsPlus ==
  Spells(<<Plus>>, <<Space>>)
<1>1. PICK u \in Seq(Bytes) : u = <<Plus>> /\ Len(u) = 1 /\ u[1] = Plus
  BY BytesDistinct, OneByte
<1>2. PICK w \in Seq(Bytes) : w = <<Space>>
  BY BytesDistinct, OneByte
<1>3. ASSUME NEW v \in Seq(Bytes) PROVE unescape(Joined(u, v)) = Joined(w, unescape(v))
  <2>1. PICK f : /\ unescape(Joined(u, v)) = Reads(Joined(u, v), f, 1)
                 /\ unescape(v) = f[Len(u) + 1]
    BY <1>1, FirstRead
  <2>2. PICK t : t = Joined(u, v)
    OBVIOUS
  <2>3. t[1] = Plus /\ ~(1 > Len(t)) /\ Len(u) + 1 = 1 + 1
    <3>1. t[1] = u[1] /\ 1 <= Len(t)
      BY <1>1, <2>2, JoinedBegins, 1 \in 1 .. 1
    <3>2. Len(t) \in Nat
      BY <2>2, JoinedIs
    <3> QED BY <1>1, <3>1, <3>2
  <2> QED BY <1>2, <2>1, <2>2, <2>3, Zenon DEF Reads
<1> QED
  BY <1>1, <1>2, <1>3, Zenon DEF Spells

LEMMA ReadsHex ==
  ASSUME NEW a \in Bytes, NEW b \in Bytes, isxdigit(a), isxdigit(b)
  PROVE  Spells(<<Percent, a, b>>, <<FromHex(a, b)>>)
<1>0. Percent \in Bytes
  BY BytesDistinct
<1>1. PICK u \in Seq(Bytes) :
        u = <<Percent, a, b>> /\ Len(u) = 3 /\ u[1] = Percent /\ u[2] = a /\ u[3] = b
  BY <1>0, ThreeBytes
<1>2. PICK w \in Seq(Bytes) : w = <<FromHex(a, b)>>
  BY HexFacts, OneByte
<1>3. ASSUME NEW v \in Seq(Bytes) PROVE unescape(Joined(u, v)) = Joined(w, unescape(v))
  <2>1. PICK f : /\ unescape(Joined(u, v)) = Reads(Joined(u, v), f, 1)
                 /\ unescape(v) = f[Len(u) + 1]
    BY <1>1, FirstRead
  <2>2. PICK t : t = Joined(u, v)
    OBVIOUS
  <2>3. /\ t[1] = Percent /\ t[2] = a /\ t[3] = b
        /\ ~(1 > Len(t)) /\ 2 <= Len(t) /\ 3 <= Len(t) /\ Len(u) + 1 = 4
    <3>1. \A i \in 1 .. 3 : t[i] = u[i] /\ i <= Len(t)
      BY <1>1, <2>2, JoinedBegins
    <3>2. Len(t) \in Nat
      BY <2>2, JoinedIs
    <3> QED BY <1>1, <3>1, <3>2
  <2>4. 1 + 1 = 2 /\ 1 + 2 = 3 /\ 1 + 3 = 4
    OBVIOUS
  <2>5. ByteAt(t, 1 + 1) = a /\ ByteAt(t, 1 + 2) = b
    BY <2>3, <2>4, Zenon DEF ByteAt
  <2>6. Reads(t, f, 1) = Joined(<<FromHex(t[1 + 1], t[1 + 2])>>, f[1 + 3])
    BY <2>3, <2>5, BytesDistinct, Zenon DEF Reads, Encoded
  <2> QED BY <1>2, <2>1, <2>2, <2>3, <2>4, <2>6, Zenon
<1> QED
  BY <1>1, <1>2, <1>3, Zenon DEF Spells

LEMMA SpellsNothing ==
  Spells(<<>>, <<>>)
<1>1. <<>> \in Seq(Bytes)
  BY EmptySeq
<1>2. ASSUME NEW v \in Seq(Bytes) PROVE unescape(Joined(<<>>, v)) = Joined(<<>>, unescape(v))
  BY JoinedNothing, ReadsBytes
<1> QED
  BY <1>1, <1>2, Zenon DEF Spells

LEMMA SpellsJoined ==
  ASSUME NEW u, NEW s, NEW v, NEW t, Spells(u, s), Spells(v, t)
  PROVE  Spells(Joined(u, v), Joined(s, t))
<1>1. /\ u \in Seq(Bytes) /\ s \in Seq(Bytes) /\ v \in Seq(Bytes) /\ t \in Seq(Bytes)
      /\ \A w \in Seq(Bytes) : unescape(Joined(u, w)) = Joined(s, unescape(w))
      /\ \A w \in Seq(Bytes) : unescape(Joined(v, w)) = Joined(t, unescape(w))
  BY Zenon DEF Spells
<1>2. Joined(u, v) \in Seq(Bytes) /\ Joined(s, t) \in Seq(Bytes)
  BY <1>1, JoinedIs
<1>3. ASSUME NEW w \in Seq(Bytes)
      PROVE  unescape(Joined(Joined(u, v), w)) = Joined(Joined(s, t), unescape(w))
  <2>1. Joined(v, w) \in Seq(Bytes) /\ unescape(w) \in Seq(Bytes)
    BY <1>1, JoinedIs, ReadsBytes
  <2>2. Joined(Joined(u, v), w) = Joined(u, Joined(v, w))
    BY <1>1, JoinedThree
  <2>3. Joined(Joined(s, t), unescape(w)) = Joined(s, Joined(t, unescape(w)))
    BY <1>1, <2>1, JoinedThree
  <2> QED BY <1>1, <2>1, <2>2, <2>3, Zenon
<1> QED
  BY <1>2, <1>3, Zenon DEF Spells

LEMMA SpelledOut ==
  ASSUME NEW u, NEW s, Spells(u, s)
  PROVE  unescape(u) = s
<1>1. u \in Seq(Bytes) /\ s \in Seq(Bytes) /\ <<>> \in Seq(Bytes)
  BY EmptySeq, Zenon DEF Spells
<1>2. unescape(Joined(u, <<>>)) = Joined(s, unescape(<<>>))
  BY <1>1, Zenon DEF Spells
<1>3. unescape(<<>>) = <<>>
  <2>1. PICK v : v = <<>> /\ v \in Seq(Bytes)
    BY <1>1
  <2>2. PICK f : /\ f = [i \in 1 .. Len(v) + 1 |-> Reads(v, f, i)] /\ unescape(v) = f[1]
    BY <2>1, ReadingIs, Zenon
  <2>3. Len(v) = 0
    BY <2>1
  <2>4. f[1] = Reads(v, f, 1) /\ 1 > Len(v)
    BY <2>2, <2>3
  <2> QED BY <2>1, <2>2, <2>4, Zenon DEF Reads
<1>4. Joined(u, <<>>) = u /\ Joined(s, <<>>) = s
  BY <1>1, JoinedNothing
<1> QED
  BY <1>2, <1>3, <1>4

\* What is put together of spelled elements spells the whole.
LEMMA SpellsPut ==
  ASSUME NEW g \in [Bytes -> Seq(Bytes)], NEW D \in SUBSET Bytes,
         \A c \in D : Spells(g[c], <<c>>)
  PROVE  \A s \in Seq(D) : Spells(Put(g, s), s)
<1>0. /\ Put(g, <<>>) = <<>>
      /\ \A s \in Seq(Bytes), c \in Bytes : Put(g, Append(s, c)) = Joined(Put(g, s), g[c])
  BY PutSteps, Zenon
<1> DEFINE P == {s \in Seq(D) : Spells(Put(g, s), s)}
<1>1. <<>> \in P
  BY <1>0, SpellsNothing, EmptySeq
<1>2. ASSUME NEW s \in Seq(D), NEW c \in D, s \in P PROVE Append(s, c) \in P
  <2>1. s \in Seq(Bytes) /\ c \in Bytes
    BY SeqMonotonic
  <2>2. Put(g, Append(s, c)) = Joined(Put(g, s), g[c])
    BY <1>0, <2>1
  <2>3. Spells(Joined(Put(g, s), g[c]), Joined(s, <<c>>))
    BY <1>2, SpellsJoined
  <2>4. Joined(s, <<c>>) = Append(s, c)
    BY JoinedOne
  <2>5. Append(s, c) \in Seq(D)
    BY Longer
  <2> QED BY <2>2, <2>3, <2>4, <2>5
<1> HIDE DEF P
<1>3. \A s \in Seq(D) : s \in P
  BY <1>1, <1>2, Lengthening
<1> QED
  BY <1>3 DEF P

----------------------------------------------------------------------------
(* What escape writes, and what clients write, is read as it was meant.    *)

LEMMA HexDigits ==
  ASSUME NEW n \in 0 .. 15
  PROVE  /\ dec2hex[n] \in Bytes /\ isxdigit(dec2hex[n]) /\ Nibble(dec2hex[n]) = n
         /\ Small(dec2hex[n]) \in Bytes /\ isxdigit(Small(dec2hex[n]))
         /\ Nibble(Small(dec2hex[n])) = n
<1>1. dec2hex[n] = IF n < 10 THEN 48 + n ELSE 55 + n
  BY DEF dec2hex
<1>2. CASE n < 10
  <2>1. dec2hex[n] = 48 + n /\ Small(dec2hex[n]) = 48 + n
    BY <1>1, <1>2 DEF Small
  <2>2. 48 + n \in Bytes /\ isxdigit(48 + n)
    BY <1>2 DEF Bytes, isxdigit, DecDigits
  <2>3. Nibble(48 + n) = n
    BY <1>2 DEF Nibble
  <2> QED BY <2>1, <2>2, <2>3
<1>3. CASE ~(n < 10)
  <2>1. dec2hex[n] = 55 + n /\ Small(dec2hex[n]) = 87 + n
    BY <1>1, <1>3 DEF Small
  <2>2. 55 + n \in Bytes /\ isxdigit(55 + n) /\ 87 + n \in Bytes /\ isxdigit(87 + n)
    BY <1>3 DEF Bytes, isxdigit, DecDigits
  <2>3. Nibble(55 + n) = n /\ Nibble(87 + n) = n
    BY <1>3 DEF Nibble
  <2> QED BY <2>1, <2>2, <2>3
<1> QED
  BY <1>2, <1>3

LEMMA HexRead ==
  ASSUME NEW c \in Bytes, NEW a, NEW b, Nibble(a) = c \div 16, Nibble(b) = c % 16
  PROVE  FromHex(a, b) = c
<1>1. (16 * (c \div 16) + (c % 16)) % 256 = c
  BY DEF Bytes
<1> QED
  BY <1>1, Zenon DEF FromHex

LEMMA SpellsPercent ==
  ASSUME NEW c \in Bytes, NEW small \in BOOLEAN,
         NEW e, e = PercentEncoded(c),
         NEW u, u = IF small THEN <<e[1], Small(e[2]), Small(e[3])>> ELSE e
  PROVE  Spells(u, <<c>>)
<1>1. PICK h \in 0 .. 15, l \in 0 .. 15 : h = c \div 16 /\ l = c % 16
  BY DEF Bytes
<1>2. e = <<Percent, dec2hex[h], dec2hex[l]>>
  BY <1>1, Zenon DEF PercentEncoded
<1>3. e[1] = Percent /\ e[2] = dec2hex[h] /\ e[3] = dec2hex[l]
  BY <1>2
<1>4. CASE ~small
  <2>1. FromHex(dec2hex[h], dec2hex[l]) = c
    BY <1>1, HexDigits, HexRead
  <2>2. Spells(<<Percent, dec2hex[h], dec2hex[l]>>, <<FromHex(dec2hex[h], dec2hex[l])>>)
    BY HexDigits, ReadsHex
  <2> QED BY <1>2, <1>4, <2>1, <2>2, Zenon
<1>5. CASE small
  <2>1. FromHex(Small(dec2hex[h]), Small(dec2hex[l])) = c
    BY <1>1, HexDigits, HexRead
  <2>2. Spells(<<Percent, Small(dec2hex[h]), Small(dec2hex[l])>>,
               <<FromHex(Small(dec2hex[h]), Small(dec2hex[l]))>>)
    BY HexDigits, ReadsHex
  <2> QED BY <1>3, <1>5, <2>1, <2>2, Zenon
<1> QED
  BY <1>4, <1>5

LEMMA SpellsEscaped ==
  ASSUME NEW c \in Bytes
  PROVE  Spells(EscapedByte(c), <<c>>)
<1>1. CASE c \in Alnum \cup {Underscore, Dot, Minus}
  <2>1. c # Plus /\ c # Percent
    BY <1>1 DEF Alnum, DecDigits, Underscore, Dot, Minus, Plus, Percent
  <2> QED BY <1>1, <2>1, ReadsPlain, Zenon DEF EscapedByte
<1>2. CASE c \notin Alnum \cup {Underscore, Dot, Minus} /\ c = Space
  BY <1>2, ReadsPlus, Zenon DEF EscapedByte
<1>3. CASE c \notin Alnum \cup {Underscore, Dot, Minus} /\ c # Space
  <2>1. Spells(PercentEncoded(c), <<c>>)
    BY SpellsPercent, FALSE \in BOOLEAN, Zenon
  <2> QED BY <1>3, <2>1, Zenon DEF EscapedByte
<1> QED
  BY <1>1, <1>2, <1>3

LEMMA SpellsWritten ==
  ASSUME NEW c \in Bytes, NEW small \in BOOLEAN
  PROVE  Spells(WrittenByte(c, small), <<c>>)
<1>1. CASE c \in Alnum
  <2>1. c # Plus /\ c # Percent
    BY <1>1 DEF Alnum, DecDigits, Plus, Percent
  <2> QED BY <1>1, <2>1, ReadsPlain, Zenon DEF WrittenByte
<1>2. CASE c \notin Alnum
  <2>1. PICK e, u : e = PercentEncoded(c) /\ u = IF small THEN <<e[1], Small(e[2]), Small(e[3])>> ELSE e
    OBVIOUS
  <2>2. Spells(u, <<c>>)
    BY <2>1, SpellsPercent, Zenon
  <2>3. WrittenByte(c, small) = u
    BY <1>2, <2>1, Zenon DEF WrittenByte
  <2> QED BY <2>2, <2>3
<1> QED
  BY <1>1, <1>2

LEMMA SpellsSent ==
  ASSUME NEW c \in Bytes, c # Plus, c # Percent
  PROVE  Spells(Sent(c), <<c>>)
<1>1. Spells(PercentEncoded(c), <<c>>)
  BY SpellsPercent, FALSE \in BOOLEAN, Zenon
<1> QED
  BY <1>1, ReadsPlain, Zenon DEF Sent

\* escape and unescape: what is escaped is unescaped to the same bytes, for
\* every string there is (HttpRequest.cpp:15-98).
THEOREM EscapedReadsTheSame ==
  \A s \in Seq(Bytes) : Spells(escape(s), s) /\ unescape(escape(s)) = s
<1>1. PICK g : g = [c \in Bytes |-> EscapedByte(c)]
  OBVIOUS
<1>2. \A c \in Bytes : g[c] = EscapedByte(c) /\ Spells(g[c], <<c>>)
  BY <1>1, SpellsEscaped
<1>3. g \in [Bytes -> Seq(Bytes)]
  <2>1. \A c \in Bytes : EscapedByte(c) \in Seq(Bytes)
    BY SpellsEscaped, Zenon DEF Spells
  <2> QED BY <1>1, <2>1
<1>4. ASSUME NEW s \in Seq(Bytes) PROVE escape(s) = Put(g, s)
  <2>1. \A i \in DOMAIN s : s[i] \in Bytes
    OBVIOUS
  <2>2. [i \in DOMAIN s |-> g[s[i]]] = [i \in DOMAIN s |-> EscapedByte(s[i])]
    BY <1>2, <2>1
  <2> QED BY <2>2, Zenon DEF escape, Put
<1>5. \A s \in Seq(Bytes) : Spells(Put(g, s), s)
  BY <1>2, <1>3, SpellsPut
<1>6. ASSUME NEW s \in Seq(Bytes) PROVE Spells(escape(s), s)
  BY <1>4, <1>5
<1>7. ASSUME NEW s \in Seq(Bytes) PROVE unescape(escape(s)) = s
  BY <1>6, SpelledOut, Zenon
<1> QED
  BY <1>6, <1>7

LEMMA WrittenReadsTheSame ==
  ASSUME NEW small \in BOOLEAN
  PROVE  \A s \in Seq(Bytes) : Spells(Written(s, small), s)
<1>1. PICK g : g = [c \in Bytes |-> WrittenByte(c, small)]
  OBVIOUS
<1>2. \A c \in Bytes : g[c] = WrittenByte(c, small) /\ Spells(g[c], <<c>>)
  BY <1>1, SpellsWritten
<1>3. g \in [Bytes -> Seq(Bytes)]
  <2>1. \A c \in Bytes : WrittenByte(c, small) \in Seq(Bytes)
    BY SpellsWritten, Zenon DEF Spells
  <2> QED BY <1>1, <2>1
<1>4. ASSUME NEW s \in Seq(Bytes) PROVE Written(s, small) = Put(g, s)
  <2>1. \A i \in DOMAIN s : s[i] \in Bytes
    OBVIOUS
  <2>2. [i \in DOMAIN s |-> g[s[i]]] = [i \in DOMAIN s |-> WrittenByte(s[i], small)]
    BY <1>2, <2>1
  <2> QED BY <2>2, Zenon DEF Written, Put
<1>5. \A s \in Seq(Bytes) : Spells(Put(g, s), s)
  BY <1>2, <1>3, SpellsPut
<1> QED
  BY <1>4, <1>5

----------------------------------------------------------------------------
(* Paths, segment by segment.                                              *)

LEMMA SameSteps ==
  ASSUME NEW n \in Nat, NEW f, NEW h, f[0] = h[0],
         \A i \in 1 .. n : f[i - 1] = h[i - 1] => f[i] = h[i]
  PROVE  f[n] = h[n]
<1> DEFINE S == {i \in Nat : f[i] = h[i]}
<1>1. 0 \in S
  OBVIOUS
<1>2. ASSUME NEW i \in 0 .. n - 1, i \in S PROVE i + 1 \in S
  <2>1. i + 1 \in 1 .. n /\ (i + 1) - 1 = i /\ i + 1 \in Nat
    OBVIOUS
  <2>2. f[(i + 1) - 1] = h[(i + 1) - 1] => f[i + 1] = h[i + 1]
    BY <2>1
  <2> QED BY <1>2, <2>1, <2>2
<1>3. 0 .. n \subseteq S
  <2> HIDE DEF S
  <2> QED BY <1>1, <1>2, Upward, 0 \in Nat
<1>4. n \in 0 .. n
  OBVIOUS
<1> QED
  BY <1>3, <1>4

Texts == Seq(Bytes)
Segmented == Seq(Texts) \ {<<>>}

LEMMA EmptyText ==
  <<>> \in Texts
BY EmptySeq, Zenon DEF Texts

LEMMA CutTyped ==
  ASSUME NEW y \in Segmented, NEW c \in Bytes
  PROVE  Cut(y, c) \in Segmented
<1>1. y \in Seq(Texts) /\ y # <<>>
  BY Zenon DEF Segmented
<1>2. Front(y) \in Seq(Texts) /\ Last(y) \in Texts
  BY <1>1, Shorter
<1>3. Append(Last(y), c) \in Texts
  <2>1. Last(y) \in Seq(Bytes)
    BY <1>2, Zenon DEF Texts
  <2> QED BY <2>1, Longer, Zenon DEF Texts
<1>4. /\ Append(y, <<>>) \in Seq(Texts) /\ Append(y, <<>>) # <<>>
  BY <1>1, EmptyText, Longer
<1>5. /\ Append(Front(y), Append(Last(y), c)) \in Seq(Texts)
      /\ Append(Front(y), Append(Last(y), c)) # <<>>
  BY <1>2, <1>3, Longer
<1> QED
  BY <1>4, <1>5 DEF Cut, Segmented

LEMMA SegmentsSteps ==
  /\ Segments(<<>>) = <<<<>>>> /\ <<<<>>>> \in Segmented
  /\ \A s \in Texts : Segments(s) \in Segmented
  /\ \A s \in Texts, c \in Bytes : Segments(Append(s, c)) = Cut(Segments(s), c)
<1>1. PICK x \in Segmented : x = <<<<>>>>
  <2>1. PICK e : e = <<>> /\ e \in Texts
    BY EmptyText
  <2>2. <<e>> \in Seq(Texts) /\ Len(<<e>>) = 1
    BY <2>1
  <2>3. <<e>> # <<>>
    BY <2>2, EmptySeq
  <2> QED BY <2>1, <2>2, <2>3 DEF Segmented
<1>2. PICK g : g = [y \in Segmented |-> [c \in Bytes |-> Cut(y, c)]]
  OBVIOUS
<1>3. g \in [Segmented -> [Bytes -> Segmented]] /\ \A y \in Segmented, c \in Bytes : g[y][c] = Cut(y, c)
  BY <1>2, CutTyped
<1>4. ASSUME NEW s \in Texts PROVE Segments(s) = Folded(g, x, s)
  <2>0. s \in Seq(Bytes)
    BY Zenon DEF Texts
  <2>1. PICK n \in Nat : n = Len(s)
    BY <2>0
  <2>2. PICK f : f \in [0 .. Len(s) -> Segmented] /\ Folds(g, x, s, f)
    BY <2>0, <1>1, <1>3, FoldExists
  <2>3. f[0] = x /\ \A i \in 1 .. n : f[i] = g[f[i - 1]][s[i]]
    BY <2>1, <2>2, Zenon DEF Folds
  <2>4. \A i \in 1 .. n : f[i - 1] \in Segmented /\ s[i] \in Bytes
    BY <2>0, <2>1, <2>2
  <2>5. \A i \in 1 .. n : f[i] = Cut(f[i - 1], s[i])
    BY <1>3, <2>3, <2>4
  <2>6. f = [i \in 0 .. n |-> IF i = 0 THEN x ELSE Cut(f[i - 1], s[i])]
    BY <2>1, <2>2, <2>3, <2>5
  <2>7. PICK h : /\ h = [i \in 0 .. n |-> IF i = 0 THEN x ELSE Cut(h[i - 1], s[i])]
                 /\ Segments(s) = h[n]
    BY <1>1, <2>1, <2>6, Zenon DEF Segments
  <2>8. h[0] = x /\ \A i \in 1 .. n : h[i] = Cut(h[i - 1], s[i])
    BY <2>7
  <2>9. \A i \in 1 .. n : f[i - 1] = h[i - 1] => f[i] = h[i]
    BY <2>5, <2>8
  <2>10. f[n] = h[n]
    BY <2>3, <2>8, <2>9, SameSteps
  <2>11. Folded(g, x, s) = f[n]
    BY <2>1, <2>2, FoldIs
  <2> QED BY <2>7, <2>10, <2>11
<1>5. /\ Folded(g, x, <<>>) = x
      /\ \A s \in Seq(Bytes) : Folded(g, x, s) \in Segmented
      /\ \A s \in Seq(Bytes), c \in Bytes : Folded(g, x, Append(s, c)) = g[Folded(g, x, s)][c]
  <2>1. x \in Segmented /\ Stepper(g, Segmented, Bytes)
    BY <1>3 DEF Stepper
  <2>2. StepByStep(g, x, Segmented, Bytes)
    BY <2>1, FoldSteps
  <2> QED BY <2>2, Zenon DEF StepByStep
<1>6. Segments(<<>>) = <<<<>>>>
  BY <1>1, <1>4, <1>5, EmptyText, Zenon
<1>7. ASSUME NEW s \in Texts PROVE Segments(s) \in Segmented
  BY <1>4, <1>5, Zenon DEF Texts
<1>8. ASSUME NEW s \in Texts, NEW c \in Bytes PROVE Segments(Append(s, c)) = Cut(Segments(s), c)
  <2>1. s \in Seq(Bytes)
    BY Zenon DEF Texts
  <2>2. Append(s, c) \in Texts
    BY <2>1, Longer, Zenon DEF Texts
  <2>3. Segments(Append(s, c)) = Folded(g, x, Append(s, c)) /\ Segments(s) = Folded(g, x, s)
    BY <1>4, <2>2
  <2>4. Segments(s) \in Segmented
    BY <1>7
  <2> QED BY <1>3, <1>5, <2>1, <2>3, <2>4
<1> QED
  BY <1>1, <1>6, <1>7, <1>8

Paths == Seq(Texts)

LEMMA NoPath ==
  <<>> \in Paths
BY EmptySeq, Zenon DEF Paths

LEMMA EnterTyped ==
  ASSUME NEW y \in Paths, NEW name \in Texts
  PROVE  Enter(y, name) \in Paths
<1>1. Append(y, name) \in Paths
  BY Longer, Zenon DEF Paths
<1>2. y # <<>> => Front(y) \in Paths
  BY Shorter, Zenon DEF Paths
<1> QED
  BY <1>1, <1>2, Zenon DEF Enter

LEMMA NormalizedSteps ==
  /\ Normalized(<<>>) = <<>>
  /\ \A s \in Paths : Normalized(s) \in Paths
  /\ \A s \in Paths, name \in Texts : Normalized(Append(s, name)) = Enter(Normalized(s), name)
<1>1. PICK x \in Paths : x = <<>>
  BY NoPath
<1>2. PICK g : g = [y \in Paths |-> [name \in Texts |-> Enter(y, name)]]
  OBVIOUS
<1>3. g \in [Paths -> [Texts -> Paths]] /\ \A y \in Paths, name \in Texts : g[y][name] = Enter(y, name)
  BY <1>2, EnterTyped
<1>4. ASSUME NEW s \in Paths PROVE Normalized(s) = Folded(g, x, s)
  <2>0. s \in Seq(Texts)
    BY Zenon DEF Paths
  <2>1. PICK n \in Nat : n = Len(s)
    BY <2>0
  <2>2. PICK f : f \in [0 .. Len(s) -> Paths] /\ Folds(g, x, s, f)
    BY <2>0, <1>1, <1>3, FoldExists
  <2>3. f[0] = x /\ \A i \in 1 .. n : f[i] = g[f[i - 1]][s[i]]
    BY <2>1, <2>2, Zenon DEF Folds
  <2>4. \A i \in 1 .. n : f[i - 1] \in Paths /\ s[i] \in Texts
    BY <2>0, <2>1, <2>2
  <2>5. \A i \in 1 .. n : f[i] = Enter(f[i - 1], s[i])
    BY <1>3, <2>3, <2>4
  <2>6. f = [i \in 0 .. n |-> IF i = 0 THEN x ELSE Enter(f[i - 1], s[i])]
    BY <2>1, <2>2, <2>3, <2>5
  <2>7. PICK h : /\ h = [i \in 0 .. n |-> IF i = 0 THEN x ELSE Enter(h[i - 1], s[i])]
                 /\ Normalized(s) = h[n]
    BY <1>1, <2>1, <2>6, Zenon DEF Normalized
  <2>8. h[0] = x /\ \A i \in 1 .. n : h[i] = Enter(h[i - 1], s[i])
    BY <2>7
  <2>9. \A i \in 1 .. n : f[i - 1] = h[i - 1] => f[i] = h[i]
    BY <2>5, <2>8
  <2>10. f[n] = h[n]
    BY <2>3, <2>8, <2>9, SameSteps
  <2>11. Folded(g, x, s) = f[n]
    BY <2>1, <2>2, FoldIs
  <2> QED BY <2>7, <2>10, <2>11
<1>5. /\ Folded(g, x, <<>>) = x
      /\ \A s \in Seq(Texts) : Folded(g, x, s) \in Paths
      /\ \A s \in Seq(Texts), name \in Texts : Folded(g, x, Append(s, name)) = g[Folded(g, x, s)][name]
  <2>1. x \in Paths /\ Stepper(g, Paths, Texts)
    BY <1>3 DEF Stepper
  <2>2. StepByStep(g, x, Paths, Texts)
    BY <2>1, FoldSteps
  <2> QED BY <2>2, Zenon DEF StepByStep
<1>6. Normalized(<<>>) = <<>>
  BY <1>1, <1>4, <1>5, Zenon
<1>7. ASSUME NEW s \in Paths PROVE Normalized(s) \in Paths
  BY <1>4, <1>5, Zenon DEF Paths
<1>8. ASSUME NEW s \in Paths, NEW name \in Texts PROVE Normalized(Append(s, name)) = Enter(Normalized(s), name)
  <2>1. s \in Seq(Texts)
    BY Zenon DEF Paths
  <2>2. Append(s, name) \in Paths
    BY <2>1, Longer, Zenon DEF Paths
  <2>3. Normalized(Append(s, name)) = Folded(g, x, Append(s, name)) /\ Normalized(s) = Folded(g, x, s)
    BY <1>4, <2>2
  <2>4. Normalized(s) \in Paths
    BY <1>7
  <2> QED BY <1>3, <1>5, <2>1, <2>3, <2>4
<1> QED
  BY <1>6, <1>7, <1>8

LEMMA ResolveTyped ==
  ASSUME NEW y \in Paths, NEW name \in Texts
  PROVE  Resolve(y, name) \in Paths
<1>1. Append(y, name) \in Paths
  BY Longer, Zenon DEF Paths
<1>2. y # <<>> => Front(y) \in Paths
  BY Shorter, Zenon DEF Paths
<1> QED
  BY <1>1, <1>2, Zenon DEF Resolve

LEMMA ResolvedSteps ==
  /\ Resolved(<<>>) = <<>>
  /\ \A s \in Paths : Resolved(s) \in Paths
  /\ \A s \in Paths, name \in Texts : Resolved(Append(s, name)) = Resolve(Resolved(s), name)
<1>1. PICK x \in Paths : x = <<>>
  BY NoPath
<1>2. PICK g : g = [y \in Paths |-> [name \in Texts |-> Resolve(y, name)]]
  OBVIOUS
<1>3. g \in [Paths -> [Texts -> Paths]] /\ \A y \in Paths, name \in Texts : g[y][name] = Resolve(y, name)
  BY <1>2, ResolveTyped
<1>4. ASSUME NEW s \in Paths PROVE Resolved(s) = Folded(g, x, s)
  <2>0. s \in Seq(Texts)
    BY Zenon DEF Paths
  <2>1. PICK n \in Nat : n = Len(s)
    BY <2>0
  <2>2. PICK f : f \in [0 .. Len(s) -> Paths] /\ Folds(g, x, s, f)
    BY <2>0, <1>1, <1>3, FoldExists
  <2>3. f[0] = x /\ \A i \in 1 .. n : f[i] = g[f[i - 1]][s[i]]
    BY <2>1, <2>2, Zenon DEF Folds
  <2>4. \A i \in 1 .. n : f[i - 1] \in Paths /\ s[i] \in Texts
    BY <2>0, <2>1, <2>2
  <2>5. \A i \in 1 .. n : f[i] = Resolve(f[i - 1], s[i])
    BY <1>3, <2>3, <2>4
  <2>6. f = [i \in 0 .. n |-> IF i = 0 THEN x ELSE Resolve(f[i - 1], s[i])]
    BY <2>1, <2>2, <2>3, <2>5
  <2>7. PICK h : /\ h = [i \in 0 .. n |-> IF i = 0 THEN x ELSE Resolve(h[i - 1], s[i])]
                 /\ Resolved(s) = h[n]
    BY <1>1, <2>1, <2>6, Zenon DEF Resolved
  <2>8. h[0] = x /\ \A i \in 1 .. n : h[i] = Resolve(h[i - 1], s[i])
    BY <2>7
  <2>9. \A i \in 1 .. n : f[i - 1] = h[i - 1] => f[i] = h[i]
    BY <2>5, <2>8
  <2>10. f[n] = h[n]
    BY <2>3, <2>8, <2>9, SameSteps
  <2>11. Folded(g, x, s) = f[n]
    BY <2>1, <2>2, FoldIs
  <2> QED BY <2>7, <2>10, <2>11
<1>5. /\ Folded(g, x, <<>>) = x
      /\ \A s \in Seq(Texts) : Folded(g, x, s) \in Paths
      /\ \A s \in Seq(Texts), name \in Texts : Folded(g, x, Append(s, name)) = g[Folded(g, x, s)][name]
  <2>1. x \in Paths /\ Stepper(g, Paths, Texts)
    BY <1>3 DEF Stepper
  <2>2. StepByStep(g, x, Paths, Texts)
    BY <2>1, FoldSteps
  <2> QED BY <2>2, Zenon DEF StepByStep
<1>6. Resolved(<<>>) = <<>>
  BY <1>1, <1>4, <1>5, Zenon
<1>7. ASSUME NEW s \in Paths PROVE Resolved(s) \in Paths
  BY <1>4, <1>5, Zenon DEF Paths
<1>8. ASSUME NEW s \in Paths, NEW name \in Texts PROVE Resolved(Append(s, name)) = Resolve(Resolved(s), name)
  <2>1. s \in Seq(Texts)
    BY Zenon DEF Paths
  <2>2. Append(s, name) \in Paths
    BY <2>1, Longer, Zenon DEF Paths
  <2>3. Resolved(Append(s, name)) = Folded(g, x, Append(s, name)) /\ Resolved(s) = Folded(g, x, s)
    BY <1>4, <2>2
  <2>4. Resolved(s) \in Paths
    BY <1>7
  <2> QED BY <1>3, <1>5, <2>1, <2>3, <2>4
<1> QED
  BY <1>6, <1>7, <1>8

----------------------------------------------------------------------------
(* A path put together is taken apart into the same names.                 *)

SlashFree == Seq(Bytes \ {Slash})

LEMMA NameFacts ==
  /\ SlashFree \subseteq Texts /\ Names \subseteq SlashFree
  /\ <<>> \notin Names /\ <<Dot>> \notin Names /\ <<Dot, Dot>> \notin Names
  /\ <<Dot, Dot>> \in SlashFree /\ <<Slash>> \in Texts
<1>1. SlashFree \subseteq Texts
  BY SeqMonotonic, Bytes \ {Slash} \subseteq Bytes DEF SlashFree, Texts
<1>2. Seq(Bytes \ {NUL, Slash}) \subseteq SlashFree
  BY SeqMonotonic, Bytes \ {NUL, Slash} \subseteq Bytes \ {Slash} DEF SlashFree
<1>3. Names \subseteq Seq(Bytes \ {NUL, Slash})
  BY Zenon DEF Names
<1>4. <<>> \notin Names /\ <<Dot>> \notin Names /\ <<Dot, Dot>> \notin Names
  BY Zenon DEF Names
<1>5. <<Dot, Dot>> \in SlashFree
  <2>1. Dot \in Bytes \ {Slash}
    BY DEF Dot, Slash, Bytes
  <2> QED BY <2>1 DEF SlashFree
<1>6. <<Slash>> \in Texts
  BY BytesDistinct, OneByte DEF Texts
<1> QED
  BY <1>1, <1>2, <1>3, <1>4, <1>5, <1>6

LEMMA JoinedPathSteps ==
  /\ JoinedPath(<<>>) = <<>>
  /\ \A n \in Paths : JoinedPath(n) \in Texts
  /\ \A n \in Paths, t \in Texts :
       JoinedPath(Append(n, t)) = Joined(JoinedPath(n), Joined(<<Slash>>, t))
<1>1. PICK g : g = [t \in Texts |-> Joined(<<Slash>>, t)]
  OBVIOUS
<1>2. \A t \in Texts : Joined(<<Slash>>, t) \in Texts
  BY NameFacts, JoinedIs DEF Texts
<1>3. g \in [Texts -> Seq(Bytes)] /\ \A t \in Texts : g[t] = Joined(<<Slash>>, t)
  <2>1. g \in [Texts -> Texts] /\ \A t \in Texts : g[t] = Joined(<<Slash>>, t)
    BY <1>1, <1>2
  <2> QED BY <2>1, Zenon DEF Texts
<1>4. ASSUME NEW n \in Paths PROVE JoinedPath(n) = Put(g, n)
  <2>1. \A i \in DOMAIN n : n[i] \in Texts
    <3>1. n \in Seq(Texts)
      BY Zenon DEF Paths
    <3> QED BY <3>1
  <2>2. \A i \in DOMAIN n : g[n[i]] = Joined(<<Slash>>, n[i])
    BY <1>3, <2>1
  <2>3. [i \in DOMAIN n |-> g[n[i]]] = [i \in DOMAIN n |-> Joined(<<Slash>>, n[i])]
    BY <2>2
  <2> QED BY <2>3, Zenon DEF JoinedPath, Put, Joined
<1>5. Put(g, <<>>) = <<>>
  BY <1>3, PutSteps, Zenon
<1>6. \A n \in Seq(Texts) : Put(g, n) \in Seq(Bytes)
  BY <1>3, PutSteps, Zenon
<1>7. \A n \in Seq(Texts), t \in Texts : Put(g, Append(n, t)) = Joined(Put(g, n), g[t])
  BY <1>3, PutSteps
<1>8. JoinedPath(<<>>) = <<>>
  BY <1>4, <1>5, NoPath, Zenon
<1>9. ASSUME NEW n \in Paths PROVE JoinedPath(n) \in Texts
  BY <1>4, <1>6, Zenon DEF Paths, Texts
<1>10. ASSUME NEW n \in Paths, NEW t \in Texts
       PROVE  JoinedPath(Append(n, t)) = Joined(JoinedPath(n), Joined(<<Slash>>, t))
  <2>1. n \in Seq(Texts)
    BY Zenon DEF Paths
  <2>2. Append(n, t) \in Paths
    BY <2>1, Longer, Zenon DEF Paths
  <2> QED BY <1>3, <1>4, <1>7, <2>1, <2>2
<1> QED
  BY <1>8, <1>9, <1>10

LEMMA SegmentGrows ==
  ASSUME NEW s \in Texts, NEW y \in Paths, NEW x \in Texts, Segments(s) = Append(y, x)
  PROVE  \A t \in SlashFree : Segments(Joined(s, t)) = Append(y, Joined(x, t))
<1>0. s \in Seq(Bytes) /\ x \in Seq(Bytes) /\ y \in Seq(Texts)
  BY Zenon DEF Texts, Paths
<1> DEFINE P == {t \in SlashFree : Segments(Joined(s, t)) = Append(y, Joined(x, t))}
<1>1. <<>> \in P
  <2>1. Joined(s, <<>>) = s /\ Joined(x, <<>>) = x
    BY <1>0, JoinedNothing
  <2>2. <<>> \in SlashFree
    BY EmptySeq, Zenon DEF SlashFree
  <2> QED BY <2>1, <2>2
<1>2. ASSUME NEW t \in Seq(Bytes \ {Slash}), NEW c \in Bytes \ {Slash}, t \in P
      PROVE  Append(t, c) \in P
  <2>1. t \in Seq(Bytes) /\ c \in Bytes /\ c # Slash
    BY SeqMonotonic, Bytes \ {Slash} \subseteq Bytes
  <2>2. Joined(s, Append(t, c)) = Append(Joined(s, t), c) /\ Joined(x, Append(t, c)) = Append(Joined(x, t), c)
    BY <1>0, <2>1, JoinedLonger
  <2>3. Joined(s, t) \in Texts /\ Joined(x, t) \in Texts
    BY <1>0, <2>1, JoinedIs DEF Texts
  <2>4. Segments(Append(Joined(s, t), c)) = Cut(Segments(Joined(s, t)), c)
    BY <2>1, <2>3, SegmentsSteps
  <2>5. Segments(Joined(s, t)) = Append(y, Joined(x, t))
    BY <1>2
  <2>6. Front(Append(y, Joined(x, t))) = y /\ Last(Append(y, Joined(x, t))) = Joined(x, t)
    BY <1>0, <2>3, Longer
  <2>7. Cut(Append(y, Joined(x, t)), c) = Append(y, Append(Joined(x, t), c))
    BY <2>1, <2>6, Zenon DEF Cut
  <2>8. Append(t, c) \in SlashFree
    BY Longer DEF SlashFree
  <2> QED BY <2>2, <2>4, <2>5, <2>7, <2>8
<1> HIDE DEF P
<1>3. \A t \in Seq(Bytes \ {Slash}) : t \in P
  BY <1>1, <1>2, Lengthening
<1> QED
  BY <1>3, Zenon DEF P, SlashFree

\* What stands before the first slash of an absolute path.
Root == <<<<>>>>

LEMMA TailJoined ==
  ASSUME NEW T, NEW e \in T, NEW n \in Seq(T)
  PROVE  Tail(Joined(<<e>>, n)) = n
<1>1. PICK r : r = <<e>> /\ r \in Seq(T) /\ Len(r) = 1
  <2>1. <<e>> \in Seq(T) /\ Len(<<e>>) = 1
    OBVIOUS
  <2> QED BY <2>1
<1>2. PICK j : j = Joined(r, n)
  OBVIOUS
<1>3. j \in Seq(T) /\ Len(j) = 1 + Len(n) /\ \A i \in 1 .. Len(n) : j[1 + i] = n[i]
  <2>1. /\ Joined(r, n) \in Seq(T) /\ Len(Joined(r, n)) = Len(r) + Len(n)
        /\ \A i \in 1 .. Len(n) : Joined(r, n)[Len(r) + i] = n[i]
    <3>1. r \in Seq(T)
      BY <1>1
    <3> QED BY <3>1, JoinedIs
  <2> QED BY <1>1, <1>2, <2>1, Zenon
<1>4. j # <<>>
  BY <1>3, EmptySeq
<1>5. Tail(j) \in Seq(T) /\ Len(Tail(j)) = Len(n) /\ \A i \in 1 .. Len(n) : Tail(j)[i] = j[i + 1]
  BY <1>3, <1>4, HeadTailProperties
<1>6. \A i \in 1 .. Len(n) : Tail(j)[i] = n[i]
  BY <1>3, <1>5
<1>7. Tail(j) = n
  BY <1>5, <1>6, SeqEqual
<1> QED
  BY <1>1, <1>2, <1>7

LEMMA RootFacts ==
  /\ Root \in Paths /\ Root = Append(<<>>, <<>>) /\ Root # <<>> /\ Len(Root) = 1
  /\ \A n \in Paths : Joined(Root, n) \in Paths /\ Tail(Joined(Root, n)) = n
<1>1. PICK e : e = <<>> /\ e \in Texts
  BY EmptyText
<1>2. PICK r : r = <<e>> /\ r \in Seq(Texts) /\ Len(r) = 1 /\ r = Append(<<>>, e)
  <2>1. <<e>> \in Seq(Texts) /\ Len(<<e>>) = 1
    BY <1>1
  <2>2. Append(<<>>, e) = <<>> \o <<e>> /\ <<>> \o <<e>> = <<e>>
    BY <1>1, <2>1, AppendIsConcat, ConcatEmptySeq, EmptySeq
  <2> QED BY <2>1, <2>2
<1>3. Root = r
  BY <1>1, <1>2, Zenon DEF Root
<1>4. r # <<>>
  BY <1>2, EmptySeq
<1>5. ASSUME NEW n \in Seq(Texts) PROVE Joined(r, n) \in Seq(Texts) /\ Tail(Joined(r, n)) = n
  <2>1. Joined(r, n) \in Seq(Texts)
    BY <1>2, JoinedIs
  <2>2. Tail(Joined(<<e>>, n)) = n
    BY <1>1, TailJoined
  <2> QED BY <1>2, <2>1, <2>2, Zenon
<1> QED
  BY <1>1, <1>2, <1>3, <1>4, <1>5, Zenon DEF Paths

LEMMA TextsJoined ==
  ASSUME NEW s \in Texts, NEW t \in Texts, NEW u \in Texts
  PROVE  Joined(Joined(s, t), u) = Joined(s, Joined(t, u))
<1>1. s \in Seq(Bytes) /\ t \in Seq(Bytes) /\ u \in Seq(Bytes)
  BY Zenon DEF Texts
<1> QED
  BY <1>1, JoinedThree

LEMMA PathLonger ==
  ASSUME NEW n \in Paths, NEW t \in Texts
  PROVE  Joined(Root, Append(n, t)) = Append(Joined(Root, n), t)
<1>1. n \in Seq(Texts) /\ Root \in Seq(Texts)
  BY RootFacts, Zenon DEF Paths
<1> QED
  BY <1>1, JoinedLonger

LEMMA SegmentsOfPath ==
  \A n \in Seq(SlashFree) :
    /\ n \in Paths
    /\ Segments(JoinedPath(n)) = Joined(Root, n)
    /\ Segments(Joined(JoinedPath(n), <<Slash>>)) = Append(Joined(Root, n), <<>>)
<1>0. ASSUME NEW n \in Paths, Segments(JoinedPath(n)) = Joined(Root, n)
      PROVE  /\ Segments(Joined(JoinedPath(n), <<Slash>>)) = Append(Joined(Root, n), <<>>)
             /\ Joined(JoinedPath(n), <<Slash>>) \in Texts
  <2>1. JoinedPath(n) \in Texts
    BY JoinedPathSteps
  <2>2. Joined(JoinedPath(n), <<Slash>>) = Append(JoinedPath(n), Slash)
    BY <2>1, BytesDistinct, JoinedOne DEF Texts
  <2>3. Segments(Append(JoinedPath(n), Slash)) = Cut(Segments(JoinedPath(n)), Slash)
    BY <2>1, BytesDistinct, SegmentsSteps
  <2>4. Joined(JoinedPath(n), <<Slash>>) \in Texts
    BY <2>1, NameFacts, JoinedIs DEF Texts
  <2> QED BY <1>0, <2>2, <2>3, <2>4, Zenon DEF Cut
<1> DEFINE P == {n \in Paths : Segments(JoinedPath(n)) = Joined(Root, n)}
<1>1. <<>> \in P
  <2>1. Joined(Root, <<>>) = Root
    BY RootFacts, JoinedNothing DEF Paths
  <2> QED BY <2>1, JoinedPathSteps, SegmentsSteps, NoPath, Zenon DEF Root
<1>2. ASSUME NEW n \in Seq(SlashFree), NEW t \in SlashFree, n \in P PROVE Append(n, t) \in P
  <2>1. n \in Paths /\ t \in Texts /\ Segments(JoinedPath(n)) = Joined(Root, n)
    BY <1>2, NameFacts
  <2>2. PICK u : u = Joined(JoinedPath(n), <<Slash>>)
    OBVIOUS
  <2>3. u \in Texts /\ Segments(u) = Append(Joined(Root, n), <<>>)
    BY <1>0, <2>1, <2>2
  <2>4. Segments(Joined(u, t)) = Append(Joined(Root, n), Joined(<<>>, t))
    BY <2>1, <2>3, SegmentGrows, RootFacts, EmptyText
  <2>5. Joined(<<>>, t) = t
    BY <2>1, JoinedNothing DEF Texts
  <2>6. JoinedPath(n) \in Texts /\ JoinedPath(Append(n, t)) = Joined(JoinedPath(n), Joined(<<Slash>>, t))
    BY <2>1, JoinedPathSteps
  <2>7. Joined(u, t) = Joined(JoinedPath(n), Joined(<<Slash>>, t))
    BY <2>1, <2>2, <2>6, NameFacts, TextsJoined
  <2>8. Joined(Root, Append(n, t)) = Append(Joined(Root, n), t)
    BY <2>1, PathLonger
  <2>9. Append(n, t) \in Paths
    BY <2>1, Longer DEF Paths
  <2> QED BY <2>4, <2>5, <2>6, <2>7, <2>8, <2>9
<1> HIDE DEF P
<1>3. \A n \in Seq(SlashFree) : n \in P
  BY <1>1, <1>2, Lengthening
<1> QED
  BY <1>0, <1>3 DEF P

LEMMA NormalizedOfPath ==
  \A n \in Seq(Names) :
    /\ n \in Paths
    /\ Normalized(Joined(Root, n)) = n /\ Normalized(Append(Joined(Root, n), <<>>)) = n
<1> DEFINE P == {n \in Paths : Normalized(Joined(Root, n)) = n}
<1>1. <<>> \in P
  <2>1. Joined(Root, <<>>) = Append(<<>>, <<>>)
    BY RootFacts, JoinedNothing DEF Paths
  <2>2. Normalized(Append(<<>>, <<>>)) = Enter(Normalized(<<>>), <<>>)
    BY NormalizedSteps, NoPath, EmptyText
  <2>3. Enter(<<>>, <<>>) = <<>>
    BY Zenon DEF Enter
  <2> QED BY <2>1, <2>2, <2>3, NormalizedSteps, NoPath
<1>2. ASSUME NEW n \in Seq(Names), NEW t \in Names, n \in P PROVE Append(n, t) \in P
  <2>1. n \in Paths /\ t \in Texts /\ Normalized(Joined(Root, n)) = n
    BY <1>2, NameFacts
  <2>2. Joined(Root, Append(n, t)) = Append(Joined(Root, n), t)
    BY <2>1, PathLonger
  <2>3. Normalized(Append(Joined(Root, n), t)) = Enter(n, t)
    BY <2>1, RootFacts, NormalizedSteps
  <2>4. Enter(n, t) = Append(n, t)
    BY NameFacts, Zenon DEF Enter
  <2>5. Append(n, t) \in Paths
    BY <2>1, Longer DEF Paths
  <2> QED BY <2>2, <2>3, <2>4, <2>5
<1> HIDE DEF P
<1>3. \A n \in Seq(Names) : n \in P
  BY <1>1, <1>2, Lengthening
<1>4. ASSUME NEW n \in Seq(Names) PROVE Normalized(Append(Joined(Root, n), <<>>)) = n
  <2>1. n \in Paths /\ Normalized(Joined(Root, n)) = n
    BY <1>3 DEF P
  <2>2. Normalized(Append(Joined(Root, n), <<>>)) = Enter(n, <<>>)
    BY <2>1, RootFacts, NormalizedSteps, EmptyText
  <2> QED BY <2>2, Zenon DEF Enter
<1> QED
  BY <1>3, <1>4 DEF P

LEMMA ResolvedPath ==
  \A n \in Seq(SlashFree \ {<<Dot, Dot>>}) :
    /\ Resolved(n) = n
    /\ Resolved(Append(n, <<Dot, Dot>>)) = IF n = <<>> THEN <<>> ELSE Front(n)
<1> DEFINE P == {n \in Paths : Resolved(n) = n}
<1>1. <<>> \in P
  BY ResolvedSteps, NoPath
<1>2. ASSUME NEW n \in Seq(SlashFree \ {<<Dot, Dot>>}), NEW t \in SlashFree \ {<<Dot, Dot>>}, n \in P
      PROVE  Append(n, t) \in P
  <2>1. n \in Paths /\ t \in Texts /\ Resolved(n) = n /\ t # <<Dot, Dot>>
    BY <1>2, NameFacts
  <2>2. Resolved(Append(n, t)) = Resolve(n, t)
    BY <2>1, ResolvedSteps
  <2>3. Resolve(n, t) = Append(n, t)
    BY <2>1, Zenon DEF Resolve
  <2>4. Append(n, t) \in Paths
    BY <2>1, Longer DEF Paths
  <2> QED BY <2>2, <2>3, <2>4
<1> HIDE DEF P
<1>3. \A n \in Seq(SlashFree \ {<<Dot, Dot>>}) : n \in P
  BY <1>1, <1>2, Lengthening
<1>4. ASSUME NEW n \in Paths, Resolved(n) = n
      PROVE  Resolved(Append(n, <<Dot, Dot>>)) = IF n = <<>> THEN <<>> ELSE Front(n)
  <2>1. Resolved(Append(n, <<Dot, Dot>>)) = Resolve(n, <<Dot, Dot>>)
    BY <1>4, ResolvedSteps, NameFacts
  <2> QED BY <2>1, Zenon DEF Resolve
<1> QED
  BY <1>3, <1>4 DEF P

----------------------------------------------------------------------------
(* Requests that lead where they are meant to.                             *)

\* The URI u asks for node n, by its own path.
Leads(u, n) ==
  /\ u \in Texts /\ u # <<>>
  /\ unescape(u) \in {JoinedPath(n), Joined(JoinedPath(n), <<Slash>>)}

LEMMA TreeFacts ==
  ASSUME NEW n \in DOMAIN Tree
  PROVE  /\ n \in Seq(Names) /\ n \in Seq(SlashFree) /\ n \in Paths
         /\ Tree[n] \in {"file", "dir"}
         /\ n # <<>> => Front(n) \in DOMAIN Tree
         /\ <<>> \in DOMAIN Tree
<1>1. n \in Seq(Names)
  BY ListingAssumption
<1>2. n \in Seq(SlashFree)
  BY <1>1, NameFacts, SeqMonotonic
<1>3. n \in Paths
  BY <1>2, SegmentsOfPath
<1> QED
  BY <1>1, <1>2, <1>3, ListingAssumption

LEMMA Requested ==
  ASSUME NEW n \in DOMAIN Tree, NEW u, Leads(u, n)
  PROVE  RequestPath(u) = n
<1>1. /\ Segments(JoinedPath(n)) = Joined(Root, n)
      /\ Segments(Joined(JoinedPath(n), <<Slash>>)) = Append(Joined(Root, n), <<>>)
  BY TreeFacts, SegmentsOfPath
<1>2. /\ Normalized(Joined(Root, n)) = n
      /\ Normalized(Append(Joined(Root, n), <<>>)) = n
  BY TreeFacts, NormalizedOfPath
<1> QED
  BY <1>1, <1>2 DEF RequestPath, Leads

LEMMA AnswersMeant ==
  ASSUME NEW n \in DOMAIN Tree, NEW u, Leads(u, n)
  PROVE  Answer(u).what # "none" /\ Answer(u).node = Shown(n)
<1>1. canServe(u) = {Shown(n)}
  BY Requested, Zenon DEF canServe, Shown
<1>2. (CHOOSE m \in {Shown(n)} : TRUE) = Shown(n)
  OBVIOUS
<1>3. Answer(u) = IF Tree[Shown(n)] = "file" THEN [what |-> "file", node |-> Shown(n), links |-> {}]
                  ELSE [what |-> "listing", node |-> Shown(n), links |-> Links(u, Shown(n))]
  BY <1>1, <1>2, Zenon DEF Answer
<1> QED
  BY <1>3

LEMMA ListedIs ==
  ASSUME NEW u, Answer(u).what = "listing"
  PROVE  /\ Answer(u).node \in DOMAIN Tree /\ Tree[Answer(u).node] = "dir"
         /\ Answer(u).links = Links(u, Answer(u).node)
<1>1. canServe(u) # {}
  BY DEF Answer
<1>2. PICK m : m = CHOOSE n \in canServe(u) : TRUE
  OBVIOUS
<1>3. m \in canServe(u)
  BY <1>1, <1>2
<1>4. m \in DOMAIN Tree
  BY <1>3 DEF canServe
<1>5. Answer(u) = IF Tree[m] = "file" THEN [what |-> "file", node |-> m, links |-> {}]
                  ELSE [what |-> "listing", node |-> m, links |-> Links(u, m)]
  BY <1>1, <1>2, Zenon DEF Answer
<1>6. Tree[m] # "file"
  BY <1>5
<1> QED
  BY <1>4, <1>5, <1>6, TreeFacts

\* Where the path put together of names ends, and how it begins.
LEMMA PathEnds ==
  ASSUME NEW n \in Seq(SlashFree), NEW t \in SlashFree, t # <<>>
  PROVE  /\ Last(JoinedPath(Append(n, t))) # Slash
         /\ JoinedPath(Append(n, t)) # <<>>
<1>1. n \in Paths /\ t \in Texts /\ JoinedPath(n) \in Texts
  BY SegmentsOfPath, NameFacts, JoinedPathSteps
<1>2. JoinedPath(Append(n, t)) = Joined(JoinedPath(n), Joined(<<Slash>>, t))
  BY <1>1, JoinedPathSteps
<1>3. PICK u : u = Joined(JoinedPath(n), <<Slash>>)
  OBVIOUS
<1>4. u \in Seq(Bytes) /\ Joined(u, t) = JoinedPath(Append(n, t))
  <2>1. u \in Seq(Bytes)
    BY <1>1, <1>3, NameFacts, JoinedIs DEF Texts
  <2> QED BY <1>1, <1>2, <1>3, <2>1, NameFacts, TextsJoined
<1>5. t \in Seq(Bytes \ {Slash})
  BY Zenon DEF SlashFree
<1>6. PICK a \in Seq(Bytes \ {Slash}), c \in Bytes \ {Slash} : t = Append(a, c)
  BY <1>5, SequenceEmptyOrAppend
<1>7. a \in Seq(Bytes)
  BY SeqMonotonic, Bytes \ {Slash} \subseteq Bytes
<1>8. Joined(u, Append(a, c)) = Append(Joined(u, a), c) /\ Joined(u, a) \in Seq(Bytes)
  BY <1>4, <1>7, JoinedLonger, JoinedIs
<1>9. Last(Append(Joined(u, a), c)) = c /\ Append(Joined(u, a), c) # <<>>
  BY <1>8, Longer
<1> QED
  BY <1>4, <1>6, <1>8, <1>9

LEMMA CleanBaseIs ==
  ASSUME NEW n \in DOMAIN Tree, NEW u, Leads(u, n)
  PROVE  CleanBase(u) = JoinedPath(n)
<1>1. n \in Seq(Names) /\ n \in Paths /\ JoinedPath(n) \in Texts
  BY TreeFacts, JoinedPathSteps
<1>2. CASE unescape(u) = Joined(JoinedPath(n), <<Slash>>)
  <2>1. PICK s : s = unescape(u)
    OBVIOUS
  <2>2. s = Append(JoinedPath(n), Slash)
    BY <1>1, <1>2, <2>1, BytesDistinct, JoinedOne DEF Texts
  <2>3. Front(s) = JoinedPath(n) /\ Last(s) = Slash /\ s # <<>>
    BY <1>1, <2>2, BytesDistinct, Longer DEF Texts
  <2> QED BY <2>1, <2>3, Zenon DEF CleanBase
<1>3. CASE unescape(u) = JoinedPath(n) /\ n = <<>>
  BY <1>3, JoinedPathSteps, Zenon DEF CleanBase
<1>4. CASE unescape(u) = JoinedPath(n) /\ n # <<>>
  <2>1. Front(n) \in Seq(Names) /\ Last(n) \in Names /\ n = Append(Front(n), Last(n))
    BY <1>1, <1>4, Shorter
  <2>2. Front(n) \in Seq(SlashFree) /\ Last(n) \in SlashFree /\ Last(n) # <<>>
    BY <2>1, NameFacts, SeqMonotonic
  <2>3. Last(JoinedPath(n)) # Slash
    BY <2>1, <2>2, PathEnds
  <2> QED BY <1>4, <2>3, Zenon DEF CleanBase
<1> QED
  BY <1>2, <1>3, <1>4 DEF Leads

----------------------------------------------------------------------------
(* What a client types.                                                    *)

LEMMA SpellsSlash ==
  Spells(<<Slash>>, <<Slash>>)
<1>1. Slash # Plus /\ Slash # Percent
  BY DEF Slash, Plus, Percent
<1> QED
  BY <1>1, BytesDistinct, ReadsPlain

LEMMA SpellsPath ==
  ASSUME NEW small \in BOOLEAN
  PROVE  \A n \in Paths :
           Spells(JoinedPath([i \in DOMAIN n |-> Written(n[i], small)]), JoinedPath(n))
<1>1. PICK w : w = [t \in Texts |-> Joined(<<Slash>>, Written(t, small))]
  OBVIOUS
<1>2. \A t \in Texts : Spells(Written(t, small), t) /\ Written(t, small) \in Texts
  BY WrittenReadsTheSame, Zenon DEF Spells, Texts
<1>3. \A t \in Texts : Spells(Joined(<<Slash>>, Written(t, small)), Joined(<<Slash>>, t))
  BY <1>2, SpellsSlash, SpellsJoined
<1>4. \A t \in Texts : Joined(<<Slash>>, Written(t, small)) \in Texts
  BY <1>3, Zenon DEF Spells, Texts
<1>5. w \in [Texts -> Seq(Bytes)] /\ \A t \in Texts : w[t] = Joined(<<Slash>>, Written(t, small))
  <2>1. w \in [Texts -> Texts] /\ \A t \in Texts : w[t] = Joined(<<Slash>>, Written(t, small))
    BY <1>1, <1>4
  <2> QED BY <2>1, Zenon DEF Texts
<1>6. Put(w, <<>>) = <<>>
  BY <1>5, PutSteps, Zenon
<1>7. \A n \in Seq(Texts), t \in Texts : Put(w, Append(n, t)) = Joined(Put(w, n), w[t])
  BY <1>5, PutSteps
<1> DEFINE P == {n \in Paths : Spells(Put(w, n), JoinedPath(n))}
<1>8. <<>> \in P
  BY <1>6, JoinedPathSteps, SpellsNothing, NoPath
<1>9. ASSUME NEW n \in Seq(Texts), NEW t \in Texts, n \in P PROVE Append(n, t) \in P
  <2>1. n \in Paths /\ Append(n, t) \in Paths
    BY Longer, Zenon DEF Paths
  <2>2. Put(w, Append(n, t)) = Joined(Put(w, n), Joined(<<Slash>>, Written(t, small)))
    BY <1>5, <1>7
  <2>3. JoinedPath(Append(n, t)) = Joined(JoinedPath(n), Joined(<<Slash>>, t))
    BY <2>1, JoinedPathSteps
  <2>4. Spells(Put(w, n), JoinedPath(n))
    BY <1>9
  <2>5. Spells(Joined(<<Slash>>, Written(t, small)), Joined(<<Slash>>, t))
    BY <1>3
  <2>6. Spells(Joined(Put(w, n), Joined(<<Slash>>, Written(t, small))),
               Joined(JoinedPath(n), Joined(<<Slash>>, t)))
    BY <2>4, <2>5, SpellsJoined, Zenon
  <2> QED BY <2>1, <2>2, <2>3, <2>6
<1> HIDE DEF P
<1>10. \A n \in Seq(Texts) : n \in P
  BY <1>8, <1>9, Lengthening
<1>11. ASSUME NEW n \in Paths
       PROVE  JoinedPath([i \in DOMAIN n |-> Written(n[i], small)]) = Put(w, n)
  <2>1. \A i \in DOMAIN n : n[i] \in Texts
    <3>1. n \in Seq(Texts)
      BY Zenon DEF Paths
    <3> QED BY <3>1
  <2>2. PICK m : m = [i \in DOMAIN n |-> Written(n[i], small)]
    OBVIOUS
  <2>3. [i \in DOMAIN m |-> Joined(<<Slash>>, m[i])] = [i \in DOMAIN n |-> w[n[i]]]
    BY <1>5, <2>1, <2>2
  <2> QED BY <2>2, <2>3, Zenon DEF JoinedPath, Put, Joined
<1>12. ASSUME NEW n \in Paths PROVE Spells(Put(w, n), JoinedPath(n))
  BY <1>10, Zenon DEF P, Paths
<1> QED
  BY <1>11, <1>12

\* Whatever bytes a node's path has, and however a client writes them, what it
\* types leads there.
LEMMA TypedLeads ==
  ASSUME NEW n \in DOMAIN Tree, NEW small \in BOOLEAN, NEW end \in {<<>>, <<Slash>>},
         n = <<>> => end # <<>>
  PROVE  Leads(JoinedPath([i \in DOMAIN n |-> Written(n[i], small)]) \o end, n)
<1>1. n \in Paths /\ n \in Seq(SlashFree) /\ n \in Seq(Names) /\ JoinedPath(n) \in Texts
  BY TreeFacts, JoinedPathSteps
<1>2. PICK u : u = JoinedPath([i \in DOMAIN n |-> Written(n[i], small)])
  OBVIOUS
<1>3. Spells(u, JoinedPath(n))
  BY <1>1, <1>2, SpellsPath
<1>4. Spells(end, end)
  BY SpellsNothing, SpellsSlash
<1>5. Spells(Joined(u, end), Joined(JoinedPath(n), end))
  BY <1>3, <1>4, SpellsJoined
<1>6. unescape(Joined(u, end)) = Joined(JoinedPath(n), end) /\ Joined(u, end) \in Texts
  BY <1>5, SpelledOut, Zenon DEF Spells, Texts
<1>7. Joined(JoinedPath(n), <<>>) = JoinedPath(n)
  BY <1>1, JoinedNothing DEF Texts
<1>8. Joined(JoinedPath(n), end) # <<>>
  <2>1. CASE end = <<Slash>>
    <3>1. Joined(JoinedPath(n), <<Slash>>) = Append(JoinedPath(n), Slash)
      BY <1>1, BytesDistinct, JoinedOne DEF Texts
    <3>2. Append(JoinedPath(n), Slash) # <<>>
      BY <1>1, BytesDistinct, Longer DEF Texts
    <3> QED BY <2>1, <3>1, <3>2
  <2>2. CASE end = <<>>
    <3>1. PICK m \in Seq(Names), t \in Names : n = Append(m, t)
      BY <2>2, <1>1, SequenceEmptyOrAppend
    <3>2. m \in Seq(SlashFree) /\ t \in SlashFree /\ t # <<>>
      BY NameFacts, SeqMonotonic
    <3> QED BY <2>2, <1>7, <3>1, <3>2, PathEnds
  <2> QED BY <2>1, <2>2
<1>9. Joined(u, end) # <<>>
  <2>1. unescape(<<>>) = <<>>
    BY SpellsNothing, SpelledOut
  <2> QED BY <2>1, <1>6, <1>8
<1>10. unescape(Joined(u, end)) \in {JoinedPath(n), Joined(JoinedPath(n), <<Slash>>)}
  BY <1>6, <1>7
<1>11. Leads(Joined(u, end), n)
  BY <1>6, <1>9, <1>10, Zenon DEF Leads
<1> QED
  BY <1>2, <1>11, Zenon DEF Joined

----------------------------------------------------------------------------
(* What a browser makes of a link.                                         *)

Quiet == Bytes \ {Quote, Hash, Percent, Plus, Question}
Escaped == Alnum \cup {Underscore, Dot, Minus, Percent, Plus}
Whole == Bytes \ {Quote, Hash, Question}

LEMMA ByteSets ==
  /\ Quiet \subseteq Bytes /\ Quiet \subseteq Whole /\ Slash \in Quiet /\ Dot \in Quiet
  /\ Escaped \subseteq Bytes /\ Escaped \subseteq Whole /\ Slash \notin Escaped
  /\ Whole \subseteq Bytes /\ Quote \notin Whole /\ Hash \notin Whole /\ Question \notin Whole
  /\ Plus \notin Quiet /\ Percent \notin Quiet
  /\ \A c \in Escaped \cup {Slash} : ~(c = Space \/ c > 127)
<1>1. Quiet \subseteq Bytes /\ Quiet \subseteq Whole /\ Slash \in Quiet /\ Dot \in Quiet
  BY DEF Quiet, Whole, Bytes, Quote, Hash, Percent, Plus, Question, Slash, Dot
<1>2. Escaped \subseteq Bytes /\ Slash \notin Escaped
  BY DEF Escaped, Bytes, Alnum, DecDigits, Underscore, Dot, Minus, Percent, Plus, Slash
<1>3. Escaped \subseteq Whole
  BY DEF Escaped, Bytes, Alnum, DecDigits, Underscore, Dot, Minus, Percent, Plus,
         Whole, Quote, Hash, Question
<1>4. Whole \subseteq Bytes /\ Quote \notin Whole /\ Hash \notin Whole /\ Question \notin Whole
  BY DEF Whole
<1>5. Plus \notin Quiet /\ Percent \notin Quiet
  BY DEF Quiet
<1>6. \A c \in Escaped \cup {Slash} : ~(c = Space \/ c > 127)
  BY DEF Escaped, Alnum, DecDigits, Underscore, Dot, Minus, Percent, Plus, Slash, Space
<1> QED
  BY <1>1, <1>2, <1>3, <1>4, <1>5, <1>6

LEMMA PathIn ==
  ASSUME NEW T \in SUBSET Bytes, Slash \in T
  PROVE  \A n \in Seq(Seq(T)) : n \in Paths /\ JoinedPath(n) \in Seq(T)
<1>1. PICK U : U = Seq(T)
  OBVIOUS
<1>2. U \subseteq Texts
  BY <1>1, SeqMonotonic DEF Texts
<1>3. <<Slash>> \in U
  BY <1>1
<1>4. \A s \in U, t \in U : Joined(s, t) \in U
  BY <1>1, JoinedIs
<1> DEFINE P == {n \in Paths : JoinedPath(n) \in U}
<1>5. <<>> \in P
  BY <1>1, JoinedPathSteps, NoPath, EmptySeq
<1>6. ASSUME NEW n \in Seq(U), NEW t \in U, n \in P PROVE Append(n, t) \in P
  <2>1. n \in Seq(Texts) /\ t \in Texts
    BY <1>2, SeqMonotonic
  <2>2. n \in Paths /\ Append(n, t) \in Paths
    BY <2>1, Longer, Zenon DEF Paths
  <2>3. JoinedPath(Append(n, t)) = Joined(JoinedPath(n), Joined(<<Slash>>, t))
    BY <2>1, <2>2, JoinedPathSteps
  <2>4. Joined(JoinedPath(n), Joined(<<Slash>>, t)) \in U
    BY <1>3, <1>4, <1>6
  <2> QED BY <2>2, <2>3, <2>4
<1> HIDE DEF P
<1>7. \A n \in Seq(U) : n \in P
  BY <1>5, <1>6, Lengthening
<1> QED
  BY <1>1, <1>7, Zenon DEF P

LEMMA EscapedIn ==
  \A s \in Texts : escape(s) \in Seq(Escaped)
<1>1. PICK g : g = [c \in Bytes |-> EscapedByte(c)]
  OBVIOUS
<1>2. ASSUME NEW c \in Bytes PROVE EscapedByte(c) \in Seq(Escaped)
  <2>1. CASE c \in Alnum \cup {Underscore, Dot, Minus}
    <3>1. c \in Escaped
      BY <2>1, Zenon DEF Escaped
    <3>2. <<c>> \in Seq(Escaped)
      BY <3>1
    <3> QED BY <2>1, <3>2, Zenon DEF EscapedByte
  <2>2. CASE c \notin Alnum \cup {Underscore, Dot, Minus} /\ c = Space
    <3>1. Plus \in Escaped
      BY Zenon DEF Escaped
    <3>2. <<Plus>> \in Seq(Escaped)
      BY <3>1
    <3> QED BY <2>2, <3>2, Zenon DEF EscapedByte
  <2>3. CASE c \notin Alnum \cup {Underscore, Dot, Minus} /\ c # Space
    <3>1. PICK h \in 0 .. 15, l \in 0 .. 15 : h = c \div 16 /\ l = c % 16
      BY DEF Bytes
    <3>2. \A n \in 0 .. 15 : dec2hex[n] \in Alnum
      BY DEF dec2hex, Alnum, DecDigits
    <3>3. Percent \in Escaped /\ dec2hex[h] \in Escaped /\ dec2hex[l] \in Escaped
      BY <3>2, Zenon DEF Escaped
    <3>4. <<Percent, dec2hex[h], dec2hex[l]>> \in Seq(Escaped)
      BY <3>3
    <3> QED BY <2>3, <3>1, <3>4, Zenon DEF EscapedByte, PercentEncoded
  <2> QED BY <2>1, <2>2, <2>3
<1>3. g \in [Bytes -> Seq(Escaped)]
  BY <1>1, <1>2
<1>4. \A s \in Seq(Bytes) : Put(g, s) \in Seq(Escaped)
  BY <1>3, PutSteps, Zenon
<1>5. ASSUME NEW s \in Seq(Bytes) PROVE escape(s) = Put(g, s)
  <2>1. \A i \in DOMAIN s : s[i] \in Bytes
    OBVIOUS
  <2>2. [i \in DOMAIN s |-> g[s[i]]] = [i \in DOMAIN s |-> EscapedByte(s[i])]
    BY <1>1, <2>1
  <2> QED BY <2>2, Zenon DEF escape, Put
<1> QED
  BY <1>4, <1>5, Zenon DEF Texts

JoinsTo(u, v, n, m, j) ==
  /\ j = Joined(u, v) /\ Len(j) = n + m
  /\ \A i \in 1 .. n : j[i] = u[i]
  /\ \A i \in 1 .. m : j[n + i] = v[i]

LEMMA JoinedShort ==
  ASSUME NEW T, NEW u \in Seq(T), NEW v \in Seq(T)
  PROVE  \A n, m : Len(u) = n /\ Len(v) = m => JoinsTo(u, v, n, m, Joined(u, v))
<1>1. u \in Seq(T) /\ v \in Seq(T)
  OBVIOUS
<1>2. /\ Len(Joined(u, v)) = Len(u) + Len(v)
      /\ \A i \in 1 .. Len(u) : Joined(u, v)[i] = u[i]
  BY JoinedIs, Zenon
<1>3. ASSUME NEW i \in 1 .. Len(v) PROVE Joined(u, v)[Len(u) + i] = v[i]
  BY <1>1, JoinedIs
<1> QED
  BY <1>2, <1>3, Zenon DEF JoinsTo

LEMMA TwoDots ==
  /\ Joined(<<Dot>>, <<Dot>>) = <<Dot, Dot>> /\ <<Dot, Dot>> \in Texts
  /\ Joined(<<Slash>>, <<Dot, Dot>>) = <<Slash, Dot, Dot>>
<1>1. PICK u \in Seq(Bytes) : u = <<Dot>> /\ Len(u) = 1 /\ u[1] = Dot
  BY BytesDistinct, OneByte
<1>2. PICK v \in Seq(Bytes) : v = <<Slash>> /\ Len(v) = 1 /\ v[1] = Slash
  BY BytesDistinct, OneByte
<1>3. PICK w \in Seq(Bytes) : w = <<Dot, Dot>> /\ Len(w) = 2 /\ w[1] = Dot /\ w[2] = Dot
  <2>1. /\ <<Dot, Dot>> \in Seq(Bytes) /\ Len(<<Dot, Dot>>) = 2
        /\ <<Dot, Dot>>[1] = Dot /\ <<Dot, Dot>>[2] = Dot
    BY BytesDistinct
  <2> QED BY <2>1
<1>4. PICK z \in Seq(Bytes) :
        z = <<Slash, Dot, Dot>> /\ Len(z) = 3 /\ z[1] = Slash /\ z[2] = Dot /\ z[3] = Dot
  BY BytesDistinct, ThreeBytes
<1>5. Joined(u, u) = w
  <2>1. PICK j : JoinsTo(u, u, 1, 1, j)
    <3>1. u \in Seq(Bytes) /\ Len(u) = 1
      BY <1>1
    <3>2. JoinsTo(u, u, 1, 1, Joined(u, u))
      BY <3>1, JoinedShort, Zenon
    <3> QED BY <3>2, Zenon
  <2>a. /\ j = Joined(u, u) /\ Len(j) = 1 + 1
        /\ \A i \in 1 .. 1 : j[i] = u[i]
        /\ \A i \in 1 .. 1 : j[1 + i] = u[i]
    BY <2>1, Zenon DEF JoinsTo
  <2>b. j \in Seq(Bytes)
    BY <2>a, JoinedIs
  <2>2. j[1] = u[1] /\ j[1 + 1] = u[1]
    BY <2>a
  <2>3. \A i \in 1 .. Len(j) : j[i] = w[i]
    <3>1. Len(j) = 2 /\ j[1] = Dot /\ j[2] = Dot /\ w[1] = Dot /\ w[2] = Dot
      BY <1>1, <1>3, <2>a, <2>2
    <3> QED BY <3>1
  <2>4. Len(j) = Len(w)
    BY <1>3, <2>a
  <2> QED BY <2>a, <2>b, <2>3, <2>4, SeqEqual
<1>6. Joined(v, w) = z
  <2>1. PICK j : JoinsTo(v, w, 1, 2, j)
    <3>1. Len(v) = 1 /\ Len(w) = 2
      BY <1>2, <1>3
    <3>2. JoinsTo(v, w, 1, 2, Joined(v, w))
      BY <3>1, JoinedShort, Zenon
    <3> QED BY <3>2, Zenon
  <2>a. /\ j = Joined(v, w) /\ Len(j) = 1 + 2
        /\ \A i \in 1 .. 1 : j[i] = v[i]
        /\ \A i \in 1 .. 2 : j[1 + i] = w[i]
    BY <2>1, Zenon DEF JoinsTo
  <2>b. j \in Seq(Bytes)
    BY <2>a, JoinedIs
  <2>2. j[1] = v[1] /\ j[1 + 1] = w[1] /\ j[1 + 2] = w[2]
    BY <2>a
  <2>3. \A i \in 1 .. Len(j) : j[i] = z[i]
    <3>1. Len(j) = 3 /\ j[1] = Slash /\ j[2] = Dot /\ j[3] = Dot
      BY <1>2, <1>3, <2>a, <2>2
    <3>2. z[1] = Slash /\ z[2] = Dot /\ z[3] = Dot
      BY <1>4
    <3> QED BY <3>1, <3>2
  <2>4. Len(j) = Len(z)
    BY <1>4, <2>a
  <2> QED BY <2>a, <2>b, <2>3, <2>4, SeqEqual
<1> QED
  BY <1>1, <1>2, <1>3, <1>4, <1>5, <1>6, Zenon DEF Texts

\* A name that is none of the special ones is not escaped to one.
LEMMA EscapedName ==
  ASSUME NEW t \in Names
  PROVE  /\ escape(t) \in SlashFree /\ escape(t) # <<>> /\ escape(t) # <<Dot, Dot>>
         /\ escape(t) \in Seq(Escaped) /\ Spells(escape(t), t)
<1>1. t \in Texts /\ t \in Seq(Bytes)
  <2>1. t \in Texts
    BY NameFacts
  <2> QED BY <2>1, Zenon DEF Texts
<1>2. escape(t) \in Seq(Escaped) /\ Spells(escape(t), t)
  BY <1>1, EscapedIn, EscapedReadsTheSame
<1>3. escape(t) \in SlashFree
  <2>1. Escaped \subseteq Bytes \ {Slash}
    BY ByteSets
  <2> QED BY <1>2, <2>1, SeqMonotonic DEF SlashFree
<1>4. Spells(<<Dot, Dot>>, <<Dot, Dot>>)
  <2>1. Spells(<<Dot>>, <<Dot>>)
    <3>1. Dot # Plus /\ Dot # Percent
      BY DEF Dot, Plus, Percent
    <3> QED BY <3>1, BytesDistinct, ReadsPlain
  <2>2. Joined(<<Dot>>, <<Dot>>) = <<Dot, Dot>>
    BY TwoDots
  <2>3. Spells(Joined(<<Dot>>, <<Dot>>), Joined(<<Dot>>, <<Dot>>))
    BY <2>1, SpellsJoined
  <2> QED BY <2>2, <2>3
<1>5. unescape(escape(t)) = t /\ unescape(<<Dot, Dot>>) = <<Dot, Dot>> /\ unescape(<<>>) = <<>>
  BY <1>2, <1>4, SpellsNothing, SpelledOut
<1>6. t # <<>> /\ t # <<Dot, Dot>>
  BY NameFacts
<1> QED
  BY <1>2, <1>3, <1>5, <1>6, Zenon

LEMMA UpToAll ==
  ASSUME NEW T, NEW s \in Seq(T), NEW c, c \notin T
  PROVE  UpTo(s, c) = s
<1>1. \A i \in 1 .. Len(s) : s[i] # c
  OBVIOUS
<1>2. {i \in 1 .. Len(s) : s[i] = c} = {}
  BY <1>1
<1>3. SelectInSeq(s, LAMBDA x : x = c) = 0
  BY <1>2, Zenon DEF SelectInSeq
<1> QED
  BY <1>3, Zenon DEF UpTo

LEMMA SecondByte ==
  \A n \in Seq(SlashFree \ {<<>>}) :
    n # <<>> => Len(JoinedPath(n)) >= 2 /\ JoinedPath(n)[2] # Slash
<1> DEFINE P == {n \in Paths : n # <<>> => Len(JoinedPath(n)) >= 2 /\ JoinedPath(n)[2] # Slash}
<1>1. <<>> \in P
  BY NoPath
<1>2. ASSUME NEW n \in Seq(SlashFree \ {<<>>}), NEW t \in SlashFree \ {<<>>}, n \in P
      PROVE  Append(n, t) \in P
  <2>1. n \in Paths /\ t \in Texts /\ Append(n, t) \in Paths
    <3>1. n \in Paths /\ t \in Texts
      BY <1>2, NameFacts
    <3>2. n \in Seq(Texts)
      BY <3>1, Zenon DEF Paths
    <3> QED BY <3>1, <3>2, Longer, Zenon DEF Paths
  <2>2. PICK p \in Seq(Bytes), q \in Seq(Bytes) : p = JoinedPath(n) /\ q = Joined(<<Slash>>, t)
    BY <2>1, JoinedPathSteps, NameFacts, JoinedIs DEF Texts
  <2>3. JoinedPath(Append(n, t)) = Joined(p, q)
    BY <2>1, <2>2, JoinedPathSteps
  <2>4. Len(q) >= 2 /\ q[2] # Slash
    <3>1. t \in Seq(Bytes \ {Slash}) /\ t \in Seq(Bytes) /\ t # <<>>
      BY <1>2, <2>1, Zenon DEF SlashFree, Texts
    <3>2. Len(t) >= 1 /\ t[1] # Slash
      BY <3>1
    <3>3. PICK u \in Seq(Bytes) : u = <<Slash>> /\ Len(u) = 1
      BY BytesDistinct, OneByte
    <3>4. Len(Joined(u, t)) = Len(u) + Len(t) /\ Joined(u, t)[Len(u) + 1] = t[1]
      <4>1. 1 \in 1 .. Len(t)
        BY <3>1, <3>2
      <4>2. u \in Seq(Bytes)
        OBVIOUS
      <4> QED BY <3>1, <4>1, <4>2, JoinedIs
    <3>5. Joined(u, t) = q
      BY <2>2, <3>3, Zenon
    <3>6. Len(q) = 1 + Len(t) /\ q[1 + 1] = t[1] /\ Len(t) \in Nat
      BY <3>1, <3>3, <3>4, <3>5
    <3> QED BY <3>2, <3>6
  <2>5. CASE n = <<>>
    <3>1. Joined(p, q) = q
      BY <2>2, <2>5, JoinedPathSteps, JoinedNothing
    <3> QED BY <2>1, <2>3, <2>4, <3>1
  <2>6. CASE n # <<>>
    <3>1. Len(p) >= 2 /\ p[2] # Slash
      BY <1>2, <2>2, <2>6
    <3>2. /\ Len(Joined(p, q)) = Len(p) + Len(q) /\ Joined(p, q)[2] = p[2]
      <4>1. 2 \in 1 .. Len(p)
        BY <3>1
      <4> QED BY <4>1, JoinedIs
    <3>3. Len(Joined(p, q)) >= 2 /\ Joined(p, q)[2] # Slash
      BY <3>1, <3>2, <2>4
    <3> QED BY <2>1, <2>3, <3>3
  <2> QED BY <2>5, <2>6
<1> HIDE DEF P
<1>3. \A n \in Seq(SlashFree \ {<<>>}) : n \in P
  BY <1>1, <1>2, Lengthening
<1> QED
  BY <1>3 DEF P

\* The bytes of a path as a client sends them.
Sending == [c \in Bytes |-> Sent(c)]

LEMMA SendingSteps ==
  /\ Sending \in [Bytes -> Seq(Bytes)]
  /\ \A s \in Texts : FlattenSeq([i \in DOMAIN s |-> Sent(s[i])]) = Put(Sending, s)
<1>1. PICK g : g = Sending /\ \A c \in Bytes : g[c] = Sent(c)
  <2>1. \A c \in Bytes : Sending[c] = Sent(c)
    BY DEF Sending
  <2> QED BY <2>1
<1>2. ASSUME NEW c \in Bytes PROVE Sent(c) \in Seq(Bytes)
  <2>1. PercentEncoded(c) \in Seq(Bytes)
    <3>1. PICK h \in 0 .. 15, l \in 0 .. 15 : h = c \div 16 /\ l = c % 16
      BY DEF Bytes
    <3>2. dec2hex[h] \in Bytes /\ dec2hex[l] \in Bytes /\ Percent \in Bytes
      BY HexDigits, BytesDistinct
    <3>3. <<Percent, dec2hex[h], dec2hex[l]>> \in Seq(Bytes)
      BY <3>2
    <3> QED BY <3>1, <3>3, Zenon DEF PercentEncoded
  <2>2. <<c>> \in Seq(Bytes)
    OBVIOUS
  <2> QED BY <2>1, <2>2, Zenon DEF Sent
<1>3. Sending \in [Bytes -> Seq(Bytes)]
  BY <1>2, Zenon DEF Sending
<1>4. ASSUME NEW s \in Texts PROVE FlattenSeq([i \in DOMAIN s |-> Sent(s[i])]) = Put(g, s)
  <2>1. \A i \in DOMAIN s : s[i] \in Bytes
    BY DEF Texts
  <2>2. [i \in DOMAIN s |-> g[s[i]]] = [i \in DOMAIN s |-> Sent(s[i])]
    BY <1>1, <2>1
  <2> QED BY <2>2, Zenon DEF Put
<1> QED
  BY <1>1, <1>3, <1>4

\* The bytes with a meaning of their own apart, a server reads what was sent,
LEMMA QuietSent ==
  \A s \in Seq(Quiet) : Spells(Put(Sending, s), s)
<1>1. \A c \in Quiet : Sending[c] = Sent(c) /\ Spells(Sent(c), <<c>>)
  BY ByteSets, SpellsSent DEF Sending
<1>2. PICK D \in SUBSET Bytes : D = Quiet
  BY ByteSets
<1>3. \A c \in D : Spells(Sending[c], <<c>>)
  BY <1>1, <1>2
<1>4. \A s \in Seq(D) : Spells(Put(Sending, s), s)
  BY <1>3, SendingSteps, SpellsPut
<1> QED
  BY <1>2, <1>4

\* and what is escaped already is sent as it is.
LEMMA EscapedSent ==
  \A s \in Seq(Escaped \cup {Slash}) : Put(Sending, s) = s
<1>1. PICK D : D = Escaped \cup {Slash}
  OBVIOUS
<1>2. D \subseteq Bytes /\ \A c \in D : Sending[c] = <<c>>
  <2>1. D \subseteq Bytes /\ \A c \in D : ~(c = Space \/ c > 127)
    BY <1>1, ByteSets, BytesDistinct
  <2>2. \A c \in D : Sent(c) = <<c>>
    BY <2>1, Zenon DEF Sent
  <2> QED BY <2>1, <2>2 DEF Sending
<1>3. /\ Put(Sending, <<>>) = <<>>
      /\ \A s \in Seq(Bytes), c \in Bytes : Put(Sending, Append(s, c)) = Joined(Put(Sending, s), Sending[c])
  <2>1. PICK g \in [Bytes -> Seq(Bytes)] : g = Sending
    BY SendingSteps
  <2>2. /\ Put(g, <<>>) = <<>>
        /\ \A s \in Seq(Bytes), c \in Bytes : Put(g, Append(s, c)) = Joined(Put(g, s), g[c])
    BY PutSteps, Zenon
  <2> QED BY <2>1, <2>2
<1> DEFINE P == {s \in Seq(D) : Put(Sending, s) = s}
<1>4. <<>> \in P
  BY <1>3, EmptySeq
<1>5. ASSUME NEW s \in Seq(D), NEW c \in D, s \in P PROVE Append(s, c) \in P
  <2>1. s \in Seq(Bytes) /\ c \in Bytes
    BY <1>2, SeqMonotonic
  <2>2. Put(Sending, Append(s, c)) = Joined(s, <<c>>)
    BY <1>2, <1>3, <1>5, <2>1
  <2>3. Joined(s, <<c>>) = Append(s, c)
    BY <2>1, JoinedOne
  <2>4. Append(s, c) \in Seq(D)
    BY Longer
  <2> QED BY <2>2, <2>3, <2>4
<1> HIDE DEF P
<1>6. \A s \in Seq(D) : s \in P
  BY <1>4, <1>5, Lengthening
<1> QED
  BY <1>1, <1>6 DEF P

LEMMA FollowedIs ==
  ASSUME NEW href \in Seq(Whole), href[2] # Slash, DotsResolved(href) \in Texts
  PROVE  Followed(href) = Put(Sending, DotsResolved(href))
<1>1. UpTo(href, Quote) = href /\ UpTo(href, Hash) = href /\ UpTo(href, Question) = href
  BY ByteSets, UpToAll
<1>2. SubSeq(href, Len(href) + 1, Len(href)) = <<>>
  OBVIOUS
<1>3. PICK p \in Texts : p = DotsResolved(href)
  OBVIOUS
<1>4. p \o <<>> = p
  BY ConcatEmptySeq DEF Texts
<1>5. Followed(href) = FlattenSeq([i \in DOMAIN p |-> Sent(p[i])])
  BY <1>1, <1>2, <1>3, <1>4, Zenon DEF Followed
<1> QED
  BY <1>3, <1>5, SendingSteps

\* A path without dots is resolved to itself, and with two dots at its end to
\* the directory above.
LEMMA DotFree ==
  ASSUME NEW d \in Seq(SlashFree), NEW x \in SlashFree
  PROVE  LET n == Append(d, x)
         IN DotsResolved(JoinedPath(n)) =
              JoinedPath(Resolved(n)) \o (IF x = <<Dot, Dot>> THEN <<Slash>> ELSE <<>>)
<1>1. PICK n : n = Append(d, x)
  OBVIOUS
<1>2. n \in Seq(SlashFree) /\ Last(n) = x
  BY <1>1, Longer
<1>3. n \in Paths /\ Segments(JoinedPath(n)) = Joined(Root, n)
  BY <1>2, SegmentsOfPath
<1>4. Tail(Segments(JoinedPath(n))) = n
  BY <1>3, RootFacts
<1>5. DotsResolved(JoinedPath(n)) =
        JoinedPath(Resolved(n)) \o (IF x = <<Dot, Dot>> THEN <<Slash>> ELSE <<>>)
  BY <1>2, <1>4, Zenon DEF DotsResolved
<1> QED
  BY <1>1, <1>5

LEMMA ChildResolved ==
  ASSUME NEW d \in Seq(SlashFree \ {<<Dot, Dot>>}), NEW x \in SlashFree \ {<<Dot, Dot>>}
  PROVE  DotsResolved(JoinedPath(Append(d, x))) = JoinedPath(Append(d, x))
<1>1. PICK D : D = SlashFree \ {<<Dot, Dot>>}
  OBVIOUS
<1>2. d \in Seq(D) /\ x \in D /\ x # <<Dot, Dot>> /\ D \subseteq SlashFree
  BY <1>1
<1>3. PICK n : n = Append(d, x)
  OBVIOUS
<1>4. n \in Seq(D)
  BY <1>2, <1>3, Longer
<1>5. Resolved(n) = n
  BY <1>1, <1>4, ResolvedPath
<1>6. d \in Seq(SlashFree) /\ x \in SlashFree /\ n \in Seq(SlashFree)
  BY <1>2, <1>4, SeqMonotonic
<1>7. n \in Paths /\ JoinedPath(n) \in Texts
  BY <1>6, SegmentsOfPath, JoinedPathSteps
<1>8. DotsResolved(JoinedPath(n)) =
        JoinedPath(Resolved(n)) \o (IF x = <<Dot, Dot>> THEN <<Slash>> ELSE <<>>)
  BY <1>3, <1>6, DotFree
<1>9. JoinedPath(n) \o <<>> = JoinedPath(n)
  BY <1>7, ConcatEmptySeq DEF Texts
<1> QED
  BY <1>2, <1>3, <1>5, <1>8, <1>9, Zenon

LEMMA ParentResolved ==
  ASSUME NEW d \in Seq(SlashFree \ {<<Dot, Dot>>})
  PROVE  DotsResolved(JoinedPath(Append(d, <<Dot, Dot>>))) =
           Joined(JoinedPath(IF d = <<>> THEN <<>> ELSE Front(d)), <<Slash>>)
<1>1. Resolved(Append(d, <<Dot, Dot>>)) = IF d = <<>> THEN <<>> ELSE Front(d)
  BY ResolvedPath
<1>2. d \in Seq(SlashFree) /\ <<Dot, Dot>> \in SlashFree
  BY NameFacts, SeqMonotonic, SlashFree \ {<<Dot, Dot>>} \subseteq SlashFree
<1>3. PICK x \in SlashFree : x = <<Dot, Dot>>
  BY <1>2
<1>4. DotsResolved(JoinedPath(Append(d, x))) =
        JoinedPath(Resolved(Append(d, x))) \o (IF x = <<Dot, Dot>> THEN <<Slash>> ELSE <<>>)
  BY <1>2, DotFree
<1> QED
  BY <1>1, <1>3, <1>4, Zenon DEF Joined

----------------------------------------------------------------------------
(* The links of a listing lead to what they name.                          *)

LEMMA QuietNames ==
  ASSUME NEW d \in DOMAIN Tree, Tree[d] = "dir", OrdinaryTree, Plain(d)
  PROVE  d \in Seq(Seq(Quiet))
<1>1. d \in Seq(Texts)
  BY TreeFacts, Zenon DEF Paths
<1>2. ASSUME NEW i \in DOMAIN d PROVE d[i] \in Seq(Quiet)
  <2>1. ToSet(d[i]) \cap {Quote, Hash, Percent, Plus} = {} /\ Question \notin ToSet(d[i])
    BY Zenon DEF Plain, OrdinaryTree
  <2>2. PICK t \in Seq(Bytes) : t = d[i]
    <3>1. d[i] \in Texts
      BY <1>1
    <3> QED BY <3>1, Zenon DEF Texts
  <2>3. ASSUME NEW j \in 1 .. Len(t) PROVE t[j] \in Quiet
    <3>1. t[j] \in ToSet(t) /\ t[j] \in Bytes
      BY DEF ToSet
    <3> QED BY <2>1, <2>2, <3>1, Zenon DEF Quiet
  <2>4. t \in Seq(Quiet)
    BY <2>3
  <2> QED BY <2>2, <2>4
<1>3. PICK Q : Q = Seq(Quiet)
  OBVIOUS
<1>4. d \in Seq(Q)
  BY <1>1, <1>2, <1>3
<1> QED
  BY <1>3, <1>4

LEMMA WayFacts ==
  ASSUME NEW d \in Seq(Names)
  PROVE  /\ d \in Seq(SlashFree) /\ d \in Seq(SlashFree \ {<<>>})
         /\ d \in Seq(SlashFree \ {<<Dot, Dot>>}) /\ d \in Paths /\ JoinedPath(d) \in Texts
<1>1. d \in Seq(SlashFree) /\ d \in Seq(SlashFree \ {<<>>}) /\ d \in Seq(SlashFree \ {<<Dot, Dot>>})
  <2>1. Names \subseteq SlashFree /\ Names \subseteq SlashFree \ {<<>>}
        /\ Names \subseteq SlashFree \ {<<Dot, Dot>>}
    BY NameFacts
  <2> QED BY <2>1, SeqMonotonic
<1> QED
  BY <1>1, SegmentsOfPath, JoinedPathSteps

LEMMA ChildHref ==
  ASSUME NEW d \in Seq(Names), NEW x \in Texts
  PROVE  (JoinedPath(d) \o <<Slash>>) \o x = JoinedPath(Append(d, x))
<1>1. d \in Paths /\ JoinedPath(d) \in Texts /\ <<Slash>> \in Texts
  BY WayFacts, NameFacts
<1>2. JoinedPath(Append(d, x)) = Joined(JoinedPath(d), Joined(<<Slash>>, x))
  BY <1>1, JoinedPathSteps
<1>3. Joined(Joined(JoinedPath(d), <<Slash>>), x) = Joined(JoinedPath(d), Joined(<<Slash>>, x))
  BY <1>1, TextsJoined
<1> QED
  BY <1>2, <1>3, Zenon DEF Joined

LEMMA PathWhole ==
  ASSUME NEW d \in Seq(Seq(Quiet)), NEW x \in Seq(Whole)
  PROVE  JoinedPath(Append(d, x)) \in Seq(Whole)
<1>1. PICK W : W = Seq(Whole)
  OBVIOUS
<1>2. Seq(Quiet) \subseteq W
  BY <1>1, ByteSets, SeqMonotonic
<1>3. d \in Seq(W) /\ x \in W
  BY <1>1, <1>2, SeqMonotonic
<1>4. Append(d, x) \in Seq(W)
  BY <1>3, Longer
<1>5. Whole \in SUBSET Bytes /\ Slash \in Whole
  BY ByteSets
<1> QED
  BY <1>1, <1>4, <1>5, PathIn

LEMMA ChildFollowed ==
  ASSUME NEW d \in Seq(Names), d \in Seq(Seq(Quiet)), NEW t \in Names
  PROVE  Leads(Followed((JoinedPath(d) \o <<Slash>>) \o escape(t)), Append(d, t))
<1>1. PICK x : x = escape(t)
  OBVIOUS
<1>2. /\ x \in SlashFree /\ x # <<>> /\ x # <<Dot, Dot>>
      /\ x \in Seq(Escaped) /\ Spells(x, t) /\ x \in Texts
  BY <1>1, EscapedName, NameFacts
<1>3. PICK href : href = JoinedPath(Append(d, x)) /\ href = (JoinedPath(d) \o <<Slash>>) \o x
  BY <1>2, ChildHref
<1>4. href \in Seq(Whole)
  <2>1. x \in Seq(Whole)
    BY <1>2, ByteSets, SeqMonotonic
  <2> QED BY <1>3, <2>1, PathWhole
<1>5. href[2] # Slash
  <2>1. Append(d, x) \in Seq(SlashFree \ {<<>>}) /\ Append(d, x) # <<>>
    BY <1>2, WayFacts, Longer
  <2> QED BY <1>3, <2>1, SecondByte
<1>6. DotsResolved(href) = href
  BY <1>2, <1>3, WayFacts, ChildResolved
<1>7. href \in Texts
  BY <1>4, ByteSets, SeqMonotonic DEF Texts
<1>8. Followed(href) = Put(Sending, href)
  BY <1>4, <1>5, <1>6, <1>7, FollowedIs
<1>9. PICK p \in Seq(Bytes), q \in Seq(Bytes) : p = JoinedPath(d) /\ q = Joined(<<Slash>>, x)
  BY <1>2, WayFacts, NameFacts, JoinedIs DEF Texts
<1>10. href = Joined(p, q)
  BY <1>2, <1>3, <1>9, WayFacts, JoinedPathSteps
<1>11. Put(Sending, Joined(p, q)) = Joined(Put(Sending, p), Put(Sending, q))
  BY SendingSteps, PutJoined
<1>12. Put(Sending, q) = q
  <2>1. <<Slash>> \in Seq(Escaped \cup {Slash}) /\ x \in Seq(Escaped \cup {Slash})
    <3>1. Slash \in Escaped \cup {Slash} /\ Escaped \subseteq Escaped \cup {Slash}
      OBVIOUS
    <3>2. x \in Seq(Escaped \cup {Slash})
      BY <1>2, <3>1, SeqMonotonic
    <3> QED BY <3>1, <3>2
  <2>2. q \in Seq(Escaped \cup {Slash})
    BY <1>9, <2>1, JoinedIs
  <2> QED BY <2>2, EscapedSent
<1>13. Spells(Put(Sending, p), p)
  <2>1. Quiet \in SUBSET Bytes /\ Slash \in Quiet
    BY ByteSets
  <2>2. p \in Seq(Quiet)
    BY <1>9, <2>1, PathIn
  <2> QED BY <2>2, QuietSent
<1>14. Spells(q, Joined(<<Slash>>, t))
  BY <1>2, <1>9, SpellsSlash, SpellsJoined
<1>15. Spells(Joined(Put(Sending, p), q), Joined(p, Joined(<<Slash>>, t)))
  BY <1>13, <1>14, SpellsJoined
<1>16. Joined(p, Joined(<<Slash>>, t)) = JoinedPath(Append(d, t)) /\ t \in SlashFree /\ t # <<>>
  BY <1>9, WayFacts, NameFacts, JoinedPathSteps
<1>17. Spells(Followed(href), JoinedPath(Append(d, t)))
  BY <1>8, <1>10, <1>11, <1>12, <1>15, <1>16
<1>18. Followed(href) # <<>>
  <2>1. JoinedPath(Append(d, t)) # <<>>
    BY <1>16, WayFacts, PathEnds
  <2>2. unescape(<<>>) = <<>> /\ unescape(Followed(href)) = JoinedPath(Append(d, t))
    BY <1>17, SpellsNothing, SpelledOut
  <2> QED BY <2>1, <2>2
<1>19. Leads(Followed(href), Append(d, t))
  <2>1. Followed(href) \in Texts
    BY <1>17, Zenon DEF Spells, Texts
  <2>2. unescape(Followed(href)) = JoinedPath(Append(d, t))
    BY <1>17, SpelledOut
  <2> QED BY <1>18, <2>1, <2>2, Zenon DEF Leads
<1> QED
  BY <1>1, <1>3, <1>19

LEMMA ParentFollowed ==
  ASSUME NEW d \in Seq(Names), d \in Seq(Seq(Quiet))
  PROVE  Leads(Followed(JoinedPath(d) \o <<Slash, Dot, Dot>>), IF d = <<>> THEN <<>> ELSE Front(d))
<1>1. PICK x : x = <<Dot, Dot>>
  OBVIOUS
<1>2. x \in SlashFree /\ x \in Texts /\ x # <<>> /\ Joined(<<Slash>>, x) = <<Slash, Dot, Dot>>
  <2>1. x \in Seq(Bytes) /\ x # <<>>
    BY <1>1, BytesDistinct
  <2> QED BY <1>1, <2>1, NameFacts, TwoDots DEF Texts
<1>3. PICK href : href = JoinedPath(Append(d, x)) /\ href = JoinedPath(d) \o <<Slash, Dot, Dot>>
  <2>1. JoinedPath(Append(d, x)) = Joined(JoinedPath(d), Joined(<<Slash>>, x))
    BY <1>2, WayFacts, JoinedPathSteps
  <2>2. JoinedPath(Append(d, x)) = JoinedPath(d) \o <<Slash, Dot, Dot>>
    BY <1>2, <2>1, Zenon DEF Joined
  <2> QED BY <2>2
<1>4. href \in Seq(Whole)
  <2>1. Dot \in Whole
    BY ByteSets
  <2>2. x \in Seq(Whole)
    BY <1>1, <2>1
  <2> QED BY <1>3, <2>2, PathWhole
<1>5. href[2] # Slash
  <2>1. Append(d, x) \in Seq(SlashFree \ {<<>>}) /\ Append(d, x) # <<>>
    BY <1>2, WayFacts, Longer
  <2> QED BY <1>3, <2>1, SecondByte
<1>6. PICK p : p = IF d = <<>> THEN <<>> ELSE Front(d)
  OBVIOUS
<1>7. DotsResolved(href) = Joined(JoinedPath(p), <<Slash>>)
  BY <1>1, <1>3, <1>6, WayFacts, ParentResolved
<1>8. p \in Seq(Seq(Quiet)) /\ p \in Paths
  <2>1. PICK Q : Q = Seq(Quiet)
    OBVIOUS
  <2>2. p \in Seq(Q)
    <3>1. d # <<>> => Front(d) \in Seq(Q)
      BY <2>1, Shorter
    <3>2. <<>> \in Seq(Q)
      BY EmptySeq
    <3> QED BY <1>6, <3>1, <3>2
  <2>3. Quiet \in SUBSET Bytes /\ Slash \in Quiet
    BY ByteSets
  <2> QED BY <2>1, <2>2, <2>3, PathIn
<1>9. JoinedPath(p) \in Seq(Quiet) /\ Joined(JoinedPath(p), <<Slash>>) \in Seq(Quiet)
  <2>1. Quiet \in SUBSET Bytes /\ Slash \in Quiet
    BY ByteSets
  <2>2. JoinedPath(p) \in Seq(Quiet)
    BY <1>8, <2>1, PathIn
  <2>3. <<Slash>> \in Seq(Quiet)
    BY <2>1
  <2> QED BY <2>2, <2>3, JoinedIs
<1>10. PICK s : s = Joined(JoinedPath(p), <<Slash>>) /\ s \in Seq(Quiet) /\ s \in Texts
  BY <1>9, ByteSets, SeqMonotonic DEF Texts
<1>11. Followed(href) = Put(Sending, s)
  BY <1>4, <1>5, <1>7, <1>10, FollowedIs
<1>12. Spells(Followed(href), s)
  BY <1>10, <1>11, QuietSent
<1>13. s # <<>>
  <2>1. JoinedPath(p) \in Seq(Bytes)
    BY <1>8, JoinedPathSteps DEF Texts
  <2>2. s = Append(JoinedPath(p), Slash)
    BY <1>10, <2>1, BytesDistinct, JoinedOne
  <2> QED BY <2>1, <2>2, BytesDistinct, Longer
<1>14. Followed(href) # <<>> /\ unescape(Followed(href)) = s /\ Followed(href) \in Texts
  <2>1. unescape(<<>>) = <<>> /\ unescape(Followed(href)) = s
    BY <1>12, SpellsNothing, SpelledOut
  <2>2. Followed(href) \in Texts
    BY <1>12, Zenon DEF Spells, Texts
  <2> QED BY <1>13, <2>1, <2>2
<1>15. Leads(Followed(href), p)
  BY <1>10, <1>14, Zenon DEF Leads
<1> QED
  BY <1>3, <1>6, <1>15

LEMMA ListedMeant ==
  ASSUME NEW n \in DOMAIN Tree, NEW u, Leads(u, n), Answer(u).what = "listing", OrdinaryTree
  PROVE  Answer(u).node = n
<1>1. Answer(u).node = Shown(n)
  BY AnswersMeant
<1>2. Shown(n) \in DOMAIN Tree /\ Tree[Shown(n)] = "dir"
  BY <1>1, ListedIs
<1>3. CASE Shown(n) = n
  BY <1>1, <1>3
<1>4. CASE Shown(n) = Append(n, IndexFile)
  <2>1. PICK T : T = Names \cup {IndexFile}
    OBVIOUS
  <2>2. n \in Seq(T) /\ IndexFile \in T
    <3>1. n \in Seq(Names) /\ Names \subseteq T
      BY <2>1, TreeFacts
    <3> QED BY <2>1, <3>1, SeqMonotonic
  <2>3. Last(Shown(n)) = IndexFile /\ Shown(n) # <<>>
    BY <1>4, <2>2, Longer
  <2> QED BY <1>2, <2>3, Zenon DEF OrdinaryTree
<1> QED
  BY <1>3, <1>4, Zenon DEF Shown

\* Every link of the listing of a plainly named directory leads to what it names.
LEMMA LinksLead ==
  ASSUME NEW n \in DOMAIN Tree, NEW u, Leads(u, n), Tree[n] = "dir", OrdinaryTree, Plain(n),
         NEW link \in Links(u, n)
  PROVE  Leads(Followed(link.href), link.to)
<1>1. n \in Seq(Names) /\ n \in Seq(Seq(Quiet))
  BY TreeFacts, QuietNames
<1>2. CleanBase(u) = JoinedPath(n)
  BY CleanBaseIs
<1>3. ASSUME NEW child \in Children(n),
             link = [to |-> child, href |-> CleanBase(u) \o <<Slash>> \o escape(Last(child))]
      PROVE  Leads(Followed(link.href), link.to)
  <2>1. child \in DOMAIN Tree /\ child # <<>> /\ Front(child) = n
    BY DEF Children
  <2>2. child = Append(n, Last(child)) /\ Last(child) \in Names
    BY <2>1, TreeFacts, Shorter
  <2>3. Leads(Followed((JoinedPath(n) \o <<Slash>>) \o escape(Last(child))), Append(n, Last(child)))
    BY <1>1, <2>2, ChildFollowed
  <2>4. link.to = child /\ link.href = (CleanBase(u) \o <<Slash>>) \o escape(Last(child))
    BY <1>3
  <2> QED BY <1>2, <2>2, <2>3, <2>4
<1>4. ASSUME link = [to |-> IF n = <<>> THEN <<>> ELSE Front(n),
                     href |-> CleanBase(u) \o <<Slash, Dot, Dot>>]
      PROVE  Leads(Followed(link.href), link.to)
  <2>1. Leads(Followed(JoinedPath(n) \o <<Slash, Dot, Dot>>), IF n = <<>> THEN <<>> ELSE Front(n))
    BY <1>1, ParentFollowed
  <2>2. /\ link.to = IF n = <<>> THEN <<>> ELSE Front(n)
        /\ link.href = CleanBase(u) \o <<Slash, Dot, Dot>>
    BY <1>4
  <2> QED BY <1>2, <2>1, <2>2, Zenon
<1> QED
  BY <1>3, <1>4 DEF Links

LEMMA LinksNameNodes ==
  ASSUME NEW n \in DOMAIN Tree, NEW u, NEW link \in Links(u, n)
  PROVE  link.to \in DOMAIN Tree
<1>1. link.to \in Children(n) \/ link.to = IF n = <<>> THEN <<>> ELSE Front(n)
  BY DEF Links
<1> QED
  BY <1>1, TreeFacts DEF Children

\* The inductive invariant: the client means a node; an answer is the one to its
\* request; and what it asks for leads to what it means.
LInv ==
  /\ meant \in DOMAIN Tree
  /\ answer = Pending \/ (uri # <<>> /\ answer = Answer(uri))
  /\ (\A d \in from : OrdinaryTree /\ Plain(d)) => Leads(uri, meant)

LEMMA InitLeads ==
  ASSUME Init PROVE LInv
<1>1. <<>> \in DOMAIN Tree
  BY ListingAssumption
<1>2. unescape(<<Slash>>) = <<Slash>>
  BY SpellsSlash, SpelledOut
<1>3. Joined(JoinedPath(<<>>), <<Slash>>) = <<Slash>>
  BY JoinedPathSteps, NameFacts, JoinedNothing DEF Texts
<1>4. <<Slash>> # <<>>
  BY BytesDistinct
<1>5. Leads(<<Slash>>, <<>>)
  BY <1>2, <1>3, <1>4, NameFacts DEF Leads
<1> QED
  BY <1>1, <1>5, Zenon DEF Init, LInv

LEMMA TypeLeads ==
  ASSUME LInv, Type PROVE LInv'
<1>1. PICK n \in DOMAIN Tree, small \in BOOLEAN, end \in {<<>>, <<Slash>>} :
        /\ n = <<>> => end # <<>>
        /\ uri' = JoinedPath([i \in DOMAIN n |-> Written(n[i], small)]) \o end
        /\ meant' = n
  BY Zenon DEF Type
<1>2. Leads(uri', meant')
  BY <1>1, TypedLeads
<1>3. answer' = Pending
  BY Zenon DEF Type
<1> QED
  BY <1>1, <1>2, <1>3, Zenon DEF LInv

LEMMA FollowLeads ==
  ASSUME LInv, Follow PROVE LInv'
<1>1. PICK link \in answer.links : uri' = Followed(link.href) /\ meant' = link.to
  BY Zenon DEF Follow
<1>2. answer.what = "listing" /\ from' = from \cup {answer.node} /\ answer' = Pending
  BY Zenon DEF Follow
<1>3. answer = Answer(uri)
  <2>1. answer # Pending
    BY <1>2 DEF Pending
  <2> QED BY <2>1, Zenon DEF LInv
<1>4. PICK n \in DOMAIN Tree : n = answer.node /\ Tree[n] = "dir" /\ link \in Links(uri, n)
  BY <1>1, <1>2, <1>3, ListedIs
<1>5. meant' \in DOMAIN Tree
  BY <1>1, <1>4, LinksNameNodes
<1>6. ASSUME \A d \in from' : OrdinaryTree /\ Plain(d)
      PROVE  Leads(uri', meant')
  <2>1. OrdinaryTree /\ Plain(n) /\ \A d \in from : OrdinaryTree /\ Plain(d)
    BY <1>2, <1>4, <1>6
  <2>2. meant \in DOMAIN Tree /\ Leads(uri, meant)
    BY <2>1, Zenon DEF LInv
  <2>3. n = meant
    BY <1>2, <1>3, <1>4, <2>1, <2>2, ListedMeant
  <2> QED BY <1>1, <1>4, <2>1, <2>2, <2>3, LinksLead
<1> QED
  BY <1>2, <1>5, <1>6, Zenon DEF LInv

LEMMA ProcessLeads ==
  ASSUME LInv, Process PROVE LInv'
BY Zenon DEF LInv, Process

LEMMA IdleLeads ==
  ASSUME LInv, UNCHANGED vars PROVE LInv'
<1>1. meant' = meant /\ from' = from /\ uri' = uri /\ answer' = answer
  BY DEF vars
<1> QED
  BY <1>1, Zenon DEF LInv

LEMMA LeadsShows ==
  ASSUME LInv PROVE ShowsWhatIsMeant
<1>1. SUFFICES ASSUME Answered, \A d \in from : OrdinaryTree /\ Plain(d)
               PROVE  Found
  BY Zenon DEF ShowsWhatIsMeant
<1>2. meant \in DOMAIN Tree /\ Leads(uri, meant)
  BY <1>1, Zenon DEF LInv
<1>3. uri # <<>> /\ answer = Answer(uri)
  BY <1>1, <1>2, Zenon DEF LInv, Leads, Answered
<1>4. answer.what # "none" /\ answer.node = Shown(meant)
  BY <1>2, <1>3, AnswersMeant
<1> QED
  BY <1>3, <1>4, Zenon DEF Found

\* DirectorySender::process, outputDirectoryListing and their links: whatever
\* the tree, the client is shown what it means.
THEOREM ShowsMeant == Spec => []ShowsWhatIsMeant
<1>1. Init => LInv
  BY InitLeads
<1>2. LInv /\ [Next]_vars => LInv'
  BY TypeLeads, FollowLeads, ProcessLeads, IdleLeads DEF Next
<1>3. LInv => ShowsWhatIsMeant
  BY LeadsShows
<1> QED
  BY <1>1, <1>2, <1>3, PTL DEF Spec
============================================================================

---------------------------- MODULE SharedLemmas ----------------------------
(***************************************************************************)
(* What the proofs about texts and paths share.  Induction over natural    *)
(* numbers, for sets of them: the first number of a text for which a       *)
(* property fails is none.  And sequences put together, one by one or all. *)
(***************************************************************************)
EXTENDS Integers, SequencesExt, SequenceTheorems, WellFoundedInduction, TLAPS

\* Every set of natural numbers has a least one.
LEMMA LeastNumber ==
  ASSUME NEW S \in SUBSET Nat, S # {}
  PROVE  \E m \in S : \A k \in S : m <= k
<1> DEFINE R == OpToRel(<, Nat)
<1>1. IsWellFoundedOn(R, Nat)
  BY NatLessThanWellFounded
<1>2. PICK x \in S : \A y \in S : ~(<<y, x>> \in R)
  <2> HIDE DEF R
  <2> QED BY <1>1, WFMin
<1>3. \A y \in S : ~(y < x)
  BY <1>2 DEF OpToRel
<1> QED
  BY <1>3

\* A set with the first number of an interval and, with each but the last, the
\* next one has all of them.
LEMMA Upward ==
  ASSUME NEW a \in Nat, NEW b \in Nat, NEW S,
         a <= b => a \in S,
         \A n \in a .. b - 1 : n \in S => n + 1 \in S
  PROVE  a .. b \subseteq S
<1> SUFFICES ASSUME (a .. b) \ S # {} PROVE FALSE
  OBVIOUS
<1>1. PICK m \in (a .. b) \ S : \A k \in (a .. b) \ S : m <= k
  BY LeastNumber, (a .. b) \ S \in SUBSET Nat
<1>2. m # a /\ m - 1 \in a .. b - 1 /\ (m - 1) + 1 = m
  BY <1>1
<1>3. m - 1 \notin (a .. b) \ S
  BY <1>1, <1>2
<1> QED
  BY <1>1, <1>2, <1>3

\* The same, from the last number down.
LEMMA Downward ==
  ASSUME NEW a \in Nat, NEW b \in Nat, NEW S,
         a <= b => b \in S,
         \A n \in a + 1 .. b : n \in S => n - 1 \in S
  PROVE  a .. b \subseteq S
<1> DEFINE T == {n \in 0 .. b - a : b - n \in S}
<1>1. CASE a <= b
  <2>1. 0 \in T /\ b - a \in Nat /\ 0 \in Nat
    BY <1>1
  <2>2. ASSUME NEW n \in 0 .. (b - a) - 1, n \in T PROVE n + 1 \in T
    <3>1. b - n \in a + 1 .. b /\ (b - n) - 1 = b - (n + 1) /\ n + 1 \in 0 .. b - a
      BY <2>2, <1>1
    <3> QED BY <3>1, <2>2
  <2>3. 0 .. b - a \subseteq T
    <3> HIDE DEF T
    <3> QED BY <2>1, <2>2, Upward
  <2>4. \A k \in a .. b : b - k \in 0 .. b - a /\ b - (b - k) = k
    BY <1>1
  <2> QED BY <2>3, <2>4
<1>2. CASE ~(a <= b)
  BY <1>2
<1> QED
  BY <1>1, <1>2

----------------------------------------------------------------------------
(* Sequences put together.                                                 *)

Joined(s, t) == s \o t

LEMMA JoinedIs ==
  ASSUME NEW T, NEW s \in Seq(T), NEW t \in Seq(T)
  PROVE  /\ Joined(s, t) \in Seq(T) /\ Len(Joined(s, t)) = Len(s) + Len(t)
         /\ \A i \in 1 .. Len(s) : Joined(s, t)[i] = s[i]
         /\ \A i \in 1 .. Len(t) : Joined(s, t)[Len(s) + i] = t[i]
<1>1. /\ s \o t \in Seq(T)
      /\ Len(s \o t) = Len(s) + Len(t)
      /\ \A i \in 1 .. Len(s) + Len(t) : (s \o t)[i] = IF i <= Len(s) THEN s[i] ELSE t[i - Len(s)]
  BY ConcatProperties
<1>2. PICK u : u = s \o t
  OBVIOUS
<1> QED
  BY <1>1, <1>2 DEF Joined

LEMMA JoinedNothing ==
  ASSUME NEW T, NEW s \in Seq(T)
  PROVE  Joined(s, <<>>) = s /\ Joined(<<>>, s) = s
BY ConcatEmptySeq DEF Joined

LEMMA JoinedThree ==
  ASSUME NEW T, NEW s \in Seq(T), NEW t \in Seq(T), NEW u \in Seq(T)
  PROVE  Joined(Joined(s, t), u) = Joined(s, Joined(t, u))
BY ConcatAssociative DEF Joined

\* The pieces of p, one after the other.
Flattens(p, f) ==
  f[0] = <<>> /\ \A i \in 1 .. Len(p) : f[i] = Joined(f[i - 1], p[i])

LEMMA FlattenSteps ==
  ASSUME NEW T, NEW p \in Seq(Seq(T))
  PROVE  \E f : /\ Flattens(p, f) /\ FlattenSeq(p) = f[Len(p)]
                /\ \A i \in 0 .. Len(p) : f[i] \in Seq(T)
<1>0. PICK N \in Nat : N = Len(p) /\ \A i \in 1 .. N : p[i] \in Seq(T)
  OBVIOUS
<1> DEFINE Steps(g, n) == [i \in 1 .. n |-> IF i = 1 THEN p[i] ELSE Joined(g[i - 1], p[i])]
           S == {n \in Nat : \E g : g = Steps(g, n)}
<1>1. CASE N = 0
  <2>1. p = <<>>
    <3>1. PICK U : U = Seq(T)
      OBVIOUS
    <3>2. p \in Seq(U) /\ Len(p) \notin Nat \ {0}
      BY <1>0, <1>1, <3>1
    <3> QED BY <3>2, EmptySeq, Zenon
  <2>2. FlattenSeq(p) = <<>>
    BY <1>0, <1>1, <2>1 DEF FlattenSeq
  <2>3. PICK e : e = <<>> /\ e \in Seq(T)
    BY EmptySeq, Zenon
  <2>4. PICK f : f = [i \in 0 .. 0 |-> e]
    OBVIOUS
  <2>5. f[0] = e /\ 0 .. N = {0} /\ 1 .. N = {}
    BY <1>1, <2>4
  <2>6. Flattens(p, f)
    BY <1>0, <2>3, <2>5, Zenon DEF Flattens
  <2>7. \A i \in 0 .. N : f[i] \in Seq(T)
    BY <2>3, <2>5
  <2>8. f[N] = <<>>
    BY <1>1, <2>3, <2>5, Zenon
  <2> QED BY <1>0, <2>2, <2>6, <2>7, <2>8, Zenon
<1>2. CASE N # 0
  <2>1. 1 \in S
    <3>1. [i \in 1 .. 1 |-> p[i]] = Steps([i \in 1 .. 1 |-> p[i]], 1)
      OBVIOUS
    <3> QED BY <3>1
  <2>2. ASSUME NEW n \in 1 .. N - 1, n \in S PROVE n + 1 \in S
    <3>1. PICK g : g = Steps(g, n)
      BY <2>2
    <3> DEFINE h == [i \in 1 .. n + 1 |-> IF i = n + 1 THEN Joined(g[n], p[n + 1]) ELSE g[i]]
    <3>2. h = Steps(h, n + 1)
      <4>1. ASSUME NEW i \in 1 .. n + 1
            PROVE  h[i] = IF i = 1 THEN p[i] ELSE Joined(h[i - 1], p[i])
        <5>1. CASE i \in 1 .. n
          BY <5>1, <3>1
        <5>2. CASE i = n + 1
          BY <5>2
        <5> QED BY <5>1, <5>2
      <4> QED BY <4>1
    <3>3. n + 1 \in Nat
      BY <2>2
    <3> QED BY <3>2, <3>3
  <2>3. N \in S
    <3> HIDE DEF S
    <3>1. 1 .. N \subseteq S
      BY <2>1, <2>2, Upward, 1 \in Nat
    <3> QED BY <1>2, <3>1
  <2>4. PICK g : g = Steps(g, N) /\ FlattenSeq(p) = g[N]
    <3>1. \E g : g = Steps(g, N)
      BY <2>3
    <3> QED BY <1>0, <1>2, <3>1, Zenon DEF FlattenSeq, Joined
  <2>5. PICK e : e = <<>> /\ e \in Seq(T) /\ \A i \in 1 .. N : Joined(e, p[i]) = p[i]
    <3>1. <<>> \in Seq(T)
      BY EmptySeq, Zenon
    <3>2. \A i \in 1 .. N : Joined(<<>>, p[i]) = p[i]
      BY <1>0, JoinedNothing, Zenon
    <3> QED BY <3>1, <3>2, Zenon
  <2>6. PICK f : f = [i \in 0 .. N |-> IF i = 0 THEN e ELSE g[i]]
    OBVIOUS
  <2>7. f[0] = e /\ \A i \in 1 .. N : f[i] = Joined(f[i - 1], p[i])
    <3>1. f[0] = e
      BY <2>6
    <3>2. ASSUME NEW i \in 1 .. N PROVE f[i] = Joined(f[i - 1], p[i])
      <4>1. CASE i = 1
        <5>1. f[1] = p[1]
          BY <1>2, <2>4, <2>6
        <5> QED BY <2>5, <3>1, <4>1, <5>1
      <4>2. CASE i # 1
        <5>1. i - 1 \in 1 .. N
          BY <4>2
        <5>2. g[i] = Joined(g[i - 1], p[i])
          BY <2>4, <4>2
        <5>3. f[i] = g[i] /\ f[i - 1] = g[i - 1]
          BY <2>6, <5>1
        <5> QED BY <5>2, <5>3
      <4> QED BY <4>1, <4>2
    <3> QED BY <3>1, <3>2
  <2>8. \A i \in 0 .. N : f[i] \in Seq(T)
    <3> DEFINE Typed == {n \in Nat : f[n] \in Seq(T)}
    <3>1. 0 \in Typed
      BY <2>5, <2>7
    <3>2. ASSUME NEW n \in 0 .. N - 1, n \in Typed PROVE n + 1 \in Typed
      <4>1. n + 1 \in 1 .. N /\ (n + 1) - 1 = n /\ n + 1 \in Nat
        OBVIOUS
      <4>2. f[n + 1] = Joined(f[n], p[n + 1])
        BY <2>7, <4>1
      <4>3. Joined(f[n], p[n + 1]) \in Seq(T)
        BY <1>0, <3>2, <4>1, JoinedIs
      <4> QED BY <4>1, <4>2, <4>3
    <3>3. 0 .. N \subseteq Typed
      <4> HIDE DEF Typed
      <4> QED BY <3>1, <3>2, Upward, 0 \in Nat
    <3> QED BY <3>3
  <2>9. f[N] = g[N]
    BY <1>2, <2>6
  <2> QED BY <1>0, <2>4, <2>5, <2>7, <2>8, <2>9, Zenon DEF Flattens
<1> QED
  BY <1>1, <1>2
=============================================================================

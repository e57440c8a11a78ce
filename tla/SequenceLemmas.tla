--------------------------- MODULE SequenceLemmas ---------------------------
(***************************************************************************)
(* What the proofs about decoders and framings need of sequences: how to   *)
(* prove something of every number and of every sequence, what the folds   *)
(* of SequencesExt pick first, and what FlattenSeq computes.               *)
(*                                                                         *)
(* Induction and AllSequences have the form of a set that is closed and    *)
(* therefore everything.                                                   *)
(***************************************************************************)
EXTENDS Integers, SequencesExt, SequenceTheorems, WellFoundedInduction, TLAPS

(* A set of numbers that holds 0 and, with each, the next, holds all.      *)
LEMMA Induction ==
  ASSUME NEW S \in SUBSET Nat, 0 \in S, \A n \in S : n + 1 \in S
  PROVE  S = Nat
<1> SUFFICES ASSUME S # Nat PROVE FALSE
  OBVIOUS
<1> DEFINE Out == Nat \ S
<1>1. IsWellFoundedOn(OpToRel(<, Nat), Nat)
  BY NatLessThanWellFounded
<1>2. PICK x \in Out : \A y \in Out : ~ (<<y, x>> \in OpToRel(<, Nat))
  BY <1>1, WFMin, Zenon
<1>3. \A y \in Out : ~ (y < x)
  BY <1>2 DEF OpToRel
<1>4. x \in Nat /\ x \notin S
  BY <1>2
<1>5. x # 0
  BY <1>4
<1>6. x - 1 \in Nat /\ x - 1 < x /\ (x - 1) + 1 = x
  BY <1>4, <1>5
<1>7. x - 1 \in S
  BY <1>3, <1>6
<1>8. QED
  BY <1>4, <1>6, <1>7

(* The folds of SequencesExt take the largest index first.                 *)
LEMMA MaxOfMore ==
  ASSUME NEW n \in Nat, NEW x \in SUBSET (1 .. n + 1), n + 1 \in x
  PROVE  Max(x) = n + 1
<1>1. \A y \in x : n + 1 >= y /\ y \in Nat
  OBVIOUS
<1>2. Max(x) \in x /\ \A y \in x : Max(x) >= y
  BY <1>1 DEF Max
<1>3. Max(x) \in Nat /\ Max(x) <= n + 1 /\ Max(x) >= n + 1
  BY <1>1, <1>2
<1>4. QED
  BY <1>3

(* A set of sequences that holds the empty one and, with each, those that  *)
(* are longer by one element, holds all.                                   *)
LEMMA AllSequences ==
  ASSUME NEW X, NEW S \in SUBSET Seq(X), << >> \in S,
         \A s \in S : \A x \in X : Append(s, x) \in S
  PROVE  S = Seq(X)
<1> DEFINE Within(n) == \A s \in Seq(X) : Len(s) = n => s \in S
           N == {n \in Nat : Within(n)}
<1>1. Within(0)
  BY EmptySeq
<1>2. ASSUME NEW n \in Nat, Within(n)
      PROVE  Within(n + 1)
  <2>1. SUFFICES ASSUME NEW s \in Seq(X), Len(s) = n + 1 PROVE s \in S
    OBVIOUS
  <2>2. s # << >>
    BY <2>1
  <2>3. PICK t \in Seq(X), x \in X : s = Append(t, x)
    BY <2>2, SequenceEmptyOrAppend
  <2>4. Len(s) = Len(t) + 1 /\ Len(t) \in Nat
    BY <2>3, AppendProperties, LenProperties
  <2>5. t \in S
    BY <1>2, <2>1, <2>4
  <2>6. QED
    BY <2>3, <2>5
<1> HIDE DEF Within
<1>3. N \in SUBSET Nat /\ 0 \in N /\ \A n \in N : n + 1 \in N
  BY <1>1, <1>2
<1>4. N = Nat
  BY <1>3, Induction
<1>5. ASSUME NEW s \in Seq(X)
      PROVE  s \in S
  <2>1. Len(s) \in Nat
    OBVIOUS
  <2>2. Within(Len(s))
    BY <1>4, <2>1
  <2>3. QED
    BY <2>2 DEF Within
<1>6. QED
  BY <1>5

(* The concatenation of the first n elements of q, as FlattenSeq makes it. *)
Flattens(g, q, n) ==
  g = [i \in 1 .. n |-> IF i = 1 THEN q[i] ELSE g[i - 1] \o q[i]]

LEMMA FlattenIs ==
  ASSUME NEW X, NEW q \in Seq(Seq(X)), q # << >>
  PROVE  FlattenSeq(q) = (CHOOSE g : Flattens(g, q, Len(q)))[Len(q)]
<1>1. Len(q) # 0
  BY EmptySeq
<1>2. QED
  BY <1>1 DEF FlattenSeq, Flattens

LEMMA FlattensMore ==
  ASSUME NEW q, NEW n \in Nat, NEW g, Flattens(g, q, n)
  PROVE  \E h : Flattens(h, q, n + 1)
<1> DEFINE h == [i \in 1 .. n + 1 |->
                   IF i = 1 THEN q[1] ELSE IF i = n + 1 THEN g[n] \o q[n + 1] ELSE g[i]]
<1>1. ASSUME NEW i \in 1 .. n + 1
      PROVE  h[i] = IF i = 1 THEN q[i] ELSE h[i - 1] \o q[i]
  <2>1. CASE i = 1
    BY <2>1
  <2>2. CASE i # 1
    <3>1. n \in 1 .. n /\ i - 1 \in 1 .. n /\ n \in Nat
      BY <2>2
    <3>2. h[i - 1] = g[i - 1]
      <4>1. CASE i - 1 = 1
        <5>1. g[1] = q[1]
          BY <3>1, <4>1 DEF Flattens
        <5>2. QED
          BY <4>1, <5>1
      <4>2. CASE i - 1 # 1
        BY <3>1, <4>2
      <4>3. QED
        BY <4>1, <4>2
    <3>3. CASE i = n + 1
      <4>1. i - 1 = n
        BY <3>1, <3>3
      <4>3. h[i] = g[n] \o q[n + 1]
        BY <2>2, <3>3, Zenon
      <4>2. QED
        BY <2>2, <3>1, <3>2, <3>3, <4>1, <4>3
    <3>4. CASE i # n + 1
      <4>1. i \in 1 .. n /\ h[i] = g[i]
        BY <2>2, <3>4
      <4>2. g[i] = g[i - 1] \o q[i]
        BY <2>2, <4>1 DEF Flattens
      <4>3. QED
        BY <2>2, <3>2, <4>1, <4>2
    <3>5. QED
      BY <3>3, <3>4
  <2>3. QED
    BY <2>1, <2>2
<1>2. h = [i \in 1 .. n + 1 |-> h[i]]
  OBVIOUS
<1> HIDE DEF h
<1>3. Flattens(h, q, n + 1)
  BY <1>1, <1>2 DEF Flattens
<1>4. QED
  BY <1>3

LEMMA FlattensExists ==
  ASSUME NEW q, NEW n \in Nat
  PROVE  \E g : Flattens(g, q, n)
<1> DEFINE S == {k \in Nat : \E g : Flattens(g, q, k)}
<1>1. 0 \in S
  <2> DEFINE g == [i \in 1 .. 0 |-> << >>]
  <2>1. g = [i \in 1 .. 0 |-> IF i = 1 THEN q[i] ELSE g[i - 1] \o q[i]]
    OBVIOUS
  <2>2. Flattens(g, q, 0)
    BY <2>1 DEF Flattens
  <2>3. QED
    BY <2>2
<1>2. \A k \in S : k + 1 \in S
  BY FlattensMore
<1>3. S \in SUBSET Nat
  OBVIOUS
<1> HIDE DEF S
<1>4. S = Nat
  BY <1>1, <1>2, <1>3, Induction
<1>5. QED
  BY <1>4 DEF S

(* Two sequences that agree up to n are flattened alike up to n.           *)
LEMMA FlattensOnce ==
  ASSUME NEW p, NEW q, NEW m \in Nat, NEW n \in Nat \ {0}, n <= m, NEW g, NEW h,
         Flattens(g, p, n), Flattens(h, q, m), \A i \in 1 .. n : p[i] = q[i]
  PROVE  g[n] = h[n]
<1>a. \A i \in 1 .. n : i # 1 => g[i] = g[i - 1] \o p[i]
  BY Flattens(g, p, n) DEF Flattens
<1>b. \A i \in 1 .. m : i # 1 => h[i] = h[i - 1] \o q[i]
  BY Flattens(h, q, m) DEF Flattens
<1> DEFINE S == {k \in Nat : k + 1 <= n => g[k + 1] = h[k + 1]}
<1>1. 0 \in S
  <2>1. 1 \in 1 .. n /\ 1 \in 1 .. m
    OBVIOUS
  <2>2. g[1] = p[1] /\ h[1] = q[1]
    BY <2>1 DEF Flattens
  <2>3. QED
    BY <2>1, <2>2
<1>2. ASSUME NEW k \in S
      PROVE  k + 1 \in S
  <2>1. k \in Nat
    OBVIOUS
  <2>2. PICK i \in Nat : i = (k + 1) + 1
    BY <2>1
  <2>3. SUFFICES ASSUME i <= n PROVE g[i] = h[i]
    BY <2>1, <2>2
  <2>4. g[k + 1] = h[k + 1] /\ i \in 1 .. n /\ i \in 1 .. m /\ i # 1 /\ i - 1 = k + 1
    BY <2>1, <2>2, <2>3
  <2>5. g[i] = g[i - 1] \o p[i] /\ h[i] = h[i - 1] \o q[i]
    BY <1>a, <1>b, <2>4
  <2>6. QED
    BY <2>4, <2>5
<1>3. S \in SUBSET Nat
  OBVIOUS
<1> HIDE DEF S
<1>4. S = Nat
  BY <1>1, <1>2, <1>3, Induction
<1>5. n - 1 \in Nat /\ (n - 1) + 1 = n
  OBVIOUS
<1>6. n - 1 \in S
  BY <1>4, <1>5
<1>7. QED
  BY <1>5, <1>6 DEF S

LEMMA FlattenMore ==
  ASSUME NEW X, NEW q \in Seq(Seq(X)), NEW x \in Seq(X)
  PROVE  FlattenSeq(Append(q, x)) = FlattenSeq(q) \o x
<1> DEFINE u == Append(q, x)
           n == Len(q)
           h == CHOOSE g : Flattens(g, u, n + 1)
           f == CHOOSE g : Flattens(g, q, n)
<1>1. /\ n \in Nat /\ n + 1 \in Nat /\ u \in Seq(Seq(X)) /\ u # << >> /\ Len(u) = n + 1
      /\ u[n + 1] = x /\ \A i \in 1 .. n : q[i] = u[i]
  BY AppendProperties, LenProperties
<1> HIDE DEF u
<1>2. FlattenSeq(u) = h[n + 1]
  BY <1>1, FlattenIs
<1>3. Flattens(h, u, n + 1) /\ Flattens(f, q, n)
  BY <1>1, FlattensExists
<1>4. q # << >> => FlattenSeq(q) = f[n]
  BY FlattenIs
<1>5. q = << >> <=> n = 0
  BY EmptySeq
<1> HIDE DEF h, f, n
<1>6. CASE n = 0
  <2>1. FlattenSeq(q) = q
    BY <1>6 DEF FlattenSeq, n
  <2>2. h[n + 1] = x
    BY <1>1, <1>3, <1>6 DEF Flattens
  <2>3. QED
    BY <1>2, <1>5, <1>6, <2>1, <2>2, ConcatEmptySeq DEF u
<1>7. CASE n # 0
  <2>1. n \in Nat \ {0} /\ n <= n + 1 /\ n + 1 \in 1 .. n + 1 /\ n + 1 # 1 /\ (n + 1) - 1 = n
    BY <1>1, <1>7
  <2>2. f[n] = h[n]
    BY <1>1, <1>3, <2>1, FlattensOnce
  <2>3. h[n + 1] = h[n] \o u[n + 1]
    BY <1>3, <2>1 DEF Flattens
  <2>4. QED
    BY <1>1, <1>2, <1>4, <1>5, <1>7, <2>2, <2>3 DEF u
<1>8. QED
  BY <1>6, <1>7

LEMMA FlattenNothing == FlattenSeq(<< >>) = << >>
<1>1. Len(<< >>) = 0
  OBVIOUS
<1>2. QED
  BY <1>1 DEF FlattenSeq

LEMMA FlattenTyped ==
  ASSUME NEW X
  PROVE  \A q \in Seq(Seq(X)) : FlattenSeq(q) \in Seq(X)
<1> DEFINE S == {q \in Seq(Seq(X)) : FlattenSeq(q) \in Seq(X)}
<1>1. << >> \in S
  BY FlattenNothing, EmptySeq
<1>2. ASSUME NEW q \in S, NEW x \in Seq(X)
      PROVE  Append(q, x) \in S
  <2>1. q \in Seq(Seq(X)) /\ FlattenSeq(q) \in Seq(X) /\ Append(q, x) \in Seq(Seq(X))
    BY AppendProperties
  <2>2. FlattenSeq(q) \o x \in Seq(X)
    BY <2>1, ConcatProperties
  <2>3. FlattenSeq(Append(q, x)) = FlattenSeq(q) \o x
    BY <2>1, FlattenMore
  <2>4. QED
    BY <2>1, <2>2, <2>3
<1>3. S \in SUBSET Seq(Seq(X))
  OBVIOUS
<1> HIDE DEF S
<1>4. S = Seq(Seq(X))
  BY <1>1, <1>2, <1>3, AllSequences
<1>5. QED
  BY <1>4 DEF S

(* The elements of s, as the function m maps them.                         *)
Mapped(m, s) == [i \in DOMAIN s |-> m[s[i]]]

LEMMA MappedNothing == \A m : Mapped(m, << >>) = << >>
BY DEF Mapped

LEMMA MappedTyped ==
  ASSUME NEW X, NEW Y, NEW m, \A z \in X : m[z] \in Y, NEW s \in Seq(X)
  PROVE  Mapped(m, s) \in Seq(Y)
<1>1. DOMAIN s = 1 .. Len(s) /\ Len(s) \in Nat /\ \A i \in 1 .. Len(s) : s[i] \in X
  OBVIOUS
<1>2. \A i \in 1 .. Len(s) : m[s[i]] \in Y
  BY <1>1
<1>3. QED
  BY <1>1, <1>2 DEF Mapped

LEMMA MappedMore ==
  ASSUME NEW X, NEW m, NEW s \in Seq(X), NEW x \in X
  PROVE  Mapped(m, Append(s, x)) = Append(Mapped(m, s), m[x])
<1>1. /\ DOMAIN s = 1 .. Len(s) /\ Len(s) \in Nat
      /\ DOMAIN Append(s, x) = 1 .. Len(s) + 1
      /\ \A i \in 1 .. Len(s) : Append(s, x)[i] = s[i]
      /\ Append(s, x)[Len(s) + 1] = x
  OBVIOUS
<1> DEFINE Y == {m[z] : z \in X}
           l == Mapped(m, Append(s, x))
           r == Append(Mapped(m, s), m[x])
<1>2. \A z \in X : m[z] \in Y
  OBVIOUS
<1> HIDE DEF Y
<1>3. Mapped(m, s) \in Seq(Y) /\ Len(Mapped(m, s)) = Len(s)
  <2>1. Mapped(m, s) \in Seq(Y)
    BY <1>2, MappedTyped
  <2>2. Len(Mapped(m, s)) = Len(s)
    BY <1>1 DEF Mapped
  <2>3. QED
    BY <2>1, <2>2
<1>4. /\ l = [i \in 1 .. Len(s) + 1 |-> l[i]]
      /\ \A i \in 1 .. Len(s) + 1 : l[i] = m[Append(s, x)[i]]
  BY <1>1 DEF Mapped
<1>5. /\ r = [i \in 1 .. Len(s) + 1 |-> r[i]]
      /\ r[Len(s) + 1] = m[x]
      /\ \A i \in 1 .. Len(s) : r[i] = Mapped(m, s)[i]
  BY <1>3
<1>6. \A i \in 1 .. Len(s) : Mapped(m, s)[i] = m[s[i]]
  BY <1>1 DEF Mapped
<1> HIDE DEF l, r
<1>7. ASSUME NEW i \in 1 .. Len(s) + 1
      PROVE  l[i] = r[i]
  <2>1. l[i] = m[Append(s, x)[i]]
    BY <1>4
  <2>2. CASE i = Len(s) + 1
    BY <1>1, <1>5, <2>1, <2>2
  <2>3. CASE i \in 1 .. Len(s)
    <3>1. Append(s, x)[i] = s[i] /\ r[i] = Mapped(m, s)[i] /\ Mapped(m, s)[i] = m[s[i]]
      BY <1>1, <1>5, <1>6, <2>3
    <3>2. QED
      BY <2>1, <3>1
  <2>4. QED
    BY <1>1, <2>2, <2>3
<1>8. l = r
  BY <1>4, <1>5, <1>7
<1>9. QED
  BY <1>8 DEF l, r

(* The elements of s mapped to sequences, one behind the other.            *)
LEMMA FlattenMapMore ==
  ASSUME NEW X, NEW Y, NEW m, \A z \in X : m[z] \in Seq(Y), NEW s \in Seq(X), NEW x \in X
  PROVE  FlattenSeq(Mapped(m, Append(s, x))) = FlattenSeq(Mapped(m, s)) \o m[x]
<1>1. Mapped(m, s) \in Seq(Seq(Y)) /\ Mapped(m, Append(s, x)) = Append(Mapped(m, s), m[x])
  BY MappedTyped, MappedMore
<1>2. m[x] \in Seq(Y)
  OBVIOUS
<1>3. FlattenSeq(Append(Mapped(m, s), m[x])) = FlattenSeq(Mapped(m, s)) \o m[x]
  BY <1>1, <1>2, FlattenMore
<1>4. QED
  BY <1>1, <1>3

LEMMA FlattenMapNothing == \A m : FlattenSeq(Mapped(m, << >>)) = << >>
BY MappedNothing, FlattenNothing

LEMMA FlattenMapTyped ==
  ASSUME NEW X, NEW Y, NEW m, \A z \in X : m[z] \in Seq(Y), NEW s \in Seq(X)
  PROVE  FlattenSeq(Mapped(m, s)) \in Seq(Y)
<1>1. Mapped(m, s) \in Seq(Seq(Y))
  BY MappedTyped
<1>2. QED
  BY <1>1, FlattenTyped
=============================================================================

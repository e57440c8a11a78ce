----------------------------- MODULE ModemProofs -----------------------------
(***************************************************************************)
(* Proofs about the modem, for every set of frames and every length.       *)
(*                                                                         *)
(* First what the encoder and the decoder compute: stuffing is undone, an  *)
(* octet is the sum of its bits, a level that stays is a 1, and between    *)
(* the flags of a frame there is no flag and no seven ones.  Then one      *)
(* detector that is fed the levels of a frame (FollowStep, FollowFound),   *)
(* and last the invariant (ModemInv): as long as what comes is vital and   *)
(* clean, both detectors hold what they should of the bits so far.         *)
(***************************************************************************)
EXTENDS Modem, SequenceLemmas, FiniteSetTheorems

(* Stuffing and its removal, bit by bit.  FoldLeft is a fold over the set   *)
(* of the indices.                                                         *)

Ways == {"in", "out"}
Step(way, s, bit) == IF way = "in" THEN Stuff(s, bit) ELSE Destuff(s, bit)
FoldOf(way, d, s) == IF way = "in" THEN FoldLeft(Stuff, d, s) ELSE FoldLeft(Destuff, d, s)

(* The fold over 1 .. n, as MapThenFoldSet makes it.                       *)
Iterates(m, g, d, s, n) ==
  g = [x \in SUBSET (1 .. n) |->
         IF x = {} THEN d ELSE Step(m, g[x \ {Max(x)}], s[Max(x)])]

LEMMA FoldIs ==
  ASSUME NEW m \in Ways, NEW d, NEW s \in Seq(Bit)
  PROVE  FoldOf(m, d, s) = (CHOOSE g : Iterates(m, g, d, s, Len(s)))[1 .. Len(s)]
<1>1. DOMAIN s = 1 .. Len(s)
  OBVIOUS
<1>2. CASE m = "in"
  BY <1>1, <1>2 DEF FoldOf, FoldLeft, MapThenFoldSet, Iterates, Step
<1>3. CASE m = "out"
  BY <1>1, <1>3 DEF FoldOf, FoldLeft, MapThenFoldSet, Iterates, Step
<1>4. QED
  BY <1>2, <1>3 DEF Ways

LEMMA IterateMore ==
  ASSUME NEW m \in Ways, NEW d, NEW s, NEW n \in Nat, NEW g, Iterates(m, g, d, s, n)
  PROVE  \E h : Iterates(m, h, d, s, n + 1)
<1> DEFINE h == [x \in SUBSET (1 .. n + 1) |->
                   IF n + 1 \in x THEN Step(m, g[x \ {n + 1}], s[n + 1]) ELSE g[x]]
<1>1. ASSUME NEW x \in SUBSET (1 .. n + 1), n + 1 \in x
      PROVE  h[x] = Step(m, h[x \ {Max(x)}], s[Max(x)]) /\ x # {}
  <2>1. Max(x) = n + 1
    BY <1>1, MaxOfMore
  <2>2. x \ {n + 1} \in SUBSET (1 .. n + 1) /\ n + 1 \notin x \ {n + 1}
    OBVIOUS
  <2>3. h[x \ {n + 1}] = g[x \ {n + 1}]
    BY <2>2
  <2>4. QED
    BY <1>1, <2>1, <2>3
<1>2. ASSUME NEW x \in SUBSET (1 .. n + 1), n + 1 \notin x
      PROVE  h[x] = IF x = {} THEN d ELSE Step(m, h[x \ {Max(x)}], s[Max(x)])
  <2>1. x \in SUBSET (1 .. n)
    BY <1>2
  <2>2. h[x] = g[x] /\ h[x \ {Max(x)}] = g[x \ {Max(x)}]
    BY <1>2
  <2>3. g[x] = IF x = {} THEN d ELSE Step(m, g[x \ {Max(x)}], s[Max(x)])
    BY <2>1 DEF Iterates
  <2>4. QED
    BY <2>2, <2>3
<1> HIDE DEF h
<1>3. \A x \in SUBSET (1 .. n + 1) :
        h[x] = IF x = {} THEN d ELSE Step(m, h[x \ {Max(x)}], s[Max(x)])
  BY <1>1, <1>2
<1>4. h = [x \in SUBSET (1 .. n + 1) |-> h[x]]
  BY DEF h
<1>5. Iterates(m, h, d, s, n + 1)
  BY <1>3, <1>4, Zenon DEF Iterates
<1>6. QED
  BY <1>5

LEMMA IterateAny ==
  ASSUME NEW m \in Ways, NEW d, NEW s, NEW n \in Nat
  PROVE  \E h : Iterates(m, h, d, s, n)
<1> DEFINE S == {k \in Nat : \E h : Iterates(m, h, d, s, k)}
<1>1. 0 \in S
  <2> DEFINE h == [x \in SUBSET (1 .. 0) |-> d]
  <2>1. 1 .. 0 = {}
    OBVIOUS
  <2>2. \A x \in SUBSET (1 .. 0) : x = {} /\ h[x] = d
    BY <2>1
  <2>3. Iterates(m, h, d, s, 0)
    BY <2>2 DEF Iterates
  <2>4. QED
    BY <2>3
<1>2. \A k \in S : k + 1 \in S
  BY IterateMore
<1> HIDE DEF S
<1>3. S = Nat
  <2>1. S \in SUBSET Nat
    BY DEF S
  <2>2. QED
    BY <1>1, <1>2, <2>1, Induction
<1>4. QED
  BY <1>3 DEF S

(* T follows the stuffing, or its removal, bit by bit. *)
Follows(m, T, d, s, n) ==
  T[0] = d /\ \A k \in 0 .. n - 1 : T[k + 1] = Step(m, T[k], s[k + 1])

(* The steps of the fold go from 1 .. k to 1 .. k + 1.                     *)
LEMMA IterateFollows ==
  ASSUME NEW m \in Ways, NEW d, NEW s, NEW n \in Nat, NEW g, Iterates(m, g, d, s, n)
  PROVE  Follows(m, [k \in 0 .. n |-> g[1 .. k]], d, s, n)
<1> DEFINE T == [k \in 0 .. n |-> g[1 .. k]]
<1>1. 1 .. 0 = {} /\ 1 .. 0 \in SUBSET (1 .. n)
  OBVIOUS
<1>2. T[0] = d
  BY <1>1 DEF Iterates
<1>3. ASSUME NEW k \in 0 .. n - 1
      PROVE  T[k + 1] = Step(m, T[k], s[k + 1])
  <2>1. /\ k \in Nat /\ k \in 0 .. n /\ k + 1 \in 0 .. n /\ 1 .. k + 1 \in SUBSET (1 .. n)
        /\ k + 1 \in 1 .. k + 1 /\ 1 .. k + 1 # {}
    OBVIOUS
  <2>2. Max(1 .. k + 1) = k + 1
    BY <2>1, MaxOfMore
  <2>3. (1 .. k + 1) \ {k + 1} = 1 .. k
    BY <2>1
  <2>4. g[1 .. k + 1] = Step(m, g[1 .. k], s[k + 1])
    BY <2>1, <2>2, <2>3 DEF Iterates
  <2>5. QED
    BY <2>1, <2>4
<1> HIDE DEF T
<1>4. Follows(m, T, d, s, n)
  BY <1>2, <1>3 DEF Follows
<1>5. QED
  BY <1>4 DEF T

LEMMA FollowsExists ==
  ASSUME NEW m \in Ways, NEW d, NEW s, NEW n \in Nat
  PROVE  \E T : Follows(m, T, d, s, n)
  BY IterateAny, IterateFollows

LEMMA FollowsOnce ==
  ASSUME NEW m \in Ways, NEW d, NEW s, NEW n \in Nat, NEW T, NEW U, Follows(m, T, d, s, n), Follows(m, U, d, s, n)
  PROVE  T[n] = U[n]
<1> DEFINE S == {k \in Nat : k <= n => T[k] = U[k]}
<1>1. 0 \in S
  BY DEF Follows
<1>2. ASSUME NEW k \in S
      PROVE  k + 1 \in S
  <2>1. k \in Nat
    OBVIOUS
  <2>2. SUFFICES ASSUME k + 1 <= n PROVE T[k + 1] = U[k + 1]
    BY <2>1
  <2>3. T[k] = U[k] /\ k \in 0 .. n - 1
    BY <2>1, <2>2
  <2>4. QED
    BY <2>3 DEF Follows
<1>3. S \in SUBSET Nat
  OBVIOUS
<1> HIDE DEF S
<1>4. S = Nat
  BY <1>1, <1>2, <1>3, Induction
<1>5. QED
  BY <1>4 DEF S

(* Any function that follows the decoder ends where the fold ends.         *)
LEMMA FoldTraced ==
  ASSUME NEW m \in Ways, NEW d, NEW s \in Seq(Bit), NEW T, Follows(m, T, d, s, Len(s))
  PROVE  FoldOf(m, d, s) = T[Len(s)]
<1> DEFINE n == Len(s)
           g == CHOOSE h : Iterates(m, h, d, s, n)
           U == [k \in 0 .. n |-> g[1 .. k]]
<1>1. n \in Nat
  OBVIOUS
<1>2. Iterates(m, g, d, s, n)
  BY <1>1, IterateAny
<1>3. FoldOf(m, d, s) = g[1 .. n]
  BY FoldIs
<1> HIDE DEF g
<1>4. Follows(m, U, d, s, n)
  BY <1>1, <1>2, IterateFollows
<1>5. U[n] = g[1 .. n]
  BY <1>1
<1> HIDE DEF U
<1>6. QED
  BY <1>1, <1>3, <1>4, <1>5, FollowsOnce


LEMMA FoldNothing ==
  ASSUME NEW m \in Ways, NEW d
  PROVE  FoldOf(m, d, << >>) = d
<1> DEFINE T == [k \in {0} |-> d]
<1>1. /\ << >> \in Seq(Bit) /\ Len(<< >>) = 0 /\ T[0] = d
      /\ \A k \in 0 .. Len(<< >>) - 1 : T[k + 1] = Step(m, T[k], << >>[k + 1])
  OBVIOUS
<1> HIDE DEF T
<1>2. Follows(m, T, d, << >>, Len(<< >>))
  BY <1>1 DEF Follows
<1>3. QED
  BY <1>1, <1>2, FoldTraced, Zenon

LEMMA FoldMore ==
  ASSUME NEW m \in Ways, NEW d, NEW s \in Seq(Bit), NEW b \in Bit
  PROVE  FoldOf(m, d, Append(s, b)) = Step(m, FoldOf(m, d, s), b)
<1> DEFINE n == Len(s)
           u == Append(s, b)
<1>1. /\ n \in Nat /\ u \in Seq(Bit) /\ Len(u) = n + 1 /\ u[n + 1] = b
      /\ \A k \in 0 .. n - 1 : u[k + 1] = s[k + 1]
      /\ n + 1 \in Nat
  OBVIOUS
<1> HIDE DEF n, u
<1>2. PICK T : Follows(m, T, d, u, n + 1)
  BY <1>1, FollowsExists
<1>3. FoldOf(m, d, u) = T[n + 1]
  BY <1>1, <1>2, FoldTraced
<1>4. /\ n \in 0 .. (n + 1) - 1
      /\ \A k \in 0 .. n - 1 : k \in 0 .. (n + 1) - 1
  BY <1>1
<1>5. Follows(m, T, d, s, n)
  BY <1>1, <1>2, <1>4 DEF Follows
<1>6. FoldOf(m, d, s) = T[n]
  BY <1>5, FoldTraced DEF n
<1>7. T[n + 1] = Step(m, T[n], u[n + 1])
  BY <1>2, <1>4 DEF Follows
<1>8. QED
  BY <1>1, <1>3, <1>6, <1>7 DEF u

-----------------------------------------------------------------------------
(* What is stuffed holds no six ones in a row, and destuffing undoes it.   *)

Stuffers == [out : Seq(Bit), ones : 0 .. 4]

(* Of any six bits one is a 0.                                             *)
NoSixOnes(s) == \A i \in 1 .. Len(s) - 5 : \E j \in i .. i + 5 : s[j] = 0

(* The last s.ones bits may be ones; before them is a 0, or nothing.       *)
Spaced(s) ==
  /\ s \in Stuffers
  /\ NoSixOnes(s.out)
  /\ s.ones <= Len(s.out)
  /\ s.ones < Len(s.out) => s.out[Len(s.out) - s.ones] = 0

LEMMA NoSixMore ==
  ASSUME NEW s \in Seq(Bit), NEW b \in Bit, NEW n \in 0 .. 4, NoSixOnes(s), n <= Len(s),
         n < Len(s) => s[Len(s) - n] = 0
  PROVE  NoSixOnes(Append(s, b))
<1> DEFINE u == Append(s, b)
<1>1. Len(s) \in Nat /\ Len(u) = Len(s) + 1 /\ \A i \in 1 .. Len(s) : u[i] = s[i]
  OBVIOUS
<1> SUFFICES ASSUME NEW i \in 1 .. Len(u) - 5 PROVE \E j \in i .. i + 5 : u[j] = 0
  BY DEF NoSixOnes
<1> HIDE DEF u
<1>2. CASE i <= Len(s) - 5
  <2>1. PICK j \in i .. i + 5 : s[j] = 0
    BY <1>1, <1>2 DEF NoSixOnes
  <2>2. j \in 1 .. Len(s)
    BY <1>1, <1>2
  <2>3. QED
    BY <1>1, <2>1, <2>2
<1>3. CASE i > Len(s) - 5
  <2>1. i = Len(s) - 4 /\ i >= 1
    BY <1>1, <1>3
  <2>2. n < Len(s) /\ Len(s) - n \in 1 .. Len(s) /\ Len(s) - n \in i .. i + 5
    BY <1>1, <2>1
  <2>3. u[Len(s) - n] = 0
    BY <1>1, <2>2
  <2>4. QED
    BY <2>2, <2>3
<1>4. QED
  BY <1>1, <1>2, <1>3

LEMMA SpacedZero ==
  ASSUME NEW s, Spaced(s)
  PROVE  Spaced([out |-> Append(s.out, 0), ones |-> 0])
<1> DEFINE o == s.out
           u == Append(o, 0)
<1>1. /\ o \in Seq(Bit) /\ s.ones \in 0 .. 4 /\ NoSixOnes(o) /\ s.ones <= Len(o)
      /\ s.ones < Len(o) => o[Len(o) - s.ones] = 0
  BY DEF Spaced, Stuffers
<1> HIDE DEF o
<1>2. u \in Seq(Bit) /\ Len(u) \in Nat /\ u[Len(u) - 0] = 0
  BY <1>1 DEF Bit
<1>3. NoSixOnes(u)
  BY <1>1, NoSixMore DEF Bit
<1> HIDE DEF u
<1>4. Spaced([out |-> u, ones |-> 0])
  BY <1>2, <1>3 DEF Spaced, Stuffers
<1>5. QED
  BY <1>4 DEF u, o

(* One more 1 behind at most three.                                        *)
LEMMA SpacedOne ==
  ASSUME NEW s, Spaced(s), s.ones # 4
  PROVE  Spaced([out |-> Append(s.out, 1), ones |-> s.ones + 1])
<1> DEFINE o == s.out
           n == s.ones
           u == Append(o, 1)
<1>1. /\ o \in Seq(Bit) /\ n \in 0 .. 3 /\ NoSixOnes(o) /\ n <= Len(o)
      /\ n < Len(o) => o[Len(o) - n] = 0
  BY DEF Spaced, Stuffers
<1> HIDE DEF o, n
<1>2. /\ u \in Seq(Bit) /\ Len(u) = Len(o) + 1 /\ Len(o) \in Nat
      /\ \A i \in 1 .. Len(o) : u[i] = o[i]
  BY <1>1 DEF Bit
<1>3. NoSixOnes(u)
  BY <1>1, NoSixMore DEF Bit
<1> HIDE DEF u
<1>4. /\ n + 1 \in 0 .. 4 /\ n + 1 <= Len(u)
      /\ n + 1 < Len(u) => u[Len(u) - (n + 1)] = 0
  <2>1. n + 1 \in 0 .. 4 /\ n + 1 <= Len(u) /\ Len(u) - (n + 1) = Len(o) - n
    BY <1>1, <1>2
  <2>2. n + 1 < Len(u) => n < Len(o) /\ Len(o) - n \in 1 .. Len(o)
    BY <1>1, <1>2
  <2>3. QED
    BY <1>1, <1>2, <2>1, <2>2
<1>5. Spaced([out |-> u, ones |-> n + 1])
  BY <1>2, <1>3, <1>4 DEF Spaced, Stuffers
<1>6. QED
  BY <1>5 DEF u, o, n

(* The fifth 1 and the 0 behind it.                                        *)
LEMMA SpacedFifth ==
  ASSUME NEW s, Spaced(s), s.ones = 4
  PROVE  Spaced([out |-> s.out \o <<1, 0>>, ones |-> 0])
<1> DEFINE o == s.out
           u == Append(o, 1)
           v == Append(u, 0)
<1>1. /\ o \in Seq(Bit) /\ NoSixOnes(o) /\ 4 <= Len(o)
      /\ 4 < Len(o) => o[Len(o) - 4] = 0
  BY DEF Spaced, Stuffers
<1>2. s.out \o <<1, 0>> = v
  BY <1>1
<1> HIDE DEF o
<1>3. /\ u \in Seq(Bit) /\ Len(u) = Len(o) + 1 /\ Len(o) \in Nat
      /\ \A i \in 1 .. Len(o) : u[i] = o[i]
  BY <1>1 DEF Bit
<1>4. NoSixOnes(u)
  BY <1>1, NoSixMore DEF Bit
<1> HIDE DEF u
<1>5. v \in Seq(Bit) /\ Len(v) = Len(u) + 1 /\ v[Len(v)] = 0 /\ \A i \in 1 .. Len(u) : v[i] = u[i]
  BY <1>3 DEF Bit
<1> HIDE DEF v
<1>6. NoSixOnes(v)
  <2> SUFFICES ASSUME NEW i \in 1 .. Len(v) - 5 PROVE \E j \in i .. i + 5 : v[j] = 0
    BY DEF NoSixOnes
  <2>1. CASE i <= Len(u) - 5
    <3>1. PICK j \in i .. i + 5 : u[j] = 0
      BY <1>3, <1>4, <2>1 DEF NoSixOnes
    <3>2. j \in 1 .. Len(u)
      BY <1>3, <2>1
    <3>3. QED
      BY <1>5, <3>1, <3>2
  <2>2. CASE i > Len(u) - 5
    <3>1. Len(v) \in i .. i + 5
      BY <1>3, <1>5, <2>2
    <3>2. QED
      BY <1>5, <3>1
  <2>3. QED
    BY <1>3, <1>5, <2>1, <2>2
<1>7. Len(v) \in Nat /\ v[Len(v) - 0] = 0
  BY <1>3, <1>5
<1>8. Spaced([out |-> v, ones |-> 0])
  BY <1>5, <1>6, <1>7 DEF Spaced, Stuffers
<1>9. QED
  BY <1>2, <1>8

LEMMA SpacedStep ==
  ASSUME NEW s, Spaced(s), NEW b \in Bit
  PROVE  Spaced(Stuff(s, b))
<1>1. CASE b = 0
  BY <1>1, SpacedZero DEF Stuff
<1>2. CASE b = 1 /\ s.ones = 4
  BY <1>2, SpacedFifth DEF Stuff
<1>3. CASE b = 1 /\ s.ones # 4
  BY <1>3, SpacedOne DEF Stuff
<1>4. QED
  BY <1>1, <1>2, <1>3 DEF Bit

(* Destuffed, s gives the bits that were stuffed.                          *)
Undone(s, bits) == FoldOf("out", NoBits, s.out) = [out |-> bits, ones |-> s.ones]

LEMMA UndoneIs ==
  ASSUME NEW x, NEW k, NEW bits, NEW s, s = [out |-> x, ones |-> k],
         FoldOf("out", NoBits, x) = [out |-> bits, ones |-> k]
  PROVE  Undone(s, bits)
<1>1. s.out = x /\ s.ones = k
  OBVIOUS
<1>2. QED
  BY <1>1 DEF Undone

LEMMA UndoneStep ==
  ASSUME NEW s, Spaced(s), NEW bits \in Seq(Bit), Undone(s, bits), NEW b \in Bit
  PROVE  Undone(Stuff(s, b), Append(bits, b))
<1> DEFINE o == s.out
           n == s.ones
           d == [out |-> bits, ones |-> n]
           e == [out |-> Append(bits, 1), ones |-> 5]
<1>1. o \in Seq(Bit) /\ n \in 0 .. 4 /\ 0 \in Bit /\ 1 \in Bit
  BY DEF Spaced, Stuffers, Bit
<1>2. FoldOf("out", NoBits, o) = d
  BY DEF Undone
<1> HIDE DEF o
<1>3. \A c \in Bit : FoldOf("out", NoBits, Append(o, c)) = Destuff(d, c)
  BY <1>1, <1>2, FoldMore DEF Step, Ways
<1>4. CASE b = 0
  <2>1. Stuff(s, b) = [out |-> Append(o, 0), ones |-> 0]
    BY <1>4 DEF Stuff, o
  <2>2. Destuff(d, 0) = [out |-> Append(bits, 0), ones |-> 0]
    BY <1>1 DEF Destuff
  <2>3. QED
    BY <1>1, <1>3, <1>4, <2>1, <2>2, UndoneIs
<1>5. CASE b = 1 /\ n # 4
  <2>1. Stuff(s, b) = [out |-> Append(o, 1), ones |-> n + 1]
    BY <1>5 DEF Stuff, o
  <2>2. Destuff(d, 1) = [out |-> Append(bits, 1), ones |-> n + 1]
    BY <1>1 DEF Destuff
  <2>3. QED
    BY <1>1, <1>3, <1>5, <2>1, <2>2, UndoneIs
<1>6. CASE b = 1 /\ n = 4
  <2>1. Stuff(s, b) = [out |-> o \o <<1, 0>>, ones |-> 0]
    BY <1>6 DEF Stuff, o
  <2>2. o \o <<1, 0>> = Append(Append(o, 1), 0) /\ Append(o, 1) \in Seq(Bit)
    BY <1>1
  <2>3. Destuff(d, 1) = e
    BY <1>1, <1>6 DEF Destuff
  <2>4. Destuff(e, 0) = [out |-> Append(bits, 1), ones |-> 0]
    BY DEF Destuff
  <2>5. FoldOf("out", NoBits, Append(Append(o, 1), 0)) = Destuff(e, 0)
    <3>1. FoldOf("out", NoBits, Append(o, 1)) = e
      BY <1>1, <1>3, <2>3
    <3> DEFINE p == Append(o, 1)
    <3> HIDE DEF p, e
    <3>2. p \in Seq(Bit) /\ FoldOf("out", NoBits, p) = e
      BY <2>2, <3>1 DEF p
    <3>3. FoldOf("out", NoBits, Append(p, 0)) = Step("out", e, 0)
      BY <1>1, <3>2, FoldMore DEF Ways
    <3>4. QED
      BY <3>3 DEF Step, p
  <2>6. Stuff(s, b) = [out |-> Append(Append(o, 1), 0), ones |-> 0]
    BY <2>1, <2>2
  <2>7. FoldOf("out", NoBits, Append(Append(o, 1), 0)) = [out |-> Append(bits, 1), ones |-> 0]
    BY <2>4, <2>5
  <2>8. Undone(Stuff(s, b), Append(bits, 1))
    BY <2>6, <2>7, UndoneIs
  <2>9. QED
    BY <1>6, <2>8
<1>7. QED
  BY <1>4, <1>5, <1>6 DEF Bit

LEMMA Stuffing ==
  ASSUME NEW bits \in Seq(Bit)
  PROVE  Spaced(FoldOf("in", NoBits, bits)) /\ Undone(FoldOf("in", NoBits, bits), bits)
<1> DEFINE Holds(t) == Spaced(FoldOf("in", NoBits, t)) /\ Undone(FoldOf("in", NoBits, t), t)
           S == {t \in Seq(Bit) : Holds(t)}
<1>1. << >> \in S
  <2>1. FoldOf("in", NoBits, << >>) = NoBits /\ FoldOf("out", NoBits, << >>) = NoBits
    BY FoldNothing DEF Ways
  <2>2. Spaced(NoBits)
    BY DEF Spaced, NoBits, Stuffers, NoSixOnes
  <2>3. Undone(NoBits, << >>)
    BY <2>1 DEF Undone, NoBits
  <2>4. QED
    BY <2>1, <2>2, <2>3
<1>2. ASSUME NEW t \in S, NEW b \in Bit
      PROVE  Append(t, b) \in S
  <2>1. t \in Seq(Bit) /\ Append(t, b) \in Seq(Bit) /\ Holds(t)
    OBVIOUS
  <2>2. FoldOf("in", NoBits, Append(t, b)) = Stuff(FoldOf("in", NoBits, t), b)
    BY <2>1, FoldMore DEF Step, Ways
  <2>3. QED
    BY <2>1, <2>2, SpacedStep, UndoneStep
<1> HIDE DEF S
<1>3. S = Seq(Bit)
  <2>1. S \in SUBSET Seq(Bit)
    BY DEF S
  <2>2. QED
    BY <1>1, <1>2, <2>1, AllSequences
<1>4. QED
  BY <1>3 DEF S

(* nrzi_bit_destuff undoes nrzi_bit_stuff, which leaves no six ones in a   *)
(* row.                                                                    *)
LEMMA StuffedBits ==
  ASSUME NEW bits \in Seq(Bit)
  PROVE  /\ BitStuff(bits) \in Seq(Bit) /\ NoSixOnes(BitStuff(bits))
         /\ BitDestuff(BitStuff(bits)) = bits
<1>1. BitStuff(bits) = FoldOf("in", NoBits, bits).out
  BY DEF BitStuff, FoldOf
<1>2. BitDestuff(BitStuff(bits)) = FoldOf("out", NoBits, BitStuff(bits)).out
  BY DEF BitDestuff, FoldOf
<1> DEFINE s == FoldOf("in", NoBits, bits)
<1>4. Spaced(s) /\ Undone(s, bits)
  BY Stuffing
<1> HIDE DEF s
<1>5. s.out \in Seq(Bit) /\ NoSixOnes(s.out)
  BY <1>4 DEF Spaced, Stuffers
<1>6. FoldOf("out", NoBits, s.out).out = bits
  BY <1>4 DEF Undone
<1>7. QED
  BY <1>1, <1>2, <1>5, <1>6 DEF s

-----------------------------------------------------------------------------
(* Octets and their bits                                                   *)

Octet255 == 0 .. 255

(* u is s with t behind it.                                                *)
Joins(u, s, t) ==
  /\ Len(u) = Len(s) + Len(t)
  /\ \A j \in 1 .. Len(s) : u[j] = s[j]
  /\ \A j \in 1 .. Len(t) : u[Len(s) + j] = t[j]

LEMMA JoinIs ==
  ASSUME NEW X, NEW s \in Seq(X), NEW t \in Seq(X)
  PROVE  s \o t \in Seq(X) /\ Joins(s \o t, s, t)
<1>1. Len(s) \in Nat /\ Len(t) \in Nat /\ s \o t \in Seq(X) /\ Len(s \o t) = Len(s) + Len(t)
  OBVIOUS
<1>2. \A j \in 1 .. Len(s) : (s \o t)[j] = s[j]
  OBVIOUS
<1>3. ASSUME NEW j \in 1 .. Len(t)
      PROVE  (s \o t)[Len(s) + j] = t[j]
  <2>1. Len(s) + j \in 1 .. Len(s) + Len(t) /\ Len(s) + j > Len(s) /\ Len(s) + j - Len(s) = j
    BY <1>1
  <2>2. QED
    BY <1>1, <2>1
<1> DEFINE u == s \o t
<1>4. \A j \in 1 .. Len(t) : u[Len(s) + j] = t[j]
  BY <1>3
<1>5. \A j \in 1 .. Len(s) : u[j] = s[j]
  BY <1>2
<1>6. u \in Seq(X) /\ Len(u) = Len(s) + Len(t)
  BY <1>1
<1> HIDE DEF u
<1>7. u \in Seq(X) /\ Joins(u, s, t)
  BY <1>4, <1>5, <1>6 DEF Joins
<1>8. QED
  BY <1>7 DEF u

LEMMA PartIs ==
  ASSUME NEW X, NEW s \in Seq(X), NEW m \in Nat \ {0}, NEW n \in Nat, m <= n + 1, n <= Len(s)
  PROVE  /\ SubSeq(s, m, n) \in Seq(X) /\ Len(SubSeq(s, m, n)) = n - m + 1
         /\ \A j \in 1 .. n - m + 1 : SubSeq(s, m, n)[j] = s[m - 1 + j]
OBVIOUS

LEMMA SumOfBits ==
  ASSUME NEW n \in Octet255
  PROVE  n = ((n \div 1) % 2) + 2 * ((n \div 2) % 2) + 4 * ((n \div 4) % 2) + 8 * ((n \div 8) % 2)
             + 16 * ((n \div 16) % 2) + 32 * ((n \div 32) % 2) + 64 * ((n \div 64) % 2)
             + 128 * ((n \div 128) % 2)
BY SMTT(60) DEF Octet255

LEMMA BitsTyped ==
  ASSUME NEW octets \in Seq(Octet255)
  PROVE  Bits(octets) \in Seq(Bit) /\ Len(Bits(octets)) = 8 * Len(octets)
<1> DEFINE n == Len(octets)
<1>1. n \in Nat /\ 8 * n \in Nat /\ \A i \in 1 .. n : octets[i] \in Octet255
  OBVIOUS
<1> HIDE DEF n
<1>2. ASSUME NEW k \in 1 .. 8 * n
      PROVE  (octets[(k + 7) \div 8] \div Weight[((k - 1) % 8) + 1]) % 2 \in Bit
  <2>1. (k + 7) \div 8 \in 1 .. n /\ ((k - 1) % 8) + 1 \in 1 .. 8
    BY <1>1
  <2>2. Weight[((k - 1) % 8) + 1] \in Nat \ {0}
    <3>1. \A j \in 1 .. 8 : Weight[j] \in Nat \ {0}
      BY DEF Weight
    <3>2. QED
      BY <2>1, <3>1
  <2>3. octets[(k + 7) \div 8] \in Nat
    <3> DEFINE i == (k + 7) \div 8
    <3>1. i \in 1 .. n
      BY <2>1
    <3> HIDE DEF i
    <3>2. octets[i] \in Octet255 /\ Octet255 \subseteq Nat
      BY <1>1, <3>1 DEF Octet255
    <3>3. QED
      BY <3>2, Zenon DEF i
  <2>4. \A x \in Nat : \A y \in Nat \ {0} : x \div y \in Nat
    OBVIOUS
  <2>5. \A x \in Nat : x % 2 \in Bit
    BY DEF Bit
  <2>6. QED
    BY <2>2, <2>3, <2>4, <2>5
<1>3. QED
  BY <1>1, <1>2 DEF Bits, n

(* The bits of the octet in place i.                                       *)
LEMMA BitOfOctet ==
  ASSUME NEW octets \in Seq(Octet255), NEW i \in 1 .. Len(octets), NEW j \in 1 .. 8
  PROVE  Bits(octets)[8 * i - 8 + j] = (octets[i] \div Weight[j]) % 2
<1>1. 8 * i - 8 + j \in 1 .. 8 * Len(octets)
  OBVIOUS
<1>2. (8 * i - 8 + j + 7) \div 8 = i /\ ((8 * i - 8 + j - 1) % 8) + 1 = j
  OBVIOUS
<1>3. QED
  BY <1>1, <1>2 DEF Bits

LEMMA OctetsOfBits ==
  ASSUME NEW octets \in Seq(Octet255)
  PROVE  Octets(Bits(octets)) = octets
<1> DEFINE n == Len(octets)
           bits == Bits(octets)
<1>1. n \in Nat /\ bits \in Seq(Bit) /\ Len(bits) = 8 * n /\ (8 * n) \div 8 = n
  BY BitsTyped
<1>2. ASSUME NEW i \in 1 .. n
      PROVE  Octet(SubSeq(bits, 8 * i - 7, 8 * i)) = octets[i]
  <2> DEFINE s == SubSeq(bits, 8 * i - 7, 8 * i)
             x == octets[i]
  <2>1. x \in Octet255
    OBVIOUS
  <2>2. \A j \in 1 .. 8 : bits[8 * i - 8 + j] = (x \div Weight[j]) % 2
    BY BitOfOctet
  <2> HIDE DEF bits, x
  <2>3. \A j \in 1 .. 8 : s[j] = bits[8 * i - 8 + j]
    <3> DEFINE a == 8 * i - 7
               b == 8 * i
    <3>1. a \in Nat \ {0} /\ b \in Nat /\ a <= b + 1 /\ b <= Len(bits) /\ b - a + 1 = 8
      BY <1>1
    <3>2. \A j \in 1 .. 8 : a - 1 + j = 8 * i - 8 + j
      BY <1>1
    <3> HIDE DEF a, b
    <3>3. \A j \in 1 .. 8 : SubSeq(bits, a, b)[j] = bits[a - 1 + j]
      BY <1>1, <3>1, PartIs
    <3>4. QED
      BY <3>2, <3>3 DEF a, b
  <2> HIDE DEF s
  <2>4. /\ s[1] = (x \div 1) % 2 /\ s[2] = (x \div 2) % 2 /\ s[3] = (x \div 4) % 2
        /\ s[4] = (x \div 8) % 2 /\ s[5] = (x \div 16) % 2 /\ s[6] = (x \div 32) % 2
        /\ s[7] = (x \div 64) % 2 /\ s[8] = (x \div 128) % 2
    BY <2>2, <2>3 DEF Weight
  <2>5. Octet(s) = x
    BY <2>1, <2>4, SumOfBits DEF Octet
  <2>6. QED
    BY <2>5 DEF s, x
<1> HIDE DEF bits
<1>3. Octets(bits) = [i \in 1 .. n |-> octets[i]]
  BY <1>1, <1>2 DEF Octets
<1>4. QED
  BY <1>3 DEF bits

LEMMA OctetTyped ==
  ASSUME NEW s, \A j \in 1 .. 8 : s[j] \in Bit
  PROVE  Octet(s) \in Octet255
BY DEF Octet, Octet255, Bit

LEMMA OctetsTyped ==
  ASSUME NEW bits \in Seq(Bit)
  PROVE  Octets(bits) \in Seq(Octet255)
<1> DEFINE n == Len(bits) \div 8
<1>1. n \in Nat /\ 8 * n <= Len(bits) /\ Len(bits) \in Nat
  OBVIOUS
<1> HIDE DEF n
<1>2. ASSUME NEW i \in 1 .. n
      PROVE  Octet(SubSeq(bits, 8 * i - 7, 8 * i)) \in Octet255
  <2>1. \A j \in 1 .. 8 : /\ SubSeq(bits, 8 * i - 7, 8 * i)[j] = bits[8 * i - 8 + j]
                          /\ bits[8 * i - 8 + j] \in Bit
    BY <1>1
  <2>2. QED
    BY <2>1, OctetTyped
<1>3. QED
  BY <1>1, <1>2 DEF Octets, n

LEMMA FcsTyped == \A bits : Fcs(bits) \in Seq(Bit) /\ Len(Fcs(bits)) = 16
<1> TAKE bits
<1>1. PICK crc : Fcs(bits) = [i \in 1 .. 16 |-> IF crc[i] = 1 THEN 0 ELSE 1]
  BY DEF Fcs
<1>2. QED
  BY <1>1 DEF Bit

LEMMA FixSsidTyped ==
  ASSUME NEW f \in Frames
  PROVE  FixSsid(f) \in Seq(Octet255) /\ Len(FixSsid(f)) = Len(f) /\ Len(f) \in Nat
<1>1. f \in Seq(Octet255)
  BY ModemAssumption DEF Octet255
<1>2. \A x \in Octet255 : (x % 32) + 224 \in Octet255
  BY DEF Octet255
<1>3. QED
  BY <1>1, <1>2 DEF FixSsid

(* What is stuffed of a frame.                                             *)
Data(f) == Bits(FixSsid(f)) \o Fcs(Bits(FixSsid(f)))

LEMMA DataTyped ==
  ASSUME NEW f \in Frames
  PROVE  Data(f) \in Seq(Bit)
BY FixSsidTyped, BitsTyped, FcsTyped DEF Data

LEMMA DataAccepted ==
  ASSUME NEW f \in Frames
  PROVE  /\ Accepts(Data(f))
         /\ Octets(SubSeq(Data(f), 1, 8 * (Len(Data(f)) \div 8 - 2))) = FixSsid(f)
<1> DEFINE g == FixSsid(f)
           n == Len(g)
           bits == Bits(g)
           fcs == Fcs(bits)
           d == bits \o fcs
<1>1. n \in Nat /\ n >= MinOctets /\ g \in Seq(Octet255) /\ MinOctets \in Nat
  BY FixSsidTyped, ModemAssumption
<1>2. bits \in Seq(Bit) /\ Len(bits) = 8 * n /\ fcs \in Seq(Bit) /\ Len(fcs) = 16
  BY <1>1, BitsTyped, FcsTyped
<1>3. Octets(bits) = g
  BY <1>1, OctetsOfBits
<1>4. Data(f) = d
  BY DEF Data
<1>5. fcs = Fcs(bits)
  OBVIOUS
<1> HIDE DEF g, n, bits, fcs
<1>a. /\ d \in Seq(Bit) /\ Len(d) = 8 * n + 16 /\ \A j \in 1 .. 8 * n : d[j] = bits[j]
      /\ \A j \in 1 .. 16 : d[8 * n + j] = fcs[j]
  <2>1. d \in Seq(Bit) /\ Joins(d, bits, fcs)
    BY <1>2, JoinIs, Zenon
  <2> HIDE DEF d
  <2>2. QED
    BY <1>2, <2>1 DEF Joins
<1>6. Len(d) = 8 * n + 16 /\ Len(d) \div 8 = n + 2 /\ n + 2 - 2 = n
  <2>1. (8 * n + 16) \div 8 = n + 2 /\ n + 2 - 2 = n
    BY <1>1
  <2>2. QED
    BY <1>a, <2>1
<1> DEFINE k == 8 * n
<1>7. k \in Nat /\ Len(bits) = k /\ Len(d) = k + 16 /\ 8 * (n + 2) = k + 16
  BY <1>1, <1>2, <1>a
<1> HIDE DEF k
<1>8. SubSeq(d, 1, k) = bits /\ SubSeq(d, k + 1, k + 16) = fcs
  <2>1. Len(d) = k + 16 /\ d \in Seq(Bit) /\ k + 1 \in Nat \ {0} /\ k + 16 \in Nat
    BY <1>7, <1>a
  <2>2. /\ \A j \in 1 .. k : d[j] = bits[j]
        /\ \A j \in 1 .. 16 : d[k + j] = fcs[j]
    BY <1>a DEF k
  <2> HIDE DEF d
  <2>3. SubSeq(d, 1, k) = bits
    <3>1. /\ SubSeq(d, 1, k) \in Seq(Bit) /\ Len(SubSeq(d, 1, k)) = k
          /\ \A j \in 1 .. k : SubSeq(d, 1, k)[j] = d[j]
      BY <1>7, <2>1
    <3>2. QED
      BY <1>2, <1>7, <2>2, <3>1, SeqEqual
  <2>4. SubSeq(d, k + 1, k + 16) = fcs
    <3>1. /\ SubSeq(d, k + 1, k + 16) \in Seq(Bit) /\ Len(SubSeq(d, k + 1, k + 16)) = 16
          /\ \A j \in 1 .. 16 : SubSeq(d, k + 1, k + 16)[j] = d[k + j]
      <4> DEFINE a == k + 1
                 b == k + 16
      <4>1. a \in Nat \ {0} /\ b \in Nat /\ a <= b + 1 /\ b <= Len(d) /\ b - a + 1 = 16
        BY <1>7, <2>1
      <4>2. \A j \in 1 .. 16 : a - 1 + j = k + j
        BY <1>7
      <4> HIDE DEF a, b
      <4>3. /\ SubSeq(d, a, b) \in Seq(Bit) /\ Len(SubSeq(d, a, b)) = 16
            /\ \A j \in 1 .. 16 : SubSeq(d, a, b)[j] = d[a - 1 + j]
        BY <2>1, <4>1, PartIs
      <4>4. QED
        BY <4>2, <4>3 DEF a, b
    <3>2. \A j \in 1 .. 16 : SubSeq(d, k + 1, k + 16)[j] = fcs[j]
      BY <2>2, <3>1
    <3> DEFINE p == SubSeq(d, k + 1, k + 16)
    <3>3. p \in Seq(Bit) /\ Len(p) = Len(fcs) /\ \A j \in 1 .. Len(p) : p[j] = fcs[j]
      BY <1>2, <3>1, <3>2
    <3> HIDE DEF p
    <3>4. p = fcs
      BY <1>2, <3>3, SeqEqual
    <3>5. QED
      BY <3>4 DEF p
  <2>5. QED
    BY <2>3, <2>4
<1> HIDE DEF d
<1>9. Accepts(d)
  <2>1. Len(d) \div 8 - 2 = n /\ n >= MinOctets
    BY <1>1, <1>6
  <2>2. SubSeq(d, 8 * n + 1, 8 * (n + 2)) = Fcs(SubSeq(d, 1, 8 * n))
    BY <1>5, <1>7, <1>8 DEF k
  <2>3. QED
    BY <1>1, <1>6, <2>1, <2>2 DEF Accepts
<1>10. Octets(SubSeq(d, 1, 8 * (Len(d) \div 8 - 2))) = g
  <2>1. 8 * (Len(d) \div 8 - 2) = k
    BY <1>1, <1>6 DEF k
  <2>2. QED
    BY <1>3, <1>8, <2>1
<1>11. QED
  BY <1>4, <1>9, <1>10 DEF g

(* What the detector finds between two flags.                              *)
LEMMA BodyIs ==
  ASSUME NEW f \in Frames
  PROVE  /\ Body[f] \in Seq(Bit) /\ Len(Body[f]) \in Nat /\ NoSixOnes(Body[f])
         /\ BitDestuff(Body[f]) = Data(f)
<1>1. Body[f] = BitStuff(Data(f))
  BY DEF Body, Data
<1>2. QED
  BY <1>1, DataTyped, StuffedBits

-----------------------------------------------------------------------------
(* Levels                                                                  *)

Zeros(bits, i) == {j \in 1 .. i : bits[j] = 0}

LEMMA ZerosCount ==
  ASSUME NEW bits, NEW i \in Nat
  PROVE  IsFiniteSet(Zeros(bits, i)) /\ Cardinality(Zeros(bits, i)) \in Nat
<1>1. IsFiniteSet(1 .. i)
  BY FS_Interval
<1>2. Zeros(bits, i) \subseteq 1 .. i
  BY DEF Zeros
<1>3. QED
  BY <1>1, <1>2, FS_Subset, FS_CardinalityType

LEMMA ZerosMore ==
  ASSUME NEW bits, NEW i \in Nat
  PROVE  Cardinality(Zeros(bits, i + 1)) =
           IF bits[i + 1] = 0 THEN Cardinality(Zeros(bits, i)) + 1 ELSE Cardinality(Zeros(bits, i))
<1>1. CASE bits[i + 1] = 0
  <2>1. Zeros(bits, i + 1) = Zeros(bits, i) \cup {i + 1} /\ i + 1 \notin Zeros(bits, i)
    BY <1>1 DEF Zeros
  <2>2. QED
    BY <1>1, <2>1, ZerosCount, FS_AddElement
<1>2. CASE bits[i + 1] # 0
  <2>1. Zeros(bits, i + 1) = Zeros(bits, i)
    BY <1>2 DEF Zeros
  <2>2. QED
    BY <1>2, <2>1
<1>3. QED
  BY <1>1, <1>2

LEMMA LevelsTyped ==
  ASSUME NEW bits \in Seq(Bit)
  PROVE  NrziEncode(bits) \in Seq(Bit) /\ Len(NrziEncode(bits)) = Len(bits)
<1>1. DOMAIN bits = 1 .. Len(bits) /\ Len(bits) \in Nat
  OBVIOUS
<1>2. NrziEncode(bits) = [i \in 1 .. Len(bits) |-> Cardinality(Zeros(bits, i)) % 2]
  BY <1>1 DEF NrziEncode, Zeros
<1>3. \A i \in 1 .. Len(bits) : Cardinality(Zeros(bits, i)) % 2 \in Bit
  <2>1. \A c \in Nat : c % 2 \in Bit
    BY DEF Bit
  <2>2. QED
    BY <1>1, <2>1, ZerosCount
<1>4. QED
  BY <1>1, <1>2, <1>3

(* A level that stays is a 1.                                              *)
LEMMA LevelStays ==
  ASSUME NEW bits \in Seq(Bit), NEW i \in 1 .. Len(bits) - 1
  PROVE  bits[i + 1] = (IF NrziEncode(bits)[i + 1] = NrziEncode(bits)[i] THEN 1 ELSE 0)
<1> DEFINE c == Cardinality(Zeros(bits, i))
           e == Cardinality(Zeros(bits, i + 1))
<1>1. i \in Nat /\ i \in 1 .. Len(bits) /\ i + 1 \in 1 .. Len(bits) /\ bits[i + 1] \in Bit
  OBVIOUS
<1>2. NrziEncode(bits) = [k \in 1 .. Len(bits) |-> Cardinality(Zeros(bits, k)) % 2]
  BY DEF NrziEncode, Zeros
<1>3. NrziEncode(bits)[i + 1] = e % 2 /\ NrziEncode(bits)[i] = c % 2
  BY <1>1, <1>2
<1>4. c \in Nat /\ e = IF bits[i + 1] = 0 THEN c + 1 ELSE c
  BY <1>1, ZerosCount, ZerosMore
<1> HIDE DEF c, e
<1>5. (c + 1) % 2 # c % 2
  BY <1>4
<1>6. QED
  BY <1>1, <1>3, <1>4, <1>5 DEF Bit

-----------------------------------------------------------------------------
(* The bits of a transmission, from the last flag before the frame on      *)

LEMMA FlagsAre ==
  ASSUME NEW n \in Nat
  PROVE  /\ Flags(n) \in Seq(Bit) /\ Len(Flags(n)) = 8 * n
         /\ \A k \in 0 .. n - 1 : \A j \in 1 .. 8 : Flags(n)[8 * k + j] = Flag[j]
<1>1. \A i \in 1 .. 8 * n : ((i - 1) % 8) + 1 \in 1 .. 8
  OBVIOUS
<1>2. \A i \in 1 .. 8 : Flag[i] \in Bit
  BY DEF Flag, Bit
<1>3. \A i \in 1 .. 8 * n : Flag[((i - 1) % 8) + 1] \in Bit
  BY <1>1, <1>2
<1>4. Flags(n) \in Seq(Bit) /\ Len(Flags(n)) = 8 * n
  BY <1>3 DEF Flags
<1>5. ASSUME NEW k \in 0 .. n - 1, NEW j \in 1 .. 8
      PROVE  Flags(n)[8 * k + j] = Flag[j]
  <2>1. 8 * k + j \in 1 .. 8 * n /\ ((8 * k + j - 1) % 8) + 1 = j
    OBVIOUS
  <2>2. QED
    BY <2>1 DEF Flags
<1>6. QED
  BY <1>4, <1>5

Before == 8 * (Preamble - 1)
After(f) == 8 + Len(Body[f])
Total(f) == Before + After(f) + 8 * Closing

(* The bit in place m from the last flag before the frame.                 *)
At(f, m) == FrameToBitstream(f)[Before + m]

LEMMA WaveIs ==
  ASSUME NEW f \in Frames
  PROVE  /\ FrameToBitstream(f) \in Seq(Bit) /\ Len(FrameToBitstream(f)) = Total(f)
         /\ \A j \in 1 .. 8 : At(f, j) = Flag[j]
         /\ \A j \in 1 .. Len(Body[f]) : At(f, 8 + j) = Body[f][j]
         /\ \A j \in 1 .. 8 : At(f, After(f) + j) = Flag[j]
<1> DEFINE p == Flags(Preamble)
           b == Body[f]
           c == Flags(Closing)
           pb == p \o b
           w == pb \o c
           l == Len(b)
<1>1. /\ p \in Seq(Bit) /\ Len(p) = Before + 8 /\ Before \in Nat
      /\ \A j \in 1 .. 8 : p[Before + j] = Flag[j]
  <2>1. Preamble \in Nat \ {0}
    BY ModemAssumption
  <2>2. 8 * Preamble = Before + 8 /\ Before \in Nat /\ Preamble - 1 \in 0 .. Preamble - 1
    BY <2>1 DEF Before
  <2>3. p \in Seq(Bit) /\ Len(p) = 8 * Preamble
    BY <2>1, FlagsAre
  <2>4. \A j \in 1 .. 8 : p[8 * (Preamble - 1) + j] = Flag[j]
    BY <2>1, <2>2, FlagsAre
  <2>5. QED
    BY <2>2, <2>3, <2>4 DEF Before
<1>2. b \in Seq(Bit) /\ l \in Nat
  BY BodyIs
<1>3. /\ c \in Seq(Bit) /\ Len(c) = 8 * Closing /\ 8 * Closing \in Nat /\ 8 * Closing >= 8
      /\ \A j \in 1 .. 8 : c[j] = Flag[j]
  <2>1. Closing \in Nat \ {0}
    BY ModemAssumption
  <2>2. 8 * Closing \in Nat /\ 8 * Closing >= 8 /\ 0 \in 0 .. Closing - 1
    BY <2>1
  <2>3. c \in Seq(Bit) /\ Len(c) = 8 * Closing
    BY <2>1, FlagsAre
  <2>4. \A j \in 1 .. 8 : c[8 * 0 + j] = Flag[j]
    BY <2>1, <2>2, FlagsAre
  <2>5. \A j \in 1 .. 8 : 8 * 0 + j = j
    OBVIOUS
  <2>6. QED
    BY <2>2, <2>3, <2>4, <2>5
<1>4. FrameToBitstream(f) = w
  <2>1. p \o b \o c = (p \o b) \o c
    OBVIOUS
  <2>2. QED
    BY <2>1 DEF FrameToBitstream
<1> HIDE DEF p, b, c
<1>5. pb \in Seq(Bit) /\ Joins(pb, p, b)
  BY <1>1, <1>2, JoinIs, Zenon
<1> HIDE DEF pb
<1>6. w \in Seq(Bit) /\ Joins(w, pb, c)
  BY <1>3, <1>5, JoinIs, Zenon
<1> HIDE DEF w
<1>7. /\ Len(pb) = Before + 8 + l /\ \A j \in 1 .. 8 : pb[Before + j] = Flag[j]
      /\ \A j \in 1 .. l : pb[Before + 8 + j] = b[j]
  <2>1. /\ Len(pb) = Len(p) + l /\ \A j \in 1 .. Len(p) : pb[j] = p[j]
        /\ \A j \in 1 .. l : pb[Len(p) + j] = b[j]
    BY <1>5 DEF Joins
  <2> HIDE DEF l
  <2>2. \A j \in 1 .. 8 : Before + j \in 1 .. Len(p)
    BY <1>1
  <2>3. QED
    BY <1>1, <2>1, <2>2
<1>8. /\ Len(w) = Before + 8 + l + 8 * Closing
      /\ \A j \in 1 .. Before + 8 + l : w[j] = pb[j]
      /\ \A j \in 1 .. 8 : w[Before + 8 + l + j] = Flag[j]
  <2>1. /\ Len(w) = Len(pb) + Len(c) /\ \A j \in 1 .. Len(pb) : w[j] = pb[j]
        /\ \A j \in 1 .. Len(c) : w[Len(pb) + j] = c[j]
    BY <1>6 DEF Joins
  <2> HIDE DEF l
  <2> DEFINE C == 8 * Closing
  <2>2. C \in Nat /\ C >= 8 /\ Len(c) = C
    BY <1>3
  <2>3. \A j \in 1 .. 8 : j \in 1 .. Len(c)
    BY <2>2
  <2> HIDE DEF C
  <2>4. QED
    BY <1>3, <1>7, <2>1, <2>2, <2>3 DEF C
<1> HIDE DEF l
<1>9. \A j \in 1 .. 8 : w[Before + j] = Flag[j]
  <2>1. Before \in Nat /\ l \in Nat
    BY <1>1, <1>2
  <2>2. \A j \in 1 .. 8 : Before + j \in 1 .. Before + 8 + l
    BY <2>1
  <2>3. QED
    BY <1>7, <1>8, <2>2
<1>10. \A j \in 1 .. l : w[Before + (8 + j)] = b[j]
  <2>1. \A j \in 1 .. l : /\ Before + 8 + j \in 1 .. Before + 8 + l
                          /\ Before + (8 + j) = Before + 8 + j
    BY <1>1, <1>2
  <2>2. QED
    BY <1>7, <1>8, <2>1
<1>11. \A j \in 1 .. 8 : w[Before + (8 + l + j)] = Flag[j]
  <2>1. Before \in Nat /\ l \in Nat
    BY <1>1, <1>2
  <2>2. \A j \in 1 .. 8 : Before + (8 + l + j) = Before + 8 + l + j
    BY <2>1
  <2>3. QED
    BY <1>8, <2>2
<1>12. After(f) = 8 + l /\ Total(f) = Before + 8 + l + 8 * Closing
  <2>1. After(f) = 8 + l
    BY DEF After, l, b
  <2>2. Before + (8 + l) + 8 * Closing = Before + 8 + l + 8 * Closing
    BY <1>1, <1>2, <1>3
  <2>3. QED
    BY <2>1, <2>2 DEF Total
<1>13. QED
  BY <1>4, <1>6, <1>8, <1>9, <1>10, <1>11, <1>12 DEF At, l, b

LEMMA Sizes ==
  ASSUME NEW f \in Frames
  PROVE  /\ Before \in Nat /\ Len(Body[f]) \in Nat /\ After(f) = 8 + Len(Body[f])
         /\ After(f) \in Nat /\ Closing \in Nat \ {0} /\ Preamble \in Nat \ {0}
         /\ Before = 8 * Preamble - 8 /\ Total(f) = Before + After(f) + 8 * Closing
         /\ Total(f) \in Nat /\ 8 * Closing \in Nat /\ 8 * Closing >= 8
<1>1. Len(Body[f]) \in Nat /\ Closing \in Nat \ {0} /\ Preamble \in Nat \ {0}
  BY BodyIs, ModemAssumption
<1>2. Before = 8 * Preamble - 8 /\ Before \in Nat /\ After(f) = 8 + Len(Body[f]) /\ After(f) \in Nat
  BY <1>1 DEF Before, After
<1>3. 8 * Closing \in Nat /\ 8 * Closing >= 8
  BY <1>1
<1> DEFINE C == 8 * Closing
<1>4. Total(f) = Before + After(f) + C
  BY DEF Total
<1> HIDE DEF C
<1>5. Before + After(f) + C \in Nat
  BY <1>2, <1>3 DEF C
<1>6. QED
  BY <1>1, <1>2, <1>3, <1>4, <1>5 DEF C

LEMMA AtTyped ==
  ASSUME NEW f \in Frames, NEW m \in 1 .. After(f) + 8
  PROVE  At(f, m) \in Bit
<1> DEFINE w == FrameToBitstream(f)
<1>1. w \in Seq(Bit) /\ Len(w) = Total(f)
  BY WaveIs
<1>2. Before + m \in 1 .. Total(f)
  <2> DEFINE C == 8 * Closing
  <2>1. Before \in Nat /\ After(f) \in Nat /\ C >= 8 /\ C \in Nat /\ Total(f) = Before + After(f) + C
    BY Sizes
  <2> HIDE DEF C
  <2>2. QED
    BY <2>1
<1> HIDE DEF w
<1>3. w[Before + m] \in Bit
  BY <1>1, <1>2
<1>4. QED
  BY <1>3 DEF At, w

(* Between the two flags there is neither a flag nor seven ones: of six    *)
(* bits in a row that do not begin within the first two one is a 0.        *)
LEMMA NoFlagWithin ==
  ASSUME NEW f \in Frames, NEW m \in 9 .. After(f) + 7
  PROVE  \E j \in m - 6 .. m - 1 : At(f, j) = 0
<1>1. /\ Len(Body[f]) \in Nat /\ After(f) = 8 + Len(Body[f]) /\ m \in Nat
  BY Sizes
<1>2. CASE m - 6 <= 8
  <2>1. 8 \in m - 6 .. m - 1
    BY <1>2
  <2>2. At(f, 8) = 0
    BY WaveIs DEF Flag
  <2>3. QED
    BY <2>1, <2>2
<1>3. CASE m - 6 > 8 /\ m - 1 <= After(f)
  <2>1. m - 14 \in 1 .. Len(Body[f]) - 5
    BY <1>1, <1>3
  <2>2. PICK i \in m - 14 .. m - 9 : Body[f][i] = 0
    <3>1. (m - 14) + 5 = m - 9
      BY <1>1
    <3>2. QED
      BY <2>1, <3>1, BodyIs DEF NoSixOnes
  <2>3. i \in 1 .. Len(Body[f]) /\ 8 + i \in m - 6 .. m - 1
    BY <1>1, <1>3, <2>1
  <2>4. At(f, 8 + i) = 0
    BY <2>2, <2>3, WaveIs
  <2>5. QED
    BY <2>3, <2>4
<1>4. CASE m - 1 > After(f)
  <2>1. After(f) + 1 \in m - 6 .. m - 1
    BY <1>1, <1>4
  <2>2. At(f, After(f) + 1) = 0
    BY WaveIs DEF Flag
  <2>3. QED
    BY <2>1, <2>2
<1>5. QED
  BY <1>1, <1>2, <1>3, <1>4

-----------------------------------------------------------------------------
(* A detector and one level                                                *)

DetectorOK(d) ==
  /\ d.state \in {"HUNT", "SYNC", "FRAME"} /\ d.prev \in Bit
  /\ d.shift \in [1 .. 8 -> Bit] /\ d.bits \in Seq(Bit)
  /\ Len(d.bits) <= (IF d.state = "FRAME" THEN MaxBits ELSE 0)

LEMMA DataBitTyped == \A d, level : DataBit(d, level) \in Bit
BY DEF DataBit, Bit

LEMMA EightBits ==
  ASSUME NEW s
  PROVE  s \in [1 .. 8 -> Bit] <=> s \in Seq(Bit) /\ Len(s) = 8
<1>1. ASSUME s \in [1 .. 8 -> Bit] PROVE s \in Seq(Bit) /\ Len(s) = 8
  <2>1. s \in Seq(Bit)
    BY <1>1, SeqDef
  <2>2. 1 .. Len(s) = 1 .. 8 /\ Len(s) \in Nat
    BY <1>1, <2>1, LenProperties
  <2> DEFINE n == Len(s)
  <2>3. n \in Nat /\ \A i : i \in 1 .. n <=> i \in 1 .. 8
    BY <2>2
  <2> HIDE DEF n
  <2>4. n >= 8
    BY <2>3
  <2>5. n \in 1 .. n
    BY <2>3, <2>4
  <2>6. n <= 8
    BY <2>3, <2>5
  <2>7. n = 8
    BY <2>3, <2>4, <2>6
  <2>8. QED
    BY <2>1, <2>7 DEF n
<1>2. ASSUME s \in Seq(Bit), Len(s) = 8 PROVE s \in [1 .. 8 -> Bit]
  BY <1>2, LenProperties
<1>3. QED
  BY <1>1, <1>2

(* u is s with b behind it.                                                *)
Appended(u, s, b) ==
  Len(u) = Len(s) + 1 /\ u[Len(s) + 1] = b /\ \A i \in 1 .. Len(s) : u[i] = s[i]

LEMMA AppendIs ==
  ASSUME NEW X, NEW s \in Seq(X), NEW b \in X
  PROVE  Append(s, b) \in Seq(X) /\ Appended(Append(s, b), s, b)
<1> DEFINE u == Append(s, b)
<1>1. u \in Seq(X) /\ Len(u) = Len(s) + 1
  OBVIOUS
<1>2. u[Len(s) + 1] = b
  OBVIOUS
<1>3. ASSUME NEW i \in 1 .. Len(s) PROVE u[i] = s[i]
  OBVIOUS
<1> HIDE DEF u
<1>4. u \in Seq(X) /\ Appended(u, s, b)
  BY <1>1, <1>2, <1>3 DEF Appended
<1>5. QED
  BY <1>4 DEF u

LEMMA ShiftedIs ==
  ASSUME NEW d, d.shift \in [1 .. 8 -> Bit], NEW level
  PROVE  /\ Shifted(d, level) \in [1 .. 8 -> Bit]
         /\ \A i \in 1 .. 7 : Shifted(d, level)[i] = d.shift[i + 1]
         /\ Shifted(d, level)[8] = DataBit(d, level)
<1> DEFINE s == d.shift
           b == DataBit(d, level)
           t == Tail(s)
           u == Append(t, b)
<1>1. b \in Bit /\ s \in [1 .. 8 -> Bit]
  BY DataBitTyped
<1> HIDE DEF s, b
<1>2. s \in Seq(Bit) /\ Len(s) = 8
  BY <1>1, EightBits
<1>3. t \in Seq(Bit) /\ Len(t) = 7 /\ \A i \in 1 .. 7 : t[i] = s[i + 1]
  <2>1. s # << >>
    BY <1>2
  <2>2. /\ t \in Seq(Bit) /\ Len(t) = Len(s) - 1
        /\ \A i \in 1 .. Len(t) : t[i] = s[i + 1]
    BY <1>2, <2>1, HeadTailProperties, Zenon
  <2> HIDE DEF t
  <2>3. QED
    BY <1>2, <2>2
<1> HIDE DEF t
<1>4. u \in Seq(Bit) /\ Len(u) = 8 /\ u[8] = b /\ \A i \in 1 .. 7 : u[i] = t[i]
  <2>1. t \in Seq(Bit) /\ b \in Bit /\ Len(t) = 7
    BY <1>1, <1>3
  <2>2. u \in Seq(Bit) /\ Appended(u, t, b)
    BY <2>1, AppendIs, Zenon
  <2> HIDE DEF u
  <2>3. QED
    BY <2>1, <2>2 DEF Appended
<1> HIDE DEF u
<1>5. u \in [1 .. 8 -> Bit]
  BY <1>4, EightBits
<1>6. u \in [1 .. 8 -> Bit] /\ u[8] = b /\ \A i \in 1 .. 7 : u[i] = s[i + 1]
  BY <1>3, <1>4, <1>5
<1>7. Shifted(d, level) = u
  BY DEF Shifted, u, t, s, b
<1>8. QED
  BY <1>6, <1>7 DEF s, b

LEMMA AtFlag ==
  ASSUME NEW d, NEW level, Shifted(d, level) = Flag
  PROVE  /\ FeedBit(d, level).state = "SYNC" /\ FeedBit(d, level).bits = << >>
         /\ FeedBit(d, level).prev = level /\ FeedBit(d, level).shift = Shifted(d, level)
BY DEF FeedBit

LEMMA InHunt ==
  ASSUME NEW d, NEW level, Shifted(d, level) # Flag, d.state = "HUNT"
  PROVE  /\ FeedBit(d, level).state = "HUNT" /\ FeedBit(d, level).bits = << >>
         /\ FeedBit(d, level).prev = level /\ FeedBit(d, level).shift = Shifted(d, level)
BY DEF FeedBit

LEMMA InSync ==
  ASSUME NEW d, NEW level, Shifted(d, level) # Flag, d.state = "SYNC"
  PROVE  /\ FeedBit(d, level).state = "FRAME" /\ FeedBit(d, level).bits = <<DataBit(d, level)>>
         /\ FeedBit(d, level).prev = level /\ FeedBit(d, level).shift = Shifted(d, level)
BY DEF FeedBit

TooMuch(d, shift) == Len(d.bits) = MaxBits \/ \A i \in 1 .. 7 : shift[i] = 1

LEMMA GivenUp ==
  ASSUME NEW d, NEW level, Shifted(d, level) # Flag, d.state = "FRAME",
         TooMuch(d, Shifted(d, level))
  PROVE  /\ FeedBit(d, level).state = "HUNT" /\ FeedBit(d, level).bits = << >>
         /\ FeedBit(d, level).prev = level /\ FeedBit(d, level).shift = Shifted(d, level)
BY DEF FeedBit, Accumulate, TooMuch

LEMMA InFrame ==
  ASSUME NEW d, NEW level, Shifted(d, level) # Flag, d.state = "FRAME",
         ~ TooMuch(d, Shifted(d, level))
  PROVE  /\ FeedBit(d, level).state = "FRAME"
         /\ FeedBit(d, level).bits = Append(d.bits, DataBit(d, level))
         /\ FeedBit(d, level).prev = level /\ FeedBit(d, level).shift = Shifted(d, level)
BY DEF FeedBit, Accumulate, TooMuch

LEMMA FeedTyped ==
  ASSUME NEW d, DetectorOK(d), NEW level \in Bit
  PROVE  DetectorOK(FeedBit(d, level))
<1> DEFINE e == FeedBit(d, level)
           b == DataBit(d, level)
           s == Shifted(d, level)
<1>1. s \in [1 .. 8 -> Bit] /\ b \in Bit
  BY ShiftedIs, DataBitTyped DEF DetectorOK
<1>2. d.bits \in Seq(Bit) /\ MaxBits \in Nat \ {0}
  BY ModemAssumption DEF DetectorOK
<1>3. ASSUME e.state \in {"HUNT", "SYNC"}, e.bits = << >>, e.prev = level, e.shift = s
      PROVE  DetectorOK(e)
  <2>1. << >> \in Seq(Bit) /\ Len(<< >>) = 0
    OBVIOUS
  <2> HIDE DEF e, s
  <2>2. QED
    BY <1>1, <1>3, <2>1 DEF DetectorOK
<1>4. ASSUME e.state = "FRAME", e.bits \in Seq(Bit), Len(e.bits) <= MaxBits, e.prev = level,
             e.shift = s
      PROVE  DetectorOK(e)
  <2> HIDE DEF e, s
  <2>1. QED
    BY <1>1, <1>4 DEF DetectorOK
<1> SUFFICES DetectorOK(e)
  OBVIOUS
<1> HIDE DEF e
<1>5. CASE s = Flag
  BY <1>3, <1>5, AtFlag DEF e
<1>6. CASE s # Flag /\ d.state = "HUNT"
  BY <1>3, <1>6, InHunt DEF e
<1>7. CASE s # Flag /\ d.state = "SYNC"
  <2>1. <<b>> \in Seq(Bit) /\ Len(<<b>>) = 1 /\ 1 <= MaxBits
    BY <1>1, <1>2
  <2>2. e.state = "FRAME" /\ e.bits = <<b>> /\ e.prev = level /\ e.shift = s
    BY <1>7, InSync DEF e
  <2> HIDE DEF b, s
  <2>3. e.bits \in Seq(Bit) /\ Len(e.bits) <= MaxBits
    BY <2>1, <2>2
  <2>4. QED
    BY <1>4, <2>2, <2>3, Zenon
<1>8. CASE s # Flag /\ d.state = "FRAME" /\ TooMuch(d, s)
  BY <1>3, <1>8, GivenUp DEF e
<1>9. CASE s # Flag /\ d.state = "FRAME" /\ ~ TooMuch(d, s)
  <2>1. Len(d.bits) < MaxBits /\ Len(d.bits) \in Nat
    BY <1>2, <1>9 DEF DetectorOK, TooMuch
  <2>2. e.state = "FRAME" /\ e.bits = Append(d.bits, b) /\ e.prev = level /\ e.shift = s
    BY <1>9, InFrame DEF e
  <2> DEFINE x == d.bits
  <2>3. x \in Seq(Bit) /\ e.bits = Append(x, b) /\ Len(x) < MaxBits /\ Len(x) \in Nat
    BY <1>2, <2>1, <2>2
  <2> HIDE DEF b, s, x
  <2>4. e.bits \in Seq(Bit) /\ Len(e.bits) <= MaxBits
    BY <1>1, <1>2, <2>3
  <2>5. QED
    BY <1>4, <2>2, <2>4, Zenon
<1>10. QED
  BY <1>5, <1>6, <1>7, <1>8, <1>9 DEF DetectorOK

-----------------------------------------------------------------------------
(* The detector follows the bits of a transmission                         *)

(* The last of eight bits are those up to place m.                         *)
EndsAt(shift, f, m) == \A i \in 1 .. 8 : i + m > 8 => shift[i] = At(f, m - 8 + i)

(* The bits of the frame so far.                                           *)
BitsTo(bits, f, m) == Len(bits) = m - 8 /\ \A i \in 1 .. m - 8 : bits[i] = At(f, 8 + i)

(* A detector that has seen the bits up to place m: they are what it holds *)
(* of the last eight, and of the frame.                                    *)
Followed(d, f, m) ==
  /\ EndsAt(d.shift, f, m)
  /\ m = 8 => d.state = "SYNC"
  /\ m > 8 => d.state = "FRAME" /\ BitsTo(d.bits, f, m)

(* The bits before the first flag are not looked at.                       *)
LEMMA FollowNothing ==
  ASSUME NEW d, NEW f, NEW m \in Int, m <= 0
  PROVE  Followed(d, f, m)
BY DEF Followed, EndsAt

LEMMA ShiftFollows ==
  ASSUME NEW d, DetectorOK(d), NEW f \in Frames, NEW m \in 0 .. After(f) + 7, Followed(d, f, m),
         NEW level, DataBit(d, level) = At(f, m + 1)
  PROVE  EndsAt(Shifted(d, level), f, m + 1)
<1> DEFINE s == Shifted(d, level)
<1>1. (\A i \in 1 .. 7 : s[i] = d.shift[i + 1]) /\ s[8] = At(f, m + 1)
  BY ShiftedIs DEF DetectorOK
<1> HIDE DEF s
<1>2. m \in Nat /\ (m + 1) - 8 + 8 = m + 1
  BY Sizes
<1>3. ASSUME NEW i \in 1 .. 8, i + (m + 1) > 8
      PROVE  s[i] = At(f, (m + 1) - 8 + i)
  <2>1. CASE i = 8
    BY <1>1, <1>2, <2>1
  <2>2. CASE i # 8
    <3>1. i \in 1 .. 7 /\ i + 1 \in 1 .. 8 /\ (i + 1) + m > 8 /\ m - 8 + (i + 1) = (m + 1) - 8 + i
      BY <1>2, <1>3, <2>2
    <3>2. d.shift[i + 1] = At(f, m - 8 + (i + 1))
      BY <3>1 DEF Followed, EndsAt
    <3>3. QED
      BY <1>1, <3>1, <3>2
  <2>3. QED
    BY <2>1, <2>2
<1>4. EndsAt(s, f, m + 1)
  BY <1>3 DEF EndsAt
<1>5. QED
  BY <1>4 DEF s

LEMMA FollowStep ==
  ASSUME FramesFit, NEW d, DetectorOK(d), NEW f \in Frames, NEW m \in 0 .. After(f) + 6,
         Followed(d, f, m), NEW level \in Bit, DataBit(d, level) = At(f, m + 1)
  PROVE  Followed(FeedBit(d, level), f, m + 1)
<1> DEFINE e == FeedBit(d, level)
           s == Shifted(d, level)
           b == DataBit(d, level)
<1>1. EndsAt(s, f, m + 1)
  <2>1. m \in 0 .. After(f) + 7
    BY Sizes
  <2>2. QED
    BY <2>1, ShiftFollows
<1>2. s \in [1 .. 8 -> Bit] /\ b \in Bit /\ b = At(f, m + 1) /\ e.shift = s
  BY ShiftedIs, DataBitTyped DEF DetectorOK, FeedBit
<1>a. After(f) \in Nat /\ After(f) = 8 + Len(Body[f]) /\ Len(Body[f]) \in Nat
  BY Sizes
<1>3. m \in Nat /\ After(f) \in Nat /\ After(f) = 8 + Len(Body[f]) /\ Len(Body[f]) \in Nat
  BY <1>a
<1>e. EndsAt(e.shift, f, m + 1)
  BY <1>1, <1>2
<1> SUFFICES Followed(e, f, m + 1)
  OBVIOUS
<1> HIDE DEF s, e
<1>4. CASE m + 1 < 8
  BY <1>3, <1>4, <1>e DEF Followed
<1>5. CASE m + 1 = 8
  <2>1. \A i \in 1 .. 8 : s[i] = At(f, i)
    BY <1>1, <1>5 DEF EndsAt
  <2>2. \A i \in 1 .. 8 : s[i] = Flag[i]
    BY <2>1, WaveIs
  <2>3. s = Flag
    <3>1. Flag \in [1 .. 8 -> Bit]
      BY DEF Flag, Bit
    <3> HIDE DEF Flag
    <3>2. QED
      BY <1>2, <2>2, <3>1
  <2>4. e.state = "SYNC"
    BY <2>3, AtFlag DEF s, e
  <2>5. QED
    BY <1>5, <1>e, <2>4 DEF Followed
<1>6. CASE m + 1 > 8
  <2>1. PICK j \in (m + 1) - 6 .. (m + 1) - 1 : At(f, j) = 0
    <3>1. m + 1 \in 9 .. After(f) + 7
      BY <1>3, <1>6
    <3>2. QED
      BY <3>1, NoFlagWithin
  <2> DEFINE i == j - (m + 1) + 8
  <2>2. i \in 2 .. 7 /\ i + (m + 1) > 8 /\ (m + 1) - 8 + i = j
    BY <1>3, <1>6
  <2> HIDE DEF i
  <2>3. s[i] = 0
    BY <1>1, <2>1, <2>2 DEF EndsAt
  <2>4. s # Flag
    <3>1. \A k \in 2 .. 7 : Flag[k] = 1
      BY DEF Flag
    <3> HIDE DEF Flag
    <3>2. QED
      BY <2>2, <2>3, <3>1
  <2>5. ~ \A k \in 1 .. 7 : s[k] = 1
    BY <2>2, <2>3
  <2>6. CASE m = 8
    <3>1. d.state = "SYNC"
      BY <2>6 DEF Followed
    <3>2. e.state = "FRAME" /\ e.bits = <<b>>
      BY <2>4, <3>1, InSync DEF s, e
    <3>3. m + 1 = 9 /\ 9 - 8 = 1
      BY <2>6
    <3> HIDE DEF b
    <3>4. Len(e.bits) = 1 /\ e.bits[1] = At(f, 8 + 1)
      BY <1>2, <3>2, <3>3
    <3>5. BitsTo(e.bits, f, m + 1)
      BY <3>3, <3>4 DEF BitsTo
    <3>6. QED
      BY <1>e, <3>2, <3>3, <3>5 DEF Followed
  <2>7. CASE m > 8
    <3>1. d.state = "FRAME" /\ Len(d.bits) = m - 8 /\ \A k \in 1 .. m - 8 : d.bits[k] = At(f, 8 + k)
      BY <2>7 DEF Followed, BitsTo
    <3>2. Len(d.bits) # MaxBits
      <4>1. Len(Body[f]) + 7 <= MaxBits /\ MaxBits \in Nat
        BY ModemAssumption DEF FramesFit
      <4>2. QED
        BY <1>3, <3>1, <4>1
    <3>3. e.state = "FRAME" /\ e.bits = Append(d.bits, b)
      BY <2>4, <2>5, <3>1, <3>2, InFrame DEF s, e, TooMuch
    <3> DEFINE x == d.bits
    <3>4. x \in Seq(Bit) /\ Len(x) = m - 8 /\ (\A k \in 1 .. m - 8 : x[k] = At(f, 8 + k))
          /\ e.bits = Append(x, b)
      BY <3>1, <3>3 DEF DetectorOK
    <3> HIDE DEF b, x
    <3>5. /\ Len(e.bits) = (m - 8) + 1 /\ e.bits[(m - 8) + 1] = b
          /\ \A k \in 1 .. m - 8 : e.bits[k] = x[k]
      BY <1>2, <3>4
    <3>6. (m - 8) + 1 = (m + 1) - 8 /\ 8 + ((m + 1) - 8) = m + 1
      BY <1>3
    <3>7. ASSUME NEW k \in 1 .. (m + 1) - 8
          PROVE  e.bits[k] = At(f, 8 + k)
      <4>1. CASE k = (m + 1) - 8
        BY <1>2, <3>5, <3>6, <4>1
      <4>2. CASE k # (m + 1) - 8
        <5>1. k \in 1 .. m - 8
          BY <1>3, <4>2
        <5>2. QED
          BY <3>4, <3>5, <5>1
      <4>3. QED
        BY <4>1, <4>2
    <3>8. m + 1 # 8
      BY <2>7, <1>3
    <3>9. BitsTo(e.bits, f, m + 1)
      BY <3>5, <3>6, <3>7 DEF BitsTo
    <3>10. QED
      BY <1>e, <3>3, <3>8, <3>9 DEF Followed
  <2>8. QED
    BY <1>3, <1>6, <2>6, <2>7
<1>7. QED
  BY <1>3, <1>4, <1>5, <1>6

(* The last bit of the closing flag.                                       *)
LEMMA FollowFound ==
  ASSUME NEW d, DetectorOK(d), NEW f \in Frames, Followed(d, f, After(f) + 7), NEW level,
         DataBit(d, level) = At(f, After(f) + 8)
  PROVE  Found(d, level) = <<FixSsid(f)>>
<1> DEFINE s == Shifted(d, level)
           a == After(f)
           x == d.bits
           l == Len(Body[f])
<1>1. a \in Nat /\ a = 8 + l /\ l \in Nat /\ (a + 7) + 1 = a + 8 /\ a + 7 \in 0 .. a + 7
  <2>1. a \in Nat /\ a = 8 + l /\ l \in Nat
    BY Sizes
  <2> HIDE DEF a, l
  <2>2. QED
    BY <2>1
<1>2. \A i \in 1 .. 8 : s[i] = At(f, a + i)
  <2>1. EndsAt(s, f, (a + 7) + 1)
    BY <1>1, ShiftFollows
  <2> HIDE DEF a, s
  <2>2. \A i \in 1 .. 8 : i + ((a + 7) + 1) > 8 /\ ((a + 7) + 1) - 8 + i = a + i
    BY <1>1
  <2>3. QED
    BY <2>1, <2>2 DEF EndsAt
<1>3. s = Flag
  <2>1. Flag \in [1 .. 8 -> Bit] /\ s \in [1 .. 8 -> Bit]
    BY ShiftedIs DEF Flag, Bit, DetectorOK
  <2>2. \A i \in 1 .. 8 : s[i] = Flag[i]
    BY <1>2, WaveIs
  <2> HIDE DEF s, Flag
  <2>3. QED
    BY <2>1, <2>2
<1>4. /\ d.state = "FRAME" /\ x \in Seq(Bit) /\ Len(x) = l + 7
      /\ \A i \in 1 .. l : x[i] = Body[f][i]
  <2>1. a + 7 > 8 /\ (a + 7) - 8 = l + 7 /\ \A i \in 1 .. l : i \in 1 .. l + 7
    BY <1>1
  <2>2. d.state = "FRAME" /\ Len(x) = l + 7 /\ \A i \in 1 .. l + 7 : x[i] = At(f, 8 + i)
    BY <2>1 DEF Followed, BitsTo
  <2>3. \A i \in 1 .. l : At(f, 8 + i) = Body[f][i]
    BY WaveIs
  <2>4. x \in Seq(Bit)
    BY DEF DetectorOK
  <2> HIDE DEF x, l
  <2>5. QED
    BY <2>1, <2>2, <2>3, <2>4
<1>5. Trimmed(d) = Body[f]
  <2>1. Trimmed(d) = SubSeq(x, 1, Len(x) - 7)
    BY <1>1, <1>4 DEF Trimmed
  <2>2. Len(x) - 7 = l /\ l <= Len(x)
    BY <1>1, <1>4
  <2>3. Body[f] \in Seq(Bit)
    BY BodyIs
  <2> DEFINE y == SubSeq(x, 1, l)
  <2>4. y \in Seq(Bit) /\ Len(y) = l /\ \A i \in 1 .. l : y[i] = x[i]
    <3> HIDE DEF x, l
    <3>1. QED
      BY <1>1, <1>4, <2>2
  <2> HIDE DEF x, y
  <2>5. y = Body[f]
    BY <1>4, <2>3, <2>4, SeqEqual
  <2>6. QED
    BY <2>1, <2>2, <2>5 DEF y
<1>6. BitDestuff(Trimmed(d)) = Data(f)
  BY <1>5, BodyIs
<1>7. /\ Accepts(Data(f))
      /\ Octets(SubSeq(Data(f), 1, 8 * (Len(Data(f)) \div 8 - 2))) = FixSsid(f)
  BY DataAccepted
<1>8. Shifted(d, level) = Flag /\ d.state = "FRAME"
  BY <1>3, <1>4
<1> DEFINE bits == BitDestuff(Trimmed(d))
<1>9. Found(d, level) = <<Octets(SubSeq(bits, 1, 8 * (Len(bits) \div 8 - 2)))>>
  BY <1>6, <1>7, <1>8 DEF Found
<1>10. QED
  BY <1>6, <1>7, <1>9

-----------------------------------------------------------------------------
(* Types                                                                   *)

Reports == Seq(Seq(Octet255))
Destuffers == [out : Seq(Bit), ones : 0 .. 5]

LEMMA DestuffTyped ==
  ASSUME NEW s \in Destuffers, NEW b \in Bit
  PROVE  Destuff(s, b) \in Destuffers
<1>1. s.out \in Seq(Bit) /\ s.ones \in 0 .. 5 /\ s = [out |-> s.out, ones |-> s.ones]
  BY DEF Destuffers
<1>2. CASE s.ones = 5
  <2>1. Destuff(s, b) = [s EXCEPT !.ones = 0]
    BY <1>2 DEF Destuff
  <2>2. QED
    BY <2>1 DEF Destuffers
<1>3. CASE s.ones # 5
  <2>1. Append(s.out, b) \in Seq(Bit)
    BY <1>1
  <2>2. (IF b = 1 THEN s.ones + 1 ELSE 0) \in 0 .. 5
    BY <1>1, <1>3
  <2>3. Destuff(s, b) = [out |-> Append(s.out, b), ones |-> IF b = 1 THEN s.ones + 1 ELSE 0]
    BY <1>3 DEF Destuff
  <2> DEFINE o == Append(s.out, b)
             n == IF b = 1 THEN s.ones + 1 ELSE 0
  <2> HIDE DEF o, n
  <2>4. Destuff(s, b) = [out |-> o, ones |-> n] /\ o \in Seq(Bit) /\ n \in 0 .. 5
    BY <2>1, <2>2, <2>3 DEF o, n
  <2>5. QED
    BY <2>4 DEF Destuffers
<1>4. QED
  BY <1>2, <1>3

LEMMA DestuffedTyped ==
  ASSUME NEW bits \in Seq(Bit)
  PROVE  BitDestuff(bits) \in Seq(Bit)
<1> DEFINE S == {t \in Seq(Bit) : FoldOf("out", NoBits, t) \in Destuffers}
<1>1. << >> \in S
  <2>1. FoldOf("out", NoBits, << >>) = NoBits
    BY FoldNothing DEF Ways
  <2>2. NoBits \in Destuffers
    BY DEF Destuffers, NoBits
  <2>3. QED
    BY <2>1, <2>2
<1>2. ASSUME NEW t \in S, NEW b \in Bit
      PROVE  Append(t, b) \in S
  <2>1. t \in Seq(Bit) /\ Append(t, b) \in Seq(Bit) /\ FoldOf("out", NoBits, t) \in Destuffers
    OBVIOUS
  <2>2. FoldOf("out", NoBits, Append(t, b)) = Destuff(FoldOf("out", NoBits, t), b)
    BY <2>1, FoldMore DEF Step, Ways
  <2>3. QED
    BY <2>1, <2>2, DestuffTyped
<1> HIDE DEF S
<1>3. S = Seq(Bit)
  <2>1. S \in SUBSET Seq(Bit)
    BY DEF S
  <2>2. QED
    BY <1>1, <1>2, <2>1, AllSequences
<1>4. FoldOf("out", NoBits, bits) \in Destuffers
  BY <1>3 DEF S
<1>5. BitDestuff(bits) = FoldOf("out", NoBits, bits).out
  BY DEF BitDestuff, FoldOf
<1>6. QED
  BY <1>4, <1>5 DEF Destuffers

LEMMA FoundTyped ==
  ASSUME NEW d, DetectorOK(d), NEW level
  PROVE  Found(d, level) \in Reports
<1> DEFINE x == d.bits
           bits == BitDestuff(Trimmed(d))
           k == 8 * (Len(bits) \div 8 - 2)
           o == Octets(SubSeq(bits, 1, k))
<1>1. x \in Seq(Bit)
  BY DEF DetectorOK
<1>2. Trimmed(d) \in Seq(Bit)
  <2>1. CASE Len(x) >= 7
    <3>1. Trimmed(d) = SubSeq(x, 1, Len(x) - 7)
      BY <2>1 DEF Trimmed
    <3>2. Len(x) \in Nat /\ Len(x) - 7 \in Nat /\ 1 <= Len(x) - 7 + 1 /\ Len(x) - 7 <= Len(x)
      BY <1>1, <2>1
    <3> HIDE DEF x
    <3>3. SubSeq(x, 1, Len(x) - 7) \in Seq(Bit)
      BY <1>1, <3>2
    <3>4. QED
      BY <3>1, <3>3
  <2>2. CASE ~ (Len(x) >= 7)
    BY <1>1, <2>2 DEF Trimmed
  <2>3. QED
    BY <2>1, <2>2
<1>3. bits \in Seq(Bit)
  BY <1>2, DestuffedTyped
<1>4. CASE d.state = "FRAME" /\ Shifted(d, level) = Flag /\ Accepts(bits)
  <2>1. Found(d, level) = <<o>>
    BY <1>4 DEF Found
  <2>2. Len(bits) \div 8 - 2 >= MinOctets /\ MinOctets \in Nat
    BY <1>4, ModemAssumption DEF Accepts
  <2> HIDE DEF bits
  <2>3. Len(bits) \in Nat /\ k \in Nat /\ k <= Len(bits) /\ 1 <= k + 1
    BY <1>3, <2>2
  <2> HIDE DEF k
  <2>4. SubSeq(bits, 1, k) \in Seq(Bit)
    BY <1>3, <2>3, PartIs
  <2>5. o \in Seq(Octet255)
    BY <2>4, OctetsTyped
  <2> HIDE DEF o
  <2>6. <<o>> \in Seq(Seq(Octet255))
    BY <2>5
  <2>7. QED
    BY <2>1, <2>6 DEF Reports
<1>5. CASE ~ (d.state = "FRAME" /\ Shifted(d, level) = Flag /\ Accepts(bits))
  <2>1. Found(d, level) = << >>
    BY <1>5 DEF Found
  <2>2. QED
    BY <2>1 DEF Reports
<1>6. QED
  BY <1>4, <1>5

ChannelOK ==
  /\ sense \in Bit /\ air \in Seq(Bit) /\ phase \in 0 .. (SPB - 1)
  /\ frame \in Frames \cup {<< >>} /\ clean \in BOOLEAN
  /\ sent \in 0 .. MaxSent /\ faults \in 0 .. MaxFaults

ReceiverOK == \A p \in Polarities : DetectorOK(det[p]) /\ heard[p] \in Reports

LEMMA TypesAre == TypeOK <=> ChannelOK /\ ReceiverOK
BY DEF TypeOK, ChannelOK, ReceiverOK, DetectorOK, Reports, Octet255

LEMMA TypesWillBe == TypeOK' <=> ChannelOK' /\ ReceiverOK'
BY DEF TypeOK, ChannelOK, ReceiverOK, DetectorOK, Reports, Octet255

LEMMA CorrelateTyped == Correlate \in Bit /\ 1 - Correlate \in Bit
<1>1. Correlate \in Bit
  BY DEF Correlate, Bit
<1>2. QED
  BY <1>1 DEF Bit

LEMMA SeenTyped == \A p : \A level \in Bit : Seen(p, level) \in Bit
BY DEF Seen, Bit

LEMMA InitTypes == Init => TypeOK
<1> SUFFICES ASSUME Init PROVE TypeOK
  OBVIOUS
<1>1. ChannelOK
  <2>1. 0 \in 0 .. (SPB - 1) /\ 0 \in 0 .. MaxSent /\ 0 \in 0 .. MaxFaults
    BY ModemAssumption
  <2>2. << >> \in Seq(Bit)
    OBVIOUS
  <2>3. QED
    BY <2>1, <2>2 DEF Init, ChannelOK, Bit
<1>2. DetectorOK(Detector)
  <2>1. <<0, 0, 0, 0, 0, 0, 0, 0>> \in [1 .. 8 -> Bit]
    BY DEF Bit
  <2>2. << >> \in Seq(Bit) /\ Len(<< >>) = 0
    OBVIOUS
  <2>3. /\ Detector.state = "HUNT" /\ Detector.prev = 0 /\ Detector.bits = << >>
        /\ Detector.shift = <<0, 0, 0, 0, 0, 0, 0, 0>>
    BY DEF Detector
  <2> DEFINE z == <<0, 0, 0, 0, 0, 0, 0, 0>>
  <2> HIDE DEF z
  <2>4. Detector.shift = z /\ z \in [1 .. 8 -> Bit] /\ 0 \in Bit
    BY <2>1, <2>3 DEF z, Bit
  <2>5. QED
    BY <2>2, <2>3, <2>4 DEF DetectorOK
<1>3. << >> \in Reports
  BY DEF Reports
<1>4. ReceiverOK
  BY <1>2, <1>3 DEF Init, ReceiverOK
<1>5. QED
  BY <1>1, <1>4, TypesAre

LEMMA WindowTypes ==
  ASSUME TypeOK, air # << >>, NEW level \in Bit, Window(level), faults' \in 0 .. MaxFaults,
         clean' \in BOOLEAN
  PROVE  TypeOK'
<1>1. ChannelOK /\ ReceiverOK
  BY TypesAre
<1>2. ChannelOK'
  <2>1. Tail(air) \in Seq(Bit)
    BY <1>1 DEF ChannelOK
  <2>2. 0 \in 0 .. (SPB - 1)
    BY ModemAssumption
  <2>3. phase' \in 0 .. (SPB - 1)
    BY <1>1, <2>2 DEF Window, ChannelOK
  <2>4. QED
    BY <1>1, <2>1, <2>3 DEF Window, ChannelOK
<1>3. ASSUME NEW p \in Polarities
      PROVE  DetectorOK(det'[p]) /\ heard'[p] \in Reports
  <2> DEFINE d == det[p]
             v == Seen(p, level)
  <2>1. DetectorOK(d) /\ v \in Bit /\ heard[p] \in Reports
    BY <1>1, SeenTyped DEF ReceiverOK
  <2>2. det'[p] = FeedBit(d, v) /\ heard'[p] = heard[p] \o Found(d, v)
    BY DEF Window
  <2> HIDE DEF d, v
  <2>3. DetectorOK(FeedBit(d, v)) /\ Found(d, v) \in Reports
    BY <2>1, FeedTyped, FoundTyped
  <2>4. heard[p] \o Found(d, v) \in Reports
    BY <2>1, <2>3 DEF Reports
  <2>5. QED
    BY <2>2, <2>3, <2>4
<1>4. ReceiverOK'
  BY <1>3 DEF ReceiverOK
<1>5. QED
  BY <1>2, <1>4, TypesWillBe

LEMMA TransmitTypes ==
  ASSUME TypeOK, NEW f \in Frames, Transmit(f)
  PROVE  TypeOK'
<1>1. ChannelOK /\ ReceiverOK
  BY TypesAre
<1>2. air' \in Seq(Bit)
  BY WaveIs, LevelsTyped DEF Transmit
<1>3. sent' \in 0 .. MaxSent
  BY <1>1, ModemAssumption DEF Transmit, ChannelOK
<1>4. ChannelOK'
  BY <1>1, <1>2, <1>3 DEF Transmit, ChannelOK
<1>5. << >> \in Reports
  BY DEF Reports
<1>6. ReceiverOK'
  BY <1>1, <1>5 DEF Transmit, ReceiverOK
<1>7. QED
  BY <1>4, <1>6, TypesWillBe

LEMMA HissTypes ==
  ASSUME TypeOK, NEW levels \in Noises, Hiss(levels)
  PROVE  TypeOK'
<1>1. ChannelOK /\ ReceiverOK
  BY TypesAre
<1>2. air' \in Seq(Bit)
  BY ModemAssumption DEF Hiss, Bit
<1>3. sent' \in 0 .. MaxSent /\ phase' \in 0 .. (SPB - 1)
  BY <1>1, ModemAssumption DEF Hiss, ChannelOK
<1>4. ChannelOK'
  BY <1>1, <1>2, <1>3 DEF Hiss, ChannelOK
<1>5. << >> \in Reports
  BY DEF Reports
<1>6. ReceiverOK'
  BY <1>1, <1>5 DEF Hiss, ReceiverOK
<1>7. QED
  BY <1>4, <1>6, TypesWillBe

LEMMA ShortChunkTypes ==
  ASSUME TypeOK, NEW n \in 1 .. (SPB - 1), ShortChunk(n)
  PROVE  TypeOK'
<1>1. ChannelOK /\ ReceiverOK
  BY TypesAre
<1>2. Tail(air) \in Seq(Bit) /\ air \in Seq(Bit)
  BY <1>1 DEF ShortChunk, ChannelOK
<1>3. phase' \in 0 .. (SPB - 1) /\ faults' \in 0 .. MaxFaults
  BY <1>1, ModemAssumption DEF ShortChunk, ChannelOK
<1>4. air' \in Seq(Bit) /\ clean' \in BOOLEAN
  BY <1>1, <1>2 DEF ShortChunk, ChannelOK
<1>5. ChannelOK'
  BY <1>1, <1>3, <1>4 DEF ShortChunk, ChannelOK
<1>6. ReceiverOK'
  BY <1>1 DEF ShortChunk, ReceiverOK
<1>7. QED
  BY <1>5, <1>6, TypesWillBe

LEMMA NextTypes == TypeOK /\ [Next]_vars => TypeOK'
<1> SUFFICES ASSUME TypeOK, [Next]_vars PROVE TypeOK'
  OBVIOUS
<1>1. ChannelOK
  BY TypesAre
<1>2. CASE Listen
  <2>1. faults' \in 0 .. MaxFaults /\ clean' \in BOOLEAN
    BY <1>1, <1>2 DEF Listen, ChannelOK
  <2>2. QED
    BY <1>2, <2>1, CorrelateTyped, WindowTypes DEF Listen
<1>3. CASE Disturbed
  <2>1. faults' \in 0 .. MaxFaults /\ clean' \in BOOLEAN
    BY <1>1, <1>3, ModemAssumption DEF Disturbed, ChannelOK
  <2>2. QED
    BY <1>3, <2>1, CorrelateTyped, WindowTypes DEF Disturbed
<1>4. CASE UNCHANGED vars
  BY <1>4 DEF vars, TypeOK
<1>5. QED
  BY <1>2, <1>3, <1>4, TransmitTypes, HissTypes, ShortChunkTypes DEF Next

(* Every variable keeps its type, and no detector keeps more bits than     *)
(* AFSK_DEMOD_MAX_FRAME_BITS, whatever is sent, lost or disturbed.         *)
THEOREM ModemTypes == Spec => []TypeOK
<1>1. QED
  BY InitTypes, NextTypes, PTL DEF Spec

-----------------------------------------------------------------------------
(* A frame comes through                                                   *)

Wave(f) == NrziEncode(FrameToBitstream(f))

(* Levels to come where what is vital begins, and where it ends.           *)
Opening(f) == After(f) + 8 * Closing + 2
Ending == 8 * (Closing - 1) + 1

(* Which of the next two levels is heard.                                  *)
Offset == IF 2 * phase > SPB THEN 1 ELSE 0

(* The place of the last bit that was heard.                               *)
Place == After(frame) + 8 * Closing - Len(air) + Offset

(* The air holds the end of what is sent.                                  *)
OnAir ==
  frame \in Frames =>
    /\ Len(air) <= Total(frame)
    /\ \A i \in 1 .. Len(air) : air[i] = Wave(frame)[Total(frame) - Len(air) + i]

Reported(p) == FixSsid(frame) \in ToSet(heard[p])

(* A detector has the last level and the bits so far, or has reported them. *)
Tracks(p, m) ==
  /\ det[p].prev = Seen(p, Tone(Wave(frame)[Before + m]))
  /\ m <= After(frame) + 7 => Followed(det[p], frame, m)
  /\ m >= After(frame) + 8 => Reported(p)

Tracking ==
  clean /\ Len(air) >= Ending /\ Len(air) < Opening(frame) =>
    ~ Straddles /\ \A p \in Polarities : Tracks(p, Place)

Done == clean /\ Len(air) < Ending => \A p \in Polarities : Reported(p)

ModemInv ==
  /\ TypeOK
  /\ clean => frame \in Frames
  /\ OnAir /\ Tracking /\ Done

LEMMA InSeq ==
  ASSUME NEW X, NEW s \in Seq(X), NEW x
  PROVE  x \in ToSet(s) <=> \E i \in 1 .. Len(s) : s[i] = x
<1>1. DOMAIN s = 1 .. Len(s)
  OBVIOUS
<1>2. QED
  BY <1>1 DEF ToSet

LEMMA InJoin ==
  ASSUME NEW X, NEW s \in Seq(X), NEW t \in Seq(X), NEW x, x \in ToSet(s) \/ x \in ToSet(t)
  PROVE  x \in ToSet(s \o t)
<1> DEFINE u == s \o t
<1>1. u \in Seq(X) /\ Joins(u, s, t)
  BY JoinIs, Zenon
<1> HIDE DEF u
<1>2. Len(s) \in Nat /\ Len(t) \in Nat
  OBVIOUS
<1>3. CASE x \in ToSet(s)
  <2>1. PICK i \in 1 .. Len(s) : s[i] = x
    BY <1>3, InSeq
  <2>2. i \in 1 .. Len(u) /\ u[i] = x
    BY <1>1, <1>2, <2>1 DEF Joins
  <2>3. QED
    BY <1>1, <2>2, InSeq DEF u
<1>4. CASE x \in ToSet(t)
  <2>1. PICK i \in 1 .. Len(t) : t[i] = x
    BY <1>4, InSeq
  <2>2. Len(s) + i \in 1 .. Len(u) /\ u[Len(s) + i] = x
    BY <1>1, <1>2, <2>1 DEF Joins
  <2>3. QED
    BY <1>1, <2>2, InSeq DEF u
<1>5. QED
  BY <1>3, <1>4

LEMMA InOne == \A x : x \in ToSet(<<x>>)
<1> TAKE x
<1>1. DOMAIN <<x>> = {1} /\ <<x>>[1] = x
  OBVIOUS
<1>2. QED
  BY <1>1 DEF ToSet

(* A window that straddles no two levels gives one of them.                *)
LEMMA LevelHeard ==
  ASSUME TypeOK, air # << >>, ~ Straddles, Offset = 0 \/ Len(air) >= 2
  PROVE  Correlate = Tone(air[1 + Offset])
<1>1. /\ phase \in Nat /\ phase < SPB /\ SPB \in Nat \ {0}
      /\ air \in Seq(Bit) /\ Len(air) \in Nat /\ Len(air) >= 1
  BY ModemAssumption DEF TypeOK
<1> DEFINE t == Tone(air[1])
           u == IF Len(air) = 1 THEN 0 ELSE Tone(air[2])
<1>2. t \in {0, 1} /\ u \in {0, 1}
  <2>1. air[1] \in Bit
    BY <1>1
  <2>2. ASSUME Len(air) # 1 PROVE air[2] \in Bit
    <3> DEFINE n == Len(air)
    <3>a. n \in Nat /\ n >= 1 /\ n # 1
      BY <1>1, <2>2
    <3> HIDE DEF n
    <3>b. 2 \in 1 .. n
      BY <3>a
    <3>1. 2 \in 1 .. Len(air)
      BY <3>b DEF n
    <3>2. \A i \in 1 .. Len(air) : air[i] \in Bit
      BY <1>1
    <3>3. QED
      BY <3>1, <3>2
  <2>3. QED
    BY <2>1, <2>2 DEF Tone, Bit
<1> DEFINE mark == (SPB - phase) * t + phase * u
<1>3. Correlate = IF 2 * mark >= SPB THEN 1 ELSE 0
  BY DEF Correlate
<1>4. Offset = 1 => u = Tone(air[2])
  BY <1>1
<1> HIDE DEF t, u
<1>5. mark = (IF t = 1 THEN SPB - phase ELSE 0) + (IF u = 1 THEN phase ELSE 0)
  <2>1. CASE t = 0 /\ u = 0
    BY <1>1, <2>1
  <2>2. CASE t = 1 /\ u = 0
    BY <1>1, <2>2
  <2>3. CASE t = 0 /\ u = 1
    BY <1>1, <2>3
  <2>4. CASE t = 1 /\ u = 1
    BY <1>1, <2>4
  <2>5. QED
    BY <1>2, <2>1, <2>2, <2>3, <2>4
<1> HIDE DEF mark
<1>6. 2 * phase # SPB
  BY DEF Straddles
<1>7. CASE 2 * phase < SPB
  <2>1. Offset = 0
    BY <1>1, <1>7 DEF Offset
  <2>2. Correlate = t
    BY <1>1, <1>2, <1>3, <1>5, <1>7
  <2>3. QED
    BY <2>1, <2>2 DEF t
<1>8. CASE 2 * phase > SPB
  <2>1. Offset = 1
    BY <1>8 DEF Offset
  <2>2. Correlate = u
    BY <1>1, <1>2, <1>3, <1>5, <1>8
  <2>3. QED
    BY <1>4, <2>1, <2>2
<1>9. QED
  BY <1>1, <1>6, <1>7, <1>8

LEMMA Turned ==
  ASSUME TypeOK, NEW p \in Polarities, NEW x \in Bit, NEW y \in Bit
  PROVE  /\ Tone(x) \in Bit /\ Seen(p, Tone(x)) \in Bit
         /\ Seen(p, Tone(x)) = Seen(p, Tone(y)) <=> x = y
BY DEF TypeOK, Tone, Seen, Bit, Polarities

(* The bit that a detector takes from two levels of a transmission.        *)
LEMMA BitHeard ==
  ASSUME TypeOK, NEW p \in Polarities, NEW f \in Frames, NEW m \in 0 .. After(f) + 7, Preamble > 1,
         NEW d, d.prev = Seen(p, Tone(Wave(f)[Before + m]))
  PROVE  DataBit(d, Seen(p, Tone(Wave(f)[Before + (m + 1)]))) = At(f, m + 1)
<1> DEFINE w == FrameToBitstream(f)
           i == Before + m
           x == Wave(f)[i]
           y == Wave(f)[i + 1]
<1>1. w \in Seq(Bit) /\ Len(w) = Total(f) /\ Wave(f) = NrziEncode(w)
  BY WaveIs DEF Wave
<1>2. i \in 1 .. Len(w) - 1 /\ i + 1 = Before + (m + 1) /\ i \in 1 .. Len(w) /\ i + 1 \in 1 .. Len(w)
  <2> DEFINE C == 8 * Closing
  <2>1. Before \in Nat /\ After(f) \in Nat /\ C >= 8 /\ C \in Nat /\ Total(f) = Before + After(f) + C
    BY Sizes
  <2>2. Before >= 1
    BY Sizes
  <2> HIDE DEF C, w
  <2>3. QED
    BY <1>1, <2>1, <2>2
<1> HIDE DEF w, i
<1>3. w[i + 1] = (IF NrziEncode(w)[i + 1] = NrziEncode(w)[i] THEN 1 ELSE 0)
  BY <1>1, <1>2, LevelStays
<1>4. NrziEncode(w) \in Seq(Bit) /\ Len(NrziEncode(w)) = Len(w)
  BY <1>1, LevelsTyped
<1>5. x \in Bit /\ y \in Bit
  BY <1>1, <1>2, <1>4
<1>6. w[i + 1] = IF y = x THEN 1 ELSE 0
  BY <1>1, <1>3
<1>7. d.prev = Seen(p, Tone(x))
  BY DEF i
<1> HIDE DEF x, y
<1>8. DataBit(d, Seen(p, Tone(y))) = w[i + 1]
  BY <1>5, <1>6, <1>7, Turned DEF DataBit
<1>9. At(f, m + 1) = w[i + 1]
  BY <1>2 DEF At, w
<1>10. Wave(f)[Before + (m + 1)] = y
  BY <1>2 DEF y
<1>11. QED
  BY <1>8, <1>9, <1>10


(* One more level: the bits are followed up to the last, which reports the *)
(* frame.                                                                  *)
LEMMA TrackMore ==
  ASSUME TypeOK, FramesFit, NEW p \in Polarities, NEW f \in Frames, NEW m \in -1 .. After(f) + 7,
         Preamble > 1, NEW d, DetectorOK(d), d.prev = Seen(p, Tone(Wave(f)[Before + m])),
         Followed(d, f, m), NEW level, level = Seen(p, Tone(Wave(f)[Before + (m + 1)])),
         level \in Bit
  PROVE  /\ m + 1 <= After(f) + 7 => Followed(FeedBit(d, level), f, m + 1)
         /\ m + 1 >= After(f) + 8 => Found(d, level) = <<FixSsid(f)>>
<1>1. After(f) \in Nat
  BY Sizes
<1>2. CASE m = -1
  <2>1. Followed(FeedBit(d, level), f, 0)
    BY FollowNothing
  <2>2. m + 1 = 0 /\ ~ (m + 1 >= After(f) + 8)
    BY <1>1, <1>2
  <2>3. QED
    BY <2>1, <2>2
<1>3. CASE m \in 0 .. After(f) + 7
  <2>1. DataBit(d, level) = At(f, m + 1)
    BY <1>3, BitHeard
  <2>2. CASE m <= After(f) + 6
    <3>1. m \in 0 .. After(f) + 6 /\ ~ (m + 1 >= After(f) + 8)
      BY <1>1, <1>3, <2>2
    <3>2. Followed(FeedBit(d, level), f, m + 1)
      BY <2>1, <3>1, FollowStep
    <3>3. QED
      BY <3>1, <3>2
  <2>3. CASE m = After(f) + 7
    <3>1. m + 1 = After(f) + 8 /\ ~ (m + 1 <= After(f) + 7)
      BY <1>1, <2>3
    <3>2. Found(d, level) = <<FixSsid(f)>>
      BY <2>1, <2>3, <3>1, FollowFound
    <3>3. QED
      BY <3>1, <3>2
  <2>4. QED
    BY <1>1, <1>3, <2>2, <2>3
<1>4. QED
  BY <1>1, <1>2, <1>3

LEMMA SizesMore ==
  ASSUME NEW f \in Frames
  PROVE  /\ Opening(f) = After(f) + 8 * Closing + 2 /\ Opening(f) \in Nat
         /\ Ending = 8 * Closing - 7 /\ Ending \in Nat
<1> DEFINE C == 8 * Closing
<1>1. C \in Nat /\ C >= 8 /\ After(f) \in Nat
  BY Sizes
<1>2. Opening(f) = After(f) + C + 2
  BY DEF Opening
<1>3. Ending = C - 7
  BY Sizes DEF Ending
<1> HIDE DEF C
<1>4. C - 7 \in Nat /\ After(f) + C + 2 \in Nat
  BY <1>1
<1>5. QED
  BY <1>2, <1>3, <1>4 DEF C

LEMMA InitInv == Init => ModemInv
<1> SUFFICES ASSUME Init PROVE ModemInv
  OBVIOUS
<1>1. TypeOK /\ clean = FALSE /\ frame = << >>
  BY InitTypes DEF Init
<1>2. frame \notin Frames
  <2>1. \A f \in Frames : Len(f) >= 1
    BY ModemAssumption
  <2>2. Len(<< >>) = 0
    OBVIOUS
  <2>3. QED
    BY <1>1, <2>1, <2>2
<1>3. QED
  BY <1>1, <1>2 DEF ModemInv, OnAir, Tracking, Done

LEMMA TransmitInv ==
  ASSUME ModemInv, NEW f \in Frames, Transmit(f)
  PROVE  ModemInv'
<1>1. TypeOK'
  BY TransmitTypes DEF ModemInv
<1>2. frame' = f /\ clean' = TRUE /\ air' = Wave(f) /\ Len(air') = Total(f) /\ Total(f) \in Nat
  BY WaveIs, LevelsTyped, Sizes DEF Transmit, Wave
<1> DEFINE T == Total(f)
<1>3. T - T = 0 /\ \A i \in 1 .. T : 0 + i = i
  BY <1>2
<1>4. OnAir'
  <2>1. \A i \in 1 .. T : air'[i] = Wave(f)[T - T + i]
    BY <1>2, <1>3
  <2>2. Len(air') = T /\ T <= T
    BY <1>2
  <2> HIDE DEF T
  <2>3. /\ Len(air') <= T
        /\ \A i \in 1 .. Len(air') : air'[i] = Wave(f)[T - Len(air') + i]
    BY <2>1, <2>2
  <2>4. QED
    BY <1>2, <2>3 DEF OnAir, T
<1>5. Len(air') >= Opening(f) /\ Len(air') >= Ending
  <2> DEFINE C == 8 * Closing
             a == After(f)
  <2>1. Before >= 8 /\ Before \in Nat
    BY Sizes, ModemAssumption
  <2>2. T = Before + a + C /\ C \in Nat /\ a \in Nat
    BY Sizes
  <2>3. Opening(f) = a + C + 2 /\ Ending = C - 7
    BY SizesMore
  <2> HIDE DEF C, a, T
  <2>5. T >= Opening(f) /\ T >= Ending
    BY <2>1, <2>2, <2>3
  <2>6. QED
    BY <1>2, <2>5 DEF T
<1>6. ~ (Len(air') < Opening(f)) /\ ~ (Len(air') < Ending)
  <2>1. Opening(f) \in Nat /\ Ending \in Nat
    BY SizesMore
  <2> DEFINE n == Len(air')
  <2>2. n \in Nat
    BY <1>2
  <2> HIDE DEF n
  <2>3. ~ (n < Opening(f)) /\ ~ (n < Ending)
    BY <1>5, <2>1, <2>2 DEF n
  <2>4. QED
    BY <2>3 DEF n
<1>7. Tracking' /\ Done'
  BY <1>2, <1>6 DEF Tracking, Done, Opening, Ending, After
<1>8. QED
  BY <1>1, <1>2, <1>4, <1>7 DEF ModemInv

LEMMA HissInv ==
  ASSUME ModemInv, NEW levels \in Noises, Hiss(levels)
  PROVE  ModemInv'
<1>1. TypeOK'
  BY HissTypes DEF ModemInv
<1>2. clean' = FALSE /\ frame' = << >>
  BY DEF Hiss
<1>3. frame' \notin Frames
  <2>1. \A f \in Frames : Len(f) >= 1
    BY ModemAssumption
  <2>2. Len(<< >>) = 0
    OBVIOUS
  <2>3. QED
    BY <1>2, <2>1, <2>2
<1>4. QED
  BY <1>1, <1>2, <1>3 DEF ModemInv, OnAir, Tracking, Done

(* What is left of the air is still the end of what is sent.               *)
LEMMA OnAirTail ==
  ASSUME ModemInv, air # << >>, air' = Tail(air), UNCHANGED frame
  PROVE  OnAir' /\ Len(air') = Len(air) - 1 /\ Len(air) \in Nat \ {0}
<1>1. air \in Seq(Bit)
  BY DEF ModemInv, TypeOK
<1> DEFINE n == Len(air)
           s == Tail(air)
<1>2. n \in Nat \ {0} /\ Len(s) = n - 1 /\ \A i \in 1 .. n - 1 : s[i] = air[i + 1]
  BY <1>1
<1> HIDE DEF s
<1>3. ASSUME frame \in Frames
      PROVE  /\ Len(s) <= Total(frame)
             /\ \A i \in 1 .. Len(s) : s[i] = Wave(frame)[Total(frame) - Len(s) + i]
  <2> DEFINE T == Total(frame)
  <2>1. T \in Nat
    BY <1>3, Sizes
  <2>2. n <= T /\ \A i \in 1 .. n : air[i] = Wave(frame)[T - n + i]
    BY <1>3 DEF ModemInv, OnAir
  <2> HIDE DEF T, n
  <2>3. ASSUME NEW i \in 1 .. Len(s)
        PROVE  s[i] = Wave(frame)[T - Len(s) + i]
    <3>1. i \in 1 .. n - 1 /\ i + 1 \in 1 .. n /\ T - n + (i + 1) = T - Len(s) + i
      BY <1>2, <2>1
    <3>2. s[i] = air[i + 1] /\ air[i + 1] = Wave(frame)[T - n + (i + 1)]
      BY <1>2, <2>2, <3>1
    <3>3. QED
      BY <3>1, <3>2
  <2>4. Len(s) <= T
    BY <1>2, <2>1, <2>2
  <2>5. QED
    BY <2>3, <2>4 DEF T
<1>4. air' = s /\ frame' = frame
  BY DEF s
<1>5. OnAir'
  BY <1>3, <1>4 DEF OnAir, Total, After, Before, Wave
<1>6. QED
  BY <1>2, <1>4, <1>5 DEF n


(* What was reported stays so.                                             *)
LEMMA ReportedStays ==
  ASSUME TypeOK, NEW p \in Polarities, NEW level, Window(level), Reported(p)
  PROVE  Reported(p)'
<1> DEFINE h == heard[p]
           t == Found(det[p], Seen(p, level))
<1>1. h \in Reports /\ t \in Reports
  BY TypesAre, FoundTyped DEF ReceiverOK
<1>2. heard'[p] = h \o t /\ frame' = frame
  BY DEF Window
<1>3. FixSsid(frame) \in ToSet(h)
  BY DEF Reported
<1> HIDE DEF h, t
<1>4. FixSsid(frame) \in ToSet(h \o t)
  BY <1>1, <1>3, InJoin DEF Reports
<1>5. QED
  BY <1>2, <1>4 DEF Reported

(* Outside what is vital a step changes nothing that matters.              *)
LEMMA NotVital ==
  ASSUME ModemInv, TypeOK', OnAir', UNCHANGED frame, clean' => clean /\ ~ Vital,
         Len(air') \in {Len(air), Len(air) - 1}, air # << >>,
         \A p \in Polarities : Reported(p) => Reported(p)'
  PROVE  ModemInv'
<1>1. clean' => frame' \in Frames
  BY DEF ModemInv
<1>2. ASSUME clean'
      PROVE  (Len(air') >= Opening(frame) \/ Len(air') < Ending)
             /\ (Len(air') < Ending => Len(air) < Ending)
  <2> DEFINE n == Len(air)
             n1 == Len(air')
             C == 8 * Closing
             a == After(frame)
  <2>1. frame \in Frames /\ clean /\ ~ Vital
    BY <1>2 DEF ModemInv
  <2>2. /\ Opening(frame) = a + C + 2 /\ Ending = C - 7 /\ C \in Nat /\ C >= 8 /\ a \in Nat
        /\ a = 8 + Len(Body[frame]) /\ Len(Body[frame]) \in Nat
    BY <2>1, Sizes, SizesMore
  <2>3. n \in Nat /\ n1 \in {n, n - 1}
    BY DEF ModemInv, TypeOK
  <2>4. Vital <=> n \in 8 * (Closing - 1) + 1 .. C + Len(Body[frame]) + 8 + 2
    BY DEF Vital
  <2>5. 8 * (Closing - 1) + 1 = Ending
    BY DEF Ending
  <2> HIDE DEF C, n, n1, a
  <2>6. n < Ending \/ n > Opening(frame)
    BY <2>1, <2>2, <2>3, <2>4, <2>5
  <2>7. (n1 >= Opening(frame) \/ n1 < Ending) /\ (n1 < Ending => n < Ending)
    BY <2>2, <2>3, <2>6
  <2>8. QED
    BY <2>7 DEF n, n1
<1>3. Tracking'
  <2> SUFFICES ASSUME clean', Len(air') >= Ending, Len(air') < Opening(frame) PROVE FALSE
    BY DEF Tracking, Opening, Ending, After
  <2>1. Opening(frame) \in Nat /\ Ending \in Nat /\ Len(air') \in Nat
    BY SizesMore DEF ModemInv, TypeOK
  <2>2. QED
    BY <1>2, <2>1
<1>4. Done'
  <2> SUFFICES ASSUME clean', Len(air') < Ending PROVE \A p \in Polarities : Reported(p)'
    BY DEF Done, Ending
  <2>1. clean /\ Len(air) < Ending
    BY <1>2
  <2>2. QED
    BY <2>1 DEF ModemInv, Done
<1>5. QED
  BY <1>1, <1>3, <1>4 DEF ModemInv

(* Within what is vital one more level is followed.                        *)
LEMMA VitalHeard ==
  ASSUME ModemInv, FramesFit, TypeOK', OnAir', air # << >>, Len(air') = Len(air) - 1,
         Window(Correlate), clean', clean, Vital, ~ Straddles
  PROVE  Tracking' /\ Done'
<1> DEFINE n == Len(air)
           C == 8 * Closing
           f == frame
           a == After(f)
           o == Offset
           m == a + C - n + o
           lv == Wave(f)
           level == Tone(lv[Before + (m + 1)])
<1>1. f \in Frames /\ n \in Nat \ {0} /\ TypeOK /\ air \in Seq(Bit) /\ Len(air') = n - 1
  BY DEF ModemInv, TypeOK
<1>2. /\ Opening(f) = a + C + 2 /\ Ending = C - 7 /\ C \in Nat /\ C >= 8 /\ a \in Nat /\ a >= 8
      /\ Before \in Nat /\ Before >= 8 /\ Total(f) = Before + a + C /\ a = 8 + Len(Body[f])
      /\ Len(Body[f]) \in Nat /\ Preamble > 1
  <2>1. Preamble > 1 /\ Preamble \in Nat
    BY ModemAssumption
  <2>2. Before >= 8
    BY <1>1, <2>1, Sizes
  <2>3. a >= 8
    <3>1. a = 8 + Len(Body[f]) /\ Len(Body[f]) \in Nat
      BY <1>1, Sizes
    <3> HIDE DEF a
    <3>2. QED
      BY <3>1
  <2> HIDE DEF f
  <2>4. QED
    BY <1>1, <2>1, <2>2, <2>3, Sizes, SizesMore
<1>3. n >= Ending /\ n <= Opening(f)
  <2>1. n \in 8 * (Closing - 1) + 1 .. C + Len(Body[f]) + 8 + 2
    BY DEF Vital
  <2>2. 8 * (Closing - 1) + 1 = Ending
    BY DEF Ending
  <2> HIDE DEF C, n, f, a
  <2>3. QED
    BY <1>1, <1>2, <2>1, <2>2
<1>4. o \in {0, 1}
  BY DEF Offset
<1>5. m \in Int /\ m >= -2 + o /\ m <= a + 7 + o
  <2> HIDE DEF n, C, a, o
  <2>1. QED
    BY <1>1, <1>2, <1>3, <1>4
<1>6. ASSUME o = 0 \/ n >= 2
      PROVE  Correlate = level
  <2>1. Correlate = Tone(air[1 + o])
    BY <1>1, <1>6, LevelHeard
  <2>2. air[1 + o] = lv[Total(f) - n + (1 + o)]
    <3>1. 1 + o \in 1 .. n
      <4> HIDE DEF o, n
      <4>1. QED
        BY <1>1, <1>4, <1>6
    <3>2. QED
      BY <1>1, <3>1 DEF ModemInv, OnAir
  <2>3. Total(f) - n + (1 + o) = Before + (m + 1)
    <3> DEFINE T == Total(f)
    <3>1. /\ T = Before + a + C /\ Before \in Nat /\ a \in Nat /\ C \in Nat
          /\ n \in Nat /\ o \in {0, 1}
      BY <1>1, <1>2, <1>4
    <3> HIDE DEF n, C, a, o, T
    <3>2. T - n + (1 + o) = Before + (m + 1)
      BY <3>1
    <3>3. QED
      BY <3>2 DEF T
  <2>4. QED
    BY <2>1, <2>2, <2>3
<1>7. ASSUME n < Opening(f), NEW p \in Polarities
      PROVE  Tracks(p, m)
  BY <1>3, <1>7 DEF ModemInv, Tracking, Place
<1> HIDE DEF n, C, a, o, m
<1>8. CASE o = 1 /\ n = 1
  <2>1. n < Opening(f) /\ m >= a + 8 /\ ~ (n - 1 >= Ending)
    <3>1. C - 7 <= 1
      BY <1>2, <1>3, <1>8
    <3>2. C = 8
      BY <1>2, <3>1, Sizes DEF C
    <3>3. QED
      BY <1>2, <1>8, <3>2 DEF m
  <2>2. \A p \in Polarities : Reported(p)'
    BY <1>1, <1>7, <2>1, ReportedStays DEF Tracks, a
  <2>3. QED
    BY <1>1, <2>1, <2>2 DEF Tracking, Done, Ending
<1>9. CASE ~ (o = 1 /\ n = 1)
  <2>1. Correlate = level
    BY <1>1, <1>4, <1>6, <1>9
  <2>2. level \in Bit /\ \A p \in Polarities : Seen(p, level) \in Bit
    BY <2>1, CorrelateTyped, SeenTyped
  <2>3. ASSUME NEW p \in Polarities
        PROVE  /\ det'[p].prev = Seen(p, level)
               /\ m + 1 <= a + 7 => Followed(det'[p], f, m + 1)
               /\ m + 1 >= a + 8 => Reported(p)'
    <3> DEFINE d == det[p]
               v == Seen(p, level)
               h == heard[p]
    <3>1. /\ det'[p] = FeedBit(d, v) /\ heard'[p] = h \o Found(d, v) /\ frame' = frame
          /\ DetectorOK(d) /\ h \in Reports /\ v \in Bit
      BY <1>1, <2>1, <2>2, TypesAre DEF Window, ReceiverOK
    <3>2. det'[p].prev = v
      BY <3>1 DEF FeedBit
    <3>3. CASE n = Opening(f)
      <4>1. m + 1 <= 0 /\ ~ (m + 1 >= a + 8) /\ m + 1 \in Int
        BY <1>1, <1>2, <1>4, <3>3 DEF m
      <4>2. Followed(det'[p], f, m + 1)
        BY <4>1, FollowNothing
      <4>3. QED
        BY <3>2, <4>1, <4>2
    <3>4. CASE n < Opening(f)
      <4>1. Tracks(p, m)
        BY <1>7, <3>4
      <4>2. CASE m <= a + 7
        <5>1. m \in -1 .. a + 7
          BY <1>1, <1>2, <1>4, <1>5, <3>4, <4>2 DEF m
        <5>2. d.prev = Seen(p, Tone(lv[Before + m])) /\ Followed(d, f, m)
          BY <4>1, <4>2 DEF Tracks, a
        <5> HIDE DEF d
        <5>3. /\ m + 1 <= a + 7 => Followed(FeedBit(d, v), f, m + 1)
              /\ m + 1 >= a + 8 => Found(d, v) = <<FixSsid(f)>>
          <6>1. /\ TypeOK /\ f \in Frames /\ m \in -1 .. After(f) + 7 /\ Preamble > 1
                /\ DetectorOK(d) /\ d.prev = Seen(p, Tone(Wave(f)[Before + m]))
                /\ Followed(d, f, m) /\ v = Seen(p, Tone(Wave(f)[Before + (m + 1)]))
                /\ v \in Bit
            BY <1>1, <1>2, <3>1, <5>1, <5>2 DEF a
          <6> HIDE DEF f, v
          <6>2. /\ m + 1 <= After(f) + 7 => Followed(FeedBit(d, v), f, m + 1)
                /\ m + 1 >= After(f) + 8 => Found(d, v) = <<FixSsid(f)>>
            BY <6>1, TrackMore
          <6>3. QED
            BY <6>2 DEF a
        <5>4. ASSUME m + 1 >= a + 8
              PROVE  Reported(p)'
          <6>1. FixSsid(f) \in ToSet(Found(d, v))
            BY <5>3, <5>4, InOne
          <6>2. Found(d, v) \in Reports
            BY <3>1, FoundTyped
          <6> DEFINE t == Found(d, v)
          <6> HIDE DEF t, h
          <6>3. FixSsid(f) \in ToSet(h \o t)
            BY <3>1, <6>1, <6>2, InJoin DEF Reports, t
          <6>4. QED
            BY <3>1, <6>3 DEF Reported, t
        <5>5. QED
          BY <3>1, <3>2, <5>3, <5>4
      <4>3. CASE m > a + 7
        <5>1. m >= a + 8 /\ ~ (m + 1 <= a + 7)
          BY <1>2, <1>5, <4>3
        <5>2. Reported(p)
          BY <4>1, <5>1 DEF Tracks, a
        <5>3. QED
          BY <1>1, <3>2, <5>1, <5>2, ReportedStays
      <4>4. QED
        BY <1>2, <1>5, <4>2, <4>3
    <3>5. n < Opening(f) \/ n = Opening(f)
      BY <1>1, <1>2, <1>3
    <3>6. QED
      BY <3>3, <3>4, <3>5
  <2>4. Done'
    <3> SUFFICES ASSUME Len(air') < Ending PROVE \A p \in Polarities : Reported(p)'
      BY DEF Done, Ending
    <3>1. m + 1 >= a + 8
      BY <1>1, <1>2, <1>3, <1>4 DEF m
    <3>2. QED
      BY <2>3, <3>1
  <2>5. Tracking'
    <3> SUFFICES ASSUME Len(air') >= Ending
                 PROVE  (~ Straddles)' /\ \A p \in Polarities : Tracks(p, Place)'
      BY DEF Tracking, Ending
    <3>1. n # 1
      BY <1>1, <1>2
    <3>2. phase' = phase /\ sense' = sense /\ frame' = frame
      BY <3>1 DEF Window, n
    <3>3. Place' = m + 1
      <4>1. Place' = a + C - Len(air') + o
        <5>1. Offset' = o /\ After(frame)' = a
          BY <3>2 DEF o, Offset, a, After
        <5>2. Place' = After(frame)' + C - Len(air') + Offset'
          BY DEF Place, C
        <5>3. QED
          BY <5>1, <5>2
      <4>2. Len(air') = n - 1 /\ n \in Nat /\ a \in Nat /\ C \in Nat /\ o \in {0, 1}
        BY <1>1, <1>2, <1>4
      <4>3. a + C - (n - 1) + o = m + 1
        BY <4>2 DEF m
      <4>4. QED
        BY <4>1, <4>2, <4>3, Zenon
    <3>4. ASSUME NEW p \in Polarities
          PROVE  Tracks(p, Place)'
      <4>1. /\ det'[p].prev = Seen(p, level)
            /\ m + 1 <= a + 7 => Followed(det'[p], f, m + 1)
            /\ m + 1 >= a + 8 => Reported(p)'
        BY <2>3
      <4>2. QED
        BY <3>2, <3>3, <4>1 DEF Tracks, Tone, After, Wave, Before, Followed, EndsAt, BitsTo, At, a
    <3>5. QED
      BY <3>2, <3>4 DEF Straddles
  <2>6. QED
    BY <2>4, <2>5
<1>10. QED
  BY <1>8, <1>9

LEMMA WindowInv ==
  ASSUME ModemInv, FramesFit, air # << >>, NEW level \in Bit, Window(level), TypeOK',
         clean' => clean /\ (Vital => ~ Straddles /\ level = Correlate)
  PROVE  ModemInv'
<1>1. OnAir' /\ Len(air') = Len(air) - 1 /\ frame' = frame
  BY OnAirTail DEF Window
<1>2. \A p \in Polarities : Reported(p) => Reported(p)'
  BY ReportedStays DEF ModemInv
<1>3. CASE clean' /\ Vital
  <2>1. Tracking' /\ Done'
    BY <1>1, <1>3, VitalHeard
  <2>2. QED
    BY <1>1, <1>3, <2>1 DEF ModemInv
<1>4. CASE ~ (clean' /\ Vital)
  BY <1>1, <1>2, <1>4, NotVital
<1>5. QED
  BY <1>3, <1>4

LEMMA ShortChunkInv ==
  ASSUME ModemInv, NEW n \in 1 .. (SPB - 1), ShortChunk(n)
  PROVE  ModemInv'
<1>1. TypeOK'
  BY ShortChunkTypes DEF ModemInv
<1>2. air # << >> /\ frame' = frame /\ heard' = heard /\ clean' = (clean /\ ~ Vital)
  BY DEF ShortChunk
<1>3. OnAir' /\ Len(air') \in {Len(air), Len(air) - 1}
  <2>1. CASE air' = air
    BY <1>2, <2>1 DEF ModemInv, OnAir, Total, After, Before, Wave
  <2>2. CASE air' = Tail(air)
    BY <1>2, <2>2, OnAirTail
  <2>3. QED
    BY <2>1, <2>2 DEF ShortChunk
<1>4. \A p \in Polarities : Reported(p) => Reported(p)'
  BY <1>2 DEF Reported
<1>5. QED
  BY <1>1, <1>2, <1>3, <1>4, NotVital

LEMMA NextInv == FramesFit /\ ModemInv /\ [Next]_vars => ModemInv'
<1> SUFFICES ASSUME FramesFit, ModemInv, [Next]_vars PROVE ModemInv'
  OBVIOUS
<1>1. TypeOK'
  BY NextTypes DEF ModemInv
<1>2. CASE Listen
  BY <1>1, <1>2, CorrelateTyped, WindowInv DEF Listen
<1>3. CASE Disturbed
  <2>1. clean' => clean /\ ~ Vital
    BY <1>3 DEF Disturbed
  <2>2. QED
    BY <1>1, <1>3, <2>1, CorrelateTyped, WindowInv DEF Disturbed
<1>4. CASE UNCHANGED vars
  BY <1>1, <1>4 DEF vars, ModemInv, OnAir, Tracking, Done, Tracks, Reported, Place, Offset,
     Straddles, Opening, Ending, Total, After, Before, Wave, Tone, Followed, EndsAt, BitsTo, At
<1>5. QED
  BY <1>2, <1>3, <1>4, TransmitInv, HissInv, ShortChunkInv DEF Next

LEMMA InvComesThrough == ModemInv => ComesThrough
<1> SUFFICES ASSUME ModemInv, clean, Len(air) <= 8 * (Closing - 1)
             PROVE  \A p \in Polarities : FixSsid(frame) \in ToSet(heard[p])
  BY DEF ComesThrough
<1> DEFINE C == 8 * Closing
           n == Len(air)
<1>1. Ending = C - 7 /\ C \in Nat /\ 8 * (Closing - 1) = C - 8
  BY ModemAssumption DEF Ending
<1>2. n \in Nat /\ n <= 8 * (Closing - 1)
  BY DEF ModemInv, TypeOK
<1> HIDE DEF C, n
<1>3. n < Ending
  BY <1>1, <1>2
<1>4. QED
  BY <1>3 DEF n, ModemInv, Done, Reported

(* What is sent with a clean last flag before it and first flag behind it  *)
(* is reported by both detectors, whatever they heard before and whichever *)
(* way the tones are, for every frame that a detector has room for.        *)
THEOREM FramesComeThrough ==
  ASSUME FramesFit
  PROVE  Spec => []ComesThrough
<1>1. Init => ModemInv
  BY InitInv
<1>2. ModemInv /\ [Next]_vars => ModemInv'
  BY NextInv
<1>3. ModemInv => ComesThrough
  BY InvComesThrough
<1>4. QED
  BY <1>1, <1>2, <1>3, PTL DEF Spec

=============================================================================

------------------------------ MODULE PingProofs ------------------------------
(***************************************************************************)
(* A counted reply was echoed, and a reply in time is counted: the proofs, *)
(* for every set of stations, however the channel loses frames and however *)
(* the lines are cut into reads.                                           *)
(*                                                                         *)
(* Both rest on one fact of the KISS decoder: what is on a line, from      *)
(* wherever it is read, is decoded to frames that were sent whole, and     *)
(* leaves the decoder ready for the next.  So a pinger that begins a wait  *)
(* in the middle of a frame, with a decoder of its own, takes nothing for  *)
(* a frame that was none.                                                  *)
(***************************************************************************)
EXTENDS PingEcho, SequenceLemmas

Bytes == 0 .. 255

-----------------------------------------------------------------------------
(* The decoder over a sequence of bytes.  FoldLeft is a fold over the set  *)
(* of the indices.                                                         *)

(* The fold over 1 .. n, as MapThenFoldSet makes it.                       *)
Iterates(g, d, s, n) ==
  g = [x \in SUBSET (1 .. n) |->
         IF x = {} THEN d ELSE DecoderFeed(g[x \ {Max(x)}], s[Max(x)])]

LEMMA FoldIs ==
  ASSUME NEW d, NEW s \in Seq(Bytes)
  PROVE  FoldLeft(DecoderFeed, d, s) = (CHOOSE g : Iterates(g, d, s, Len(s)))[1 .. Len(s)]
<1>1. DOMAIN s = 1 .. Len(s)
  OBVIOUS
<1>2. QED
  BY <1>1 DEF FoldLeft, MapThenFoldSet, Iterates

LEMMA IterateMore ==
  ASSUME NEW d, NEW s, NEW n \in Nat, NEW g, Iterates(g, d, s, n)
  PROVE  \E h : Iterates(h, d, s, n + 1)
<1> DEFINE h == [x \in SUBSET (1 .. n + 1) |->
                   IF n + 1 \in x THEN DecoderFeed(g[x \ {n + 1}], s[n + 1]) ELSE g[x]]
<1>1. ASSUME NEW x \in SUBSET (1 .. n + 1), n + 1 \in x
      PROVE  h[x] = DecoderFeed(h[x \ {Max(x)}], s[Max(x)]) /\ x # {}
  <2>1. Max(x) = n + 1
    BY <1>1, MaxOfMore
  <2>2. x \ {n + 1} \in SUBSET (1 .. n + 1) /\ n + 1 \notin x \ {n + 1}
    OBVIOUS
  <2>3. h[x \ {n + 1}] = g[x \ {n + 1}]
    BY <2>2
  <2>4. QED
    BY <1>1, <2>1, <2>3
<1>2. ASSUME NEW x \in SUBSET (1 .. n + 1), n + 1 \notin x
      PROVE  h[x] = IF x = {} THEN d ELSE DecoderFeed(h[x \ {Max(x)}], s[Max(x)])
  <2>1. x \in SUBSET (1 .. n)
    BY <1>2
  <2>2. h[x] = g[x] /\ h[x \ {Max(x)}] = g[x \ {Max(x)}]
    BY <1>2
  <2>3. g[x] = IF x = {} THEN d ELSE DecoderFeed(g[x \ {Max(x)}], s[Max(x)])
    BY <2>1 DEF Iterates
  <2>4. QED
    BY <2>2, <2>3
<1> HIDE DEF h
<1>3. \A x \in SUBSET (1 .. n + 1) :
        h[x] = IF x = {} THEN d ELSE DecoderFeed(h[x \ {Max(x)}], s[Max(x)])
  BY <1>1, <1>2
<1>4. h = [x \in SUBSET (1 .. n + 1) |-> h[x]]
  BY DEF h
<1>5. Iterates(h, d, s, n + 1)
  BY <1>3, <1>4, Zenon DEF Iterates
<1>6. QED
  BY <1>5

LEMMA IterateAny ==
  ASSUME NEW d, NEW s, NEW n \in Nat
  PROVE  \E h : Iterates(h, d, s, n)
<1> DEFINE S == {k \in Nat : \E h : Iterates(h, d, s, k)}
<1>1. 0 \in S
  <2> DEFINE h == [x \in SUBSET (1 .. 0) |-> d]
  <2>1. 1 .. 0 = {}
    OBVIOUS
  <2>2. \A x \in SUBSET (1 .. 0) : x = {} /\ h[x] = d
    BY <2>1
  <2>3. Iterates(h, d, s, 0)
    BY <2>2 DEF Iterates
  <2>4. QED
    BY <2>3
<1>2. \A k \in S : k + 1 \in S
  BY IterateMore
<1> HIDE DEF S
<1>3. S = Nat
  <2>1. S \in SUBSET Nat
    BY DEF S
  <2>2. QED
    BY <1>1, <1>2, <2>1, Induction
<1>4. QED
  BY <1>3 DEF S

(* T follows the decoder byte by byte.                                     *)
Follows(T, d, s, n) ==
  T[0] = d /\ \A k \in 0 .. n - 1 : T[k + 1] = DecoderFeed(T[k], s[k + 1])

(* The steps of the fold go from 1 .. k to 1 .. k + 1.                     *)
LEMMA IterateFollows ==
  ASSUME NEW d, NEW s, NEW n \in Nat, NEW g, Iterates(g, d, s, n)
  PROVE  Follows([k \in 0 .. n |-> g[1 .. k]], d, s, n)
<1> DEFINE T == [k \in 0 .. n |-> g[1 .. k]]
<1>1. 1 .. 0 = {} /\ 1 .. 0 \in SUBSET (1 .. n)
  OBVIOUS
<1>2. T[0] = d
  BY <1>1 DEF Iterates
<1>3. ASSUME NEW k \in 0 .. n - 1
      PROVE  T[k + 1] = DecoderFeed(T[k], s[k + 1])
  <2>1. /\ k \in Nat /\ k \in 0 .. n /\ k + 1 \in 0 .. n /\ 1 .. k + 1 \in SUBSET (1 .. n)
        /\ k + 1 \in 1 .. k + 1 /\ 1 .. k + 1 # {}
    OBVIOUS
  <2>2. Max(1 .. k + 1) = k + 1
    BY <2>1, MaxOfMore
  <2>3. (1 .. k + 1) \ {k + 1} = 1 .. k
    BY <2>1
  <2>4. g[1 .. k + 1] = DecoderFeed(g[1 .. k], s[k + 1])
    BY <2>1, <2>2, <2>3 DEF Iterates
  <2>5. QED
    BY <2>1, <2>4
<1> HIDE DEF T
<1>4. Follows(T, d, s, n)
  BY <1>2, <1>3 DEF Follows
<1>5. QED
  BY <1>4 DEF T

LEMMA FollowsExists ==
  ASSUME NEW d, NEW s, NEW n \in Nat
  PROVE  \E T : Follows(T, d, s, n)
  BY IterateAny, IterateFollows

LEMMA FollowsOnce ==
  ASSUME NEW d, NEW s, NEW n \in Nat, NEW T, NEW U, Follows(T, d, s, n), Follows(U, d, s, n)
  PROVE  T[n] = U[n]
<1> DEFINE S == {k \in Nat : k <= n => T[k] = U[k]}
<1>1. 0 \in S
  BY DEF Follows
<1>2. ASSUME NEW k \in S
      PROVE  k + 1 \in S
  <2>1. k \in Nat
    OBVIOUS
  <2>2. SUFFICES ASSUME k + 1 <= n PROVE T[k + 1] = U[k + 1]
    BY <2>1
  <2>3. T[k] = U[k] /\ k \in 0 .. n - 1
    BY <2>1, <2>2
  <2>4. QED
    BY <2>3 DEF Follows
<1>3. S \in SUBSET Nat
  OBVIOUS
<1> HIDE DEF S
<1>4. S = Nat
  BY <1>1, <1>2, <1>3, Induction
<1>5. QED
  BY <1>4 DEF S

(* Any function that follows the decoder ends where the fold ends.         *)
LEMMA FoldTraced ==
  ASSUME NEW d, NEW s \in Seq(Bytes), NEW T, Follows(T, d, s, Len(s))
  PROVE  FoldLeft(DecoderFeed, d, s) = T[Len(s)]
<1> DEFINE n == Len(s)
           g == CHOOSE h : Iterates(h, d, s, n)
           U == [k \in 0 .. n |-> g[1 .. k]]
<1>1. n \in Nat
  OBVIOUS
<1>2. Iterates(g, d, s, n)
  BY <1>1, IterateAny
<1>3. FoldLeft(DecoderFeed, d, s) = g[1 .. n]
  BY FoldIs
<1> HIDE DEF g
<1>4. Follows(U, d, s, n)
  BY <1>1, <1>2, IterateFollows
<1>5. U[n] = g[1 .. n]
  BY <1>1
<1> HIDE DEF U
<1>6. QED
  BY <1>1, <1>3, <1>4, <1>5, FollowsOnce

(* The decoder after the bytes s.                                          *)
Fed(d, s) == FoldLeft(DecoderFeed, d, s)

LEMMA FedNothing == \A d : Fed(d, << >>) = d
<1> TAKE d
<1> DEFINE T == [k \in {0} |-> d]
<1>1. /\ << >> \in Seq(Bytes) /\ Len(<< >>) = 0 /\ T[0] = d
      /\ \A k \in 0 .. Len(<< >>) - 1 : T[k + 1] = DecoderFeed(T[k], << >>[k + 1])
  OBVIOUS
<1> HIDE DEF T
<1>2. Follows(T, d, << >>, Len(<< >>))
  BY <1>1 DEF Follows
<1>3. QED
  BY <1>1, <1>2, FoldTraced DEF Fed

LEMMA FedMore ==
  ASSUME NEW d, NEW s \in Seq(Bytes), NEW b \in Bytes
  PROVE  Fed(d, Append(s, b)) = DecoderFeed(Fed(d, s), b)
<1> DEFINE n == Len(s)
           u == Append(s, b)
<1>1. /\ n \in Nat /\ u \in Seq(Bytes) /\ Len(u) = n + 1 /\ u[n + 1] = b
      /\ \A k \in 0 .. n - 1 : u[k + 1] = s[k + 1]
      /\ n + 1 \in Nat
  OBVIOUS
<1> HIDE DEF n, u
<1>2. PICK T : Follows(T, d, u, n + 1)
  BY <1>1, FollowsExists
<1>3. Fed(d, u) = T[n + 1]
  BY <1>1, <1>2, FoldTraced DEF Fed
<1>4. /\ n \in 0 .. (n + 1) - 1
      /\ \A k \in 0 .. n - 1 : k \in 0 .. (n + 1) - 1
  BY <1>1
<1>5. Follows(T, d, s, n)
  BY <1>1, <1>2, <1>4 DEF Follows
<1>6. Fed(d, s) = T[n]
  BY <1>5, FoldTraced DEF Fed, n
<1>7. T[n + 1] = DecoderFeed(T[n], u[n + 1])
  BY <1>2, <1>4 DEF Follows
<1>8. QED
  BY <1>1, <1>3, <1>6, <1>7 DEF u

LEMMA FedBoth ==
  ASSUME NEW d, NEW s \in Seq(Bytes)
  PROVE  \A t \in Seq(Bytes) : Fed(d, s \o t) = Fed(Fed(d, s), t)
<1> DEFINE S == {t \in Seq(Bytes) : Fed(d, s \o t) = Fed(Fed(d, s), t)}
<1>1. << >> \in S
  BY FedNothing, EmptySeq, ConcatEmptySeq
<1>2. ASSUME NEW t \in S, NEW b \in Bytes
      PROVE  Append(t, b) \in S
  <2>1. t \in Seq(Bytes) /\ s \o t \in Seq(Bytes) /\ Append(t, b) \in Seq(Bytes)
    OBVIOUS
  <2>2. s \o Append(t, b) = Append(s \o t, b)
    BY <2>1
  <2>3. Fed(d, Append(s \o t, b)) = DecoderFeed(Fed(d, s \o t), b)
    BY <2>1, FedMore
  <2>4. Fed(Fed(d, s), Append(t, b)) = DecoderFeed(Fed(Fed(d, s), t), b)
    BY <2>1, FedMore
  <2>5. QED
    BY <2>1, <2>2, <2>3, <2>4
<1> HIDE DEF S
<1>3. S = Seq(Bytes)
  <2>1. S \in SUBSET Seq(Bytes)
    BY DEF S
  <2>2. QED
    BY <1>1, <1>2, <2>1, AllSequences
<1>4. QED
  BY <1>3 DEF S


-----------------------------------------------------------------------------
(* One byte                                                                *)

(* What fits the decoder.                                                  *)
Frames == {f \in Seq(Bytes) : Len(f) <= MaxPayload}

(* A decoder within its buffer.                                            *)
Decoders ==
  {d \in [buf : Seq(Bytes), in_frame : BOOLEAN, escape : BOOLEAN, out : Seq(Frames)] :
     Len(d.buf) <= MaxPayload + 1}

Dec(buf, in_frame, escape, out) ==
  [buf |-> buf, in_frame |-> in_frame, escape |-> escape, out |-> out]

LEMMA DecParts ==
  ASSUME NEW d \in Decoders
  PROVE  /\ d = Dec(d.buf, d.in_frame, d.escape, d.out)
         /\ d.buf \in Seq(Bytes) /\ Len(d.buf) \in Nat /\ Len(d.buf) <= MaxPayload + 1
         /\ d.in_frame \in BOOLEAN /\ d.escape \in BOOLEAN /\ d.out \in Seq(Frames)
<1>1. d \in [buf : Seq(Bytes), in_frame : BOOLEAN, escape : BOOLEAN, out : Seq(Frames)]
      /\ Len(d.buf) <= MaxPayload + 1
  BY DEF Decoders
<1>2. QED
  BY <1>1 DEF Dec

LEMMA DecTyped ==
  ASSUME NEW buf \in Seq(Bytes), Len(buf) <= MaxPayload + 1, NEW in_frame \in BOOLEAN,
         NEW escape \in BOOLEAN, NEW out \in Seq(Frames)
  PROVE  Dec(buf, in_frame, escape, out) \in Decoders
BY DEF Decoders, Dec

LEMMA DecFields ==
  ASSUME NEW buf, NEW in_frame, NEW escape, NEW out
  PROVE  LET d == Dec(buf, in_frame, escape, out) IN
         d.buf = buf /\ d.in_frame = in_frame /\ d.escape = escape /\ d.out = out
BY DEF Dec

(* A decoder changed in one part.                                          *)
LEMMA DecChanged ==
  ASSUME NEW d, NEW buf, NEW in_frame, NEW escape, NEW out, d = Dec(buf, in_frame, escape, out)
  PROVE  /\ \A x : [d EXCEPT !.buf = x] = Dec(x, in_frame, escape, out)
         /\ \A x : [d EXCEPT !.in_frame = x] = Dec(buf, x, escape, out)
         /\ \A x : [d EXCEPT !.escape = x] = Dec(buf, in_frame, x, out)
         /\ \A x : [d EXCEPT !.out = x] = Dec(buf, in_frame, escape, x)
BY DEF Dec

LEMMA DecReset ==
  ASSUME NEW d \in Decoders, NEW x, NEW y, NEW z
  PROVE  /\ [d EXCEPT !.buf = x, !.escape = z] = Dec(x, d.in_frame, z, d.out)
         /\ [d EXCEPT !.buf = x, !.in_frame = y, !.escape = z] = Dec(x, y, z, d.out)
<1> DEFINE e == [d EXCEPT !.buf = x]
           f == [e EXCEPT !.in_frame = y]
<1>1. d = Dec(d.buf, d.in_frame, d.escape, d.out)
  BY DecParts
<1>2. e = Dec(x, d.in_frame, d.escape, d.out)
  BY <1>1, DecChanged
<1> HIDE DEF e
<1>3. f = Dec(x, y, d.escape, d.out)
  BY <1>2, DecChanged
<1> HIDE DEF f
<1>4. [e EXCEPT !.escape = z] = Dec(x, d.in_frame, z, d.out)
  BY <1>2, DecChanged
<1>5. [f EXCEPT !.escape = z] = Dec(x, y, z, d.out)
  BY <1>3, DecChanged
<1>6. QED
  BY <1>4, <1>5, Zenon DEF e, f

(* Ready and the decoder reset, but for what was handed out.               *)
LEMMA ReadyIs ==
  ASSUME NEW d \in Decoders
  PROVE  /\ Ready(d) = Dec(<< >>, TRUE, FALSE, d.out)
         /\ [DecoderInit EXCEPT !.out = d.out] = Dec(<< >>, FALSE, FALSE, d.out)
<1> DEFINE yes == TRUE
           no == FALSE
<1> HIDE DEF yes, no
<1>1. d = Dec(d.buf, d.in_frame, d.escape, d.out)
  BY DecParts
<1>2. [d EXCEPT !.buf = << >>] = Dec(<< >>, d.in_frame, d.escape, d.out)
  BY <1>1, DecChanged
<1>3. [d EXCEPT !.buf = << >>, !.in_frame = yes, !.escape = no] = Dec(<< >>, yes, no, d.out)
  BY DecReset, Zenon
<1>4. DecoderInit = Dec(<< >>, no, no, << >>)
  BY Zenon DEF DecoderInit, Dec, no
<1>5. [DecoderInit EXCEPT !.out = d.out] = Dec(<< >>, no, no, d.out)
  BY <1>4, DecChanged
<1>6. QED
  BY <1>3, <1>5, Zenon DEF Ready, yes, no

(* What a FEND adds to what is handed out.                                 *)
Ended(buf, in_frame, out) ==
  IF in_frame /\ buf # << >> /\ buf[1] % 16 = 0 THEN Append(out, Tail(buf)) ELSE out

LEMMA BoundaryIs ==
  ASSUME NEW d \in Decoders
  PROVE  Boundary(d) = IF d.in_frame /\ d.buf = << >> THEN d
                       ELSE Dec(<< >>, TRUE, FALSE, Ended(d.buf, d.in_frame, d.out))
<1> DEFINE yes == TRUE
           no == FALSE
<1>1. Ready(d) = Dec(<< >>, yes, no, d.out)
  BY ReadyIs
<1> HIDE DEF yes, no
<1>2. \A x : [Ready(d) EXCEPT !.out = x] = Dec(<< >>, yes, no, x)
  BY <1>1, DecChanged
<1>3. Ready(d).out = d.out
  BY <1>1, DecFields
<1>4. [Ready(d) EXCEPT !.out = Append(@, Tail(d.buf))]
        = Dec(<< >>, yes, no, Append(d.out, Tail(d.buf)))
  BY <1>2, <1>3, Zenon
<1>5. CASE d.in_frame /\ d.buf # << >> /\ d.buf[1] % 16 = 0
  <2>1. Boundary(d) = [Ready(d) EXCEPT !.out = Append(@, Tail(d.buf))]
    BY <1>5, Zenon DEF Boundary
  <2>2. Ended(d.buf, d.in_frame, d.out) = Append(d.out, Tail(d.buf))
    BY <1>5, Zenon DEF Ended
  <2>3. QED
    BY <1>4, <1>5, <2>1, <2>2, Zenon DEF yes, no
<1>6. CASE d.in_frame /\ d.buf # << >> /\ ~ (d.buf[1] % 16 = 0)
  <2>1. Boundary(d) = Ready(d)
    BY <1>6, Zenon DEF Boundary
  <2>2. Ended(d.buf, d.in_frame, d.out) = d.out
    BY <1>6, Zenon DEF Ended
  <2>3. QED
    BY <1>1, <1>6, <2>1, <2>2, Zenon DEF yes, no
<1>7. CASE ~ d.in_frame
  <2>1. Boundary(d) = Ready(d)
    BY <1>7, Zenon DEF Boundary
  <2>2. Ended(d.buf, d.in_frame, d.out) = d.out
    BY <1>7, Zenon DEF Ended
  <2>3. QED
    BY <1>1, <1>7, <2>1, <2>2, Zenon DEF yes, no
<1>8. CASE d.in_frame /\ d.buf = << >>
  BY <1>8, Zenon DEF Boundary
<1>9. QED
  BY <1>5, <1>6, <1>7, <1>8, Zenon

LEMMA CollectIs ==
  ASSUME NEW d \in Decoders, NEW b
  PROVE  Collect(d, b) = IF Len(d.buf) > MaxPayload THEN Dec(<< >>, FALSE, FALSE, d.out)
                         ELSE Dec(Append(d.buf, b), d.in_frame, FALSE, d.out)
<1> DEFINE no == FALSE
<1> HIDE DEF no
<1>1. d = Dec(d.buf, d.in_frame, d.escape, d.out)
  BY DecParts
<1>2. [d EXCEPT !.buf = Append(@, b), !.escape = no]
        = Dec(Append(d.buf, b), d.in_frame, no, d.out)
  BY DecReset, Zenon
<1>3. [DecoderInit EXCEPT !.out = d.out] = Dec(<< >>, FALSE, FALSE, d.out)
  BY ReadyIs
<1>4. QED
  BY <1>2, <1>3, Zenon DEF Collect, no

LEMMA EscapeIs ==
  ASSUME NEW d \in Decoders
  PROVE  \A x : [d EXCEPT !.escape = x] = Dec(d.buf, d.in_frame, x, d.out)
<1>1. d = Dec(d.buf, d.in_frame, d.escape, d.out)
  BY DecParts
<1>2. QED
  BY <1>1, DecChanged

LEMMA ByteByByte ==
  ASSUME NEW d \in Decoders, NEW b
  PROVE  DecoderFeed(d, b) =
           IF b = FEND THEN Boundary(d)
           ELSE IF ~ d.in_frame THEN d
           ELSE IF d.escape THEN Collect(d, Unstuffed(b))
           ELSE IF b = FESC THEN [d EXCEPT !.escape = TRUE]
           ELSE Collect(d, b)
<1>1. d.in_frame \in BOOLEAN /\ d.escape \in BOOLEAN /\ FEND # FESC
  BY DecParts DEF FEND, FESC
<1>2. QED
  BY <1>1 DEF DecoderFeed

LEMMA TailIsFrame ==
  ASSUME NEW buf \in Seq(Bytes), buf # << >>, Len(buf) <= MaxPayload + 1
  PROVE  Tail(buf) \in Frames
<1> DEFINE t == Tail(buf)
           n == Len(buf)
<1>1. t \in Seq(Bytes) /\ Len(t) = n - 1 /\ n \in Nat
  BY HeadTailProperties, LenProperties
<1> HIDE DEF t
<1>2. Len(t) <= MaxPayload
  BY <1>1, KissAssumption
<1>3. t \in Frames
  BY <1>1, <1>2 DEF Frames
<1>4. QED
  BY <1>3 DEF t

LEMMA EndedTyped ==
  ASSUME NEW buf \in Seq(Bytes), Len(buf) <= MaxPayload + 1, NEW in_frame,
         NEW out \in Seq(Frames)
  PROVE  Ended(buf, in_frame, out) \in Seq(Frames)
<1>1. CASE buf # << >>
  <2>1. Append(out, Tail(buf)) \in Seq(Frames)
    BY <1>1, TailIsFrame, AppendProperties
  <2>2. QED
    BY <2>1 DEF Ended
<1>2. CASE buf = << >>
  BY <1>2 DEF Ended
<1>3. QED
  BY <1>1, <1>2

LEMMA BoundaryTyped ==
  ASSUME NEW d \in Decoders
  PROVE  Boundary(d) \in Decoders
<1> DEFINE e == Dec(<< >>, TRUE, FALSE, Ended(d.buf, d.in_frame, d.out))
<1>1. Ended(d.buf, d.in_frame, d.out) \in Seq(Frames)
  BY DecParts, EndedTyped
<1>2. << >> \in Seq(Bytes) /\ Len(<< >>) <= MaxPayload + 1
  BY KissAssumption
<1>3. e \in Decoders
  BY <1>1, <1>2, DecTyped, Zenon
<1>4. Boundary(d) = d \/ Boundary(d) = e
  BY BoundaryIs, Zenon
<1>5. QED
  BY <1>3, <1>4, Zenon

LEMMA CollectTyped ==
  ASSUME NEW d \in Decoders, NEW b \in Bytes
  PROVE  Collect(d, b) \in Decoders
<1>1. CASE Len(d.buf) > MaxPayload
  <2>1. << >> \in Seq(Bytes) /\ Len(<< >>) <= MaxPayload + 1
    BY KissAssumption
  <2>2. d.out \in Seq(Frames)
    BY DecParts
  <2>3. Dec(<< >>, FALSE, FALSE, d.out) \in Decoders
    BY <2>1, <2>2, DecTyped, Zenon
  <2>4. QED
    BY <1>1, <2>3, CollectIs, Zenon
<1>2. CASE ~ (Len(d.buf) > MaxPayload)
  <2> DEFINE buf == Append(d.buf, b)
             no == FALSE
  <2>1. d.buf \in Seq(Bytes) /\ d.out \in Seq(Frames) /\ d.in_frame \in BOOLEAN
    BY DecParts
  <2>2. buf \in Seq(Bytes) /\ Len(buf) <= MaxPayload + 1
    BY <1>2, <2>1, KissAssumption
  <2>3. no \in BOOLEAN
    OBVIOUS
  <2>4. Collect(d, b) = Dec(buf, d.in_frame, no, d.out)
    BY <1>2, CollectIs, Zenon
  <2> HIDE DEF buf, no
  <2>5. QED
    BY <2>1, <2>2, <2>3, <2>4, DecTyped
<1>3. QED
  BY <1>1, <1>2

LEMMA EscapeTyped ==
  ASSUME NEW d \in Decoders, NEW e \in BOOLEAN
  PROVE  [d EXCEPT !.escape = e] \in Decoders
<1>1. [d EXCEPT !.escape = e] = Dec(d.buf, d.in_frame, e, d.out)
  BY EscapeIs
<1>2. QED
  BY <1>1, DecParts, DecTyped

LEMMA UnstuffedTyped == \A b \in Bytes : Unstuffed(b) \in Bytes
BY DEF Unstuffed, Bytes, FEND, FESC, TFEND, TFESC

LEMMA ByteTyped ==
  ASSUME NEW d \in Decoders, NEW b \in Bytes
  PROVE  DecoderFeed(d, b) \in Decoders
<1>1. Unstuffed(b) \in Bytes
  BY UnstuffedTyped
<1> DEFINE k == DecoderFeed(d, b)
           end == Boundary(d)
           e == [d EXCEPT !.escape = TRUE]
           c == Collect(d, b)
           u == Collect(d, Unstuffed(b))
<1>2. k = end \/ k = d \/ k = u \/ k = e \/ k = c
  BY ByteByByte
<1>3. TRUE \in BOOLEAN
  OBVIOUS
<1>4. e \in Decoders
  BY <1>3, EscapeTyped, Zenon
<1>5. end \in Decoders /\ c \in Decoders /\ u \in Decoders
  BY <1>1, BoundaryTyped, CollectTyped, Zenon
<1> HIDE DEF k, end, e, c, u
<1>6. k \in Decoders
  BY <1>2, <1>4, <1>5, Zenon
<1>7. QED
  BY <1>6 DEF k

LEMMA FedTyped ==
  ASSUME NEW d \in Decoders
  PROVE  \A s \in Seq(Bytes) : Fed(d, s) \in Decoders
<1> DEFINE S == {s \in Seq(Bytes) : Fed(d, s) \in Decoders}
<1>1. << >> \in S
  BY FedNothing, EmptySeq
<1>2. \A s \in S : \A b \in Bytes : Append(s, b) \in S
  BY FedMore, ByteTyped
<1>3. S \in SUBSET Seq(Bytes)
  OBVIOUS
<1> HIDE DEF S
<1>4. S = Seq(Bytes)
  BY <1>1, <1>2, <1>3, AllSequences
<1>5. QED
  BY <1>4 DEF S

-----------------------------------------------------------------------------
(* What was taken before                                                   *)

(* d, had it handed out o before.                                          *)
Past(o, d) == [d EXCEPT !.out = o \o @]

LEMMA PastIs ==
  ASSUME NEW o, NEW d \in Decoders
  PROVE  Past(o, d) = Dec(d.buf, d.in_frame, d.escape, o \o d.out)
<1>1. d = Dec(d.buf, d.in_frame, d.escape, d.out)
  BY DecParts
<1>2. \A x : [d EXCEPT !.out = x] = Dec(d.buf, d.in_frame, d.escape, x)
  BY <1>1, DecChanged
<1>3. QED
  BY <1>2, Zenon DEF Past

LEMMA PastDec ==
  ASSUME NEW o, NEW buf, NEW in_frame, NEW escape, NEW out
  PROVE  Past(o, Dec(buf, in_frame, escape, out)) = Dec(buf, in_frame, escape, o \o out)
<1>1. \A x : [Dec(buf, in_frame, escape, out) EXCEPT !.out = x] = Dec(buf, in_frame, escape, x)
  BY DEF Dec
<1>2. Dec(buf, in_frame, escape, out).out = out
  BY DEF Dec
<1>3. QED
  BY <1>1, <1>2 DEF Past

LEMMA PastTyped ==
  ASSUME NEW o \in Seq(Frames), NEW d \in Decoders
  PROVE  /\ Past(o, d) \in Decoders
         /\ Past(o, d).buf = d.buf /\ Past(o, d).in_frame = d.in_frame
         /\ Past(o, d).escape = d.escape /\ Past(o, d).out = o \o d.out
<1>1. o \o d.out \in Seq(Frames)
  BY DecParts, ConcatProperties
<1>2. Dec(d.buf, d.in_frame, d.escape, o \o d.out) \in Decoders
  BY <1>1, DecParts, DecTyped
<1>3. Past(o, d) = Dec(d.buf, d.in_frame, d.escape, o \o d.out)
  BY PastIs
<1>4. QED
  BY <1>2, <1>3 DEF Dec

LEMMA EndedPast ==
  ASSUME NEW buf \in Seq(Bytes), buf # << >>, Len(buf) <= MaxPayload + 1, NEW in_frame,
         NEW o \in Seq(Frames), NEW out \in Seq(Frames)
  PROVE  Ended(buf, in_frame, o \o out) = o \o Ended(buf, in_frame, out)
<1>1. Tail(buf) \in Frames
  BY TailIsFrame
<1>2. o \o Append(out, Tail(buf)) = Append(o \o out, Tail(buf))
  <2> DEFINE t == Tail(buf)
  <2> HIDE DEF t
  <2>1. o \o Append(out, t) = Append(o \o out, t)
    OBVIOUS
  <2>2. QED
    BY <2>1 DEF t
<1>3. QED
  BY <1>2, Zenon DEF Ended

LEMMA BoundaryPast ==
  ASSUME NEW o \in Seq(Frames), NEW d \in Decoders
  PROVE  Boundary(Past(o, d)) = Past(o, Boundary(d))
<1> DEFINE p == Past(o, d)
<1>1. /\ p \in Decoders
      /\ p.buf = d.buf /\ p.in_frame = d.in_frame /\ p.escape = d.escape /\ p.out = o \o d.out
  BY PastTyped
<1> HIDE DEF p
<1>2. CASE d.in_frame /\ d.buf = << >>
  <2>1. Boundary(p) = p /\ Boundary(d) = d
    BY <1>1, <1>2, BoundaryIs, Zenon
  <2>2. QED
    BY <2>1 DEF p
<1>3. CASE ~ (d.in_frame /\ d.buf = << >>)
  <2> DEFINE e == Ended(d.buf, d.in_frame, d.out)
  <2>1. Boundary(d) = Dec(<< >>, TRUE, FALSE, e)
    BY <1>3, BoundaryIs, Zenon
  <2>2. Boundary(p) = Dec(<< >>, TRUE, FALSE, Ended(p.buf, p.in_frame, p.out))
    BY <1>1, <1>3, BoundaryIs, Zenon
  <2>3. Ended(d.buf, d.in_frame, o \o d.out) = o \o e
    <3>1. CASE d.buf = << >>
      BY <3>1, Zenon DEF Ended
    <3>2. CASE d.buf # << >>
      BY <3>2, DecParts, EndedPast
    <3>3. QED
      BY <3>1, <3>2
  <2> HIDE DEF e
  <2>4. Past(o, Dec(<< >>, TRUE, FALSE, e)) = Dec(<< >>, TRUE, FALSE, o \o e)
    BY PastDec, Zenon
  <2>5. Boundary(p) = Dec(<< >>, TRUE, FALSE, o \o e)
    <3>1. Ended(p.buf, p.in_frame, p.out) = o \o e
      <4>1. p.buf = d.buf /\ p.in_frame = d.in_frame /\ p.out = o \o d.out
        BY <1>1
      <4>2. QED
        BY <2>3, <4>1, Zenon
    <3>2. QED
      BY <2>2, <3>1, Zenon
  <2>6. QED
    BY <2>1, <2>4, <2>5, Zenon DEF p
<1>4. QED
  BY <1>2, <1>3

LEMMA CollectPast ==
  ASSUME NEW o \in Seq(Frames), NEW d \in Decoders, NEW b
  PROVE  Collect(Past(o, d), b) = Past(o, Collect(d, b))
<1> DEFINE p == Past(o, d)
<1>1. /\ p \in Decoders
      /\ p.buf = d.buf /\ p.in_frame = d.in_frame /\ p.escape = d.escape /\ p.out = o \o d.out
  BY PastTyped
<1> HIDE DEF p
<1>2. CASE Len(d.buf) > MaxPayload
  <2>1. Collect(d, b) = Dec(<< >>, FALSE, FALSE, d.out)
    BY <1>2, CollectIs, Zenon
  <2>2. Collect(p, b) = Dec(<< >>, FALSE, FALSE, p.out)
    BY <1>1, <1>2, CollectIs, Zenon
  <2>3. Past(o, Dec(<< >>, FALSE, FALSE, d.out)) = Dec(<< >>, FALSE, FALSE, o \o d.out)
    BY PastDec, Zenon
  <2>4. Collect(p, b) = Dec(<< >>, FALSE, FALSE, o \o d.out)
    <3>1. p.out = o \o d.out
      BY <1>1
    <3>2. QED
      BY <2>2, <3>1, Zenon
  <2>5. QED
    BY <2>1, <2>3, <2>4, Zenon DEF p
<1>3. CASE ~ (Len(d.buf) > MaxPayload)
  <2>1. Collect(d, b) = Dec(Append(d.buf, b), d.in_frame, FALSE, d.out)
    BY <1>3, CollectIs, Zenon
  <2>2. Collect(p, b) = Dec(Append(p.buf, b), p.in_frame, FALSE, p.out)
    BY <1>1, <1>3, CollectIs, Zenon
  <2> DEFINE buf == Append(d.buf, b)
  <2>3. Past(o, Dec(buf, d.in_frame, FALSE, d.out)) = Dec(buf, d.in_frame, FALSE, o \o d.out)
    BY PastDec, Zenon
  <2>4. Collect(p, b) = Dec(buf, d.in_frame, FALSE, o \o d.out)
    <3>1. Append(p.buf, b) = buf
      BY <1>1
    <3>2. p.in_frame = d.in_frame /\ p.out = o \o d.out
      BY <1>1
    <3> HIDE DEF buf
    <3>3. QED
      BY <2>2, <3>1, <3>2, Zenon
  <2>5. QED
    BY <2>1, <2>3, <2>4, Zenon DEF p
<1>4. QED
  BY <1>2, <1>3

LEMMA EscapePast ==
  ASSUME NEW o \in Seq(Frames), NEW d \in Decoders, NEW e
  PROVE  [Past(o, d) EXCEPT !.escape = e] = Past(o, [d EXCEPT !.escape = e])
<1> DEFINE p == Past(o, d)
<1>1. /\ p \in Decoders
      /\ p.buf = d.buf /\ p.in_frame = d.in_frame /\ p.out = o \o d.out
  BY PastTyped
<1> HIDE DEF p
<1>2. [p EXCEPT !.escape = e] = Dec(p.buf, p.in_frame, e, p.out)
  BY <1>1, EscapeIs
<1>3. [d EXCEPT !.escape = e] = Dec(d.buf, d.in_frame, e, d.out)
  BY EscapeIs
<1>4. Past(o, Dec(d.buf, d.in_frame, e, d.out)) = Dec(d.buf, d.in_frame, e, o \o d.out)
  BY PastDec, Zenon
<1>5. [p EXCEPT !.escape = e] = Dec(d.buf, d.in_frame, e, o \o d.out)
  <2>1. p.buf = d.buf /\ p.in_frame = d.in_frame /\ p.out = o \o d.out
    BY <1>1
  <2>2. QED
    BY <1>2, <2>1, Zenon
<1>6. QED
  BY <1>3, <1>4, <1>5, Zenon DEF p

LEMMA BytePast ==
  ASSUME NEW o \in Seq(Frames), NEW d \in Decoders, NEW b \in Bytes
  PROVE  DecoderFeed(Past(o, d), b) = Past(o, DecoderFeed(d, b))
<1> DEFINE p == Past(o, d)
<1>1. p \in Decoders /\ p.in_frame = d.in_frame /\ p.escape = d.escape
  BY PastTyped
<1>2. DecoderFeed(p, b) =
        IF b = FEND THEN Boundary(p)
        ELSE IF ~ d.in_frame THEN p
        ELSE IF d.escape THEN Collect(p, Unstuffed(b))
        ELSE IF b = FESC THEN [p EXCEPT !.escape = TRUE]
        ELSE Collect(p, b)
  BY <1>1, ByteByByte, Zenon
<1>3. /\ Boundary(p) = Past(o, Boundary(d)) /\ Collect(p, b) = Past(o, Collect(d, b))
      /\ Collect(p, Unstuffed(b)) = Past(o, Collect(d, Unstuffed(b)))
      /\ [p EXCEPT !.escape = TRUE] = Past(o, [d EXCEPT !.escape = TRUE])
  <2>1. Boundary(p) = Past(o, Boundary(d))
    BY BoundaryPast
  <2>2. \A c : Collect(p, c) = Past(o, Collect(d, c))
    BY CollectPast
  <2>3. \A e : [p EXCEPT !.escape = e] = Past(o, [d EXCEPT !.escape = e])
    BY EscapePast
  <2> HIDE DEF p
  <2>4. QED
    BY <2>1, <2>2, <2>3, Zenon
<1> HIDE DEF p
<1>4. QED
  BY <1>2, <1>3, ByteByByte, Zenon DEF p

LEMMA FedPast ==
  ASSUME NEW o \in Seq(Frames), NEW d \in Decoders
  PROVE  \A s \in Seq(Bytes) : Fed(Past(o, d), s) = Past(o, Fed(d, s))
<1> DEFINE S == {s \in Seq(Bytes) : Fed(Past(o, d), s) = Past(o, Fed(d, s))}
<1>1. << >> \in S
  BY FedNothing, EmptySeq
<1>2. ASSUME NEW s \in S, NEW b \in Bytes
      PROVE  Append(s, b) \in S
  <2>1. s \in Seq(Bytes) /\ Append(s, b) \in Seq(Bytes) /\ Fed(d, s) \in Decoders
    BY FedTyped
  <2>2. Fed(Past(o, d), Append(s, b)) = DecoderFeed(Past(o, Fed(d, s)), b)
    BY <2>1, FedMore
  <2>3. Fed(d, Append(s, b)) = DecoderFeed(Fed(d, s), b)
    BY <2>1, FedMore
  <2>4. QED
    BY <2>1, <2>2, <2>3, BytePast
<1>3. S \in SUBSET Seq(Bytes)
  OBVIOUS
<1> HIDE DEF S
<1>4. S = Seq(Bytes)
  BY <1>1, <1>2, <1>3, AllSequences
<1>5. QED
  BY <1>4 DEF S

-----------------------------------------------------------------------------
(* How a frame is encoded                                                  *)

Encoded(data) == FlattenSeq([i \in DOMAIN data |-> Stuffed(data[i])])

(* Between the FENDs of a frame there is none.                             *)
Inner == Bytes \ {FEND}

LEMMA InnerBytes == \A s \in Seq(Inner) : s \in Seq(Bytes)
BY DEF Inner

LEMMA ConcatThree ==
  \A s, t, u \in Seq(Bytes) : (s \o t) \o u = s \o (t \o u)
  OBVIOUS

LEMMA StuffedIs ==
  ASSUME NEW b \in Bytes
  PROVE  Stuffed(b) = IF b = FEND THEN <<FESC, TFEND>>
                      ELSE IF b = FESC THEN <<FESC, TFESC>> ELSE <<b>>
<1>1. FEND # FESC
  BY DEF FEND, FESC
<1>2. CASE b = FEND
  BY <1>1, <1>2 DEF Stuffed
<1>3. CASE b = FESC
  BY <1>1, <1>3 DEF Stuffed
<1>4. CASE b # FEND /\ b # FESC
  BY <1>4, Zenon DEF Stuffed
<1>5. QED
  BY <1>1, <1>2, <1>3, <1>4

LEMMA StuffedTyped == \A b \in Bytes : Stuffed(b) \in Seq(Inner) /\ Stuffed(b) \in Seq(Bytes)
<1>1. {FESC, TFEND, TFESC} \subseteq Inner
  BY DEF Inner, Bytes, FEND, FESC, TFEND, TFESC
<1>2. TAKE b \in Bytes
<1>3. <<FESC, TFEND>> \in Seq(Inner) /\ <<FESC, TFESC>> \in Seq(Inner)
  BY <1>1
<1>4. b # FEND => <<b>> \in Seq(Inner)
  BY DEF Inner
<1>5. Stuffed(b) \in Seq(Inner)
  BY <1>3, <1>4, StuffedIs, Zenon
<1>6. QED
  BY <1>5, InnerBytes

LEMMA EncodedIs ==
  ASSUME NEW s \in Seq(Bytes)
  PROVE  Encoded(s) = FlattenSeq(Mapped([b \in Bytes |-> Stuffed(b)], s))
<1> DEFINE m == [b \in Bytes |-> Stuffed(b)]
<1>1. \A i \in DOMAIN s : m[s[i]] = Stuffed(s[i])
  OBVIOUS
<1> HIDE DEF m
<1>2. [i \in DOMAIN s |-> Stuffed(s[i])] = Mapped(m, s)
  BY <1>1 DEF Mapped
<1>3. QED
  BY <1>2, Zenon DEF Encoded, m

LEMMA EncodedNothing == Encoded(<< >>) = << >>
<1>1. << >> \in Seq(Bytes)
  OBVIOUS
<1>2. QED
  BY <1>1, EncodedIs, FlattenMapNothing

LEMMA EncodedMore ==
  ASSUME NEW s \in Seq(Bytes), NEW b \in Bytes
  PROVE  Encoded(Append(s, b)) = Encoded(s) \o Stuffed(b)
<1> DEFINE m == [c \in Bytes |-> Stuffed(c)]
<1>1. (\A c \in Bytes : m[c] \in Seq(Bytes)) /\ m[b] = Stuffed(b)
  BY StuffedTyped
<1>2. Append(s, b) \in Seq(Bytes)
  OBVIOUS
<1>3. Encoded(s) = FlattenSeq(Mapped(m, s))
      /\ Encoded(Append(s, b)) = FlattenSeq(Mapped(m, Append(s, b)))
  BY <1>2, EncodedIs
<1> HIDE DEF m
<1>4. FlattenSeq(Mapped(m, Append(s, b))) = FlattenSeq(Mapped(m, s)) \o m[b]
  <2>1. \A c \in Bytes : m[c] \in Seq(Bytes)
    BY <1>1
  <2>2. Mapped(m, s) \in Seq(Seq(Bytes)) /\ m[b] \in Seq(Bytes)
    BY <2>1, MappedTyped
  <2>3. Mapped(m, Append(s, b)) = Append(Mapped(m, s), m[b])
    BY MappedMore
  <2>4. QED
    BY <2>2, <2>3, FlattenMore
<1>5. QED
  BY <1>1, <1>3, <1>4

LEMMA EncodedTyped ==
  \A s \in Seq(Bytes) : Encoded(s) \in Seq(Inner) /\ Encoded(s) \in Seq(Bytes)
<1> TAKE s \in Seq(Bytes)
<1> DEFINE m == [b \in Bytes |-> Stuffed(b)]
<1>1. \A b \in Bytes : m[b] \in Seq(Inner)
  BY StuffedTyped
<1>2. Encoded(s) = FlattenSeq(Mapped(m, s))
  BY EncodedIs
<1> HIDE DEF m
<1>3. Encoded(s) \in Seq(Inner)
  BY <1>1, <1>2, FlattenMapTyped
<1>4. QED
  BY <1>3, InnerBytes

(* An encoded frame: a FEND, its inner bytes, a FEND.                      *)
LEMMA KissEncodeIs ==
  ASSUME NEW f \in Seq(Bytes)
  PROVE  /\ KissEncode(f) = (<<FEND>> \o (<< 0 >> \o Encoded(f))) \o <<FEND>>
         /\ <<FEND>> \in Seq(Bytes) /\ << 0 >> \in Seq(Bytes)
         /\ << 0 >> \o Encoded(f) \in Seq(Inner) /\ << 0 >> \o Encoded(f) \in Seq(Bytes)
         /\ KissEncode(f) \in Seq(Bytes)
<1> DEFINE e == Encoded(f)
<1>1. e \in Seq(Inner) /\ e \in Seq(Bytes)
  BY EncodedTyped
<1>2. FEND \in Bytes /\ 0 \in Inner /\ 0 \in Bytes
  BY DEF Bytes, Inner, FEND
<1>3. KissEncode(f) = (<<FEND, 0>> \o e) \o <<FEND>>
  BY Zenon DEF KissEncode, Encoded
<1> HIDE DEF e
<1>4. <<FEND, 0>> \o e = <<FEND>> \o (<< 0 >> \o e)
  <2>1. <<FEND, 0>> = <<FEND>> \o << 0 >>
    OBVIOUS
  <2>2. <<FEND>> \in Seq(Bytes) /\ << 0 >> \in Seq(Bytes)
    BY <1>2
  <2> DEFINE a == <<FEND>>
             z == << 0 >>
  <2> HIDE DEF a, z
  <2>3. (a \o z) \o e = a \o (z \o e)
    BY <1>1, <2>2, ConcatThree DEF a, z
  <2>4. QED
    BY <2>1, <2>3, Zenon DEF a, z
<1>5. <<FEND>> \in Seq(Bytes) /\ << 0 >> \in Seq(Bytes) /\ << 0 >> \in Seq(Inner)
  BY <1>2
<1>6. /\ << 0 >> \o e \in Seq(Inner) /\ << 0 >> \o e \in Seq(Bytes)
      /\ <<FEND>> \o (<< 0 >> \o e) \in Seq(Bytes)
      /\ (<<FEND>> \o (<< 0 >> \o e)) \o <<FEND>> \in Seq(Bytes)
  BY <1>1, <1>5, ConcatProperties, Zenon
<1>7. QED
  BY <1>3, <1>4, <1>5, <1>6, Zenon DEF e

-----------------------------------------------------------------------------
(* A frame decoded                                                         *)

LEMMA FedOne ==
  ASSUME NEW d, NEW b \in Bytes
  PROVE  Fed(d, <<b>>) = DecoderFeed(d, b)
<1>1. <<b>> = Append(<< >>, b) /\ << >> \in Seq(Bytes)
  OBVIOUS
<1>2. Fed(d, Append(<< >>, b)) = DecoderFeed(Fed(d, << >>), b)
  BY <1>1, FedMore, Zenon
<1>3. Fed(d, << >>) = d
  BY FedNothing, Zenon
<1>4. QED
  BY <1>1, <1>2, <1>3, Zenon

(* A decoder between two frames, one within a frame with buf collected,    *)
(* and one that waits for a FEND; out is what they have handed out.        *)
Settled(d, out) == d \in Decoders /\ d.buf = << >> /\ ~ d.escape /\ d.out = out
Collects(d, buf, out) == d \in Decoders /\ d.buf = buf /\ d.in_frame /\ ~ d.escape /\ d.out = out
Lost(d, out) == Settled(d, out) /\ ~ d.in_frame

LEMMA SettledDec ==
  ASSUME NEW in_frame \in BOOLEAN, NEW out \in Seq(Frames)
  PROVE  Settled(Dec(<< >>, in_frame, FALSE, out), out)
<1> DEFINE no == FALSE
           d == Dec(<< >>, in_frame, no, out)
<1>1. no \in BOOLEAN /\ ~ no /\ << >> \in Seq(Bytes) /\ Len(<< >>) <= MaxPayload + 1
  BY KissAssumption
<1> HIDE DEF no
<1>2. d \in Decoders
  BY <1>1, DecTyped, Zenon
<1>3. d.buf = << >> /\ d.escape = no /\ d.out = out
  BY DecFields
<1> HIDE DEF d
<1>4. Settled(d, out)
  BY <1>1, <1>2, <1>3 DEF Settled
<1>5. QED
  BY <1>4 DEF d, no

(* A FEND between two frames, and one that is waited for.                  *)
LEMMA StartCollects ==
  ASSUME NEW d, NEW out, Settled(d, out)
  PROVE  Collects(DecoderFeed(d, FEND), << >>, out)
<1>1. d \in Decoders /\ d.buf = << >> /\ ~ d.escape /\ d.out = out
  BY DEF Settled
<1>2. DecoderFeed(d, FEND) = Boundary(d)
  BY <1>1, ByteByByte
<1>3. CASE d.in_frame
  <2>1. Boundary(d) = d
    BY <1>1, <1>3, BoundaryIs, Zenon
  <2>2. QED
    BY <1>1, <1>2, <1>3, <2>1, Zenon DEF Collects
<1>4. CASE ~ d.in_frame
  <2>1. Ended(d.buf, d.in_frame, d.out) = out
    BY <1>1, <1>4, Zenon DEF Ended
  <2>2. Boundary(d) = Dec(<< >>, TRUE, FALSE, out)
    BY <1>1, <1>4, <2>1, BoundaryIs, Zenon
  <2>3. out \in Seq(Frames) /\ TRUE \in BOOLEAN
    BY <1>1, DecParts
  <2>4. Settled(Dec(<< >>, TRUE, FALSE, out), out)
    BY <2>3, SettledDec, Zenon
  <2> DEFINE yes == TRUE
             e == Dec(<< >>, yes, FALSE, out)
  <2>5. e.in_frame = yes
    BY DEF Dec
  <2>6. Settled(e, out) /\ e.in_frame
    BY <2>4, <2>5
  <2> HIDE DEF e
  <2>7. Collects(e, << >>, out)
    BY <2>6 DEF Collects, Settled
  <2>8. QED
    BY <1>2, <2>2, <2>7, Zenon DEF e
<1>5. QED
  BY <1>3, <1>4

LEMMA LostEnds ==
  ASSUME NEW d, NEW out, Lost(d, out)
  PROVE  Settled(DecoderFeed(d, FEND), out)
<1>1. Collects(DecoderFeed(d, FEND), << >>, out)
  BY StartCollects DEF Lost
<1>2. QED
  BY <1>1 DEF Collects, Settled

(* Outside of a frame nothing but a FEND counts.                           *)
LEMMA FedOutside ==
  ASSUME NEW d \in Decoders, ~ d.in_frame
  PROVE  \A s \in Seq(Inner) : Fed(d, s) = d
<1> DEFINE S == {s \in Seq(Inner) : Fed(d, s) = d}
<1>1. << >> \in S
  BY FedNothing, EmptySeq
<1>2. ASSUME NEW s \in S, NEW b \in Inner
      PROVE  Append(s, b) \in S
  <2>1. s \in Seq(Inner) /\ Append(s, b) \in Seq(Inner) /\ Fed(d, s) = d
    OBVIOUS
  <2>2. s \in Seq(Bytes) /\ b \in Bytes /\ b # FEND
    BY <2>1, InnerBytes DEF Inner
  <2>3. Fed(d, Append(s, b)) = DecoderFeed(d, b)
    BY <2>1, <2>2, FedMore
  <2>4. DecoderFeed(d, b) = d
    BY <2>2, ByteByByte
  <2>5. QED
    BY <2>1, <2>3, <2>4
<1>3. S \in SUBSET Seq(Inner)
  OBVIOUS
<1> HIDE DEF S
<1>4. S = Seq(Inner)
  BY <1>1, <1>2, <1>3, AllSequences
<1>5. QED
  BY <1>4 DEF S

(* A byte more of a frame.                                                 *)
Collected(d, buf, out) ==
  IF Len(buf) <= MaxPayload + 1 THEN Collects(d, buf, out) ELSE Lost(d, out)

LEMMA CollectEffect ==
  ASSUME NEW d \in Decoders, d.in_frame, NEW b \in Bytes
  PROVE  Collected(Collect(d, b), Append(d.buf, b), d.out)
<1>1. d.buf \in Seq(Bytes) /\ Len(d.buf) \in Nat /\ d.out \in Seq(Frames)
  BY DecParts
<1>2. Len(Append(d.buf, b)) = Len(d.buf) + 1
  BY <1>1
<1>3. CASE Len(d.buf) > MaxPayload
  <2>1. Collect(d, b) = Dec(<< >>, FALSE, FALSE, d.out)
    BY <1>3, CollectIs, Zenon
  <2> DEFINE no == FALSE
             e == Dec(<< >>, no, FALSE, d.out)
  <2>2. no \in BOOLEAN /\ ~ no
    OBVIOUS
  <2> HIDE DEF no
  <2>3. Settled(e, d.out)
    BY <1>1, <2>2, SettledDec, Zenon
  <2>4. e.in_frame = no
    BY DEF Dec
  <2> HIDE DEF e
  <2>5. Lost(e, d.out)
    BY <2>2, <2>3, <2>4 DEF Lost
  <2>6. ~ (Len(Append(d.buf, b)) <= MaxPayload + 1)
    BY <1>1, <1>2, <1>3, KissAssumption
  <2>7. QED
    BY <2>1, <2>5, <2>6, Zenon DEF Collected, e, no
<1>4. CASE ~ (Len(d.buf) > MaxPayload)
  <2> DEFINE no == FALSE
             buf == Append(d.buf, b)
             e == Dec(buf, d.in_frame, no, d.out)
  <2>1. Collect(d, b) = e
    BY <1>4, CollectIs, Zenon
  <2>2. Collect(d, b) \in Decoders
    BY CollectTyped
  <2>3. no \in BOOLEAN /\ ~ no
    OBVIOUS
  <2>4. Len(buf) <= MaxPayload + 1
    BY <1>1, <1>2, <1>4, KissAssumption
  <2> HIDE DEF no, buf
  <2>5. e.buf = buf /\ e.in_frame = d.in_frame /\ e.escape = no /\ e.out = d.out
    BY DEF Dec
  <2> HIDE DEF e
  <2>6. Collects(e, buf, d.out)
    BY <2>1, <2>2, <2>3, <2>5 DEF Collects
  <2>7. QED
    BY <2>1, <2>4, <2>6, Zenon DEF Collected, buf
<1>5. QED
  BY <1>3, <1>4

LEMMA PlainCollected ==
  ASSUME NEW d, NEW buf \in Seq(Bytes), NEW out, Collects(d, buf, out),
         NEW b \in Bytes, b # FEND, b # FESC
  PROVE  Collected(DecoderFeed(d, b), Append(buf, b), out)
<1>1. d \in Decoders /\ d.buf = buf /\ d.in_frame /\ ~ d.escape /\ d.out = out
  BY DEF Collects
<1>2. DecoderFeed(d, b) = Collect(d, b)
  BY <1>1, ByteByByte
<1>3. QED
  BY <1>1, <1>2, CollectEffect

LEMMA EscapeCollected ==
  ASSUME NEW d, NEW buf \in Seq(Bytes), NEW out, Collects(d, buf, out),
         NEW c \in {TFEND, TFESC}
  PROVE  Collected(Fed(d, <<FESC, c>>), Append(buf, Unstuffed(c)), out)
<1> DEFINE yes == TRUE
           e == [d EXCEPT !.escape = yes]
<1>1. d \in Decoders /\ d.in_frame /\ ~ d.escape /\ d.buf = buf /\ d.out = out
  BY DEF Collects
<1>2. yes \in BOOLEAN /\ yes
  OBVIOUS
<1>3. FESC \in Bytes /\ c \in Bytes /\ FESC # FEND /\ c # FEND
  BY DEF Bytes, FEND, FESC, TFEND, TFESC
<1>4. DecoderFeed(d, FESC) = e
  BY <1>1, <1>3, ByteByByte
<1> HIDE DEF yes
<1>5. e \in Decoders /\ e.buf = buf /\ e.in_frame = d.in_frame /\ e.escape = yes /\ e.out = out
  <2>1. e \in Decoders
    BY <1>1, <1>2, EscapeTyped, Zenon
  <2>2. e = Dec(d.buf, d.in_frame, yes, d.out)
    BY <1>1, EscapeIs, Zenon
  <2> HIDE DEF e
  <2>3. QED
    BY <1>1, <2>1, <2>2 DEF Dec
<1> HIDE DEF e
<1>6. DecoderFeed(e, c) = Collect(e, Unstuffed(c))
  BY <1>1, <1>2, <1>3, <1>5, ByteByByte
<1>7. Unstuffed(c) \in Bytes
  BY <1>3, UnstuffedTyped
<1>8. Collected(Collect(e, Unstuffed(c)), Append(buf, Unstuffed(c)), out)
  BY <1>1, <1>5, <1>7, CollectEffect
<1>9. Fed(d, <<FESC, c>>) = DecoderFeed(e, c)
  <2>1. <<FESC, c>> = Append(<<FESC>>, c) /\ <<FESC>> \in Seq(Bytes)
    BY <1>3
  <2>2. Fed(d, Append(<<FESC>>, c)) = DecoderFeed(Fed(d, <<FESC>>), c)
    BY <1>3, <2>1, FedMore, Zenon
  <2>3. Fed(d, <<FESC>>) = e
    BY <1>3, <1>4, FedOne, Zenon
  <2>4. QED
    BY <2>1, <2>2, <2>3, Zenon
<1>10. QED
  BY <1>6, <1>8, <1>9, Zenon

LEMMA StuffedCollected ==
  ASSUME NEW d, NEW buf \in Seq(Bytes), NEW out, Collects(d, buf, out), NEW b \in Bytes
  PROVE  Collected(Fed(d, Stuffed(b)), Append(buf, b), out)
<1>1. /\ Unstuffed(TFEND) = FEND /\ Unstuffed(TFESC) = FESC /\ FESC # FEND
      /\ TFEND \in {TFEND, TFESC} /\ TFESC \in {TFEND, TFESC}
  BY DEF Unstuffed, TFEND, TFESC, FESC, FEND
<1>2. CASE b = FEND
  <2>1. Stuffed(b) = <<FESC, TFEND>>
    BY <1>2, StuffedIs
  <2>2. Collected(Fed(d, <<FESC, TFEND>>), Append(buf, Unstuffed(TFEND)), out)
    BY <1>1, EscapeCollected
  <2>3. QED
    BY <1>1, <1>2, <2>1, <2>2
<1>3. CASE b = FESC
  <2>1. Stuffed(b) = <<FESC, TFESC>>
    BY <1>1, <1>3, StuffedIs
  <2>2. Collected(Fed(d, <<FESC, TFESC>>), Append(buf, Unstuffed(TFESC)), out)
    BY <1>1, EscapeCollected
  <2>3. QED
    BY <1>1, <1>3, <2>1, <2>2
<1>4. CASE b # FEND /\ b # FESC
  <2>1. Stuffed(b) = <<b>>
    BY <1>4, StuffedIs
  <2>2. Fed(d, <<b>>) = DecoderFeed(d, b)
    BY FedOne
  <2>3. QED
    BY <1>4, <2>1, <2>2, PlainCollected
<1>5. QED
  BY <1>2, <1>3, <1>4

LEMMA LostStays ==
  ASSUME NEW d, NEW out, Lost(d, out), NEW s \in Seq(Inner)
  PROVE  Lost(Fed(d, s), out)
<1>1. d \in Decoders /\ ~ d.in_frame
  BY DEF Lost, Settled
<1>2. Fed(d, s) = d
  BY <1>1, FedOutside
<1>3. QED
  BY <1>2

(* The bytes of a frame are collected behind those collected before, or    *)
(* the frame is too long and lost.                                         *)
LEMMA EncodedCollected ==
  ASSUME NEW d, NEW buf \in Seq(Bytes), Len(buf) <= MaxPayload + 1, NEW out,
         Collects(d, buf, out)
  PROVE  \A s \in Seq(Bytes) : Collected(Fed(d, Encoded(s)), buf \o s, out)
<1> DEFINE Good(s) == Collected(Fed(d, Encoded(s)), buf \o s, out)
           S == {s \in Seq(Bytes) : Good(s)}
<1>1. Good(<< >>)
  <2>1. buf \o << >> = buf /\ Fed(d, Encoded(<< >>)) = d
    BY FedNothing, EncodedNothing, ConcatEmptySeq
  <2>2. QED
    BY <2>1 DEF Collected
<1>2. ASSUME NEW s \in Seq(Bytes), Good(s), NEW b \in Bytes
      PROVE  Good(Append(s, b))
  <2> DEFINE g == Fed(d, Encoded(s))
             c == buf \o s
  <2>1. /\ Append(s, b) \in Seq(Bytes)
        /\ c \in Seq(Bytes) /\ Len(c) \in Nat
        /\ Len(Append(c, b)) = Len(c) + 1
        /\ buf \o Append(s, b) = Append(c, b)
    OBVIOUS
  <2>2. /\ Encoded(s) \in Seq(Bytes)
        /\ Stuffed(b) \in Seq(Bytes) /\ Stuffed(b) \in Seq(Inner)
        /\ Encoded(Append(s, b)) = Encoded(s) \o Stuffed(b)
    BY EncodedMore, EncodedTyped, StuffedTyped
  <2>3. Fed(d, Encoded(Append(s, b))) = Fed(g, Stuffed(b))
    BY <2>2, FedBoth
  <2>4. Collected(g, c, out)
    BY <1>2
  <2> HIDE DEF g, c
  <2>5. CASE Len(c) <= MaxPayload + 1
    <3>1. Collects(g, c, out)
      BY <2>4, <2>5 DEF Collected
    <3>2. Collected(Fed(g, Stuffed(b)), Append(c, b), out)
      BY <2>1, <3>1, StuffedCollected
    <3>3. QED
      BY <2>1, <2>3, <3>2
  <2>6. CASE ~ (Len(c) <= MaxPayload + 1)
    <3>1. Lost(g, out)
      BY <2>4, <2>6 DEF Collected
    <3>2. Lost(Fed(g, Stuffed(b)), out)
      BY <2>2, <3>1, LostStays
    <3>3. ~ (Len(Append(c, b)) <= MaxPayload + 1)
      BY <2>1, <2>6, KissAssumption
    <3>4. QED
      BY <2>1, <2>3, <3>2, <3>3 DEF Collected
  <2>7. QED
    BY <2>5, <2>6
<1> HIDE DEF Good
<1>3. S \in SUBSET Seq(Bytes) /\ << >> \in S /\ \A s \in S : \A b \in Bytes : Append(s, b) \in S
  <2>1. << >> \in Seq(Bytes) /\ \A s \in Seq(Bytes) : \A b \in Bytes : Append(s, b) \in Seq(Bytes)
    OBVIOUS
  <2>2. QED
    BY <1>1, <1>2, <2>1
<1> HIDE DEF S
<1>4. S = Seq(Bytes)
  BY <1>3, AllSequences
<1>5. QED
  BY <1>4 DEF S, Good

(* What a frame adds to what is handed out.                                *)
Gained(out, f) == IF Len(f) <= MaxPayload THEN Append(out, f) ELSE out

LEMMA FrameEnds ==
  ASSUME NEW d, NEW f \in Frames, NEW out, Collects(d, << 0 >> \o f, out)
  PROVE  Settled(DecoderFeed(d, FEND), Append(out, f))
<1> DEFINE buf == << 0 >> \o f
<1>1. buf # << >> /\ buf[1] = 0 /\ Tail(buf) = f /\ 0 % 16 = 0
  BY DEF Frames
<1>2. d \in Decoders /\ d.buf = buf /\ d.in_frame /\ d.out = out
  BY DEF Collects
<1> HIDE DEF buf
<1>3. Ended(d.buf, d.in_frame, d.out) = Append(out, f)
  BY <1>1, <1>2 DEF Ended
<1>4. DecoderFeed(d, FEND) = Boundary(d)
  BY <1>2, ByteByByte
<1>5. Boundary(d) = Dec(<< >>, TRUE, FALSE, Append(out, f))
  BY <1>1, <1>2, <1>3, BoundaryIs, Zenon
<1>6. Append(out, f) \in Seq(Frames) /\ TRUE \in BOOLEAN
  BY <1>2, DecParts
<1>7. Settled(Dec(<< >>, TRUE, FALSE, Append(out, f)), Append(out, f))
  BY <1>6, SettledDec, Zenon
<1>8. QED
  BY <1>4, <1>5, <1>7, Zenon

LEMMA FrameFed ==
  ASSUME NEW d, NEW out, Settled(d, out), NEW f \in Seq(Bytes)
  PROVE  Settled(Fed(d, KissEncode(f)), Gained(out, f))
<1> DEFINE a == <<FEND>>
           z == << 0 >>
           e == Encoded(f)
           d1 == Fed(d, a)
           d2 == Fed(d1, z)
           d3 == Fed(d2, e)
<1>1. FEND \in Bytes /\ 0 \in Bytes /\ 0 # FEND /\ 0 # FESC
  BY DEF Bytes, FEND, FESC
<1>2. Collects(d1, << >>, out)
  BY <1>1, FedOne, StartCollects
<1>3. Collects(d2, z, out)
  <2>1. Append(<< >>, 0) = z /\ Len(z) = 1 /\ << >> \in Seq(Bytes)
    OBVIOUS
  <2> HIDE DEF d1
  <2>2. Collected(DecoderFeed(d1, 0), Append(<< >>, 0), out)
    BY <1>1, <1>2, <2>1, PlainCollected
  <2>3. d2 = DecoderFeed(d1, 0)
    BY <1>1, FedOne
  <2>4. Len(z) <= MaxPayload + 1
    BY <2>1, KissAssumption
  <2> HIDE DEF z, d2
  <2>5. QED
    BY <2>1, <2>2, <2>3, <2>4 DEF Collected
<1>4. z \in Seq(Bytes) /\ Len(z) <= MaxPayload + 1 /\ Len(z \o f) = Len(f) + 1 /\ Len(f) \in Nat
  BY <1>1, KissAssumption
<1>5. Collected(d3, z \o f, out)
  <2> HIDE DEF d2, z
  <2>1. QED
    BY <1>3, <1>4, EncodedCollected
<1>6. Settled(Fed(d3, a), Gained(out, f))
  <2>1. Fed(d3, a) = DecoderFeed(d3, FEND)
    BY <1>1, FedOne
  <2> HIDE DEF d3
  <2>2. CASE Len(f) <= MaxPayload
    <3>1. Collects(d3, z \o f, out)
      BY <1>4, <1>5, <2>2, KissAssumption DEF Collected
    <3>2. f \in Frames
      BY <2>2 DEF Frames
    <3>3. QED
      BY <2>1, <2>2, <3>1, <3>2, FrameEnds DEF Gained
  <2>3. CASE ~ (Len(f) <= MaxPayload)
    <3>1. Lost(d3, out)
      BY <1>4, <1>5, <2>3, KissAssumption DEF Collected
    <3>2. QED
      BY <2>1, <2>3, <3>1, LostEnds DEF Gained
  <2>4. QED
    BY <2>2, <2>3
<1>7. Fed(d, KissEncode(f)) = Fed(d3, a)
  <2>1. /\ KissEncode(f) = (a \o (z \o e)) \o a
        /\ a \in Seq(Bytes) /\ z \in Seq(Bytes) /\ z \o e \in Seq(Bytes) /\ e \in Seq(Bytes)
    BY KissEncodeIs, EncodedTyped
  <2> HIDE DEF a, z, e
  <2>2. a \o (z \o e) \in Seq(Bytes)
    <3>1. a \in Seq(Bytes) /\ z \o e \in Seq(Bytes)
      BY <2>1
    <3>2. QED
      BY <3>1, ConcatProperties
  <2>3. Fed(d, (a \o (z \o e)) \o a) = Fed(Fed(d, a \o (z \o e)), a)
    <3>1. a \in Seq(Bytes)
      BY <2>1
    <3>2. QED
      BY <2>2, <3>1, FedBoth, Zenon
  <2>4. Fed(d, a \o (z \o e)) = Fed(Fed(d, a), z \o e)
    BY <2>1, FedBoth, Zenon
  <2>5. Fed(Fed(d, a), z \o e) = Fed(Fed(Fed(d, a), z), e)
    BY <2>1, FedBoth, Zenon
  <2>6. QED
    BY <2>1, <2>3, <2>4, <2>5, Zenon
<1>8. QED
  BY <1>6, <1>7, Zenon

-----------------------------------------------------------------------------
(* What is left of a line                                                  *)

From(s, i) == SubSeq(s, i + 1, Len(s))

LEMMA FromTyped ==
  \A s \in Seq(Bytes) : \A i \in 0 .. Len(s) :
    From(s, i) \in Seq(Bytes) /\ Len(From(s, i)) = Len(s) - i
BY DEF From

LEMMA FromElements ==
  \A s \in Seq(Bytes) : \A i \in 0 .. Len(s) : \A k \in 1 .. Len(s) - i :
    From(s, i)[k] = s[i + k]
BY DEF From

LEMMA FromAll == \A s \in Seq(Bytes) : From(s, 0) = s /\ From(s, Len(s)) = << >>
BY DEF From

LEMMA FromInner == \A s \in Seq(Inner) : \A i \in 0 .. Len(s) : From(s, i) \in Seq(Inner)
BY DEF From

LEMMA FromFrom ==
  \A s \in Seq(Bytes) : \A n \in 0 .. Len(s) : \A i \in 0 .. Len(s) - n :
    From(From(s, n), i) = From(s, n + i)
BY DEF From

LEMMA FromCut ==
  ASSUME NEW s \in Seq(Bytes), NEW n \in 0 .. Len(s)
  PROVE  SubSeq(s, 1, n) \in Seq(Bytes) /\ s = SubSeq(s, 1, n) \o From(s, n)
<1>1. Len(s) \in Nat /\ 1 \in 1 .. Len(s) + 1 /\ n \in 1 - 1 .. Len(s) /\ Len(s) \in n .. Len(s)
  OBVIOUS
<1>2. SubSeq(s, 1, n) \o SubSeq(s, n + 1, Len(s)) = SubSeq(s, 1, Len(s))
  BY <1>1, ConcatAdjacentSubSeq, Zenon
<1>3. SubSeq(s, 1, Len(s)) = s /\ SubSeq(s, 1, n) \in Seq(Bytes)
  OBVIOUS
<1>4. QED
  BY <1>2, <1>3, Zenon DEF From

LEMMA SameElements ==
  ASSUME NEW s \in Seq(Bytes), NEW t \in Seq(Bytes), Len(s) = Len(t),
         \A k \in 1 .. Len(s) : s[k] = t[k]
  PROVE  s = t
OBVIOUS

LEMMA FromBoth ==
  ASSUME NEW s \in Seq(Bytes), NEW t \in Seq(Bytes), NEW i \in 0 .. Len(s \o t)
  PROVE  IF i <= Len(s) THEN From(s \o t, i) = From(s, i) \o t
         ELSE i - Len(s) \in 1 .. Len(t) /\ From(s \o t, i) = From(t, i - Len(s))
<1>1. /\ s \o t \in Seq(Bytes) /\ Len(s \o t) = Len(s) + Len(t)
      /\ Len(s) \in Nat /\ Len(t) \in Nat /\ i \in Nat /\ i <= Len(s) + Len(t)
      /\ \A k \in 1 .. Len(s) + Len(t) :
           (s \o t)[k] = IF k <= Len(s) THEN s[k] ELSE t[k - Len(s)]
  OBVIOUS
<1> DEFINE u == s \o t
           l == From(u, i)
<1>2. /\ l \in Seq(Bytes) /\ Len(l) = Len(s) + Len(t) - i
      /\ \A k \in 1 .. Len(s) + Len(t) - i : l[k] = u[i + k]
  <2>1. u \in Seq(Bytes) /\ i \in 0 .. Len(u) /\ Len(u) = Len(s) + Len(t)
    BY <1>1
  <2> HIDE DEF u
  <2>2. From(u, i) \in Seq(Bytes) /\ Len(From(u, i)) = Len(u) - i
    BY <2>1, FromTyped
  <2>3. \A k \in 1 .. Len(u) - i : From(u, i)[k] = u[i + k]
    BY <2>1, FromElements
  <2>4. QED
    BY <2>1, <2>2, <2>3
<1>3. CASE i <= Len(s)
  <2> DEFINE f == From(s, i)
             r == f \o t
  <2>1. /\ f \in Seq(Bytes) /\ Len(f) = Len(s) - i
        /\ \A k \in 1 .. Len(s) - i : f[k] = s[i + k]
    <3>1. i \in 0 .. Len(s)
      BY <1>1, <1>3
    <3>2. QED
      BY <3>1, FromTyped, FromElements
  <2> HIDE DEF f
  <2>2. /\ r \in Seq(Bytes) /\ Len(r) = Len(s) + Len(t) - i
        /\ \A k \in 1 .. Len(s) + Len(t) - i :
             r[k] = IF k <= Len(s) - i THEN f[k] ELSE t[k - (Len(s) - i)]
    <3>1. /\ r \in Seq(Bytes) /\ Len(r) = Len(f) + Len(t)
          /\ \A k \in 1 .. Len(f) + Len(t) :
               r[k] = IF k <= Len(f) THEN f[k] ELSE t[k - Len(f)]
      BY <2>1, ConcatProperties
    <3> HIDE DEF r
    <3>2. Len(f) = Len(s) - i /\ Len(f) + Len(t) = Len(s) + Len(t) - i
      BY <1>1, <2>1
    <3>3. QED
      BY <3>1, <3>2
  <2> HIDE DEF r, l, u
  <2>3. ASSUME NEW k \in 1 .. Len(s) + Len(t) - i
        PROVE  l[k] = r[k]
    <3>1. i + k \in 1 .. Len(s) + Len(t) /\ (i + k) - Len(s) = k - (Len(s) - i)
      BY <1>1, <1>3
    <3>2. l[k] = IF i + k <= Len(s) THEN s[i + k] ELSE t[(i + k) - Len(s)]
      BY <1>1, <1>2, <3>1 DEF u
    <3>3. QED
      BY <1>1, <1>3, <2>1, <2>2, <3>1, <3>2
  <2>4. l = r
    <3>1. Len(l) = Len(r) /\ \A k \in 1 .. Len(l) : l[k] = r[k]
      BY <1>2, <2>2, <2>3
    <3>2. QED
      BY <1>2, <2>2, <3>1, SameElements
  <2>5. QED
    BY <1>3, <2>4 DEF l, r, f, u
<1>4. CASE ~ (i <= Len(s))
  <2> DEFINE j == i - Len(s)
             r == From(t, j)
  <2>0. j \in 1 .. Len(t)
    BY <1>1, <1>4
  <2>1. /\ r \in Seq(Bytes) /\ Len(r) = Len(t) - j
        /\ \A k \in 1 .. Len(t) - j : r[k] = t[j + k]
    <3>1. j \in 0 .. Len(t)
      BY <1>1, <2>0
    <3> HIDE DEF j
    <3>2. QED
      BY <3>1, FromTyped, FromElements
  <2> HIDE DEF r, l, u
  <2>2. ASSUME NEW k \in 1 .. Len(t) - j
        PROVE  l[k] = r[k]
    <3>1. i + k \in 1 .. Len(s) + Len(t) /\ (i + k) - Len(s) = j + k /\ ~ (i + k <= Len(s))
      BY <1>1, <1>4
    <3>2. l[k] = t[(i + k) - Len(s)]
      BY <1>1, <1>2, <3>1 DEF u
    <3>3. QED
      BY <2>1, <3>1, <3>2
  <2>3. l = r
    <3>1. Len(t) - j = Len(s) + Len(t) - i
      BY <1>1 DEF j
    <3> HIDE DEF j
    <3>2. Len(l) = Len(r) /\ \A k \in 1 .. Len(l) : l[k] = r[k]
      BY <1>2, <2>1, <2>2, <3>1
    <3>3. QED
      BY <1>2, <2>1, <3>2, SameElements
  <2>4. QED
    BY <1>4, <2>0, <2>3 DEF l, r, u
<1>5. QED
  BY <1>3, <1>4

(* A decoder between frames that has handed out frames of G only.          *)
Clean(d, G) == Settled(d, d.out) /\ ToSet(d.out) \subseteq G

(* Lines that from wherever they are read hold frames of G only.           *)
Lines(G) ==
  {l \in Seq(Bytes) : \A i \in 0 .. Len(l) : Clean(Fed(DecoderInit, From(l, i)), G)}

(* What may be sent: of what fits the decoder only frames of G.            *)
Sendable(G) == {f \in Seq(Bytes) : Len(f) <= MaxPayload => f \in G}

LEMMA ToSetMore ==
  ASSUME NEW q \in Seq(Frames)
  PROVE  /\ ToSet(<< >>) = {}
         /\ \A f \in Frames : ToSet(Append(q, f)) = ToSet(q) \cup {f}
         /\ \A r \in Seq(Frames) : ToSet(q \o r) = ToSet(q) \cup ToSet(r)
<1>1. \A s : ToSet(s) = Range(s)
  BY DEF ToSet, Range
<1>2. ToSet(<< >>) = {}
  BY DEF ToSet
<1>3. ASSUME NEW f \in Frames
      PROVE  ToSet(Append(q, f)) = ToSet(q) \cup {f}
  <2>1. /\ DOMAIN q = 1 .. Len(q) /\ Len(q) \in Nat /\ DOMAIN Append(q, f) = 1 .. Len(q) + 1
        /\ \A i \in 1 .. Len(q) : Append(q, f)[i] = q[i]
        /\ Append(q, f)[Len(q) + 1] = f
    OBVIOUS
  <2> DEFINE u == Append(q, f)
  <2> HIDE DEF u
  <2>2. QED
    BY <2>1 DEF ToSet, u
<1>4. ASSUME NEW r \in Seq(Frames)
      PROVE  ToSet(q \o r) = ToSet(q) \cup ToSet(r)
  BY <1>1, RangeConcatenation
<1>5. QED
  BY <1>2, <1>3, <1>4

LEMMA InitSettled == Settled(DecoderInit, << >>)
<1> DEFINE no == FALSE
           empty == << >>
<1>1. no \in BOOLEAN /\ empty \in Seq(Frames)
  OBVIOUS
<1>2. DecoderInit = Dec(<< >>, no, FALSE, empty)
  BY Zenon DEF DecoderInit, Dec
<1> HIDE DEF no, empty
<1>3. Settled(Dec(<< >>, no, FALSE, empty), empty)
  BY <1>1, SettledDec, Zenon
<1>4. QED
  BY <1>2, <1>3, Zenon DEF empty

LEMMA CleanStart == \A G : Clean(DecoderInit, G)
<1>1. DecoderInit.out = << >>
  BY DEF DecoderInit
<1>2. QED
  BY <1>1, InitSettled DEF Clean, ToSet

LEMMA SettledOut ==
  ASSUME NEW d, NEW out, Settled(d, out)
  PROVE  d.out = out /\ out \in Seq(Frames)
BY DecParts DEF Settled

(* A frame that is fed whole is handed out if it fits, and nothing else is.*)
LEMMA FrameOut ==
  ASSUME NEW G, NEW d, Clean(d, G), NEW f \in Sendable(G)
  PROVE  LET e == Fed(d, KissEncode(f)) IN
         Clean(e, G) /\ ToSet(d.out) \subseteq ToSet(e.out) /\ (f \in Frames => f \in ToSet(e.out))
<1> DEFINE e == Fed(d, KissEncode(f))
<1>1. f \in Seq(Bytes) /\ Settled(d, d.out)
  BY DEF Clean, Sendable
<1>2. Settled(e, Gained(d.out, f))
  BY <1>1, FrameFed
<1> HIDE DEF e
<1>3. Settled(e, e.out) /\ e.out = Gained(d.out, f) /\ d.out \in Seq(Frames)
  <2>1. e.out = Gained(d.out, f) /\ d.out \in Seq(Frames)
    BY <1>1, <1>2, SettledOut
  <2>2. QED
    BY <1>2, <2>1
<1>4. CASE Len(f) <= MaxPayload
  <2>1. f \in Frames /\ f \in G
    BY <1>1, <1>4 DEF Frames, Sendable
  <2>2. e.out = Append(d.out, f)
    BY <1>3, <1>4 DEF Gained
  <2>3. ToSet(Append(d.out, f)) = ToSet(d.out) \cup {f}
    BY <1>3, <2>1, ToSetMore
  <2>4. QED
    BY <1>3, <2>1, <2>2, <2>3 DEF Clean, e
<1>5. CASE ~ (Len(f) <= MaxPayload)
  <2>1. f \notin Frames /\ e.out = d.out
    BY <1>3, <1>5 DEF Frames, Gained
  <2>2. QED
    BY <1>3, <2>1 DEF Clean, e
<1>6. QED
  BY <1>4, <1>5

(* A decoder of its own that meets a frame in the middle passes over it.   *)
LEMMA TailFed ==
  ASSUME NEW f \in Seq(Bytes), NEW i \in 1 .. Len(KissEncode(f))
  PROVE  Settled(Fed(DecoderInit, From(KissEncode(f), i)), << >>)
<1> DEFINE a == <<FEND>>
           y == << 0 >> \o Encoded(f)
           k == KissEncode(f)
<1>1. /\ k = (a \o y) \o a /\ a \in Seq(Bytes) /\ y \in Seq(Bytes) /\ y \in Seq(Inner)
      /\ k \in Seq(Bytes) /\ FEND \in Bytes
    BY KissEncodeIs DEF Bytes, FEND
<1>2. Len(a) = 1
  OBVIOUS
<1>3. Lost(DecoderInit, << >>) /\ DecoderInit \in Decoders
  <2>1. ~ DecoderInit.in_frame
    BY DEF DecoderInit
  <2>2. QED
    BY <2>1, InitSettled DEF Lost, Settled
<1> DEFINE j == i - 1
           t == From(y, j)
<1>4. i \in 1 .. Len(k) /\ i \in 0 .. Len(k)
  OBVIOUS
<1> HIDE DEF a, y, k
<1>5. /\ a \o (y \o a) = k /\ y \o a \in Seq(Bytes) /\ Len(y \o a) = Len(y) + 1
      /\ Len(k) = Len(y) + 2 /\ Len(y) \in Nat
  <2>1. a \o (y \o a) = k
    <3>1. (a \o y) \o a = k /\ a \in Seq(Bytes) /\ y \in Seq(Bytes)
      BY <1>1
    <3>2. QED
      BY <3>1, ConcatThree, Zenon
  <2>2. y \o a \in Seq(Bytes) /\ Len(y \o a) = Len(y) + 1 /\ Len(y) \in Nat
    <3>0. y \in Seq(Bytes) /\ a \in Seq(Bytes)
      BY <1>1
    <3>1. y \o a \in Seq(Bytes) /\ Len(y \o a) = Len(y) + Len(a)
      BY <3>0, ConcatProperties
    <3>2. Len(y) \in Nat
      BY <1>1, LenProperties
    <3>3. QED
      BY <1>2, <3>1, <3>2
  <2>3. Len(a \o (y \o a)) = Len(a) + Len(y \o a)
    BY <1>1, <2>2, ConcatProperties
  <2>4. QED
    BY <1>2, <2>1, <2>2, <2>3
<1>6. From(k, i) = From(y \o a, j)
  <2>1. IF i <= Len(a) THEN From(a \o (y \o a), i) = From(a, i) \o (y \o a)
        ELSE i - Len(a) \in 1 .. Len(y \o a) /\ From(a \o (y \o a), i) = From(y \o a, i - Len(a))
    BY <1>1, <1>4, <1>5, FromBoth
  <2>2. From(a, 1) = << >> /\ From(y \o a, 0) = y \o a
    BY <1>1, <1>2, <1>5, FromAll
  <2>3. << >> \o (y \o a) = y \o a
    BY <1>5, ConcatEmptySeq
  <2>4. CASE i = 1
    <3>1. From(k, i) = From(a, 1) \o (y \o a)
      BY <1>2, <1>5, <2>1, <2>4
    <3>2. From(y \o a, j) = From(y \o a, 0)
      BY <2>4
    <3>3. QED
      BY <2>2, <2>3, <3>1, <3>2, Zenon
  <2>5. CASE i # 1
    BY <1>2, <1>4, <1>5, <2>1, <2>5
  <2>6. QED
    BY <2>4, <2>5
<1>7. j \in 0 .. Len(y \o a)
  BY <1>4, <1>5
<1>8. CASE j <= Len(y)
  <2>1. j \in 0 .. Len(y)
    BY <1>7, <1>8
  <2>2. From(y \o a, j) = t \o a
    BY <1>1, <1>7, <1>8, FromBoth
  <2>3. t \in Seq(Inner) /\ t \in Seq(Bytes)
    BY <1>1, <2>1, FromInner, FromTyped
  <2>4. Fed(DecoderInit, t) = DecoderInit
    BY <1>3, <2>3, FedOutside DEF Lost
  <2>5. Fed(DecoderInit, t \o a) = Fed(Fed(DecoderInit, t), a)
    BY <1>1, <2>3, FedBoth
  <2>6. Fed(DecoderInit, a) = DecoderFeed(DecoderInit, FEND)
    BY <1>1, FedOne DEF a
  <2>7. Settled(DecoderFeed(DecoderInit, FEND), << >>)
    BY <1>3, LostEnds
  <2>8. QED
    BY <1>6, <2>2, <2>4, <2>5, <2>6, <2>7, Zenon DEF k
<1>9. CASE ~ (j <= Len(y))
  <2>1. j = Len(y \o a)
    BY <1>5, <1>7, <1>9
  <2>2. From(y \o a, j) = << >>
    BY <1>5, <2>1, FromAll
  <2>3. Fed(DecoderInit, << >>) = DecoderInit
    BY FedNothing
  <2>4. QED
    BY <1>6, <2>2, <2>3, InitSettled, Zenon DEF k
<1>10. QED
  BY <1>8, <1>9

LEMMA LineEmpty == \A G : << >> \in Lines(G)
<1> SUFFICES ASSUME NEW G PROVE << >> \in Lines(G)
  OBVIOUS
<1>1. << >> \in Seq(Bytes) /\ Len(<< >>) = 0
  OBVIOUS
<1>2. From(<< >>, 0) = << >>
  BY <1>1, FromAll
<1>3. Clean(Fed(DecoderInit, From(<< >>, 0)), G)
  BY <1>2, FedNothing, CleanStart
<1>4. QED
  BY <1>1, <1>3 DEF Lines

LEMMA LineMore ==
  ASSUME NEW G, NEW l \in Lines(G), NEW f \in Sendable(G)
  PROVE  l \o KissEncode(f) \in Lines(G)
<1> DEFINE k == KissEncode(f)
           u == l \o k
<1>1. /\ l \in Seq(Bytes) /\ f \in Seq(Bytes)
      /\ \A i \in 0 .. Len(l) : Clean(Fed(DecoderInit, From(l, i)), G)
  BY DEF Lines, Sendable
<1>2. k \in Seq(Bytes)
  BY <1>1, KissEncodeIs
<1> HIDE DEF k
<1>3. u \in Seq(Bytes) /\ Len(l) \in Nat
  BY <1>1, <1>2
<1>4. ASSUME NEW i \in 0 .. Len(u)
      PROVE  Clean(Fed(DecoderInit, From(u, i)), G)
  <2>1. IF i <= Len(l) THEN From(u, i) = From(l, i) \o k
        ELSE i - Len(l) \in 1 .. Len(k) /\ From(u, i) = From(k, i - Len(l))
    BY <1>1, <1>2, FromBoth
  <2>2. CASE i <= Len(l)
    <3> DEFINE d == Fed(DecoderInit, From(l, i))
    <3>1. i \in 0 .. Len(l)
      BY <2>2
    <3>2. From(l, i) \in Seq(Bytes) /\ Clean(d, G)
      BY <1>1, <3>1, FromTyped
    <3>3. Fed(DecoderInit, From(l, i) \o k) = Fed(d, k)
      BY <1>2, <3>2, FedBoth
    <3> HIDE DEF d
    <3>4. Clean(Fed(d, k), G)
      BY <3>2, FrameOut DEF k
    <3>5. QED
      BY <2>1, <2>2, <3>3, <3>4
  <2>3. CASE ~ (i <= Len(l))
    <3> DEFINE j == i - Len(l)
    <3>1. j \in 1 .. Len(k) /\ From(u, i) = From(k, j)
      BY <2>1, <2>3
    <3> HIDE DEF j, u
    <3>2. Settled(Fed(DecoderInit, From(k, j)), << >>)
      BY <1>1, <3>1, TailFed DEF k
    <3>3. QED
      BY <3>1, <3>2, SettledOut, ToSetMore DEF Clean
  <2>4. QED
    BY <2>2, <2>3
<1>5. QED
  BY <1>3, <1>4 DEF Lines, k

-----------------------------------------------------------------------------
(* Frames that go out together                                             *)

Sent(fs) == FlattenSeq([i \in DOMAIN fs |-> KissEncode(fs[i])])

LEMMA SentIs ==
  ASSUME NEW fs \in Seq(Seq(Bytes))
  PROVE  Sent(fs) = FlattenSeq(Mapped([f \in Seq(Bytes) |-> KissEncode(f)], fs))
<1>1. DOMAIN fs = 1 .. Len(fs) /\ \A i \in DOMAIN fs : fs[i] \in Seq(Bytes)
  OBVIOUS
<1> DEFINE m == [f \in Seq(Bytes) |-> KissEncode(f)]
           l == [i \in DOMAIN fs |-> KissEncode(fs[i])]
           r == [i \in DOMAIN fs |-> m[fs[i]]]
<1>2. \A i \in DOMAIN fs : KissEncode(fs[i]) = m[fs[i]]
  BY <1>1
<1>3. l = r
  BY <1>2, Zenon
<1>4. QED
  BY <1>3, Zenon DEF Sent, Mapped

LEMMA SentTyped ==
  /\ Sent(<< >>) = << >>
  /\ \A fs \in Seq(Seq(Bytes)) : Sent(fs) \in Seq(Bytes)
  /\ \A fs \in Seq(Seq(Bytes)) : \A f \in Seq(Bytes) :
       Sent(Append(fs, f)) = Sent(fs) \o KissEncode(f)
<1> DEFINE m == [f \in Seq(Bytes) |-> KissEncode(f)]
<1>1. \A f \in Seq(Bytes) : m[f] = KissEncode(f) /\ m[f] \in Seq(Bytes)
  BY KissEncodeIs
<1>2. << >> \in Seq(Seq(Bytes)) /\ \A fs \in Seq(Seq(Bytes)) : Sent(fs) = FlattenSeq(Mapped(m, fs))
  BY SentIs
<1> HIDE DEF m
<1>3. Sent(<< >>) = << >>
  BY <1>2, FlattenMapNothing
<1>4. ASSUME NEW fs \in Seq(Seq(Bytes))
      PROVE  Sent(fs) \in Seq(Bytes)
  <2>1. FlattenSeq(Mapped(m, fs)) \in Seq(Bytes)
    BY <1>1, FlattenMapTyped
  <2>2. QED
    BY <1>2, <2>1
<1>5. ASSUME NEW fs \in Seq(Seq(Bytes)), NEW f \in Seq(Bytes)
      PROVE  Sent(Append(fs, f)) = Sent(fs) \o KissEncode(f)
  <2>1. FlattenSeq(Mapped(m, Append(fs, f))) = FlattenSeq(Mapped(m, fs)) \o m[f]
    <3> DEFINE X == Seq(Bytes)
    <3>1. \A z \in X : m[z] \in Seq(Bytes)
      BY <1>1
    <3>2. fs \in Seq(X) /\ f \in X
      OBVIOUS
    <3> HIDE DEF X
    <3>3. Mapped(m, fs) \in Seq(Seq(Bytes)) /\ m[f] \in Seq(Bytes)
      BY <3>1, <3>2, MappedTyped
    <3>4. Mapped(m, Append(fs, f)) = Append(Mapped(m, fs), m[f])
      BY <3>2, MappedMore
    <3>5. QED
      BY <3>3, <3>4, FlattenMore
  <2>2. Append(fs, f) \in Seq(Seq(Bytes))
    OBVIOUS
  <2>3. QED
    BY <1>1, <1>2, <2>1, <2>2
<1>6. QED
  BY <1>3, <1>4, <1>5

LEMMA SendableBytes ==
  ASSUME NEW G, NEW fs \in Seq(Sendable(G))
  PROVE  fs \in Seq(Seq(Bytes))
<1>1. \A f \in Sendable(G) : f \in Seq(Bytes)
  BY DEF Sendable
<1> DEFINE X == Sendable(G)
           Y == Seq(Bytes)
<1> HIDE DEF X, Y
<1>2. \A f \in X : f \in Y
  BY <1>1 DEF X, Y
<1>3. \A s \in Seq(X) : s \in Seq(Y)
  BY <1>2
<1>4. QED
  BY <1>3 DEF X, Y

LEMMA LineSent ==
  ASSUME NEW G, NEW l \in Lines(G)
  PROVE  \A fs \in Seq(Sendable(G)) : l \o Sent(fs) \in Lines(G)
<1> DEFINE X == Sendable(G)
           S == {fs \in Seq(X) : l \o Sent(fs) \in Lines(G)}
<1>1. l \in Seq(Bytes)
  BY DEF Lines
<1>2. << >> \in S
  <2>1. l \o << >> = l /\ << >> \in Seq(X)
    BY <1>1, ConcatEmptySeq
  <2>2. QED
    BY <2>1, SentTyped
<1>3. ASSUME NEW fs \in S, NEW f \in X
      PROVE  Append(fs, f) \in S
  <2>1. fs \in Seq(Seq(Bytes)) /\ f \in Seq(Bytes) /\ l \o Sent(fs) \in Lines(G)
    BY SendableBytes DEF Sendable
  <2>2. Sent(fs) \in Seq(Bytes) /\ Sent(Append(fs, f)) = Sent(fs) \o KissEncode(f)
        /\ KissEncode(f) \in Seq(Bytes)
    BY <2>1, SentTyped, KissEncodeIs
  <2>3. (l \o Sent(fs)) \o KissEncode(f) \in Lines(G)
    BY <2>1, LineMore
  <2>4. (l \o Sent(fs)) \o KissEncode(f) = l \o (Sent(fs) \o KissEncode(f))
    BY <1>1, <2>2, ConcatThree
  <2> HIDE DEF X
  <2>5. Append(fs, f) \in Seq(X)
    OBVIOUS
  <2>6. QED
    BY <2>2, <2>3, <2>4, <2>5
<1>4. S \in SUBSET Seq(X)
  OBVIOUS
<1> HIDE DEF S, X
<1>5. S = Seq(X)
  BY <1>2, <1>3, <1>4, AllSequences
<1>6. QED
  BY <1>5 DEF S, X

LEMMA ToSetAppend ==
  ASSUME NEW X, NEW q \in Seq(X), NEW x \in X
  PROVE  ToSet(Append(q, x)) = ToSet(q) \cup {x}
<1>1. /\ DOMAIN q = 1 .. Len(q) /\ Len(q) \in Nat /\ DOMAIN Append(q, x) = 1 .. Len(q) + 1
      /\ \A i \in 1 .. Len(q) : Append(q, x)[i] = q[i]
      /\ Append(q, x)[Len(q) + 1] = x
  OBVIOUS
<1> DEFINE u == Append(q, x)
<1> HIDE DEF u
<1>2. QED
  BY <1>1 DEF ToSet, u

LEMMA SentOut ==
  ASSUME NEW G, NEW d, Clean(d, G)
  PROVE  \A fs \in Seq(Sendable(G)) :
           LET e == Fed(d, Sent(fs)) IN
           Clean(e, G) /\ ToSet(d.out) \subseteq ToSet(e.out) /\ ToSet(fs) \cap Frames \subseteq ToSet(e.out)
<1> DEFINE X == Sendable(G)
           Good(fs, e) == /\ Clean(e, G) /\ ToSet(d.out) \subseteq ToSet(e.out)
                          /\ ToSet(fs) \cap Frames \subseteq ToSet(e.out)
           S == {fs \in Seq(X) : Good(fs, Fed(d, Sent(fs)))}
<1>1. << >> \in S
  <2>1. Fed(d, Sent(<< >>)) = d /\ << >> \in Seq(X) /\ ToSet(<< >>) = {}
    BY SentTyped, FedNothing DEF ToSet
  <2>2. QED
    BY <2>1
<1>2. ASSUME NEW fs \in S, NEW f \in X
      PROVE  Append(fs, f) \in S
  <2> DEFINE e == Fed(d, Sent(fs))
             g == Fed(e, KissEncode(f))
  <2>1. fs \in Seq(X) /\ fs \in Seq(Seq(Bytes)) /\ f \in Seq(Bytes) /\ Good(fs, e)
    BY SendableBytes DEF Sendable
  <2>2. Sent(fs) \in Seq(Bytes) /\ Sent(Append(fs, f)) = Sent(fs) \o KissEncode(f)
        /\ KissEncode(f) \in Seq(Bytes)
    BY <2>1, SentTyped, KissEncodeIs
  <2>3. Fed(d, Sent(Append(fs, f))) = g
    BY <2>2, FedBoth
  <2> HIDE DEF e
  <2>4. Clean(g, G) /\ ToSet(e.out) \subseteq ToSet(g.out) /\ (f \in Frames => f \in ToSet(g.out))
    BY <2>1, FrameOut
  <2>5. ToSet(Append(fs, f)) = ToSet(fs) \cup {f}
    BY <2>1, ToSetAppend
  <2> HIDE DEF g, X
  <2>6. Append(fs, f) \in Seq(X) /\ Good(Append(fs, f), g)
    BY <2>1, <2>4, <2>5
  <2>7. QED
    BY <2>3, <2>6
<1>3. S \in SUBSET Seq(X)
  OBVIOUS
<1> HIDE DEF S, X
<1>4. S = Seq(X)
  BY <1>1, <1>2, <1>3, AllSequences
<1>5. QED
  BY <1>4 DEF S, X

LEMMA CleanWider ==
  ASSUME NEW G, NEW H, G \subseteq H
  PROVE  /\ \A d : Clean(d, G) => Clean(d, H)
         /\ Lines(G) \subseteq Lines(H) /\ Sendable(G) \subseteq Sendable(H)
BY DEF Clean, Lines, Sendable

LEMMA LineFrom ==
  ASSUME NEW G, NEW l \in Lines(G), NEW n \in 0 .. Len(l)
  PROVE  From(l, n) \in Lines(G)
<1>1. /\ l \in Seq(Bytes) /\ Len(l) \in Nat
      /\ \A i \in 0 .. Len(l) : Clean(Fed(DecoderInit, From(l, i)), G)
  BY DEF Lines
<1>2. From(l, n) \in Seq(Bytes) /\ Len(From(l, n)) = Len(l) - n
  BY <1>1, FromTyped
<1>3. ASSUME NEW i \in 0 .. Len(From(l, n))
      PROVE  Clean(Fed(DecoderInit, From(From(l, n), i)), G)
  <2>1. i \in 0 .. Len(l) - n /\ n + i \in 0 .. Len(l)
    BY <1>1, <1>2
  <2>2. From(From(l, n), i) = From(l, n + i)
    BY <1>1, <2>1, FromFrom
  <2>3. QED
    BY <1>1, <2>1, <2>2
<1>4. QED
  BY <1>2, <1>3 DEF Lines

Taken(d, l, n) == FeedAll(d, SubSeq(l, 1, n))
Emptied(d) == [d EXCEPT !.out = << >>]

LEMMA OutIs ==
  ASSUME NEW d \in Decoders
  PROVE  \A x : [d EXCEPT !.out = x] = Dec(d.buf, d.in_frame, d.escape, x)
<1>1. d = Dec(d.buf, d.in_frame, d.escape, d.out)
  BY DecParts
<1>2. QED
  BY <1>1, DecChanged

LEMMA EmptiedTyped ==
  ASSUME NEW d \in Decoders
  PROVE  /\ Emptied(d) \in Decoders /\ Emptied(d).out = << >>
         /\ Emptied(d).buf = d.buf /\ Emptied(d).escape = d.escape
         /\ Past(d.out, Emptied(d)) = d
<1> DEFINE e == Emptied(d)
<1>1. e = Dec(d.buf, d.in_frame, d.escape, << >>) /\ d.out \in Seq(Frames)
  <2>1. e = Dec(d.buf, d.in_frame, d.escape, << >>)
    BY OutIs, Zenon DEF Emptied
  <2>2. QED
    BY <2>1, DecParts
<1>2. e \in Decoders
  <2>1. /\ d.buf \in Seq(Bytes) /\ Len(d.buf) <= MaxPayload + 1
        /\ d.in_frame \in BOOLEAN /\ d.escape \in BOOLEAN
    BY DecParts
  <2>2. << >> \in Seq(Frames)
    OBVIOUS
  <2>3. Dec(d.buf, d.in_frame, d.escape, << >>) \in Decoders
    BY <2>1, <2>2, DecTyped, Zenon
  <2>4. QED
    BY <1>1, <2>3, Zenon
<1> HIDE DEF e
<1>3. e.out = << >> /\ e.buf = d.buf /\ e.in_frame = d.in_frame /\ e.escape = d.escape
  BY <1>1 DEF Dec
<1>4. Past(d.out, e) = d
  <2>1. Past(d.out, e) = Dec(e.buf, e.in_frame, e.escape, d.out \o e.out)
    BY <1>2, PastIs
  <2>2. d.out \o e.out = d.out
    BY <1>1, <1>3, ConcatEmptySeq
  <2>3. d = Dec(d.buf, d.in_frame, d.escape, d.out)
    BY DecParts
  <2>4. QED
    BY <1>3, <2>1, <2>2, <2>3, Zenon
<1>5. QED
  BY <1>2, <1>3, <1>4 DEF e

LEMMA TakenIs ==
  ASSUME NEW d \in Decoders, d.out = << >>, NEW l \in Seq(Bytes), NEW n \in 0 .. Len(l)
  PROVE  /\ Taken(d, l, n) = Fed(d, SubSeq(l, 1, n)) /\ Taken(d, l, n) \in Decoders
         /\ SubSeq(l, 1, n) \in Seq(Bytes)
<1>1. SubSeq(l, 1, n) \in Seq(Bytes)
  BY FromCut
<1>2. [d EXCEPT !.out = << >>] = d
  <2>1. d = Dec(d.buf, d.in_frame, d.escape, << >>)
    BY DecParts
  <2>2. [d EXCEPT !.out = << >>] = Dec(d.buf, d.in_frame, d.escape, << >>)
    BY OutIs, Zenon
  <2>3. QED
    BY <2>1, <2>2, Zenon
<1>3. Taken(d, l, n) = Fed(d, SubSeq(l, 1, n))
  BY <1>2, Zenon DEF Taken, FeedAll, Fed
<1>4. QED
  BY <1>1, <1>3, FedTyped

ReadGives(d, l, n, G, after, rest) ==
  /\ after \in Decoders /\ rest \in Decoders /\ rest.out = << >>
  /\ Clean(Fed(rest, From(l, n)), G)
  /\ ToSet(after.out) \subseteq G
  /\ ToSet(Fed(d, l).out) = ToSet(after.out) \cup ToSet(Fed(rest, From(l, n)).out)

(* A part of the line is read: what it gives and what is left to come are  *)
(* together what the whole of it would have given.                         *)
LEMMA ReadPart ==
  ASSUME NEW G, NEW d \in Decoders, NEW l \in Seq(Bytes), NEW n \in 0 .. Len(l),
         d.out = << >>, Clean(Fed(d, l), G)
  PROVE  ReadGives(d, l, n, G, Taken(d, l, n), Emptied(Taken(d, l, n)))
<1> DEFINE a == SubSeq(l, 1, n)
           b == From(l, n)
           after == Taken(d, l, n)
           rest == Emptied(after)
           last == Fed(rest, b)
           w == Fed(d, l)
<1>1. a \in Seq(Bytes) /\ b \in Seq(Bytes) /\ l = a \o b
  BY FromCut, FromTyped
<1>2. after = Fed(d, a) /\ after \in Decoders
  BY TakenIs
<1> HIDE DEF a, b, after
<1>3. after.out \in Seq(Frames)
  BY <1>2, DecParts
<1>4. rest \in Decoders /\ rest.out = << >> /\ Past(after.out, rest) = after
  BY <1>2, EmptiedTyped
<1> HIDE DEF rest
<1>5. w = Past(after.out, last)
  <2>1. w = Fed(after, b)
    BY <1>1, <1>2, FedBoth
  <2>2. Fed(Past(after.out, rest), b) = Past(after.out, last)
    BY <1>1, <1>3, <1>4, FedPast
  <2>3. QED
    BY <1>4, <2>1, <2>2, Zenon
<1>6. last \in Decoders
  BY <1>1, <1>4, FedTyped
<1> HIDE DEF last, w
<1>7. /\ w.out = after.out \o last.out /\ w.buf = last.buf
      /\ w.escape = last.escape /\ last.out \in Seq(Frames)
  <2>1. /\ Past(after.out, last).out = after.out \o last.out
        /\ Past(after.out, last).buf = last.buf /\ Past(after.out, last).escape = last.escape
    BY <1>3, <1>6, PastTyped
  <2>2. last.out \in Seq(Frames)
    BY <1>6, DecParts
  <2>3. QED
    BY <1>5, <2>1, <2>2, Zenon
<1>8. ToSet(w.out) = ToSet(after.out) \cup ToSet(last.out)
  BY <1>3, <1>7, ToSetMore
<1>9. Clean(last, G) /\ ToSet(after.out) \subseteq G
  BY <1>6, <1>7, <1>8 DEF Clean, Settled, w
<1>10. QED
  BY <1>2, <1>4, <1>8, <1>9 DEF ReadGives, w, last, rest, after, b

-----------------------------------------------------------------------------
(* Pings and their echoes                                                  *)

Built(f, a, b, info) ==
  /\ f \in Seq(Bytes) /\ Len(f) = 3 + Len(info)
  /\ f[1] = a /\ f[2] = b /\ StripOk(f) /\ Info(f) = info

LEMMA FrameParts ==
  ASSUME NEW a \in Bytes, NEW b \in Bytes, NEW info \in Seq(Bytes)
  PROVE  Built(BuildFrame(a, b, info), a, b, info)
<1> DEFINE h == <<a, b, UI>>
           f == h \o info
           g == SubSeq(f, 4, Len(f))
<1>1. UI \in Bytes
  BY DEF UI, Bytes
<1>2. h \in Seq(Bytes) /\ Len(h) = 3 /\ h[1] = a /\ h[2] = b /\ h[3] = UI
  BY <1>1
<1> HIDE DEF h
<1>3. /\ f \in Seq(Bytes) /\ Len(f) = 3 + Len(info) /\ Len(info) \in Nat
      /\ \A i \in 1 .. Len(f) : f[i] = IF i <= 3 THEN h[i] ELSE info[i - 3]
  <2>1. /\ f \in Seq(Bytes) /\ Len(f) = Len(h) + Len(info)
        /\ \A i \in 1 .. Len(h) + Len(info) :
             f[i] = IF i <= Len(h) THEN h[i] ELSE info[i - Len(h)]
    BY <1>2, ConcatProperties
  <2>2. Len(info) \in Nat
    BY LenProperties
  <2> HIDE DEF f
  <2>3. QED
    BY <1>2, <2>1, <2>2
<1> HIDE DEF f
<1>4. 1 \in 1 .. Len(f) /\ 2 \in 1 .. Len(f) /\ 3 \in 1 .. Len(f) /\ Len(f) >= 3
  BY <1>3
<1>5. f[1] = a /\ f[2] = b /\ f[3] = UI
  BY <1>2, <1>3, <1>4
<1>6. /\ g \in Seq(Bytes) /\ Len(g) = Len(info)
      /\ \A i \in 1 .. Len(info) : g[i] = f[3 + i]
  BY <1>3, <1>4
<1> HIDE DEF g
<1>7. ASSUME NEW i \in 1 .. Len(info)
      PROVE  g[i] = info[i]
  <2>1. 3 + i \in 1 .. Len(f) /\ ~ (3 + i <= 3) /\ (3 + i) - 3 = i
    BY <1>3
  <2>2. f[3 + i] = info[(3 + i) - 3]
    BY <1>3, <2>1
  <2>3. QED
    BY <1>6, <2>1, <2>2
<1>8. g = info
  BY <1>6, <1>7, SameElements
<1>9. QED
  BY <1>3, <1>4, <1>5, <1>8 DEF Built, BuildFrame, StripOk, Info, f, g, h

PingBy(f, b, n) ==
  /\ f \in Seq(Bytes) /\ Len(f) = 6 /\ f[2] = b
  /\ StripOk(f) /\ IsPing(Info(f)) /\ Info(f)[2] = n

LEMMA PingParts ==
  ASSUME NEW a \in Bytes, NEW b \in Bytes, NEW n \in Bytes
  PROVE  PingBy(BuildFrame(a, b, PingPayload(n)), b, n)
<1>1. /\ PingPayload(n) \in Seq(Bytes) /\ Len(PingPayload(n)) = 3
      /\ PingPayload(n)[1] = Ping /\ PingPayload(n)[2] = n
  <2>1. Ping \in Bytes /\ Stamp \in Bytes
    BY DEF Ping, Stamp, FEND, Bytes
  <2>2. QED
    BY <2>1 DEF PingPayload
<1> DEFINE i == PingPayload(n)
           f == BuildFrame(a, b, i)
<1> HIDE DEF i
<1>2. f \in Seq(Bytes) /\ Len(f) = 3 + Len(i) /\ f[2] = b /\ StripOk(f) /\ Info(f) = i
  <2> HIDE DEF f
  <2>1. i \in Seq(Bytes)
    BY <1>1 DEF i
  <2>2. Built(f, a, b, i)
    BY <2>1, FrameParts, Zenon DEF f
  <2>3. QED
    BY <2>2 DEF Built
<1> HIDE DEF f
<1>3. Len(f) = 6 /\ IsPing(i) /\ i[2] = n
  BY <1>1, <1>2 DEF IsPing, i
<1>4. f \in Seq(Bytes) /\ Len(f) = 6 /\ f[2] = b /\ StripOk(f) /\ IsPing(Info(f))
      /\ Info(f)[2] = n
  BY <1>2, <1>3, Zenon
<1>5. QED
  BY <1>4, Zenon DEF PingBy, f, i

LEMMA EchoParts ==
  ASSUME NEW f \in Seq(Bytes), StripOk(f)
  PROVE  /\ Echo(f) \in Seq(Bytes) /\ Len(Echo(f)) = Len(f)
         /\ Echo(f)[1] = f[2] /\ StripOk(Echo(f)) /\ Info(Echo(f)) = Info(f)
<1>1. Len(f) \in Nat /\ Len(f) >= 3
  BY DEF StripOk
<1>2. f[1] \in Bytes /\ f[2] \in Bytes
  BY <1>1
<1>3. Info(f) \in Seq(Bytes) /\ Len(Info(f)) = Len(f) - 3
  <2>1. From(f, 3) \in Seq(Bytes) /\ Len(From(f, 3)) = Len(f) - 3
    BY <1>1, FromTyped
  <2>2. Info(f) = From(f, 3)
    BY DEF Info, From
  <2>3. QED
    BY <2>1, <2>2
<1> DEFINE i == Info(f)
<1> HIDE DEF i
<1> DEFINE g == BuildFrame(f[2], f[1], i)
<1> HIDE DEF g
<1>4. /\ g \in Seq(Bytes) /\ Len(g) = 3 + Len(i) /\ g[1] = f[2] /\ StripOk(g) /\ Info(g) = i
  <2>1. i \in Seq(Bytes)
    BY <1>3 DEF i
  <2>2. Built(g, f[2], f[1], i)
    BY <1>2, <2>1, FrameParts, Zenon DEF g
  <2>3. QED
    BY <2>2 DEF Built
<1>5. 3 + Len(i) = Len(f)
  BY <1>1, <1>3 DEF i
<1>6. QED
  BY <1>4, <1>5, Zenon DEF Echo, i, g

LEMMA EchoesAre ==
  ASSUME NEW fs \in Seq(Frames)
  PROVE  Echoes(fs) \in Seq({Echo(f) : f \in {g \in ToSet(fs) : StripOk(g)}})
<1> DEFINE F == ToSet(fs)
           Y == {Echo(f) : f \in {g \in F : StripOk(g)}}
           m == [f \in F |-> IF StripOk(f) THEN <<Echo(f)>> ELSE << >>]
<1>1. DOMAIN fs = 1 .. Len(fs) /\ Len(fs) \in Nat
  OBVIOUS
<1>2. \A i \in DOMAIN fs : fs[i] \in F
  BY DEF ToSet
<1>3. fs \in Seq(F)
  <2> HIDE DEF F
  <2>1. fs = [i \in 1 .. Len(fs) |-> fs[i]]
    OBVIOUS
  <2>2. QED
    BY <1>1, <1>2, <2>1
<1>4. Echoes(fs) = FlattenSeq(Mapped(m, fs))
  <2> HIDE DEF F
  <2> DEFINE l == [i \in DOMAIN fs |-> IF StripOk(fs[i]) THEN <<Echo(fs[i])>> ELSE << >>]
             r == [i \in DOMAIN fs |-> m[fs[i]]]
  <2>1. \A i \in DOMAIN fs : m[fs[i]] = IF StripOk(fs[i]) THEN <<Echo(fs[i])>> ELSE << >>
    BY <1>2
  <2> HIDE DEF m
  <2>2. l = r
    BY <2>1
  <2>3. QED
    BY <2>2, Zenon DEF Echoes, Mapped
<1>5. \A z \in F : m[z] \in Seq(Y)
  <2> HIDE DEF F
  <2>1. SUFFICES ASSUME NEW z \in F PROVE m[z] \in Seq(Y)
    OBVIOUS
  <2>2. CASE StripOk(z)
    <3>1. m[z] = <<Echo(z)>> /\ Echo(z) \in Y
      BY <2>2
    <3> HIDE DEF Y, m
    <3>2. QED
      BY <3>1
  <2>3. CASE ~ StripOk(z)
    <3>1. m[z] = << >>
      BY <2>3
    <3> HIDE DEF Y, m
    <3>2. QED
      BY <3>1
  <2>4. QED
    BY <2>2, <2>3
<1> HIDE DEF m, F, Y
<1>6. FlattenSeq(Mapped(m, fs)) \in Seq(Y)
  BY <1>3, <1>5, FlattenMapTyped
<1>7. QED
  BY <1>4, <1>6 DEF Y, F

(* What an echo station sends is an echo of something it has decoded.      *)
LEMMA EchoesTyped ==
  ASSUME NEW fs \in Seq(Frames)
  PROVE  /\ Echoes(fs) \in Seq(Seq(Bytes)) /\ Len(Echoes(fs)) \in Nat
         /\ \A i \in DOMAIN Echoes(fs) : \E f \in ToSet(fs) :
              f \in Frames /\ StripOk(f) /\ Echoes(fs)[i] = Echo(f)
<1> DEFINE F == ToSet(fs)
           Y == {Echo(f) : f \in {g \in F : StripOk(g)}}
           q == Echoes(fs)
<1>1. q \in Seq(Y)
  BY EchoesAre
<1>2. ASSUME NEW f \in F
      PROVE  f \in Frames /\ f \in Seq(Bytes)
  <2>1. PICK i \in DOMAIN fs : f = fs[i]
    BY DEF ToSet
  <2>2. fs[i] \in Frames
    OBVIOUS
  <2>3. QED
    BY <2>1, <2>2 DEF Frames
<1>3. \A y \in Y : y \in Seq(Bytes) /\ \E f \in F : f \in Frames /\ StripOk(f) /\ y = Echo(f)
  <2> HIDE DEF F
  <2>1. SUFFICES ASSUME NEW y \in Y
                 PROVE  y \in Seq(Bytes) /\ \E f \in F : f \in Frames /\ StripOk(f) /\ y = Echo(f)
    OBVIOUS
  <2>2. PICK f \in F : StripOk(f) /\ y = Echo(f)
    OBVIOUS
  <2>3. f \in Frames /\ f \in Seq(Bytes)
    BY <1>2
  <2>4. Echo(f) \in Seq(Bytes)
    BY <2>2, <2>3, EchoParts
  <2>5. QED
    BY <2>2, <2>3, <2>4
<1> DEFINE Z == Seq(Bytes)
<1> HIDE DEF Y, q, Z, F
<1>4. \A y \in Y : y \in Z
  BY <1>3 DEF Z
<1>5. q \in Seq(Z) /\ Len(q) \in Nat /\ \A i \in DOMAIN q : q[i] \in Y
  BY <1>1, <1>4
<1>6. QED
  BY <1>3, <1>5 DEF q, Z, F

-----------------------------------------------------------------------------
(* One station: what is on its line and in its decoder.                    *)

Carried(d, l, reading, G) == l \in Lines(G) /\ (reading => Clean(Fed(d, l), G))

LEMMA CarriedWider ==
  ASSUME NEW d, NEW l, NEW reading, NEW G, NEW H, G \subseteq H, Carried(d, l, reading, G)
  PROVE  Carried(d, l, reading, H)
BY CleanWider DEF Carried

LEMMA CarriedHeard ==
  ASSUME NEW d, NEW l, NEW reading, NEW G, Carried(d, l, reading, G),
         NEW fs \in Seq(Sendable(G))
  PROVE  /\ Carried(d, l \o Sent(fs), reading, G)
         /\ reading => ToSet(Fed(d, l).out) \cup (ToSet(fs) \cap Frames)
                         \subseteq ToSet(Fed(d, l \o Sent(fs)).out)
<1>1. l \in Lines(G) /\ l \in Seq(Bytes) /\ (reading => Clean(Fed(d, l), G))
  BY DEF Carried, Lines
<1>2. Sent(fs) \in Seq(Bytes)
  BY SendableBytes, SentTyped
<1>3. Fed(d, l \o Sent(fs)) = Fed(Fed(d, l), Sent(fs))
  BY <1>1, <1>2, FedBoth
<1>4. l \o Sent(fs) \in Lines(G)
  BY <1>1, LineSent
<1> DEFINE e == Fed(d, l)
           g == Fed(e, Sent(fs))
<1> HIDE DEF e
<1>5. reading => /\ Clean(g, G) /\ ToSet(e.out) \subseteq ToSet(g.out)
                 /\ ToSet(fs) \cap Frames \subseteq ToSet(g.out)
  BY <1>1, SentOut DEF e
<1> HIDE DEF g
<1>6. QED
  BY <1>3, <1>4, <1>5 DEF Carried, g, e

LEMMA CarriedStart ==
  ASSUME NEW l, NEW G, l \in Lines(G)
  PROVE  \A reading : Carried(DecoderInit, l, reading, G)
<1>1. l \in Seq(Bytes) /\ \A i \in 0 .. Len(l) : Clean(Fed(DecoderInit, From(l, i)), G)
  BY DEF Lines
<1>2. From(l, 0) = l /\ 0 \in 0 .. Len(l)
  BY <1>1, FromAll
<1>3. Clean(Fed(DecoderInit, l), G)
  BY <1>1, <1>2
<1>4. QED
  BY <1>3 DEF Carried

ReadKeeps(d, l, n, G, after, rest) ==
  /\ \A reading : Carried(rest, From(l, n), reading, G)
  /\ after.out \in Seq(Frames) /\ ToSet(after.out) \subseteq G
  /\ ToSet(Fed(d, l).out) = ToSet(after.out) \cup ToSet(Fed(rest, From(l, n)).out)

LEMMA CarriedRead ==
  ASSUME NEW d \in Decoders, d.out = << >>, NEW l, NEW G, Carried(d, l, TRUE, G),
         NEW n \in 0 .. Len(l)
  PROVE  ReadKeeps(d, l, n, G, Taken(d, l, n), Emptied(Taken(d, l, n)))
<1>1. l \in Lines(G) /\ l \in Seq(Bytes) /\ Clean(Fed(d, l), G)
  BY DEF Carried, Lines
<1>2. From(l, n) \in Lines(G)
  BY <1>1, LineFrom
<1> DEFINE after == Taken(d, l, n)
           rest  == Emptied(after)
<1> HIDE DEF after, rest
<1>3. ReadGives(d, l, n, G, after, rest)
  BY <1>1, ReadPart, Zenon DEF after, rest
<1>4. after.out \in Seq(Frames)
  BY <1>3, DecParts DEF ReadGives
<1>5. QED
  BY <1>2, <1>3, <1>4 DEF Carried, ReadKeeps, ReadGives, after, rest

-----------------------------------------------------------------------------
(* The types                                                               *)

LEMMA StationBytes ==
  /\ \A s \in Stations : s \in Bytes
  /\ \A p \in Pingers : p \in Stations /\ p \in Bytes /\ Target[p] \in Bytes
  /\ \A e \in Echoers : e \in Stations /\ e \notin Pingers
BY PingAssumption DEF Stations, Bytes

LEMMA HeardTyped ==
  ASSUME NEW s, NEW fs \in Seq(Seq(Bytes)), NEW H, NEW ln \in [Stations -> Seq(Bytes)]
  PROVE  Heard(s, fs, H, ln) \in [Stations -> Seq(Bytes)]
<1> DEFINE h == Heard(s, fs, H, ln)
<1>1. Sent(fs) \in Seq(Bytes)
  BY SentTyped
<1>2. ASSUME NEW r \in Stations
      PROVE  h[r] \in Seq(Bytes)
  <2>1. ln[r] \in Seq(Bytes)
    OBVIOUS
  <2>2. ln[r] \o Sent(fs) \in Seq(Bytes)
    BY <1>1, <2>1
  <2>3. (r \in H => h[r] = ln[r] \o Sent(fs)) /\ (r \notin H => h[r] = ln[r])
    BY Zenon DEF Heard, Sent
  <2> HIDE DEF h
  <2>4. CASE r \in H
    BY <2>2, <2>3, <2>4
  <2>5. CASE r \notin H
    BY <2>1, <2>3, <2>5
  <2>6. QED
    BY <2>4, <2>5
<1>3. h = [r \in Stations |-> h[r]]
  BY Zenon DEF Heard
<1> HIDE DEF h
<1>4. QED
  BY <1>2, <1>3 DEF h

LEMMA FreshTyped ==
  ASSUME NEW H, NEW fs, NEW fr \in [Pingers -> BOOLEAN]
  PROVE  Freshened(H, fs, fr) \in [Pingers -> BOOLEAN]
<1>1. \A p \in Pingers : fr[p] \in BOOLEAN
  OBVIOUS
<1>2. \A p \in Pingers : (fr[p] \/ (p \in H /\ pc[p] = "wait"
                            /\ \E i \in DOMAIN fs : Matches(fs[i], seq[p]))) \in BOOLEAN
  BY <1>1, Zenon
<1>3. QED
  BY <1>2, Zenon DEF Freshened

LEMMA PairMin ==
  ASSUME NEW a \in Nat, NEW b \in Nat
  PROVE  Min({a, b}) \in Nat /\ Min({a, b}) <= b
<1>1. \E x \in {a, b} : \A y \in {a, b} : x <= y
  OBVIOUS
<1>2. Min({a, b}) \in {a, b} /\ \A y \in {a, b} : Min({a, b}) <= y
  BY <1>1 DEF Min
<1>3. QED
  BY <1>2

LEMMA ReadsWithin ==
  ASSUME NEW s, line[s] \in Seq(Bytes), NEW n \in Reads(s)
  PROVE  n \in 0 .. Len(line[s])
<1>1. MaxRead \in Nat /\ Len(line[s]) \in Nat
  BY PingAssumption, LenProperties
<1>2. Min({MaxRead, Len(line[s])}) \in Nat /\ Min({MaxRead, Len(line[s])}) <= Len(line[s])
  BY <1>1, PairMin
<1>3. QED
  BY <1>1, <1>2 DEF Reads

TypeInv ==
  /\ line \in [Stations -> Seq(Bytes)]
  /\ dec \in [Stations -> Decoders] /\ \A s \in Stations : dec[s].out = << >>
  /\ pc \in [Pingers -> {"send", "wait", "done"}]
  /\ seq \in [Pingers -> 1 .. Count + 1]
  /\ \A p \in Pingers : pc[p] = "wait" => seq[p] <= Count
  /\ noise \in 0 .. MaxNoise /\ echoes \in 0 .. MaxEchoes
  /\ counted \subseteq Pingers \X (1 .. Count)
  /\ fresh \in [Pingers -> BOOLEAN]

LEMMA TypeInvType == TypeInv => TypeOK
<1> SUFFICES ASSUME TypeInv PROVE TypeOK
  OBVIOUS
<1>1. ASSUME NEW s \in Stations
      PROVE  /\ dec[s].buf \in Seq(Bytes) /\ Len(dec[s].buf) <= MaxPayload + 1
             /\ dec[s].in_frame \in BOOLEAN /\ dec[s].escape \in BOOLEAN
             /\ dec[s].out = << >>
  <2>1. dec[s] \in Decoders /\ dec[s].out = << >>
    BY DEF TypeInv
  <2>2. QED
    BY <2>1, DecParts
<1>2. QED
  BY <1>1 DEF TypeInv, TypeOK, Bytes

LEMMA InitTypes == Init => TypeInv
<1> SUFFICES ASSUME Init PROVE TypeInv
  OBVIOUS
<1>1. DecoderInit \in Decoders /\ DecoderInit.out = << >>
  BY InitSettled DEF Settled
<1>2. line \in [Stations -> Seq(Bytes)]
  BY DEF Init
<1>3. dec \in [Stations -> Decoders] /\ \A s \in Stations : dec[s].out = << >>
  BY <1>1, Zenon DEF Init
<1>4. /\ pc \in [Pingers -> {"send", "wait", "done"}]
      /\ \A p \in Pingers : pc[p] = "wait" => seq[p] <= Count
      /\ fresh \in [Pingers -> BOOLEAN]
  BY DEF Init
<1>5. seq \in [Pingers -> 1 .. Count + 1] /\ noise \in 0 .. MaxNoise /\ echoes \in 0 .. MaxEchoes
      /\ counted \subseteq Pingers \X (1 .. Count)
  BY PingAssumption DEF Init
<1>6. QED
  BY <1>2, <1>3, <1>4, <1>5 DEF TypeInv

LEMMA CountIs == Count \in 0 .. 255
BY PingAssumption

LEMMA PingIsByte ==
  ASSUME TypeInv, NEW p \in Pingers, MayPing(p)
  PROVE  seq[p] \in Bytes /\ seq[p] \in 1 .. Count /\ pc[p] = "send"
<1>1. seq[p] \in 1 .. Count + 1 /\ seq[p] <= Count /\ pc[p] = "send"
  BY DEF TypeInv, MayPing
<1>2. QED
  BY <1>1, CountIs DEF Bytes

(* The frame of a ping.                                                    *)
PingFrame(p) == BuildFrame(Target[p], p, PingPayload(seq[p]))

LEMMA PingFrameParts ==
  ASSUME TypeInv, NEW p \in Pingers, MayPing(p)
  PROVE  LET f == PingFrame(p) IN
         PingBy(f, p, seq[p]) /\ f \in Seq(Bytes)
         /\ <<f>> \in Seq(Seq(Bytes)) /\ ToSet(<<f>>) = {f}
<1> DEFINE f == PingFrame(p)
<1>1. PingBy(f, p, seq[p])
  <2>1. p \in Bytes /\ Target[p] \in Bytes /\ seq[p] \in Bytes
    BY StationBytes, PingIsByte
  <2>2. QED
    BY <2>1, PingParts, Zenon DEF PingFrame
<1> HIDE DEF f
<1>2. f \in Seq(Bytes)
  BY <1>1 DEF PingBy
<1>3. QED
  BY <1>1, <1>2 DEF ToSet, f

LEMMA SendPingIs ==
  ASSUME NEW p \in Pingers, SendPing(p)
  PROVE  \E H \in SUBSET InRange[p] :
           /\ line' = Heard(p, <<PingFrame(p)>>, H, line)
           /\ fresh' = [Freshened(H, <<PingFrame(p)>>, fresh) EXCEPT ![p] = FALSE]
           /\ dec' = [dec EXCEPT ![p] = DecoderInit]
           /\ pc' = [pc EXCEPT ![p] = "wait"]
           /\ UNCHANGED <<seq, noise, echoes, counted, echoed>>
BY Zenon DEF SendPing, PingFrame

LEMMA SendPingTypes ==
  ASSUME TypeInv, NEW p \in Pingers, SendPing(p)
  PROVE  TypeInv'
<1>1. PICK H \in SUBSET InRange[p] :
           /\ line' = Heard(p, <<PingFrame(p)>>, H, line)
           /\ fresh' = [Freshened(H, <<PingFrame(p)>>, fresh) EXCEPT ![p] = FALSE]
           /\ dec' = [dec EXCEPT ![p] = DecoderInit]
           /\ pc' = [pc EXCEPT ![p] = "wait"]
           /\ UNCHANGED <<seq, noise, echoes, counted, echoed>>
  BY SendPingIs
<1>2. MayPing(p)
  BY DEF SendPing
<1>3. <<PingFrame(p)>> \in Seq(Seq(Bytes)) /\ p \in Stations
  BY <1>2, PingFrameParts, StationBytes
<1>4. line' \in [Stations -> Seq(Bytes)]
  BY <1>1, <1>3, HeardTyped DEF TypeInv
<1>5. fresh' \in [Pingers -> BOOLEAN]
  <2>1. Freshened(H, <<PingFrame(p)>>, fresh) \in [Pingers -> BOOLEAN]
    BY FreshTyped DEF TypeInv
  <2>2. QED
    BY <1>1, <2>1
<1>6. dec' \in [Stations -> Decoders] /\ \A s \in Stations : dec'[s].out = << >>
  <2>1. DecoderInit \in Decoders /\ DecoderInit.out = << >>
    BY InitSettled DEF Settled
  <2>2. dec \in [Stations -> Decoders] /\ \A s \in Stations : dec[s].out = << >>
    BY DEF TypeInv
  <2>3. QED
    BY <1>1, <2>1, <2>2
<1>7. /\ pc' \in [Pingers -> {"send", "wait", "done"}]
      /\ \A r \in Pingers : pc'[r] = "wait" => seq'[r] <= Count
  <2>1. seq[p] <= Count
    BY <1>2 DEF MayPing
  <2>2. QED
    BY <1>1, <2>1 DEF TypeInv
<1>8. QED
  BY <1>1, <1>4, <1>5, <1>6, <1>7 DEF TypeInv

LEMMA ReadTypes ==
  ASSUME TypeInv, NEW s \in Stations, NEW n \in Reads(s)
  PROVE  LET after == Taken(dec[s], line[s], n) IN
         /\ n \in 0 .. Len(line[s]) /\ line[s] \in Seq(Bytes) /\ From(line[s], n) \in Seq(Bytes)
         /\ after \in Decoders /\ after.out \in Seq(Frames)
         /\ Emptied(after) \in Decoders /\ Emptied(after).out = << >>
<1>1. line[s] \in Seq(Bytes) /\ dec[s] \in Decoders /\ dec[s].out = << >>
  BY DEF TypeInv
<1>2. n \in 0 .. Len(line[s])
  BY <1>1, ReadsWithin
<1>3. From(line[s], n) \in Seq(Bytes)
  BY <1>1, <1>2, FromTyped
<1>4. Taken(dec[s], line[s], n) \in Decoders
  BY <1>1, <1>2, TakenIs
<1>5. QED
  BY <1>1, <1>2, <1>3, <1>4, EmptiedTyped, DecParts

LEMMA ReadReplyIs ==
  ASSUME NEW p \in Pingers, NEW n, ReadReply(p, n)
  PROVE  LET after == Taken(dec[p], line[p], n) IN
         /\ pc[p] = "wait" /\ n \in Reads(p)
         /\ \/ /\ \E i \in DOMAIN after.out : Matches(after.out[i], seq[p])
               /\ counted' = counted \cup {<<p, seq[p]>>}
               /\ NextPing(p) /\ dec' = dec
            \/ /\ ~ \E i \in DOMAIN after.out : Matches(after.out[i], seq[p])
               /\ dec' = [dec EXCEPT ![p] = Emptied(after)]
               /\ UNCHANGED pinger
         /\ line' = [line EXCEPT ![p] = From(line[p], n)]
         /\ UNCHANGED <<noise, echoes, history>>
BY Zenon DEF ReadReply, Taken, Emptied, From

LEMMA ReadReplyTypes ==
  ASSUME TypeInv, NEW p \in Pingers, NEW n, ReadReply(p, n)
  PROVE  TypeInv'
<1> DEFINE after == Taken(dec[p], line[p], n)
           rest == Emptied(after)
           rem == From(line[p], n)
<1>1. p \in Stations /\ n \in Reads(p)
  BY StationBytes, ReadReplyIs
<1>2. rem \in Seq(Bytes) /\ rest \in Decoders /\ rest.out = << >>
  BY <1>1, ReadTypes
<1>3. /\ pc[p] = "wait"
      /\ \/ /\ counted' = counted \cup {<<p, seq[p]>>}
            /\ NextPing(p) /\ dec' = dec
         \/ /\ dec' = [dec EXCEPT ![p] = rest]
            /\ UNCHANGED pinger
      /\ line' = [line EXCEPT ![p] = rem]
      /\ UNCHANGED <<noise, echoes, history>>
  BY ReadReplyIs
<1> HIDE DEF after, rest, rem
<1>4. line' \in [Stations -> Seq(Bytes)]
  BY <1>1, <1>2, <1>3 DEF TypeInv
<1>5. CASE /\ counted' = counted \cup {<<p, seq[p]>>}
           /\ NextPing(p) /\ dec' = dec
  <2>1. seq[p] \in 1 .. Count
    BY <1>3 DEF TypeInv
  <2>2. seq' = [seq EXCEPT ![p] = seq[p] + 1] /\ pc' = [pc EXCEPT ![p] = "send"]
    BY <1>5 DEF NextPing
  <2>3. counted' \subseteq Pingers \X (1 .. Count)
    BY <1>5, <2>1 DEF TypeInv
  <2>4. seq' \in [Pingers -> 1 .. Count + 1]
    BY <2>1, <2>2, PingAssumption DEF TypeInv
  <2>5. /\ pc' \in [Pingers -> {"send", "wait", "done"}]
        /\ \A r \in Pingers : pc'[r] = "wait" => seq'[r] <= Count
    BY <2>2 DEF TypeInv
  <2>6. QED
    BY <1>3, <1>4, <1>5, <2>3, <2>4, <2>5 DEF TypeInv, history
<1>6. CASE dec' = [dec EXCEPT ![p] = rest] /\ UNCHANGED pinger
  <2>1. dec' \in [Stations -> Decoders] /\ \A s \in Stations : dec'[s].out = << >>
    BY <1>1, <1>2, <1>6 DEF TypeInv
  <2>2. QED
    BY <1>3, <1>4, <1>6, <2>1 DEF TypeInv, history, pinger
<1>7. QED
  BY <1>3, <1>5, <1>6

LEMMA ReplyTimeoutTypes ==
  ASSUME TypeInv, NEW p \in Pingers, ReplyTimeout(p)
  PROVE  TypeInv'
<1>1. /\ pc[p] = "wait" /\ seq' = [seq EXCEPT ![p] = seq[p] + 1] /\ pc' = [pc EXCEPT ![p] = "send"]
      /\ UNCHANGED <<line, dec, noise, echoes, counted, history>>
  BY DEF ReplyTimeout, NextPing
<1>2. seq[p] \in 1 .. Count
  BY <1>1 DEF TypeInv
<1>3. seq' \in [Pingers -> 1 .. Count + 1]
  BY <1>1, <1>2, PingAssumption DEF TypeInv
<1>4. /\ pc' \in [Pingers -> {"send", "wait", "done"}]
      /\ \A r \in Pingers : pc'[r] = "wait" => seq'[r] <= Count
  BY <1>1 DEF TypeInv
<1>5. QED
  BY <1>1, <1>3, <1>4 DEF TypeInv, history

LEMMA EndPingTypes ==
  ASSUME TypeInv, NEW p \in Pingers, EndPing(p)
  PROVE  TypeInv'
<1>1. /\ pc' = [pc EXCEPT ![p] = "done"]
      /\ UNCHANGED <<line, dec, seq, noise, echoes, counted, history>>
  BY DEF EndPing
<1>2. /\ pc' \in [Pingers -> {"send", "wait", "done"}]
      /\ \A r \in Pingers : pc'[r] = "wait" => seq'[r] <= Count
  BY <1>1 DEF TypeInv
<1>3. QED
  BY <1>1, <1>2 DEF TypeInv, history

(* The echoes written once the frames fs have gone out to p's cell.        *)
EchoedBy(back) ==
  {<<back[i][1], Info(back[i])[2]>> : i \in {j \in DOMAIN back : IsPing(Info(back[j]))}}

LEMMA ReadAndEchoIs ==
  ASSUME NEW e \in Echoers, NEW n, ReadAndEcho(e, n)
  PROVE  LET after == Taken(dec[e], line[e], n)
             back  == Echoes(after.out)
         IN /\ n \in Reads(e)
            /\ echoes + Len(back) <= MaxEchoes /\ echoes' = echoes + Len(back)
            /\ dec' = [dec EXCEPT ![e] = Emptied(after)]
            /\ \E H \in SUBSET InRange[e] :
                 /\ line' = Heard(e, back, H, [line EXCEPT ![e] = From(line[e], n)])
                 /\ fresh' = Freshened(H, back, fresh)
            /\ echoed' = echoed \cup EchoedBy(back)
            /\ UNCHANGED <<pinger, noise>>
<1> DEFINE after == Taken(dec[e], line[e], n)
           back  == Echoes(after.out)
           L == [line EXCEPT ![e] = From(line[e], n)]
<1>1. /\ n \in Reads(e)
      /\ echoes + Len(back) <= MaxEchoes /\ echoes' = echoes + Len(back)
      /\ dec' = [dec EXCEPT ![e] = Emptied(after)]
      /\ \E H \in IF back = << >> THEN {{}} ELSE SUBSET InRange[e] :
           /\ line' = Heard(e, back, H, L)
           /\ fresh' = Freshened(H, back, fresh)
      /\ echoed' = echoed \cup EchoedBy(back)
      /\ UNCHANGED <<pinger, noise>>
  BY Zenon DEF ReadAndEcho, Taken, Emptied, From, EchoedBy
<1> HIDE DEF after, back, L
<1>2. {{}} \subseteq SUBSET InRange[e]
  OBVIOUS
<1>3. \E H \in SUBSET InRange[e] : line' = Heard(e, back, H, L) /\ fresh' = Freshened(H, back, fresh)
  BY <1>1, <1>2, Zenon
<1>4. QED
  BY <1>1, <1>3, Zenon DEF after, back, L

LEMMA ReadAndEchoTypes ==
  ASSUME TypeInv, NEW e \in Echoers, NEW n, ReadAndEcho(e, n)
  PROVE  TypeInv'
<1> DEFINE after == Taken(dec[e], line[e], n)
           rest == Emptied(after)
           back  == Echoes(after.out)
           rem == From(line[e], n)
           L == [line EXCEPT ![e] = rem]
<1>1. e \in Stations /\ n \in Reads(e)
  BY StationBytes, ReadAndEchoIs
<1>2. rem \in Seq(Bytes) /\ rest \in Decoders /\ rest.out = << >> /\ after.out \in Seq(Frames)
  BY <1>1, ReadTypes
<1>3. back \in Seq(Seq(Bytes)) /\ Len(back) \in Nat
  BY <1>2, EchoesTyped
<1>4. PICK H \in SUBSET InRange[e] :
        line' = Heard(e, back, H, L) /\ fresh' = Freshened(H, back, fresh)
  BY ReadAndEchoIs
<1>5. /\ echoes + Len(back) <= MaxEchoes /\ echoes' = echoes + Len(back)
      /\ dec' = [dec EXCEPT ![e] = rest]
      /\ UNCHANGED <<pinger, noise>>
  BY ReadAndEchoIs
<1> HIDE DEF after, rest, back, rem
<1>6. L \in [Stations -> Seq(Bytes)]
  BY <1>1, <1>2 DEF TypeInv
<1> HIDE DEF L
<1>7. line' \in [Stations -> Seq(Bytes)]
  BY <1>3, <1>4, <1>6, HeardTyped
<1>8. fresh' \in [Pingers -> BOOLEAN]
  BY <1>4, FreshTyped DEF TypeInv
<1>9. dec' \in [Stations -> Decoders] /\ \A s \in Stations : dec'[s].out = << >>
  BY <1>1, <1>2, <1>5 DEF TypeInv
<1>10. echoes' \in 0 .. MaxEchoes
  BY <1>3, <1>5, PingAssumption DEF TypeInv
<1>11. QED
  BY <1>5, <1>7, <1>8, <1>9, <1>10 DEF TypeInv, pinger

LEMMA NoiseBytes == Noise \in Seq(Bytes) /\ <<Noise>> \in Seq(Seq(Bytes))
<1>1. Noise \in Seq(Bytes)
  BY PingAssumption DEF Bytes
<1>2. QED
  BY <1>1

LEMMA OthersSendTypes ==
  ASSUME TypeInv, OthersSend
  PROVE  TypeInv'
<1>1. /\ noise < MaxNoise /\ noise' = noise + 1
      /\ UNCHANGED <<dec, pinger, echoes, history>>
  BY DEF OthersSend
<1>2. PICK H \in SUBSET Stations : line' = Heard(0, <<Noise>>, H, line)
  BY DEF OthersSend
<1>3. line' \in [Stations -> Seq(Bytes)]
  BY <1>2, NoiseBytes, HeardTyped DEF TypeInv
<1>4. noise' \in 0 .. MaxNoise
  BY <1>1, PingAssumption DEF TypeInv
<1>5. QED
  BY <1>1, <1>3, <1>4 DEF TypeInv, pinger, history

LEMMA StutterTypes ==
  ASSUME TypeInv, UNCHANGED vars
  PROVE  TypeInv'
BY DEF TypeInv, vars, pinger, history

LEMMA NextTypes ==
  ASSUME TypeInv, [Next]_vars
  PROVE  TypeInv'
<1>1. CASE \E p \in Pingers : SendPing(p)
  BY <1>1, SendPingTypes
<1>2. CASE \E p \in Pingers : ReplyTimeout(p)
  BY <1>2, ReplyTimeoutTypes
<1>3. CASE \E p \in Pingers : EndPing(p)
  BY <1>3, EndPingTypes
<1>4. CASE \E p \in Pingers : \E n \in Reads(p) : ReadReply(p, n)
  BY <1>4, ReadReplyTypes
<1>5. CASE \E e \in Echoers : \E n \in Reads(e) : ReadAndEcho(e, n)
  BY <1>5, ReadAndEchoTypes
<1>6. CASE OthersSend
  BY <1>6, OthersSendTypes
<1>7. CASE UNCHANGED vars
  BY <1>7, StutterTypes
<1>8. QED
  BY <1>1, <1>2, <1>3, <1>4, <1>5, <1>6, <1>7, Zenon DEF Next

LEMMA AlwaysTypes == Spec => []TypeInv
<1>1. TypeInv /\ [Next]_vars => TypeInv'
  BY NextTypes
<1>2. QED
  BY <1>1, InitTypes, PTL DEF Spec

(* The types of all variables hold in every run: no byte sequence outgrows *)
(* the decoder's buffer, however the reads cut the line, and no ping is    *)
(* waited for beyond --count.                                              *)
THEOREM PingTypes == Spec => []TypeOK
BY AlwaysTypes, TypeInvType, PTL

-----------------------------------------------------------------------------
(* What the lines and the decoders of all stations hold: of what fits the  *)
(* decoder, at each station s only frames of G[s].                         *)

(* The decoder of a pinger that does not wait holds anything.              *)
Reading(pcs, s) == s \in Echoers \/ (s \in Pingers /\ pcs[s] = "wait")

AllCarry(ln, dc, pcs, G) ==
  \A s \in Stations : Carried(dc[s], ln[s], Reading(pcs, s), G[s])

LEMMA InitCarry ==
  ASSUME Init, NEW G
  PROVE  AllCarry(line, dec, pc, G)
<1> SUFFICES ASSUME NEW s \in Stations PROVE Carried(dec[s], line[s], Reading(pc, s), G[s])
  BY DEF AllCarry
<1>1. dec[s] = DecoderInit /\ line[s] = << >>
  BY Zenon DEF Init
<1>2. Carried(DecoderInit, << >>, Reading(pc, s), G[s])
  BY LineEmpty, CarriedStart
<1>3. QED
  BY <1>1, <1>2, Zenon

LEMMA HeardCarried ==
  ASSUME NEW s, NEW fs, NEW H, NEW ln, NEW r \in Stations, NEW d, NEW reading, NEW G,
         r \in H => fs \in Seq(Sendable(G)), Carried(d, ln[r], reading, G)
  PROVE  /\ Carried(d, Heard(s, fs, H, ln)[r], reading, G)
         /\ reading => ToSet(Fed(d, ln[r]).out) \subseteq ToSet(Fed(d, Heard(s, fs, H, ln)[r]).out)
         /\ reading /\ r \in H =>
              ToSet(fs) \cap Frames \subseteq ToSet(Fed(d, Heard(s, fs, H, ln)[r]).out)
<1> DEFINE h == Heard(s, fs, H, ln)[r]
<1>1. (r \in H => h = ln[r] \o Sent(fs)) /\ (r \notin H => h = ln[r])
  BY Zenon DEF Heard, Sent
<1> HIDE DEF h
<1>2. CASE r \in H
  <2>1. h = ln[r] \o Sent(fs) /\ fs \in Seq(Sendable(G))
    BY <1>1, <1>2
  <2> DEFINE e == Fed(d, ln[r] \o Sent(fs))
  <2>2. /\ Carried(d, ln[r] \o Sent(fs), reading, G)
        /\ reading => ToSet(Fed(d, ln[r]).out) \cup (ToSet(fs) \cap Frames) \subseteq ToSet(e.out)
    BY <2>1, CarriedHeard, Zenon
  <2>3. Fed(d, h) = e
    BY <2>1
  <2> HIDE DEF e
  <2>4. QED
    BY <1>2, <2>1, <2>2, <2>3 DEF h
<1>3. CASE r \notin H
  <2>1. h = ln[r]
    BY <1>1, <1>3
  <2>2. QED
    BY <1>3, <2>1 DEF h
<1>4. QED
  BY <1>2, <1>3

LEMMA StartedPing ==
  ASSUME NEW G, NEW p \in Pingers, NEW H \in SUBSET InRange[p], TypeInv,
         AllCarry(line, dec, pc, G), SendPing(p),
         line' = Heard(p, <<PingFrame(p)>>, H, line),
         \A r \in Stations \cap H : <<PingFrame(p)>> \in Seq(Sendable(G[r]))
  PROVE  AllCarry(line', dec', pc', G)
<1> DEFINE fs == <<PingFrame(p)>>
<1>1. dec' = [dec EXCEPT ![p] = DecoderInit] /\ pc' = [pc EXCEPT ![p] = "wait"]
  BY SendPingIs
<1> SUFFICES ASSUME NEW s \in Stations PROVE Carried(dec'[s], line'[s], Reading(pc', s), G[s])
  BY DEF AllCarry
<1>2. Carried(dec[s], line[s], Reading(pc, s), G[s])
  BY DEF AllCarry
<1>3. s \in H => fs \in Seq(Sendable(G[s]))
  OBVIOUS
<1> HIDE DEF fs
<1>4. Carried(dec[s], line'[s], Reading(pc, s), G[s])
  <2>1. Carried(dec[s], Heard(p, fs, H, line)[s], Reading(pc, s), G[s])
    BY <1>2, <1>3, HeardCarried, Zenon
  <2>2. QED
    BY <2>1, Zenon DEF fs
<1>5. CASE s = p
  <2>1. line'[s] \in Lines(G[s])
    BY <1>4 DEF Carried
  <2>2. dec'[s] = DecoderInit
    BY <1>1, <1>5 DEF TypeInv
  <2>3. Carried(DecoderInit, line'[s], Reading(pc', s), G[s])
    BY <2>1, CarriedStart, Zenon
  <2>4. QED
    BY <2>2, <2>3, Zenon
<1>6. CASE s # p
  <2>1. dec'[s] = dec[s] /\ (s \in Pingers => pc'[s] = pc[s])
    BY <1>1, <1>6 DEF TypeInv
  <2>2. Reading(pc', s) = Reading(pc, s)
    BY <2>1, Zenon DEF Reading
  <2>3. QED
    BY <1>4, <2>1, <2>2, Zenon
<1>7. QED
  BY <1>5, <1>6

LEMMA EndedWait ==
  ASSUME NEW G, NEW p \in Pingers, TypeInv, AllCarry(line, dec, pc, G),
         ReplyTimeout(p) \/ EndPing(p)
  PROVE  AllCarry(line', dec', pc', G)
<1>1. /\ pc' = [pc EXCEPT ![p] = "send"] \/ pc' = [pc EXCEPT ![p] = "done"]
      /\ line' = line /\ dec' = dec
  BY DEF ReplyTimeout, EndPing, NextPing
<1> SUFFICES ASSUME NEW s \in Stations PROVE Carried(dec'[s], line'[s], Reading(pc', s), G[s])
  BY DEF AllCarry
<1>2. Carried(dec[s], line[s], Reading(pc, s), G[s])
  BY DEF AllCarry
<1>3. Reading(pc', s) => Reading(pc, s)
  BY <1>1 DEF Reading, TypeInv
<1>4. QED
  BY <1>1, <1>2, <1>3 DEF Carried

LEMMA ReadGain ==
  ASSUME NEW G, NEW s \in Stations, NEW n \in Reads(s), TypeInv,
         AllCarry(line, dec, pc, G), Reading(pc, s)
  PROVE  LET after == Taken(dec[s], line[s], n)
             rest  == Emptied(after)
         IN ReadKeeps(dec[s], line[s], n, G[s], after, rest)
<1>1. dec[s] \in Decoders /\ dec[s].out = << >> /\ n \in 0 .. Len(line[s])
  BY ReadTypes DEF TypeInv
<1>2. Carried(dec[s], line[s], TRUE, G[s])
  BY DEF AllCarry, Carried
<1>3. QED
  BY <1>1, <1>2, CarriedRead, Zenon

LEMMA ReadCarries ==
  ASSUME NEW G, NEW p \in Pingers, NEW n, TypeInv, AllCarry(line, dec, pc, G), ReadReply(p, n)
  PROVE  AllCarry(line', dec', pc', G)
<1> DEFINE after == Taken(dec[p], line[p], n)
           rest  == Emptied(after)
           rem == From(line[p], n)
<1>1. p \in Stations /\ n \in Reads(p) /\ pc[p] = "wait" /\ Reading(pc, p)
  BY StationBytes, ReadReplyIs DEF Reading
<1>2. \A reading : Carried(rest, rem, reading, G[p])
  BY <1>1, ReadGain DEF ReadKeeps
<1>3. /\ \/ pc' = [pc EXCEPT ![p] = "send"] /\ dec' = dec
         \/ pc' = pc /\ dec' = [dec EXCEPT ![p] = rest]
      /\ line' = [line EXCEPT ![p] = rem]
  BY ReadReplyIs DEF NextPing, pinger
<1> HIDE DEF after, rest, rem
<1> SUFFICES ASSUME NEW s \in Stations PROVE Carried(dec'[s], line'[s], Reading(pc', s), G[s])
  BY DEF AllCarry
<1>4. Carried(dec[s], line[s], Reading(pc, s), G[s])
  BY DEF AllCarry
<1>5. CASE s = p
  <2>1. line'[s] = rem /\ (dec'[s] = rest \/ pc'[p] = "send")
    BY <1>1, <1>3, <1>5 DEF TypeInv
  <2>2. CASE dec'[s] = rest
    BY <1>2, <1>5, <2>1, <2>2, Zenon
  <2>3. CASE pc'[p] = "send"
    <3>1. ~ Reading(pc', s)
      BY <1>5, <2>3, StationBytes DEF Reading
    <3>2. rem \in Lines(G[p])
      BY <1>2 DEF Carried
    <3>3. QED
      BY <1>5, <2>1, <3>1, <3>2 DEF Carried
  <2>4. QED
    BY <2>1, <2>2, <2>3
<1>6. CASE s # p
  <2>1. line'[s] = line[s] /\ dec'[s] = dec[s] /\ (s \in Pingers => pc'[s] = pc[s])
    BY <1>3, <1>6 DEF TypeInv
  <2>2. Reading(pc', s) = Reading(pc, s)
    BY <2>1, Zenon DEF Reading
  <2>3. QED
    BY <1>4, <2>1, <2>2, Zenon
<1>7. QED
  BY <1>5, <1>6

LEMMA EchoCarries ==
  ASSUME NEW G, NEW K, NEW e \in Echoers, NEW n, NEW H, TypeInv, AllCarry(line, dec, pc, G),
         \A s \in Stations : G[s] \subseteq K[s], ReadAndEcho(e, n),
         line' = Heard(e, Echoes(Taken(dec[e], line[e], n).out), H,
                       [line EXCEPT ![e] = From(line[e], n)]),
         \A r \in Stations \cap H :
           Echoes(Taken(dec[e], line[e], n).out) \in Seq(Sendable(K[r]))
  PROVE  AllCarry(line', dec', pc', K)
<1> DEFINE after == Taken(dec[e], line[e], n)
           rest  == Emptied(after)
           rem == From(line[e], n)
           fs == Echoes(after.out)
           L == [line EXCEPT ![e] = rem]
<1>1. e \in Stations /\ n \in Reads(e) /\ Reading(pc, e)
  BY StationBytes, ReadAndEchoIs DEF Reading
<1>2. \A reading : Carried(rest, rem, reading, G[e])
  BY <1>1, ReadGain DEF ReadKeeps
<1>3. pc' = pc /\ dec' = [dec EXCEPT ![e] = rest]
  BY ReadAndEchoIs DEF pinger
<1>4. line' = Heard(e, fs, H, L) /\ \A r \in Stations \cap H : fs \in Seq(Sendable(K[r]))
  OBVIOUS
<1> HIDE DEF after, rest, rem, fs
<1> SUFFICES ASSUME NEW s \in Stations PROVE Carried(dec'[s], line'[s], Reading(pc', s), K[s])
  BY DEF AllCarry
<1>5. Carried(dec'[s], L[s], Reading(pc', s), G[s])
  <2>1. CASE s = e
    <3>1. dec'[s] = rest /\ L[s] = rem
      BY <1>1, <1>3, <2>1 DEF TypeInv
    <3>2. QED
      BY <1>2, <2>1, <3>1, Zenon
  <2>2. CASE s # e
    <3>1. dec'[s] = dec[s] /\ L[s] = line[s]
      BY <1>3, <2>2 DEF TypeInv
    <3>2. Carried(dec[s], line[s], Reading(pc, s), G[s])
      BY DEF AllCarry
    <3>3. QED
      BY <1>3, <3>1, <3>2, Zenon
  <2>3. QED
    BY <2>1, <2>2
<1> HIDE DEF L
<1>6. Carried(dec'[s], L[s], Reading(pc', s), K[s])
  BY <1>5, CarriedWider, Zenon
<1>7. s \in H => fs \in Seq(Sendable(K[s]))
  BY <1>4
<1>8. Carried(dec'[s], Heard(e, fs, H, L)[s], Reading(pc', s), K[s])
  BY <1>6, <1>7, HeardCarried, Zenon
<1>9. QED
  BY <1>4, <1>8, Zenon

LEMMA NoiseCarries ==
  ASSUME NEW G, TypeInv, AllCarry(line, dec, pc, G), OthersSend,
         \A s \in Stations : Noise \in Sendable(G[s])
  PROVE  AllCarry(line', dec', pc', G)
<1>1. dec' = dec /\ pc' = pc
  BY DEF OthersSend, pinger
<1>2. PICK H \in SUBSET Stations : line' = Heard(0, <<Noise>>, H, line)
  BY DEF OthersSend
<1> SUFFICES ASSUME NEW s \in Stations PROVE Carried(dec'[s], line'[s], Reading(pc', s), G[s])
  BY DEF AllCarry
<1>3. Carried(dec[s], line[s], Reading(pc, s), G[s])
  BY DEF AllCarry
<1>4. <<Noise>> \in Seq(Sendable(G[s]))
  <2>1. Noise \in Sendable(G[s])
    OBVIOUS
  <2>2. QED
    BY <2>1
<1>5. Carried(dec[s], Heard(0, <<Noise>>, H, line)[s], Reading(pc, s), G[s])
  BY <1>3, <1>4, HeardCarried, Zenon
<1>6. QED
  BY <1>1, <1>2, <1>5, Zenon

-----------------------------------------------------------------------------
(* A reply in time                                                         *)

AnyFrame == [s \in Stations |-> Frames]

LEMMA AnySendable ==
  /\ Sendable(Frames) = Seq(Bytes)
  /\ \A fs \in Seq(Seq(Bytes)) : \A s \in Stations : fs \in Seq(Sendable(AnyFrame[s]))
<1>1. Sendable(Frames) = Seq(Bytes)
  BY DEF Sendable, Frames
<1>2. \A s \in Stations : AnyFrame[s] = Frames
  BY DEF AnyFrame
<1>3. QED
  BY <1>1, <1>2, Zenon

(* A reply to ping n is still to be decoded at p.                          *)
Pending(ln, dc, p, n) == \E f \in ToSet(Fed(dc[p], ln[p]).out) : Matches(f, n)

WaitInv ==
  /\ AllCarry(line, dec, pc, AnyFrame)
  /\ \A p \in Pingers : pc[p] = "wait" /\ fresh[p] => Pending(line, dec, p, seq[p])

LEMMA WaitInvCounts == TypeInv /\ WaitInv => ReplyInTimeCounts
<1> SUFFICES ASSUME TypeInv, WaitInv, NEW p \in Pingers, pc[p] = "wait", line[p] = << >>, fresh[p]
             PROVE  FALSE
  BY DEF ReplyInTimeCounts
<1>1. p \in Stations
  BY StationBytes
<1>2. Fed(dec[p], line[p]) = dec[p]
  BY FedNothing
<1>3. dec[p].out = << >>
  BY <1>1 DEF TypeInv
<1>4. ToSet(Fed(dec[p], line[p]).out) = {}
  BY <1>2, <1>3 DEF ToSet
<1>5. QED
  BY <1>4 DEF WaitInv, Pending

LEMMA InitWait == Init => WaitInv
<1> SUFFICES ASSUME Init PROVE WaitInv
  OBVIOUS
<1>1. AllCarry(line, dec, pc, AnyFrame)
  BY InitCarry
<1>2. \A p \in Pingers : ~ fresh[p]
  BY DEF Init
<1>3. QED
  BY <1>1, <1>2 DEF WaitInv

(* A reply that is heard is pending, and so is one that was.               *)
LEMMA HeardPending ==
  ASSUME NEW s, NEW fs \in Seq(Seq(Bytes)), ToSet(fs) \subseteq Frames, NEW H, NEW ln,
         NEW p \in Pingers, Carried(dec[p], ln[p], TRUE, Frames),
         fresh \in [Pingers -> BOOLEAN], fresh[p] => Pending(ln, dec, p, seq[p])
  PROVE  Freshened(H, fs, fresh)[p] => Pending(Heard(s, fs, H, ln), dec, p, seq[p])
<1> DEFINE h == Heard(s, fs, H, ln)
<1>1. p \in Stations /\ fs \in Seq(Sendable(Frames))
  BY StationBytes, AnySendable
<1>2. /\ ToSet(Fed(dec[p], ln[p]).out) \subseteq ToSet(Fed(dec[p], h[p]).out)
      /\ p \in H => ToSet(fs) \cap Frames \subseteq ToSet(Fed(dec[p], h[p]).out)
  BY <1>1, HeardCarried, Zenon
<1> HIDE DEF h
<1>3. SUFFICES ASSUME Freshened(H, fs, fresh)[p] PROVE Pending(h, dec, p, seq[p])
  BY DEF h
<1>4. fresh[p] \/ (p \in H /\ \E i \in DOMAIN fs : Matches(fs[i], seq[p]))
  BY <1>3, Zenon DEF Freshened
<1>5. CASE fresh[p]
  BY <1>2, <1>5 DEF Pending
<1>6. CASE p \in H /\ \E i \in DOMAIN fs : Matches(fs[i], seq[p])
  <2>1. PICK i \in DOMAIN fs : Matches(fs[i], seq[p])
    BY <1>6
  <2>2. fs[i] \in ToSet(fs) /\ fs[i] \in Frames
    BY DEF ToSet
  <2>3. fs[i] \in ToSet(Fed(dec[p], h[p]).out)
    BY <1>2, <1>6, <2>2
  <2>4. QED
    BY <2>1, <2>3 DEF Pending
<1>7. QED
  BY <1>4, <1>5, <1>6

LEMMA WaitCarried ==
  ASSUME WaitInv, NEW p \in Pingers, pc[p] = "wait"
  PROVE  Carried(dec[p], line[p], TRUE, Frames)
<1>1. p \in Stations /\ Reading(pc, p)
  BY StationBytes DEF Reading
<1>2. Carried(dec[p], line[p], Reading(pc, p), AnyFrame[p]) /\ AnyFrame[p] = Frames
  BY <1>1 DEF WaitInv, AllCarry, AnyFrame
<1>3. QED
  BY <1>1, <1>2 DEF Carried

LEMMA SixFits == PingFits => 6 <= MaxPayload
<1> DEFINE f == BuildFrame(0, 0, PingPayload(0))
<1>1. 0 \in Bytes
  BY DEF Bytes
<1>2. PingBy(f, 0, 0)
  BY <1>1, PingParts
<1>3. PingFits => Len(f) <= MaxPayload
  BY DEF PingFits
<1> HIDE DEF f
<1>4. QED
  BY <1>2, <1>3 DEF PingBy

LEMMA SendPingWaits ==
  ASSUME PingFits, TypeInv, WaitInv, NEW p \in Pingers, SendPing(p)
  PROVE  WaitInv'
<1> DEFINE fs == <<PingFrame(p)>>
<1>1. PICK H \in SUBSET InRange[p] :
        /\ line' = Heard(p, fs, H, line)
        /\ fresh' = [Freshened(H, fs, fresh) EXCEPT ![p] = FALSE]
        /\ dec' = [dec EXCEPT ![p] = DecoderInit]
        /\ pc' = [pc EXCEPT ![p] = "wait"]
        /\ seq' = seq
  BY SendPingIs
<1>2. fs \in Seq(Seq(Bytes)) /\ ToSet(fs) \subseteq Frames
  <2>1. MayPing(p)
    BY DEF SendPing
  <2>2. PingBy(PingFrame(p), p, seq[p]) /\ fs \in Seq(Seq(Bytes)) /\ ToSet(fs) = {PingFrame(p)}
    BY <2>1, PingFrameParts
  <2>3. PingFrame(p) \in Frames
    BY <2>2, SixFits DEF PingBy, Frames
  <2>4. QED
    BY <2>2, <2>3
<1>3. AllCarry(line', dec', pc', AnyFrame)
  BY <1>1, <1>2, AnySendable, StartedPing DEF WaitInv
<1> HIDE DEF fs
<1>4. ASSUME NEW r \in Pingers, pc'[r] = "wait", fresh'[r]
      PROVE  Pending(line', dec', r, seq'[r])
  <2>1. r # p /\ Freshened(H, fs, fresh)[r] /\ pc[r] = "wait" /\ r \in Stations
    <3>1. Freshened(H, fs, fresh) \in [Pingers -> BOOLEAN]
      BY FreshTyped DEF TypeInv
    <3>2. r # p
      BY <1>1, <1>4, <3>1
    <3>3. QED
      BY <1>1, <1>4, <3>1, <3>2, StationBytes DEF TypeInv
  <2>2. Carried(dec[r], line[r], TRUE, Frames)
    BY <2>1, WaitCarried
  <2>3. fresh \in [Pingers -> BOOLEAN] /\ (fresh[r] => Pending(line, dec, r, seq[r]))
    BY <2>1 DEF TypeInv, WaitInv
  <2>4. Pending(Heard(p, fs, H, line), dec, r, seq[r])
    BY <1>2, <2>1, <2>2, <2>3, HeardPending, Zenon
  <2>5. dec'[r] = dec[r] /\ seq'[r] = seq[r]
    BY <1>1, <2>1 DEF TypeInv
  <2>6. QED
    BY <1>1, <2>4, <2>5, Zenon DEF Pending
<1>5. QED
  BY <1>3, <1>4, Zenon DEF WaitInv

LEMMA ReadReplyWaits ==
  ASSUME TypeInv, WaitInv, NEW p \in Pingers, NEW n, ReadReply(p, n)
  PROVE  WaitInv'
<1> DEFINE after == Taken(dec[p], line[p], n)
           rest  == Emptied(after)
           rem == From(line[p], n)
<1>1. p \in Stations /\ n \in Reads(p) /\ pc[p] = "wait" /\ Reading(pc, p)
  BY StationBytes, ReadReplyIs DEF Reading
<1>2. AllCarry(line', dec', pc', AnyFrame)
  BY ReadCarries DEF WaitInv
<1>3. ReadKeeps(dec[p], line[p], n, AnyFrame[p], after, rest)
  BY <1>1, ReadGain DEF WaitInv
<1>4. /\ \/ pc' = [pc EXCEPT ![p] = "send"] /\ dec' = dec /\ seq' = [seq EXCEPT ![p] = seq[p] + 1]
         \/ /\ ~ \E i \in DOMAIN after.out : Matches(after.out[i], seq[p])
            /\ pc' = pc /\ dec' = [dec EXCEPT ![p] = rest] /\ seq' = seq
      /\ line' = [line EXCEPT ![p] = rem]
      /\ fresh' = fresh
  BY ReadReplyIs DEF NextPing, pinger, history
<1>5. ToSet(Fed(dec[p], line[p]).out) = ToSet(after.out) \cup ToSet(Fed(rest, rem).out)
  BY <1>3 DEF ReadKeeps
<1> HIDE DEF after, rest, rem
<1>6. ASSUME NEW r \in Pingers, pc'[r] = "wait", fresh'[r]
      PROVE  Pending(line', dec', r, seq'[r])
  <2>1. r \in Stations
    BY StationBytes
  <2>2. CASE r # p
    <3>1. /\ pc[r] = "wait" /\ fresh[r] /\ seq'[r] = seq[r] /\ dec'[r] = dec[r]
          /\ line'[r] = line[r]
      BY <1>4, <1>6, <2>1, <2>2 DEF TypeInv
    <3>2. Pending(line, dec, r, seq[r])
      BY <3>1 DEF WaitInv
    <3>3. QED
      BY <3>1, <3>2, Zenon DEF Pending
  <2>3. CASE r = p
    <3>1. /\ ~ \E i \in DOMAIN after.out : Matches(after.out[i], seq[p])
          /\ dec'[p] = rest /\ line'[p] = rem /\ seq'[p] = seq[p] /\ fresh[p]
      BY <1>1, <1>4, <1>6, <2>3 DEF TypeInv
    <3>2. Pending(line, dec, p, seq[p])
      BY <1>1, <3>1 DEF WaitInv
    <3>3. PICK f \in ToSet(Fed(dec[p], line[p]).out) : Matches(f, seq[p])
      BY <3>2 DEF Pending
    <3>4. f \notin ToSet(after.out)
      BY <3>1, <3>3 DEF ToSet
    <3>5. f \in ToSet(Fed(rest, rem).out)
      BY <1>5, <3>4
    <3>6. QED
      BY <2>3, <3>1, <3>3, <3>5, Zenon DEF Pending
  <2>4. QED
    BY <2>2, <2>3
<1>7. QED
  BY <1>2, <1>6, Zenon DEF WaitInv

LEMMA EndedWaits ==
  ASSUME TypeInv, WaitInv, NEW p \in Pingers, ReplyTimeout(p) \/ EndPing(p)
  PROVE  WaitInv'
<1>1. AllCarry(line', dec', pc', AnyFrame)
  BY EndedWait DEF WaitInv
<1>2. /\ pc' = [pc EXCEPT ![p] = "send"] \/ pc' = [pc EXCEPT ![p] = "done"]
      /\ seq' = [seq EXCEPT ![p] = seq[p] + 1] \/ seq' = seq
      /\ line' = line /\ dec' = dec /\ fresh' = fresh
  BY DEF ReplyTimeout, EndPing, NextPing, history
<1>3. ASSUME NEW r \in Pingers, pc'[r] = "wait", fresh'[r]
      PROVE  Pending(line', dec', r, seq'[r])
  <2>1. pc[r] = "wait" /\ fresh[r] /\ seq'[r] = seq[r]
    BY <1>2, <1>3 DEF TypeInv
  <2>2. Pending(line, dec, r, seq[r])
    BY <2>1 DEF WaitInv
  <2>3. QED
    BY <1>2, <2>1, <2>2, Zenon
<1>4. QED
  BY <1>1, <1>3, Zenon DEF WaitInv

LEMMA EchoWaits ==
  ASSUME TypeInv, WaitInv, NEW e \in Echoers, NEW n, ReadAndEcho(e, n)
  PROVE  WaitInv'
<1> DEFINE after == Taken(dec[e], line[e], n)
           fs == Echoes(after.out)
           L == [line EXCEPT ![e] = From(line[e], n)]
<1>1. e \in Stations /\ e \notin Pingers /\ n \in Reads(e)
  BY StationBytes, ReadAndEchoIs
<1>2. after.out \in Seq(Frames)
  BY <1>1, ReadTypes
<1>3. fs \in Seq(Seq(Bytes)) /\ ToSet(fs) \subseteq Frames
  <2>1. /\ fs \in Seq(Seq(Bytes))
        /\ \A i \in DOMAIN fs : \E f \in ToSet(after.out) :
             f \in Frames /\ StripOk(f) /\ fs[i] = Echo(f)
    BY <1>2, EchoesTyped
  <2> HIDE DEF fs, after
  <2>2. ASSUME NEW i \in DOMAIN fs
        PROVE  fs[i] \in Frames
    <3>1. PICK f \in ToSet(after.out) : f \in Frames /\ StripOk(f) /\ fs[i] = Echo(f)
      BY <2>1
    <3>2. Echo(f) \in Seq(Bytes) /\ Len(Echo(f)) = Len(f) /\ Len(f) <= MaxPayload
      BY <3>1, EchoParts DEF Frames
    <3>3. Echo(f) \in Frames
      BY <3>2 DEF Frames
    <3>4. QED
      BY <3>1, <3>3
  <2>3. QED
    BY <2>1, <2>2 DEF ToSet
<1>4. PICK H \in SUBSET InRange[e] :
        line' = Heard(e, fs, H, L) /\ fresh' = Freshened(H, fs, fresh)
  BY ReadAndEchoIs
<1>5. pc' = pc /\ seq' = seq /\ dec' = [dec EXCEPT ![e] = Emptied(after)]
  BY ReadAndEchoIs DEF pinger
<1>6. AllCarry(line', dec', pc', AnyFrame)
  <2>1. \A r \in Stations \cap H : fs \in Seq(Sendable(AnyFrame[r]))
    BY <1>3, AnySendable
  <2>2. \A r \in Stations : AnyFrame[r] \subseteq AnyFrame[r]
    OBVIOUS
  <2>3. QED
    BY <1>4, <2>1, <2>2, EchoCarries DEF WaitInv
<1> HIDE DEF after, fs
<1>7. ASSUME NEW r \in Pingers, pc'[r] = "wait", fresh'[r]
      PROVE  Pending(line', dec', r, seq'[r])
  <2>1. /\ r # e /\ r \in Stations /\ pc[r] = "wait" /\ Freshened(H, fs, fresh)[r]
        /\ seq'[r] = seq[r]
    BY <1>1, <1>4, <1>5, <1>7, StationBytes
  <2>2. L[r] = line[r] /\ dec'[r] = dec[r]
    BY <1>5, <2>1 DEF TypeInv
  <2> HIDE DEF L
  <2>3. Carried(dec[r], L[r], TRUE, Frames)
    BY <2>1, <2>2, WaitCarried
  <2>4. fresh \in [Pingers -> BOOLEAN] /\ (fresh[r] => Pending(L, dec, r, seq[r]))
    BY <2>1, <2>2 DEF TypeInv, WaitInv, Pending
  <2>5. Pending(Heard(e, fs, H, L), dec, r, seq[r])
    BY <1>3, <2>1, <2>3, <2>4, HeardPending, Zenon
  <2>6. QED
    BY <1>4, <2>1, <2>2, <2>5, Zenon DEF Pending
<1>8. QED
  BY <1>6, <1>7, Zenon DEF WaitInv

LEMMA NoiseWaits ==
  ASSUME TypeInv, WaitInv, OthersSend
  PROVE  WaitInv'
<1>1. dec' = dec /\ pc' = pc /\ seq' = seq /\ fresh' = fresh
  BY DEF OthersSend, pinger, history
<1>2. PICK H \in SUBSET Stations : line' = Heard(0, <<Noise>>, H, line)
  BY DEF OthersSend
<1>3. AllCarry(line', dec', pc', AnyFrame)
  <2>1. \A s \in Stations : Noise \in Sendable(AnyFrame[s])
    BY NoiseBytes, AnySendable DEF AnyFrame
  <2>2. QED
    BY <2>1, NoiseCarries DEF WaitInv
<1>4. ASSUME NEW r \in Pingers, pc'[r] = "wait", fresh'[r]
      PROVE  Pending(line', dec', r, seq'[r])
  <2>1. r \in Stations /\ pc[r] = "wait" /\ fresh[r]
    BY <1>1, <1>4, StationBytes
  <2>2. Carried(dec[r], line[r], TRUE, Frames) /\ Pending(line, dec, r, seq[r])
    BY <2>1, WaitCarried DEF WaitInv
  <2>3. <<Noise>> \in Seq(Sendable(Frames))
    BY NoiseBytes, AnySendable
  <2>4. ToSet(Fed(dec[r], line[r]).out)
          \subseteq ToSet(Fed(dec[r], Heard(0, <<Noise>>, H, line)[r]).out)
    BY <2>1, <2>2, <2>3, HeardCarried, Zenon
  <2>5. Pending(Heard(0, <<Noise>>, H, line), dec, r, seq[r])
    BY <2>2, <2>4, Zenon DEF Pending
  <2>6. QED
    BY <1>1, <1>2, <2>5, Zenon
<1>5. QED
  BY <1>3, <1>4, Zenon DEF WaitInv

LEMMA NextWaits ==
  ASSUME PingFits, TypeInv, WaitInv, [Next]_vars
  PROVE  WaitInv'
<1>1. CASE \E p \in Pingers : SendPing(p)
  BY <1>1, SendPingWaits
<1>2. CASE \E p \in Pingers : ReplyTimeout(p) \/ EndPing(p)
  BY <1>2, EndedWaits
<1>3. CASE \E p \in Pingers : \E n \in Reads(p) : ReadReply(p, n)
  BY <1>3, ReadReplyWaits
<1>4. CASE \E e \in Echoers : \E n \in Reads(e) : ReadAndEcho(e, n)
  BY <1>4, EchoWaits
<1>5. CASE OthersSend
  BY <1>5, NoiseWaits
<1>6. CASE UNCHANGED vars
  BY <1>6, Zenon DEF WaitInv, AllCarry, vars, pinger, history
<1>7. QED
  BY <1>1, <1>2, <1>3, <1>4, <1>5, <1>6, Zenon DEF Next

(* A reply that comes in time is not missed.  Whatever the line holds -    *)
(* leftovers of an earlier wait, a frame cut in two by the timeout, a      *)
(* frame too long for the decoder - the decoder is between frames when the *)
(* reply begins: of the frames that fit none is lost.  The decoder must    *)
(* have room for a ping, or no reply is ever counted.                      *)
THEOREM ReplyInTime ==
  ASSUME PingFits
  PROVE  Spec => []ReplyInTimeCounts
<1>1. TypeInv /\ WaitInv /\ [Next]_vars => WaitInv'
  BY NextWaits
<1>2. Spec => []TypeInv
  BY AlwaysTypes
<1>3. QED
  BY <1>1, <1>2, InitWait, WaitInvCounts, PTL DEF Spec

-----------------------------------------------------------------------------
(* Counted replies                                                         *)

PingIn(f) == StripOk(f) /\ IsPing(Info(f))

(* What may be heard at s when the echoes ech have been written: of pings, *)
(* an echo station hears those of its cell's pinger and their echoes, the  *)
(* pinger hears echoes alone.                                              *)
Heardable(cell, ech) ==
  [s \in Stations |->
     {f \in Frames : PingIn(f) => \/ s \in Echoers /\ f[2] = cell[s]
                                  \/ <<cell[s], Info(f)[2]>> \in ech}]

(* The cells of Apart.                                                     *)
Cells(cell) ==
  /\ cell \in [Stations -> Pingers]
  /\ \A p \in Pingers : cell[p] = p /\ p \notin InRange[p]
  /\ \A s \in Stations : \A r \in InRange[s] : cell[r] = cell[s]

EchoInv(cell) ==
  AllCarry(line, dec, pc, Heardable(cell, echoed)) /\ counted \subseteq echoed

LEMMA HeardableMore ==
  ASSUME NEW cell, NEW ech, NEW more
  PROVE  \A s \in Stations : Heardable(cell, ech)[s] \subseteq Heardable(cell, ech \cup more)[s]
BY DEF Heardable

LEMMA InHeardable ==
  ASSUME NEW cell, NEW ech, NEW s \in Stations, NEW f
  PROVE  f \in Heardable(cell, ech)[s] <=>
           f \in Frames /\ (PingIn(f) => \/ s \in Echoers /\ f[2] = cell[s]
                                         \/ <<cell[s], Info(f)[2]>> \in ech)
BY DEF Heardable

LEMMA SendPingEchoes ==
  ASSUME NEW cell, Cells(cell), TypeInv, EchoInv(cell), NEW p \in Pingers, SendPing(p)
  PROVE  EchoInv(cell)'
<1> DEFINE fs == <<PingFrame(p)>>
           G == Heardable(cell, echoed)
<1>1. PICK H \in SUBSET InRange[p] :
        /\ line' = Heard(p, fs, H, line)
        /\ UNCHANGED <<counted, echoed>>
  BY SendPingIs
<1>2. MayPing(p)
  BY DEF SendPing
<1>3. PingBy(PingFrame(p), p, seq[p])
  BY <1>2, PingFrameParts
<1>4. ASSUME NEW r \in Stations \cap H
      PROVE  fs \in Seq(Sendable(G[r]))
  <2>1. r \in InRange[p] /\ p \in Stations
    BY StationBytes
  <2>2. cell[r] = p
    BY <2>1 DEF Cells
  <2>3. r \in Echoers
    BY <2>1, <2>2 DEF Cells, Stations
  <2>4. PingFrame(p) \in Seq(Bytes) /\ PingFrame(p)[2] = cell[r]
    BY <1>3, <2>2 DEF PingBy
  <2>5. PingFrame(p) \in Frames => PingFrame(p) \in G[r]
    BY <2>3, <2>4, InHeardable
  <2>6. PingFrame(p) \in Sendable(G[r])
    BY <2>4, <2>5 DEF Sendable, Frames
  <2>7. QED
    BY <2>6
<1>5. AllCarry(line', dec', pc', G)
  BY <1>1, <1>4, StartedPing DEF EchoInv
<1>6. QED
  BY <1>1, <1>5, Zenon DEF EchoInv

LEMMA ReadReplyEchoes ==
  ASSUME NEW cell, Cells(cell), TypeInv, EchoInv(cell), NEW p \in Pingers, NEW n,
         ReadReply(p, n)
  PROVE  EchoInv(cell)'
<1> DEFINE after == Taken(dec[p], line[p], n)
           rest  == Emptied(after)
           G == Heardable(cell, echoed)
<1>1. p \in Stations /\ n \in Reads(p) /\ pc[p] = "wait" /\ Reading(pc, p)
  BY StationBytes, ReadReplyIs DEF Reading
<1>2. AllCarry(line', dec', pc', G)
  BY ReadCarries DEF EchoInv
<1>3. ReadKeeps(dec[p], line[p], n, G[p], after, rest)
  BY <1>1, ReadGain DEF EchoInv
<1>4. /\ \/ /\ \E i \in DOMAIN after.out : Matches(after.out[i], seq[p])
            /\ counted' = counted \cup {<<p, seq[p]>>}
         \/ counted' = counted
      /\ echoed' = echoed
  BY ReadReplyIs DEF pinger, history
<1>5. ToSet(after.out) \subseteq G[p]
  BY <1>3 DEF ReadKeeps
<1> HIDE DEF after, rest, G
<1>6. ASSUME NEW i \in DOMAIN after.out, Matches(after.out[i], seq[p])
      PROVE  <<p, seq[p]>> \in echoed
  <2> DEFINE f == after.out[i]
  <2>1. f \in G[p]
    BY <1>5 DEF ToSet
  <2>2. PingIn(f) /\ Info(f)[2] = seq[p]
    BY <1>6 DEF Matches, PingIn
  <2> HIDE DEF f
  <2>3. PingIn(f) => \/ p \in Echoers /\ f[2] = cell[p]
                     \/ <<cell[p], Info(f)[2]>> \in echoed
    BY <1>1, <2>1, InHeardable, Zenon DEF G
  <2>4. p \notin Echoers /\ cell[p] = p
    BY StationBytes DEF Cells
  <2>5. QED
    BY <2>2, <2>3, <2>4
<1>7. counted' \subseteq echoed'
  BY <1>4, <1>6 DEF EchoInv
<1>8. QED
  BY <1>2, <1>4, <1>7, Zenon DEF EchoInv, G

LEMMA EndedEchoes ==
  ASSUME NEW cell, Cells(cell), TypeInv, EchoInv(cell), NEW p \in Pingers,
         ReplyTimeout(p) \/ EndPing(p)
  PROVE  EchoInv(cell)'
<1>1. AllCarry(line', dec', pc', Heardable(cell, echoed))
  BY EndedWait DEF EchoInv
<1>2. counted' = counted /\ echoed' = echoed
  BY DEF ReplyTimeout, EndPing, history
<1>3. QED
  BY <1>1, <1>2, Zenon DEF EchoInv

(* An echo of a ping is on record before it is heard.                      *)
LEMMA EchoEchoes ==
  ASSUME NEW cell, Cells(cell), TypeInv, EchoInv(cell), NEW e \in Echoers, NEW n,
         ReadAndEcho(e, n)
  PROVE  EchoInv(cell)'
<1> DEFINE after == Taken(dec[e], line[e], n)
           fs == Echoes(after.out)
           L == [line EXCEPT ![e] = From(line[e], n)]
           G == Heardable(cell, echoed)
           K == Heardable(cell, echoed')
<1>1. e \in Stations /\ n \in Reads(e) /\ Reading(pc, e)
  BY StationBytes, ReadAndEchoIs DEF Reading
<1>2. ReadKeeps(dec[e], line[e], n, G[e], after, Emptied(after))
  BY <1>1, ReadGain DEF EchoInv
<1>3. after.out \in Seq(Frames) /\ ToSet(after.out) \subseteq G[e]
  BY <1>2 DEF ReadKeeps
<1>4. PICK H \in SUBSET InRange[e] : line' = Heard(e, fs, H, L)
  BY ReadAndEchoIs
<1>5. echoed' = echoed \cup EchoedBy(fs) /\ counted' = counted
  BY ReadAndEchoIs DEF pinger
<1>6. \A s \in Stations : G[s] \subseteq K[s]
  BY <1>5, HeardableMore
<1>7. /\ fs \in Seq(Seq(Bytes))
      /\ \A i \in DOMAIN fs : \E f \in ToSet(after.out) :
           f \in Frames /\ StripOk(f) /\ fs[i] = Echo(f)
  BY <1>3, EchoesTyped
<1>8. ASSUME NEW r \in Stations \cap H
      PROVE  fs \in Seq(Sendable(K[r]))
  <2>1. cell[r] = cell[e]
    BY <1>1 DEF Cells
  <2> HIDE DEF after, fs, G, L
  <2>2. ASSUME NEW i \in DOMAIN fs
        PROVE  fs[i] \in Sendable(K[r])
    <3>1. PICK f \in ToSet(after.out) : f \in Frames /\ StripOk(f) /\ fs[i] = Echo(f)
      BY <1>7
    <3> DEFINE g == fs[i]
    <3>2. g \in Seq(Bytes) /\ g[1] = f[2] /\ StripOk(g) /\ Info(g) = Info(f)
      BY <3>1, EchoParts DEF Frames
    <3>3. PingIn(f) => f[2] = cell[e] \/ <<cell[e], Info(f)[2]>> \in echoed
      BY <1>1, <1>3, <3>1, InHeardable DEF G
    <3>4. PingIn(g) => <<g[1], Info(g)[2]>> \in EchoedBy(fs)
      BY DEF EchoedBy, PingIn
    <3> HIDE DEF g
    <3>5. PingIn(g) => <<cell[r], Info(g)[2]>> \in echoed'
      <4>1. ASSUME PingIn(g) PROVE <<cell[r], Info(g)[2]>> \in echoed'
        <5>1. PingIn(f)
          BY <3>1, <3>2, <4>1 DEF PingIn
        <5>2. CASE f[2] = cell[e]
          BY <1>5, <2>1, <3>2, <3>4, <4>1, <5>2
        <5>3. CASE <<cell[e], Info(f)[2]>> \in echoed
          BY <1>5, <2>1, <3>2, <5>3
        <5>4. QED
          BY <3>3, <5>1, <5>2, <5>3
      <4>2. QED
        BY <4>1
    <3>6. g \in Frames => g \in K[r]
      BY <3>5, InHeardable
    <3>7. QED
      BY <3>2, <3>6 DEF Sendable, Frames, g
  <2> HIDE DEF K
  <2>3. fs = [i \in 1 .. Len(fs) |-> fs[i]] /\ Len(fs) \in Nat /\ DOMAIN fs = 1 .. Len(fs)
    BY <1>7
  <2>4. QED
    BY <2>2, <2>3
<1>9. AllCarry(line', dec', pc', K)
  BY <1>4, <1>6, <1>8, EchoCarries DEF EchoInv
<1>10. counted' \subseteq echoed'
  BY <1>5 DEF EchoInv
<1>11. QED
  BY <1>9, <1>10, Zenon DEF EchoInv

LEMMA NoiseEchoes ==
  ASSUME OthersDoNotPing, NEW cell, Cells(cell), TypeInv, EchoInv(cell), OthersSend
  PROVE  EchoInv(cell)'
<1>1. counted' = counted /\ echoed' = echoed
  BY DEF OthersSend, pinger, history
<1>2. ASSUME NEW s \in Stations
      PROVE  Noise \in Sendable(Heardable(cell, echoed)[s])
  <2>1. ~ PingIn(Noise)
    BY DEF OthersDoNotPing, PingIn
  <2>2. Noise \in Frames => Noise \in Heardable(cell, echoed)[s]
    BY <2>1, InHeardable
  <2>3. QED
    BY <2>2, NoiseBytes DEF Sendable, Frames
<1>3. AllCarry(line', dec', pc', Heardable(cell, echoed))
  BY <1>2, NoiseCarries DEF EchoInv
<1>4. QED
  BY <1>1, <1>3, Zenon DEF EchoInv

LEMMA NextEchoes ==
  ASSUME OthersDoNotPing, NEW cell, Cells(cell), TypeInv, EchoInv(cell), [Next]_vars
  PROVE  EchoInv(cell)'
<1>1. CASE \E p \in Pingers : SendPing(p)
  BY <1>1, SendPingEchoes
<1>2. CASE \E p \in Pingers : ReplyTimeout(p) \/ EndPing(p)
  BY <1>2, EndedEchoes
<1>3. CASE \E p \in Pingers : \E n \in Reads(p) : ReadReply(p, n)
  BY <1>3, ReadReplyEchoes
<1>4. CASE \E e \in Echoers : \E n \in Reads(e) : ReadAndEcho(e, n)
  BY <1>4, EchoEchoes
<1>5. CASE OthersSend
  BY <1>5, NoiseEchoes
<1>6. CASE UNCHANGED vars
  BY <1>6, Zenon DEF EchoInv, AllCarry, vars, pinger, history
<1>7. QED
  BY <1>1, <1>2, <1>3, <1>4, <1>5, <1>6, Zenon DEF Next

LEMMA InitEchoes ==
  ASSUME Init, NEW cell
  PROVE  EchoInv(cell)
<1>1. AllCarry(line, dec, pc, Heardable(cell, echoed))
  BY InitCarry
<1>2. counted \subseteq echoed
  BY DEF Init
<1>3. QED
  BY <1>1, <1>2 DEF EchoInv

(* A counted reply to ping n is an echo of ping n, never the late echo of  *)
(* an earlier ping, where every station hears the pings of one pinger only *)
(* and nobody else pings: the reply is told by its number alone.           *)
THEOREM CountedEchoed ==
  ASSUME Apart, OthersDoNotPing
  PROVE  Spec => []CountedWasEchoed
<1>1. PICK cell : Cells(cell)
  BY DEF Apart, Cells
<1>2. Init => EchoInv(cell)
  BY InitEchoes
<1>3. TypeInv /\ EchoInv(cell) /\ [Next]_vars => EchoInv(cell)'
  BY <1>1, NextEchoes
<1>4. EchoInv(cell) => CountedWasEchoed
  BY DEF EchoInv, CountedWasEchoed
<1>5. Spec => []TypeInv
  BY AlwaysTypes
<1>6. QED
  BY <1>2, <1>3, <1>4, <1>5, PTL DEF Spec

=============================================================================

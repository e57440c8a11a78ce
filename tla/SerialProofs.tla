---------------------------- MODULE SerialProofs -----------------------------
(***************************************************************************)
(* The two threads of the convergence layer agree on the port, for every   *)
(* set of descriptors and every bound; and what the decoder makes of the   *)
(* line is what the TNC heard, but for one frame of each loss, for every   *)
(* set of payloads that fit it and however the line is cut into reads.     *)
(***************************************************************************)
EXTENDS SerialCla, SequenceLemmas, FiniteSetTheorems

(* Between mark and publish nothing is published, and what is about to be  *)
(* published is open.  Without the first part, close could take away a     *)
(* descriptor the receiving thread may load; without the second, publish   *)
(* could hand it a closed one.                                             *)
Handover ==
  /\ plug \in Nat \ {0}
  /\ fds \in [Fds -> Nat]
  /\ serial_fd \in Fds \cup {None}
  /\ tx \in {"close", "open", "publish"} => shared = None
  /\ tx = "publish" => Open(serial_fd)
  /\ PublishedIsOpen

(* What an action leaves alone it leaves agreed.                           *)
LEMMA HandoverKept ==
  Handover /\ UNCHANGED <<plug, fds, serial_fd, tx, shared>>
           /\ (rx = "ended" => rx' = "ended") => Handover'
BY DEF Handover, PublishedIsOpen, Open

LEMMA InitHandover == Init => Handover
BY SerialAssumption DEF Init, Handover, PublishedIsOpen, Open, None

(* The device, ION and the user touch none of the descriptors.             *)
LEMMA EnvironmentHandover == Handover /\ Environment => Handover'
<1> SUFFICES ASSUME Handover, Environment PROVE Handover'
  OBVIOUS
<1>1. CASE Plug
  BY <1>1 DEF Plug, Handover, PublishedIsOpen, Open, main, receive
<1>2. CASE \E p \in Payloads : Hear(p)
  BY <1>2, HandoverKept DEF Hear, main, receive
<1>3. CASE Unplug
  BY <1>3, HandoverKept DEF Unplug, main, receive
<1>4. CASE EndSpan
  BY <1>4, HandoverKept DEF EndSpan, device, main, receive
<1>5. CASE shutDown
  BY <1>5, HandoverKept DEF shutDown, device, receive
<1> QED
  BY <1>1, <1>2, <1>3, <1>4, <1>5 DEF Environment

(* Each step of the main thread; the five of the hand-over do the work.    *)
LEMMA MainHandover == Handover /\ MainThread => Handover'
<1> SUFFICES ASSUME Handover, MainThread PROVE Handover'
  OBVIOUS
<1> USE DEF Handover, PublishedIsOpen, Open, device, receive
<1>1. CASE Test \/ Shutdown
  BY <1>1 DEF Test, Shutdown
<1>2. CASE Dequeue \/ DequeueNothing
  BY <1>2 DEF Dequeue, DequeueNothing
<1>3. CASE Write \/ Drained \/ NotDrained
  BY <1>3 DEF Write, Drained, NotDrained
<1>4. CASE Mark
  BY <1>4 DEF Mark
<1>5. CASE Close
  <2>1. shared = None /\ shared' = None
    BY <1>5 DEF Close
  <2> QED
    BY <1>5, <2>1 DEF Close
<1>6. CASE Reopen
  <2>1. shared = None /\ shared' = None /\ tx' = "publish" /\ plug' = plug
    BY <1>6 DEF Reopen
  <2>2. PICK f \in Fds : fds' = [fds EXCEPT ![f] = plug] /\ serial_fd' = f
    BY <1>6 DEF Reopen
  <2>3. fds' \in [Fds -> Nat] /\ fds'[serial_fd'] # 0 /\ serial_fd' \in Fds
    BY <2>2
  <2>4. serial_fd' # None
    BY <2>3, SerialAssumption DEF None
  <2> QED
    BY <2>1, <2>3, <2>4
<1>7. CASE ReopenFails
  BY <1>7 DEF ReopenFails
<1>8. CASE Publish
  BY <1>8 DEF Publish
<1>9. CASE Join
  <2>1. fds' \in [Fds -> Nat]
    BY <1>9 DEF Join
  <2> QED
    BY <1>9, <2>1 DEF Join
<1> QED
  BY <1>1, <1>2, <1>3, <1>4, <1>5, <1>6, <1>7, <1>8, <1>9 DEF MainThread

(* The receiving thread only reads the descriptor, and once ended does     *)
(* nothing more.                                                           *)
LEMMA RxHandover == Handover /\ RxThread => Handover'
<1> SUFFICES ASSUME Handover, RxThread PROVE Handover'
  OBVIOUS
<1>1. CASE Check \/ Load
  BY <1>1, HandoverKept DEF Check, Load, device, main
<1>2. CASE Read \/ ReadNothing
  BY <1>2, HandoverKept DEF Read, ReadNothing, device, main
<1>3. CASE \E n \in 1 .. Len(line) : ReadBytes(n)
  BY <1>3, HandoverKept DEF ReadBytes, main
<1> QED
  BY <1>1, <1>2, <1>3 DEF RxThread

(* Whatever the device does and however the threads interleave, a          *)
(* descriptor the receiving thread can load is open and the main thread's. *)
THEOREM PortAgreed == Spec => []PublishedIsOpen
<1>1. Init => Handover
  BY InitHandover
<1>2. Handover /\ [Next]_vars => Handover'
  <2> SUFFICES ASSUME Handover, [Next]_vars PROVE Handover'
    OBVIOUS
  <2>1. CASE Next
    BY <2>1, EnvironmentHandover, MainHandover, RxHandover DEF Next
  <2>2. CASE UNCHANGED vars
    BY <2>2, HandoverKept DEF vars, device, main, receive
  <2> QED
    BY <2>1, <2>2
<1>3. Handover => PublishedIsOpen
  BY DEF Handover
<1> QED
  BY <1>1, <1>2, <1>3, PTL DEF Spec

-----------------------------------------------------------------------------
(* Segments are numbered as ION hands them over: those written are in      *)
(* order and none is beyond the last; while the last waits for its write,  *)
(* none is the last.                                                       *)
Written ==
  /\ segment \in Nat
  /\ wire \in Seq(Nat)
  /\ \A i \in DOMAIN wire : wire[i] <= segment
  /\ tx = "write" => \A i \in DOMAIN wire : wire[i] < segment
  /\ WrittenOnceInOrder

LEMMA InitWritten == Init => Written
BY DEF Init, Written, WrittenOnceInOrder

LEMMA WrittenKept ==
  Written /\ UNCHANGED <<segment, wire>> /\ (tx' = "write" => tx = "write") => Written'
BY DEF Written, WrittenOnceInOrder

LEMMA DequeueWritten == Written /\ Dequeue => Written'
<1> SUFFICES ASSUME Written, Dequeue PROVE Written'
  OBVIOUS
<1>1. segment' = segment + 1 /\ wire' = wire
  BY DEF Dequeue
<1> QED
  BY <1>1 DEF Written, WrittenOnceInOrder

LEMMA WriteWritten == Written /\ Write => Written'
<1> SUFFICES ASSUME Written, Write PROVE Written'
  OBVIOUS
<1>1. segment' = segment /\ tx' # "write"
  BY DEF Write
<1>2. CASE wire' = wire
  BY <1>1, <1>2 DEF Written, WrittenOnceInOrder
<1>3. CASE wire' = Append(wire, segment)
  <2>1. \A i \in DOMAIN wire : wire[i] < segment
    BY DEF Written, Write
  <2>2. /\ wire' \in Seq(Nat)
        /\ DOMAIN wire' = 1 .. Len(wire) + 1 /\ DOMAIN wire = 1 .. Len(wire)
        /\ \A i \in 1 .. Len(wire) : wire'[i] = wire[i]
        /\ wire'[Len(wire) + 1] = segment
        /\ Len(wire) \in Nat
    BY <1>3 DEF Written
  <2>3. \A i \in DOMAIN wire' : wire'[i] <= segment
    BY <2>1, <2>2 DEF Written
  <2>4. ASSUME NEW i \in DOMAIN wire', NEW j \in DOMAIN wire', i < j
        PROVE  wire'[i] < wire'[j]
    <3>1. i \in DOMAIN wire
      BY <2>2, <2>4
    <3>2. CASE j \in DOMAIN wire
      BY <2>2, <2>4, <3>1, <3>2 DEF Written, WrittenOnceInOrder
    <3>3. CASE j = Len(wire) + 1
      BY <2>1, <2>2, <3>1, <3>3
    <3> QED
      BY <2>2, <3>2, <3>3
  <2>5. WrittenOnceInOrder'
    BY <2>4 DEF WrittenOnceInOrder
  <2> QED
    BY <1>1, <2>2, <2>3, <2>5 DEF Written
<1> QED
  BY <1>2, <1>3 DEF Write

(* Every segment is written at most once and in order, whatever fails      *)
(* after the write.                                                        *)
THEOREM SegmentsInOrder == Spec => []WrittenOnceInOrder
<1>1. Init => Written
  BY InitWritten
<1>2. Written /\ [Next]_vars => Written'
  <2> SUFFICES ASSUME Written, [Next]_vars PROVE Written'
    OBVIOUS
  <2>1. CASE Environment
    BY <2>1, WrittenKept DEF Environment, Hear, Unplug, Plug, EndSpan, shutDown, main
  <2>2. CASE RxThread
    BY <2>2, WrittenKept DEF RxThread, Check, Load, Read, ReadNothing, ReadBytes, main
  <2>3. CASE Dequeue
    BY <2>3, DequeueWritten
  <2>4. CASE Write
    BY <2>4, WriteWritten
  <2>5. CASE Test \/ Shutdown \/ DequeueNothing \/ Drained \/ NotDrained
    BY <2>5, WrittenKept DEF Test, Shutdown, DequeueNothing, Drained, NotDrained
  <2>6. CASE Mark \/ Close \/ Reopen \/ ReopenFails \/ Publish \/ Join
    BY <2>6, WrittenKept DEF Mark, Close, Reopen, ReopenFails, Publish, Join
  <2>7. CASE UNCHANGED vars
    BY <2>7, WrittenKept DEF vars, main
  <2> QED
    BY <2>1, <2>2, <2>3, <2>4, <2>5, <2>6, <2>7 DEF Next, MainThread
<1>3. Written => WrittenOnceInOrder
  BY DEF Written
<1> QED
  BY <1>1, <1>2, <1>3, PTL DEF Spec

-----------------------------------------------------------------------------
(* The decoder over a sequence of bytes.  FoldLeft is a fold over the set  *)
(* of the indices.                                                         *)

(* The fold over 1 .. n, as MapThenFoldSet makes it.                       *)
Iterates(g, d, s, n) ==
  g = [x \in SUBSET (1 .. n) |->
         IF x = {} THEN d ELSE KissDecByte(g[x \ {Max(x)}], s[Max(x)])]

LEMMA FoldIs ==
  ASSUME NEW d, NEW s \in Seq(Bytes)
  PROVE  FoldLeft(KissDecByte, d, s) = (CHOOSE g : Iterates(g, d, s, Len(s)))[1 .. Len(s)]
<1>1. DOMAIN s = 1 .. Len(s)
  OBVIOUS
<1>2. QED
  BY <1>1 DEF FoldLeft, MapThenFoldSet, Iterates

LEMMA IterateMore ==
  ASSUME NEW d, NEW s, NEW n \in Nat, NEW g, Iterates(g, d, s, n)
  PROVE  \E h : Iterates(h, d, s, n + 1)
<1> DEFINE h == [x \in SUBSET (1 .. n + 1) |->
                   IF n + 1 \in x THEN KissDecByte(g[x \ {n + 1}], s[n + 1]) ELSE g[x]]
<1>1. ASSUME NEW x \in SUBSET (1 .. n + 1), n + 1 \in x
      PROVE  h[x] = KissDecByte(h[x \ {Max(x)}], s[Max(x)]) /\ x # {}
  <2>1. Max(x) = n + 1
    BY <1>1, MaxOfMore
  <2>2. x \ {n + 1} \in SUBSET (1 .. n + 1) /\ n + 1 \notin x \ {n + 1}
    OBVIOUS
  <2>3. h[x \ {n + 1}] = g[x \ {n + 1}]
    BY <2>2
  <2>4. QED
    BY <1>1, <2>1, <2>3
<1>2. ASSUME NEW x \in SUBSET (1 .. n + 1), n + 1 \notin x
      PROVE  h[x] = IF x = {} THEN d ELSE KissDecByte(h[x \ {Max(x)}], s[Max(x)])
  <2>1. x \in SUBSET (1 .. n)
    BY <1>2
  <2>2. h[x] = g[x] /\ h[x \ {Max(x)}] = g[x \ {Max(x)}]
    BY <1>2
  <2>3. g[x] = IF x = {} THEN d ELSE KissDecByte(g[x \ {Max(x)}], s[Max(x)])
    BY <2>1 DEF Iterates
  <2>4. QED
    BY <2>2, <2>3
<1> HIDE DEF h
<1>3. \A x \in SUBSET (1 .. n + 1) :
        h[x] = IF x = {} THEN d ELSE KissDecByte(h[x \ {Max(x)}], s[Max(x)])
  BY <1>1, <1>2
<1>4. h = [x \in SUBSET (1 .. n + 1) |-> h[x]]
  BY DEF h
<1>5. Iterates(h, d, s, n + 1)
  BY <1>3, <1>4, Zenon DEF Iterates
<1>6. QED
  BY <1>5

LEMMA IterateAny ==
  ASSUME NEW d, NEW s, NEW n \in Nat
  PROVE  \E h : Iterates(h, d, s, n)
<1> DEFINE S == {k \in Nat : \E h : Iterates(h, d, s, k)}
<1>1. 0 \in S
  <2> DEFINE h == [x \in SUBSET (1 .. 0) |-> d]
  <2>1. 1 .. 0 = {}
    OBVIOUS
  <2>2. \A x \in SUBSET (1 .. 0) : x = {} /\ h[x] = d
    BY <2>1
  <2>3. Iterates(h, d, s, 0)
    BY <2>2 DEF Iterates
  <2>4. QED
    BY <2>3
<1>2. \A k \in S : k + 1 \in S
  BY IterateMore
<1> HIDE DEF S
<1>3. S = Nat
  <2>1. S \in SUBSET Nat
    BY DEF S
  <2>2. QED
    BY <1>1, <1>2, <2>1, Induction
<1>4. QED
  BY <1>3 DEF S

(* T follows the decoder byte by byte.                                     *)
Follows(T, d, s, n) ==
  T[0] = d /\ \A k \in 0 .. n - 1 : T[k + 1] = KissDecByte(T[k], s[k + 1])

(* The steps of the fold go from 1 .. k to 1 .. k + 1.                     *)
LEMMA IterateFollows ==
  ASSUME NEW d, NEW s, NEW n \in Nat, NEW g, Iterates(g, d, s, n)
  PROVE  Follows([k \in 0 .. n |-> g[1 .. k]], d, s, n)
<1> DEFINE T == [k \in 0 .. n |-> g[1 .. k]]
<1>1. 1 .. 0 = {} /\ 1 .. 0 \in SUBSET (1 .. n)
  OBVIOUS
<1>2. T[0] = d
  BY <1>1 DEF Iterates
<1>3. ASSUME NEW k \in 0 .. n - 1
      PROVE  T[k + 1] = KissDecByte(T[k], s[k + 1])
  <2>1. /\ k \in Nat /\ k \in 0 .. n /\ k + 1 \in 0 .. n /\ 1 .. k + 1 \in SUBSET (1 .. n)
        /\ k + 1 \in 1 .. k + 1 /\ 1 .. k + 1 # {}
    OBVIOUS
  <2>2. Max(1 .. k + 1) = k + 1
    BY <2>1, MaxOfMore
  <2>3. (1 .. k + 1) \ {k + 1} = 1 .. k
    BY <2>1
  <2>4. g[1 .. k + 1] = KissDecByte(g[1 .. k], s[k + 1])
    BY <2>1, <2>2, <2>3 DEF Iterates
  <2>5. QED
    BY <2>1, <2>4
<1> HIDE DEF T
<1>4. Follows(T, d, s, n)
  BY <1>2, <1>3 DEF Follows
<1>5. QED
  BY <1>4 DEF T

LEMMA FollowsExists ==
  ASSUME NEW d, NEW s, NEW n \in Nat
  PROVE  \E T : Follows(T, d, s, n)
  BY IterateAny, IterateFollows

LEMMA FollowsOnce ==
  ASSUME NEW d, NEW s, NEW n \in Nat, NEW T, NEW U, Follows(T, d, s, n), Follows(U, d, s, n)
  PROVE  T[n] = U[n]
<1> DEFINE S == {k \in Nat : k <= n => T[k] = U[k]}
<1>1. 0 \in S
  BY DEF Follows
<1>2. ASSUME NEW k \in S
      PROVE  k + 1 \in S
  <2>1. k \in Nat
    OBVIOUS
  <2>2. SUFFICES ASSUME k + 1 <= n PROVE T[k + 1] = U[k + 1]
    BY <2>1
  <2>3. T[k] = U[k] /\ k \in 0 .. n - 1
    BY <2>1, <2>2
  <2>4. QED
    BY <2>3 DEF Follows
<1>3. S \in SUBSET Nat
  OBVIOUS
<1> HIDE DEF S
<1>4. S = Nat
  BY <1>1, <1>2, <1>3, Induction
<1>5. QED
  BY <1>4 DEF S

(* Any function that follows the decoder ends where the fold ends.         *)
LEMMA FoldTraced ==
  ASSUME NEW d, NEW s \in Seq(Bytes), NEW T, Follows(T, d, s, Len(s))
  PROVE  FoldLeft(KissDecByte, d, s) = T[Len(s)]
<1> DEFINE n == Len(s)
           g == CHOOSE h : Iterates(h, d, s, n)
           U == [k \in 0 .. n |-> g[1 .. k]]
<1>1. n \in Nat
  OBVIOUS
<1>2. Iterates(g, d, s, n)
  BY <1>1, IterateAny
<1>3. FoldLeft(KissDecByte, d, s) = g[1 .. n]
  BY FoldIs
<1> HIDE DEF g
<1>4. Follows(U, d, s, n)
  BY <1>1, <1>2, IterateFollows
<1>5. U[n] = g[1 .. n]
  BY <1>1
<1> HIDE DEF U
<1>6. QED
  BY <1>1, <1>3, <1>4, <1>5, FollowsOnce

(* The decoder after the bytes s.                                          *)
Fed(d, s) == FoldLeft(KissDecByte, d, s)

LEMMA FedNothing == \A d : Fed(d, << >>) = d
<1> TAKE d
<1> DEFINE T == [k \in {0} |-> d]
<1>1. /\ << >> \in Seq(Bytes) /\ Len(<< >>) = 0 /\ T[0] = d
      /\ \A k \in 0 .. Len(<< >>) - 1 : T[k + 1] = KissDecByte(T[k], << >>[k + 1])
  OBVIOUS
<1> HIDE DEF T
<1>2. Follows(T, d, << >>, Len(<< >>))
  BY <1>1 DEF Follows
<1>3. QED
  BY <1>1, <1>2, FoldTraced DEF Fed

LEMMA FedMore ==
  ASSUME NEW d, NEW s \in Seq(Bytes), NEW b \in Bytes
  PROVE  Fed(d, Append(s, b)) = KissDecByte(Fed(d, s), b)
<1> DEFINE n == Len(s)
           u == Append(s, b)
<1>1. /\ n \in Nat /\ u \in Seq(Bytes) /\ Len(u) = n + 1 /\ u[n + 1] = b
      /\ \A k \in 0 .. n - 1 : u[k + 1] = s[k + 1]
      /\ n + 1 \in Nat
  OBVIOUS
<1> HIDE DEF n, u
<1>2. PICK T : Follows(T, d, u, n + 1)
  BY <1>1, FollowsExists
<1>3. Fed(d, u) = T[n + 1]
  BY <1>1, <1>2, FoldTraced DEF Fed
<1>4. /\ n \in 0 .. (n + 1) - 1
      /\ \A k \in 0 .. n - 1 : k \in 0 .. (n + 1) - 1
  BY <1>1
<1>5. Follows(T, d, s, n)
  BY <1>1, <1>2, <1>4 DEF Follows
<1>6. Fed(d, s) = T[n]
  BY <1>5, FoldTraced DEF Fed, n
<1>7. T[n + 1] = KissDecByte(T[n], u[n + 1])
  BY <1>2, <1>4 DEF Follows
<1>8. QED
  BY <1>1, <1>3, <1>6, <1>7 DEF u

LEMMA FedBoth ==
  ASSUME NEW d, NEW s \in Seq(Bytes)
  PROVE  \A t \in Seq(Bytes) : Fed(d, s \o t) = Fed(Fed(d, s), t)
<1> DEFINE S == {t \in Seq(Bytes) : Fed(d, s \o t) = Fed(Fed(d, s), t)}
<1>1. << >> \in S
  BY FedNothing, EmptySeq, ConcatEmptySeq
<1>2. ASSUME NEW t \in S, NEW b \in Bytes
      PROVE  Append(t, b) \in S
  <2>1. t \in Seq(Bytes) /\ s \o t \in Seq(Bytes) /\ Append(t, b) \in Seq(Bytes)
    OBVIOUS
  <2>2. s \o Append(t, b) = Append(s \o t, b)
    BY <2>1
  <2>3. Fed(d, Append(s \o t, b)) = KissDecByte(Fed(d, s \o t), b)
    BY <2>1, FedMore
  <2>4. Fed(Fed(d, s), Append(t, b)) = KissDecByte(Fed(Fed(d, s), t), b)
    BY <2>1, FedMore
  <2>5. QED
    BY <2>1, <2>2, <2>3, <2>4
<1> HIDE DEF S
<1>3. S = Seq(Bytes)
  <2>1. S \in SUBSET Seq(Bytes)
    BY DEF S
  <2>2. QED
    BY <1>1, <1>2, <2>1, AllSequences
<1>4. QED
  BY <1>3 DEF S

-----------------------------------------------------------------------------
(* One byte                                                                *)

Frames == Seq(Bytes) \ {<< >>}

(* A decoder within its buffer.                                            *)
Decoders ==
  {d \in [buf : Seq(Bytes), in_frame : BOOLEAN, escape : BOOLEAN, out : Seq(Frames)] :
     Len(d.buf) <= MaxBuf}

Dec(buf, in_frame, escape, out) ==
  [buf |-> buf, in_frame |-> in_frame, escape |-> escape, out |-> out]

LEMMA DecParts ==
  ASSUME NEW d \in Decoders
  PROVE  /\ d = Dec(d.buf, d.in_frame, d.escape, d.out)
         /\ d.buf \in Seq(Bytes) /\ Len(d.buf) \in Nat /\ Len(d.buf) <= MaxBuf
         /\ d.in_frame \in BOOLEAN /\ d.escape \in BOOLEAN /\ d.out \in Seq(Frames)
<1>1. d \in [buf : Seq(Bytes), in_frame : BOOLEAN, escape : BOOLEAN, out : Seq(Frames)]
      /\ Len(d.buf) <= MaxBuf
  BY DEF Decoders
<1>2. QED
  BY <1>1 DEF Dec

LEMMA DecTyped ==
  ASSUME NEW buf \in Seq(Bytes), Len(buf) <= MaxBuf, NEW in_frame \in BOOLEAN,
         NEW escape \in BOOLEAN, NEW out \in Seq(Frames)
  PROVE  Dec(buf, in_frame, escape, out) \in Decoders
  BY DEF Decoders, Dec

(* What the end of a frame adds to what is handed out.                     *)
Ended(buf, in_frame, out) ==
  IF in_frame /\ Len(buf) > 1 /\ buf[1] % 16 = 0 THEN Append(out, Tail(buf)) ELSE out

LEMMA DecFields ==
  ASSUME NEW buf, NEW in_frame, NEW escape, NEW out
  PROVE  LET d == Dec(buf, in_frame, escape, out) IN
         d.buf = buf /\ d.in_frame = in_frame /\ d.escape = escape /\ d.out = out
  BY DEF Dec

(* The operators of the decoder, by the parts of what they return.         *)
LEMMA DecSteps ==
  ASSUME NEW d \in Decoders
  PROVE  /\ FrameEnd(d) = Dec(<< >>, TRUE, FALSE, Ended(d.buf, d.in_frame, d.out))
         /\ \A x : [d EXCEPT !.escape = x] = Dec(d.buf, d.in_frame, x, d.out)
         /\ \A x : [d EXCEPT !.out = x] = Dec(d.buf, d.in_frame, d.escape, x)
         /\ \A b : Store(d, b) = Dec(IF Len(d.buf) < MaxBuf THEN Append(d.buf, b) ELSE d.buf,
                                     d.in_frame, d.escape, d.out)
<1>1. d = Dec(d.buf, d.in_frame, d.escape, d.out)
  BY DecParts
<1>2. /\ \A x : [d EXCEPT !.buf = x] = Dec(x, d.in_frame, d.escape, d.out)
      /\ \A x : [d EXCEPT !.escape = x] = Dec(d.buf, d.in_frame, x, d.out)
      /\ \A x : [d EXCEPT !.out = x] = Dec(d.buf, d.in_frame, d.escape, x)
  BY <1>1 DEF Dec
<1>3. ASSUME NEW b
      PROVE  Store(d, b) = Dec(IF Len(d.buf) < MaxBuf THEN Append(d.buf, b) ELSE d.buf,
                               d.in_frame, d.escape, d.out)
  <2>1. CASE Len(d.buf) < MaxBuf
    BY <1>2, <2>1 DEF Store
  <2>2. CASE ~ (Len(d.buf) < MaxBuf)
    BY <1>1, <2>2 DEF Store
  <2>3. QED
    BY <2>1, <2>2
<1>4. FrameEnd(d) = Dec(<< >>, TRUE, FALSE, Ended(d.buf, d.in_frame, d.out))
  <2> DEFINE x == Ended(d.buf, d.in_frame, d.out)
             r == [NewDecoder EXCEPT !.in_frame = TRUE, !.out = x]
  <2>1. FrameEnd(d) = r
    BY Zenon DEF FrameEnd, Ended
  <2> HIDE DEF x
  <2>2. r \in [buf : {<< >>}, in_frame : {TRUE}, escape : {FALSE}, out : {x}]
    BY DEF NewDecoder
  <2> HIDE DEF r
  <2>3. r = Dec(r.buf, r.in_frame, r.escape, r.out)
    BY <2>2 DEF Dec
  <2>4. r.buf = << >> /\ r.in_frame = TRUE /\ r.escape = FALSE /\ r.out = x
    BY <2>2
  <2>5. QED
    BY <2>1, <2>3, <2>4, Zenon DEF x
<1>5. QED
  BY <1>2, <1>3, <1>4

LEMMA ByteByByte ==
  ASSUME NEW d \in Decoders, NEW b
  PROVE  KissDecByte(d, b) =
           IF b = FEND THEN FrameEnd(d)
           ELSE IF ~ d.in_frame THEN d
           ELSE IF d.escape THEN Store([d EXCEPT !.escape = FALSE], Unstuffed(b))
           ELSE IF b = FESC THEN [d EXCEPT !.escape = TRUE]
           ELSE Store(d, b)
<1>1. d.in_frame \in BOOLEAN /\ d.escape \in BOOLEAN /\ FEND # FESC
  BY DecParts DEF FEND, FESC
<1>2. QED
  BY <1>1 DEF KissDecByte

LEMMA TailIsFrame ==
  ASSUME NEW buf \in Seq(Bytes), Len(buf) > 1
  PROVE  Tail(buf) \in Frames
<1> DEFINE t == Tail(buf)
           n == Len(buf)
<1>1. buf # << >>
  OBVIOUS
<1>2. t \in Seq(Bytes) /\ Len(t) = n - 1 /\ n \in Nat /\ n > 1
  BY <1>1, HeadTailProperties, LenProperties
<1> HIDE DEF t, n
<1>3. Len(t) # 0 /\ Len(<< >>) = 0
  BY <1>2
<1>4. t # << >>
  BY <1>3, Zenon
<1>5. t \in Frames
  BY <1>2, <1>4, Zenon DEF Frames
<1>6. QED
  BY <1>5 DEF t

LEMMA EndedTyped ==
  ASSUME NEW buf \in Seq(Bytes), NEW in_frame, NEW out \in Seq(Frames)
  PROVE  Ended(buf, in_frame, out) \in Seq(Frames)
<1>1. CASE Len(buf) > 1
  <2>1. Append(out, Tail(buf)) \in Seq(Frames)
    BY <1>1, TailIsFrame, AppendProperties
  <2>2. QED
    BY <2>1 DEF Ended
<1>2. CASE ~ (Len(buf) > 1)
  BY <1>2 DEF Ended
<1>3. QED
  BY <1>1, <1>2

LEMMA FrameEndTyped ==
  ASSUME NEW d \in Decoders
  PROVE  FrameEnd(d) \in Decoders
<1>1. FrameEnd(d) = Dec(<< >>, TRUE, FALSE, Ended(d.buf, d.in_frame, d.out))
  BY DecSteps
<1>2. Ended(d.buf, d.in_frame, d.out) \in Seq(Frames)
  BY DecParts, EndedTyped
<1>3. << >> \in Seq(Bytes) /\ Len(<< >>) <= MaxBuf
  BY SerialAssumption
<1>4. QED
  BY <1>1, <1>2, <1>3, DecTyped, Zenon

LEMMA StoreTyped ==
  ASSUME NEW d \in Decoders, NEW b \in Bytes
  PROVE  Store(d, b) \in Decoders
<1> DEFINE buf == IF Len(d.buf) < MaxBuf THEN Append(d.buf, b) ELSE d.buf
<1>1. Store(d, b) = Dec(buf, d.in_frame, d.escape, d.out)
  BY DecSteps
<1>2. buf \in Seq(Bytes) /\ Len(buf) <= MaxBuf
  BY DecParts, SerialAssumption
<1> HIDE DEF buf
<1>3. QED
  BY <1>1, <1>2, DecParts, DecTyped

LEMMA EscapeTyped ==
  ASSUME NEW d \in Decoders, NEW e \in BOOLEAN
  PROVE  [d EXCEPT !.escape = e] \in Decoders
<1>1. [d EXCEPT !.escape = e] = Dec(d.buf, d.in_frame, e, d.out)
  BY DecSteps
<1>2. QED
  BY <1>1, DecParts, DecTyped

LEMMA UnstuffedTyped == \A b \in Bytes : Unstuffed(b) \in Bytes
  BY DEF Unstuffed, Bytes, FEND, FESC, TFEND, TFESC

LEMMA ByteTyped ==
  ASSUME NEW d \in Decoders, NEW b \in Bytes
  PROVE  KissDecByte(d, b) \in Decoders
<1>1. Unstuffed(b) \in Bytes
  BY UnstuffedTyped
<1>2. [d EXCEPT !.escape = FALSE] \in Decoders /\ [d EXCEPT !.escape = TRUE] \in Decoders
  BY EscapeTyped
<1>3. /\ FrameEnd(d) \in Decoders /\ Store(d, b) \in Decoders
      /\ Store([d EXCEPT !.escape = FALSE], Unstuffed(b)) \in Decoders
  BY <1>1, <1>2, FrameEndTyped, StoreTyped
<1> DEFINE k == KissDecByte(d, b)
           end == FrameEnd(d)
           e0 == [d EXCEPT !.escape = FALSE]
           e1 == [d EXCEPT !.escape = TRUE]
           stored == Store(d, b)
           unstuffed == Store(e0, Unstuffed(b))
<1>4. k = end \/ k = d \/ k = unstuffed \/ k = e1 \/ k = stored
  BY ByteByByte
<1> HIDE DEF k, end, e0, e1, stored, unstuffed
<1>5. e1 \in Decoders /\ end \in Decoders /\ stored \in Decoders /\ unstuffed \in Decoders
  BY <1>2, <1>3, Zenon DEF end, e0, e1, stored, unstuffed
<1>6. k \in Decoders
  BY <1>4, <1>5, Zenon
<1>7. QED
  BY <1>6 DEF k

LEMMA FedTyped ==
  ASSUME NEW d \in Decoders
  PROVE  \A s \in Seq(Bytes) : Fed(d, s) \in Decoders
<1> DEFINE S == {s \in Seq(Bytes) : Fed(d, s) \in Decoders}
<1>1. << >> \in S
  BY FedNothing, EmptySeq
<1>2. \A s \in S : \A b \in Bytes : Append(s, b) \in S
  BY FedMore, ByteTyped
<1>3. S \in SUBSET Seq(Bytes)
  OBVIOUS
<1> HIDE DEF S
<1>4. S = Seq(Bytes)
  BY <1>1, <1>2, <1>3, AllSequences
<1>5. QED
  BY <1>4 DEF S

-----------------------------------------------------------------------------
(* What was taken before                                                   *)

(* d, had it handed out o before.                                          *)
Past(o, d) == [d EXCEPT !.out = o \o @]

LEMMA PastIs ==
  ASSUME NEW o, NEW d \in Decoders
  PROVE  Past(o, d) = Dec(d.buf, d.in_frame, d.escape, o \o d.out)
  BY DecSteps DEF Past

LEMMA PastDec ==
  ASSUME NEW o, NEW buf, NEW in_frame, NEW escape, NEW out
  PROVE  Past(o, Dec(buf, in_frame, escape, out)) = Dec(buf, in_frame, escape, o \o out)
<1>1. \A x : [Dec(buf, in_frame, escape, out) EXCEPT !.out = x] = Dec(buf, in_frame, escape, x)
  BY DEF Dec
<1>2. Dec(buf, in_frame, escape, out).out = out
  BY DEF Dec
<1>3. QED
  BY <1>1, <1>2 DEF Past

LEMMA PastTyped ==
  ASSUME NEW o \in Seq(Frames), NEW d \in Decoders
  PROVE  /\ Past(o, d) \in Decoders
         /\ Past(o, d).buf = d.buf /\ Past(o, d).in_frame = d.in_frame
         /\ Past(o, d).escape = d.escape /\ Past(o, d).out = o \o d.out
<1>1. o \o d.out \in Seq(Frames)
  BY DecParts, ConcatProperties
<1>2. Dec(d.buf, d.in_frame, d.escape, o \o d.out) \in Decoders
  BY <1>1, DecParts, DecTyped
<1>3. Past(o, d) = Dec(d.buf, d.in_frame, d.escape, o \o d.out)
  BY PastIs
<1>4. QED
  BY <1>2, <1>3 DEF Dec

LEMMA EndedPast ==
  ASSUME NEW buf \in Seq(Bytes), NEW in_frame, NEW o \in Seq(Frames), NEW out \in Seq(Frames)
  PROVE  Ended(buf, in_frame, o \o out) = o \o Ended(buf, in_frame, out)
<1>1. o \o Append(out, Tail(buf)) = Append(o \o out, Tail(buf))
  OBVIOUS
<1>2. QED
  BY <1>1, Zenon DEF Ended

LEMMA BytePast ==
  ASSUME NEW o \in Seq(Frames), NEW d \in Decoders, NEW b \in Bytes
  PROVE  KissDecByte(Past(o, d), b) = Past(o, KissDecByte(d, b))
<1> DEFINE p == Past(o, d)
<1>0. d.buf \in Seq(Bytes) /\ d.out \in Seq(Frames)
  BY DecParts
<1>1. /\ p \in Decoders
      /\ p.buf = d.buf /\ p.in_frame = d.in_frame /\ p.escape = d.escape /\ p.out = o \o d.out
  BY PastTyped
<1>2. \A q \in Decoders : \A x, y, z, w :
        q = Dec(x, y, z, w) => Past(o, q) = Dec(x, y, z, o \o w)
  BY PastIs, DecFields
<1> HIDE DEF p
<1>3. FrameEnd(p) = Past(o, FrameEnd(d))
  <2>1. FrameEnd(d) = Dec(<< >>, TRUE, FALSE, Ended(d.buf, d.in_frame, d.out))
    BY DecSteps
  <2>2. FrameEnd(p) = Dec(<< >>, TRUE, FALSE, Ended(d.buf, d.in_frame, o \o d.out))
    BY <1>1, DecSteps
  <2>3. Ended(d.buf, d.in_frame, o \o d.out) = o \o Ended(d.buf, d.in_frame, d.out)
    BY <1>0, EndedPast
  <2> DEFINE e == Ended(d.buf, d.in_frame, d.out)
  <2> HIDE DEF e
  <2>4. Past(o, Dec(<< >>, TRUE, FALSE, e)) = Dec(<< >>, TRUE, FALSE, o \o e)
    BY PastDec, Zenon
  <2>5. QED
    BY <2>1, <2>2, <2>3, <2>4 DEF e
<1>4. ASSUME NEW e \in BOOLEAN
      PROVE  [p EXCEPT !.escape = e] = Past(o, [d EXCEPT !.escape = e])
  <2>1. /\ [p EXCEPT !.escape = e] = Dec(d.buf, d.in_frame, e, o \o d.out)
        /\ [d EXCEPT !.escape = e] = Dec(d.buf, d.in_frame, e, d.out)
    <3>1. p \in Decoders
      BY <1>1
    <3>2. /\ [p EXCEPT !.escape = e] = Dec(p.buf, p.in_frame, e, p.out)
          /\ [d EXCEPT !.escape = e] = Dec(d.buf, d.in_frame, e, d.out)
      BY <3>1, DecSteps, Zenon
    <3>3. QED
      BY <1>1, <3>2, Zenon
  <2>2. QED
    BY <1>2, <2>1, EscapeTyped
<1>5. ASSUME NEW q \in Decoders, NEW c \in Bytes
      PROVE  Store(Past(o, q), c) = Past(o, Store(q, c))
  <2>1. Past(o, q) \in Decoders
    BY PastTyped
  <2>a. /\ Past(o, q).buf = q.buf /\ Past(o, q).in_frame = q.in_frame
        /\ Past(o, q).escape = q.escape /\ Past(o, q).out = o \o q.out
    BY PastTyped, Zenon
  <2> DEFINE r == Past(o, q)
  <2>b. Store(r, c) = Dec(IF Len(r.buf) < MaxBuf THEN Append(r.buf, c) ELSE r.buf,
                          r.in_frame, r.escape, r.out)
    BY <2>1, DecSteps
  <2>2. Store(Past(o, q), c) = Dec(IF Len(q.buf) < MaxBuf THEN Append(q.buf, c) ELSE q.buf,
                                   q.in_frame, q.escape, o \o q.out)
    BY <2>a, <2>b
  <2>3. Store(q, c) = Dec(IF Len(q.buf) < MaxBuf THEN Append(q.buf, c) ELSE q.buf,
                          q.in_frame, q.escape, q.out)
    BY DecSteps
  <2>4. QED
    BY <1>2, <2>2, <2>3, StoreTyped
<1>6. Unstuffed(b) \in Bytes
  BY UnstuffedTyped
<1>7. Store(p, b) = Past(o, Store(d, b))
  BY <1>5 DEF p
<1>8. [p EXCEPT !.escape = TRUE] = Past(o, [d EXCEPT !.escape = TRUE])
  BY <1>4
<1>9. Store([p EXCEPT !.escape = FALSE], Unstuffed(b))
        = Past(o, Store([d EXCEPT !.escape = FALSE], Unstuffed(b)))
  BY <1>4, <1>5, <1>6, EscapeTyped
<1>10. KissDecByte(p, b) =
         IF b = FEND THEN FrameEnd(p)
         ELSE IF ~ d.in_frame THEN p
         ELSE IF d.escape THEN Store([p EXCEPT !.escape = FALSE], Unstuffed(b))
         ELSE IF b = FESC THEN [p EXCEPT !.escape = TRUE]
         ELSE Store(p, b)
  BY <1>1, ByteByByte
<1>11. QED
  BY <1>3, <1>7, <1>8, <1>9, <1>10, ByteByByte DEF p

LEMMA FedPast ==
  ASSUME NEW o \in Seq(Frames), NEW d \in Decoders
  PROVE  \A s \in Seq(Bytes) : Fed(Past(o, d), s) = Past(o, Fed(d, s))
<1> DEFINE S == {s \in Seq(Bytes) : Fed(Past(o, d), s) = Past(o, Fed(d, s))}
<1>1. << >> \in S
  BY FedNothing, EmptySeq
<1>2. ASSUME NEW s \in S, NEW b \in Bytes
      PROVE  Append(s, b) \in S
  <2>1. s \in Seq(Bytes) /\ Append(s, b) \in Seq(Bytes) /\ Fed(d, s) \in Decoders
    BY FedTyped
  <2>2. Fed(Past(o, d), Append(s, b)) = KissDecByte(Past(o, Fed(d, s)), b)
    BY <2>1, FedMore
  <2>3. Fed(d, Append(s, b)) = KissDecByte(Fed(d, s), b)
    BY <2>1, FedMore
  <2>4. QED
    BY <2>1, <2>2, <2>3, BytePast
<1>3. S \in SUBSET Seq(Bytes)
  OBVIOUS
<1> HIDE DEF S
<1>4. S = Seq(Bytes)
  BY <1>1, <1>2, <1>3, AllSequences
<1>5. QED
  BY <1>4 DEF S

-----------------------------------------------------------------------------
(* How a frame is encoded                                                  *)

Encoded(data) == FlattenSeq([i \in DOMAIN data |-> Stuffed(data[i])])

LEMMA StuffedIs ==
  ASSUME NEW b \in Bytes
  PROVE  Stuffed(b) = IF b = FEND THEN <<FESC, TFEND>>
                      ELSE IF b = FESC THEN <<FESC, TFESC>> ELSE <<b>>
<1>1. FEND # FESC
  BY DEF FEND, FESC
<1>2. CASE b = FEND
  BY <1>1, <1>2 DEF Stuffed
<1>3. CASE b = FESC
  BY <1>1, <1>3 DEF Stuffed
<1>4. CASE b # FEND /\ b # FESC
  BY <1>4, Zenon DEF Stuffed
<1>5. QED
  BY <1>1, <1>2, <1>3, <1>4

LEMMA StuffedTyped == \A b \in Bytes : Stuffed(b) \in Seq(Bytes)
<1>1. {FEND, FESC, TFEND, TFESC} \subseteq Bytes
  BY DEF Bytes
<1>2. TAKE b \in Bytes
<1>3. <<FESC, TFEND>> \in Seq(Bytes) /\ <<FESC, TFESC>> \in Seq(Bytes) /\ <<b>> \in Seq(Bytes)
  BY <1>1
<1>4. QED
  BY <1>3, StuffedIs, Zenon

LEMMA EncodedNothing == Encoded(<< >>) = << >>
<1>1. [i \in DOMAIN << >> |-> Stuffed(<< >>[i])] = << >>
  OBVIOUS
<1>2. Len(<< >>) = 0
  OBVIOUS
<1>3. QED
  BY <1>1, <1>2 DEF Encoded, FlattenSeq

LEMMA EncodedMore ==
  ASSUME NEW s \in Seq(Bytes), NEW b \in Bytes
  PROVE  Encoded(Append(s, b)) = Encoded(s) \o Stuffed(b)
<1> DEFINE q(t) == [i \in DOMAIN t |-> Stuffed(t[i])]
<1>1. ASSUME NEW t \in Seq(Bytes)
      PROVE  q(t) \in Seq(Seq(Bytes)) /\ Len(q(t)) = Len(t)
  <2>1. DOMAIN t = 1 .. Len(t) /\ Len(t) \in Nat /\ \A i \in 1 .. Len(t) : t[i] \in Bytes
    OBVIOUS
  <2>2. \A i \in 1 .. Len(t) : Stuffed(t[i]) \in Seq(Bytes)
    BY <2>1, StuffedTyped
  <2>3. QED
    BY <2>1, <2>2
<1>2. q(Append(s, b)) = Append(q(s), Stuffed(b))
  <2>1. /\ Append(s, b) \in Seq(Bytes) /\ Len(Append(s, b)) = Len(s) + 1 /\ Len(s) \in Nat
        /\ \A i \in 1 .. Len(s) : Append(s, b)[i] = s[i]
        /\ Append(s, b)[Len(s) + 1] = b
    OBVIOUS
  <2>2. QED
    BY <2>1, StuffedTyped
<1>3. QED
  BY <1>1, <1>2, StuffedTyped, FlattenMore DEF Encoded

LEMMA EncodedTyped == \A s \in Seq(Bytes) : Encoded(s) \in Seq(Bytes)
<1> DEFINE S == {s \in Seq(Bytes) : Encoded(s) \in Seq(Bytes)}
<1>1. << >> \in S
  BY EncodedNothing, EmptySeq
<1>2. ASSUME NEW s \in S, NEW b \in Bytes
      PROVE  Append(s, b) \in S
  <2>1. s \in Seq(Bytes) /\ Encoded(s) \in Seq(Bytes) /\ Append(s, b) \in Seq(Bytes)
    OBVIOUS
  <2>2. Encoded(s) \o Stuffed(b) \in Seq(Bytes)
    BY <2>1, StuffedTyped, ConcatProperties
  <2>3. QED
    BY <2>1, <2>2, EncodedMore
<1>3. S \in SUBSET Seq(Bytes)
  OBVIOUS
<1> HIDE DEF S
<1>4. S = Seq(Bytes)
  BY <1>1, <1>2, <1>3, AllSequences
<1>5. QED
  BY <1>4 DEF S

-----------------------------------------------------------------------------
(* A frame decoded: what follows a KISS frame is decoded as if the frame   *)
(* had been the last thing before it, and the frame is handed out whole.   *)

LEMMA FedOne ==
  ASSUME NEW d, NEW b \in Bytes
  PROVE  Fed(d, <<b>>) = KissDecByte(d, b)
<1>1. <<b>> = Append(<< >>, b) /\ << >> \in Seq(Bytes)
  OBVIOUS
<1>2. QED
  <2>1. Fed(d, Append(<< >>, b)) = KissDecByte(Fed(d, << >>), b)
    BY <1>1, FedMore, Zenon
  <2>2. Fed(d, << >>) = d
    BY FedNothing, Zenon
  <2>3. QED
    BY <1>1, <2>1, <2>2, Zenon

(* A decoder within a frame, with buf collected and out handed out.        *)
Collects(d, buf, out) ==
  d \in Decoders /\ d.buf = buf /\ d.out = out /\ d.in_frame /\ ~ d.escape

LEMMA FieldsOfStore ==
  ASSUME NEW d \in Decoders, NEW b
  PROVE  /\ Store(d, b).buf = IF Len(d.buf) < MaxBuf THEN Append(d.buf, b) ELSE d.buf
         /\ Store(d, b).in_frame = d.in_frame /\ Store(d, b).escape = d.escape
         /\ Store(d, b).out = d.out
  BY DecParts DEF Store, Dec

LEMMA FieldsOfEnd ==
  ASSUME NEW d
  PROVE  /\ FrameEnd(d).buf = << >> /\ FrameEnd(d).in_frame /\ ~ FrameEnd(d).escape
         /\ FrameEnd(d).out = Ended(d.buf, d.in_frame, d.out)
  BY DEF FrameEnd, Ended, NewDecoder

LEMMA EndCollects ==
  ASSUME NEW d \in Decoders
  PROVE  Collects(FrameEnd(d), << >>, Ended(d.buf, d.in_frame, d.out))
  BY FieldsOfEnd, FrameEndTyped DEF Collects

LEMMA ByteCollected ==
  ASSUME NEW d, NEW buf \in Seq(Bytes), NEW out, Collects(d, buf, out),
         Len(buf) < MaxBuf, NEW b \in Bytes, b # FEND, b # FESC
  PROVE  Collects(KissDecByte(d, b), Append(buf, b), out)
<1>1. KissDecByte(d, b) = Store(d, b) /\ Store(d, b) \in Decoders
  BY ByteByByte, StoreTyped DEF Collects
<1>2. /\ Store(d, b).buf = Append(buf, b)
      /\ Store(d, b).in_frame = d.in_frame /\ Store(d, b).escape = d.escape
      /\ Store(d, b).out = out
  BY FieldsOfStore DEF Collects
<1>3. QED
  BY <1>1, <1>2 DEF Collects

LEMMA FieldsOfEscape ==
  ASSUME NEW d \in Decoders, NEW e \in BOOLEAN
  PROVE  LET x == [d EXCEPT !.escape = e] IN
         /\ x \in Decoders /\ x.buf = d.buf /\ x.in_frame = d.in_frame
         /\ x.escape = e /\ x.out = d.out
<1>1. d = Dec(d.buf, d.in_frame, d.escape, d.out)
  BY DecParts
<1>2. [d EXCEPT !.escape = e] \in Decoders
  BY EscapeTyped
<1>3. QED
  BY <1>1, <1>2 DEF Dec

LEMMA EscapeCollected ==
  ASSUME NEW d, NEW buf \in Seq(Bytes), NEW out, Collects(d, buf, out),
         Len(buf) < MaxBuf, NEW c \in {TFEND, TFESC}
  PROVE  Collects(Fed(d, <<FESC, c>>), Append(buf, Unstuffed(c)), out)
<1> DEFINE e == [d EXCEPT !.escape = TRUE]
           x == [e EXCEPT !.escape = FALSE]
<1>1. d \in Decoders /\ d.in_frame /\ ~ d.escape /\ d.buf = buf /\ d.out = out
  BY DEF Collects
<1>2. e \in Decoders /\ e.buf = buf /\ e.in_frame /\ e.escape /\ e.out = out
  <2>1. TRUE \in BOOLEAN
    OBVIOUS
  <2>2. e \in Decoders /\ e.buf = d.buf /\ e.in_frame = d.in_frame /\ e.escape = TRUE /\ e.out = d.out
    BY <1>1, <2>1, FieldsOfEscape
  <2>3. QED
    BY <1>1, <2>2
<1> HIDE DEF e
<1>3. x \in Decoders /\ x.buf = buf /\ x.in_frame /\ ~ x.escape /\ x.out = out
  <2>1. FALSE \in BOOLEAN
    OBVIOUS
  <2>2. x \in Decoders /\ x.buf = e.buf /\ x.in_frame = e.in_frame /\ x.escape = FALSE /\ x.out = e.out
    BY <1>2, <2>1, FieldsOfEscape
  <2>3. QED
    BY <1>2, <2>2
<1>4. FESC \in Bytes /\ c \in Bytes /\ FESC # FEND /\ c # FEND
  BY DEF Bytes, FEND, FESC, TFEND, TFESC
<1>5. KissDecByte(d, FESC) = e
  BY <1>1, <1>4, ByteByByte DEF e
<1>6. KissDecByte(e, c) = Store(x, Unstuffed(c))
  BY <1>2, <1>4, ByteByByte
<1> HIDE DEF x
<1>7. <<FESC, c>> = Append(<<FESC>>, c) /\ <<FESC>> \in Seq(Bytes)
  BY <1>4
<1>8. Fed(d, <<FESC, c>>) = KissDecByte(Fed(d, <<FESC>>), c)
  <2>1. <<FESC>> \in Seq(Bytes) /\ c \in Bytes
    BY <1>4, <1>7, Zenon
  <2>2. Fed(d, Append(<<FESC>>, c)) = KissDecByte(Fed(d, <<FESC>>), c)
    BY <2>1, FedMore, Zenon
  <2>3. QED
    BY <1>7, <2>2, Zenon
<1>9. Fed(d, <<FESC>>) = KissDecByte(d, FESC)
  BY <1>4, FedOne
<1>10. Unstuffed(c) \in Bytes
  BY <1>4, UnstuffedTyped
<1>11. /\ Store(x, Unstuffed(c)) \in Decoders
       /\ Store(x, Unstuffed(c)).buf = Append(buf, Unstuffed(c))
       /\ Store(x, Unstuffed(c)).in_frame = x.in_frame
       /\ Store(x, Unstuffed(c)).escape = x.escape
       /\ Store(x, Unstuffed(c)).out = out
  BY <1>3, <1>10, StoreTyped, FieldsOfStore
<1>12. QED
  BY <1>3, <1>5, <1>6, <1>8, <1>9, <1>11 DEF Collects

LEMMA StuffedCollected ==
  ASSUME NEW d, NEW buf \in Seq(Bytes), NEW out, Collects(d, buf, out),
         Len(buf) < MaxBuf, NEW b \in Bytes
  PROVE  Collects(Fed(d, Stuffed(b)), Append(buf, b), out)
<1>1. /\ Unstuffed(TFEND) = FEND /\ Unstuffed(TFESC) = FESC /\ FESC # FEND
      /\ TFEND \in {TFEND, TFESC} /\ TFESC \in {TFEND, TFESC}
  BY DEF Unstuffed, TFEND, TFESC, FESC, FEND
<1>2. CASE b = FEND
  <2>1. Stuffed(b) = <<FESC, TFEND>>
    BY <1>2, StuffedIs
  <2>2. Collects(Fed(d, <<FESC, TFEND>>), Append(buf, Unstuffed(TFEND)), out)
    BY <1>1, EscapeCollected
  <2>3. QED
    BY <1>1, <1>2, <2>1, <2>2
<1>3. CASE b = FESC
  <2>1. Stuffed(b) = <<FESC, TFESC>>
    BY <1>1, <1>3, StuffedIs
  <2>2. Collects(Fed(d, <<FESC, TFESC>>), Append(buf, Unstuffed(TFESC)), out)
    BY <1>1, EscapeCollected
  <2>3. QED
    BY <1>1, <1>3, <2>1, <2>2
<1>4. CASE b # FEND /\ b # FESC
  <2>1. Stuffed(b) = <<b>>
    BY <1>4, StuffedIs
  <2>2. Fed(d, <<b>>) = KissDecByte(d, b)
    BY FedOne
  <2>3. QED
    BY <1>4, <2>1, <2>2, ByteCollected
<1>5. QED
  BY <1>2, <1>3, <1>4

(* The bytes of a frame are collected behind those collected before.       *)
LEMMA EncodedCollected ==
  ASSUME NEW d, NEW buf \in Seq(Bytes), NEW out, Collects(d, buf, out)
  PROVE  \A s \in Seq(Bytes) : Len(buf) + Len(s) <= MaxBuf =>
           Collects(Fed(d, Encoded(s)), buf \o s, out)
<1> DEFINE Good(s) == Len(buf) + Len(s) <= MaxBuf => Collects(Fed(d, Encoded(s)), buf \o s, out)
           S == {s \in Seq(Bytes) : Good(s)}
<1>1. Good(<< >>)
  <2>1. buf \o << >> = buf /\ Fed(d, Encoded(<< >>)) = d
    BY FedNothing, EncodedNothing, ConcatEmptySeq
  <2>2. QED
    BY <2>1
<1>2. ASSUME NEW s \in Seq(Bytes), Good(s), NEW b \in Bytes
      PROVE  Good(Append(s, b))
  <2>1. /\ Append(s, b) \in Seq(Bytes)
        /\ Len(Append(s, b)) = Len(s) + 1 /\ Len(s) \in Nat /\ Len(buf) \in Nat
        /\ buf \o s \in Seq(Bytes) /\ Len(buf \o s) = Len(buf) + Len(s)
        /\ buf \o Append(s, b) = Append(buf \o s, b)
    OBVIOUS
  <2>2. SUFFICES ASSUME Len(buf) + Len(Append(s, b)) <= MaxBuf
                 PROVE  Collects(Fed(d, Encoded(Append(s, b))), buf \o Append(s, b), out)
    OBVIOUS
  <2>3. Len(buf \o s) < MaxBuf /\ Len(buf) + Len(s) <= MaxBuf
    BY <2>1, <2>2, SerialAssumption
  <2>4. Collects(Fed(d, Encoded(s)), buf \o s, out)
    BY <1>2, <2>3
  <2>5. /\ Encoded(s) \in Seq(Bytes) /\ Stuffed(b) \in Seq(Bytes)
        /\ Encoded(Append(s, b)) = Encoded(s) \o Stuffed(b)
    BY EncodedMore, EncodedTyped, StuffedTyped
  <2>6. Fed(d, Encoded(s) \o Stuffed(b)) = Fed(Fed(d, Encoded(s)), Stuffed(b))
    BY <2>5, FedBoth
  <2>7. Collects(Fed(Fed(d, Encoded(s)), Stuffed(b)), Append(buf \o s, b), out)
    BY <2>1, <2>3, <2>4, StuffedCollected
  <2>8. QED
    BY <2>1, <2>5, <2>6, <2>7
<1> HIDE DEF Good
<1>3. S \in SUBSET Seq(Bytes) /\ << >> \in S /\ \A s \in S : \A b \in Bytes : Append(s, b) \in S
  <2>1. << >> \in Seq(Bytes) /\ \A s \in Seq(Bytes) : \A b \in Bytes : Append(s, b) \in Seq(Bytes)
    OBVIOUS
  <2>2. QED
    BY <1>1, <1>2, <2>1
<1> HIDE DEF S
<1>4. S = Seq(Bytes)
  BY <1>3, AllSequences
<1>5. QED
  BY <1>4 DEF S, Good

(* A frame that fits is handed out as it was, after what was left of an    *)
(* earlier one.                                                            *)
LEMMA FrameDecoded ==
  ASSUME NEW d \in Decoders, NEW f \in Frames, Len(f) + 1 <= MaxBuf
  PROVE  /\ KissFrame(f) \in Seq(Bytes)
         /\ Collects(Fed(d, KissFrame(f)), << >>, Append(Ended(d.buf, d.in_frame, d.out), f))
<1> DEFINE o == Ended(d.buf, d.in_frame, d.out)
           s == <<0>> \o f
           d1 == Fed(d, <<FEND>>)
           d2 == Fed(d1, <<0>>)
           d3 == Fed(d2, Encoded(f))
<1>1. /\ f \in Seq(Bytes) /\ Len(f) \in Nat \ {0} /\ MaxBuf \in Nat \ {0}
      /\ FEND \in Bytes /\ 0 \in Bytes /\ 0 # FEND /\ 0 # FESC
      /\ <<FEND>> \in Seq(Bytes) /\ <<0>> \in Seq(Bytes) /\ << >> \in Seq(Bytes)
  BY SerialAssumption DEF Frames, Bytes, FEND, FESC
<1>2. Encoded(f) \in Seq(Bytes)
  BY <1>1, EncodedTyped
<1>3. KissFrame(f) = ((<<FEND>> \o <<0>>) \o Encoded(f)) \o <<FEND>>
  <2>1. <<FEND, 0>> = <<FEND>> \o <<0>>
    OBVIOUS
  <2>2. QED
    BY <2>1 DEF KissFrame, Encoded
<1>4. /\ <<FEND>> \o <<0>> \in Seq(Bytes)
      /\ (<<FEND>> \o <<0>>) \o Encoded(f) \in Seq(Bytes)
      /\ ((<<FEND>> \o <<0>>) \o Encoded(f)) \o <<FEND>> \in Seq(Bytes)
  BY <1>1, <1>2, ConcatProperties, Zenon
<1> HIDE DEF o
<1>5. Collects(d1, << >>, o)
  <2>1. KissDecByte(d, FEND) = FrameEnd(d)
    BY ByteByByte
  <2>2. d1 = FrameEnd(d)
    BY <1>1, <2>1, FedOne
  <2>3. QED
    BY <2>2, EndCollects DEF o
<1> HIDE DEF d1
<1>6. Collects(d2, <<0>>, o)
  <2>1. Len(<< >>) < MaxBuf /\ Append(<< >>, 0) = <<0>>
    BY <1>1
  <2>2. Collects(KissDecByte(d1, 0), Append(<< >>, 0), o)
    BY <1>1, <1>5, <2>1, ByteCollected
  <2>3. QED
    BY <1>1, <2>1, <2>2, FedOne
<1> HIDE DEF d2
<1>7. Collects(d3, s, o)
  <2>1. Len(<<0>>) + Len(f) <= MaxBuf
    BY <1>1
  <2>2. QED
    BY <1>1, <1>6, <2>1, EncodedCollected
<1> HIDE DEF d3
<1>8. Collects(Fed(d3, <<FEND>>), << >>, Append(o, f))
  <2>1. /\ s \in Seq(Bytes) /\ Len(s) = Len(f) + 1 /\ Len(s) > 1 /\ s[1] = 0
        /\ Tail(s) = f /\ 0 % 16 = 0
    BY <1>1
  <2> HIDE DEF s
  <2>2. d3 \in Decoders /\ d3.buf = s /\ d3.in_frame /\ d3.out = o
    BY <1>7 DEF Collects
  <2>3. Ended(d3.buf, d3.in_frame, d3.out) = Append(o, f)
    BY <2>1, <2>2 DEF Ended
  <2>4. KissDecByte(d3, FEND) = FrameEnd(d3)
    BY <2>2, ByteByByte
  <2>5. Fed(d3, <<FEND>>) = FrameEnd(d3)
    BY <1>1, <2>4, FedOne
  <2>6. QED
    BY <2>2, <2>3, <2>5, EndCollects
<1>9. Fed(d, KissFrame(f)) = Fed(d3, <<FEND>>)
  <2>1. Fed(d, <<FEND>> \o <<0>>) = d2
    BY <1>1, FedBoth DEF d1, d2
  <2>2. Fed(d, (<<FEND>> \o <<0>>) \o Encoded(f)) = d3
    BY <1>2, <1>4, <2>1, FedBoth DEF d3
  <2> DEFINE u == (<<FEND>> \o <<0>>) \o Encoded(f)
  <2>3. u \in Seq(Bytes) /\ KissFrame(f) = u \o <<FEND>> /\ Fed(d, u) = d3
    BY <1>3, <1>4, <2>2
  <2> HIDE DEF u
  <2>4. Fed(d, u \o <<FEND>>) = Fed(Fed(d, u), <<FEND>>)
    BY <1>1, <2>3, FedBoth
  <2>5. QED
    BY <2>3, <2>4
<1>10. QED
  BY <1>3, <1>4, <1>8, <1>9 DEF o

-----------------------------------------------------------------------------
(* The types, made inductive, and what one read does.                      *)

(* What makes the types inductive: a device that is away was not plugged   *)
(* in the last time the bound allows, the receiving thread reads a         *)
(* descriptor, the main thread writes a segment.                           *)
TypeInv ==
  /\ TypeOK
  /\ ~ present => plug <= MaxUnplugs
  /\ rx = "read" => fd \in Fds
  /\ tx = "write" => segment > 0

LEMMA KissFrameTyped ==
  ASSUME NEW f \in Seq(Bytes)
  PROVE  KissFrame(f) \in Seq(Bytes)
<1>1. <<FEND, 0>> \in Seq(Bytes) /\ <<FEND>> \in Seq(Bytes)
  BY DEF Bytes
<1>2. Encoded(f) \in Seq(Bytes)
  BY EncodedTyped
<1>3. <<FEND, 0>> \o Encoded(f) \in Seq(Bytes)
  BY <1>1, <1>2, ConcatProperties
<1>4. (<<FEND, 0>> \o Encoded(f)) \o <<FEND>> \in Seq(Bytes)
  BY <1>1, <1>3, ConcatProperties
<1>5. QED
  BY <1>4 DEF KissFrame, Encoded

LEMMA HeaderTyped ==
  ASSUME NEW p \in Payloads
  PROVE  /\ p \in Seq(Bytes) /\ BuildAx25(p) \in Seq(Bytes)
         /\ Len(BuildAx25(p)) = Len(p) + 1
         /\ BuildAx25(p)[1] = Header /\ Tail(BuildAx25(p)) = p
<1>1. p \in Seq(Bytes) /\ Header \in Bytes
  BY SerialAssumption DEF Bytes
<1>2. QED
  BY <1>1 DEF BuildAx25

LEMMA TailsTyped ==
  ASSUME NEW s \in Seq(Bytes), NEW t \in Tails(s)
  PROVE  t \in Seq(Bytes)
<1>1. PICK i \in 1 .. Len(s) + 1 : t = SubSeq(s, i, Len(s))
  BY DEF Tails
<1>2. QED
  BY <1>1, SubSeqProperties

LEMMA StripTyped == \A f \in Frames : StripAx25(f) \in Seq(Bytes)
<1> TAKE f \in Frames
<1>1. f \in Seq(Bytes) /\ f # << >>
  BY DEF Frames
<1>2. Tail(f) \in Seq(Bytes)
  BY <1>1
<1>3. QED
  BY <1>1, <1>2 DEF StripAx25

(* Frames without their headers.                                           *)
Stripped(out) == [i \in 1 .. Len(out) |-> StripAx25(out[i])]

LEMMA StrippedTyped ==
  ASSUME NEW out \in Seq(Frames)
  PROVE  Stripped(out) \in Seq(Seq(Bytes)) /\ Len(Stripped(out)) = Len(out)
<1>1. \A i \in 1 .. Len(out) : StripAx25(out[i]) \in Seq(Bytes)
  BY StripTyped
<1>2. QED
  BY <1>1 DEF Stripped

(* What read() takes is what is left of the line otherwise.                *)
LEMMA LineCut ==
  ASSUME NEW s \in Seq(Bytes), NEW n \in 1 .. Len(s)
  PROVE  /\ SubSeq(s, 1, n) \in Seq(Bytes) /\ SubSeq(s, n + 1, Len(s)) \in Seq(Bytes)
         /\ s = SubSeq(s, 1, n) \o SubSeq(s, n + 1, Len(s))
  OBVIOUS

(* The decoder between two calls of read().                                *)
Idle(d) == d \in Decoders /\ d.out = << >>

LEMMA DecIdle ==
  ASSUME TypeOK
  PROVE  Idle(dec)
<1>1. /\ dec \in [buf : Seq(Bytes), in_frame : BOOLEAN, escape : BOOLEAN, out : {<< >>}]
      /\ Len(dec.buf) <= MaxBuf
  BY DEF TypeOK
<1>2. << >> \in Seq(Frames)
  OBVIOUS
<1>3. dec \in [buf : Seq(Bytes), in_frame : BOOLEAN, escape : BOOLEAN, out : Seq(Frames)]
      /\ dec.out = << >>
  BY <1>1, <1>2
<1>4. QED
  BY <1>1, <1>3 DEF Idle, Decoders

LEMMA IdleTyped ==
  ASSUME NEW d, Idle(d)
  PROVE  /\ d \in [buf : Seq(Bytes), in_frame : BOOLEAN, escape : BOOLEAN, out : {<< >>}]
         /\ Len(d.buf) <= MaxBuf
  BY DEF Idle, Decoders

(* What is left when the frames of d are handed out.                       *)
Emptied(d) == [d EXCEPT !.out = << >>]

LEMMA EmptiedIs ==
  ASSUME NEW d \in Decoders
  PROVE  Idle(Emptied(d)) /\ d = Past(d.out, Emptied(d))
<1>1. /\ d = Dec(d.buf, d.in_frame, d.escape, d.out)
      /\ Emptied(d) = Dec(d.buf, d.in_frame, d.escape, << >>)
  BY DecParts, DecSteps DEF Emptied
<1>2. << >> \in Seq(Frames) /\ d.out \o << >> = d.out
  BY DecParts
<1>3. Emptied(d) \in Decoders
  <2>1. /\ d.buf \in Seq(Bytes) /\ Len(d.buf) <= MaxBuf
        /\ d.in_frame \in BOOLEAN /\ d.escape \in BOOLEAN
    BY DecParts
  <2>2. Dec(d.buf, d.in_frame, d.escape, << >>) \in Decoders
    BY <1>2, <2>1, DecTyped, Zenon
  <2>3. QED
    BY <1>1, <2>2
<1>4. Emptied(d).out = << >>
  BY <1>1 DEF Dec
<1>5. Past(d.out, Emptied(d)) = Dec(d.buf, d.in_frame, d.escape, d.out \o << >>)
  <2>1. Past(d.out, Dec(d.buf, d.in_frame, d.escape, << >>))
          = Dec(d.buf, d.in_frame, d.escape, d.out \o << >>)
    BY PastDec, Zenon
  <2>2. Emptied(d) = Dec(d.buf, d.in_frame, d.escape, << >>)
    BY <1>1, Zenon
  <2>3. QED
    BY <2>1, <2>2, Zenon
<1>6. QED
  BY <1>1, <1>2, <1>3, <1>4, <1>5 DEF Idle

(* What the receiving thread takes from the line and gives to ION.         *)
LEMMA ReadEffect ==
  ASSUME TypeOK, NEW n \in 1 .. Len(line), ReadBytes(n)
  PROVE  LET after == Fed(dec, SubSeq(line, 1, n)) IN
         /\ SubSeq(line, 1, n) \in Seq(Bytes) /\ line' \in Seq(Bytes)
         /\ line = SubSeq(line, 1, n) \o line'
         /\ after \in Decoders /\ dec' = Emptied(after)
         /\ \/ handed' = handed \o Stripped(after.out) /\ UNCHANGED running
            \/ /\ \E m \in 0 .. Len(after.out) - 1 :
                     handed' = handed \o SubSeq(Stripped(after.out), 1, m)
               /\ running' = FALSE
         /\ rx = "reading" /\ NextPass
         /\ UNCHANGED <<plug, present, spoils, heard, fds, main, ended, shared>>
<1> DEFINE after == Fed(dec, SubSeq(line, 1, n))
<1>1. line \in Seq(Bytes) /\ line' = SubSeq(line, n + 1, Len(line))
  BY DEF TypeOK, ReadBytes
<1>2. /\ SubSeq(line, 1, n) \in Seq(Bytes) /\ line' \in Seq(Bytes)
      /\ line = SubSeq(line, 1, n) \o line'
  BY <1>1, LineCut
<1>3. after \in Decoders
  BY <1>2, DecIdle, FedTyped DEF Idle
<1>4. after.out \in Seq(Frames)
  BY <1>3, DecParts
<1> HIDE DEF after
<1>5. ASSUME NEW m \in 0 .. Len(after.out)
      PROVE  [i \in 1 .. m |-> StripAx25(after.out[i])] = SubSeq(Stripped(after.out), 1, m)
  <2>1. Stripped(after.out) \in Seq(Seq(Bytes)) /\ Len(Stripped(after.out)) = Len(after.out)
    BY <1>4, StrippedTyped
  <2>2. Len(after.out) \in Nat /\ m \in Nat
    BY <1>4
  <2>3. \A i \in 1 .. m : Stripped(after.out)[i] = StripAx25(after.out[i])
    BY <2>2 DEF Stripped
  <2>4. SubSeq(Stripped(after.out), 1, m) = [i \in 1 .. m |-> Stripped(after.out)[i]]
    BY <2>1, <2>2
  <2>5. QED
    BY <2>3, <2>4
<1>6. [i \in 1 .. Len(after.out) |-> StripAx25(after.out[i])] = Stripped(after.out)
  BY DEF Stripped
<1>7. /\ dec' = Emptied(after)
      /\ \/ handed' = handed \o Stripped(after.out) /\ UNCHANGED running
         \/ /\ \E m \in 0 .. Len(after.out) - 1 :
                  handed' = handed \o SubSeq(Stripped(after.out), 1, m)
            /\ running' = FALSE
  <2>1. /\ dec' = [after EXCEPT !.out = << >>]
        /\ \/ /\ handed' = handed \o [i \in 1 .. Len(after.out) |-> StripAx25(after.out[i])]
              /\ UNCHANGED running
           \/ /\ \E m \in 0 .. Len(after.out) - 1 :
                    handed' = handed \o [i \in 1 .. m |-> StripAx25(after.out[i])]
              /\ running' = FALSE
    BY Zenon DEF ReadBytes, after, Fed
  <2>2. \A m \in 0 .. Len(after.out) - 1 : m \in 0 .. Len(after.out)
    BY <1>4
  <2>3. dec' = Emptied(after)
    BY <2>1 DEF Emptied
  <2>4. QED
    BY <1>5, <1>6, <2>1, <2>2, <2>3
<1>8. /\ rx = "reading" /\ NextPass
      /\ UNCHANGED <<plug, present, spoils, heard, fds, main, ended, shared>>
  BY DEF ReadBytes
<1>9. QED
  BY <1>2, <1>3, <1>7, <1>8 DEF after

-----------------------------------------------------------------------------
(* Each step keeps the types.                                              *)

(* TypeInv by the part that keeps it.                                      *)
DeviceTypes ==
  /\ plug \in 1 .. MaxUnplugs + 1 /\ present \in BOOLEAN /\ (~ present => plug <= MaxUnplugs)
  /\ line \in Seq(Bytes) /\ spoils \in Nat /\ heard \in Seq(Payloads)

MainTypes ==
  /\ fds \in [Fds -> 0 .. plug]
  /\ tx \in {"loop", "dequeue", "write", "drain", "mark", "close", "open",
             "publish", "join", "done"}
  /\ serial_fd \in Fds \cup {None} /\ shared \in Fds \cup {None}
  /\ g_running \in BOOLEAN /\ ended \in BOOLEAN
  /\ segment \in 0 .. MaxSegments /\ wire \in Seq(1 .. MaxSegments)
  /\ (tx = "write" => segment > 0)

RxTypes ==
  /\ running \in BOOLEAN
  /\ rx \in {"check", "load", "read", "reading", "ended"}
  /\ fd \in Fds \cup {None} /\ file \in 0 .. plug /\ (rx = "read" => fd \in Fds)

DecTypes ==
  /\ dec \in [buf : Seq(Bytes), in_frame : BOOLEAN, escape : BOOLEAN, out : {<<>>}]
  /\ Len(dec.buf) <= MaxBuf
  /\ handed \in Seq(Seq(Bytes))

LEMMA TypeParts == TypeInv <=> DeviceTypes /\ MainTypes /\ RxTypes /\ DecTypes
  BY Zenon DEF TypeInv, TypeOK, DeviceTypes, MainTypes, RxTypes, DecTypes

LEMMA TypePartsThen == TypeInv' <=> DeviceTypes' /\ MainTypes' /\ RxTypes' /\ DecTypes'
  BY Zenon DEF TypeInv, TypeOK, DeviceTypes, MainTypes, RxTypes, DecTypes

LEMMA InitTypes == Init => TypeInv
<1> SUFFICES ASSUME Init PROVE TypeInv
  OBVIOUS
<1>1. DeviceTypes
  BY SerialAssumption DEF Init, DeviceTypes
<1>2. MainTypes
  <2>1. g_running \in BOOLEAN /\ ended \in BOOLEAN
    BY Zenon DEF Init
  <2>2. plug = 1 /\ fds = [f \in Fds |-> IF f = serial_fd THEN plug ELSE 0]
    BY Zenon DEF Init
  <2>3. fds \in [Fds -> 0 .. plug]
    BY <2>2
  <2>4. /\ tx = "loop" /\ serial_fd \in Fds /\ shared = serial_fd
        /\ segment = 0 /\ wire = << >>
    BY Zenon, SerialAssumption DEF Init
  <2>5. segment \in 0 .. MaxSegments /\ wire \in Seq(1 .. MaxSegments)
    BY <2>4, SerialAssumption
  <2>6. QED
    BY <2>1, <2>3, <2>4, <2>5 DEF MainTypes
<1>3. RxTypes
  BY DEF Init, RxTypes
<1>4. DecTypes
  <2>1. dec = NewDecoder /\ handed = << >>
    BY DEF Init
  <2>2. << >> \in Seq(Bytes) /\ << >> \in Seq(Seq(Bytes)) /\ Len(<< >>) <= MaxBuf
    BY SerialAssumption
  <2>3. /\ dec \in [buf : {<< >>}, in_frame : BOOLEAN, escape : BOOLEAN, out : {<<>>}]
    BY <2>1 DEF NewDecoder
  <2>4. QED
    BY <2>1, <2>2, <2>3 DEF DecTypes
<1>5. QED
  BY <1>1, <1>2, <1>3, <1>4, TypeParts

LEMMA EnvironmentTypes == TypeInv /\ Environment => TypeInv'
<1> SUFFICES ASSUME DeviceTypes, MainTypes, RxTypes, DecTypes, Environment
             PROVE  DeviceTypes' /\ MainTypes' /\ RxTypes' /\ DecTypes'
  BY TypeParts, TypePartsThen, Zenon
<1> USE SerialAssumption
<1>1. ASSUME NEW p \in Payloads, Hear(p) PROVE DeviceTypes'
  <2>1. BuildAx25(p) \in Seq(Bytes)
    BY HeaderTyped
  <2>2. line' \in Seq(Bytes)
    BY <1>1, <2>1, KissFrameTyped, ConcatProperties DEF Hear, DeviceTypes
  <2>3. heard' \in Seq(Payloads)
    BY <1>1 DEF Hear, DeviceTypes
  <2>4. QED
    BY <1>1, <2>2, <2>3 DEF Hear, DeviceTypes
<1>2. ASSUME Unplug PROVE DeviceTypes'
  <2>1. line' \in Seq(Bytes)
    BY <1>2, TailsTyped DEF Unplug, DeviceTypes
  <2>2. present' \in BOOLEAN
    BY <1>2, Zenon DEF Unplug
  <2>3. plug \in 1 .. MaxUnplugs + 1 /\ spoils \in Nat /\ heard \in Seq(Payloads)
    BY DEF DeviceTypes
  <2>4. plug <= MaxUnplugs /\ plug' = plug /\ spoils' = spoils + 1 /\ heard' = heard
    BY <1>2 DEF Unplug
  <2>5. QED
    BY <2>1, <2>2, <2>3, <2>4 DEF DeviceTypes
<1>3. ASSUME Plug PROVE DeviceTypes' /\ MainTypes' /\ RxTypes'
  <2>1. plug \in Nat /\ plug' = plug + 1
    BY <1>3 DEF Plug, DeviceTypes
  <2>2. \A x : x \in 0 .. plug => x \in 0 .. plug'
    BY <2>1
  <2>3. MainTypes'
    <3>1. fds' \in [Fds -> 0 .. plug']
      BY <1>3, <2>2 DEF Plug, MainTypes
    <3>2. QED
      BY <1>3, <3>1 DEF Plug, MainTypes, main
  <2>4. RxTypes'
    BY <1>3, <2>2 DEF Plug, RxTypes, receive
  <2>5. QED
    BY <1>3, <2>3, <2>4 DEF Plug, DeviceTypes
<1>4. ASSUME EndSpan PROVE DeviceTypes' /\ MainTypes' /\ RxTypes'
  BY <1>4 DEF EndSpan, DeviceTypes, MainTypes, RxTypes, device, main, receive
<1>5. ASSUME shutDown PROVE DeviceTypes' /\ MainTypes' /\ RxTypes'
  <2>1. UNCHANGED <<device, fds, tx, serial_fd, segment, wire, ended, shared, running, receive>>
    BY <1>5 DEF shutDown
  <2>2. g_running' \in BOOLEAN
    BY <1>5, Zenon DEF shutDown
  <2>3. QED
    BY <2>1, <2>2 DEF DeviceTypes, MainTypes, RxTypes, device, receive
<1>6. ASSUME (\E p \in Payloads : Hear(p)) \/ Unplug
      PROVE  UNCHANGED <<plug, fds, main, ended, shared, running, receive>>
  BY <1>6 DEF Hear, Unplug
<1>7. ASSUME UNCHANGED <<plug, fds, main, ended, shared, running, receive>>
      PROVE  MainTypes' /\ RxTypes'
  BY <1>7 DEF MainTypes, RxTypes, main, receive
<1>8. UNCHANGED <<dec, handed>>
  BY DEF Environment, Hear, Unplug, Plug, EndSpan, shutDown, receive
<1>9. DecTypes'
  BY <1>8 DEF DecTypes
<1>10. QED
  BY <1>1, <1>2, <1>3, <1>4, <1>5, <1>6, <1>7, <1>9 DEF Environment

LEMMA MainTypesKept == TypeInv /\ MainThread => TypeInv'
<1> SUFFICES ASSUME DeviceTypes, MainTypes, RxTypes, DecTypes, MainThread
             PROVE  DeviceTypes' /\ MainTypes' /\ RxTypes' /\ DecTypes'
  BY TypeParts, TypePartsThen, Zenon
<1> USE SerialAssumption
<1>1. CASE Test \/ Shutdown \/ Drained \/ NotDrained \/ Mark
  <2>1. UNCHANGED device /\ UNCHANGED receive
    BY <1>1 DEF Test, Shutdown, Drained, NotDrained, Mark
  <2>2. MainTypes' /\ running' \in BOOLEAN
    BY <1>1 DEF Test, Shutdown, Drained, NotDrained, Mark, MainTypes, RxTypes, device
  <2>3. QED
    BY <2>1, <2>2 DEF DeviceTypes, RxTypes, DecTypes, device, receive
<1>2. CASE Dequeue \/ DequeueNothing
  <2>1. UNCHANGED <<device, receive, running>>
    BY <1>2 DEF Dequeue, DequeueNothing
  <2>2. UNCHANGED <<plug, fds, serial_fd, wire, ended, shared>>
    BY <1>2 DEF Dequeue, DequeueNothing, device
  <2>3. g_running' \in BOOLEAN
    <3>1. CASE Dequeue
      BY <3>1 DEF Dequeue, MainTypes
    <3>2. CASE DequeueNothing
      BY <3>2, Zenon DEF DequeueNothing
    <3>3. QED
      BY <1>2, <3>1, <3>2
  <2>4. segment' \in 0 .. MaxSegments /\ tx' \in {"write", "loop"} /\ (tx' = "write" => segment' > 0)
    BY <1>2 DEF Dequeue, DequeueNothing, MainTypes
  <2>5. MainTypes'
    BY <2>2, <2>3, <2>4 DEF MainTypes
  <2>6. QED
    BY <2>1, <2>5 DEF DeviceTypes, RxTypes, DecTypes, device, receive
<1>3. CASE Write
  <2>1. UNCHANGED <<device, receive, running>>
    BY <1>3 DEF Write
  <2>2. segment \in 1 .. MaxSegments
    BY <1>3 DEF Write, MainTypes
  <2>3. Append(wire, segment) \in Seq(1 .. MaxSegments)
    BY <2>2 DEF MainTypes
  <2>4. wire' \in Seq(1 .. MaxSegments) /\ tx' \in {"drain", "mark"}
    BY <1>3, <2>3 DEF Write, MainTypes
  <2>5. MainTypes'
    BY <1>3, <2>4 DEF Write, MainTypes, device
  <2>6. QED
    BY <2>1, <2>5 DEF DeviceTypes, RxTypes, DecTypes, device, receive
<1>4. CASE Close \/ Join
  <2>1. UNCHANGED <<device, receive, running>>
    BY <1>4 DEF Close, Join
  <2>2. 0 \in 0 .. plug
    BY DEF DeviceTypes
  <2>3. fds' \in [Fds -> 0 .. plug']
    BY <1>4, <2>2 DEF Close, Join, MainTypes, device
  <2>4. MainTypes'
    BY <1>4, <2>3 DEF Close, Join, MainTypes, device
  <2>5. QED
    BY <2>1, <2>4 DEF DeviceTypes, RxTypes, DecTypes, device, receive
<1>5. CASE Reopen
  <2>1. UNCHANGED <<plug, present, heard, receive, running>> /\ spoils' = spoils + 1
    BY <1>5 DEF Reopen
  <2>2. plug \in 0 .. plug /\ line' \in Seq(Bytes)
    BY <1>5, TailsTyped DEF Reopen, DeviceTypes
  <2>3. fds' \in [Fds -> 0 .. plug'] /\ serial_fd' \in Fds
    BY <1>5, <2>2 DEF Reopen, MainTypes
  <2>4. MainTypes'
    BY <1>5, <2>3 DEF Reopen, MainTypes
  <2>5. QED
    BY <2>1, <2>2, <2>4 DEF DeviceTypes, RxTypes, DecTypes, receive
<1>6. CASE ReopenFails \/ Publish
  <2>1. UNCHANGED <<device, receive, running>>
    BY <1>6 DEF ReopenFails, Publish
  <2>2. MainTypes'
    BY <1>6 DEF ReopenFails, Publish, MainTypes, device
  <2>3. QED
    BY <2>1, <2>2 DEF DeviceTypes, RxTypes, DecTypes, device, receive
<1>7. QED
  BY <1>1, <1>2, <1>3, <1>4, <1>5, <1>6 DEF MainThread

LEMMA RxTypesKept == TypeInv /\ RxThread => TypeInv'
<1> SUFFICES ASSUME DeviceTypes, MainTypes, RxTypes, DecTypes, RxThread
             PROVE  DeviceTypes' /\ MainTypes' /\ RxTypes' /\ DecTypes'
  BY TypeParts, TypePartsThen, Zenon
<1> USE SerialAssumption
<1>1. CASE Check \/ Load \/ Read \/ ReadNothing
  <2>1. UNCHANGED <<device, fds, main, ended, shared, running, dec, handed>>
    BY <1>1 DEF Check, Load, Read, ReadNothing
  <2>2. fd' \in Fds \cup {None} /\ file' \in 0 .. plug
    BY <1>1 DEF Check, Load, Read, ReadNothing, NextPass, RxTypes, MainTypes, DeviceTypes
  <2>3. /\ rx' \in {"check", "load", "read", "reading", "ended"}
        /\ rx' = "read" => fd' \in Fds
    BY <1>1 DEF Check, Load, Read, ReadNothing, NextPass, RxTypes, MainTypes
  <2>4. QED
    BY <2>1, <2>2, <2>3 DEF DeviceTypes, MainTypes, RxTypes, DecTypes, device, main
<1>2. ASSUME NEW n \in 1 .. Len(line), ReadBytes(n)
      PROVE  DeviceTypes' /\ MainTypes' /\ RxTypes' /\ DecTypes'
  <2>0. TypeOK
    BY TypeParts DEF TypeInv
  <2> DEFINE after == Fed(dec, SubSeq(line, 1, n))
  <2>1. /\ line' \in Seq(Bytes)
        /\ after \in Decoders /\ dec' = Emptied(after)
        /\ \/ handed' = handed \o Stripped(after.out) /\ UNCHANGED running
           \/ /\ \E m \in 0 .. Len(after.out) - 1 :
                    handed' = handed \o SubSeq(Stripped(after.out), 1, m)
              /\ running' = FALSE
        /\ NextPass
        /\ UNCHANGED <<plug, present, spoils, heard, fds, main, ended, shared>>
    BY <1>2, <2>0, ReadEffect
  <2> HIDE DEF after
  <2>2. Stripped(after.out) \in Seq(Seq(Bytes)) /\ Len(Stripped(after.out)) = Len(after.out)
        /\ Len(after.out) \in Nat
    BY <2>1, DecParts, StrippedTyped
  <2>3. handed' \in Seq(Seq(Bytes))
    <3>1. handed \in Seq(Seq(Bytes))
      BY DEF DecTypes
    <3>2. CASE handed' = handed \o Stripped(after.out)
      BY <2>2, <3>1, <3>2
    <3>3. ASSUME NEW m \in 0 .. Len(after.out) - 1,
                 handed' = handed \o SubSeq(Stripped(after.out), 1, m)
          PROVE  handed' \in Seq(Seq(Bytes))
      <4>1. SubSeq(Stripped(after.out), 1, m) \in Seq(Seq(Bytes))
        BY <2>2, SubSeqProperties
      <4>2. QED
        BY <3>1, <3>3, <4>1, ConcatProperties
    <3>4. QED
      BY <2>1, <3>2, <3>3
  <2>4. Idle(dec')
    BY <2>1, EmptiedIs
  <2>5. DecTypes'
    BY <2>3, <2>4, IdleTyped DEF DecTypes
  <2>6. DeviceTypes' /\ MainTypes'
    BY <2>1 DEF DeviceTypes, MainTypes, main
  <2>7. RxTypes'
    <3>1. rx' = "check" /\ fd' = None /\ file' = 0 /\ plug' = plug /\ shared' = shared
      BY <2>1 DEF NextPass
    <3>2. running' \in BOOLEAN
      BY <2>1 DEF RxTypes
    <3>3. 0 \in 0 .. plug
      BY DEF DeviceTypes
    <3>4. QED
      BY <3>1, <3>2, <3>3 DEF RxTypes
  <2>8. QED
    BY <2>5, <2>6, <2>7
<1>3. QED
  BY <1>1, <1>2 DEF RxThread

LEMMA TypesKept == TypeInv /\ [Next]_vars => TypeInv'
<1>1. TypeInv /\ UNCHANGED vars => TypeInv'
  <2> SUFFICES ASSUME DeviceTypes, MainTypes, RxTypes, DecTypes, UNCHANGED vars
               PROVE  DeviceTypes' /\ MainTypes' /\ RxTypes' /\ DecTypes'
    BY TypeParts, TypePartsThen, Zenon
  <2>1. QED
    BY DEF vars, device, main, receive, DeviceTypes, MainTypes, RxTypes, DecTypes
<1>2. QED
  BY <1>1, EnvironmentTypes, MainTypesKept, RxTypesKept DEF Next

(* However the line is cut, the decoder stays within its buffer            *)
(* (kiss_dec_byte), and every variable of both threads keeps its type.     *)
THEOREM SerialTypes == Spec => []TypeOK
<1>1. TypeInv => TypeOK
  BY DEF TypeInv
<1>2. QED
  BY <1>1, InitTypes, TypesKept, PTL DEF Spec

-----------------------------------------------------------------------------
(* The decoder run ahead over what the line still holds. That is what a    *)
(* read does not change, and what a loss and a frame heard do.             *)

(* The decoder when it will have read all of the line, and what ION has    *)
(* then.                                                                   *)
Ahead    == Fed(dec, line)
Promised == handed \o Stripped(Ahead.out)

(* A frame was refused: nothing more is handed over.                       *)
Stopped == ~ running /\ rx \in {"check", "ended"}

(* Steps that read nothing and lose nothing.                               *)
Quiet ==
  /\ UNCHANGED <<line, spoils, heard, dec, handed>>
  /\ Stopped => Stopped'

LEMMA SerialSteps ==
  ASSUME TypeOK, [Next]_vars
  PROVE  \/ Quiet
         \/ (\E p \in Payloads : Hear(p)) \/ Unplug \/ Reopen
         \/ \E n \in 1 .. Len(line) : ReadBytes(n)
<1>1. CASE UNCHANGED vars
  BY <1>1 DEF vars, device, receive, Quiet, Stopped
<1>2. CASE Plug \/ EndSpan \/ shutDown
  BY <1>2 DEF Plug, EndSpan, shutDown, device, receive, Quiet, Stopped
<1>3. CASE MainThread /\ ~ Reopen
  <2>1. UNCHANGED <<device, receive>> /\ (running' = running \/ ~ running')
    BY <1>3 DEF MainThread, Test, Shutdown, Dequeue, DequeueNothing, Write, Drained,
                NotDrained, Mark, Close, ReopenFails, Publish, Join
  <2>2. QED
    BY <2>1 DEF device, receive, Quiet, Stopped
<1>4. CASE Check \/ Load \/ Read \/ ReadNothing
  BY <1>4 DEF Check, Load, Read, ReadNothing, device, Quiet, Stopped
<1>5. QED
  BY <1>1, <1>2, <1>3, <1>4 DEF Next, Environment, MainThread, RxThread

LEMMA LossSteps ==
  ASSUME TypeOK, Unplug \/ Reopen
  PROVE  /\ spoils' = spoils + 1 /\ spoils \in Nat /\ line' \in Tails(line)
         /\ UNCHANGED <<heard, dec, handed, running, rx>>
  BY DEF TypeOK, Unplug, Reopen, receive

LEMMA AheadTyped ==
  ASSUME TypeOK
  PROVE  /\ Ahead \in Decoders /\ Ahead.out \in Seq(Frames)
         /\ line \in Seq(Bytes) /\ handed \in Seq(Seq(Bytes)) /\ heard \in Seq(Seq(Bytes))
<1>1. line \in Seq(Bytes) /\ handed \in Seq(Seq(Bytes)) /\ heard \in Seq(Payloads)
  BY DEF TypeOK
<1>2. dec \in Decoders
  BY DecIdle DEF Idle
<1>3. Ahead \in Decoders
  BY <1>1, <1>2, FedTyped DEF Ahead
<1>4. heard \in Seq(Seq(Bytes))
  BY <1>1, SerialAssumption
<1>5. QED
  BY <1>1, <1>3, <1>4, DecParts

LEMMA ConcatIs ==
  ASSUME NEW X, NEW u \in Seq(X), NEW v \in Seq(X)
  PROVE  u \o v = [i \in 1 .. Len(u) + Len(v) |-> (u \o v)[i]]
<1> DEFINE w == u \o v
<1>1. w \in Seq(X) /\ Len(w) = Len(u) + Len(v)
  BY ConcatProperties
<1> HIDE DEF w
<1>2. w = [i \in 1 .. Len(w) |-> w[i]]
  BY <1>1
<1>3. QED
  BY <1>1, <1>2 DEF w

LEMMA ConcatThree ==
  \A u, v, w \in Seq(Seq(Bytes)) : (u \o v) \o w = u \o (v \o w)
  OBVIOUS

LEMMA SequenceCut ==
  ASSUME NEW s \in Seq(Seq(Bytes)), NEW m \in 0 .. Len(s)
  PROVE  /\ SubSeq(s, 1, m) \in Seq(Seq(Bytes)) /\ SubSeq(s, m + 1, Len(s)) \in Seq(Seq(Bytes))
         /\ s = SubSeq(s, 1, m) \o SubSeq(s, m + 1, Len(s))
<1>1. Len(s) \in Nat /\ 1 \in 1 .. Len(s) + 1 /\ m \in 1 - 1 .. Len(s) /\ Len(s) \in m .. Len(s)
  OBVIOUS
<1>2. SubSeq(s, 1, m) \o SubSeq(s, m + 1, Len(s)) = SubSeq(s, 1, Len(s))
  BY <1>1, ConcatAdjacentSubSeq, Zenon
<1>3. SubSeq(s, 1, Len(s)) = s
  OBVIOUS
<1>4. SubSeq(s, 1, m) \in Seq(Seq(Bytes)) /\ SubSeq(s, m + 1, Len(s)) \in Seq(Seq(Bytes))
  BY <1>1, SubSeqProperties
<1>5. QED
  BY <1>2, <1>3, <1>4

LEMMA StrippedBoth ==
  ASSUME NEW s \in Seq(Frames), NEW t \in Seq(Frames)
  PROVE  Stripped(s \o t) = Stripped(s) \o Stripped(t)
<1>1. /\ Len(s \o t) = Len(s) + Len(t) /\ Len(s) \in Nat /\ Len(t) \in Nat
      /\ Stripped(s) \in Seq(Seq(Bytes)) /\ Len(Stripped(s)) = Len(s)
      /\ Stripped(t) \in Seq(Seq(Bytes)) /\ Len(Stripped(t)) = Len(t)
  BY StrippedTyped
<1>2. \A i \in 1 .. Len(s) + Len(t) :
        (s \o t)[i] = IF i <= Len(s) THEN s[i] ELSE t[i - Len(s)]
  OBVIOUS
<1>3. \A i \in 1 .. Len(s) + Len(t) :
        (Stripped(s) \o Stripped(t))[i]
          = IF i <= Len(s) THEN Stripped(s)[i] ELSE Stripped(t)[i - Len(s)]
  BY <1>1
<1>4. \A i \in 1 .. Len(s) + Len(t) :
        StripAx25((s \o t)[i]) = (Stripped(s) \o Stripped(t))[i]
  <2> TAKE i \in 1 .. Len(s) + Len(t)
  <2>1. CASE i <= Len(s)
    <3>1. i \in 1 .. Len(s)
      BY <1>1, <2>1
    <3>2. Stripped(s)[i] = StripAx25(s[i])
      BY <3>1 DEF Stripped
    <3>3. QED
      BY <1>2, <1>3, <2>1, <3>2
  <2>2. CASE ~ (i <= Len(s))
    <3>1. i - Len(s) \in 1 .. Len(t)
      BY <1>1, <2>2
    <3>2. Stripped(t)[i - Len(s)] = StripAx25(t[i - Len(s)])
      BY <3>1 DEF Stripped
    <3>3. QED
      BY <1>2, <1>3, <2>2, <3>2
  <2>3. QED
    BY <2>1, <2>2
<1>5. Stripped(s) \o Stripped(t)
        = [i \in 1 .. Len(s) + Len(t) |-> (Stripped(s) \o Stripped(t))[i]]
  <2> DEFINE u == Stripped(s)
             v == Stripped(t)
  <2>1. u \in Seq(Seq(Bytes)) /\ v \in Seq(Seq(Bytes)) /\ Len(u) = Len(s) /\ Len(v) = Len(t)
    BY <1>1
  <2> HIDE DEF u, v
  <2>2. u \o v = [i \in 1 .. Len(u) + Len(v) |-> (u \o v)[i]]
    BY <2>1, ConcatIs
  <2>3. QED
    BY <2>1, <2>2 DEF u, v
<1>6. Stripped(s \o t) = [i \in 1 .. Len(s) + Len(t) |-> StripAx25((s \o t)[i])]
  BY <1>1 DEF Stripped
<1>7. QED
  BY <1>4, <1>5, <1>6

(* Reading changes nothing of what is promised, unless ION refuses a       *)
(* frame.                                                                  *)
LEMMA ReadKeepsPromise ==
  ASSUME TypeOK, TypeOK', NEW n \in 1 .. Len(line), ReadBytes(n)
  PROVE  /\ Ahead'.buf = Ahead.buf /\ UNCHANGED <<spoils, heard>>
         /\ \/ Promised' = Promised /\ UNCHANGED running
            \/ Stopped' /\ \E r \in Seq(Seq(Bytes)) : handed' \o r = Promised
         /\ rx # "check" /\ rx # "ended"
<1> DEFINE after == Fed(dec, SubSeq(line, 1, n))
<1>1. /\ SubSeq(line, 1, n) \in Seq(Bytes) /\ line' \in Seq(Bytes)
      /\ line = SubSeq(line, 1, n) \o line'
      /\ after \in Decoders /\ dec' = Emptied(after)
      /\ \/ handed' = handed \o Stripped(after.out) /\ UNCHANGED running
         \/ /\ \E m \in 0 .. Len(after.out) - 1 :
                  handed' = handed \o SubSeq(Stripped(after.out), 1, m)
            /\ running' = FALSE
      /\ rx = "reading" /\ rx' = "check"
      /\ UNCHANGED <<spoils, heard>>
  BY ReadEffect DEF NextPass
<1>2. Ahead = Fed(after, line')
  <2> DEFINE pre == SubSeq(line, 1, n)
  <2>1. pre \in Seq(Bytes) /\ line = pre \o line' /\ line' \in Seq(Bytes)
    BY <1>1
  <2> HIDE DEF pre
  <2>2. Fed(dec, pre \o line') = Fed(Fed(dec, pre), line')
    BY <2>1, FedBoth
  <2>3. QED
    BY <2>1, <2>2 DEF Ahead, pre
<1> HIDE DEF after
<1> DEFINE o == after.out
           t == Ahead'.out
<1>3. o \in Seq(Frames) /\ Idle(dec') /\ after = Past(o, dec')
  BY <1>1, EmptiedIs, DecParts
<1>4. /\ Ahead' \in Decoders /\ t \in Seq(Frames) /\ handed' \in Seq(Seq(Bytes))
      /\ handed \in Seq(Seq(Bytes))
  <2>1. Ahead' = Fed(dec', line') /\ dec' \in Decoders
    BY <1>3 DEF Ahead, Idle
  <2>2. Ahead' \in Decoders
    BY <1>1, <2>1, FedTyped
  <2>3. QED
    BY <2>2, DecParts DEF TypeOK
<1>5. Ahead = Past(o, Ahead')
  <2>1. dec' \in Decoders
    BY <1>3 DEF Idle
  <2>2. Fed(Past(o, dec'), line') = Past(o, Fed(dec', line'))
    BY <1>1, <1>3, <2>1, FedPast
  <2>3. QED
    BY <1>2, <1>3, <2>2 DEF Ahead
<1>6. Ahead.buf = Ahead'.buf /\ Ahead.out = o \o t
  BY <1>3, <1>4, <1>5, PastTyped
<1> HIDE DEF o, t
<1>7. /\ Stripped(o \o t) = Stripped(o) \o Stripped(t)
      /\ Stripped(o) \in Seq(Seq(Bytes)) /\ Len(Stripped(o)) = Len(o) /\ Len(o) \in Nat
      /\ Stripped(t) \in Seq(Seq(Bytes))
  BY <1>3, <1>4, StrippedBoth, StrippedTyped
<1>8. Promised = handed \o (Stripped(o) \o Stripped(t))
  BY <1>6, <1>7 DEF Promised
<1>9. CASE handed' = handed \o Stripped(o) /\ UNCHANGED running
  <2>1. Promised' = handed' \o Stripped(t)
    BY DEF Promised, t
  <2>2. (handed \o Stripped(o)) \o Stripped(t) = handed \o (Stripped(o) \o Stripped(t))
    <3>1. /\ handed \in Seq(Seq(Bytes))
          /\ Stripped(o) \in Seq(Seq(Bytes)) /\ Stripped(t) \in Seq(Seq(Bytes))
      BY <1>4, <1>7, Zenon
    <3>2. QED
      BY <3>1, ConcatThree, Zenon
  <2>3. Promised' = Promised
    BY <1>8, <1>9, <2>1, <2>2
  <2>4. QED
    BY <1>1, <1>6, <1>9, <2>3
<1>10. ASSUME NEW m \in 0 .. Len(o) - 1,
              handed' = handed \o SubSeq(Stripped(o), 1, m), running' = FALSE
       PROVE  Stopped' /\ \E r \in Seq(Seq(Bytes)) : handed' \o r = Promised
  <2> DEFINE a == SubSeq(Stripped(o), 1, m)
             b == SubSeq(Stripped(o), m + 1, Len(o))
  <2>1. /\ a \in Seq(Seq(Bytes)) /\ b \in Seq(Seq(Bytes))
        /\ Stripped(o) = a \o b
    <3> DEFINE u == Stripped(o)
    <3>1. u \in Seq(Seq(Bytes)) /\ Len(u) = Len(o) /\ m \in 0 .. Len(u)
      BY <1>7
    <3> HIDE DEF u
    <3>2. /\ SubSeq(u, 1, m) \in Seq(Seq(Bytes)) /\ SubSeq(u, m + 1, Len(u)) \in Seq(Seq(Bytes))
          /\ u = SubSeq(u, 1, m) \o SubSeq(u, m + 1, Len(u))
      BY <3>1, SequenceCut
    <3>3. QED
      BY <3>1, <3>2 DEF u
  <2>2. Stopped'
    BY <1>1, <1>10 DEF Stopped
  <2>3. handed' = handed \o a
    BY <1>10
  <2> HIDE DEF a, b
  <2>4. b \o Stripped(t) \in Seq(Seq(Bytes))
    BY <1>7, <2>1, ConcatProperties
  <2>5. (handed \o a) \o (b \o Stripped(t)) = handed \o ((a \o b) \o Stripped(t))
    <3> DEFINE w == Stripped(t)
    <3>1. w \in Seq(Seq(Bytes)) /\ b \o w \in Seq(Seq(Bytes))
      BY <1>7, <2>4
    <3> HIDE DEF w
    <3>2. (a \o b) \o w = a \o (b \o w)
      BY <2>1, <3>1, ConcatThree
    <3>3. (handed \o a) \o (b \o w) = handed \o (a \o (b \o w))
      BY <1>4, <2>1, <3>1, ConcatThree
    <3>4. QED
      BY <3>2, <3>3 DEF w
  <2>6. handed' \o (b \o Stripped(t)) = Promised
    BY <1>8, <2>1, <2>3, <2>5
  <2>7. QED
    BY <2>2, <2>4, <2>6
<1>11. QED
  BY <1>1, <1>6, <1>9, <1>10 DEF o

(* What the TNC hears is one more frame, behind what is left of an earlier *)
(* one.                                                                    *)
LEMMA HearEffect ==
  ASSUME PayloadsFit, TypeOK, NEW p \in Payloads, Hear(p)
  PROVE  /\ BuildAx25(p) \in Frames /\ StripAx25(BuildAx25(p)) = p /\ p \in Seq(Bytes)
         /\ Ahead'.buf = << >>
         /\ Ahead'.out = Append(Ended(Ahead.buf, Ahead.in_frame, Ahead.out), BuildAx25(p))
         /\ heard' = Append(heard, p) /\ UNCHANGED <<handed, spoils, rx, running>>
<1> DEFINE f == BuildAx25(p)
<1>1. /\ p \in Seq(Bytes) /\ p # << >> /\ f \in Seq(Bytes) /\ Len(f) = Len(p) + 1
      /\ f[1] = Header /\ Tail(f) = p /\ Len(p) \in Nat /\ Len(p) + 2 <= MaxBuf
  BY HeaderTyped DEF PayloadsFit
<1>2. line' = line \o KissFrame(f) /\ UNCHANGED <<dec, handed, spoils, rx, running>>
      /\ heard' = Append(heard, p)
  BY DEF Hear, receive
<1> HIDE DEF f
<1>3. f \in Frames /\ StripAx25(f) = p
  <2>1. Len(p) # 0 /\ Len(f) # 0 /\ Len(f) > 1
    BY <1>1, EmptySeq
  <2>2. f # << >>
    BY <2>1
  <2>3. QED
    BY <1>1, <2>1, <2>2 DEF Frames, StripAx25
<1>4. Len(f) + 1 <= MaxBuf
  BY <1>1, SerialAssumption
<1>5. Ahead \in Decoders /\ line \in Seq(Bytes)
  BY AheadTyped
<1>6. /\ KissFrame(f) \in Seq(Bytes)
      /\ Collects(Fed(Ahead, KissFrame(f)), << >>,
                  Append(Ended(Ahead.buf, Ahead.in_frame, Ahead.out), f))
  BY <1>3, <1>4, <1>5, FrameDecoded
<1>7. Ahead' = Fed(Ahead, KissFrame(f))
  <2>1. Fed(dec, line \o KissFrame(f)) = Fed(Fed(dec, line), KissFrame(f))
    BY <1>5, <1>6, FedBoth
  <2>2. QED
    BY <1>2, <2>1 DEF Ahead
<1>8. QED
  BY <1>1, <1>2, <1>3, <1>6, <1>7 DEF f, Collects

-----------------------------------------------------------------------------
(* Without a loss what ION is handed is what was heard.                    *)

(* What ION will have been handed once the line is read is what the TNC    *)
(* heard, or ION has refused a frame and what it was handed came first.    *)
HeardSoFar ==
  spoils = 0 =>
    \/ Ahead.buf = << >> /\ Promised = heard
    \/ Stopped /\ \E r \in Seq(Seq(Bytes)) : handed \o r = heard

HeardInv == TypeInv /\ HeardSoFar

LEMMA InitAhead ==
  ASSUME Init
  PROVE  Ahead.buf = << >> /\ Promised = << >> /\ heard = << >>
<1>1. dec = NewDecoder /\ line = << >> /\ handed = << >> /\ heard = << >>
  BY DEF Init
<1>2. Ahead = NewDecoder
  BY <1>1, FedNothing DEF Ahead
<1>3. Ahead.buf = << >> /\ Ahead.out = << >>
  BY <1>2 DEF NewDecoder
<1>4. Stripped(<< >>) = << >>
  BY DEF Stripped
<1>5. QED
  BY <1>1, <1>3, <1>4 DEF Promised

LEMMA InitHeard == Init => HeardInv
<1> SUFFICES ASSUME Init PROVE HeardInv
  OBVIOUS
<1>1. Ahead.buf = << >> /\ Promised = heard
  BY InitAhead
<1>2. TypeInv
  BY InitTypes
<1>3. QED
  BY <1>1, <1>2 DEF HeardInv, HeardSoFar

LEMMA HearKeeps ==
  ASSUME PayloadsFit, HeardInv, NEW p \in Payloads, Hear(p)
  PROVE  HeardSoFar'
<1>1. /\ BuildAx25(p) \in Frames /\ StripAx25(BuildAx25(p)) = p /\ p \in Seq(Bytes)
      /\ Ahead'.buf = << >>
      /\ Ahead'.out = Append(Ended(Ahead.buf, Ahead.in_frame, Ahead.out), BuildAx25(p))
      /\ heard' = Append(heard, p) /\ UNCHANGED <<handed, spoils, rx, running>>
  BY HearEffect DEF HeardInv, TypeInv
<1>2. Ahead.out \in Seq(Frames) /\ handed \in Seq(Seq(Bytes)) /\ heard \in Seq(Seq(Bytes))
  BY AheadTyped DEF HeardInv, TypeInv
<1> SUFFICES ASSUME spoils' = 0
             PROVE  \/ Ahead'.buf = << >> /\ Promised' = heard'
                    \/ Stopped' /\ \E r \in Seq(Seq(Bytes)) : handed' \o r = heard'
  BY DEF HeardSoFar
<1>3. CASE Ahead.buf = << >> /\ Promised = heard
  <2> DEFINE o == Ahead.out
             f == BuildAx25(p)
  <2>1. Ended(Ahead.buf, Ahead.in_frame, Ahead.out) = o
    <3>1. ~ (Len(<< >>) > 1)
      OBVIOUS
    <3>2. QED
      BY <1>3, <3>1 DEF Ended
  <2>2. Ahead'.out = Append(o, f) /\ o \in Seq(Frames) /\ f \in Frames
    BY <1>1, <1>2, <2>1
  <2> HIDE DEF o, f
  <2>3. Append(o, f) = o \o <<f>> /\ <<f>> \in Seq(Frames)
    BY <2>2
  <2>4. Stripped(o \o <<f>>) = Stripped(o) \o Stripped(<<f>>)
    BY <2>2, <2>3, StrippedBoth
  <2>5. Stripped(<<f>>) = <<p>>
    <3>1. Len(<<f>>) = 1 /\ <<f>>[1] = f /\ 1 .. 1 = {1}
      OBVIOUS
    <3>2. StripAx25(f) = p
      BY <1>1 DEF f
    <3>3. QED
      BY <3>1, <3>2 DEF Stripped
  <2>6. Stripped(o) \in Seq(Seq(Bytes)) /\ <<p>> \in Seq(Seq(Bytes))
    BY <1>1, <2>2, StrippedTyped
  <2>7. Promised' = handed \o (Stripped(o) \o <<p>>)
    BY <1>1, <2>2, <2>3, <2>4, <2>5 DEF Promised
  <2>8. handed \o (Stripped(o) \o <<p>>) = (handed \o Stripped(o)) \o <<p>>
    BY <1>2, <2>6, ConcatThree
  <2>9. heard = handed \o Stripped(o)
    BY <1>3 DEF Promised, o
  <2>10. heard' = heard \o <<p>>
    BY <1>1, <1>2
  <2>11. QED
    BY <1>1, <2>7, <2>8, <2>9, <2>10
<1>4. ASSUME Stopped, NEW r \in Seq(Seq(Bytes)), handed \o r = heard
      PROVE  Stopped' /\ \E q \in Seq(Seq(Bytes)) : handed' \o q = heard'
  <2>1. <<p>> \in Seq(Seq(Bytes)) /\ heard' = heard \o <<p>>
    BY <1>1, <1>2
  <2>2. (handed \o r) \o <<p>> = handed \o (r \o <<p>>)
    <3>1. handed \in Seq(Seq(Bytes)) /\ <<p>> \in Seq(Seq(Bytes))
      BY <1>2, <2>1, Zenon
    <3>2. QED
      BY <3>1, ConcatThree, Zenon
  <2>3. r \o <<p>> \in Seq(Seq(Bytes))
    BY <2>1, ConcatProperties
  <2>4. handed' \o (r \o <<p>>) = heard'
    BY <1>1, <1>4, <2>1, <2>2
  <2>5. Stopped'
    BY <1>1, <1>4 DEF Stopped
  <2>6. QED
    BY <2>3, <2>4, <2>5
<1>5. QED
  BY <1>1, <1>3, <1>4 DEF HeardInv, HeardSoFar

LEMMA ReadKeeps ==
  ASSUME HeardInv, TypeOK', NEW n \in 1 .. Len(line), ReadBytes(n)
  PROVE  HeardSoFar'
<1>1. /\ Ahead'.buf = Ahead.buf /\ UNCHANGED <<spoils, heard>>
      /\ \/ Promised' = Promised /\ UNCHANGED running
         \/ Stopped' /\ \E r \in Seq(Seq(Bytes)) : handed' \o r = Promised
      /\ rx # "check" /\ rx # "ended"
  BY ReadKeepsPromise DEF HeardInv, TypeInv
<1>2. ~ Stopped
  BY <1>1 DEF Stopped
<1>3. spoils = 0 => Ahead.buf = << >> /\ Promised = heard
  BY <1>2 DEF HeardInv, HeardSoFar
<1>4. QED
  BY <1>1, <1>3 DEF HeardSoFar

LEMMA HeardKept ==
  ASSUME PayloadsFit, HeardInv, [Next]_vars
  PROVE  HeardInv'
<1>1. TypeOK /\ TypeInv' /\ TypeOK'
  BY TypesKept DEF HeardInv, TypeInv
<1>2. CASE Quiet
  <2>1. UNCHANGED Ahead /\ UNCHANGED Promised
    BY <1>2 DEF Quiet, Ahead, Promised
  <2>2. HeardSoFar'
    BY <1>2, <2>1 DEF Quiet, HeardInv, HeardSoFar
  <2>3. QED
    BY <1>1, <2>2 DEF HeardInv
<1>3. CASE \E p \in Payloads : Hear(p)
  BY <1>1, <1>3, HearKeeps DEF HeardInv
<1>4. CASE Unplug \/ Reopen
  <2>1. spoils' # 0
    BY <1>1, <1>4, LossSteps
  <2>2. QED
    BY <1>1, <2>1 DEF HeardInv, HeardSoFar
<1>5. CASE \E n \in 1 .. Len(line) : ReadBytes(n)
  BY <1>1, <1>5, ReadKeeps DEF HeardInv
<1>6. QED
  BY <1>1, <1>2, <1>3, <1>4, <1>5, SerialSteps

LEMMA PrefixOfMore ==
  ASSUME NEW s \in Seq(Seq(Bytes)), NEW r \in Seq(Seq(Bytes))
  PROVE  IsPrefix(s, s \o r)
<1>1. /\ s \o r \in Seq(Seq(Bytes)) /\ Len(s \o r) = Len(s) + Len(r)
      /\ Len(s) \in Nat /\ Len(r) \in Nat
      /\ \A i \in 1 .. Len(s) : (s \o r)[i] = s[i]
  OBVIOUS
<1> DEFINE t == s \o r
<1> HIDE DEF t
<1>2. SubSeq(s, 1, Len(s)) = SubSeq(t, 1, Len(s))
  BY <1>1 DEF t
<1>3. QED
  BY <1>1, <1>2 DEF IsPrefix, t

LEMMA HeardSuffices == HeardInv => HandedAsHeard
<1> SUFFICES ASSUME HeardInv, spoils = 0 PROVE IsPrefix(handed, heard)
  BY DEF HandedAsHeard
<1>1. handed \in Seq(Seq(Bytes)) /\ Ahead.out \in Seq(Frames)
  BY AheadTyped DEF HeardInv, TypeInv
<1>2. Stripped(Ahead.out) \in Seq(Seq(Bytes))
  BY <1>1, StrippedTyped
<1>3. \E r \in Seq(Seq(Bytes)) : handed \o r = heard
  BY <1>2 DEF HeardInv, HeardSoFar, Promised
<1>4. QED
  BY <1>1, <1>3, PrefixOfMore

(* However read() cuts the stream, the receiving thread hands ION the      *)
(* frames the TNC has heard, in order and none left out, for any payloads  *)
(* that fit the decoder's buffer and until bytes are lost (kiss_decode,    *)
(* rx_thread).                                                             *)
THEOREM HandedIsHeard ==
  ASSUME PayloadsFit
  PROVE  Spec => []HandedAsHeard
<1>1. HeardInv /\ [Next]_vars => HeardInv'
  BY HeardKept
<1>2. QED
  BY <1>1, InitHeard, HeardSuffices, PTL DEF Spec

-----------------------------------------------------------------------------
(* How many of the elements of a sequence are not among those of a set     *)

Strange(s, H) == {i \in DOMAIN s : s[i] \notin H}
Count(s, H)   == Cardinality(Strange(s, H))

LEMMA CountTyped ==
  ASSUME NEW s \in Seq(Seq(Bytes)), NEW H
  PROVE  IsFiniteSet(Strange(s, H)) /\ Count(s, H) \in Nat
<1>1. DOMAIN s = 1 .. Len(s) /\ Len(s) \in Nat
  OBVIOUS
<1>2. IsFiniteSet(DOMAIN s)
  BY <1>1, FS_Interval
<1>3. Strange(s, H) \in SUBSET DOMAIN s
  BY DEF Strange
<1>4. IsFiniteSet(Strange(s, H))
  BY <1>2, <1>3, FS_Subset
<1>5. QED
  BY <1>4, FS_CardinalityType DEF Count

LEMMA CountNone == \A H : Count(<< >>, H) = 0
<1> TAKE H
<1>1. Strange(<< >>, H) = {}
  BY DEF Strange
<1>2. QED
  BY <1>1, FS_EmptySet DEF Count

LEMMA CountAppend ==
  ASSUME NEW s \in Seq(Seq(Bytes)), NEW x \in Seq(Bytes), NEW H
  PROVE  Count(Append(s, x), H) = Count(s, H) + (IF x \in H THEN 0 ELSE 1)
<1> DEFINE n == Len(s)
           u == Append(s, x)
<1>1. /\ n \in Nat /\ DOMAIN s = 1 .. n /\ DOMAIN u = 1 .. n + 1 /\ u[n + 1] = x
      /\ \A i \in 1 .. n : u[i] = s[i]
  OBVIOUS
<1> HIDE DEF n, u
<1>2. 1 .. n + 1 = (1 .. n) \cup {n + 1} /\ n + 1 \notin 1 .. n
  BY <1>1
<1>3. Strange(u, H) = IF x \in H THEN Strange(s, H) ELSE Strange(s, H) \cup {n + 1}
  BY <1>1, <1>2 DEF Strange
<1>4. n + 1 \notin Strange(s, H)
  BY <1>1, <1>2 DEF Strange
<1>5. IsFiniteSet(Strange(s, H)) /\ Cardinality(Strange(s, H)) \in Nat
  BY CountTyped DEF Count
<1>6. Cardinality(Strange(s, H) \cup {n + 1}) = Cardinality(Strange(s, H)) + 1
  BY <1>4, <1>5, FS_AddElement
<1>7. QED
  BY <1>3, <1>5, <1>6 DEF Count, u

LEMMA CountBoth ==
  ASSUME NEW s \in Seq(Seq(Bytes)), NEW H
  PROVE  \A t \in Seq(Seq(Bytes)) : Count(s \o t, H) = Count(s, H) + Count(t, H)
<1> DEFINE Sums(t) == Count(s \o t, H) = Count(s, H) + Count(t, H)
           S == {t \in Seq(Seq(Bytes)) : Sums(t)}
<1>1. Sums(<< >>)
  <2>1. s \o << >> = s /\ Count(<< >>, H) = 0 /\ Count(s, H) \in Nat /\ << >> \in Seq(Seq(Bytes))
    BY CountNone, CountTyped
  <2>2. QED
    BY <2>1
<1>2. ASSUME NEW t \in Seq(Seq(Bytes)), Sums(t), NEW x \in Seq(Bytes)
      PROVE  Sums(Append(t, x))
  <2>1. s \o t \in Seq(Seq(Bytes)) /\ s \o Append(t, x) = Append(s \o t, x)
    OBVIOUS
  <2>2. Count(s, H) \in Nat /\ Count(t, H) \in Nat
    BY <2>1, CountTyped
  <2>3. Count(Append(s \o t, x), H) = Count(s \o t, H) + (IF x \in H THEN 0 ELSE 1)
    BY <2>1, CountAppend
  <2>4. Count(Append(t, x), H) = Count(t, H) + (IF x \in H THEN 0 ELSE 1)
    BY <2>1, CountAppend
  <2>5. QED
    BY <1>2, <2>1, <2>2, <2>3, <2>4
<1> HIDE DEF Sums
<1>3. /\ S \in SUBSET Seq(Seq(Bytes)) /\ << >> \in S
      /\ \A t \in S : \A x \in Seq(Bytes) : Append(t, x) \in S
  <2>1. /\ << >> \in Seq(Seq(Bytes))
        /\ \A t \in Seq(Seq(Bytes)) : \A x \in Seq(Bytes) : Append(t, x) \in Seq(Seq(Bytes))
    OBVIOUS
  <2>2. QED
    BY <1>1, <1>2, <2>1
<1> HIDE DEF S
<1>4. S = Seq(Seq(Bytes))
  BY <1>3, AllSequences
<1>5. QED
  BY <1>4 DEF S, Sums

LEMMA CountLess ==
  ASSUME NEW s \in Seq(Seq(Bytes)), NEW H, NEW K, H \subseteq K
  PROVE  Count(s, K) <= Count(s, H)
<1>1. Strange(s, K) \in SUBSET Strange(s, H)
  BY DEF Strange
<1>2. IsFiniteSet(Strange(s, H))
  BY CountTyped
<1>3. QED
  BY <1>1, <1>2, FS_Subset DEF Count

LEMMA CountShort ==
  ASSUME NEW s \in Seq(Seq(Bytes)), Len(s) <= 1, NEW H
  PROVE  Count(s, H) <= 1
<1>1. CASE s = << >>
  BY <1>1, CountNone
<1>2. CASE s # << >>
  <2>1. PICK t \in Seq(Seq(Bytes)), x \in Seq(Bytes) : s = Append(t, x)
    BY <1>2, SequenceEmptyOrAppend
  <2>2. Len(t) = 0
    BY <2>1
  <2>3. t = << >>
    BY <2>1, <2>2, EmptySeq
  <2>4. Count(Append(t, x), H) = Count(t, H) + (IF x \in H THEN 0 ELSE 1)
    BY CountAppend
  <2>5. Count(t, H) = 0
    BY <2>3, CountNone
  <2>6. QED
    BY <2>1, <2>4, <2>5
<1>3. QED
  BY <1>1, <1>2

-----------------------------------------------------------------------------
(* A loss                                                                  *)

LEMMA EndedIs ==
  ASSUME NEW buf \in Seq(Bytes), NEW in_frame, NEW out \in Seq(Frames)
  PROVE  \/ Ended(buf, in_frame, out) = out
         \/ buf # << >> /\ \E f \in Frames : Ended(buf, in_frame, out) = Append(out, f)
<1>1. CASE Ended(buf, in_frame, out) = out
  BY <1>1
<1>2. CASE Ended(buf, in_frame, out) # out
  <2>1. Len(buf) > 1 /\ Ended(buf, in_frame, out) = Append(out, Tail(buf))
    BY <1>2 DEF Ended
  <2>2. buf # << >>
    BY <2>1
  <2>3. Tail(buf) \in Frames
    BY <2>1, TailIsFrame
  <2>4. QED
    BY <2>1, <2>2, <2>3
<1>3. QED
  BY <1>1, <1>2

(* Only the end of a frame hands out anything.                             *)
LEMMA OutKept ==
  ASSUME NEW d \in Decoders, NEW b \in Bytes, b # FEND
  PROVE  KissDecByte(d, b).out = d.out
<1> DEFINE e == [d EXCEPT !.escape = FALSE]
           g == [d EXCEPT !.escape = TRUE]
<1>1. e \in Decoders /\ e.out = d.out /\ g.out = d.out
  <2>1. TRUE \in BOOLEAN /\ FALSE \in BOOLEAN
    OBVIOUS
  <2>2. QED
    BY <2>1, FieldsOfEscape
<1>2. KissDecByte(d, b) \in {d, Store(e, Unstuffed(b)), g, Store(d, b)}
  BY ByteByByte
<1> HIDE DEF e, g
<1>3. Store(e, Unstuffed(b)).out = e.out /\ Store(d, b).out = d.out
  BY <1>1, FieldsOfStore
<1>4. QED
  BY <1>1, <1>2, <1>3

LEMMA EndShort ==
  ASSUME NEW d \in Decoders, d.out = << >>
  PROVE  Len(FrameEnd(d).out) <= 1
<1>1. FrameEnd(d).out = Ended(d.buf, d.in_frame, << >>)
  BY FieldsOfEnd
<1>2. \A x : Len(Append(<< >>, x)) = 1
  OBVIOUS
<1>3. \/ Ended(d.buf, d.in_frame, << >>) = << >>
      \/ Ended(d.buf, d.in_frame, << >>) = Append(<< >>, Tail(d.buf))
  BY Zenon DEF Ended
<1>4. Len(<< >>) = 0
  OBVIOUS
<1> DEFINE n == Len(FrameEnd(d).out)
<1>5. n = 0 \/ n = 1
  BY <1>1, <1>2, <1>3, <1>4, Zenon
<1> HIDE DEF n
<1>6. n <= 1
  BY <1>5
<1>7. QED
  BY <1>6 DEF n

(* After the end of a frame two decoders differ only in what they have     *)
(* handed out.                                                             *)
LEMMA EndForgets ==
  ASSUME NEW d \in Decoders, NEW e \in Decoders
  PROVE  Emptied(FrameEnd(d)) = Emptied(FrameEnd(e))
<1>1. \A in_frame, escape, out : Emptied(Dec(<< >>, in_frame, escape, out))
                                   = Dec(<< >>, in_frame, escape, << >>)
  BY DEF Dec, Emptied
<1>2. /\ FrameEnd(d) = Dec(<< >>, TRUE, FALSE, Ended(d.buf, d.in_frame, d.out))
      /\ FrameEnd(e) = Dec(<< >>, TRUE, FALSE, Ended(e.buf, e.in_frame, e.out))
  BY DecSteps
<1>3. QED
  BY <1>1, <1>2, Zenon

(* y and z have handed out the same, but for the frames before a loss and  *)
(* one spoiled by it.                                                      *)
Resumed(y, z) ==
  \E w \in Decoders : \E o, x \in Seq(Frames) :
    Len(o) <= 1 /\ y = Past(o, w) /\ z = Past(x, w)

LEMMA LossHeals ==
  ASSUME NEW d, Idle(d), NEW pre \in Seq(Bytes)
  PROVE  \A s \in Seq(Bytes) : Fed(d, s).out = << >> \/ Resumed(Fed(d, s), Fed(d, pre \o s))
<1> DEFINE Heals(s) == Fed(d, s).out = << >> \/ Resumed(Fed(d, s), Fed(d, pre \o s))
           S == {s \in Seq(Bytes) : Heals(s)}
<1>1. Heals(<< >>)
  BY FedNothing DEF Idle
<1>2. ASSUME NEW s \in Seq(Bytes), Heals(s), NEW b \in Bytes
      PROVE  Heals(Append(s, b))
  <2> DEFINE y == Fed(d, s)
             z == Fed(d, pre \o s)
  <2>1. y \in Decoders /\ z \in Decoders
    <3>1. d \in Decoders /\ pre \o s \in Seq(Bytes)
      BY DEF Idle
    <3>2. QED
      BY <3>1, FedTyped
  <2>2. /\ Fed(d, Append(s, b)) = KissDecByte(y, b)
        /\ Fed(d, pre \o Append(s, b)) = KissDecByte(z, b)
    <3>1. pre \o s \in Seq(Bytes) /\ pre \o Append(s, b) = Append(pre \o s, b)
      OBVIOUS
    <3>2. Fed(d, Append(pre \o s, b)) = KissDecByte(Fed(d, pre \o s), b)
      BY <3>1, FedMore
    <3>3. QED
      BY <3>1, <3>2, FedMore
  <2>3. y.out = << >> \/ Resumed(y, z)
    BY <1>2
  <2> HIDE DEF y, z
  <2>4. CASE Resumed(y, z)
    <3>1. PICK w \in Decoders, o \in Seq(Frames), x \in Seq(Frames) :
            Len(o) <= 1 /\ y = Past(o, w) /\ z = Past(x, w)
      BY <2>4 DEF Resumed
    <3>2. /\ KissDecByte(y, b) = Past(o, KissDecByte(w, b))
          /\ KissDecByte(z, b) = Past(x, KissDecByte(w, b))
      BY <3>1, BytePast
    <3>3. KissDecByte(w, b) \in Decoders
      BY ByteTyped
    <3>4. Resumed(KissDecByte(y, b), KissDecByte(z, b))
      BY <3>1, <3>2, <3>3 DEF Resumed
    <3>5. QED
      BY <2>2, <3>4
  <2>5. CASE y.out = << >> /\ b # FEND
    BY <2>1, <2>2, <2>5, OutKept
  <2>6. CASE y.out = << >> /\ b = FEND
    <3>1. KissDecByte(y, b) = FrameEnd(y) /\ KissDecByte(z, b) = FrameEnd(z)
      BY <2>1, <2>6, ByteByByte
    <3>2. FrameEnd(y) \in Decoders /\ FrameEnd(z) \in Decoders
      BY <2>1, FrameEndTyped
    <3> DEFINE o == FrameEnd(y).out
               x == FrameEnd(z).out
               w == Emptied(FrameEnd(y))
    <3>3. FrameEnd(y) = Past(o, w) /\ w \in Decoders
      BY <3>2, EmptiedIs DEF Idle
    <3>4. FrameEnd(z) = Past(x, w)
      BY <2>1, <3>2, EmptiedIs, EndForgets
    <3>5. o \in Seq(Frames) /\ x \in Seq(Frames)
      BY <3>2, DecParts
    <3>6. Len(o) <= 1
      BY <2>1, <2>6, EndShort
    <3> HIDE DEF o, x, w
    <3>7. Resumed(FrameEnd(y), FrameEnd(z))
      BY <3>3, <3>4, <3>5, <3>6 DEF Resumed
    <3>8. QED
      BY <2>2, <3>1, <3>7
  <2>7. QED
    BY <2>3, <2>4, <2>5, <2>6
<1> HIDE DEF Heals
<1>3. S \in SUBSET Seq(Bytes) /\ << >> \in S /\ \A s \in S : \A b \in Bytes : Append(s, b) \in S
  <2>1. << >> \in Seq(Bytes) /\ \A s \in Seq(Bytes) : \A b \in Bytes : Append(s, b) \in Seq(Bytes)
    OBVIOUS
  <2>2. QED
    BY <1>1, <1>2, <2>1
<1> HIDE DEF S
<1>4. S = Seq(Bytes)
  BY <1>3, AllSequences
<1>5. QED
  BY <1>4 DEF S, Heals

-----------------------------------------------------------------------------
(* Spoiled frames                                                          *)

Left(d) == IF d.buf = << >> THEN 0 ELSE 1

(* Of what ION will have been handed, and of what then is collected, at    *)
(* most one frame for each loss is not one that was heard; or ION has      *)
(* refused a frame.                                                        *)
SpoiledSoFar ==
  \/ Count(Promised, Range(heard)) + Left(Ahead) <= spoils
  \/ Stopped /\ Count(handed, Range(heard)) <= spoils

SpoiledInv == TypeInv /\ SpoiledSoFar

LEMMA LeftIsBit == \A d : Left(d) \in {0, 1}
  BY DEF Left

LEMMA InitSpoiled == Init => SpoiledInv
<1> SUFFICES ASSUME Init PROVE SpoiledInv
  OBVIOUS
<1>1. Ahead.buf = << >> /\ Promised = << >> /\ spoils = 0
  BY InitAhead DEF Init
<1>2. Count(Promised, Range(heard)) = 0 /\ Left(Ahead) = 0
  BY <1>1, CountNone DEF Left
<1>3. SpoiledSoFar
  BY <1>1, <1>2 DEF SpoiledSoFar
<1>4. QED
  BY <1>3, InitTypes DEF SpoiledInv

LEMMA PromisedTyped ==
  ASSUME TypeOK
  PROVE  /\ Promised \in Seq(Seq(Bytes)) /\ Stripped(Ahead.out) \in Seq(Seq(Bytes))
         /\ handed \in Seq(Seq(Bytes))
<1>1. Ahead.out \in Seq(Frames) /\ handed \in Seq(Seq(Bytes))
  BY AheadTyped
<1>2. Stripped(Ahead.out) \in Seq(Seq(Bytes))
  BY <1>1, StrippedTyped
<1>3. QED
  BY <1>1, <1>2, ConcatProperties DEF Promised

LEMMA StrippedOne ==
  ASSUME NEW o \in Seq(Frames), NEW f \in Frames
  PROVE  /\ Stripped(Append(o, f)) = Append(Stripped(o), StripAx25(f))
         /\ Stripped(o) \in Seq(Seq(Bytes)) /\ StripAx25(f) \in Seq(Bytes)
<1>1. Append(o, f) = o \o <<f>> /\ <<f>> \in Seq(Frames)
  OBVIOUS
<1>2. Stripped(o \o <<f>>) = Stripped(o) \o Stripped(<<f>>)
  BY <1>1, StrippedBoth
<1>3. Stripped(<<f>>) = <<StripAx25(f)>>
  <2>1. Len(<<f>>) = 1 /\ <<f>>[1] = f /\ 1 .. 1 = {1}
    OBVIOUS
  <2>2. QED
    BY <2>1 DEF Stripped
<1>4. Stripped(o) \in Seq(Seq(Bytes)) /\ StripAx25(f) \in Seq(Bytes)
  BY StrippedTyped, StripTyped
<1>5. Stripped(o) \o <<StripAx25(f)>> = Append(Stripped(o), StripAx25(f))
  BY <1>4
<1>6. QED
  BY <1>1, <1>2, <1>3, <1>4, <1>5

LEMMA HearSpoils ==
  ASSUME PayloadsFit, SpoiledInv, NEW p \in Payloads, Hear(p)
  PROVE  SpoiledSoFar'
<1> DEFINE f == BuildAx25(p)
           e == Ended(Ahead.buf, Ahead.in_frame, Ahead.out)
           H == Range(heard)
           K == Range(heard')
<1>0. TypeOK
  BY DEF SpoiledInv, TypeInv
<1>1. /\ f \in Frames /\ StripAx25(f) = p /\ p \in Seq(Bytes)
      /\ Ahead'.buf = << >> /\ Ahead'.out = Append(e, f)
      /\ heard' = Append(heard, p) /\ UNCHANGED <<handed, spoils, rx, running>>
  BY <1>0, HearEffect
<1>2. /\ Ahead \in Decoders /\ Ahead.out \in Seq(Frames) /\ Ahead.buf \in Seq(Bytes)
      /\ handed \in Seq(Seq(Bytes)) /\ heard \in Seq(Seq(Bytes)) /\ spoils \in Nat
  BY <1>0, AheadTyped, DecParts DEF TypeOK
<1>3. H \subseteq K /\ p \in K
  <2>1. /\ Len(heard) \in Nat /\ DOMAIN heard = 1 .. Len(heard)
        /\ DOMAIN heard' = 1 .. Len(heard) + 1 /\ heard'[Len(heard) + 1] = p
        /\ \A i \in 1 .. Len(heard) : heard'[i] = heard[i]
    BY <1>1, <1>2
  <2>2. QED
    BY <2>1 DEF Range
<1>4. e \in Seq(Frames)
  BY <1>2, EndedTyped
<1>5. \/ e = Ahead.out
      \/ Ahead.buf # << >> /\ \E g \in Frames : e = Append(Ahead.out, g)
  BY <1>2, EndedIs
<1> HIDE DEF f, e, H, K
<1>6. Count(Promised', K) = Count(handed \o Stripped(e), K)
  <2>1. /\ Stripped(Append(e, f)) = Append(Stripped(e), p)
        /\ Stripped(e) \in Seq(Seq(Bytes))
    BY <1>1, <1>4, StrippedOne
  <2>2. handed \o Stripped(e) \in Seq(Seq(Bytes))
    BY <1>2, <2>1, ConcatProperties
  <2>3. handed \o Append(Stripped(e), p) = Append(handed \o Stripped(e), p)
    <3>1. handed \in Seq(Seq(Bytes)) /\ Stripped(e) \in Seq(Seq(Bytes))
      BY <1>2, <2>1, Zenon
    <3>2. QED
      BY <3>1
  <2>4. Promised' = Append(handed \o Stripped(e), p)
    BY <1>1, <2>1, <2>3 DEF Promised
  <2>5. Count(Append(handed \o Stripped(e), p), K) = Count(handed \o Stripped(e), K) + 0
    BY <1>1, <1>3, <2>2, CountAppend
  <2>6. Count(handed \o Stripped(e), K) \in Nat
    BY <2>2, CountTyped
  <2>7. QED
    BY <2>4, <2>5, <2>6
<1>7. /\ Stripped(Ahead.out) \in Seq(Seq(Bytes)) /\ Promised \in Seq(Seq(Bytes))
      /\ Promised = handed \o Stripped(Ahead.out)
  BY <1>0, PromisedTyped DEF Promised
<1>8. Count(handed \o Stripped(e), K) <= Count(Promised, K) + Left(Ahead)
  <2>1. Count(Promised, K) \in Nat
    BY <1>7, CountTyped
  <2>2. CASE e = Ahead.out
    BY <1>7, <2>1, <2>2, LeftIsBit
  <2>3. ASSUME Ahead.buf # << >>, NEW g \in Frames, e = Append(Ahead.out, g)
        PROVE  Count(handed \o Stripped(e), K) <= Count(Promised, K) + Left(Ahead)
    <3> DEFINE x == StripAx25(g)
               o == Stripped(Ahead.out)
    <3>1. Stripped(e) = Append(o, x) /\ o \in Seq(Seq(Bytes)) /\ x \in Seq(Bytes)
      BY <1>2, <2>3, StrippedOne
    <3> HIDE DEF x, o
    <3>2. handed \o Append(o, x) = Append(handed \o o, x)
      <4>1. handed \in Seq(Seq(Bytes)) /\ o \in Seq(Seq(Bytes))
        BY <1>2, <3>1, Zenon
      <4>2. QED
        BY <4>1
    <3>3. handed \o o = Promised
      BY <1>7 DEF o
    <3>4. Count(Append(Promised, x), K) <= Count(Promised, K) + 1
      <4> DEFINE n  == Count(Promised, K)
                 n1 == Count(Append(Promised, x), K)
      <4>1. n1 = n + (IF x \in K THEN 0 ELSE 1)
        <5>1. Promised \in Seq(Seq(Bytes)) /\ x \in Seq(Bytes)
          BY <1>7, <3>1, Zenon
        <5>2. QED
          BY <5>1, CountAppend, Zenon
      <4>2. n1 = n + 0 \/ n1 = n + 1
        BY <4>1, Zenon
      <4>3. n \in Nat
        BY <2>1
      <4> HIDE DEF n, n1
      <4>4. n1 <= n + 1
        BY <4>2, <4>3
      <4>5. QED
        BY <4>4 DEF n, n1
    <3>5. Left(Ahead) = 1
      BY <2>3 DEF Left
    <3>6. QED
      BY <3>1, <3>2, <3>3, <3>4, <3>5
  <2>4. QED
    BY <1>5, <2>2, <2>3
<1>9. Left(Ahead') = 0
  BY <1>1 DEF Left
<1>10. /\ Count(Promised, K) <= Count(Promised, H) /\ Count(handed, K) <= Count(handed, H)
       /\ Count(Promised, K) \in Nat /\ Count(Promised, H) \in Nat
       /\ Count(handed, K) \in Nat /\ Count(handed, H) \in Nat
       /\ Count(Promised', K) \in Nat
  <2>1. handed \o Stripped(e) \in Seq(Seq(Bytes))
    BY <1>2, <1>4, StrippedTyped, ConcatProperties
  <2>2. QED
    BY <1>2, <1>3, <1>6, <1>7, <2>1, CountLess, CountTyped
<1>11. CASE Count(Promised, H) + Left(Ahead) <= spoils
  <2> DEFINE n  == Count(Promised, H)
             m  == Count(Promised, K)
             m1 == Count(Promised', K)
             l  == Left(Ahead)
  <2>1. /\ n \in Nat /\ m \in Nat /\ m1 \in Nat /\ l \in {0, 1}
        /\ m1 <= m + l /\ m <= n /\ n + l <= spoils
    BY <1>6, <1>8, <1>10, <1>11, LeftIsBit, Zenon
  <2> HIDE DEF n, m, m1, l
  <2>2. m1 + 0 <= spoils
    BY <1>2, <2>1
  <2>3. Count(Promised', K) + Left(Ahead') <= spoils'
    BY <1>1, <1>9, <2>2, Zenon DEF m1
  <2>4. QED
    BY <2>3 DEF SpoiledSoFar, K
<1>12. CASE Stopped /\ Count(handed, H) <= spoils
  <2>1. Stopped' /\ Count(handed', K) <= spoils'
    BY <1>1, <1>2, <1>10, <1>12 DEF Stopped
  <2>2. QED
    BY <2>1 DEF SpoiledSoFar, K
<1>13. QED
  BY <1>11, <1>12 DEF SpoiledInv, SpoiledSoFar, H

LEMMA ReadSpoils ==
  ASSUME SpoiledInv, TypeOK', NEW n \in 1 .. Len(line), ReadBytes(n)
  PROVE  SpoiledSoFar'
<1>0. TypeOK
  BY DEF SpoiledInv, TypeInv
<1>1. /\ Ahead'.buf = Ahead.buf /\ UNCHANGED <<spoils, heard>>
      /\ \/ Promised' = Promised /\ UNCHANGED running
         \/ Stopped' /\ \E r \in Seq(Seq(Bytes)) : handed' \o r = Promised
      /\ rx # "check" /\ rx # "ended"
  BY <1>0, ReadKeepsPromise
<1>2. Left(Ahead') = Left(Ahead)
  BY <1>1 DEF Left
<1>3. Count(Promised, Range(heard)) + Left(Ahead) <= spoils
  BY <1>1 DEF SpoiledInv, SpoiledSoFar, Stopped
<1>4. CASE Promised' = Promised
  BY <1>1, <1>2, <1>3, <1>4 DEF SpoiledSoFar
<1>5. ASSUME Stopped', NEW r \in Seq(Seq(Bytes)), handed' \o r = Promised
      PROVE  SpoiledSoFar'
  <2>1. handed' \in Seq(Seq(Bytes)) /\ spoils \in Nat
    BY <1>0 DEF TypeOK
  <2> DEFINE h == handed'
             H == Range(heard)
  <2>2. Count(h \o r, H) = Count(h, H) + Count(r, H)
    BY <2>1, CountBoth
  <2>3. Count(h, H) \in Nat /\ Count(r, H) \in Nat
    BY <2>1, CountTyped
  <2> DEFINE c == Count(h, H)
             m == Count(r, H)
             l == Left(Ahead)
  <2>4. c \in Nat /\ m \in Nat /\ l \in {0, 1} /\ c + m + l <= spoils
    BY <1>3, <1>5, <2>2, <2>3, LeftIsBit, Zenon
  <2> HIDE DEF c, m, l
  <2>5. c <= spoils
    BY <2>1, <2>4
  <2>6. Count(handed', Range(heard')) <= spoils'
    BY <1>1, <2>5 DEF c
  <2>7. QED
    BY <1>5, <2>6 DEF SpoiledSoFar
<1>6. QED
  BY <1>1, <1>4, <1>5

LEMMA TailsCut ==
  ASSUME NEW s \in Seq(Bytes), NEW t \in Tails(s)
  PROVE  \E pre \in Seq(Bytes) : s = pre \o t
<1>1. PICK i \in 1 .. Len(s) + 1 : t = SubSeq(s, i, Len(s))
  BY DEF Tails
<1> DEFINE k == i - 1
<1>2. /\ Len(s) \in Nat /\ k \in Nat /\ k + 1 = i
      /\ 1 \in 1 .. Len(s) + 1 /\ k \in 1 - 1 .. Len(s) /\ Len(s) \in k .. Len(s)
  OBVIOUS
<1> HIDE DEF k
<1>3. SubSeq(s, 1, k) \o SubSeq(s, k + 1, Len(s)) = SubSeq(s, 1, Len(s))
  BY <1>2, ConcatAdjacentSubSeq, Zenon
<1>4. SubSeq(s, 1, Len(s)) = s
  OBVIOUS
<1>5. SubSeq(s, 1, k) \in Seq(Bytes)
  BY <1>2, SubSeqProperties
<1>6. QED
  BY <1>1, <1>2, <1>3, <1>4, <1>5

(* A loss spoils one frame: the one that is collected on both sides of it. *)
LEMMA LossSpoils ==
  ASSUME SpoiledInv, TypeOK', Unplug \/ Reopen
  PROVE  SpoiledSoFar'
<1>0. TypeOK
  BY DEF SpoiledInv, TypeInv
<1>1. /\ spoils' = spoils + 1 /\ spoils \in Nat /\ line' \in Tails(line)
      /\ UNCHANGED <<heard, dec, handed, running, rx>>
  BY <1>0, LossSteps
<1>2. /\ line \in Seq(Bytes) /\ handed \in Seq(Seq(Bytes)) /\ Idle(dec)
      /\ line' \in Seq(Bytes)
  BY <1>0, DecIdle DEF TypeOK
<1>3. PICK pre \in Seq(Bytes) : line = pre \o line'
  BY <1>1, <1>2, TailsCut
<1> DEFINE y == Fed(dec, line')
           z == Fed(dec, line)
           H == Range(heard)
           h == handed
<1>4. y.out = << >> \/ Resumed(y, z)
  BY <1>2, <1>3, LossHeals
<1>5. Ahead' = y /\ Ahead = z
  BY <1>1 DEF Ahead
<1>6. /\ Promised = h \o Stripped(z.out) /\ Promised' = h \o Stripped(y.out)
      /\ y \in Decoders /\ z \in Decoders
  <2>1. Promised = h \o Stripped(z.out)
    BY <1>5, Zenon DEF Promised
  <2>2. Promised' = h \o Stripped(y.out)
    <3>1. Promised' = handed' \o Stripped(Ahead'.out)
      BY DEF Promised, Stripped
    <3>2. QED
      BY <1>1, <1>5, <3>1, Zenon
  <2>3. dec \in Decoders
    BY <1>2 DEF Idle
  <2>4. y \in Decoders /\ z \in Decoders
    BY <1>2, <2>3, FedTyped
  <2>5. QED
    BY <2>1, <2>2, <2>4, Zenon
<1> HIDE DEF y, z, H
<1>7. CASE Stopped /\ Count(handed, H) <= spoils
  <2>1. Count(h, H) \in Nat
    BY <1>2, CountTyped
  <2>2. Stopped' /\ Count(handed', Range(heard')) <= spoils'
    BY <1>1, <1>7, <2>1 DEF Stopped, H
  <2>3. QED
    BY <2>2 DEF SpoiledSoFar
<1>8. CASE Count(Promised, H) + Left(Ahead) <= spoils
  <2>1. CASE y.out = << >>
    <3>1. Promised' = h
      <4>1. Stripped(<< >>) = << >>
        BY DEF Stripped
      <4>2. QED
        BY <1>2, <1>6, <2>1, <4>1
    <3>2. Stripped(z.out) \in Seq(Seq(Bytes))
      BY <1>6, DecParts, StrippedTyped
    <3>3. Count(Promised, H) = Count(h, H) + Count(Stripped(z.out), H)
      BY <1>2, <1>6, <3>2, CountBoth
    <3>4. Count(h, H) \in Nat /\ Count(Stripped(z.out), H) \in Nat
      BY <1>2, <3>2, CountTyped
    <3> DEFINE n  == Count(h, H)
               m  == Count(Stripped(z.out), H)
               l  == Left(Ahead)
               l1 == Left(Ahead')
    <3>5. /\ n \in Nat /\ m \in Nat /\ l \in {0, 1} /\ l1 \in {0, 1}
          /\ n + m + l <= spoils
      BY <1>8, <3>3, <3>4, LeftIsBit, Zenon
    <3> HIDE DEF n, m, l, l1
    <3>6. n + l1 <= spoils + 1
      BY <1>1, <3>5
    <3>7. Count(Promised', H) + Left(Ahead') <= spoils'
      BY <1>1, <3>1, <3>6, Zenon DEF n, l1
    <3>8. QED
      BY <1>1, <3>7 DEF SpoiledSoFar, H
  <2>2. CASE Resumed(y, z)
    <3>1. PICK w \in Decoders, o \in Seq(Frames), x \in Seq(Frames) :
            Len(o) <= 1 /\ y = Past(o, w) /\ z = Past(x, w)
      BY <2>2 DEF Resumed
    <3>2. /\ y.out = o \o w.out /\ z.out = x \o w.out /\ y.buf = z.buf
          /\ w.out \in Seq(Frames)
      <4>1. /\ Past(o, w).out = o \o w.out /\ Past(o, w).buf = w.buf
            /\ Past(x, w).out = x \o w.out /\ Past(x, w).buf = w.buf
        BY PastTyped, Zenon
      <4>2. w.out \in Seq(Frames)
        BY DecParts, Zenon
      <4>3. QED
        BY <3>1, <4>1, <4>2, Zenon
    <3> DEFINE a == Stripped(o)
               b == Stripped(x)
               c == Stripped(w.out)
    <3>3. /\ a \in Seq(Seq(Bytes)) /\ b \in Seq(Seq(Bytes)) /\ c \in Seq(Seq(Bytes))
          /\ Len(a) <= 1
      BY <3>1, <3>2, StrippedTyped
    <3>4. Promised = h \o (b \o c) /\ Promised' = h \o (a \o c)
      BY <1>6, <3>2, StrippedBoth
    <3> HIDE DEF a, b, c
    <3>5. ASSUME NEW d \in Seq(Seq(Bytes))
          PROVE  Count(h \o (d \o c), H) = Count(h, H) + (Count(d, H) + Count(c, H))
      <4>1. d \o c \in Seq(Seq(Bytes))
        BY <3>3, ConcatProperties
      <4>2. Count(d \o c, H) = Count(d, H) + Count(c, H)
        BY <3>3, CountBoth
      <4>3. QED
        <5>1. h \in Seq(Seq(Bytes))
          BY <1>2, Zenon
        <5>2. Count(h \o (d \o c), H) = Count(h, H) + Count(d \o c, H)
          BY <4>1, <5>1, CountBoth, Zenon
        <5>3. QED
          BY <4>2, <5>2, Zenon
    <3>6. /\ Count(Promised, H) = Count(h, H) + (Count(b, H) + Count(c, H))
          /\ Count(Promised', H) = Count(h, H) + (Count(a, H) + Count(c, H))
      BY <3>3, <3>4, <3>5
    <3>7. /\ Count(h, H) \in Nat /\ Count(a, H) \in Nat /\ Count(b, H) \in Nat
          /\ Count(c, H) \in Nat /\ Count(a, H) <= 1
      BY <1>2, <3>3, CountTyped, CountShort
    <3>8. Left(Ahead') = Left(Ahead)
      BY <1>5, <3>2 DEF Left
    <3> DEFINE nh == Count(h, H)
               na == Count(a, H)
               nb == Count(b, H)
               nc == Count(c, H)
               l  == Left(Ahead)
    <3>9. /\ nh \in Nat /\ na \in Nat /\ nb \in Nat /\ nc \in Nat /\ na <= 1
           /\ l \in {0, 1}
      BY <3>7, LeftIsBit, Zenon
    <3>10. nh + (nb + nc) + l <= spoils
      BY <1>8, <3>6, Zenon
    <3> HIDE DEF nh, na, nb, nc, l
    <3>11. nh + (na + nc) + l <= spoils + 1
      BY <1>1, <3>9, <3>10
    <3>12. Count(Promised', H) + Left(Ahead') <= spoils'
      BY <1>1, <3>6, <3>8, <3>11, Zenon DEF nh, na, nc, l
    <3>13. QED
      BY <1>1, <3>12 DEF SpoiledSoFar, H
  <2>3. QED
    BY <1>4, <2>1, <2>2
<1>9. QED
  BY <1>7, <1>8 DEF SpoiledInv, SpoiledSoFar, H

LEMMA SpoiledKept ==
  ASSUME PayloadsFit, SpoiledInv, [Next]_vars
  PROVE  SpoiledInv'
<1>1. TypeOK /\ TypeInv' /\ TypeOK'
  BY TypesKept DEF SpoiledInv, TypeInv
<1>2. CASE Quiet
  <2>1. UNCHANGED Ahead /\ UNCHANGED Promised /\ UNCHANGED <<handed, heard, spoils>>
    BY <1>2 DEF Quiet, Ahead, Promised
  <2>2. SpoiledSoFar'
    BY <1>2, <2>1 DEF Quiet, SpoiledInv, SpoiledSoFar
  <2>3. QED
    BY <1>1, <2>2 DEF SpoiledInv
<1>3. CASE \E p \in Payloads : Hear(p)
  BY <1>1, <1>3, HearSpoils DEF SpoiledInv
<1>4. CASE Unplug \/ Reopen
  BY <1>1, <1>4, LossSpoils DEF SpoiledInv
<1>5. CASE \E n \in 1 .. Len(line) : ReadBytes(n)
  BY <1>1, <1>5, ReadSpoils DEF SpoiledInv
<1>6. QED
  BY <1>1, <1>2, <1>3, <1>4, <1>5, SerialSteps

LEMMA SpoiledSuffices == SpoiledInv => OneFrameSpoiledPerLoss
<1> SUFFICES ASSUME SpoiledInv PROVE Count(handed, Range(heard)) <= spoils
  BY DEF OneFrameSpoiledPerLoss, Count, Strange
<1> DEFINE o == Stripped(Ahead.out)
           H == Range(heard)
<1>1. handed \in Seq(Seq(Bytes)) /\ o \in Seq(Seq(Bytes)) /\ spoils \in Nat
  BY PromisedTyped DEF SpoiledInv, TypeInv, TypeOK
<1> HIDE DEF o, H
<1>2. Count(handed \o o, H) = Count(handed, H) + Count(o, H)
  BY <1>1, CountBoth
<1>3. Count(handed, H) \in Nat /\ Count(o, H) \in Nat
  BY <1>1, CountTyped
<1>4. Count(handed \o o, H) + Left(Ahead) <= spoils \/ Count(handed, H) <= spoils
  BY DEF SpoiledInv, SpoiledSoFar, Promised, o, H
<1> DEFINE n == Count(handed, H)
           m == Count(o, H)
           l == Left(Ahead)
<1>5. l \in {0, 1} /\ n \in Nat /\ m \in Nat
  BY <1>3, LeftIsBit, Zenon
<1>6. n + m + l <= spoils \/ n <= spoils
  BY <1>2, <1>4, Zenon
<1> HIDE DEF n, m, l
<1>7. n <= spoils
  BY <1>1, <1>5, <1>6
<1>8. QED
  BY <1>7 DEF H, n

(* The decoder is not reset when the port is opened again, yet each loss   *)
(* of bytes spoils one frame and no more, for any payloads that fit its    *)
(* buffer (kiss_decode, reopen_serial).                                    *)
THEOREM LossSpoilsOneFrame ==
  ASSUME PayloadsFit
  PROVE  Spec => []OneFrameSpoiledPerLoss
<1>1. SpoiledInv /\ [Next]_vars => SpoiledInv'
  BY SpoiledKept
<1>2. QED
  BY <1>1, InitSpoiled, SpoiledSuffices, PTL DEF Spec
=============================================================================

------------------------------- MODULE BpProofs -------------------------------
(***************************************************************************)
(* Theorems about bundle transfer, for every set of stations, who hears    *)
(* whom, every payload length, fragment size and buffer size.              *)
(***************************************************************************)
EXTENDS BpTransfer, FiniteSetTheorems, SequenceTheorems, TLAPS

----------------------------------------------------------------------------
(* How a payload is cut                                                    *)

Pieces(a) == 0 .. (BlockCount(a) - 1)

\* Block k of payload a.
BlockNo(e, t, a, k) == IF Fits(a) THEN WholeBundle(e, t, a) ELSE FragmentBundle(e, t, a, k)

LEMMA Lengths == \A a \in Adus : AduLen[a] \in Nat \ {0} /\ AduLen[a] <= MaxAdu /\ MaxAdu \in Nat
  BY BpAssumption

LEMMA Products ==
  ASSUME NEW m \in Nat, NEW n \in Nat, NEW d \in Nat, m <= n
  PROVE  m * d \in Nat /\ n * d \in Nat /\ m * d <= n * d
  OBVIOUS

LEMMA Quotient ==
  ASSUME NEW n \in Nat, NEW d \in Nat \ {0}
  PROVE  n \div d \in Nat /\ (n \div d) * d <= n
  OBVIOUS

LEMMA AtLeastOne ==
  ASSUME NEW n \in Nat, NEW d \in Nat \ {0}, n >= d
  PROVE  n \div d >= 1
  OBVIOUS

\* There is a first block, and every block begins before the payload ends.
LEMMA PieceBegins ==
  ASSUME NEW a \in Adus
  PROVE  /\ BlockCount(a) \in Nat /\ 0 \in Pieces(a)
         /\ ~ Fits(a) => \A k \in Pieces(a) : k * FragmentSize \in 0 .. (AduLen[a] - 1)
<1>1. /\ AduLen[a] \in Nat \ {0} /\ FragmentSize \in Nat \ {0}
      /\ AduLen[a] + FragmentSize - 1 \in Nat
  BY BpAssumption, Lengths
<1> DEFINE q == (AduLen[a] + FragmentSize - 1) \div FragmentSize
<1>2. q \in Nat /\ q * FragmentSize <= AduLen[a] + FragmentSize - 1
  BY <1>1, Quotient
<1>3. q >= 1
  <2>1. AduLen[a] + FragmentSize - 1 >= FragmentSize
    BY <1>1
  <2>2. QED
    BY <1>1, <2>1, AtLeastOne
<1>4. BlockCount(a) = IF Fits(a) THEN 1 ELSE q
  BY DEF BlockCount, FragmentCount
<1> HIDE DEF q
<1>5. ASSUME ~ Fits(a), NEW k \in Pieces(a)
      PROVE  k * FragmentSize \in 0 .. (AduLen[a] - 1)
  <2>1. k \in Nat /\ q - 1 \in Nat /\ k <= q - 1
    BY <1>2, <1>3, <1>4, <1>5 DEF Pieces
  <2>2. k * FragmentSize \in Nat /\ k * FragmentSize <= (q - 1) * FragmentSize
    BY <1>1, <2>1, Products
  <2>3. (q - 1) * FragmentSize = q * FragmentSize - FragmentSize
    BY <1>1, <1>2
  <2>4. q * FragmentSize \in Nat /\ (q - 1) * FragmentSize \in Nat
    BY <1>1, <1>2, <2>1
  <2>5. QED
    BY <1>1, <1>2, <2>2, <2>3, <2>4
<1>6. QED
  BY <1>2, <1>3, <1>4, <1>5 DEF Pieces

\* A fragment is not empty and ends no later than its payload.
LEMMA PieceEnds ==
  ASSUME NEW a \in Adus, ~ Fits(a), NEW k \in Pieces(a), NEW e, NEW t
  PROVE  LET f == FragmentBundle(e, t, a, k) IN
         /\ f.offset = k * FragmentSize /\ f.offset \in Nat
         /\ f.length \in Nat \ {0} /\ f.length <= FragmentSize
         /\ f.offset + f.length <= AduLen[a]
<1>1. k * FragmentSize \in 0 .. (AduLen[a] - 1)
  BY PieceBegins
<1>2. AduLen[a] \in Nat /\ FragmentSize \in Nat \ {0}
  BY Lengths, BpAssumption
<1>3. QED
  BY <1>1, <1>2 DEF FragmentBundle, Min2

\* Two fragments of a payload have no byte in common.
LEMMA PiecesApart ==
  ASSUME NEW a \in Adus, ~ Fits(a), NEW k \in Pieces(a), NEW j \in Pieces(a), j # k,
         NEW e, NEW t
  PROVE  LET f == FragmentBundle(e, t, a, k)
             g == FragmentBundle(e, t, a, j)
         IN  g.offset \notin f.offset .. (f.offset + f.length - 1)
<1> DEFINE f == FragmentBundle(e, t, a, k)
           g == FragmentBundle(e, t, a, j)
<1>1. /\ f.offset = k * FragmentSize /\ f.length \in Nat /\ f.length <= FragmentSize
      /\ g.offset = j * FragmentSize
  BY PieceEnds
<1>2. k \in Nat /\ j \in Nat /\ FragmentSize \in Nat \ {0}
  BY PieceBegins, BpAssumption DEF Pieces
<1> HIDE DEF f, g
<1>3. CASE j < k
  <2>1. j + 1 \in Nat /\ (j + 1) * FragmentSize <= k * FragmentSize
    BY <1>2, <1>3, Products
  <2>2. (j + 1) * FragmentSize = j * FragmentSize + FragmentSize
    BY <1>2
  <2>3. j * FragmentSize \in Nat /\ k * FragmentSize \in Nat
    BY <1>2
  <2>4. QED
    BY <1>1, <1>2, <2>1, <2>2, <2>3 DEF f, g
<1>4. CASE k < j
  <2>1. k + 1 \in Nat /\ (k + 1) * FragmentSize <= j * FragmentSize
    BY <1>2, <1>4, Products
  <2>2. (k + 1) * FragmentSize = k * FragmentSize + FragmentSize
    BY <1>2
  <2>3. j * FragmentSize \in Nat /\ k * FragmentSize \in Nat
    BY <1>2
  <2>4. QED
    BY <1>1, <1>2, <2>1, <2>2, <2>3 DEF f, g
<1>5. QED
  BY <1>2, <1>3, <1>4

\* Every block is a bundle.
LEMMA BlockIsBundle ==
  ASSUME NEW e \in Stations, NEW t \in Nat, NEW a \in Adus, NEW k \in Pieces(a)
  PROVE  /\ BlockNo(e, t, a, k) \in Bundles
         /\ BlockNo(e, t, a, k).src = e /\ BlockNo(e, t, a, k).time = t
         /\ BlockNo(e, t, a, k).adu = a
         /\ BlockNo(e, t, a, k).fragment = IF Fits(a) THEN 0 ELSE 1
<1>1. AduLen[a] \in Nat
  BY Lengths
<1>2. CASE Fits(a)
  BY <1>1, <1>2 DEF BlockNo, WholeBundle, Bundles
<1>3. CASE ~ Fits(a)
  <2>1. /\ FragmentBundle(e, t, a, k).offset \in Nat
        /\ FragmentBundle(e, t, a, k).length \in Nat
    BY <1>3, PieceEnds
  <2>2. QED
    BY <1>1, <1>3, <2>1 DEF BlockNo, FragmentBundle, Bundles
<1>4. QED
  BY <1>2, <1>3

----------------------------------------------------------------------------
(* Type correctness                                                        *)

Submissions == [engine : Stations, number : Nat, block : Bundles]
Busy ==
  [busy : {1}, adu : Adus, time : Nat, index : Nat, number : Nat, signalled : {0, 1}]
Active ==
  [active : {1}, src : Stations, time : Nat, total : Nat,
   data : [0 .. (MaxAdu - 1) -> Adus \cup {Hole}]]
Told == [src : Stations, time : Nat, adu : Adus, ok : {0, 1}]

\* A submitted block is one of those its payload is cut into, of its submitter.
BlocksCut ==
  \A r \in submitted : \E k \in Pieces(r.block.adu) :
    r.block = BlockNo(r.engine, r.block.time, r.block.adu, k)

\* A bp-send that runs has a block left to send.
InPieces ==
  \A e \in Stations : process[e].busy = 1 => process[e].index \in Pieces(process[e].adu)

\* What is being reassembled has a length that fits the buffer.
ContextsFit ==
  \A b \in Stations : reasm[b].active = 1 => reasm[b].total \in 1 .. MaxAdu

Delivered == [at : Stations, from : Stations, number : Nat, data : Bundles]

LinkTypes ==
  submitted \subseteq Submissions /\ IsFiniteSet(submitted) /\ BlocksCut
  /\ deliveries \in Seq(Delivered)
SenderTypes ==
  /\ process \in [Stations -> Processes] /\ InPieces
  /\ runs \in [Stations -> Nat]
  /\ finished \subseteq Told
ReceiverTypes ==
  /\ reasm \in [Stations -> Contexts] /\ ContextsFit
  /\ restarts \in Nat /\ received \in Seq(Handovers)

TypeInv == LinkTypes /\ SenderTypes /\ ReceiverTypes

LEMMA TypesSuffice == TypeInv => TypeOK
  BY DEF TypeInv, TypeOK, LinkTypes, SenderTypes, ReceiverTypes, Submissions, Told

LEMMA LinkFrame == TypeInv /\ UNCHANGED <<submitted, deliveries>> => LinkTypes'
  BY DEF TypeInv, LinkTypes, BlocksCut

LEMMA SenderFrame == TypeInv /\ UNCHANGED sender => SenderTypes'
  BY DEF TypeInv, SenderTypes, InPieces, sender

LEMMA ReceiverFrame == TypeInv /\ UNCHANGED receiver => ReceiverTypes'
  BY DEF TypeInv, ReceiverTypes, ContextsFit, receiver

LEMMA BusyProcess ==
  ASSUME TypeInv, NEW e \in Stations, process[e].busy = 1
  PROVE  process[e] \in Busy
<1>1. Idle.busy = 0
  BY DEF Idle
<1>2. QED
  BY <1>1 DEF TypeInv, SenderTypes, Processes, Busy

LEMMA ActiveContext ==
  ASSUME TypeInv, NEW b \in Stations
  PROVE  reasm[b] = Empty \/ reasm[b] \in Active
  BY DEF TypeInv, ReceiverTypes, Contexts, Active

LEMMA EmptyInactive == Empty.active # 1 /\ Empty \in Contexts
  BY DEF Empty, Contexts

LEMMA BlockToSend ==
  ASSUME TypeInv, NEW e \in Stations, process[e].busy = 1
  PROVE  /\ BlockOf(e, process[e]) =
              BlockNo(e, process[e].time, process[e].adu, process[e].index)
         /\ BlockOf(e, process[e]) \in Bundles
         /\ BlockOf(e, process[e]).adu = process[e].adu
         /\ BlockOf(e, process[e]).time = process[e].time
         /\ process[e].index \in Pieces(process[e].adu)
<1>1. process[e] \in Busy /\ process[e].index \in Pieces(process[e].adu)
  BY BusyProcess DEF TypeInv, SenderTypes, InPieces
<1>2. BlockOf(e, process[e]) =
        BlockNo(e, process[e].time, process[e].adu, process[e].index)
  BY DEF BlockOf, BlockNo
<1>3. process[e].time \in Nat /\ process[e].adu \in Adus
  BY <1>1 DEF Busy
<1>4. QED
  BY <1>1, <1>2, <1>3, BlockIsBundle

LEMMA InitTypes == Init => TypeInv
<1> SUFFICES ASSUME Init PROVE TypeInv
  OBVIOUS
<1>1. /\ submitted = {} /\ deliveries = << >>
      /\ received = << >> /\ finished = {} /\ restarts = 0
  BY DEF Init, Link!AbstractInit
<1>2. /\ process = [e \in Stations |-> Idle] /\ runs = [e \in Stations |-> 0]
      /\ reasm = [b \in Stations |-> Empty]
  BY DEF Init
<1>3. /\ Idle.busy = 0 /\ Idle \in Processes
      /\ Empty.active = 0 /\ Empty \in Contexts
  BY DEF Idle, Processes, Empty, Contexts
<1>4. LinkTypes
  BY <1>1, FS_EmptySet, EmptySeq DEF LinkTypes, BlocksCut
<1>5. SenderTypes
  BY <1>1, <1>2, <1>3 DEF SenderTypes, InPieces
<1>6. ReceiverTypes
  BY <1>1, <1>2, <1>3, EmptySeq DEF ReceiverTypes, ContextsFit
<1>7. QED
  BY <1>4, <1>5, <1>6 DEF TypeInv

\* A station's process is replaced by another one with a block left to send.
LEMMA ProcessReplaced ==
  ASSUME TypeInv, NEW e \in Stations, NEW p \in Processes,
         p.busy = 1 => p.index \in Pieces(p.adu), process' = [process EXCEPT ![e] = p]
  PROVE  process' \in [Stations -> Processes] /\ InPieces'
<1>1. process \in [Stations -> Processes]
  BY DEF TypeInv, SenderTypes
<1>2. process' \in [Stations -> Processes]
  BY <1>1
<1>3. \A x \in Stations : process'[x] = IF x = e THEN p ELSE process[x]
  BY <1>1
<1>4. QED
  BY <1>2, <1>3 DEF TypeInv, SenderTypes, InPieces

LEMMA FinishTypes ==
  ASSUME TypeInv, NEW e \in Stations, process[e].busy = 1, NEW ok \in {0, 1}, Finish(e, ok)
  PROVE  process' \in [Stations -> Processes] /\ InPieces' /\ finished' \subseteq Told
<1>1. process[e] \in Busy
  BY BusyProcess
<1>2. Verdict(e, ok) \in Told
  BY <1>1 DEF Verdict, Told, Busy
<1>3. Idle \in Processes /\ Idle.busy # 1
  BY DEF Idle, Processes
<1>4. finished \subseteq Told
  BY DEF TypeInv, SenderTypes
<1>5. process' = [process EXCEPT ![e] = Idle] /\ finished' = finished \cup {Verdict(e, ok)}
  BY DEF Finish
<1>6. finished' \subseteq Told
  BY <1>2, <1>4, <1>5
<1>7. QED
  BY <1>3, <1>5, <1>6, ProcessReplaced

\* The process after a step to the next block.
LEMMA NextBlock ==
  ASSUME TypeInv, NEW e \in Stations, process[e].busy = 1,
         process' = [process EXCEPT ![e].index = @ + 1, ![e].number = 0]
  PROVE  /\ process' = [process EXCEPT ![e] = process'[e]]
         /\ process'[e] \in Busy
         /\ process'[e].adu = process[e].adu /\ process'[e].time = process[e].time
         /\ process'[e].index = process[e].index + 1 /\ process'[e].number = 0
         /\ process'[e].signalled = process[e].signalled
<1>1. process[e] \in Busy /\ process \in [Stations -> Processes]
  BY BusyProcess DEF TypeInv, SenderTypes
<1>2. process'[e] = [process[e] EXCEPT !.index = @ + 1, !.number = 0]
  BY <1>1
<1>3. process' = [process EXCEPT ![e] = process'[e]]
  BY <1>1
<1>4. QED
  BY <1>1, <1>2, <1>3 DEF Busy

LEMMA BusyIsProcess == Busy \subseteq Processes
  BY DEF Busy, Processes

LEMMA AdvanceTypes ==
  ASSUME TypeInv, NEW e \in Stations, process[e].busy = 1, Advance(e)
  PROVE  process' \in [Stations -> Processes] /\ InPieces' /\ finished' \subseteq Told
<1>1. CASE process[e].index + 1 < BlockCount(process[e].adu)
  <2>1. /\ process' = [process EXCEPT ![e].index = @ + 1, ![e].number = 0]
        /\ finished' = finished
    BY <1>1 DEF Advance
  <2>2. process[e] \in Busy
    BY BusyProcess
  <2>3. /\ process' = [process EXCEPT ![e] = process'[e]]
        /\ process'[e] \in Busy /\ process'[e].adu = process[e].adu
        /\ process'[e].index = process[e].index + 1
    BY <2>1, NextBlock
  <2>4. process[e].index \in Nat /\ process[e].adu \in Adus
    BY <2>2 DEF Busy
  <2>5. process'[e].index \in Pieces(process'[e].adu)
    BY <1>1, <2>3, <2>4, PieceBegins DEF Pieces
  <2>6. process' \in [Stations -> Processes] /\ InPieces'
    BY <2>3, <2>5, BusyIsProcess, ProcessReplaced
  <2>7. QED
    BY <2>1, <2>6 DEF TypeInv, SenderTypes
<1>2. CASE ~ (process[e].index + 1 < BlockCount(process[e].adu))
  <2>1. Finish(e, 1)
    BY <1>2 DEF Advance
  <2>2. QED
    BY <2>1, FinishTypes
<1>3. QED
  BY <1>1, <1>2

LEMMA StartSendTypes ==
  ASSUME TypeInv, NEW e \in Stations, NEW a \in Adus, StartSend(e, a)
  PROVE  TypeInv'
<1>1. /\ process' = [process EXCEPT ![e] = Sending(a, DtnTime(e))]
      /\ runs' = [runs EXCEPT ![e] = @ + 1]
      /\ UNCHANGED <<link, finished, receiver>>
  BY DEF StartSend
<1>2. runs \in [Stations -> Nat] /\ finished \subseteq Told
  BY DEF TypeInv, SenderTypes
<1>3. DtnTime(e) \in Nat
  BY <1>2 DEF DtnTime
<1>4. /\ Sending(a, DtnTime(e)) \in Processes /\ Sending(a, DtnTime(e)).adu = a
      /\ Sending(a, DtnTime(e)).index = 0
  BY <1>3 DEF Sending, Processes
<1>5. process' \in [Stations -> Processes] /\ InPieces'
  BY <1>1, <1>4, PieceBegins, ProcessReplaced
<1>6. runs' \in [Stations -> Nat]
  BY <1>1, <1>2
<1>7. SenderTypes'
  BY <1>1, <1>2, <1>5, <1>6 DEF SenderTypes
<1>8. LinkTypes' /\ ReceiverTypes'
  BY <1>1, LinkFrame, ReceiverFrame DEF link
<1>9. QED
  BY <1>7, <1>8 DEF TypeInv

\* Which number the next block of e gets.
NextNumber(e) == Cardinality({r \in submitted : r.engine = e}) + 1

LEMMA NextNumberIsNew == TypeInv => \A e \in Stations : NextNumber(e) \in Nat \ {0}
<1> SUFFICES ASSUME TypeInv, NEW e \in Stations PROVE NextNumber(e) \in Nat \ {0}
  OBVIOUS
<1> DEFINE S == {r \in submitted : r.engine = e}
<1>1. IsFiniteSet(submitted) /\ S \in SUBSET submitted
  BY DEF TypeInv, LinkTypes
<1>2. IsFiniteSet(S)
  BY <1>1, FS_Subset
<1>3. Cardinality(S) \in Nat
  BY <1>2, FS_CardinalityType
<1>4. QED
  BY <1>3 DEF NextNumber

\* What SubmitNext does.
LEMMA SubmitNextEffect ==
  ASSUME TypeInv, NEW e \in Stations, SubmitNext(e)
  PROVE  LET n == NextNumber(e)
             r == [engine |-> e, number |-> n, block |-> BlockOf(e, process[e])]
         IN  /\ process[e] \in Busy /\ process[e].number = 0
             /\ \A q \in submitted : q.engine = e => q.number # n
             /\ submitted' = submitted \cup {r} /\ r \in Submissions
             /\ process' = [process EXCEPT ![e].number = n]
             /\ UNCHANGED <<deliveries, verdicts, runs, finished, receiver>>
<1>1. process[e].busy = 1 /\ process[e].number = 0
  BY DEF SubmitNext
<1>2. process[e] \in Busy /\ BlockOf(e, process[e]) \in Bundles
  BY <1>1, BusyProcess, BlockToSend
<1>3. NextNumber(e) \in Nat
  BY NextNumberIsNew
<1>4. /\ Link!SubmitAs(e, NextNumber(e), BlockOf(e, process[e]))
      /\ process' = [process EXCEPT ![e].number = NextNumber(e)]
      /\ UNCHANGED <<runs, finished, receiver>>
  BY DEF SubmitNext, NextNumber
<1>5. QED
  BY <1>1, <1>2, <1>3, <1>4 DEF Link!SubmitAs, Submissions

\* The process once its number is set.
LEMMA NumberSet ==
  ASSUME TypeInv, NEW e \in Stations, process[e].busy = 1, NEW n \in Nat,
         process' = [process EXCEPT ![e].number = n]
  PROVE  /\ process' = [process EXCEPT ![e] = process'[e]]
         /\ process'[e] \in Busy /\ process'[e].number = n
         /\ process'[e].adu = process[e].adu /\ process'[e].time = process[e].time
         /\ process'[e].index = process[e].index
         /\ process'[e].signalled = process[e].signalled
<1>1. process[e] \in Busy /\ process \in [Stations -> Processes]
  BY BusyProcess DEF TypeInv, SenderTypes
<1>2. process'[e] = [process[e] EXCEPT !.number = n]
  BY <1>1
<1>3. process' = [process EXCEPT ![e] = process'[e]]
  BY <1>1
<1>4. QED
  BY <1>1, <1>2, <1>3 DEF Busy

LEMMA SubmitNextTypes ==
  ASSUME TypeInv, NEW e \in Stations, SubmitNext(e)
  PROVE  TypeInv'
<1> DEFINE n == NextNumber(e)
           p == process[e]
           r == [engine |-> e, number |-> n, block |-> BlockOf(e, p)]
<1>1. /\ p \in Busy /\ n \in Nat
      /\ submitted' = submitted \cup {r} /\ r \in Submissions
      /\ process' = [process EXCEPT ![e].number = n]
      /\ UNCHANGED <<deliveries, verdicts, runs, finished, receiver>>
  BY SubmitNextEffect, NextNumberIsNew
<1>2. /\ process' = [process EXCEPT ![e] = process'[e]]
      /\ process'[e] \in Busy /\ process'[e].adu = p.adu /\ process'[e].index = p.index
  BY <1>1, NumberSet DEF Busy
<1>3. /\ BlockOf(e, p) = BlockNo(e, p.time, p.adu, p.index)
      /\ BlockOf(e, p).adu = p.adu /\ BlockOf(e, p).time = p.time
      /\ p.index \in Pieces(p.adu)
  BY <1>1, BlockToSend DEF Busy
<1>4. process' \in [Stations -> Processes] /\ InPieces'
  BY <1>2, <1>3, BusyIsProcess, ProcessReplaced
<1>5. SenderTypes'
  BY <1>1, <1>4 DEF TypeInv, SenderTypes
<1>6. BlocksCut'
  <2>1. r.engine = e /\ r.block = BlockOf(e, p)
    OBVIOUS
  <2>2. \E k \in Pieces(r.block.adu) :
          r.block = BlockNo(r.engine, r.block.time, r.block.adu, k)
    BY <1>3, <2>1
  <2>3. BlocksCut
    BY DEF TypeInv, LinkTypes
  <2> HIDE DEF r
  <2>4. QED
    BY <1>1, <2>2, <2>3 DEF BlocksCut
<1>7. LinkTypes'
  <2>1. IsFiniteSet(submitted')
    BY <1>1, FS_AddElement DEF TypeInv, LinkTypes
  <2> HIDE DEF r
  <2>2. QED
    BY <1>1, <1>6, <2>1 DEF TypeInv, LinkTypes
<1>8. ReceiverTypes'
  BY <1>1, ReceiverFrame
<1>9. QED
  BY <1>5, <1>7, <1>8 DEF TypeInv

LEMMA SubmitFailsTypes ==
  ASSUME TypeInv, NEW e \in Stations, SubmitFails(e)
  PROVE  TypeInv'
<1>1. process[e].busy = 1 /\ Finish(e, 0) /\ UNCHANGED <<link, runs, receiver>>
  BY DEF SubmitFails
<1>2. SenderTypes'
  BY <1>1, FinishTypes DEF TypeInv, SenderTypes
<1>3. LinkTypes' /\ ReceiverTypes'
  BY <1>1, LinkFrame, ReceiverFrame DEF link
<1>4. QED
  BY <1>2, <1>3 DEF TypeInv

LEMMA RunSucceedsTypes ==
  ASSUME TypeInv, NEW e \in Stations, RunSucceeds(e)
  PROVE  TypeInv'
<1>1. /\ process[e].busy = 1 /\ Advance(e) /\ UNCHANGED <<submitted, deliveries>>
      /\ UNCHANGED <<runs, receiver>>
  BY DEF RunSucceeds, Waiting, Link!Succeed
<1>2. SenderTypes'
  BY <1>1, AdvanceTypes DEF TypeInv, SenderTypes
<1>3. LinkTypes' /\ ReceiverTypes'
  BY <1>1, LinkFrame, ReceiverFrame
<1>4. QED
  BY <1>2, <1>3 DEF TypeInv

LEMMA RunFailsTypes ==
  ASSUME TypeInv, NEW e \in Stations, RunFails(e)
  PROVE  TypeInv'
<1>1. /\ process[e].busy = 1 /\ Finish(e, 0) /\ UNCHANGED <<submitted, deliveries>>
      /\ UNCHANGED <<runs, receiver>>
  BY DEF RunFails, Waiting, Link!Fail
<1>2. SenderTypes'
  BY <1>1, FinishTypes DEF TypeInv, SenderTypes
<1>3. LinkTypes' /\ ReceiverTypes'
  BY <1>1, LinkFrame, ReceiverFrame
<1>4. QED
  BY <1>2, <1>3 DEF TypeInv

LEMMA InterruptTypes ==
  ASSUME TypeInv, NEW e \in Stations, Interrupt(e)
  PROVE  TypeInv'
<1>1. /\ process[e].busy = 1 /\ process' = [process EXCEPT ![e].signalled = 1]
      /\ UNCHANGED <<link, runs, finished, receiver>>
  BY DEF Interrupt
<1>2. /\ process[e] \in Busy /\ process \in [Stations -> Processes]
      /\ process[e].index \in Pieces(process[e].adu)
  BY <1>1, BusyProcess DEF TypeInv, SenderTypes, InPieces
<1>3. process'[e] = [process[e] EXCEPT !.signalled = 1]
  BY <1>1, <1>2
<1>4. process' = [process EXCEPT ![e] = process'[e]]
  BY <1>1, <1>2
<1>5. /\ process'[e] \in Busy
      /\ process'[e].adu = process[e].adu /\ process'[e].index = process[e].index
  BY <1>2, <1>3 DEF Busy
<1>6. process' \in [Stations -> Processes] /\ InPieces'
  BY <1>2, <1>4, <1>5, BusyIsProcess, ProcessReplaced
<1>7. SenderTypes'
  BY <1>1, <1>6 DEF TypeInv, SenderTypes
<1>8. LinkTypes' /\ ReceiverTypes'
  BY <1>1, LinkFrame, ReceiverFrame DEF link
<1>9. QED
  BY <1>7, <1>8 DEF TypeInv

LEMMA RunInterruptedTypes ==
  ASSUME TypeInv, NEW e \in Stations, RunInterrupted(e)
  PROVE  TypeInv'
<1>1. process[e].busy = 1 /\ Advance(e) /\ UNCHANGED <<link, runs, receiver>>
  BY DEF RunInterrupted
<1>2. SenderTypes'
  BY <1>1, AdvanceTypes DEF TypeInv, SenderTypes
<1>3. LinkTypes' /\ ReceiverTypes'
  BY <1>1, LinkFrame, ReceiverFrame DEF link
<1>4. QED
  BY <1>2, <1>3 DEF TypeInv

\* What is known of a submitted block.
LEMMA BlockSubmitted ==
  ASSUME TypeInv, NEW r \in submitted
  PROVE  /\ r.engine \in Stations /\ r.number \in Nat /\ r.block \in Bundles
         /\ r.block.src = r.engine /\ r.block.time \in Nat /\ r.block.adu \in Adus
         /\ \E k \in Pieces(r.block.adu) :
              r.block = BlockNo(r.engine, r.block.time, r.block.adu, k)
         /\ r.block.fragment = IF Fits(r.block.adu) THEN 0 ELSE 1
<1>1. r.engine \in Stations /\ r.number \in Nat /\ r.block \in Bundles
  BY DEF TypeInv, LinkTypes, Submissions
<1>2. r.block.time \in Nat /\ r.block.adu \in Adus
  BY <1>1 DEF Bundles
<1>3. PICK k \in Pieces(r.block.adu) :
        r.block = BlockNo(r.engine, r.block.time, r.block.adu, k)
  BY DEF TypeInv, LinkTypes, BlocksCut
<1>4. QED
  BY <1>1, <1>2, <1>3, BlockIsBundle

\* A submitted whole bundle carries its payload.
LEMMA WholeSubmitted ==
  ASSUME TypeInv, NEW r \in submitted, r.block.fragment = 0
  PROVE  r.block.length = AduLen[r.block.adu]
<1>1. PICK k \in Pieces(r.block.adu) :
        r.block = BlockNo(r.engine, r.block.time, r.block.adu, k)
  BY BlockSubmitted
<1>2. Fits(r.block.adu)
  BY BlockSubmitted
<1>3. QED
  BY <1>1, <1>2 DEF BlockNo, WholeBundle

\* A submitted fragment is one of those of its payload.
LEMMA FragmentSubmitted ==
  ASSUME TypeInv, NEW r \in submitted, r.block.fragment = 1
  PROVE  /\ ~ Fits(r.block.adu)
         /\ r.block.total = AduLen[r.block.adu] /\ r.block.total \in 1 .. MaxAdu
         /\ r.block.offset \in Nat /\ r.block.length \in Nat \ {0}
         /\ r.block.offset + r.block.length <= r.block.total
<1>1. PICK k \in Pieces(r.block.adu) :
        r.block = BlockNo(r.engine, r.block.time, r.block.adu, k)
  BY BlockSubmitted
<1>2. ~ Fits(r.block.adu) /\ r.block.adu \in Adus
  BY BlockSubmitted
<1> DEFINE g == FragmentBundle(r.engine, r.block.time, r.block.adu, k)
<1>3. r.block = g
  BY <1>1, <1>2 DEF BlockNo
<1>4. g.total = AduLen[r.block.adu]
  BY DEF FragmentBundle
<1>5. g.offset \in Nat /\ g.length \in Nat \ {0} /\ g.offset + g.length <= AduLen[r.block.adu]
  BY <1>2, PieceEnds
<1>6. AduLen[r.block.adu] \in 1 .. MaxAdu
  BY <1>2, Lengths
<1> HIDE DEF g
<1>7. QED
  BY <1>2, <1>3, <1>4, <1>5, <1>6

\* The delivery of r at b.
Delivery(b, r) == [at |-> b, from |-> r.engine, number |-> r.number, data |-> r.block]

LEMMA ArrivesEffect ==
  ASSUME TypeInv, NEW r \in submitted, NEW b \in Stations, Arrives(b, r)
  PROVE  /\ deliveries' = Append(deliveries, Delivery(b, r)) /\ Delivery(b, r) \in Delivered
         /\ b \in Reach[r.engine]
         /\ UNCHANGED <<submitted, verdicts, sender, restarts>>
         /\ LinkTypes' /\ SenderTypes'
<1>1. r.engine \in Stations /\ r.number \in Nat /\ r.block \in Bundles
  BY BlockSubmitted
<1>2. [x \in Bundles |-> x][r.block] = r.block
  BY <1>1
<1>3. deliveries' = Append(deliveries, Delivery(b, r))
  BY <1>2 DEF Arrives, Link!Deliver, Delivery
<1>4. b \in Reach[r.engine] /\ UNCHANGED <<submitted, verdicts, sender, restarts>>
  BY DEF Arrives, Link!Deliver
<1>5. Delivery(b, r) \in Delivered
  BY <1>1 DEF Delivery, Delivered
<1>6. deliveries' \in Seq(Delivered)
  BY <1>3, <1>5, AppendProperties DEF TypeInv, LinkTypes
<1>7. LinkTypes'
  BY <1>4, <1>6 DEF TypeInv, LinkTypes, BlocksCut
<1>8. SenderTypes'
  BY <1>4, SenderFrame
<1>9. QED
  BY <1>3, <1>4, <1>5, <1>7, <1>8

\* What is handed to the user has the right type.
LEMMA HandTypes ==
  ASSUME TypeInv, NEW b \in Stations, NEW f \in Bundles, NEW l \in 1 .. MaxAdu,
         NEW data \in [0 .. (l - 1) -> Adus \cup {Hole}], Hand(b, f, data)
  PROVE  received' \in Seq(Handovers)
<1>1. f.src \in Stations /\ f.time \in Nat
  BY DEF Bundles
<1>2. data \in UNION {[0 .. (n - 1) -> Adus \cup {Hole}] : n \in 1 .. MaxAdu}
  OBVIOUS
<1>3. [at |-> b, src |-> f.src, time |-> f.time, data |-> data] \in Handovers
  BY <1>1, <1>2 DEF Handovers
<1>4. QED
  BY <1>3, AppendProperties DEF Hand, TypeInv, ReceiverTypes

LEMMA ReceiveWholeTypes ==
  ASSUME TypeInv, NEW b \in Stations, ReceiveWhole(b)
  PROVE  TypeInv'
<1>1. PICK r \in submitted :
        /\ r.block.fragment = 0
        /\ Arrives(b, r)
        /\ Hand(b, r.block, [o \in 0 .. (r.block.length - 1) |-> r.block.adu])
        /\ UNCHANGED reasm
  BY DEF ReceiveWhole
<1>2. r.block \in Bundles /\ r.block.adu \in Adus
  BY BlockSubmitted
<1>3. r.block.length \in 1 .. MaxAdu
  BY <1>1, <1>2, WholeSubmitted, Lengths
<1>4. [o \in 0 .. (r.block.length - 1) |-> r.block.adu]
        \in [0 .. (r.block.length - 1) -> Adus \cup {Hole}]
  BY <1>2
<1>5. received' \in Seq(Handovers)
  BY <1>1, <1>2, <1>3, <1>4, HandTypes
<1>6. LinkTypes' /\ SenderTypes' /\ UNCHANGED restarts
  BY <1>1, ArrivesEffect
<1>7. ReceiverTypes'
  BY <1>1, <1>5, <1>6 DEF TypeInv, ReceiverTypes, ContextsFit
<1>8. QED
  BY <1>6, <1>7 DEF TypeInv

\* The context that takes up a fragment.
LEMMA LatchedTypes ==
  ASSUME TypeInv, NEW b \in Stations, NEW r \in submitted, r.block.fragment = 1
  PROVE  LET ctx == Latched(reasm[b], r.block) IN
         /\ ctx \in Active /\ ctx.total \in 1 .. MaxAdu
         /\ reasm[b].active = 1 => ctx = reasm[b]
         /\ reasm[b].active # 1 =>
              /\ ctx.src = r.block.src /\ ctx.time = r.block.time
              /\ ctx.total = r.block.total
              /\ \A o \in 0 .. (MaxAdu - 1) : ctx.data[o] = Hole
<1> DEFINE f == r.block
           ctx == Latched(reasm[b], f)
<1>1. f \in Bundles /\ f.total \in 1 .. MaxAdu
  BY BlockSubmitted, FragmentSubmitted
<1>2. CASE reasm[b].active = 1
  <2>1. reasm[b] \in Active
    BY <1>2, ActiveContext, EmptyInactive
  <2>2. ctx = reasm[b]
    BY <1>2 DEF Latched
  <2>3. reasm[b].total \in 1 .. MaxAdu
    BY <1>2 DEF TypeInv, ReceiverTypes, ContextsFit
  <2>4. QED
    BY <1>2, <2>1, <2>2, <2>3
<1>3. CASE reasm[b].active # 1
  <2>1. ctx = [active |-> 1, src |-> f.src, time |-> f.time, total |-> f.total,
               data |-> [o \in 0 .. (MaxAdu - 1) |-> Hole]]
    BY <1>3 DEF Latched
  <2>2. f.src \in Stations /\ f.time \in Nat /\ f.total \in Nat
    BY <1>1 DEF Bundles
  <2>3. ctx \in Active
    BY <2>1, <2>2 DEF Active
  <2>4. QED
    BY <1>1, <1>3, <2>1, <2>3
<1>4. QED
  BY <1>2, <1>3

\* The context once it is filled.
LEMMA FilledTypes ==
  ASSUME NEW ctx \in Active, NEW f \in Bundles
  PROVE  /\ Filled(ctx, f) \in Active
         /\ Filled(ctx, f).src = ctx.src /\ Filled(ctx, f).time = ctx.time
         /\ Filled(ctx, f).total = ctx.total /\ Filled(ctx, f).active = 1
         /\ \A o \in 0 .. (MaxAdu - 1) :
              Filled(ctx, f).data[o] =
                IF o \in f.offset .. (f.offset + f.length - 1) THEN f.adu ELSE ctx.data[o]
<1> DEFINE d == [o \in 0 .. (MaxAdu - 1) |->
                   IF o \in f.offset .. (f.offset + f.length - 1) THEN f.adu ELSE ctx.data[o]]
<1>1. Filled(ctx, f) = [ctx EXCEPT !.data = d]
  BY DEF Filled
<1>2. f.adu \in Adus /\ ctx.data \in [0 .. (MaxAdu - 1) -> Adus \cup {Hole}]
  BY DEF Bundles, Active
<1>3. d \in [0 .. (MaxAdu - 1) -> Adus \cup {Hole}]
  BY <1>2
<1>4. \A o \in 0 .. (MaxAdu - 1) :
        d[o] = IF o \in f.offset .. (f.offset + f.length - 1) THEN f.adu ELSE ctx.data[o]
  OBVIOUS
<1> HIDE DEF d
<1>5. Filled(ctx, f).data = d
  BY <1>1 DEF Active
<1>6. QED
  BY <1>1, <1>3, <1>4, <1>5 DEF Active

\* A context is replaced.
LEMMA ContextReplaced ==
  ASSUME TypeInv, NEW b \in Stations, NEW ctx \in Contexts,
         ctx.active = 1 => ctx.total \in 1 .. MaxAdu,
         reasm' = [reasm EXCEPT ![b] = ctx]
  PROVE  reasm' \in [Stations -> Contexts] /\ ContextsFit'
<1>1. reasm \in [Stations -> Contexts] /\ ContextsFit
  BY DEF TypeInv, ReceiverTypes
<1>2. \A x \in Stations : reasm'[x] = IF x = b THEN ctx ELSE reasm[x]
  BY <1>1
<1>3. QED
  BY <1>1, <1>2 DEF ContextsFit

LEMMA ActiveIsContext == Active \subseteq Contexts
  BY DEF Active, Contexts

LEMMA ReceiveStrayEffect ==
  ASSUME NEW b \in Stations, ReceiveStray(b)
  PROVE  \E r \in submitted :
           LET ctx == Latched(reasm[b], r.block) IN
           /\ b \in Reach[r.engine]
           /\ r.block.fragment = 1 /\ ~ (Matches(ctx, r.block) /\ InBounds(ctx, r.block))
           /\ Arrives(b, r)
           /\ reasm' = [reasm EXCEPT ![b] = ctx] /\ UNCHANGED received
  BY DEF ReceiveStray

LEMMA ReceiveStrayTypes ==
  ASSUME TypeInv, NEW b \in Stations, ReceiveStray(b)
  PROVE  TypeInv'
<1>1. PICK r \in submitted :
        /\ r.block.fragment = 1 /\ Arrives(b, r)
        /\ reasm' = [reasm EXCEPT ![b] = Latched(reasm[b], r.block)] /\ UNCHANGED received
  BY ReceiveStrayEffect
<1>2. LinkTypes' /\ SenderTypes' /\ UNCHANGED restarts
  BY <1>1, ArrivesEffect
<1>3. reasm' \in [Stations -> Contexts] /\ ContextsFit'
  BY <1>1, LatchedTypes, ActiveIsContext, ContextReplaced
<1>4. ReceiverTypes'
  BY <1>1, <1>2, <1>3 DEF TypeInv, ReceiverTypes
<1>5. QED
  BY <1>2, <1>4 DEF TypeInv

\* The two ways a fragment is taken up: it completes its bundle, or not yet.
Taken(b, r, ctx) ==
  \/ /\ Whole(ctx)
     /\ Hand(b, r.block, [o \in 0 .. (ctx.total - 1) |-> ctx.data[o]])
     /\ reasm' = [reasm EXCEPT ![b] = Empty]
  \/ /\ ~ Whole(ctx)
     /\ reasm' = [reasm EXCEPT ![b] = ctx]
     /\ UNCHANGED received

LEMMA ReceiveFragmentEffect ==
  ASSUME NEW b \in Stations, ReceiveFragment(b)
  PROVE  \E r \in submitted :
           LET ctx == Filled(Latched(reasm[b], r.block), r.block) IN
           /\ b \in Reach[r.engine]
           /\ r.block.fragment = 1 /\ Matches(ctx, r.block) /\ InBounds(ctx, r.block)
           /\ Arrives(b, r)
           /\ Taken(b, r, ctx)
  BY DEF ReceiveFragment, Taken

LEMMA ReceiveFragmentTypes ==
  ASSUME TypeInv, NEW b \in Stations, ReceiveFragment(b)
  PROVE  TypeInv'
<1>1. PICK r \in submitted :
        LET ctx == Filled(Latched(reasm[b], r.block), r.block) IN
        /\ r.block.fragment = 1 /\ Arrives(b, r) /\ Taken(b, r, ctx)
  BY ReceiveFragmentEffect
<1> DEFINE ctx == Filled(Latched(reasm[b], r.block), r.block)
<1>2. LinkTypes' /\ SenderTypes' /\ UNCHANGED restarts
  BY <1>1, ArrivesEffect
<1>3. r.block \in Bundles
  BY BlockSubmitted
<1>4. ctx \in Active /\ ctx.total \in 1 .. MaxAdu
  BY <1>1, <1>3, LatchedTypes, FilledTypes
<1>5. Taken(b, r, ctx)
  BY <1>1
<1> HIDE DEF ctx
<1>6. CASE /\ Hand(b, r.block, [o \in 0 .. (ctx.total - 1) |-> ctx.data[o]])
           /\ reasm' = [reasm EXCEPT ![b] = Empty]
  <2>1. ctx.data \in [0 .. (MaxAdu - 1) -> Adus \cup {Hole}] /\ MaxAdu \in Nat
    BY <1>4, BpAssumption DEF Active
  <2>2. [o \in 0 .. (ctx.total - 1) |-> ctx.data[o]]
          \in [0 .. (ctx.total - 1) -> Adus \cup {Hole}]
    BY <1>4, <2>1
  <2>3. received' \in Seq(Handovers)
    BY <1>3, <1>4, <1>6, <2>2, HandTypes
  <2>4. reasm' \in [Stations -> Contexts] /\ ContextsFit'
    BY <1>6, EmptyInactive, ContextReplaced
  <2>5. QED
    BY <1>2, <2>3, <2>4 DEF TypeInv, ReceiverTypes
<1>7. CASE reasm' = [reasm EXCEPT ![b] = ctx] /\ UNCHANGED received
  <2>1. reasm' \in [Stations -> Contexts] /\ ContextsFit'
    BY <1>4, <1>7, ActiveIsContext, ContextReplaced
  <2>2. QED
    BY <1>2, <1>7, <2>1 DEF TypeInv, ReceiverTypes
<1>8. QED
  BY <1>5, <1>6, <1>7 DEF Taken

LEMMA RestartReceiverTypes ==
  ASSUME TypeInv, NEW b \in Stations, RestartReceiver(b)
  PROVE  TypeInv'
<1>1. /\ restarts' = restarts + 1 /\ reasm' = [reasm EXCEPT ![b] = Empty]
      /\ UNCHANGED <<link, sender, received>>
  BY DEF RestartReceiver
<1>2. reasm' \in [Stations -> Contexts] /\ ContextsFit'
  BY <1>1, EmptyInactive, ContextReplaced
<1>3. restarts' \in Nat
  BY <1>1 DEF TypeInv, ReceiverTypes
<1>4. ReceiverTypes'
  BY <1>1, <1>2, <1>3 DEF TypeInv, ReceiverTypes
<1>5. LinkTypes' /\ SenderTypes'
  BY <1>1, LinkFrame, SenderFrame DEF link
<1>6. QED
  BY <1>4, <1>5 DEF TypeInv

LEMMA NextTypes == TypeInv /\ [Next]_vars => TypeInv'
<1> SUFFICES ASSUME TypeInv, [Next]_vars PROVE TypeInv'
  OBVIOUS
<1>1. CASE UNCHANGED vars
  <2>1. UNCHANGED <<submitted, deliveries, sender, receiver>>
    BY <1>1 DEF vars, link
  <2>2. QED
    BY <2>1, LinkFrame, SenderFrame, ReceiverFrame DEF TypeInv
<1>2. ASSUME NEW e \in Stations, NEW a \in Adus, StartSend(e, a) PROVE TypeInv'
  BY <1>2, StartSendTypes
<1>3. ASSUME NEW e \in Stations,
             SubmitNext(e) \/ SubmitFails(e) \/ RunSucceeds(e) \/ RunFails(e)
      PROVE  TypeInv'
  BY <1>3, SubmitNextTypes, SubmitFailsTypes, RunSucceedsTypes, RunFailsTypes
<1>4. ASSUME NEW e \in Stations, Interrupt(e) \/ RunInterrupted(e) PROVE TypeInv'
  BY <1>4, InterruptTypes, RunInterruptedTypes
<1>5. ASSUME NEW e \in Stations,
             ReceiveWhole(e) \/ ReceiveStray(e) \/ ReceiveFragment(e) \/ RestartReceiver(e)
      PROVE  TypeInv'
  BY <1>5, ReceiveWholeTypes, ReceiveStrayTypes, ReceiveFragmentTypes, RestartReceiverTypes
<1>6. QED
  BY <1>1, <1>2, <1>3, <1>4, <1>5 DEF Next

\* Every variable of the bundle layer holds what the C structures can hold; a
\* submitted block is one its payload is cut into, and a context has a length
\* that fits the buffer (cmd_bp_send, bp_recv_block_cb).
THEOREM BpTypesHold == Spec => []TypeInv
<1>1. QED
  BY InitTypes, NextTypes, PTL DEF Spec

THEOREM BpTypeCorrect == Spec => []TypeOK
<1>1. QED
  BY BpTypesHold, TypesSuffice, PTL

----------------------------------------------------------------------------
(* What the link holds                                                     *)

\* Every delivery is one of a submitted block, at a station that hears it.
DeliveriesOf ==
  \A i \in DOMAIN deliveries : \E r \in submitted :
    /\ r.engine = deliveries[i].from /\ r.number = deliveries[i].number
    /\ r.block = deliveries[i].data /\ deliveries[i].at \in Reach[r.engine]

\* A number is not given twice, and is never the one of a process outside a run.
Numbered ==
  /\ \A r \in submitted : r.number # 0
  /\ \A r, q \in submitted : r.engine = q.engine /\ r.number = q.number => r = q

LinkInv == DeliveriesOf /\ Numbered

\* A step changes at most one of what is submitted and what is delivered.
LEMMA LinkSteps ==
  ASSUME TypeInv, [Next]_vars
  PROVE  \/ UNCHANGED <<submitted, deliveries>>
         \/ \E e \in Stations : SubmitNext(e)
         \/ \E b \in Stations, r \in submitted :
              /\ deliveries' = Append(deliveries, Delivery(b, r)) /\ b \in Reach[r.engine]
              /\ UNCHANGED <<submitted, verdicts, sender>>
<1> DEFINE Came == \E b \in Stations, r \in submitted :
              /\ deliveries' = Append(deliveries, Delivery(b, r)) /\ b \in Reach[r.engine]
              /\ UNCHANGED <<submitted, verdicts, sender>>
<1>1. CASE UNCHANGED vars
  BY <1>1 DEF vars, link
<1>2. ASSUME NEW e \in Stations, NEW a \in Adus, StartSend(e, a)
      PROVE  UNCHANGED <<submitted, deliveries>>
  BY <1>2 DEF StartSend, link
<1>3. ASSUME NEW e \in Stations,
             \/ SubmitFails(e) \/ Interrupt(e) \/ RunInterrupted(e) \/ RestartReceiver(e)
             \/ RunSucceeds(e) \/ RunFails(e)
      PROVE  UNCHANGED <<submitted, deliveries>>
  BY <1>3 DEF SubmitFails, Interrupt, RunInterrupted, RestartReceiver, RunSucceeds, RunFails,
              Link!Succeed, Link!Fail, link
<1>4. ASSUME NEW b \in Stations, ReceiveWhole(b) PROVE Came
  <2>1. PICK r \in submitted : Arrives(b, r)
    BY <1>4 DEF ReceiveWhole
  <2>2. QED
    BY <2>1, ArrivesEffect
<1>5. ASSUME NEW b \in Stations, ReceiveStray(b) PROVE Came
  <2>1. PICK r \in submitted : Arrives(b, r)
    BY <1>5 DEF ReceiveStray
  <2>2. QED
    BY <2>1, ArrivesEffect
<1>6. ASSUME NEW b \in Stations, ReceiveFragment(b) PROVE Came
  <2>1. PICK r \in submitted : Arrives(b, r)
    BY <1>6 DEF ReceiveFragment
  <2>2. QED
    BY <2>1, ArrivesEffect
<1> HIDE DEF Came
<1> DEFINE Same == UNCHANGED <<submitted, deliveries>>
           Submits == \E e \in Stations : SubmitNext(e)
<1>7. ASSUME NEW e \in Stations,
             \/ \E a \in Adus : StartSend(e, a)
             \/ SubmitNext(e) \/ SubmitFails(e) \/ RunSucceeds(e) \/ RunFails(e)
             \/ Interrupt(e) \/ RunInterrupted(e)
             \/ ReceiveWhole(e) \/ ReceiveStray(e) \/ ReceiveFragment(e)
             \/ RestartReceiver(e)
      PROVE  Same \/ Submits \/ Came
  <2>1. SubmitNext(e) => Submits
    OBVIOUS
  <2> HIDE DEF Same, Submits
  <2>2. (\E a \in Adus : StartSend(e, a)) => Same
    BY <1>2 DEF Same
  <2>3. SubmitFails(e) \/ Interrupt(e) \/ RunInterrupted(e) \/ RestartReceiver(e)
          \/ RunSucceeds(e) \/ RunFails(e)
        => Same
    BY <1>3 DEF Same
  <2>4. ReceiveWhole(e) \/ ReceiveStray(e) \/ ReceiveFragment(e) => Came
    BY <1>4, <1>5, <1>6
  <2>5. QED
    BY <1>7, <2>1, <2>2, <2>3, <2>4
<1>8. Next => Same \/ Submits \/ Came
  <2> HIDE DEF Same, Submits
  <2>1. QED
    BY <1>7 DEF Next
<1>9. QED
  BY <1>1, <1>8 DEF Came

\* A delivery is not taken back.
LEMMA AppendedDelivery ==
  ASSUME TypeInv, NEW b \in Stations, NEW r \in submitted,
         deliveries' = Append(deliveries, Delivery(b, r))
  PROVE  LET n == Len(deliveries) + 1 IN
         /\ DOMAIN deliveries = 1 .. Len(deliveries) /\ Len(deliveries) \in Nat
         /\ DOMAIN deliveries' = 1 .. n /\ deliveries'[n] = Delivery(b, r)
         /\ \A i \in 1 .. Len(deliveries) : deliveries'[i] = deliveries[i]
<1>1. r.engine \in Stations /\ r.number \in Nat /\ r.block \in Bundles
  BY BlockSubmitted
<1>2. Delivery(b, r) \in Delivered
  BY <1>1 DEF Delivery, Delivered
<1>3. deliveries \in Seq(Delivered)
  BY DEF TypeInv, LinkTypes
<1>4. QED
  BY <1>2, <1>3, AppendProperties, LenProperties

LEMMA LinkInvKept ==
  ASSUME TypeInv, LinkInv, [Next]_vars
  PROVE  LinkInv'
<1>1. CASE UNCHANGED <<submitted, deliveries>>
  BY <1>1 DEF LinkInv, DeliveriesOf, Numbered
<1>2. ASSUME NEW e \in Stations, SubmitNext(e) PROVE LinkInv'
  <2> DEFINE r == [engine |-> e, number |-> NextNumber(e), block |-> BlockOf(e, process[e])]
  <2>1. /\ \A q \in submitted : q.engine = e => q.number # NextNumber(e)
        /\ submitted' = submitted \cup {r} /\ UNCHANGED deliveries
    BY <1>2, SubmitNextEffect
  <2>2. r.engine = e /\ r.number = NextNumber(e) /\ NextNumber(e) # 0
    BY NextNumberIsNew
  <2> HIDE DEF r
  <2>3. Numbered'
    BY <2>1, <2>2 DEF LinkInv, Numbered
  <2>4. DeliveriesOf'
    BY <2>1 DEF LinkInv, DeliveriesOf
  <2>5. QED
    BY <2>3, <2>4 DEF LinkInv
<1>3. ASSUME NEW b \in Stations, NEW r \in submitted,
             deliveries' = Append(deliveries, Delivery(b, r)), b \in Reach[r.engine],
             UNCHANGED submitted
      PROVE  LinkInv'
  <2>1. LET n == Len(deliveries) + 1 IN
        /\ DOMAIN deliveries = 1 .. Len(deliveries) /\ Len(deliveries) \in Nat
        /\ DOMAIN deliveries' = 1 .. n /\ deliveries'[n] = Delivery(b, r)
        /\ \A i \in 1 .. Len(deliveries) : deliveries'[i] = deliveries[i]
    BY <1>3, AppendedDelivery
  <2>2. \A i \in DOMAIN deliveries' :
          \/ i \in DOMAIN deliveries /\ deliveries'[i] = deliveries[i]
          \/ deliveries'[i] = Delivery(b, r)
    BY <2>1
  <2>3. DeliveriesOf'
    <3> SUFFICES ASSUME NEW i \in DOMAIN deliveries'
                 PROVE  \E q \in submitted :
                          /\ q.engine = deliveries'[i].from
                          /\ q.number = deliveries'[i].number
                          /\ q.block = deliveries'[i].data
                          /\ deliveries'[i].at \in Reach[q.engine]
      BY <1>3 DEF DeliveriesOf
    <3>1. CASE i \in DOMAIN deliveries /\ deliveries'[i] = deliveries[i]
      BY <3>1 DEF LinkInv, DeliveriesOf
    <3>2. CASE deliveries'[i] = Delivery(b, r)
      BY <1>3, <3>2 DEF Delivery
    <3>3. QED
      BY <2>2, <3>1, <3>2
  <2>4. QED
    BY <1>3, <2>3 DEF LinkInv, Numbered
<1>4. QED
  BY <1>1, <1>2, <1>3, LinkSteps

LEMMA InitLink == Init => LinkInv
<1> SUFFICES ASSUME Init PROVE LinkInv
  OBVIOUS
<1>1. submitted = {} /\ deliveries = << >>
  BY DEF Init, Link!AbstractInit
<1>2. QED
  BY <1>1 DEF LinkInv, DeliveriesOf, Numbered

----------------------------------------------------------------------------
(* A successful bp-send has sent everything                                *)

\* Block f of e has been delivered at a station that hears e.
ArrivedOf(e, f) ==
  \E i \in DOMAIN deliveries : deliveries[i].at \in Reach[e] /\ deliveries[i].data = f

LEMMA ArrivedStays ==
  ASSUME TypeInv, [Next]_vars, NEW e, NEW f, ArrivedOf(e, f)
  PROVE  ArrivedOf(e, f)'
<1>1. CASE UNCHANGED deliveries
  BY <1>1 DEF ArrivedOf
<1>2. ASSUME NEW b \in Stations, NEW r \in submitted,
             deliveries' = Append(deliveries, Delivery(b, r))
      PROVE  ArrivedOf(e, f)'
  <2>1. PICK i \in DOMAIN deliveries :
          deliveries[i].at \in Reach[e] /\ deliveries[i].data = f
    BY DEF ArrivedOf
  <2>2. i \in DOMAIN deliveries' /\ deliveries'[i] = deliveries[i]
    BY <1>2, AppendedDelivery
  <2>3. QED
    BY <2>1, <2>2 DEF ArrivedOf
<1>3. (\E e1 \in Stations : SubmitNext(e1)) => UNCHANGED deliveries
  BY SubmitNextEffect
<1>4. QED
  BY <1>1, <1>2, <1>3, LinkSteps

\* The same after a step, for a block that is named before it.
ArrivedThen(e, f) ==
  \E i \in DOMAIN deliveries' : deliveries'[i].at \in Reach[e] /\ deliveries'[i].data = f

LEMMA ArrivedIsKept ==
  ASSUME TypeInv, [Next]_vars
  PROVE  \A e, f : ArrivedOf(e, f) => ArrivedThen(e, f)
<1> SUFFICES ASSUME NEW e, NEW f, ArrivedOf(e, f) PROVE ArrivedThen(e, f)
  OBVIOUS
<1>1. ArrivedOf(e, f)'
  BY ArrivedStays
<1>2. QED
  BY <1>1 DEF ArrivedOf, ArrivedThen

LEMMA ArrivalsFinite ==
  ASSUME TypeInv, NEW b, NEW f
  PROVE  /\ IsFiniteSet({i \in DOMAIN deliveries :
                           deliveries[i].at = b /\ deliveries[i].data = f})
         /\ Arrivals(b, f) \in Nat
<1> DEFINE S == {i \in DOMAIN deliveries : deliveries[i].at = b /\ deliveries[i].data = f}
<1>1. DOMAIN deliveries = 1 .. Len(deliveries) /\ Len(deliveries) \in Nat
  BY LenProperties DEF TypeInv, LinkTypes
<1>2. IsFiniteSet(DOMAIN deliveries)
  BY <1>1, FS_Interval
<1>3. S \in SUBSET DOMAIN deliveries
  OBVIOUS
<1>4. IsFiniteSet(S)
  BY <1>2, <1>3, FS_Subset
<1>5. Cardinality(S) \in Nat
  BY <1>4, FS_CardinalityType
<1>6. QED
  BY <1>4, <1>5 DEF Arrivals

LEMMA ArrivedCounts ==
  ASSUME TypeInv, NEW e, NEW f, ArrivedOf(e, f)
  PROVE  \E b \in Reach[e] : Arrivals(b, f) > 0
<1>1. PICK i \in DOMAIN deliveries :
        deliveries[i].at \in Reach[e] /\ deliveries[i].data = f
  BY DEF ArrivedOf
<1> DEFINE b == deliveries[i].at
           S == {j \in DOMAIN deliveries : deliveries[j].at = b /\ deliveries[j].data = f}
<1>2. i \in S
  BY <1>1
<1>3. IsFiniteSet(S) /\ Arrivals(b, f) \in Nat
  BY ArrivalsFinite
<1>4. Cardinality(S) # 0
  BY <1>2, <1>3, FS_EmptySet
<1>5. Arrivals(b, f) # 0
  BY <1>4 DEF Arrivals
<1>6. QED
  BY <1>1, <1>3, <1>5

\* What a bp-send that cannot be interrupted knows of the blocks before the one
\* it is at, and of the one it is at.
SentBy(e) ==
  e \notin Interruptible /\ process[e].busy = 1 =>
    /\ process[e].signalled = 0
    /\ \A k \in Pieces(process[e].adu) : k < process[e].index =>
         ArrivedOf(e, BlockNo(e, process[e].time, process[e].adu, k))
    /\ \A r \in submitted : r.engine = e /\ r.number = process[e].number =>
         r.block = BlockOf(e, process[e])

\* A verdict of success of such a bp-send is about blocks that have arrived.
SentVerdict(v) ==
  v.ok = 1 /\ v.src \notin Interruptible =>
    \A k \in Pieces(v.adu) : ArrivedOf(v.src, BlockNo(v.src, v.time, v.adu, k))

SentSoFar ==
  /\ \A e \in Stations : SentBy(e)
  /\ \A v \in finished : SentVerdict(v)

SentInv == TypeInv /\ LinkInv /\ SentSoFar

LEMMA SentByFrame ==
  ASSUME TypeInv, [Next]_vars, NEW x \in Stations, SentBy(x), process'[x] = process[x],
         \A r \in submitted' : r.engine = x => r \in submitted
  PROVE  SentBy(x)'
<1> SUFFICES ASSUME x \notin Interruptible, process'[x].busy = 1
             PROVE  /\ process[x].signalled = 0
                    /\ \A k \in Pieces(process[x].adu) : k < process[x].index =>
                         ArrivedOf(x, BlockNo(x, process[x].time, process[x].adu, k))'
                    /\ \A r \in submitted' : r.engine = x /\ r.number = process[x].number =>
                         r.block = BlockOf(x, process[x])
  BY DEF SentBy, BlockNo, BlockOf, ArrivedOf
<1>1. /\ process[x].signalled = 0
      /\ \A k \in Pieces(process[x].adu) : k < process[x].index =>
           ArrivedOf(x, BlockNo(x, process[x].time, process[x].adu, k))
      /\ \A r \in submitted : r.engine = x /\ r.number = process[x].number =>
           r.block = BlockOf(x, process[x])
  BY DEF SentBy
<1>2. \A k \in Pieces(process[x].adu) :
        ArrivedOf(x, BlockNo(x, process[x].time, process[x].adu, k))
        => ArrivedOf(x, BlockNo(x, process[x].time, process[x].adu, k))'
  BY ArrivedStays
<1>3. QED
  BY <1>1, <1>2

LEMMA VerdictsFrame ==
  ASSUME TypeInv, [Next]_vars, NEW v, SentVerdict(v)
  PROVE  SentVerdict(v)'
<1> SUFFICES ASSUME v.ok = 1, v.src \notin Interruptible, NEW k \in Pieces(v.adu)
             PROVE  ArrivedOf(v.src, BlockNo(v.src, v.time, v.adu, k))'
  BY DEF SentVerdict, BlockNo, ArrivedOf
<1>1. ArrivedOf(v.src, BlockNo(v.src, v.time, v.adu, k))
  BY DEF SentVerdict
<1>2. QED
  BY <1>1, ArrivedStays

\* A step of one bp-send: only what that one is to say remains to be shown.
LEMMA SentStep ==
  ASSUME SentInv, [Next]_vars, NEW e \in Stations,
         \A x \in Stations : x # e => process'[x] = process[x],
         \A r \in submitted' : r \in submitted \/ r.engine = e,
         \A v \in finished' : v \in finished \/ SentVerdict(v)',
         SentBy(e)'
  PROVE  SentSoFar'
<1>1. ASSUME NEW x \in Stations, x # e PROVE SentBy(x)'
  <2>1. /\ process'[x] = process[x] /\ SentBy(x)
        /\ \A r \in submitted' : r.engine = x => r \in submitted
    BY <1>1 DEF SentInv, SentSoFar
  <2>2. QED
    BY <2>1, SentByFrame DEF SentInv
<1>2. \A v \in finished' : SentVerdict(v)'
  BY VerdictsFrame DEF SentInv, SentSoFar
<1>3. QED
  BY <1>1, <1>2 DEF SentSoFar

\* A step that leaves the sending side alone.
LEMMA SentIdle ==
  ASSUME SentInv, [Next]_vars, UNCHANGED <<process, finished, submitted>>
  PROVE  SentSoFar'
<1>1. ASSUME NEW x \in Stations PROVE SentBy(x)'
  BY SentByFrame DEF SentInv, SentSoFar
<1>2. \A v \in finished' : SentVerdict(v)'
  BY VerdictsFrame DEF SentInv, SentSoFar
<1>3. QED
  BY <1>1, <1>2 DEF SentSoFar

LEMMA FinishSends ==
  ASSUME SentInv, [Next]_vars, NEW e \in Stations, process[e].busy = 1, NEW ok \in {0, 1},
         Finish(e, ok), UNCHANGED submitted, SentVerdict(Verdict(e, ok))
  PROVE  SentSoFar'
<1>1. process \in [Stations -> Processes]
  BY DEF SentInv, TypeInv, SenderTypes
<1>2. /\ process' = [process EXCEPT ![e] = Idle]
      /\ finished' = finished \cup {Verdict(e, ok)}
  BY DEF Finish
<1>3. process'[e] = Idle /\ \A x \in Stations : x # e => process'[x] = process[x]
  BY <1>1, <1>2
<1>4. SentBy(e)'
  BY <1>3 DEF SentBy, Idle
<1> DEFINE new == Verdict(e, ok)
<1>5. SentVerdict(new)
  OBVIOUS
<1> HIDE DEF new
<1>6. ASSUME NEW v \in finished' PROVE v \in finished \/ SentVerdict(v)'
  <2>1. CASE v \in finished
    BY <2>1
  <2>2. CASE v = new
    BY <1>5, <2>2, VerdictsFrame DEF SentInv
  <2>3. QED
    BY <1>2, <2>1, <2>2 DEF new
<1>7. QED
  BY <1>3, <1>4, <1>6, SentStep

LEMMA AdvanceSends ==
  ASSUME SentInv, [Next]_vars, NEW e \in Stations, process[e].busy = 1,
         Advance(e), UNCHANGED submitted,
         e \notin Interruptible => ArrivedOf(e, BlockOf(e, process[e]))
  PROVE  SentSoFar'
<1> DEFINE p == process[e]
<1>1. /\ p \in Busy /\ p.index \in Pieces(p.adu)
      /\ BlockOf(e, p) = BlockNo(e, p.time, p.adu, p.index)
  BY BusyProcess, BlockToSend DEF SentInv
<1>2. p.index \in Nat /\ p.adu \in Adus /\ BlockCount(p.adu) \in Nat
  BY <1>1, PieceBegins DEF Busy
<1>3. e \notin Interruptible =>
        \A k \in Pieces(p.adu) : k <= p.index =>
          ArrivedOf(e, BlockNo(e, p.time, p.adu, k))
  <2> SUFFICES ASSUME e \notin Interruptible, NEW k \in Pieces(p.adu), k <= p.index
               PROVE  ArrivedOf(e, BlockNo(e, p.time, p.adu, k))
    OBVIOUS
  <2>1. CASE k = p.index
    BY <1>1, <2>1
  <2>2. CASE k < p.index
    BY <2>2 DEF SentInv, SentSoFar, SentBy
  <2>3. QED
    BY <1>2, <2>1, <2>2 DEF Pieces
<1>4. CASE p.index + 1 < BlockCount(p.adu)
  <2>1. /\ process' = [process EXCEPT ![e].index = @ + 1, ![e].number = 0]
        /\ finished' = finished
    BY <1>4 DEF Advance
  <2>2. /\ process'[e].adu = p.adu /\ process'[e].time = p.time
        /\ process'[e].index = p.index + 1 /\ process'[e].number = 0
        /\ process'[e].signalled = p.signalled
    BY <2>1, NextBlock DEF SentInv
  <2>3. \A x \in Stations : x # e => process'[x] = process[x]
    BY <2>1 DEF SentInv, TypeInv, SenderTypes
  <2>4. ASSUME e \notin Interruptible
        PROVE  /\ p.signalled = 0
               /\ \A k \in Pieces(p.adu) : k < p.index + 1 =>
                    ArrivedThen(e, BlockNo(e, p.time, p.adu, k))
    <3>1. p.signalled = 0
      BY <2>4 DEF SentInv, SentSoFar, SentBy
    <3>2. \A k \in Pieces(p.adu) : k < p.index + 1 =>
            ArrivedOf(e, BlockNo(e, p.time, p.adu, k))
      BY <1>2, <1>3, <2>4 DEF Pieces
    <3>3. QED
      BY <3>1, <3>2, ArrivedIsKept DEF SentInv
  <2>5. \A r \in submitted' : r.number # 0
    BY DEF SentInv, LinkInv, Numbered
  <2>6. SentBy(e)'
    BY <2>2, <2>4, <2>5 DEF SentBy, BlockNo, ArrivedOf, ArrivedThen
  <2>7. QED
    BY <2>1, <2>3, <2>6, SentStep
<1>5. CASE ~ (p.index + 1 < BlockCount(p.adu))
  <2>1. Finish(e, 1)
    BY <1>5 DEF Advance
  <2>2. /\ Verdict(e, 1).src = e /\ Verdict(e, 1).adu = p.adu
        /\ Verdict(e, 1).time = p.time
    BY DEF Verdict
  <2>3. \A k \in Pieces(p.adu) : k <= p.index
    BY <1>2, <1>5 DEF Pieces
  <2>4. SentVerdict(Verdict(e, 1))
    BY <1>3, <2>2, <2>3 DEF SentVerdict
  <2>5. QED
    BY <2>1, <2>4, FinishSends
<1>6. QED
  BY <1>4, <1>5

LEMMA StartSends ==
  ASSUME SentInv, [Next]_vars, NEW e \in Stations, NEW a \in Adus, StartSend(e, a)
  PROVE  SentSoFar'
<1>1. /\ process' = [process EXCEPT ![e] = Sending(a, DtnTime(e))]
      /\ UNCHANGED <<submitted, finished>>
  BY DEF StartSend, link
<1>2. process \in [Stations -> Processes] /\ \A r \in submitted : r.number # 0
  BY DEF SentInv, TypeInv, SenderTypes, LinkInv, Numbered
<1>3. /\ process'[e] = Sending(a, DtnTime(e))
      /\ \A x \in Stations : x # e => process'[x] = process[x]
  BY <1>1, <1>2
<1>4. /\ process'[e].index = 0 /\ process'[e].number = 0 /\ process'[e].signalled = 0
      /\ process'[e].adu = a
  BY <1>3 DEF Sending
<1>5. \A k \in Pieces(a) : ~ (k < 0)
  BY DEF Pieces
<1>6. SentBy(e)'
  BY <1>1, <1>2, <1>4, <1>5 DEF SentBy
<1>7. QED
  BY <1>1, <1>3, <1>6, SentStep

LEMMA SubmitNextSends ==
  ASSUME SentInv, [Next]_vars, NEW e \in Stations, SubmitNext(e)
  PROVE  SentSoFar'
<1> DEFINE n == NextNumber(e)
           p == process[e]
           r == [engine |-> e, number |-> n, block |-> BlockOf(e, p)]
<1>1. /\ p \in Busy /\ n \in Nat
      /\ \A q \in submitted : q.engine = e => q.number # n
      /\ submitted' = submitted \cup {r}
      /\ process' = [process EXCEPT ![e].number = n]
      /\ UNCHANGED <<deliveries, finished>>
  BY SubmitNextEffect, NextNumberIsNew DEF SentInv
<1>2. p.busy = 1
  BY <1>1 DEF Busy
<1>3. /\ process'[e].adu = p.adu /\ process'[e].index = p.index /\ process'[e].number = n
      /\ process'[e].time = p.time /\ process'[e].signalled = p.signalled
  BY <1>1, <1>2, NumberSet DEF SentInv
<1>4. \A x \in Stations : x # e => process'[x] = process[x]
  BY <1>1 DEF SentInv, TypeInv, SenderTypes
<1>5. BlockOf(e, p) = BlockOf(e, process'[e])
  BY <1>3 DEF BlockOf
<1>6. r.engine = e /\ r.block = BlockOf(e, process'[e])
  BY <1>5
<1> HIDE DEF r
<1>7. \A q \in submitted' : q.engine = e /\ q.number = n => q.block = BlockOf(e, process'[e])
  BY <1>1, <1>6
<1>8. ASSUME e \notin Interruptible
      PROVE  /\ p.signalled = 0
             /\ \A k \in Pieces(p.adu) : k < p.index =>
                  ArrivedThen(e, BlockNo(e, p.time, p.adu, k))
  <2>1. /\ p.signalled = 0
        /\ \A k \in Pieces(p.adu) : k < p.index =>
             ArrivedOf(e, BlockNo(e, p.time, p.adu, k))
    BY <1>2, <1>8 DEF SentInv, SentSoFar, SentBy
  <2>2. QED
    BY <2>1, ArrivedIsKept DEF SentInv
<1>9. SentBy(e)'
  BY <1>3, <1>7, <1>8 DEF SentBy, BlockNo, BlockOf, ArrivedOf, ArrivedThen
<1>10. \A q \in submitted' : q \in submitted \/ q.engine = e
  BY <1>1, <1>6
<1>11. QED
  BY <1>1, <1>4, <1>9, <1>10, SentStep

LEMMA RunSucceedsSends ==
  ASSUME SentInv, [Next]_vars, NEW e \in Stations, RunSucceeds(e)
  PROVE  SentSoFar'
<1>1. PICK r \in submitted : Waiting(e, r) /\ Link!Succeed(r)
  BY DEF RunSucceeds
<1>2. process[e].busy = 1 /\ r.engine = e /\ r.number = process[e].number /\ Advance(e)
  BY <1>1 DEF RunSucceeds, Waiting
<1>3. PICK i \in DOMAIN deliveries :
        deliveries[i].from = r.engine /\ deliveries[i].number = r.number
  BY <1>1 DEF Link!Succeed, Link!Settled
<1>4. PICK q \in submitted :
        /\ q.engine = deliveries[i].from /\ q.number = deliveries[i].number
        /\ q.block = deliveries[i].data /\ deliveries[i].at \in Reach[q.engine]
  BY DEF SentInv, LinkInv, DeliveriesOf
<1>5. e \notin Interruptible => q.block = BlockOf(e, process[e])
  BY <1>2, <1>3, <1>4 DEF SentInv, SentSoFar, SentBy
<1>6. e \notin Interruptible => ArrivedOf(e, BlockOf(e, process[e]))
  BY <1>2, <1>3, <1>4, <1>5 DEF ArrivedOf
<1>7. UNCHANGED submitted
  BY <1>1 DEF Link!Succeed
<1>8. QED
  BY <1>2, <1>6, <1>7, AdvanceSends

LEMMA FailedSends ==
  ASSUME SentInv, [Next]_vars, NEW e \in Stations, SubmitFails(e) \/ RunFails(e)
  PROVE  SentSoFar'
<1>1. process[e].busy = 1 /\ Finish(e, 0) /\ UNCHANGED submitted
  BY DEF SubmitFails, RunFails, Waiting, Link!Fail, link
<1>2. SentVerdict(Verdict(e, 0))
  BY DEF SentVerdict, Verdict
<1>3. QED
  BY <1>1, <1>2, FinishSends

\* Only a bp-send that may be interrupted is told that it runs no more.
LEMMA InterruptSends ==
  ASSUME SentInv, [Next]_vars, NEW e \in Stations, Interrupt(e) \/ RunInterrupted(e)
  PROVE  SentSoFar'
<1>1. CASE Interrupt(e)
  <2>1. /\ e \in Interruptible /\ UNCHANGED <<submitted, finished>>
        /\ process' = [process EXCEPT ![e].signalled = 1]
    BY <1>1 DEF Interrupt, link
  <2>2. \A x \in Stations : x # e => process'[x] = process[x]
    BY <2>1 DEF SentInv, TypeInv, SenderTypes
  <2>3. SentBy(e)'
    BY <2>1 DEF SentBy
  <2>4. QED
    BY <2>1, <2>2, <2>3, SentStep
<1>2. CASE RunInterrupted(e)
  <2>1. /\ process[e].busy = 1 /\ process[e].signalled = 1
        /\ Advance(e) /\ UNCHANGED submitted
    BY <1>2 DEF RunInterrupted, link
  <2>2. e \in Interruptible
    BY <2>1 DEF SentInv, SentSoFar, SentBy
  <2>3. QED
    BY <2>1, <2>2, AdvanceSends
<1>3. QED
  BY <1>1, <1>2

LEMMA ReceiverSends ==
  ASSUME SentInv, [Next]_vars, NEW b \in Stations,
         ReceiveWhole(b) \/ ReceiveStray(b) \/ ReceiveFragment(b) \/ RestartReceiver(b)
  PROVE  SentSoFar'
<1>1. ASSUME NEW r \in submitted, Arrives(b, r)
      PROVE  UNCHANGED <<process, finished, submitted>>
  BY <1>1 DEF Arrives, Link!Deliver, sender
<1>2. RestartReceiver(b) => UNCHANGED <<process, finished, submitted>>
  BY DEF RestartReceiver, link, sender
<1>3. RestartReceiver(b) \/ \E r \in submitted : Arrives(b, r)
  BY DEF ReceiveWhole, ReceiveStray, ReceiveFragment
<1>4. QED
  BY <1>1, <1>2, <1>3, SentIdle

LEMMA SentInvKept == SentInv /\ [Next]_vars => SentInv'
<1> SUFFICES ASSUME SentInv, [Next]_vars PROVE SentInv'
  OBVIOUS
<1>1. TypeInv' /\ LinkInv'
  BY NextTypes, LinkInvKept DEF SentInv
<1>2. ASSUME UNCHANGED vars PROVE SentSoFar'
  <2>1. UNCHANGED <<process, finished, submitted>>
    BY <1>2 DEF vars, link, sender
  <2>2. QED
    BY <2>1, SentIdle
<1>3. ASSUME NEW e \in Stations, \E a \in Adus : StartSend(e, a) PROVE SentSoFar'
  BY <1>3, StartSends
<1>4. ASSUME NEW e \in Stations,
             SubmitNext(e) \/ SubmitFails(e) \/ RunSucceeds(e) \/ RunFails(e)
      PROVE  SentSoFar'
  BY <1>4, SubmitNextSends, FailedSends, RunSucceedsSends
<1>5. ASSUME NEW e \in Stations, Interrupt(e) \/ RunInterrupted(e) PROVE SentSoFar'
  BY <1>5, InterruptSends
<1>6. ASSUME NEW e \in Stations,
             ReceiveWhole(e) \/ ReceiveStray(e) \/ ReceiveFragment(e) \/ RestartReceiver(e)
      PROVE  SentSoFar'
  BY <1>6, ReceiverSends
<1>7. SentSoFar'
  BY <1>2, <1>3, <1>4, <1>5, <1>6 DEF Next
<1>8. QED
  BY <1>1, <1>7 DEF SentInv

LEMMA InitSent == Init => SentInv
<1> SUFFICES ASSUME Init PROVE SentInv
  OBVIOUS
<1>1. /\ TypeInv /\ LinkInv /\ finished = {}
      /\ \A e \in Stations : process[e] = Idle
  BY InitTypes, InitLink DEF Init
<1>2. QED
  BY <1>1 DEF SentInv, SentSoFar, SentBy, Idle

LEMMA SentSuffices == SentInv => SentMeansArrived
<1> SUFFICES ASSUME SentInv, NEW v \in finished, v.ok = 1, v.src \notin Interruptible
             PROVE  LET blocks ==
                          IF Fits(v.adu) THEN {WholeBundle(v.src, v.time, v.adu)}
                          ELSE {FragmentBundle(v.src, v.time, v.adu, k) :
                                  k \in 0 .. (FragmentCount(v.adu) - 1)}
                    IN  \A f \in blocks : \E b \in Reach[v.src] : Arrivals(b, f) > 0
  BY DEF SentMeansArrived
<1>1. \A k \in Pieces(v.adu) : ArrivedOf(v.src, BlockNo(v.src, v.time, v.adu, k))
  BY DEF SentInv, SentSoFar, SentVerdict
<1>2. v.adu \in Adus
  BY DEF SentInv, TypeInv, SenderTypes, Told
<1>3. CASE Fits(v.adu)
  <2>1. ArrivedOf(v.src, WholeBundle(v.src, v.time, v.adu))
    BY <1>1, <1>2, <1>3, PieceBegins DEF BlockNo
  <2>2. QED
    BY <1>3, <2>1, ArrivedCounts DEF SentInv
<1>4. CASE ~ Fits(v.adu)
  <2>1. \A k \in 0 .. (FragmentCount(v.adu) - 1) :
          ArrivedOf(v.src, FragmentBundle(v.src, v.time, v.adu, k))
    BY <1>1, <1>4 DEF BlockNo, Pieces, BlockCount
  <2>2. QED
    BY <1>4, <2>1, ArrivedCounts DEF SentInv
<1>5. QED
  BY <1>3, <1>4

\* A bp-send that no signal interrupts reports success only when every fragment of
\* the payload has been delivered at a station that hears it (cmd_bp_send).
THEOREM SentMeansArrivedHolds == Spec => []SentMeansArrived
<1>1. QED
  BY InitSent, SentInvKept, SentSuffices, PTL DEF Spec

----------------------------------------------------------------------------
(* Reassembled payloads                                                    *)
(*                                                                         *)
(* What follows holds where no clock is before the DTN epoch: a bp-send    *)
(* without a clock gives all its bundles one identity.                     *)

\* The time of a bundle counts the bp-sends of its source,
Dated ==
  /\ \A e \in Stations : process[e].busy = 1 => process[e].time = runs[e]
  /\ \A r \in submitted : r.block.time <= runs[r.engine]

\* and so the source and the time of a bundle name its payload.
OneAdu ==
  /\ \A r, q \in submitted :
       r.engine = q.engine /\ r.block.time = q.block.time => r.block.adu = q.block.adu
  /\ \A e \in Stations : \A r \in submitted :
       process[e].busy = 1 /\ r.engine = e /\ r.block.time = process[e].time
       => r.block.adu = process[e].adu

DateInv == Dated /\ OneAdu

LEMMA InitDates == Init => DateInv
<1> SUFFICES ASSUME Init PROVE DateInv
  OBVIOUS
<1>1. submitted = {} /\ \A e \in Stations : process[e] = Idle
  BY DEF Init, Link!AbstractInit
<1>2. QED
  BY <1>1 DEF DateInv, Dated, OneAdu, Idle

\* A step that leaves every process as it is, ends it, or moves it on.
LEMMA DatesFrame ==
  ASSUME DateInv, UNCHANGED <<submitted, runs>>,
         \A e \in Stations : process'[e].busy = 1 =>
           /\ process[e].busy = 1
           /\ process'[e].time = process[e].time /\ process'[e].adu = process[e].adu
  PROVE  DateInv'
<1>1. Dated'
  BY DEF DateInv, Dated
<1>2. OneAdu'
  BY DEF DateInv, OneAdu
<1>3. QED
  BY <1>1, <1>2 DEF DateInv

LEMMA AdvanceKeeps ==
  ASSUME TypeInv, NEW e \in Stations, process[e].busy = 1,
         Advance(e) \/ Finish(e, 0) \/ Finish(e, 1)
  PROVE  \A x \in Stations : process'[x].busy = 1 =>
           /\ process[x].busy = 1
           /\ process'[x].time = process[x].time /\ process'[x].adu = process[x].adu
<1>1. process \in [Stations -> Processes] /\ Idle.busy # 1
  BY DEF TypeInv, SenderTypes, Idle
<1>2. CASE process' = [process EXCEPT ![e] = Idle]
  <2>1. \A x \in Stations : process'[x] = IF x = e THEN Idle ELSE process[x]
    BY <1>1, <1>2
  <2>2. QED
    BY <1>1, <2>1
<1>3. CASE process' = [process EXCEPT ![e].index = @ + 1, ![e].number = 0]
  <2>1. process'[e].adu = process[e].adu /\ process'[e].time = process[e].time
    BY <1>3, NextBlock
  <2>2. \A x \in Stations : x # e => process'[x] = process[x]
    BY <1>1, <1>3
  <2>3. QED
    BY <2>1, <2>2
<1>4. QED
  BY <1>2, <1>3 DEF Advance, Finish

LEMMA StartSendDates ==
  ASSUME Clockless = {}, TypeInv, DateInv,
         NEW e \in Stations, NEW a \in Adus, StartSend(e, a)
  PROVE  DateInv'
<1>1. /\ process' = [process EXCEPT ![e] = Sending(a, DtnTime(e))]
      /\ runs' = [runs EXCEPT ![e] = @ + 1] /\ UNCHANGED submitted
  BY DEF StartSend, link
<1>2. DtnTime(e) = runs[e] + 1
  BY DEF DtnTime
<1>3. process \in [Stations -> Processes] /\ runs \in [Stations -> Nat]
  BY DEF TypeInv, SenderTypes
<1>4. /\ process'[e] = Sending(a, runs[e] + 1) /\ runs'[e] = runs[e] + 1
      /\ \A x \in Stations : x # e => process'[x] = process[x] /\ runs'[x] = runs[x]
  BY <1>1, <1>2, <1>3
<1>5. process'[e].time = runs[e] + 1
  BY <1>4 DEF Sending
<1>6. ASSUME NEW r \in submitted
      PROVE  /\ r.engine \in Stations /\ r.block.time \in Nat
             /\ r.block.time <= runs[r.engine] /\ runs[r.engine] \in Nat
  BY <1>3, BlockSubmitted DEF DateInv, Dated
<1>7. Dated'
  <2>1. \A x \in Stations : process'[x].busy = 1 => process'[x].time = runs'[x]
    BY <1>4, <1>5 DEF DateInv, Dated
  <2>2. \A r \in submitted : r.block.time <= runs'[r.engine]
    BY <1>4, <1>6
  <2>3. QED
    BY <1>1, <2>1, <2>2 DEF Dated
<1>8. OneAdu'
  <2>1. \A r \in submitted : r.engine = e => r.block.time # process'[e].time
    BY <1>5, <1>6
  <2>2. QED
    BY <1>1, <1>4, <2>1 DEF DateInv, OneAdu
<1>9. QED
  BY <1>7, <1>8 DEF DateInv

LEMMA SubmitNextDates ==
  ASSUME TypeInv, DateInv, NEW e \in Stations, SubmitNext(e)
  PROVE  DateInv'
<1> DEFINE n == NextNumber(e)
           p == process[e]
           r == [engine |-> e, number |-> n, block |-> BlockOf(e, p)]
<1>1. /\ p \in Busy /\ n \in Nat /\ submitted' = submitted \cup {r}
      /\ process' = [process EXCEPT ![e].number = n] /\ UNCHANGED runs
  BY SubmitNextEffect, NextNumberIsNew
<1>2. p.busy = 1
  BY <1>1 DEF Busy
<1>3. process'[e].adu = p.adu /\ process'[e].time = p.time
  BY <1>1, <1>2, NumberSet
<1>4. \A x \in Stations : x # e => process'[x] = process[x]
  BY <1>1 DEF TypeInv, SenderTypes
<1>5. BlockOf(e, p).adu = p.adu /\ BlockOf(e, p).time = p.time
  BY <1>2, BlockToSend
<1>6. r.engine = e /\ r.block.adu = p.adu /\ r.block.time = p.time /\ p.time = runs[e]
  BY <1>2, <1>5 DEF DateInv, Dated
<1> HIDE DEF r
<1>7. \A x \in Stations : process'[x].busy = 1 =>
        /\ process[x].busy = 1
        /\ process'[x].time = process[x].time /\ process'[x].adu = process[x].adu
  BY <1>2, <1>3, <1>4
<1>8. Dated'
  <2>1. runs[e] \in Nat /\ r.block.time <= runs[r.engine]
    BY <1>6 DEF TypeInv, SenderTypes
  <2>2. QED
    BY <1>1, <1>7, <2>1 DEF DateInv, Dated
<1>9. \A q \in submitted : q.engine = e /\ q.block.time = p.time => q.block.adu = p.adu
  BY <1>2 DEF DateInv, OneAdu
<1>10. OneAdu'
  <2>1. \A q, s \in submitted' :
          q.engine = s.engine /\ q.block.time = s.block.time => q.block.adu = s.block.adu
    BY <1>1, <1>6, <1>9 DEF DateInv, OneAdu
  <2>2. \A x \in Stations : \A q \in submitted' :
          process'[x].busy = 1 /\ q.engine = x /\ q.block.time = process'[x].time
          => q.block.adu = process'[x].adu
    BY <1>1, <1>6, <1>7 DEF DateInv, OneAdu
  <2>3. QED
    BY <2>1, <2>2 DEF OneAdu
<1>11. QED
  BY <1>8, <1>10 DEF DateInv

LEMMA OtherDates ==
  ASSUME TypeInv, DateInv, NEW e \in Stations,
         SubmitFails(e) \/ RunSucceeds(e) \/ RunFails(e) \/ RunInterrupted(e)
  PROVE  DateInv'
<1>1. /\ process[e].busy = 1 /\ (Advance(e) \/ Finish(e, 0) \/ Finish(e, 1))
      /\ UNCHANGED <<submitted, runs>>
  BY DEF SubmitFails, RunSucceeds, RunFails, RunInterrupted, Waiting, Link!Succeed, Link!Fail,
         link
<1>2. QED
  BY <1>1, AdvanceKeeps, DatesFrame

LEMMA InterruptDates ==
  ASSUME TypeInv, DateInv, NEW e \in Stations, Interrupt(e)
  PROVE  DateInv'
<1>1. /\ process[e].busy = 1 /\ process' = [process EXCEPT ![e].signalled = 1]
      /\ UNCHANGED <<submitted, runs>>
  BY DEF Interrupt, link
<1>2. process[e] \in Busy /\ process \in [Stations -> Processes]
  BY <1>1, BusyProcess DEF TypeInv, SenderTypes
<1>3. process'[e] = [process[e] EXCEPT !.signalled = 1]
  BY <1>1, <1>2
<1>4. process'[e].time = process[e].time /\ process'[e].adu = process[e].adu
  BY <1>2, <1>3 DEF Busy
<1>5. \A x \in Stations : x # e => process'[x] = process[x]
  BY <1>1, <1>2
<1>6. QED
  BY <1>1, <1>4, <1>5, DatesFrame

LEMMA ReceiverDates ==
  ASSUME TypeInv, DateInv, NEW b \in Stations,
         ReceiveWhole(b) \/ ReceiveStray(b) \/ ReceiveFragment(b) \/ RestartReceiver(b)
  PROVE  DateInv'
<1>1. ASSUME NEW r \in submitted, Arrives(b, r)
      PROVE  UNCHANGED <<process, runs, submitted>>
  BY <1>1 DEF Arrives, Link!Deliver, sender
<1>2. RestartReceiver(b) => UNCHANGED <<process, runs, submitted>>
  BY DEF RestartReceiver, link, sender
<1>3. RestartReceiver(b) \/ \E r \in submitted : Arrives(b, r)
  BY DEF ReceiveWhole, ReceiveStray, ReceiveFragment
<1>4. QED
  BY <1>1, <1>2, <1>3, DatesFrame

LEMMA DateInvKept ==
  ASSUME Clockless = {}, TypeInv, DateInv, [Next]_vars
  PROVE  DateInv'
<1>1. ASSUME UNCHANGED vars PROVE DateInv'
  <2>1. UNCHANGED <<process, runs, submitted>>
    BY <1>1 DEF vars, link, sender
  <2>2. QED
    BY <2>1, DatesFrame
<1>2. ASSUME NEW e \in Stations, \E a \in Adus : StartSend(e, a) PROVE DateInv'
  BY <1>2, StartSendDates
<1>3. ASSUME NEW e \in Stations,
             \/ SubmitNext(e) \/ SubmitFails(e) \/ RunSucceeds(e) \/ RunFails(e)
             \/ Interrupt(e) \/ RunInterrupted(e)
      PROVE  DateInv'
  BY <1>3, SubmitNextDates, OtherDates, InterruptDates
<1>4. ASSUME NEW e \in Stations,
             ReceiveWhole(e) \/ ReceiveStray(e) \/ ReceiveFragment(e) \/ RestartReceiver(e)
      PROVE  DateInv'
  BY <1>4, ReceiverDates
<1>5. QED
  BY <1>1, <1>2, <1>3, <1>4 DEF Next

\* A context holds bytes of the bundle that fragment r is of, and of no other.
HeldFor(ctx, r) ==
  /\ r.block.fragment = 1
  /\ ctx.src = r.engine /\ ctx.time = r.block.time /\ ctx.total = AduLen[r.block.adu]
  /\ \A o \in 0 .. (MaxAdu - 1) :
       ctx.data[o] # Hole => ctx.data[o] = r.block.adu /\ o < ctx.total

ContextsHold ==
  \A b \in Stations : reasm[b].active = 1 => \E r \in submitted : HeldFor(reasm[b], r)

Intact(d) ==
  \E r \in submitted :
    r.block.src = d.src /\ r.block.time = d.time /\ d.data = Contents(r.block.adu)

IntactSoFar == \A i \in DOMAIN received : Intact(received[i])

\* A fragment that matches the context it meets is of the bundle the context holds.
LEMMA FragmentJoins ==
  ASSUME TypeInv, DateInv, ContextsHold, NEW b \in Stations, NEW r \in submitted,
         r.block.fragment = 1,
         Matches(Filled(Latched(reasm[b], r.block), r.block), r.block),
         InBounds(Filled(Latched(reasm[b], r.block), r.block), r.block)
  PROVE  HeldFor(Filled(Latched(reasm[b], r.block), r.block), r)
<1> DEFINE f == r.block
           old == Latched(reasm[b], f)
           ctx == Filled(old, f)
<1>1. /\ f \in Bundles /\ f.adu \in Adus /\ f.src = r.engine
      /\ f.total = AduLen[f.adu] /\ f.total \in 1 .. MaxAdu
      /\ f.offset \in Nat /\ f.length \in Nat
  BY BlockSubmitted, FragmentSubmitted
<1>2. old \in Active /\ old.total \in 1 .. MaxAdu
  BY LatchedTypes
<1>3. /\ ctx.src = old.src /\ ctx.time = old.time /\ ctx.total = old.total
      /\ \A o \in 0 .. (MaxAdu - 1) :
           ctx.data[o] = IF o \in f.offset .. (f.offset + f.length - 1) THEN f.adu
                         ELSE old.data[o]
  BY <1>1, <1>2, FilledTypes
<1>4. ctx.src = f.src /\ ctx.time = f.time /\ ctx.total = f.total
  BY DEF Matches
<1>5. f.offset + f.length <= ctx.total
  BY DEF InBounds
<1>6. \A o \in 0 .. (MaxAdu - 1) : old.data[o] # Hole => old.data[o] = f.adu /\ o < f.total
  <2>1. CASE reasm[b].active = 1
    <3>1. PICK q \in submitted : HeldFor(reasm[b], q)
      BY <2>1 DEF ContextsHold
    <3>2. old = reasm[b]
      BY <2>1, LatchedTypes
    <3>3. q.engine = r.engine /\ q.block.time = r.block.time
      BY <1>1, <1>3, <1>4, <3>1, <3>2 DEF HeldFor
    <3>4. q.block.adu = f.adu
      BY <3>3 DEF DateInv, OneAdu
    <3>5. old.total = f.total
      BY <1>3, <1>4
    <3>6. QED
      BY <3>1, <3>2, <3>4, <3>5 DEF HeldFor
  <2>2. CASE reasm[b].active # 1
    <3>1. \A o \in 0 .. (MaxAdu - 1) : old.data[o] = Hole
      BY <2>2, LatchedTypes
    <3>2. QED
      BY <3>1
  <2>3. QED
    BY <2>1, <2>2
<1> HIDE DEF old, ctx
<1>7. \A o \in 0 .. (MaxAdu - 1) : ctx.data[o] # Hole => ctx.data[o] = f.adu /\ o < ctx.total
  <2> SUFFICES ASSUME NEW o \in 0 .. (MaxAdu - 1), ctx.data[o] # Hole
               PROVE  ctx.data[o] = f.adu /\ o < ctx.total
    OBVIOUS
  <2>1. o \in Int /\ f.total \in Int
    BY <1>1
  <2>2. CASE o \in f.offset .. (f.offset + f.length - 1)
    BY <1>1, <1>3, <1>4, <1>5, <2>1, <2>2
  <2>3. CASE o \notin f.offset .. (f.offset + f.length - 1)
    BY <1>3, <1>4, <1>6, <2>3
  <2>4. QED
    BY <2>2, <2>3
<1>8. HeldFor(ctx, r)
  BY <1>1, <1>4, <1>7 DEF HeldFor
<1>9. QED
  BY <1>8 DEF ctx, old

\* A context that has as many bytes as its bundle holds every one of them.
LEMMA WholeIsFull ==
  ASSUME NEW r, NEW ctx \in Active, ctx.total \in 1 .. MaxAdu, HeldFor(ctx, r), Whole(ctx)
  PROVE  [o \in 0 .. (ctx.total - 1) |-> ctx.data[o]] = Contents(r.block.adu)
<1> DEFINE S == {o \in DOMAIN ctx.data : ctx.data[o] # Hole}
           T == 0 .. (ctx.total - 1)
<1>1. MaxAdu \in Nat /\ ctx.total \in Nat
  BY BpAssumption
<1>2. DOMAIN ctx.data = 0 .. (MaxAdu - 1)
  BY DEF Active
<1>3. S \in SUBSET T
  BY <1>1, <1>2 DEF HeldFor
<1>4. IsFiniteSet(T) /\ Cardinality(T) = ctx.total
  <2>1. 0 \in Int /\ ctx.total - 1 \in Int /\ ~ (0 > ctx.total - 1)
    BY <1>1
  <2>2. IsFiniteSet(T) /\ Cardinality(T) = (ctx.total - 1) - 0 + 1
    BY <2>1, FS_Interval
  <2>3. QED
    BY <1>1, <2>2
<1>5. IsFiniteSet(S) /\ Cardinality(S) <= ctx.total
  BY <1>3, <1>4, FS_Subset
<1>6. Cardinality(S) >= ctx.total /\ Cardinality(S) \in Nat
  BY <1>5, FS_CardinalityType DEF Whole, BytesReceived
<1>7. S = T
  <2>1. Cardinality(T) = Cardinality(S)
    BY <1>1, <1>4, <1>5, <1>6
  <2>2. QED
    BY <1>3, <1>4, <2>1, FS_Subset
<1>8. \A o \in T : ctx.data[o] = r.block.adu
  BY <1>2, <1>7 DEF HeldFor
<1>9. ctx.total = AduLen[r.block.adu]
  BY DEF HeldFor
<1> HIDE DEF S
<1>10. QED
  BY <1>8, <1>9 DEF Contents

\* One more payload is handed over.
LEMMA HandedIntact ==
  ASSUME TypeInv, IntactSoFar, UNCHANGED submitted, NEW b \in Stations, NEW r \in submitted,
         Hand(b, r.block, Contents(r.block.adu))
  PROVE  IntactSoFar'
<1> DEFINE d == [at |-> b, src |-> r.block.src, time |-> r.block.time,
                 data |-> Contents(r.block.adu)]
<1>1. received' = Append(received, d) /\ received \in Seq(Handovers)
  BY DEF Hand, TypeInv, ReceiverTypes
<1>2. received \in Seq(Handovers \cup {d}) /\ d \in Handovers \cup {d}
  BY <1>1, SeqMonotonic
<1>3. Intact(d)
  BY DEF Intact
<1> HIDE DEF d
<1>4. \A i \in DOMAIN received' :
        \/ i \in DOMAIN received /\ received'[i] = received[i]
        \/ received'[i] = d
  BY <1>1, <1>2, AppendProperties, LenProperties
<1>5. QED
  BY <1>3, <1>4 DEF IntactSoFar, Intact

ReassemblyInv == ContextsHold /\ IntactSoFar

LEMMA ReceiveWholeIntact ==
  ASSUME TypeInv, ReassemblyInv, NEW b \in Stations, ReceiveWhole(b)
  PROVE  ReassemblyInv'
<1>1. PICK r \in submitted :
        /\ r.block.fragment = 0
        /\ Arrives(b, r)
        /\ Hand(b, r.block, [o \in 0 .. (r.block.length - 1) |-> r.block.adu])
        /\ UNCHANGED reasm
  BY DEF ReceiveWhole
<1>2. UNCHANGED submitted
  BY <1>1, ArrivesEffect
<1>3. [o \in 0 .. (r.block.length - 1) |-> r.block.adu] = Contents(r.block.adu)
  BY <1>1, WholeSubmitted DEF Contents
<1>4. IntactSoFar'
  BY <1>1, <1>2, <1>3, HandedIntact DEF ReassemblyInv
<1>5. ContextsHold'
  BY <1>1, <1>2 DEF ReassemblyInv, ContextsHold
<1>6. QED
  BY <1>4, <1>5 DEF ReassemblyInv

\* A context is replaced by one that holds a submitted bundle.
LEMMA ContextHolds ==
  ASSUME TypeInv, ContextsHold, UNCHANGED submitted, NEW b \in Stations, NEW ctx,
         ctx.active = 1 => \E r \in submitted : HeldFor(ctx, r),
         reasm' = [reasm EXCEPT ![b] = ctx]
  PROVE  ContextsHold'
<1>1. reasm \in [Stations -> Contexts]
  BY DEF TypeInv, ReceiverTypes
<1>2. \A x \in Stations : reasm'[x] = IF x = b THEN ctx ELSE reasm[x]
  BY <1>1
<1> SUFFICES ASSUME NEW x \in Stations, reasm'[x].active = 1
             PROVE  \E r \in submitted : HeldFor(reasm'[x], r)
  BY DEF ContextsHold, HeldFor
<1>3. CASE x = b
  BY <1>2, <1>3
<1>4. CASE x # b
  BY <1>2, <1>4 DEF ContextsHold
<1>5. QED
  BY <1>3, <1>4

LEMMA ReceiveStrayIntact ==
  ASSUME TypeInv, ReassemblyInv, NEW b \in Stations, ReceiveStray(b)
  PROVE  ReassemblyInv'
<1>1. PICK r \in submitted :
        /\ r.block.fragment = 1 /\ Arrives(b, r)
        /\ reasm' = [reasm EXCEPT ![b] = Latched(reasm[b], r.block)] /\ UNCHANGED received
  BY ReceiveStrayEffect
<1> DEFINE ctx == Latched(reasm[b], r.block)
<1>2. UNCHANGED submitted
  BY <1>1, ArrivesEffect
<1>3. \E q \in submitted : HeldFor(ctx, q)
  <2>1. CASE reasm[b].active = 1
    BY <1>1, <2>1, LatchedTypes DEF ReassemblyInv, ContextsHold
  <2>2. CASE reasm[b].active # 1
    <3>1. /\ ctx.src = r.block.src /\ ctx.time = r.block.time /\ ctx.total = r.block.total
          /\ \A o \in 0 .. (MaxAdu - 1) : ctx.data[o] = Hole
      BY <1>1, <2>2, LatchedTypes
    <3>2. r.block.src = r.engine /\ r.block.total = AduLen[r.block.adu]
      BY <1>1, BlockSubmitted, FragmentSubmitted
    <3>3. HeldFor(ctx, r)
      BY <1>1, <3>1, <3>2 DEF HeldFor
    <3>4. QED
      BY <3>3
  <2>3. QED
    BY <2>1, <2>2
<1> HIDE DEF ctx
<1>4. ContextsHold'
  BY <1>1, <1>2, <1>3, ContextHolds DEF ReassemblyInv, ctx
<1>5. IntactSoFar'
  BY <1>1, <1>2 DEF ReassemblyInv, IntactSoFar, Intact
<1>6. QED
  BY <1>4, <1>5 DEF ReassemblyInv

LEMMA ReceiveFragmentIntact ==
  ASSUME TypeInv, DateInv, ReassemblyInv, NEW b \in Stations, ReceiveFragment(b)
  PROVE  ReassemblyInv'
<1>1. PICK r \in submitted :
        LET ctx == Filled(Latched(reasm[b], r.block), r.block) IN
        /\ r.block.fragment = 1 /\ Matches(ctx, r.block) /\ InBounds(ctx, r.block)
        /\ Arrives(b, r) /\ Taken(b, r, ctx)
  BY ReceiveFragmentEffect
<1> DEFINE ctx == Filled(Latched(reasm[b], r.block), r.block)
<1>2. HeldFor(ctx, r)
  BY <1>1, FragmentJoins DEF ReassemblyInv
<1>3. UNCHANGED submitted
  BY <1>1, ArrivesEffect
<1>4. ctx \in Active /\ ctx.total \in 1 .. MaxAdu
  BY <1>1, BlockSubmitted, LatchedTypes, FilledTypes
<1>5. Taken(b, r, ctx)
  BY <1>1
<1> HIDE DEF ctx
<1>6. CASE /\ Whole(ctx)
           /\ Hand(b, r.block, [o \in 0 .. (ctx.total - 1) |-> ctx.data[o]])
           /\ reasm' = [reasm EXCEPT ![b] = Empty]
  <2>1. Hand(b, r.block, Contents(r.block.adu))
    BY <1>2, <1>4, <1>6, WholeIsFull
  <2>2. IntactSoFar'
    BY <1>3, <2>1, HandedIntact DEF ReassemblyInv
  <2>3. ContextsHold'
    BY <1>3, <1>6, EmptyInactive, ContextHolds DEF ReassemblyInv
  <2>4. QED
    BY <2>2, <2>3 DEF ReassemblyInv
<1>7. CASE reasm' = [reasm EXCEPT ![b] = ctx] /\ UNCHANGED received
  <2>1. ContextsHold'
    BY <1>2, <1>3, <1>7, ContextHolds DEF ReassemblyInv
  <2>2. IntactSoFar'
    BY <1>3, <1>7 DEF ReassemblyInv, IntactSoFar, Intact
  <2>3. QED
    BY <2>1, <2>2 DEF ReassemblyInv
<1>8. QED
  BY <1>5, <1>6, <1>7 DEF Taken

LEMMA RestartReceiverIntact ==
  ASSUME TypeInv, ReassemblyInv, NEW b \in Stations, RestartReceiver(b)
  PROVE  ReassemblyInv'
<1>1. reasm' = [reasm EXCEPT ![b] = Empty] /\ UNCHANGED <<submitted, received>>
  BY DEF RestartReceiver, link
<1>2. ContextsHold'
  BY <1>1, EmptyInactive, ContextHolds DEF ReassemblyInv
<1>3. IntactSoFar'
  BY <1>1 DEF ReassemblyInv, IntactSoFar, Intact
<1>4. QED
  BY <1>2, <1>3 DEF ReassemblyInv

\* The sending side submits blocks and leaves the receivers alone.
LEMMA SenderIntact ==
  ASSUME ReassemblyInv, submitted \subseteq submitted', UNCHANGED <<reasm, received>>
  PROVE  ReassemblyInv'
<1>1. ContextsHold'
  BY DEF ReassemblyInv, ContextsHold, HeldFor
<1>2. IntactSoFar'
  BY DEF ReassemblyInv, IntactSoFar, Intact
<1>3. QED
  BY <1>1, <1>2 DEF ReassemblyInv

LEMMA SenderSteps ==
  ASSUME TypeInv, NEW e \in Stations,
         \/ \E a \in Adus : StartSend(e, a)
         \/ SubmitNext(e) \/ SubmitFails(e) \/ RunSucceeds(e) \/ RunFails(e)
         \/ Interrupt(e) \/ RunInterrupted(e)
  PROVE  submitted \subseteq submitted' /\ UNCHANGED <<deliveries, receiver>>
<1>1. CASE \E a \in Adus : StartSend(e, a)
  BY <1>1 DEF StartSend, link
<1>2. CASE SubmitNext(e)
  BY <1>2, SubmitNextEffect
<1>3. CASE \/ SubmitFails(e) \/ RunSucceeds(e) \/ RunFails(e)
           \/ Interrupt(e) \/ RunInterrupted(e)
  BY <1>3 DEF SubmitFails, RunSucceeds, RunFails, Interrupt, RunInterrupted,
              Link!Succeed, Link!Fail, link
<1>4. QED
  BY <1>1, <1>2, <1>3

IntactInv == TypeInv /\ DateInv /\ ReassemblyInv

LEMMA IntactInvKept ==
  ASSUME Clockless = {}, IntactInv, [Next]_vars
  PROVE  IntactInv'
<1>1. TypeInv' /\ DateInv'
  BY NextTypes, DateInvKept DEF IntactInv
<1>2. ASSUME UNCHANGED vars PROVE ReassemblyInv'
  <2>1. UNCHANGED <<submitted, reasm, received>>
    BY <1>2 DEF vars, link, receiver
  <2>2. QED
    BY <2>1, SenderIntact DEF IntactInv
<1>3. ASSUME NEW e \in Stations,
             \/ \E a \in Adus : StartSend(e, a)
             \/ SubmitNext(e) \/ SubmitFails(e) \/ RunSucceeds(e) \/ RunFails(e)
             \/ Interrupt(e) \/ RunInterrupted(e)
      PROVE  ReassemblyInv'
  <2>1. submitted \subseteq submitted' /\ UNCHANGED <<deliveries, receiver>>
    BY <1>3, SenderSteps DEF IntactInv
  <2>2. QED
    BY <2>1, SenderIntact DEF IntactInv, receiver
<1>4. ASSUME NEW e \in Stations,
             ReceiveWhole(e) \/ ReceiveStray(e) \/ ReceiveFragment(e) \/ RestartReceiver(e)
      PROVE  ReassemblyInv'
  BY <1>4, ReceiveWholeIntact, ReceiveStrayIntact, ReceiveFragmentIntact,
     RestartReceiverIntact DEF IntactInv
<1>5. ReassemblyInv'
  BY <1>2, <1>3, <1>4 DEF Next
<1>6. QED
  BY <1>1, <1>5 DEF IntactInv

LEMMA InitIntact == Init => IntactInv
<1> SUFFICES ASSUME Init PROVE IntactInv
  OBVIOUS
<1>1. TypeInv /\ DateInv /\ received = << >> /\ \A b \in Stations : reasm[b] = Empty
  BY InitTypes, InitDates DEF Init
<1>2. QED
  BY <1>1, EmptyInactive DEF IntactInv, ReassemblyInv, ContextsHold, IntactSoFar

\* Where every clock is past the DTN epoch, each payload handed to the user is the
\* payload of the bundle it is said to be, byte for byte (bp_recv_block_cb,
\* bp_reassembly_add).
THEOREM ReassembledIntactHolds ==
  ASSUME Clockless = {}
  PROVE  Spec => []ReassembledIntact
<1>1. IntactInv /\ [Next]_vars => IntactInv'
  BY IntactInvKept
<1>2. IntactInv => ReassembledIntact
  BY DEF IntactInv, ReassemblyInv, IntactSoFar, Intact, ReassembledIntact, Range
<1>3. QED
  BY <1>1, <1>2, InitIntact, PTL DEF Spec

----------------------------------------------------------------------------
(* A handover takes every block of its bundle                              *)

\* Where sequence s has an element of D.
Places(s, D) == {i \in DOMAIN s : s[i] \in D}

\* Appending an element counts it, if it is one of those that are counted.
LEMMA CountAppended ==
  ASSUME NEW S, NEW s \in Seq(S), NEW x \in S, NEW D
  PROVE  /\ Cardinality(Places(s, D)) \in Nat
         /\ Cardinality(Places(Append(s, x), D)) =
              IF x \in D THEN Cardinality(Places(s, D)) + 1 ELSE Cardinality(Places(s, D))
<1> DEFINE t == Append(s, x)
           n == Len(s) + 1
           old == Places(s, D)
           new == Places(t, D)
<1>1. /\ DOMAIN s = 1 .. Len(s) /\ Len(s) \in Nat
      /\ DOMAIN t = 1 .. n /\ t[n] = x /\ \A i \in 1 .. Len(s) : t[i] = s[i]
  BY AppendProperties, LenProperties
<1>2. IsFiniteSet(DOMAIN s) /\ old \in SUBSET DOMAIN s
  BY <1>1, FS_Interval DEF Places
<1>3. IsFiniteSet(old)
  BY <1>2, FS_Subset
<1>4. Cardinality(old) \in Nat
  BY <1>3, FS_CardinalityType
<1>5. n \notin old
  BY <1>1 DEF Places
<1>6. CASE x \in D
  <2>1. new = old \cup {n}
    BY <1>1, <1>6 DEF Places
  <2>2. Cardinality(old \cup {n}) = Cardinality(old) + 1
    BY <1>3, <1>5, FS_AddElement
  <2>3. QED
    BY <1>4, <1>6, <2>1, <2>2
<1>7. CASE x \notin D
  <2>1. new = old
    BY <1>1, <1>7 DEF Places
  <2>2. QED
    BY <1>4, <1>7, <2>1
<1>8. QED
  BY <1>6, <1>7

LEMMA ArrivalsAppended ==
  ASSUME TypeInv, NEW b \in Stations, NEW r \in submitted,
         deliveries' = Append(deliveries, Delivery(b, r)), NEW x, NEW f
  PROVE  /\ Arrivals(x, f) \in Nat
         /\ Arrivals(x, f)' = IF x = b /\ r.block = f THEN Arrivals(x, f) + 1 ELSE Arrivals(x, f)
<1> DEFINE D == {d \in Delivered : d.at = x /\ d.data = f}
           new == Delivery(b, r)
<1>1. deliveries \in Seq(Delivered)
  BY DEF TypeInv, LinkTypes
<1>2. new \in Delivered /\ new.at = b /\ new.data = r.block
  BY BlockSubmitted DEF Delivery, Delivered
<1>3. new \in D <=> x = b /\ r.block = f
  BY <1>2
<1> HIDE DEF new
<1>4. deliveries' \in Seq(Delivered) /\ deliveries' = Append(deliveries, new)
  BY <1>1, <1>2, AppendProperties DEF new
<1>5. {i \in DOMAIN deliveries : deliveries[i].at = x /\ deliveries[i].data = f}
      = Places(deliveries, D)
  BY <1>1, LenProperties DEF Places
<1>6. {i \in DOMAIN deliveries' : deliveries'[i].at = x /\ deliveries'[i].data = f}
      = Places(deliveries', D)
  BY <1>4, LenProperties DEF Places
<1> HIDE DEF D
<1>7. /\ Cardinality(Places(deliveries, D)) \in Nat
      /\ Cardinality(Places(Append(deliveries, new), D)) =
           IF new \in D THEN Cardinality(Places(deliveries, D)) + 1 ELSE Cardinality(Places(deliveries, D))
  BY <1>1, <1>2, CountAppended
<1>8. QED
  BY <1>3, <1>4, <1>5, <1>6, <1>7 DEF Arrivals

LEMMA HandedFinite == TypeInv => \A x, src, t : Handed(x, src, t) \in Nat
<1> SUFFICES ASSUME TypeInv, NEW x, NEW src, NEW t PROVE Handed(x, src, t) \in Nat
  OBVIOUS
<1> DEFINE S == {i \in DOMAIN received :
                   received[i].at = x /\ received[i].src = src /\ received[i].time = t}
<1>1. DOMAIN received = 1 .. Len(received) /\ Len(received) \in Nat
  BY LenProperties DEF TypeInv, ReceiverTypes
<1>2. IsFiniteSet(DOMAIN received) /\ S \in SUBSET DOMAIN received
  BY <1>1, FS_Interval
<1>3. IsFiniteSet(S)
  BY <1>2, FS_Subset
<1>4. Cardinality(S) \in Nat
  BY <1>3, FS_CardinalityType
<1>5. QED
  BY <1>4 DEF Handed

LEMMA HandedAppended ==
  ASSUME TypeInv, NEW b \in Stations, NEW f \in Bundles, NEW l \in 1 .. MaxAdu,
         NEW data \in [0 .. (l - 1) -> Adus \cup {Hole}], Hand(b, f, data),
         NEW x, NEW src, NEW t
  PROVE  Handed(x, src, t)' =
           IF x = b /\ f.src = src /\ f.time = t THEN Handed(x, src, t) + 1
           ELSE Handed(x, src, t)
<1> DEFINE D == {d \in Handovers : d.at = x /\ d.src = src /\ d.time = t}
           new == [at |-> b, src |-> f.src, time |-> f.time, data |-> data]
<1>1. received \in Seq(Handovers) /\ received' \in Seq(Handovers)
  BY HandTypes DEF TypeInv, ReceiverTypes
<1>2. new \in Handovers /\ new.at = b /\ new.src = f.src /\ new.time = f.time
  <2>1. f.src \in Stations /\ f.time \in Nat
    BY DEF Bundles
  <2>2. data \in UNION {[0 .. (n - 1) -> Adus \cup {Hole}] : n \in 1 .. MaxAdu}
    OBVIOUS
  <2>3. QED
    BY <2>1, <2>2 DEF Handovers
<1>3. new \in D <=> x = b /\ f.src = src /\ f.time = t
  BY <1>2
<1>4. received' = Append(received, new)
  BY DEF Hand
<1> HIDE DEF new
<1>5. {i \in DOMAIN received :
         received[i].at = x /\ received[i].src = src /\ received[i].time = t}
      = Places(received, D)
  BY <1>1, LenProperties DEF Places
<1>6. {i \in DOMAIN received' :
         received'[i].at = x /\ received'[i].src = src /\ received'[i].time = t}
      = Places(received', D)
  BY <1>1, LenProperties DEF Places
<1> HIDE DEF D
<1>7. /\ Cardinality(Places(received, D)) \in Nat
      /\ Cardinality(Places(Append(received, new), D)) =
           IF new \in D THEN Cardinality(Places(received, D)) + 1 ELSE Cardinality(Places(received, D))
  BY <1>1, <1>2, CountAppended
<1>8. QED
  BY <1>3, <1>4, <1>5, <1>6, <1>7 DEF Handed

\* Whether context ctx holds fragment f.
Once(ctx, f) ==
  IF /\ f.fragment = 1 /\ ctx.active = 1 /\ ctx.src = f.src /\ ctx.time = f.time
     /\ ctx.data[f.offset] # Hole
  THEN 1 ELSE 0

\* The handovers of a bundle and what is held of its block f do not exceed the
\* arrivals of f.
CountedFor(b, e, t, f) == Handed(b, e, t) + Once(reasm[b], f) <= Arrivals(b, f)

\* A bundle of e at time t, if one is submitted, carries payload a.
Only(e, t, a) ==
  \A q \in submitted : q.engine = e /\ q.block.time = t => q.block.adu = a

Counted ==
  \A b, e \in Stations, t \in Nat, a \in Adus :
    Only(e, t, a) => \A k \in Pieces(a) : CountedFor(b, e, t, BlockNo(e, t, a, k))

LEMMA OnceIsBit == \A ctx, f : Once(ctx, f) \in {0, 1}
  BY DEF Once

LEMMA EmptyHoldsNone == \A f : Once(Empty, f) = 0
  BY EmptyInactive DEF Once

\* What a context holds once a fragment is put in: what it held, and that fragment.
LEMMA FilledHolds ==
  ASSUME TypeInv, NEW b \in Stations, NEW r \in submitted, r.block.fragment = 1,
         Matches(Filled(Latched(reasm[b], r.block), r.block), r.block),
         NEW e \in Stations, NEW t \in Nat, NEW a \in Adus, Only(e, t, a),
         NEW k \in Pieces(a), ~ Fits(a), r.engine = e, r.block.time = t,
         Filled(Latched(reasm[b], r.block), r.block).data[BlockNo(e, t, a, k).offset] # Hole
  PROVE  Once(reasm[b], BlockNo(e, t, a, k)) = 1 \/ r.block = BlockNo(e, t, a, k)
<1> DEFINE f == r.block
           g == FragmentBundle(e, t, a, k)
           old == Latched(reasm[b], f)
           ctx == Filled(old, f)
<1>1. f.adu = a /\ f \in Bundles /\ f.src = e /\ f.time = t
  BY BlockSubmitted DEF Only
<1>2. PICK j \in Pieces(a) : f = BlockNo(e, t, a, j)
  BY <1>1, BlockSubmitted
<1>3. f = FragmentBundle(e, t, a, j) /\ BlockNo(e, t, a, k) = g
  BY <1>2 DEF BlockNo
<1>4. old \in Active /\ ctx.src = old.src /\ ctx.time = old.time
  BY <1>1, LatchedTypes, FilledTypes
<1>5. g.offset \in 0 .. (MaxAdu - 1) /\ g.fragment = 1 /\ g.src = e /\ g.time = t
  <2>1. /\ g.offset \in Nat /\ g.length \in Nat \ {0}
        /\ g.offset + g.length <= AduLen[a]
    BY PieceEnds
  <2>2. AduLen[a] \in Nat /\ AduLen[a] <= MaxAdu /\ MaxAdu \in Nat
    BY Lengths
  <2>3. g.fragment = 1 /\ g.src = e /\ g.time = t
    BY DEF FragmentBundle
  <2> HIDE DEF g
  <2>4. QED
    BY <2>1, <2>2, <2>3
<1>6. ctx.data[g.offset] = IF g.offset \in f.offset .. (f.offset + f.length - 1) THEN f.adu
                           ELSE old.data[g.offset]
  BY <1>1, <1>4, <1>5, FilledTypes
<1>7. ctx.data[g.offset] # Hole
  BY <1>3
<1>8. CASE j = k
  BY <1>2, <1>8
<1>9. CASE j # k
  <2>1. g.offset \notin f.offset .. (f.offset + f.length - 1)
    BY <1>3, <1>9, PiecesApart
  <2>2. old.data[g.offset] # Hole
    BY <1>6, <1>7, <2>1
  <2>3. reasm[b].active = 1 /\ old = reasm[b]
    BY <1>5, <2>2, LatchedTypes
  <2>4. old.src = e /\ old.time = t
    BY <1>1, <1>4 DEF Matches
  <2> HIDE DEF g, old
  <2>5. Once(reasm[b], g) = 1
    BY <1>5, <2>2, <2>3, <2>4 DEF Once
  <2>6. QED
    BY <1>3, <2>5
<1>10. QED
  BY <1>8, <1>9

\* What the counts are after a delivery at b, elsewhere.
LEMMA CountedElsewhere ==
  ASSUME TypeInv, NEW b \in Stations, NEW r \in submitted, Arrives(b, r),
         NEW x \in Stations, x # b, NEW e, NEW t, NEW f,
         CountedFor(x, e, t, f), Handed(x, e, t)' = Handed(x, e, t), reasm'[x] = reasm[x]
  PROVE  CountedFor(x, e, t, f)'
<1>1. Arrivals(x, f)' = Arrivals(x, f)
  BY ArrivesEffect, ArrivalsAppended
<1>2. QED
  BY <1>1 DEF CountedFor, Once

\* The contexts and the handovers of the other stations.
LEMMA Elsewhere ==
  ASSUME TypeInv, NEW b \in Stations, NEW ctx, reasm' = [reasm EXCEPT ![b] = ctx]
  PROVE  reasm'[b] = ctx /\ \A x \in Stations : x # b => reasm'[x] = reasm[x]
  BY DEF TypeInv, ReceiverTypes

LEMMA ReceiveWholeCounts ==
  ASSUME TypeInv, NEW b \in Stations, ReceiveWhole(b),
         NEW x \in Stations, NEW e \in Stations, NEW t \in Nat, NEW a \in Adus, Only(e, t, a),
         NEW k \in Pieces(a), NEW f, f = BlockNo(e, t, a, k), CountedFor(x, e, t, f)
  PROVE  CountedFor(x, e, t, f)'
<1>1. PICK r \in submitted :
        /\ r.block.fragment = 0
        /\ Arrives(b, r)
        /\ Hand(b, r.block, [o \in 0 .. (r.block.length - 1) |-> r.block.adu])
        /\ UNCHANGED reasm
  BY DEF ReceiveWhole
<1> DEFINE l == r.block.length
           data == [o \in 0 .. (l - 1) |-> r.block.adu]
<1>2. r.block \in Bundles /\ r.block.adu \in Adus /\ r.block.src = r.engine
  BY BlockSubmitted
<1>3. l \in 1 .. MaxAdu
  BY <1>1, <1>2, WholeSubmitted, Lengths
<1>4. data \in [0 .. (l - 1) -> Adus \cup {Hole}]
  BY <1>2
<1>5. Hand(b, r.block, data)
  BY <1>1
<1> HIDE DEF data, l
<1>6. Handed(x, e, t)' = IF x = b /\ r.engine = e /\ r.block.time = t
                         THEN Handed(x, e, t) + 1 ELSE Handed(x, e, t)
  BY <1>2, <1>3, <1>4, <1>5, HandedAppended
<1>7. /\ Arrivals(x, f) \in Nat
      /\ Arrivals(x, f)' = IF x = b /\ r.block = f THEN Arrivals(x, f) + 1 ELSE Arrivals(x, f)
  BY <1>1, ArrivesEffect, ArrivalsAppended
<1>8. r.engine = e /\ r.block.time = t => r.block = f
  <2> SUFFICES ASSUME r.engine = e, r.block.time = t PROVE r.block = f
    OBVIOUS
  <2>1. r.block.adu = a
    BY DEF Only
  <2>2. PICK j \in Pieces(a) : r.block = BlockNo(e, t, a, j)
    BY <2>1, BlockSubmitted
  <2>3. Fits(a)
    BY <1>1, <2>1, BlockSubmitted
  <2>4. QED
    BY <2>2, <2>3 DEF BlockNo
<1>9. Handed(x, e, t) \in Nat /\ Once(reasm[x], f) \in {0, 1}
  BY HandedFinite, OnceIsBit
<1>10. Once(reasm[x], f)' = Once(reasm[x], f)
  BY <1>1 DEF Once
<1>11. Handed(x, e, t) + Once(reasm[x], f) <= Arrivals(x, f)
  BY DEF CountedFor
<1>12. Handed(x, e, t)' + Once(reasm[x], f)' <= Arrivals(x, f)'
  <2> DEFINE h == Handed(x, e, t)
             o == Once(reasm[x], f)
             c == Arrivals(x, f)
             h2 == Handed(x, e, t)'
             c2 == Arrivals(x, f)'
  <2>1. h \in Nat /\ o \in {0, 1} /\ c \in Nat /\ h + o <= c
    BY <1>7, <1>9, <1>11
  <2>2. (h2 = h /\ (c2 = c \/ c2 = c + 1)) \/ (h2 = h + 1 /\ c2 = c + 1)
    BY <1>6, <1>7, <1>8
  <2> HIDE DEF h, o, c, h2, c2
  <2>3. h2 + o <= c2
    BY <2>1, <2>2
  <2>4. QED
    BY <1>10, <2>3 DEF h, o, c, h2, c2
<1>13. QED
  BY <1>12 DEF CountedFor

LEMMA ReceiveStrayCounts ==
  ASSUME TypeInv, NEW b \in Stations, ReceiveStray(b),
         NEW x \in Stations, NEW e \in Stations, NEW t \in Nat, NEW a \in Adus, Only(e, t, a),
         NEW k \in Pieces(a), NEW f, f = BlockNo(e, t, a, k), CountedFor(x, e, t, f)
  PROVE  CountedFor(x, e, t, f)'
<1>1. PICK r \in submitted :
        /\ r.block.fragment = 1 /\ Arrives(b, r)
        /\ reasm' = [reasm EXCEPT ![b] = Latched(reasm[b], r.block)] /\ UNCHANGED received
  BY ReceiveStrayEffect
<1>2. Handed(x, e, t)' = Handed(x, e, t) /\ Handed(x, e, t) \in Nat
  BY <1>1, HandedFinite DEF Handed
<1>3. reasm'[b] = Latched(reasm[b], r.block) /\ (x # b => reasm'[x] = reasm[x])
  BY <1>1, Elsewhere
<1>4. CASE x # b
  BY <1>1, <1>2, <1>3, <1>4, CountedElsewhere
<1>5. CASE x = b
  <2>1. /\ Arrivals(x, f) \in Nat
        /\ Arrivals(x, f)' = Arrivals(x, f) \/ Arrivals(x, f)' = Arrivals(x, f) + 1
    BY <1>1, ArrivesEffect, ArrivalsAppended
  <2>2. Once(reasm'[x], f) <= Once(reasm[x], f)
    <3>1. CASE reasm[b].active = 1
      BY <1>1, <1>3, <1>5, <3>1, OnceIsBit, LatchedTypes
    <3>2. CASE reasm[b].active # 1
      <4>1. \A o \in 0 .. (MaxAdu - 1) : Latched(reasm[b], r.block).data[o] = Hole
        BY <1>1, <3>2, LatchedTypes
      <4>2. f.fragment = 1 => f.offset \in 0 .. (MaxAdu - 1)
        <5> SUFFICES ASSUME f.fragment = 1 PROVE f.offset \in 0 .. (MaxAdu - 1)
          OBVIOUS
        <5>1. ~ Fits(a)
          BY BlockIsBundle
        <5>2. f = FragmentBundle(e, t, a, k)
          BY <5>1 DEF BlockNo
        <5>3. /\ f.offset \in Nat /\ f.length \in Nat \ {0}
              /\ f.offset + f.length <= AduLen[a]
          BY <5>1, <5>2, PieceEnds
        <5>4. QED
          BY <5>3, Lengths
      <4>3. Once(reasm'[x], f) = 0
        BY <1>3, <1>5, <4>1, <4>2 DEF Once
      <4>4. Once(reasm[x], f) \in {0, 1}
        BY OnceIsBit
      <4>5. QED
        BY <4>3, <4>4
    <3>3. QED
      BY <3>1, <3>2
  <2>3. Handed(x, e, t)' + Once(reasm'[x], f) <= Arrivals(x, f)'
    <3>1. Once(reasm'[x], f) \in {0, 1} /\ Once(reasm[x], f) \in {0, 1}
      BY OnceIsBit
    <3>2. Handed(x, e, t) + Once(reasm[x], f) <= Arrivals(x, f)
      BY DEF CountedFor
    <3>3. QED
      BY <1>2, <2>1, <2>2, <3>1, <3>2
  <2>4. QED
    BY <2>3 DEF CountedFor, Once
<1>6. QED
  BY <1>4, <1>5

LEMMA ReceiveFragmentCounts ==
  ASSUME TypeInv, DateInv, ContextsHold, NEW b \in Stations, ReceiveFragment(b),
         NEW x \in Stations, NEW e \in Stations, NEW t \in Nat, NEW a \in Adus, Only(e, t, a),
         NEW k \in Pieces(a), NEW f, f = BlockNo(e, t, a, k), CountedFor(x, e, t, f)
  PROVE  CountedFor(x, e, t, f)'
<1>1. PICK r \in submitted :
        LET ctx == Filled(Latched(reasm[b], r.block), r.block) IN
        /\ r.block.fragment = 1 /\ Matches(ctx, r.block) /\ InBounds(ctx, r.block)
        /\ Arrives(b, r) /\ Taken(b, r, ctx)
  BY ReceiveFragmentEffect
<1> DEFINE ctx == Filled(Latched(reasm[b], r.block), r.block)
           Came == x = b /\ r.engine = e /\ r.block.time = t
           h == Handed(x, e, t)
           o == Once(reasm[x], f)
           c == Arrivals(x, f)
           h2 == Handed(x, e, t)'
           c2 == Arrivals(x, f)'
<1>2. h \in Nat /\ o \in {0, 1} /\ c \in Nat /\ h + o <= c
  BY HandedFinite, OnceIsBit, ArrivalsFinite DEF CountedFor
<1>3. c2 = c \/ c2 = c + 1
  BY <1>1, ArrivesEffect, ArrivalsAppended
<1>4. x = b /\ r.block = f => c2 = c + 1
  BY <1>1, ArrivesEffect, ArrivalsAppended
<1>5. /\ r.block \in Bundles /\ r.block.src = r.engine
      /\ ctx \in Active /\ ctx.total \in 1 .. MaxAdu
      /\ ctx.src = r.engine /\ ctx.time = r.block.time
  BY <1>1, BlockSubmitted, LatchedTypes, FilledTypes DEF Matches
<1>6. HeldFor(ctx, r)
  BY <1>1, FragmentJoins
<1>7. Taken(b, r, ctx)
  BY <1>1
\* If the context holds f once r is put in, it held f before, or r is f.
<1>8. ASSUME Came, Once(ctx, f) = 1 PROVE o = 1 \/ c2 = c + 1
  <2>1. f.fragment = 1 /\ ctx.data[f.offset] # Hole
    BY <1>8 DEF Once
  <2>2. ~ Fits(a)
    BY <2>1, BlockIsBundle
  <2>3. Once(reasm[b], BlockNo(e, t, a, k)) = 1 \/ r.block = BlockNo(e, t, a, k)
    BY <1>1, <1>8, <2>1, <2>2, FilledHolds
  <2>4. QED
    BY <1>4, <1>8, <2>3
<1>9. x = b /\ ~ Came => Once(ctx, f) = 0
  <2> SUFFICES ASSUME x = b, ~ Came PROVE Once(ctx, f) = 0
    OBVIOUS
  <2>1. f.src = e /\ f.time = t
    BY BlockIsBundle
  <2> HIDE DEF ctx
  <2>2. QED
    BY <1>5, <2>1 DEF Once
<1>10. x # b => o = Once(reasm'[x], f) /\ ~ Came
  <2> SUFFICES ASSUME x # b PROVE o = Once(reasm'[x], f)
    OBVIOUS
  <2>1. \E z : reasm' = [reasm EXCEPT ![b] = z]
    BY <1>7 DEF Taken
  <2>2. reasm'[x] = reasm[x]
    BY <2>1, Elsewhere
  <2>3. QED
    BY <2>2
<1> HIDE DEF ctx, h, o, c, h2, c2
<1>11. CASE ~ Whole(ctx)
  <2>1. reasm' = [reasm EXCEPT ![b] = ctx] /\ UNCHANGED received
    BY <1>7, <1>11 DEF Taken
  <2>2. h2 = h
    BY <2>1 DEF h, h2, Handed
  <2>3. x = b => reasm'[x] = ctx
    BY <2>1, Elsewhere
  <2> DEFINE o2 == Once(reasm'[x], f)
  <2>4. o2 \in {0, 1}
    BY OnceIsBit
  <2>5. o2 = 1 => o = 1 \/ c2 = c + 1
    BY <1>8, <1>9, <1>10, <2>3
  <2> HIDE DEF o2
  <2>6. h2 + o2 <= c2
    BY <1>2, <1>3, <2>2, <2>4, <2>5
  <2>7. QED
    BY <2>6 DEF h2, o2, c2, CountedFor, Once
<1>12. CASE Whole(ctx)
  <2>1. /\ Hand(b, r.block, [i \in 0 .. (ctx.total - 1) |-> ctx.data[i]])
        /\ reasm' = [reasm EXCEPT ![b] = Empty]
    BY <1>7, <1>12 DEF Taken
  <2> DEFINE data == [i \in 0 .. (ctx.total - 1) |-> ctx.data[i]]
             o2 == Once(reasm'[x], f)
  <2>2. data \in [0 .. (ctx.total - 1) -> Adus \cup {Hole}]
    <3>1. ctx.data \in [0 .. (MaxAdu - 1) -> Adus \cup {Hole}] /\ MaxAdu \in Nat
      BY <1>5, BpAssumption DEF Active
    <3>2. QED
      BY <1>5, <3>1
  <2>3. Hand(b, r.block, data)
    BY <2>1
  <2>4. data = Contents(r.block.adu)
    BY <1>5, <1>6, <1>12, WholeIsFull
  <2> HIDE DEF data
  <2>5. h2 = IF Came THEN h + 1 ELSE h
    BY <1>5, <2>2, <2>3, HandedAppended DEF h, h2
  <2>6. x = b => o2 = 0
    BY <2>1, Elsewhere, EmptyHoldsNone
  <2>7. Came => Once(ctx, f) = 1
    <3> SUFFICES ASSUME Came PROVE Once(ctx, f) = 1
      OBVIOUS
    <3>1. r.block.adu = a
      BY DEF Only
    <3>2. ~ Fits(a) /\ f.fragment = 1
      BY <1>1, <3>1, BlockSubmitted, BlockIsBundle
    <3>3. f = FragmentBundle(e, t, a, k)
      BY <3>2 DEF BlockNo
    <3>4. f.offset \in Nat /\ f.length \in Nat \ {0} /\ f.offset + f.length <= AduLen[a]
      BY <3>2, <3>3, PieceEnds
    <3>5. f.offset \in 0 .. (AduLen[a] - 1) /\ ctx.total = AduLen[a]
      BY <1>6, <3>1, <3>4, Lengths DEF HeldFor
    <3>6. data[f.offset] = ctx.data[f.offset]
      BY <3>5 DEF data
    <3>7. data[f.offset] = a /\ a # Hole
      BY <2>4, <3>1, <3>5, BpAssumption DEF Contents
    <3>8. f.src = e /\ f.time = t
      BY BlockIsBundle
    <3>9. ctx.active = 1
      BY <1>5 DEF Active
    <3>10. QED
      BY <1>5, <3>2, <3>6, <3>7, <3>8, <3>9 DEF Once
  <2> HIDE DEF o2
  <2>8. h2 + o2 <= c2
    <3>1. CASE Came
      <4>1. o = 1 \/ c2 = c + 1
        BY <1>8, <2>7, <3>1
      <4>2. h2 = h + 1 /\ o2 = 0
        BY <2>5, <2>6, <3>1
      <4>3. QED
        BY <1>2, <1>3, <4>1, <4>2
    <3>2. CASE ~ Came
      <4>1. h2 = h
        BY <2>5, <3>2
      <4>2. o2 = 0 \/ o2 = o
        BY <1>10, <2>6 DEF o2
      <4>3. QED
        BY <1>2, <1>3, <4>1, <4>2
    <3>3. QED
      BY <3>1, <3>2
  <2>9. QED
    BY <2>8 DEF h2, o2, c2, CountedFor, Once
<1>13. QED
  BY <1>11, <1>12

LEMMA RestartReceiverCounts ==
  ASSUME TypeInv, NEW b \in Stations, RestartReceiver(b),
         NEW x \in Stations, NEW e, NEW t, NEW f, CountedFor(x, e, t, f)
  PROVE  CountedFor(x, e, t, f)'
<1>1. reasm' = [reasm EXCEPT ![b] = Empty] /\ UNCHANGED <<deliveries, received>>
  BY DEF RestartReceiver, link
<1>2. Handed(x, e, t)' = Handed(x, e, t) /\ Arrivals(x, f)' = Arrivals(x, f)
  BY <1>1 DEF Handed, Arrivals
<1>3. Once(reasm'[x], f) = 0 \/ Once(reasm'[x], f) = Once(reasm[x], f)
  BY <1>1, Elsewhere, EmptyHoldsNone
<1>4. /\ Handed(x, e, t) \in Nat /\ Arrivals(x, f) \in Nat
      /\ Once(reasm[x], f) \in {0, 1}
      /\ Handed(x, e, t) + Once(reasm[x], f) <= Arrivals(x, f)
  BY HandedFinite, ArrivalsFinite, OnceIsBit DEF CountedFor
<1>5. Handed(x, e, t)' + Once(reasm'[x], f) <= Arrivals(x, f)'
  BY <1>2, <1>3, <1>4
<1>6. QED
  BY <1>5 DEF CountedFor, Once

CountInv == IntactInv /\ Counted

\* The steps of the sending side change none of the counts.
LEMMA SenderCounts ==
  ASSUME Counted, submitted \subseteq submitted', UNCHANGED <<deliveries, reasm, received>>
  PROVE  Counted'
<1> SUFFICES ASSUME NEW b \in Stations, NEW e \in Stations, NEW t \in Nat, NEW a \in Adus,
                    Only(e, t, a)', NEW k \in Pieces(a), NEW f, f = BlockNo(e, t, a, k)
             PROVE  CountedFor(b, e, t, f)'
  BY DEF Counted, CountedFor, BlockNo, Pieces
<1>1. Only(e, t, a)
  BY DEF Only
<1>2. CountedFor(b, e, t, f)
  BY <1>1 DEF Counted
<1>3. QED
  BY <1>2 DEF CountedFor, Handed, Arrivals, Once

LEMMA ReceiverCounts ==
  ASSUME CountInv, NEW y \in Stations,
         ReceiveWhole(y) \/ ReceiveStray(y) \/ ReceiveFragment(y) \/ RestartReceiver(y)
  PROVE  Counted'
<1>1. UNCHANGED submitted
  <2>1. ASSUME NEW r \in submitted, Arrives(y, r) PROVE UNCHANGED submitted
    BY <2>1 DEF Arrives, Link!Deliver
  <2>2. RestartReceiver(y) => UNCHANGED submitted
    BY DEF RestartReceiver, link
  <2>3. RestartReceiver(y) \/ \E r \in submitted : Arrives(y, r)
    BY DEF ReceiveWhole, ReceiveStray, ReceiveFragment
  <2>4. QED
    BY <2>1, <2>2, <2>3
<1> SUFFICES ASSUME NEW b \in Stations, NEW e \in Stations, NEW t \in Nat, NEW a \in Adus,
                    Only(e, t, a)', NEW k \in Pieces(a), NEW f, f = BlockNo(e, t, a, k)
             PROVE  CountedFor(b, e, t, f)'
  BY DEF Counted, CountedFor, BlockNo, Pieces
<1>2. Only(e, t, a)
  BY <1>1 DEF Only
<1>3. CountedFor(b, e, t, f)
  BY <1>2 DEF CountInv, Counted
<1>4. TypeInv /\ DateInv /\ ContextsHold
  BY DEF CountInv, IntactInv, ReassemblyInv
<1>5. CASE ReceiveWhole(y)
  BY <1>2, <1>3, <1>4, <1>5, ReceiveWholeCounts
<1>6. CASE ReceiveStray(y)
  BY <1>2, <1>3, <1>4, <1>6, ReceiveStrayCounts
<1>7. CASE ReceiveFragment(y)
  BY <1>2, <1>3, <1>4, <1>7, ReceiveFragmentCounts
<1>8. CASE RestartReceiver(y)
  BY <1>3, <1>4, <1>8, RestartReceiverCounts
<1>9. QED
  BY <1>5, <1>6, <1>7, <1>8

LEMMA CountInvKept ==
  ASSUME Clockless = {}, CountInv, [Next]_vars
  PROVE  CountInv'
<1>1. IntactInv'
  BY IntactInvKept DEF CountInv
<1>2. ASSUME UNCHANGED vars PROVE Counted'
  <2>1. UNCHANGED <<submitted, deliveries, reasm, received>>
    BY <1>2 DEF vars, link, receiver
  <2>2. QED
    BY <2>1, SenderCounts DEF CountInv
<1>3. ASSUME NEW e \in Stations,
             \/ \E a \in Adus : StartSend(e, a)
             \/ SubmitNext(e) \/ SubmitFails(e) \/ RunSucceeds(e) \/ RunFails(e)
             \/ Interrupt(e) \/ RunInterrupted(e)
      PROVE  Counted'
  <2>1. submitted \subseteq submitted' /\ UNCHANGED <<deliveries, receiver>>
    BY <1>3, SenderSteps DEF CountInv, IntactInv
  <2>2. QED
    BY <2>1, SenderCounts DEF CountInv, receiver
<1>4. ASSUME NEW e \in Stations,
             ReceiveWhole(e) \/ ReceiveStray(e) \/ ReceiveFragment(e) \/ RestartReceiver(e)
      PROVE  Counted'
  BY <1>4, ReceiverCounts
<1>5. Counted'
  BY <1>2, <1>3, <1>4 DEF Next
<1>6. QED
  BY <1>1, <1>5 DEF CountInv

LEMMA InitCounts == Init => CountInv
<1> SUFFICES ASSUME Init PROVE CountInv
  OBVIOUS
<1>1. /\ IntactInv /\ received = << >> /\ deliveries = << >>
      /\ \A b \in Stations : reasm[b] = Empty
  BY InitIntact DEF Init, Link!AbstractInit
<1>2. TypeInv
  BY <1>1 DEF IntactInv
<1>3. ASSUME NEW b \in Stations, NEW e, NEW t, NEW f PROVE CountedFor(b, e, t, f)
  <2>1. {i \in DOMAIN received :
           received[i].at = b /\ received[i].src = e /\ received[i].time = t} = {}
    BY <1>1
  <2>2. Handed(b, e, t) = 0
    BY <2>1, FS_EmptySet DEF Handed
  <2>3. Arrivals(b, f) \in Nat /\ Once(reasm[b], f) = 0
    BY <1>1, <1>2, ArrivalsFinite, EmptyHoldsNone
  <2>4. QED
    BY <2>2, <2>3 DEF CountedFor
<1>4. QED
  BY <1>1, <1>3 DEF CountInv, Counted

LEMMA CountSuffices == CountInv => EachHandoverTakesEveryBlock
<1> SUFFICES ASSUME CountInv, NEW b \in Stations, NEW r \in submitted
             PROVE  Handed(b, r.block.src, r.block.time) <= Arrivals(b, r.block)
  BY DEF EachHandoverTakesEveryBlock
<1>1. TypeInv /\ DateInv
  BY DEF CountInv, IntactInv
<1> DEFINE e == r.engine
           t == r.block.time
           a == r.block.adu
<1>2. e \in Stations /\ t \in Nat /\ a \in Adus /\ r.block.src = e
  BY <1>1, BlockSubmitted
<1>3. PICK k \in Pieces(a) : r.block = BlockNo(e, t, a, k)
  BY <1>1, BlockSubmitted
<1>4. Only(e, t, a)
  BY <1>1 DEF Only, DateInv, OneAdu
<1> HIDE DEF e, t, a
<1>5. CountedFor(b, e, t, r.block)
  BY <1>2, <1>3, <1>4 DEF CountInv, Counted
<1>6. /\ Handed(b, e, t) \in Nat /\ Arrivals(b, r.block) \in Nat
      /\ Once(reasm[b], r.block) \in {0, 1}
  BY <1>1, HandedFinite, ArrivalsFinite, OnceIsBit
<1>7. Handed(b, e, t) <= Arrivals(b, r.block)
  BY <1>5, <1>6 DEF CountedFor
<1>8. QED
  BY <1>2, <1>7 DEF t

\* Where every clock is past the DTN epoch, a bundle is handed over at most as often
\* as each of its blocks has arrived: no block is counted for two handovers, also
\* when blocks are delivered again (bp_recv_block_cb).
THEOREM HandoversTakeEveryBlock ==
  ASSUME Clockless = {}
  PROVE  Spec => []EachHandoverTakesEveryBlock
<1>1. CountInv /\ [Next]_vars => CountInv'
  BY CountInvKept
<1>2. QED
  BY <1>1, InitCounts, CountSuffices, PTL DEF Spec

=============================================================================

------------------------------ MODULE LtpProofs ------------------------------
(***************************************************************************)
(* Proofs about the engines of LtpEngine, for every value of its constants.*)
(* The last part is the sender's side of a session.                        *)
(***************************************************************************)
EXTENDS LtpProperties, WellFoundedInduction, TLAPS

\* The segments on their way to engine b.
InFlight(b) == Range(inbox[b])

----------------------------------------------------------------------------
(* The link                                                                *)

\* What is left after the oldest segment is read was there before.
LEMMA TailOfSeq ==
  ASSUME NEW S, NEW q \in Seq(S), q # << >>
  PROVE  /\ Tail(q) \in Seq(S)
         /\ Range(Tail(q)) \subseteq Range(q)
         /\ Head(q) \in Range(q)
         /\ Head(q) \in S
  BY SMT DEF Range

\* A concatenation holds what its parts hold.
LEMMA ConcatOfSeq ==
  ASSUME NEW S, NEW q \in Seq(S), NEW r \in Seq(S)
  PROVE  /\ q \o r \in Seq(S)
         /\ Range(q \o r) = Range(q) \cup Range(r)
<1>1. q \o r \in Seq(S)
  OBVIOUS
<1>2. Range(q \o r) \subseteq Range(q) \cup Range(r)
  BY SMT DEF Range
<1>3. ASSUME NEW x \in Range(q)
      PROVE  x \in Range(q \o r)
  BY <1>3, SMT DEF Range
<1>4. ASSUME NEW x \in Range(r)
      PROVE  x \in Range(q \o r)
  <2>1. PICK i \in 1 .. Len(r) : x = r[i]
    BY <1>4, SMT DEF Range
  <2>2. (q \o r)[Len(q) + i] = r[i] /\ Len(q) + i \in DOMAIN (q \o r)
    BY <2>1, SMT
  <2>3. QED
    BY <2>1, <2>2 DEF Range
<1>5. QED
  BY <1>1, <1>2, <1>3, <1>4

InboxType == inbox \in [Engines -> Seq(Segments)]

\* Writing segments adds them, and nothing else, to what is on its way to the
\* engines that hear the writer.
LEMMA TransmitLemma ==
  ASSUME InboxType, NEW e \in Engines, NEW out \in Seq(Segments), Transmit(e, out)
  PROVE  /\ InboxType'
         /\ \A b \in Engines : InFlight(b)' \subseteq
              InFlight(b) \cup (IF b \in Hears[e] THEN Range(out) ELSE {})
<1>1. ASSUME NEW b \in Engines
      PROVE  /\ inbox'[b] \in Seq(Segments)
             /\ Range(inbox'[b]) \subseteq
                  Range(inbox[b]) \cup (IF b \in Hears[e] THEN Range(out) ELSE {})
  <2>1. CASE b \in Hears[e]
    <3>1. inbox'[b] = inbox[b] \o out
      BY <2>1, <1>1 DEF Transmit
    <3>2. QED
      BY <2>1, <3>1, ConcatOfSeq DEF InboxType
  <2>2. CASE b \notin Hears[e]
    <3>1. inbox'[b] = inbox[b]
      BY <2>2, <1>1 DEF Transmit
    <3>2. QED
      BY <2>2, <3>1 DEF InboxType
  <2>3. QED
    BY <2>1, <2>2
<1>2. inbox' = [b \in Engines |-> inbox'[b]]
  BY DEF Transmit
<1>3. QED
  BY <1>1, <1>2 DEF InboxType, InFlight

\* So does reading the oldest segment and writing others.
LEMMA ExchangeLemma ==
  ASSUME InboxType, NEW e \in Engines, inbox[e] # << >>,
         NEW out \in Seq(Segments), Exchange(e, out)
  PROVE  /\ InboxType'
         /\ \A b \in Engines : InFlight(b)' \subseteq
              InFlight(b) \cup (IF b \in Hears[e] THEN Range(out) ELSE {})
         /\ Head(inbox[e]) \in InFlight(e)
         /\ Head(inbox[e]) \in Segments
<1>1. ASSUME NEW b \in Engines
      PROVE  /\ inbox'[b] \in Seq(Segments)
             /\ Range(inbox'[b]) \subseteq
                  Range(inbox[b]) \cup (IF b \in Hears[e] THEN Range(out) ELSE {})
  <2>1. CASE b = e
    <3>1. inbox'[b] = Tail(inbox[b])
      BY <2>1, <1>1 DEF Exchange
    <3>2. QED
      BY <2>1, <3>1, TailOfSeq DEF InboxType
  <2>2. CASE b # e /\ b \in Hears[e]
    <3>1. inbox'[b] = inbox[b] \o out
      BY <2>2, <1>1 DEF Exchange
    <3>2. QED
      BY <2>2, <3>1, ConcatOfSeq DEF InboxType
  <2>3. CASE b # e /\ b \notin Hears[e]
    <3>1. inbox'[b] = inbox[b]
      BY <2>3, <1>1 DEF Exchange
    <3>2. QED
      BY <2>3, <3>1 DEF InboxType
  <2>4. QED
    BY <2>1, <2>2, <2>3
<1>2. inbox' = [b \in Engines |-> inbox'[b]]
  BY DEF Exchange
<1>3. Head(inbox[e]) \in Range(inbox[e]) /\ Head(inbox[e]) \in Segments
  BY TailOfSeq DEF InboxType
<1>4. QED
  BY <1>1, <1>2, <1>3 DEF InboxType, InFlight


----------------------------------------------------------------------------
(* The operators on the tables keep their types                            *)

TimerTable == [TimerSlots -> Timers]

LEMMA StartTimerType ==
  ASSUME NEW ts \in TimerTable, NEW type \in {CheckpointTimer, ReportTimer, CancelTimer},
         NEW a \in Engines \cup {Zero}, NEW n \in Nat, NEW serial \in Nat
  PROVE  StartTimer(ts, type, a, n, serial) \in TimerTable
  BY DEF TimerTable, StartTimer, Timers

LEMMA NoTimerType == NoTimer \in Timers
  BY DEF NoTimer, Timers, CheckpointTimer

LEMMA StopTimerType ==
  ASSUME NEW ts \in TimerTable, NEW type, NEW n, NEW serial
  PROVE  StopTimer(ts, type, n, serial) \in TimerTable
  BY NoTimerType DEF TimerTable, StopTimer

LEMMA FreeTypes ==
  /\ FreeExport \in ExportSessions
  /\ FreeImport \in ImportSessions
  BY DEF FreeExport, FreeImport, ExportSessions, ImportSessions

\* An open export session holds a block and has a serial for its next checkpoint.
Usable(sess) == sess.active = 1 => sess.block \in Blocks /\ sess.nextCp >= 1

OpenExportsUsable ==
  \A e \in Engines : \A s \in ExportSlots : Usable(exports[e][s])

\* The tables of every engine are well formed.
Tables ==
  /\ exports \in [Engines -> [ExportSlots -> ExportSessions]]
  /\ imports \in [Engines -> [ImportSlots -> ImportSessions]]
  /\ timers \in [Engines -> TimerTable]
  /\ OpenExportsUsable

LEMMA ClosedType ==
  ASSUME NEW sess \in ExportSessions
  PROVE  /\ Cancelled(sess) \in ExportSessions
         /\ Cancelled(sess).active = sess.active
         /\ Cancelled(sess).number = sess.number
         /\ Cancelled(sess).nextCp = sess.nextCp
         /\ Cancelled(sess).block = sess.block
         /\ Closed(sess) \in ExportSessions
         /\ Closed(sess).active = 0
<1>1. /\ Cancelled(sess) \in ExportSessions
      /\ Cancelled(sess).active = sess.active
      /\ Cancelled(sess).number = sess.number
      /\ Cancelled(sess).nextCp = sess.nextCp
      /\ Cancelled(sess).block = sess.block
  BY DEF Cancelled, ExportSessions
<1>2. Closed(sess) \in ExportSessions /\ Closed(sess).active = 0
  BY <1>1 DEF Closed, ExportSessions
<1>3. QED
  BY <1>1, <1>2

LEMMA CancelExportType ==
  ASSUME Tables, NEW e \in Engines, NEW n, CancelExport(e, n)
  PROVE  /\ exports' \in [Engines -> [ExportSlots -> ExportSessions]]
         /\ OpenExportsUsable'
<1>1. ASSUME NEW s \in ExportSlots
      PROVE  Closed(exports[e][s]) \in ExportSessions /\ Closed(exports[e][s]).active = 0
  BY ClosedType DEF Tables
<1>2. exports' \in [Engines -> [ExportSlots -> ExportSessions]]
  BY <1>1 DEF CancelExport, Tables
<1>3. ASSUME NEW x \in Engines, NEW s \in ExportSlots, exports'[x][s].active = 1
      PROVE  exports'[x][s] = exports[x][s]
  <2>1. CASE x = e
    <3>1. exports'[e][s] = IF First(OpenExports(e, n), s)
                           THEN Closed(exports[e][s]) ELSE exports[e][s]
      BY DEF CancelExport, Tables
    <3>2. QED
      BY <2>1, <1>3, <1>1, <3>1
  <2>2. CASE x # e
    BY <2>2 DEF CancelExport, Tables
  <2>3. QED
    BY <2>1, <2>2
<1>4. OpenExportsUsable'
  BY <1>3 DEF Tables, OpenExportsUsable, Usable
<1>5. QED
  BY <1>2, <1>4

LEMMA AbandonImportType ==
  ASSUME Tables, NEW e \in Engines, NEW S \in SUBSET ImportSlots, AbandonImport(e, S),
         gaveUp \subseteq [at : Engines, from : Engines \cup {Zero}, number : Nat]
  PROVE  /\ imports' \in [Engines -> [ImportSlots -> ImportSessions]]
         /\ gaveUp' \subseteq [at : Engines, from : Engines \cup {Zero}, number : Nat]
<1>1. imports' \in [Engines -> [ImportSlots -> ImportSessions]]
  BY FreeTypes DEF AbandonImport, Tables
<1>2. ASSUME NEW s \in ImportSlots
      PROVE  [at |-> e, from |-> imports[e][s].engine, number |-> imports[e][s].number]
               \in [at : Engines, from : Engines \cup {Zero}, number : Nat]
  BY DEF Tables, ImportSessions
<1>3. QED
  BY <1>1, <1>2 DEF AbandonImport

----------------------------------------------------------------------------
(* What is written is a sequence of segments                               *)

LEMMA SingleSegment ==
  ASSUME NEW m \in Segments
  PROVE  /\ <<m>> \in Seq(Segments)
         /\ Range(<<m>>) = {m}
<1>1. <<m>> \in Seq(Segments)
  OBVIOUS
<1>2. DOMAIN <<m>> = {1} /\ <<m>>[1] = m
  OBVIOUS
<1>3. QED
  BY <1>1, <1>2 DEF Range

LEMMA NothingWritten ==
  << >> \in Seq(Segments) /\ Range(<< >>) = {}
  BY DEF Range

LEMMA TypeNumbers ==
  /\ DataTypes = {0, 1, 2} /\ CancelTypes = {12, 13, 14, 15}
  /\ RedData = 0 /\ RedDataCp = 1 /\ RedDataEorpCp = 2
  /\ Report = 8 /\ ReportAck = 9
  BY DEF DataTypes, CancelTypes, RedData, RedDataCp, RedDataEorpCp, Report, ReportAck,
         CancelBySender, CancelAckSender, CancelByRecvr, CancelAckRecvr

\* The type of a segment tells which of the four kinds it is.
LEMMA KindOfSegment ==
  ASSUME NEW m \in Segments
  PROVE  /\ m.from \in Engines /\ m.number \in Nat
         /\ m.type \in DataTypes => m \in DataSegments
         /\ m.type = Report => m \in ReportSegments
         /\ m.type = ReportAck => m \in ReportAckSegments
  BY TypeNumbers DEF Segments, DataSegments, ReportSegments, ReportAckSegments, CancelSegments

LEMMA NaturalProduct ==
  ASSUME NEW i \in Nat, NEW j \in Nat
  PROVE  i * j \in Nat
  BY SMT

\* Cutting a block gives data segments of that block, and the one that ends the
\* red part ends where the block ends.
LEMMA BlockSegmentsType ==
  ASSUME NEW e \in Engines, NEW n \in Nat, NEW b \in Blocks,
         NEW count \in 1 .. MaxBlock, SegmentCount(BlockLen[b], count)
  PROVE  /\ BlockSegments(e, n, b, count) \in Seq(DataSegments)
         /\ \A m \in Range(BlockSegments(e, n, b, count)) :
              /\ m.from = e /\ m.number = n /\ m.block = b
              /\ m.type \in {RedData, RedDataEorpCp}
              /\ m.type = RedDataEorpCp => m.offset + m.length = BlockLen[b]
<1> DEFINE out == BlockSegments(e, n, b, count)
<1>0. BlockLen[b] \in Nat /\ Mtu \in Nat /\ count \in Nat /\ MaxBlock \in Nat
  BY ConstantsAssumption
<1>1. ASSUME NEW k \in 1 .. count
      PROVE  /\ out[k] \in DataSegments
             /\ out[k].from = e /\ out[k].number = n /\ out[k].block = b
             /\ out[k].type \in {RedData, RedDataEorpCp}
             /\ out[k].type = RedDataEorpCp => out[k].offset + out[k].length = BlockLen[b]
  <2>1. (k - 1) * Mtu \in Nat
    BY <1>0, <1>1, NaturalProduct
  <2>2. k = count => BlockLen[b] - (k - 1) * Mtu \in Nat
    BY <1>0, <2>1 DEF SegmentCount
  <2>3. out[k] = [type |-> IF k = count THEN RedDataEorpCp ELSE RedData,
                  from |-> e, number |-> n,
                  offset |-> (k - 1) * Mtu,
                  length |-> IF k = count THEN BlockLen[b] - (k - 1) * Mtu ELSE Mtu,
                  cp |-> IF k = count THEN 1 ELSE 0,
                  block |-> b]
    BY <1>1 DEF BlockSegments
  <2> HIDE DEF out
  <2>4. CASE k = count
    <3>1. (k - 1) * Mtu + (BlockLen[b] - (k - 1) * Mtu) = BlockLen[b]
      BY <1>0, <2>1
    <3>2. QED
      BY <2>1, <2>2, <2>3, <2>4, <3>1, TypeNumbers DEF DataSegments
  <2>5. CASE k # count
    BY <1>0, <2>1, <2>3, <2>5, TypeNumbers DEF DataSegments
  <2>6. QED
    BY <2>4, <2>5
<1>2. DOMAIN out = 1 .. count /\ out = [k \in 1 .. count |-> out[k]]
  BY DEF BlockSegments
<1> HIDE DEF out
<1>3. out \in [1 .. count -> DataSegments]
  BY <1>1, <1>2
<1>4. out \in Seq(DataSegments)
  BY <1>0, <1>3
<1>5. QED
  BY <1>1, <1>2, <1>4 DEF Range, out

LEMMA FirstSegments ==
  ASSUME NEW out \in Seq(Segments), NEW k \in 0 .. Len(out)
  PROVE  /\ SubSeq(out, 1, k) \in Seq(Segments)
         /\ Range(SubSeq(out, 1, k)) \subseteq Range(out)
  BY SMT DEF Range

LEMMA TailCheckpointType ==
  ASSUME NEW e \in Engines, NEW sess \in ExportSessions, sess.block \in Blocks
  PROVE  /\ TailCheckpoint(e, sess) \in DataSegments
         /\ TailCheckpoint(e, sess).from = e
         /\ TailCheckpoint(e, sess).number = sess.number
         /\ TailCheckpoint(e, sess).block = sess.block
         /\ TailCheckpoint(e, sess).offset + TailCheckpoint(e, sess).length
              = BlockLen[sess.block]
<1>1. BlockLen[sess.block] \in Nat /\ Mtu \in Nat
  BY ConstantsAssumption
<1>2. QED
  BY <1>1, TypeNumbers DEF TailCheckpoint, DataSegments, ExportSessions

SentAgain(m, e, sess) ==
  /\ m.from = e /\ m.number = sess.number /\ m.block = sess.block
  /\ m.type # RedDataEorpCp

\* What a report makes an engine send again is data of the session's block, and
\* never an end of the red part.
LEMMA RetransmissionType ==
  ASSUME NEW e \in Engines, NEW sess \in ExportSessions, sess.block \in Blocks,
         NEW M \in SUBSET Offsets, NEW len \in Nat, NEW q \in [1 .. len -> Pieces(M)]
  PROVE  /\ Retransmission(e, sess, q) \in Seq(DataSegments)
         /\ \A m \in Range(Retransmission(e, sess, q)) : SentAgain(m, e, sess)
<1> DEFINE out == Retransmission(e, sess, q)
<1>0. Mtu \in Nat /\ MaxBlock \in Nat
  BY ConstantsAssumption
<1>1. ASSUME NEW k \in 1 .. len
      PROVE  /\ out[k] \in DataSegments
             /\ SentAgain(out[k], e, sess)
  <2>1. q[k] \in [offset : M, length : 1 .. Mtu]
    BY <1>1 DEF Pieces
  <2>a. q[k].offset \in M /\ q[k].length \in 1 .. Mtu
    BY <2>1
  <2>b. Offsets \subseteq Nat /\ 1 .. Mtu \subseteq Nat
    BY <1>0 DEF Offsets
  <2>2. q[k].offset \in Nat /\ q[k].length \in Nat
    BY <2>a, <2>b
  <2>3. out[k] = [type |-> IF k = Len(q) THEN RedDataCp ELSE RedData,
                  from |-> e, number |-> sess.number,
                  offset |-> q[k].offset, length |-> q[k].length,
                  cp |-> IF k = Len(q) THEN sess.nextCp ELSE 0,
                  block |-> sess.block]
    BY <1>1 DEF Retransmission
  <2> HIDE DEF out
  <2>4. QED
    BY <2>2, <2>3, TypeNumbers DEF DataSegments, ExportSessions, SentAgain
<1>2. DOMAIN out = 1 .. len /\ out = [k \in 1 .. len |-> out[k]]
  BY DEF Retransmission
<1> HIDE DEF out
<1>3. out \in [1 .. len -> DataSegments]
  BY <1>1, <1>2
<1>4. out \in Seq(DataSegments)
  BY <1>3
<1>5. QED
  BY <1>1, <1>2, <1>4 DEF Range, out

LEMMA MissingInBlock ==
  ASSUME NEW r, NEW l
  PROVE  Missing(r, l) \in SUBSET Offsets
  BY DEF Missing

LEMMA AnswerTypes ==
  ASSUME NEW e \in Engines, NEW n \in Nat
  PROVE  /\ \A type \in CancelTypes : Cancel(type, e, n) \in Segments
         /\ \A type : Cancel(type, e, n).type = type
  BY DEF Cancel, Segments, CancelSegments

LEMMA AckType ==
  ASSUME NEW e \in Engines, NEW r \in ReportSegments
  PROVE  AckOf(e, r) \in Segments /\ AckOf(e, r).type = ReportAck
  BY DEF AckOf, Segments, ReportAckSegments, ReportSegments

LEMMA ReportOnType ==
  ASSUME NEW e \in Engines, NEW sess \in ImportSessions, NEW rpt \in Nat, NEW cp \in Nat,
         NEW upper \in Nat
  PROVE  /\ ReportOn(e, sess, rpt, cp, upper) \in Segments
         /\ ReportOn(e, sess, rpt, cp, upper).type = Report
  BY DEF ReportOn, Segments, ReportSegments, ImportSessions, Claims
LEMMA DataIsSegments ==
  ASSUME NEW out \in Seq(DataSegments)
  PROVE  out \in Seq(Segments)
  BY DEF Segments

----------------------------------------------------------------------------
(* Import sessions                                                         *)

LEMMA NewImportType ==
  ASSUME NEW m \in DataSegments
  PROVE  /\ NewImport(m) \in ImportSessions
         /\ NewImport(m).active = 1 /\ NewImport(m).engine = m.from
         /\ NewImport(m).number = m.number /\ NewImport(m).blockLen = 0
         /\ \A o \in Offsets : NewImport(m).got[o] = Gap
  BY DEF NewImport, ImportSessions, DataSegments

LEMMA AbsorbType ==
  ASSUME NEW sess \in ImportSessions, NEW m \in DataSegments
  PROVE  /\ Absorb(sess, m) \in ImportSessions
         /\ Absorb(sess, m).active = sess.active
         /\ Absorb(sess, m).engine = sess.engine
         /\ Absorb(sess, m).number = sess.number
         /\ Absorb(sess, m).nextRpt = sess.nextRpt
         /\ Absorb(sess, m).blockLen =
              IF m.type = RedDataEorpCp THEN m.offset + m.length ELSE sess.blockLen
         /\ \A o \in Offsets : Absorb(sess, m).got[o] \in {sess.got[o], Byte(m.block, o)}
<1> DEFINE got == [o \in Offsets |->
                     IF o \in Span(m) /\ Claimable(Claims(sess), m)
                     THEN Byte(m.block, o) ELSE sess.got[o]]
           cop == Copied(sess, m)
<1>1. \A o \in Offsets : Byte(m.block, o) \in Blocks \cup {Zero}
  BY DEF Byte, DataSegments
<1>2. got \in [Offsets -> Blocks \cup {Zero, Gap}]
  BY <1>1 DEF ImportSessions
<1>3. cop = [sess EXCEPT !.got = got]
  BY DEF Copied
<1>4. \A o \in Offsets : got[o] \in {sess.got[o], Byte(m.block, o)}
  OBVIOUS
<1> HIDE DEF got, cop
<1>5. /\ cop \in ImportSessions
      /\ cop.active = sess.active /\ cop.engine = sess.engine
      /\ cop.number = sess.number /\ cop.nextRpt = sess.nextRpt
      /\ cop.blockLen = sess.blockLen /\ cop.got = got
  BY <1>2, <1>3 DEF ImportSessions
<1>6. Absorb(sess, m) = IF m.type = RedDataEorpCp
                        THEN [cop EXCEPT !.blockLen = m.offset + m.length] ELSE cop
  BY DEF Absorb, cop
<1>7. m.offset + m.length \in Nat
  BY DEF DataSegments
<1>8. CASE m.type = RedDataEorpCp
  <2>1. Absorb(sess, m) = [cop EXCEPT !.blockLen = m.offset + m.length]
    BY <1>6, <1>8
  <2>2. /\ Absorb(sess, m) \in ImportSessions
        /\ Absorb(sess, m).active = cop.active /\ Absorb(sess, m).engine = cop.engine
        /\ Absorb(sess, m).number = cop.number /\ Absorb(sess, m).nextRpt = cop.nextRpt
        /\ Absorb(sess, m).blockLen = m.offset + m.length
        /\ Absorb(sess, m).got = cop.got
    BY <1>5, <1>7, <2>1 DEF ImportSessions
  <2>3. QED
    BY <1>4, <1>5, <1>8, <2>2
<1>9. CASE m.type # RedDataEorpCp
  BY <1>4, <1>5, <1>6, <1>9
<1>10. QED
  BY <1>8, <1>9

\* The session a data segment goes to belongs to the segment's sender.
LEMMA DataSessionType ==
  ASSUME Tables, NEW e \in Engines, NEW m \in DataSegments, NEW s \in ImportSlots,
         DataSlot(e, m, s)
  PROVE  /\ DataSession(e, m, s) \in ImportSessions
         /\ DataSession(e, m, s).active = 1
         /\ DataSession(e, m, s).engine = m.from
         /\ DataSession(e, m, s).number = m.number
         /\ \/ imports[e][s].active = 1 /\ DataSession(e, m, s) = imports[e][s]
            \/ imports[e][s].active = 0 /\ DataSession(e, m, s) = NewImport(m)
<1>1. imports[e][s] \in ImportSessions
  BY DEF Tables
<1>2. CASE OpenImports(e, m.from, m.number) # {}
  BY <1>1, <1>2 DEF DataSlot, First, OpenImports, DataSession
<1>3. CASE OpenImports(e, m.from, m.number) = {}
  <2>1. imports[e][s].active = 0
    BY <1>3 DEF DataSlot, First, FreeImports
  <2>2. DataSession(e, m, s) = NewImport(m)
    BY <2>1 DEF DataSession
  <2>3. QED
    BY <2>1, <2>2, NewImportType
<1>4. QED
  BY <1>2, <1>3

\* A block is delivered at its full length.
LEMMA DeliverType ==
  ASSUME Tables, delivered \in Seq(Deliveries), NEW e \in Engines, NEW s \in ImportSlots,
         NEW sess \in ImportSessions, sess.engine \in Engines, StoreOrDeliver(e, s, sess)
  PROVE  /\ imports' \in [Engines -> [ImportSlots -> ImportSessions]]
         /\ delivered' \in Seq(Deliveries)
<1>0. PICK x \in ImportSessions : imports' = [imports EXCEPT ![e][s] = x]
  BY FreeTypes DEF StoreOrDeliver
<1>1. imports' \in [Engines -> [ImportSlots -> ImportSessions]]
  BY <1>0 DEF Tables
<1>2. CASE Complete(sess)
  <2> DEFINE dat == [o \in 0 .. (sess.blockLen - 1) |-> sess.got[o]]
             d == [at |-> e, from |-> sess.engine, number |-> sess.number, data |-> dat]
  <2>1. MaxBlock \in Nat /\ sess.blockLen \in Nat
    BY ConstantsAssumption DEF ImportSessions
  <2>2. PICK k \in 1 .. MaxBlock : k >= sess.blockLen /\ Claims(sess) = 0 .. (k - 1)
    BY <1>2 DEF Complete, CoversFromZero
  <2>3. sess.blockLen \in 1 .. MaxBlock
    BY <1>2, <2>1, <2>2 DEF Complete
  <2>4. dat \in [0 .. (sess.blockLen - 1) -> Blocks \cup {Zero, Gap}]
    <3>1. ASSUME NEW o \in 0 .. (sess.blockLen - 1)
          PROVE  sess.got[o] \in Blocks \cup {Zero, Gap}
      BY <2>1, <2>3 DEF ImportSessions, Offsets
    <3>2. QED
      BY <3>1
  <2>5. d \in Deliveries
    <3> HIDE DEF dat
    <3>1. dat \in UNION {[0 .. (l - 1) -> Blocks \cup {Zero, Gap}] : l \in 1 .. MaxBlock}
      BY <2>3, <2>4
    <3>2. QED
      BY <3>1 DEF Deliveries, ImportSessions
  <2>6. delivered' = Append(delivered, d)
    BY <1>2 DEF StoreOrDeliver
  <2> HIDE DEF d
  <2>7. QED
    BY <1>1, <2>5, <2>6
<1>3. CASE ~ Complete(sess)
  BY <1>1, <1>3 DEF StoreOrDeliver
<1>4. QED
  BY <1>2, <1>3
----------------------------------------------------------------------------
(* Type correctness                                                        *)

\* TypeOK as it is inductive: what is sent again is cut from the block of an open
\* session.
TypeInv == TypeOK /\ OpenExportsUsable

LEMMA TypeInvTables ==
  TypeInv => Tables /\ InboxType
  BY DEF TypeInv, TypeOK, Tables, InboxType, TimerTable

LEMMA InitTypes == Init => TypeInv
<1> SUFFICES ASSUME Init PROVE TypeInv
  OBVIOUS
<1>1. /\ exports \in [Engines -> [ExportSlots -> ExportSessions]]
      /\ imports \in [Engines -> [ImportSlots -> ImportSessions]]
      /\ timers \in [Engines -> [TimerSlots -> Timers]]
  BY FreeTypes, NoTimerType DEF Init
<1>2. OpenExportsUsable
  BY DEF Init, OpenExportsUsable, Usable, FreeExport
<1>3. /\ next \in [Engines -> Nat \ {0}] /\ waiting \in [Engines -> Nat]
      /\ inbox \in [Engines -> Seq(Segments)]
      /\ sent = {} /\ gaveUp = {} /\ outcome = {} /\ delivered \in Seq(Deliveries)
  BY DEF Init
<1>4. QED
  BY <1>1, <1>2, <1>3 DEF TypeInv, TypeOK

\* The session that ltp_segment_block opens.
LEMMA OpenExportType ==
  ASSUME TypeInv, NEW e \in Engines, NEW b \in Blocks, NEW s \in ExportSlots,
         OpenExport(e, b, s)
  PROVE  /\ exports' \in [Engines -> [ExportSlots -> ExportSessions]]
         /\ OpenExportsUsable'
         /\ next' \in [Engines -> Nat \ {0}]
         /\ sent' \subseteq [engine : Engines, number : Nat, block : Blocks]
         /\ next[e] \in Nat \ {0}
<1> DEFINE x == [active |-> 1, number |-> next[e], block |-> b, nextCp |-> 2,
                 completed |-> 0, cancelled |-> 0]
<1>1. next[e] \in Nat \ {0} /\ next[e] + 1 \in Nat \ {0}
  BY DEF TypeInv, TypeOK
<1>2. x \in ExportSessions /\ Usable(x)
  BY <1>1 DEF ExportSessions, Usable
<1>3. exports' = [exports EXCEPT ![e][s] = x]
  BY DEF OpenExport
<1> HIDE DEF x
<1>4. exports' \in [Engines -> [ExportSlots -> ExportSessions]]
  BY <1>2, <1>3 DEF TypeInv, TypeOK
<1>5. OpenExportsUsable'
  <2>1. ASSUME NEW e1 \in Engines, NEW s1 \in ExportSlots
        PROVE  Usable(exports'[e1][s1])
    <3>1. exports'[e1][s1] = IF e1 = e /\ s1 = s THEN x ELSE exports[e1][s1]
      BY <1>3 DEF TypeInv, TypeOK
    <3>2. QED
      BY <3>1, <1>2 DEF TypeInv, OpenExportsUsable
  <2>2. QED
    BY <2>1 DEF OpenExportsUsable
<1>6. next' \in [Engines -> Nat \ {0}]
  BY <1>1 DEF OpenExport, TypeInv, TypeOK
<1>7. sent' \subseteq [engine : Engines, number : Nat, block : Blocks]
  BY <1>1 DEF OpenExport, TypeInv, TypeOK
<1>8. QED
  BY <1>1, <1>4, <1>5, <1>6, <1>7

LEMMA SendBlockTypes ==
  ASSUME TypeInv, NEW e \in Engines, NEW b \in Blocks, SendBlock(e, b)
  PROVE  TypeInv'
<1>1. PICK s \in ExportSlots, count \in 1 .. MaxBlock :
        /\ SegmentCount(BlockLen[b], count)
        /\ OpenExport(e, b, s)
        /\ Transmit(e, BlockSegments(e, next[e], b, count))
        /\ timers' = [timers EXCEPT ![e] = StartTimer(@, CheckpointTimer, e, next[e], 1)]
        /\ waiting' = [waiting EXCEPT ![e] = next[e]]
        /\ UNCHANGED <<imports, delivered, gaveUp, outcome>>
  BY DEF SendBlock
<1>2. /\ exports' \in [Engines -> [ExportSlots -> ExportSessions]]
      /\ OpenExportsUsable'
      /\ next' \in [Engines -> Nat \ {0}]
      /\ sent' \subseteq [engine : Engines, number : Nat, block : Blocks]
      /\ next[e] \in Nat \ {0}
  BY <1>1, OpenExportType
<1>a. BlockSegments(e, next[e], b, count) \in Seq(Segments)
  BY <1>1, <1>2, BlockSegmentsType, DataIsSegments
<1>3. inbox' \in [Engines -> Seq(Segments)]
  BY <1>1, <1>a, TypeInvTables, TransmitLemma DEF InboxType
<1>4. timers[e] \in TimerTable
  BY DEF TypeInv, TypeOK, TimerTable
<1>5. StartTimer(timers[e], CheckpointTimer, e, next[e], 1) \in TimerTable
  BY <1>2, <1>4, StartTimerType
<1>6. timers' \in [Engines -> [TimerSlots -> Timers]]
  BY <1>1, <1>5 DEF TimerTable, TypeInv, TypeOK
<1>7. waiting' \in [Engines -> Nat]
  BY <1>1, <1>2 DEF TypeInv, TypeOK
<1>8. QED
  BY <1>1, <1>2, <1>3, <1>6, <1>7 DEF TypeInv, TypeOK

LEMMA SendBlockFailsTypes ==
  ASSUME TypeInv, NEW e \in Engines, NEW b \in Blocks, SendBlockFails(e, b)
  PROVE  TypeInv'
<1>0. PICK s \in ExportSlots, count \in 1 .. MaxBlock : \E k \in 0 .. (count - 1) :
        /\ SegmentCount(BlockLen[b], count)
        /\ OpenExport(e, b, s)
        /\ Transmit(e, SubSeq(BlockSegments(e, next[e], b, count), 1, k))
        /\ UNCHANGED <<imports, timers, waiting, delivered, gaveUp, outcome>>
  BY DEF SendBlockFails
<1>1. PICK k \in 0 .. (count - 1) :
        /\ SegmentCount(BlockLen[b], count)
        /\ OpenExport(e, b, s)
        /\ Transmit(e, SubSeq(BlockSegments(e, next[e], b, count), 1, k))
        /\ UNCHANGED <<imports, timers, waiting, delivered, gaveUp, outcome>>
  BY <1>0
<1>2. /\ exports' \in [Engines -> [ExportSlots -> ExportSessions]]
      /\ OpenExportsUsable'
      /\ next' \in [Engines -> Nat \ {0}]
      /\ sent' \subseteq [engine : Engines, number : Nat, block : Blocks]
      /\ next[e] \in Nat \ {0}
  BY <1>1, OpenExportType
<1> DEFINE out == BlockSegments(e, next[e], b, count)
<1>3. out \in Seq(Segments)
  BY <1>1, <1>2, BlockSegmentsType, DataIsSegments
<1>4. Len(out) = count
  BY ConstantsAssumption DEF BlockSegments
<1> HIDE DEF out
<1>5. SubSeq(out, 1, k) \in Seq(Segments)
  BY <1>3, <1>4, FirstSegments, ConstantsAssumption
<1>6. inbox' \in [Engines -> Seq(Segments)]
  BY <1>1, <1>5, TypeInvTables, TransmitLemma DEF InboxType, out
<1>7. QED
  BY <1>1, <1>2, <1>6 DEF TypeInv, TypeOK

LEMMA ReturnTypes ==
  ASSUME TypeInv, NEW e \in Engines, Return(e)
  PROVE  TypeInv'
<1>1. PICK s \in ExportSlots :
        outcome' = outcome \cup
          {[engine |-> e, number |-> waiting[e], ok |-> exports[e][s].completed]}
  BY DEF Return
<1>2. waiting[e] \in Nat /\ exports[e][s].completed \in {0, 1}
  BY DEF TypeInv, TypeOK, ExportSessions
<1>3. outcome' \subseteq [engine : Engines, number : Nat, ok : {0, 1}]
  BY <1>1, <1>2 DEF TypeInv, TypeOK
<1>4. waiting' \in [Engines -> Nat]
  BY DEF Return, TypeInv, TypeOK
<1>5. UNCHANGED <<exports, imports, timers, next, inbox, sent, delivered, gaveUp>>
  BY DEF Return
<1>6. QED
  BY <1>3, <1>4, <1>5 DEF TypeInv, TypeOK, OpenExportsUsable
\* An export session may change as long as it stays usable.
LEMMA UpdateExportType ==
  ASSUME TypeInv, NEW e \in Engines, NEW s \in ExportSlots, NEW x \in ExportSessions,
         exports' = [exports EXCEPT ![e][s] = x],
         Usable(x)
  PROVE  /\ exports' \in [Engines -> [ExportSlots -> ExportSessions]]
         /\ OpenExportsUsable'
<1>1. exports' \in [Engines -> [ExportSlots -> ExportSessions]]
  BY DEF TypeInv, TypeOK
<1>2. ASSUME NEW e1 \in Engines, NEW s1 \in ExportSlots
      PROVE  Usable(exports'[e1][s1])
  <2>1. exports'[e1][s1] = IF e1 = e /\ s1 = s THEN x ELSE exports[e1][s1]
    BY DEF TypeInv, TypeOK
  <2>2. QED
    BY <2>1 DEF TypeInv, OpenExportsUsable
<1>3. QED
  BY <1>1, <1>2 DEF OpenExportsUsable

LEMMA DroppedDataTypes ==
  ASSUME TypeInv, NEW e \in Engines,
         ReceiveDataNoSlot(e) \/ ReceiveReportUnknown(e)
  PROVE  TypeInv'
<1>1. Exchange(e, << >>) /\ inbox[e] # << >> /\ UNCHANGED <<tables, history>>
  BY DEF ReceiveDataNoSlot, ReceiveReportUnknown, Incoming
<1>2. inbox' \in [Engines -> Seq(Segments)]
  BY <1>1, NothingWritten, TypeInvTables, ExchangeLemma DEF InboxType
<1>3. QED
  BY <1>1, <1>2 DEF TypeInv, TypeOK, OpenExportsUsable, tables, history

\* The segment at the head of an inbox.
LEMMA HeadType ==
  ASSUME TypeInv, NEW e \in Engines, inbox[e] # << >>
  PROVE  Head(inbox[e]) \in Segments
  BY TailOfSeq DEF TypeInv, TypeOK

LEMMA ReceiveRedDataTypes ==
  ASSUME TypeInv, NEW e \in Engines, ReceiveRedData(e)
  PROVE  TypeInv'
<1> DEFINE m == Head(inbox[e])
<1>1. inbox[e] # << >> /\ m \in DataSegments
  BY HeadType, KindOfSegment, TypeNumbers DEF ReceiveRedData, Incoming
<1>2. PICK s \in ImportSlots :
        /\ DataSlot(e, m, s)
        /\ Exchange(e, << >>)
        /\ StoreOrDeliver(e, s, Absorb(DataSession(e, m, s), m))
  BY DEF ReceiveRedData
<1>3. inbox' \in [Engines -> Seq(Segments)]
  BY <1>1, <1>2, NothingWritten, TypeInvTables, ExchangeLemma DEF InboxType
<1> DEFINE sess == Absorb(DataSession(e, m, s), m)
<1>4. sess \in ImportSessions /\ sess.engine \in Engines
  BY <1>1, <1>2, TypeInvTables, DataSessionType, AbsorbType DEF DataSegments
<1> HIDE DEF m, sess
<1>5. /\ imports' \in [Engines -> [ImportSlots -> ImportSessions]]
      /\ delivered' \in Seq(Deliveries)
  BY <1>2, <1>4, TypeInvTables, DeliverType DEF TypeInv, TypeOK, sess
<1>6. UNCHANGED <<exports, timers, next, waiting, sent, gaveUp, outcome>>
  BY DEF ReceiveRedData
<1>7. QED
  BY <1>3, <1>5, <1>6 DEF TypeInv, TypeOK, OpenExportsUsable

\* The session of a checkpoint once the report on it is numbered.
LEMMA NumberedSession ==
  ASSUME NEW sess \in ImportSessions
  PROVE  /\ [sess EXCEPT !.nextRpt = @ + 1] \in ImportSessions
         /\ [sess EXCEPT !.nextRpt = @ + 1].engine = sess.engine
         /\ [sess EXCEPT !.nextRpt = @ + 1].number = sess.number
         /\ [sess EXCEPT !.nextRpt = @ + 1].active = sess.active
         /\ [sess EXCEPT !.nextRpt = @ + 1].blockLen = sess.blockLen
         /\ [sess EXCEPT !.nextRpt = @ + 1].got = sess.got
  BY DEF ImportSessions

LEMMA ReceiveCheckpointTypes ==
  ASSUME TypeInv, NEW e \in Engines, ReceiveCheckpoint(e)
  PROVE  TypeInv'
<1> DEFINE m == Head(inbox[e])
           Sess(s) == Absorb(DataSession(e, m, s), m)
           Upper(s) == IF Sess(s).blockLen > 0 THEN Sess(s).blockLen ELSE m.offset + m.length
<1>1. inbox[e] # << >> /\ m \in DataSegments
  BY HeadType, KindOfSegment, TypeNumbers DEF ReceiveCheckpoint, Incoming
<1>2. PICK s \in ImportSlots :
        /\ DataSlot(e, m, s)
        /\ Exchange(e, <<ReportOn(e, Sess(s), Sess(s).nextRpt, m.cp, Upper(s))>>)
        /\ timers' = [timers EXCEPT ![e] =
             StartTimer(@, ReportTimer, Sess(s).engine, Sess(s).number, Sess(s).nextRpt)]
        /\ StoreOrDeliver(e, s, [Sess(s) EXCEPT !.nextRpt = @ + 1])
  BY DEF ReceiveCheckpoint
<1> DEFINE sess == Sess(s)
           upper == Upper(s)
<1>3. sess \in ImportSessions /\ sess.engine \in Engines
  <2> DEFINE before == DataSession(e, m, s)
  <2>1. m \in DataSegments /\ DataSlot(e, m, s) /\ Tables
    BY <1>1, <1>2, TypeInvTables
  <2>2. m.from \in Engines
    BY <2>1 DEF DataSegments
  <2> HIDE DEF m
  <2>3. before \in ImportSessions /\ before.engine = m.from
    BY <2>1, DataSessionType
  <2>4. sess = Absorb(before, m)
    OBVIOUS
  <2> HIDE DEF before, Sess, sess
  <2>5. QED
    BY <2>1, <2>2, <2>3, <2>4, AbsorbType
<1>4. sess.nextRpt \in Nat /\ sess.number \in Nat /\ sess.blockLen \in Nat
  BY <1>3 DEF ImportSessions
<1>5. m.cp \in Nat /\ m.offset \in Nat /\ m.length \in Nat
  BY <1>1 DEF DataSegments
<1>19. upper = IF sess.blockLen > 0 THEN sess.blockLen ELSE m.offset + m.length
  OBVIOUS
<1>6. Exchange(e, <<ReportOn(e, sess, sess.nextRpt, m.cp, upper)>>)
  BY <1>2
<1>7. timers' = [timers EXCEPT ![e] =
                   StartTimer(@, ReportTimer, sess.engine, sess.number, sess.nextRpt)]
  BY <1>2
<1>8. StoreOrDeliver(e, s, [sess EXCEPT !.nextRpt = @ + 1])
  BY <1>2
<1> HIDE DEF m, Sess, Upper, sess, upper
<1>20. upper \in Nat
  BY <1>4, <1>5, <1>19
<1>9. ReportOn(e, sess, sess.nextRpt, m.cp, upper) \in Segments
  BY <1>3, <1>4, <1>5, <1>20, ReportOnType
<1>10. inbox' \in [Engines -> Seq(Segments)]
  BY <1>1, <1>6, <1>9, SingleSegment, TypeInvTables, ExchangeLemma DEF InboxType
<1>11. timers[e] \in TimerTable
  BY DEF TypeInv, TypeOK, TimerTable
<1>12. StartTimer(timers[e], ReportTimer, sess.engine, sess.number, sess.nextRpt) \in TimerTable
  BY <1>3, <1>4, <1>11, StartTimerType
<1>13. timers' \in [Engines -> [TimerSlots -> Timers]]
  BY <1>7, <1>12 DEF TimerTable, TypeInv, TypeOK
<1> DEFINE x == [sess EXCEPT !.nextRpt = @ + 1]
<1>14. x \in ImportSessions /\ x.engine \in Engines
  BY <1>3, NumberedSession
<1>15. StoreOrDeliver(e, s, x)
  BY <1>8
<1> HIDE DEF x
<1>16. /\ imports' \in [Engines -> [ImportSlots -> ImportSessions]]
       /\ delivered' \in Seq(Deliveries)
  BY <1>14, <1>15, TypeInvTables, DeliverType DEF TypeInv, TypeOK
<1>17. UNCHANGED <<exports, next, waiting, sent, gaveUp, outcome>>
  BY DEF ReceiveCheckpoint
<1>18. QED
  BY <1>10, <1>13, <1>16, <1>17 DEF TypeInv, TypeOK, OpenExportsUsable

LEMMA ReceiveReportFullTypes ==
  ASSUME TypeInv, NEW e \in Engines, ReceiveReportFull(e)
  PROVE  TypeInv'
<1> DEFINE r == Head(inbox[e])
<1>1. inbox[e] # << >> /\ r \in ReportSegments
  BY HeadType, KindOfSegment DEF ReceiveReportFull, Incoming
<1>2. PICK s \in ExportSlots :
        /\ Exchange(e, <<AckOf(e, r)>>)
        /\ timers' = [timers EXCEPT ![e] = StopTimer(@, CheckpointTimer, r.number, r.cp)]
        /\ exports' = [exports EXCEPT ![e][s].completed = 1]
  BY DEF ReceiveReportFull
<1>3. inbox' \in [Engines -> Seq(Segments)]
  BY <1>1, <1>2, AckType, SingleSegment, TypeInvTables, ExchangeLemma DEF InboxType
<1>4. timers[e] \in TimerTable
  BY DEF TypeInv, TypeOK, TimerTable
<1>5. timers' \in [Engines -> [TimerSlots -> Timers]]
  BY <1>2, <1>4, StopTimerType DEF TimerTable, TypeInv, TypeOK
<1> DEFINE x == [exports[e][s] EXCEPT !.completed = 1]
<1>6. x \in ExportSessions /\ Usable(x)
  <2>1. exports[e][s] \in ExportSessions /\ Usable(exports[e][s])
    BY DEF TypeInv, TypeOK, OpenExportsUsable
  <2>2. QED
    BY <2>1 DEF ExportSessions, Usable
<1>7. exports' = [exports EXCEPT ![e][s] = x]
  BY <1>2 DEF TypeInv, TypeOK
<1> HIDE DEF x
<1>8. exports' \in [Engines -> [ExportSlots -> ExportSessions]] /\ OpenExportsUsable'
  BY <1>6, <1>7, UpdateExportType
<1>9. UNCHANGED <<imports, next, waiting, history>>
  BY DEF ReceiveReportFull
<1>10. QED
  BY <1>3, <1>5, <1>8, <1>9 DEF TypeInv, TypeOK, history
\* The report and what it makes the engine send again.
LEMMA ReceiveReportPartialTypes ==
  ASSUME TypeInv, NEW e \in Engines, ReceiveReportPartial(e)
  PROVE  TypeInv'
<1> DEFINE r == Head(inbox[e])
<1>1. inbox[e] # << >> /\ r \in ReportSegments
  BY HeadType, KindOfSegment DEF ReceiveReportPartial, Incoming
<1>2. PICK s \in ExportSlots, len \in 0 .. MaxBlock :
        LET sess == exports[e][s]
            pieces == Pieces(Missing(r, BlockLen[sess.block]))
        IN
        /\ First(OpenExports(e, r.number), s)
        /\ \E q \in [1 .. len -> pieces] :
             LET cp == IF len > 0 THEN sess.nextCp + 1 ELSE sess.nextCp IN
             /\ Exchange(e, <<AckOf(e, r)>> \o Retransmission(e, sess, q))
             /\ exports' = [exports EXCEPT ![e][s].nextCp = cp]
             /\ timers' = [timers EXCEPT ![e] =
                  StartTimer(StopTimer(@, CheckpointTimer, r.number, r.cp),
                             CheckpointTimer, e, r.number, cp - 1)]
  BY ZenonT(60) DEF ReceiveReportPartial
<1> DEFINE sess == exports[e][s]
           M == Missing(r, BlockLen[sess.block])
           cp == IF len > 0 THEN sess.nextCp + 1 ELSE sess.nextCp
<1>3. PICK q \in [1 .. len -> Pieces(M)] :
        /\ Exchange(e, <<AckOf(e, r)>> \o Retransmission(e, sess, q))
        /\ exports' = [exports EXCEPT ![e][s].nextCp = cp]
        /\ timers' = [timers EXCEPT ![e] =
             StartTimer(StopTimer(@, CheckpointTimer, r.number, r.cp),
                        CheckpointTimer, e, r.number, cp - 1)]
  BY <1>2
<1>4. sess \in ExportSessions /\ sess.active = 1
  BY <1>2 DEF TypeInv, TypeOK, First, OpenExports
<1>5. sess.block \in Blocks /\ sess.nextCp >= 1
  BY <1>4 DEF TypeInv, OpenExportsUsable, Usable
<1>6. len \in Nat /\ M \in SUBSET Offsets
  BY ConstantsAssumption, MissingInBlock
<1> DEFINE x == [sess EXCEPT !.nextCp = cp]
<1>7. exports' = [exports EXCEPT ![e][s] = x]
  BY <1>3 DEF TypeInv, TypeOK
<1>8. cp \in Nat /\ cp >= 1
  BY SMTT(30), <1>4, <1>5 DEF ExportSessions
<1> HIDE DEF r, sess, M, cp
<1>9. x \in ExportSessions /\ Usable(x)
  BY <1>4, <1>5, <1>8 DEF ExportSessions, Usable
<1> HIDE DEF x
<1>10. exports' \in [Engines -> [ExportSlots -> ExportSessions]] /\ OpenExportsUsable'
  BY <1>7, <1>9, UpdateExportType
<1>11. /\ <<AckOf(e, r)>> \in Seq(Segments)
       /\ Retransmission(e, sess, q) \in Seq(Segments)
  BY <1>1, <1>4, <1>5, <1>6, AckType, SingleSegment, RetransmissionType, DataIsSegments
<1>12. <<AckOf(e, r)>> \o Retransmission(e, sess, q) \in Seq(Segments)
  BY <1>11, ConcatOfSeq
<1>13. inbox' \in [Engines -> Seq(Segments)]
  BY <1>1, <1>3, <1>12, TypeInvTables, ExchangeLemma DEF InboxType
<1>14. timers' \in [Engines -> [TimerSlots -> Timers]]
  <2>1. timers[e] \in TimerTable
    BY DEF TypeInv, TypeOK, TimerTable
  <2>2. StopTimer(timers[e], CheckpointTimer, r.number, r.cp) \in TimerTable
    BY <2>1, StopTimerType
  <2>3. cp - 1 \in Nat /\ r.number \in Nat
    BY <1>1, <1>8 DEF ReportSegments
  <2>4. StartTimer(StopTimer(timers[e], CheckpointTimer, r.number, r.cp),
                   CheckpointTimer, e, r.number, cp - 1) \in TimerTable
    BY <2>2, <2>3, StartTimerType
  <2>5. QED
    BY <1>3, <2>4 DEF TimerTable, TypeInv, TypeOK
<1>15. UNCHANGED <<imports, next, waiting, history>>
  BY DEF ReceiveReportPartial
<1>16. QED
  BY <1>10, <1>13, <1>14, <1>15 DEF TypeInv, TypeOK, history

LEMMA ReceiveReportAckTypes ==
  ASSUME TypeInv, NEW e \in Engines, ReceiveReportAck(e)
  PROVE  TypeInv'
<1>1. inbox[e] # << >> /\ Exchange(e, << >>)
  BY DEF ReceiveReportAck, Incoming
<1>2. inbox' \in [Engines -> Seq(Segments)]
  BY <1>1, NothingWritten, TypeInvTables, ExchangeLemma DEF InboxType
<1>3. timers[e] \in TimerTable
  BY DEF TypeInv, TypeOK, TimerTable
<1>4. timers' \in [Engines -> [TimerSlots -> Timers]]
  BY <1>3, StopTimerType DEF ReceiveReportAck, TimerTable, TypeInv, TypeOK
<1>5. UNCHANGED <<exports, imports, next, waiting, history>>
  BY DEF ReceiveReportAck
<1>6. QED
  BY <1>2, <1>4, <1>5 DEF TypeInv, TypeOK, OpenExportsUsable, history

LEMMA CancelSessionTypes ==
  ASSUME TypeInv, NEW e \in Engines, NEW n \in Nat, CancelSession(e, n)
  PROVE  TypeInv'
<1>1. PICK s \in ExportSlots :
        exports' = [exports EXCEPT ![e][s] = Cancelled(@)]
  BY DEF CancelSession
<1> DEFINE x == Cancelled(exports[e][s])
<1>2. exports[e][s] \in ExportSessions /\ Usable(exports[e][s])
  BY DEF TypeInv, TypeOK, OpenExportsUsable
<1>3. x \in ExportSessions /\ Usable(x)
  BY <1>2, ClosedType DEF Usable
<1>4. exports' = [exports EXCEPT ![e][s] = x]
  BY <1>1 DEF TypeInv, TypeOK
<1> HIDE DEF x
<1>5. exports' \in [Engines -> [ExportSlots -> ExportSessions]] /\ OpenExportsUsable'
  BY <1>3, <1>4, UpdateExportType
<1>6. timers[e] \in TimerTable
  BY DEF TypeInv, TypeOK, TimerTable
<1>7. StartTimer(timers[e], CancelTimer, e, n, 0) \in TimerTable
  BY <1>6, StartTimerType
<1>8. timers' \in [Engines -> [TimerSlots -> Timers]]
  BY <1>7 DEF CancelSession, TimerTable, TypeInv, TypeOK
<1>9. Cancel(CancelBySender, e, n) \in Segments
  BY AnswerTypes DEF CancelTypes
<1>10. inbox' \in [Engines -> Seq(Segments)]
  BY <1>9, SingleSegment, TypeInvTables, TransmitLemma DEF CancelSession, InboxType
<1>11. UNCHANGED <<imports, next, waiting, history>>
  BY DEF CancelSession
<1>12. QED
  BY <1>5, <1>8, <1>10, <1>11 DEF TypeInv, TypeOK, history
LEMMA CancelImportTypes ==
  ASSUME TypeInv, NEW e \in Engines, NEW a, NEW n \in Nat, CancelImport(e, a, n)
  PROVE  TypeInv'
<1>1. Cancel(CancelByRecvr, e, n) \in Segments
  BY AnswerTypes DEF CancelTypes
<1>2. inbox' \in [Engines -> Seq(Segments)]
  BY <1>1, SingleSegment, TypeInvTables, TransmitLemma DEF CancelImport, InboxType
<1>3. UNCHANGED <<tables, history>>
  BY DEF CancelImport
<1>4. QED
  BY <1>2, <1>3 DEF TypeInv, TypeOK, OpenExportsUsable, tables, history

LEMMA ReceiveCancelBySenderTypes ==
  ASSUME TypeInv, NEW e \in Engines, ReceiveCancelBySender(e)
  PROVE  TypeInv'
<1> DEFINE m == Head(inbox[e])
           S == OpenImports(e, m.from, m.number)
<1>1. inbox[e] # << >> /\ m.number \in Nat
  BY HeadType, KindOfSegment DEF ReceiveCancelBySender, Incoming
<1>2. Exchange(e, <<Cancel(CancelAckSender, e, m.number)>>) /\ AbandonImport(e, S)
  BY DEF ReceiveCancelBySender
<1>3. S \in SUBSET ImportSlots
  BY DEF OpenImports
<1> HIDE DEF m, S
<1>4. Cancel(CancelAckSender, e, m.number) \in Segments
  BY <1>1, AnswerTypes DEF CancelTypes
<1>5. inbox' \in [Engines -> Seq(Segments)]
  BY <1>1, <1>2, <1>4, SingleSegment, TypeInvTables, ExchangeLemma DEF InboxType
<1>6. /\ imports' \in [Engines -> [ImportSlots -> ImportSessions]]
      /\ gaveUp' \subseteq [at : Engines, from : Engines \cup {Zero}, number : Nat]
  BY <1>2, <1>3, TypeInvTables, AbandonImportType DEF TypeInv, TypeOK
<1>7. UNCHANGED <<exports, timers, next, waiting, sent, delivered, outcome>>
  BY DEF ReceiveCancelBySender
<1>8. QED
  BY <1>5, <1>6, <1>7 DEF TypeInv, TypeOK, OpenExportsUsable

LEMMA ReceiveCancelAckSenderTypes ==
  ASSUME TypeInv, NEW e \in Engines, ReceiveCancelAckSender(e)
  PROVE  TypeInv'
<1> DEFINE m == Head(inbox[e])
<1>1. /\ inbox[e] # << >> /\ Exchange(e, << >>)
      /\ CancelExport(e, m.number)
      /\ timers' = [timers EXCEPT ![e] = StopTimer(@, CancelTimer, m.number, 0)]
      /\ UNCHANGED <<imports, next, waiting, history>>
  BY DEF ReceiveCancelAckSender, Incoming
<1>2. inbox' \in [Engines -> Seq(Segments)]
  BY <1>1, NothingWritten, TypeInvTables, ExchangeLemma DEF InboxType
<1>3. exports' \in [Engines -> [ExportSlots -> ExportSessions]] /\ OpenExportsUsable'
  BY <1>1, TypeInvTables, CancelExportType
<1>4. timers[e] \in TimerTable
  BY DEF TypeInv, TypeOK, TimerTable
<1>5. timers' \in [Engines -> [TimerSlots -> Timers]]
  BY <1>1, <1>4, StopTimerType DEF TimerTable, TypeInv, TypeOK
<1>6. QED
  BY <1>1, <1>2, <1>3, <1>5 DEF TypeInv, TypeOK, history

LEMMA ReceiveCancelByRecvrTypes ==
  ASSUME TypeInv, NEW e \in Engines, ReceiveCancelByRecvr(e)
  PROVE  TypeInv'
<1> DEFINE m == Head(inbox[e])
<1>1. inbox[e] # << >> /\ m.number \in Nat
  BY HeadType, KindOfSegment DEF ReceiveCancelByRecvr, Incoming
<1>2. /\ Exchange(e, <<Cancel(CancelAckRecvr, e, m.number)>>)
      /\ CancelExport(e, m.number)
      /\ UNCHANGED <<imports, timers, next, waiting, history>>
  BY DEF ReceiveCancelByRecvr
<1> HIDE DEF m
<1>3. Cancel(CancelAckRecvr, e, m.number) \in Segments
  BY <1>1, AnswerTypes DEF CancelTypes
<1>4. inbox' \in [Engines -> Seq(Segments)]
  BY <1>1, <1>2, <1>3, SingleSegment, TypeInvTables, ExchangeLemma DEF InboxType
<1>5. exports' \in [Engines -> [ExportSlots -> ExportSessions]] /\ OpenExportsUsable'
  BY <1>2, TypeInvTables, CancelExportType
<1>6. QED
  BY <1>2, <1>4, <1>5 DEF TypeInv, TypeOK, history

LEMMA ReceiveCancelAckRecvrTypes ==
  ASSUME TypeInv, NEW e \in Engines, ReceiveCancelAckRecvr(e)
  PROVE  TypeInv'
<1> DEFINE m == Head(inbox[e])
           S == OpenImports(e, m.from, m.number)
<1>1. /\ inbox[e] # << >> /\ Exchange(e, << >>) /\ AbandonImport(e, S)
      /\ timers' = [timers EXCEPT ![e] = StopTimer(@, CancelTimer, m.number, 0)]
      /\ UNCHANGED <<exports, next, waiting, sent, delivered, outcome>>
  BY DEF ReceiveCancelAckRecvr, Incoming
<1>2. S \in SUBSET ImportSlots
  BY DEF OpenImports
<1> HIDE DEF m, S
<1>3. inbox' \in [Engines -> Seq(Segments)]
  BY <1>1, NothingWritten, TypeInvTables, ExchangeLemma DEF InboxType
<1>4. /\ imports' \in [Engines -> [ImportSlots -> ImportSessions]]
      /\ gaveUp' \subseteq [at : Engines, from : Engines \cup {Zero}, number : Nat]
  BY <1>1, <1>2, TypeInvTables, AbandonImportType DEF TypeInv, TypeOK
<1>5. timers[e] \in TimerTable
  BY DEF TypeInv, TypeOK, TimerTable
<1>6. timers' \in [Engines -> [TimerSlots -> Timers]]
  BY <1>1, <1>5, StopTimerType DEF TimerTable, TypeInv, TypeOK
<1>7. QED
  BY <1>1, <1>3, <1>4, <1>6 DEF TypeInv, TypeOK, OpenExportsUsable

LEMMA LoseTypes ==
  ASSUME TypeInv, NEW e \in Engines, Lose(e)
  PROVE  TypeInv'
<1>1. inbox[e] # << >> /\ inbox' = [inbox EXCEPT ![e] = Tail(@)]
      /\ UNCHANGED <<tables, history>>
  BY DEF Lose
<1>2. inbox[e] \in Seq(Segments)
  BY DEF TypeInv, TypeOK
<1>3. Tail(inbox[e]) \in Seq(Segments)
  BY <1>1, <1>2, TailOfSeq
<1>4. inbox' \in [Engines -> Seq(Segments)]
  BY <1>1, <1>3 DEF TypeInv, TypeOK
<1>5. QED
  BY <1>1, <1>4 DEF TypeInv, TypeOK, OpenExportsUsable, tables, history

----------------------------------------------------------------------------
(* Timers                                                                  *)

LEMMA RearmType ==
  ASSUME TypeInv, NEW e \in Engines, NEW i \in TimerSlots, Rearm(e, i)
  PROVE  timers' \in [Engines -> [TimerSlots -> Timers]]
<1> DEFINE x == [timers[e][i] EXCEPT !.retries = @ + 1]
<1>1. timers[e][i] \in Timers
  BY DEF TypeInv, TypeOK
<1>2. x \in Timers
  BY <1>1 DEF Timers
<1>3. timers' = [timers EXCEPT ![e][i] = x]
  BY DEF Rearm, TypeInv, TypeOK
<1> HIDE DEF x
<1>4. QED
  BY <1>2, <1>3 DEF TypeInv, TypeOK

LEMMA DisarmType ==
  ASSUME TypeInv, NEW e \in Engines, NEW i \in TimerSlots, Disarm(e, i)
  PROVE  timers' \in [Engines -> [TimerSlots -> Timers]]
  BY NoTimerType DEF Disarm, TypeInv, TypeOK

LEMMA CheckpointTimeoutTypes ==
  ASSUME TypeInv, NEW e \in Engines, NEW i \in TimerSlots, CheckpointTimeout(e, i)
  PROVE  TypeInv'
<1>1. PICK s \in ExportSlots :
        /\ First(OpenExports(e, timers[e][i].number), s)
        /\ Transmit(e, <<TailCheckpoint(e, exports[e][s])>>)
        /\ exports' = [exports EXCEPT ![e][s].nextCp = @ + 1]
  BY DEF CheckpointTimeout
<1> DEFINE sess == exports[e][s]
           x == [sess EXCEPT !.nextCp = @ + 1]
<1>2. sess \in ExportSessions /\ sess.active = 1
  BY <1>1 DEF TypeInv, TypeOK, First, OpenExports
<1>3. sess.block \in Blocks /\ sess.nextCp >= 1
  BY <1>2 DEF TypeInv, OpenExportsUsable, Usable
<1>4. exports' = [exports EXCEPT ![e][s] = x]
  BY <1>1 DEF TypeInv, TypeOK
<1> HIDE DEF sess
<1>5. x \in ExportSessions /\ Usable(x)
  BY <1>2, <1>3 DEF ExportSessions, Usable
<1> HIDE DEF x
<1>6. exports' \in [Engines -> [ExportSlots -> ExportSessions]] /\ OpenExportsUsable'
  BY <1>4, <1>5, UpdateExportType
<1>7. TailCheckpoint(e, sess) \in Segments
  BY <1>2, <1>3, TailCheckpointType DEF Segments
<1>8. inbox' \in [Engines -> Seq(Segments)]
  BY <1>1, <1>7, SingleSegment, TypeInvTables, TransmitLemma DEF InboxType, sess
<1>9. timers' \in [Engines -> [TimerSlots -> Timers]]
  BY RearmType DEF CheckpointTimeout
<1>10. UNCHANGED <<imports, next, waiting, history>>
  BY DEF CheckpointTimeout
<1>11. QED
  BY <1>6, <1>8, <1>9, <1>10 DEF TypeInv, TypeOK, history

LEMMA ReportTimeoutTypes ==
  ASSUME TypeInv, NEW e \in Engines, NEW i \in TimerSlots, ReportTimeout(e, i)
  PROVE  TypeInv'
<1>1. PICK s \in ImportSlots :
        Transmit(e, <<ReportOn(e, imports[e][s], timers[e][i].serial, 0,
                               imports[e][s].blockLen)>>)
  BY DEF ReportTimeout
<1>2. imports[e][s] \in ImportSessions /\ timers[e][i] \in Timers
  BY DEF TypeInv, TypeOK
<1>3. imports[e][s].blockLen \in Nat /\ timers[e][i].serial \in Nat
  BY <1>2 DEF ImportSessions, Timers
<1>4. ReportOn(e, imports[e][s], timers[e][i].serial, 0, imports[e][s].blockLen) \in Segments
  BY <1>2, <1>3, ReportOnType
<1>5. inbox' \in [Engines -> Seq(Segments)]
  BY <1>1, <1>4, SingleSegment, TypeInvTables, TransmitLemma DEF InboxType
<1>6. timers' \in [Engines -> [TimerSlots -> Timers]]
  BY RearmType DEF ReportTimeout
<1>7. UNCHANGED <<exports, imports, next, waiting, history>>
  BY DEF ReportTimeout
<1>8. QED
  BY <1>5, <1>6, <1>7 DEF TypeInv, TypeOK, OpenExportsUsable, history

LEMMA CancelTimeoutTypes ==
  ASSUME TypeInv, NEW e \in Engines, NEW i \in TimerSlots, CancelTimeout(e, i)
  PROVE  TypeInv'
<1>1. timers[e][i].number \in Nat
  BY DEF TypeInv, TypeOK, Timers
<1>2. Cancel(CancelBySender, e, timers[e][i].number) \in Segments
  BY <1>1, AnswerTypes DEF CancelTypes
<1>3. inbox' \in [Engines -> Seq(Segments)]
  BY <1>2, SingleSegment, TypeInvTables, TransmitLemma DEF CancelTimeout, InboxType
<1>4. timers' \in [Engines -> [TimerSlots -> Timers]]
  BY RearmType DEF CancelTimeout
<1>5. UNCHANGED <<exports, imports, next, waiting, history>>
  BY DEF CancelTimeout
<1>6. QED
  BY <1>3, <1>4, <1>5 DEF TypeInv, TypeOK, OpenExportsUsable, history

LEMMA OrphanTimeoutTypes ==
  ASSUME TypeInv, NEW e \in Engines, NEW i \in TimerSlots, OrphanTimeout(e, i)
  PROVE  TypeInv'
<1>1. timers' \in [Engines -> [TimerSlots -> Timers]]
  BY RearmType DEF OrphanTimeout
<1>2. UNCHANGED <<exports, imports, next, waiting, inbox, history>>
  BY DEF OrphanTimeout
<1>3. QED
  BY <1>1, <1>2 DEF TypeInv, TypeOK, OpenExportsUsable, history

LEMMA ExhaustedTypes ==
  ASSUME TypeInv, NEW e \in Engines, NEW i \in TimerSlots,
         \/ CheckpointExhausted(e, i) \/ ReportExhausted(e, i) \/ CancelExhausted(e, i)
  PROVE  TypeInv'
<1>1. timers' \in [Engines -> [TimerSlots -> Timers]]
  BY DisarmType DEF CheckpointExhausted, ReportExhausted, CancelExhausted
<1>2. CASE CheckpointExhausted(e, i)
  <2>1. /\ CancelExport(e, timers[e][i].number)
        /\ UNCHANGED <<imports, next, waiting, inbox, history>>
    BY <1>2 DEF CheckpointExhausted
  <2>2. exports' \in [Engines -> [ExportSlots -> ExportSessions]] /\ OpenExportsUsable'
    BY <2>1, TypeInvTables, CancelExportType
  <2>3. QED
    BY <1>1, <2>1, <2>2 DEF TypeInv, TypeOK, history
<1>3. CASE ReportExhausted(e, i)
  <2> DEFINE S == ImportsNumbered(e, timers[e][i].number)
  <2>1. /\ AbandonImport(e, S)
        /\ UNCHANGED <<exports, next, waiting, inbox, sent, delivered, outcome>>
    BY <1>3 DEF ReportExhausted
  <2>2. S \in SUBSET ImportSlots
    BY DEF ImportsNumbered
  <2> HIDE DEF S
  <2>3. /\ imports' \in [Engines -> [ImportSlots -> ImportSessions]]
        /\ gaveUp' \subseteq [at : Engines, from : Engines \cup {Zero}, number : Nat]
    BY <2>1, <2>2, TypeInvTables, AbandonImportType DEF TypeInv, TypeOK
  <2>4. QED
    BY <1>1, <2>1, <2>3 DEF TypeInv, TypeOK, OpenExportsUsable
<1>4. CASE CancelExhausted(e, i)
  BY <1>1, <1>4 DEF CancelExhausted, TypeInv, TypeOK, OpenExportsUsable, history
<1>5. QED
  BY <1>2, <1>3, <1>4

----------------------------------------------------------------------------

LEMMA StepTypes == TypeInv /\ [Next]_vars => TypeInv'
<1> SUFFICES ASSUME TypeInv, [Next]_vars PROVE TypeInv'
  OBVIOUS
<1>1. ASSUME NEW e \in Engines, Application(e)
      PROVE  TypeInv'
  <2>1. \A x \in Engines : \A n \in 1 .. MaxSessions[x] : n \in Nat
    BY ConstantsAssumption
  <2>2. QED
    BY <1>1, <2>1, SendBlockTypes, SendBlockFailsTypes, CancelSessionTypes,
       CancelImportTypes DEF Application
<1>2. ASSUME NEW e \in Engines, Receive(e)
      PROVE  TypeInv'
  BY <1>2, DroppedDataTypes, ReceiveRedDataTypes, ReceiveCheckpointTypes,
     ReceiveReportFullTypes, ReceiveReportPartialTypes, ReceiveReportAckTypes,
     ReceiveCancelBySenderTypes, ReceiveCancelAckSenderTypes, ReceiveCancelByRecvrTypes,
     ReceiveCancelAckRecvrTypes DEF Receive
<1>3. ASSUME NEW e \in Engines, NEW i \in TimerSlots, Timeout(e, i)
      PROVE  TypeInv'
  BY <1>3, CheckpointTimeoutTypes, ReportTimeoutTypes, CancelTimeoutTypes,
     OrphanTimeoutTypes, ExhaustedTypes DEF Timeout
<1>4. CASE UNCHANGED vars
  BY <1>4 DEF vars, tables, history, TypeInv, TypeOK, OpenExportsUsable
<1>5. QED
  BY <1>1, <1>2, <1>3, <1>4, ReturnTypes, LoseTypes DEF Next, Step

\* In every reachable state every table, inbox and history holds what its type
\* allows: no handler of ltp.c leaves a table entry half set or writes a segment
\* with a negative offset or length.
THEOREM TypeCorrect == Spec => []TypeOK
<1>1. TypeInv => TypeOK
  BY DEF TypeInv
<1>2. QED
  BY <1>1, InitTypes, StepTypes, PTL DEF Spec

----------------------------------------------------------------------------
(***************************************************************************)
(* A block is delivered only as it was submitted: the proof, for any number*)
(* of engines and any way they hear one another.                           *)
(*                                                                         *)
(* DeliveredIntact is not inductive: it says nothing of what is half       *)
(* received.  Integrity adds that a session number stands for one block,   *)
(* that open export sessions and the data on its way are of the block      *)
(* submitted under their number, and that what an import session claims    *)
(* agrees, byte for byte and in its length, with that block.               *)
(***************************************************************************)

Submission(e, n, b) == [engine |-> e, number |-> n, block |-> b]

\* A session number is given out once.
SentOnce ==
  /\ \A r \in sent : r.number < next[r.engine]
  /\ \A r, q \in sent : r.engine = q.engine /\ r.number = q.number => r = q

ExportsSent ==
  \A e \in Engines : \A s \in ExportSlots :
    exports[e][s].active = 1 =>
      Submission(e, exports[e][s].number, exports[e][s].block) \in sent

\* A data segment is cut from the block submitted as its session, and an end
\* of red part from its end.
Genuine(m, S) ==
  m.type \in DataTypes =>
    /\ Submission(m.from, m.number, m.block) \in S
    /\ m.type = RedDataEorpCp => m.offset + m.length = BlockLen[m.block]

SegmentsGenuine == \A b \in Engines : \A m \in InFlight(b) : Genuine(m, sent)

\* What an import session holds is a part of the block of its session.
Agrees(sess, S) ==
  \E r \in S :
    /\ r.engine = sess.engine /\ r.number = sess.number
    /\ sess.blockLen \in {0, BlockLen[r.block]}
    /\ \A o \in Offsets : sess.got[o] \in {Gap, Byte(r.block, o)}

ImportsAgree ==
  \A e \in Engines : \A s \in ImportSlots :
    imports[e][s].active = 1 => Agrees(imports[e][s], sent)

Integrity ==
  /\ TypeInv
  /\ SentOnce
  /\ ExportsSent
  /\ SegmentsGenuine
  /\ ImportsAgree
  /\ DeliveredIntact

----------------------------------------------------------------------------
(* The parts of Integrity that a step leaves alone                         *)

\* What holds of the submissions goes on holding when there are more of them.
LEMMA MoreSent ==
  ASSUME sent \subseteq sent'
  PROVE  /\ \A m : Genuine(m, sent) => Genuine(m, sent')
         /\ \A sess : Agrees(sess, sent) => Agrees(sess, sent')
         /\ UNCHANGED imports /\ ImportsAgree => ImportsAgree'
         /\ UNCHANGED exports /\ ExportsSent => ExportsSent'
         /\ UNCHANGED delivered /\ DeliveredIntact => DeliveredIntact'
<1>1. \A m : Genuine(m, sent) => Genuine(m, sent')
  BY DEF Genuine
<1>2. \A sess : Agrees(sess, sent) => Agrees(sess, sent')
  BY DEF Agrees
<1>3. UNCHANGED imports /\ ImportsAgree => ImportsAgree'
  BY <1>2 DEF ImportsAgree
<1>4. UNCHANGED exports /\ ExportsSent => ExportsSent'
  BY DEF ExportsSent
<1>5. UNCHANGED delivered /\ DeliveredIntact => DeliveredIntact'
  BY DEF DeliveredIntact
<1>6. QED
  BY <1>1, <1>2, <1>3, <1>4, <1>5

\* Writing genuine segments keeps the link genuine.
LEMMA GenuineWritten ==
  ASSUME SegmentsGenuine, sent \subseteq sent', NEW out, NEW e,
         \A b \in Engines : InFlight(b)' \subseteq
            InFlight(b) \cup (IF b \in Hears[e] THEN Range(out) ELSE {}),
         \A m \in Range(out) : Genuine(m, sent')
  PROVE  SegmentsGenuine'
<1>1. ASSUME NEW b \in Engines, NEW m \in InFlight(b)'
      PROVE  Genuine(m, sent')
  <2>1. CASE m \in InFlight(b)
    BY <2>1, MoreSent DEF SegmentsGenuine
  <2>2. CASE m \in Range(out)
    BY <2>2
  <2>3. QED
    BY <2>1, <2>2
<1>2. QED
  BY <1>1 DEF SegmentsGenuine

\* Segments that carry no data are genuine.
LEMMA NoDataGenuine ==
  ASSUME NEW m, m.type \notin DataTypes
  PROVE  Genuine(m, sent')
  BY DEF Genuine

\* Reading a segment and answering it with one that carries no data.
LEMMA AnswerGenuine ==
  ASSUME TypeInv, SegmentsGenuine, UNCHANGED sent, NEW e \in Engines, inbox[e] # << >>,
         NEW m \in Segments, m.type \notin DataTypes, Exchange(e, <<m>>)
  PROVE  SegmentsGenuine'
<1>1. <<m>> \in Seq(Segments) /\ Range(<<m>>) = {m}
  BY SingleSegment
<1>2. \A b \in Engines : InFlight(b)' \subseteq
        InFlight(b) \cup (IF b \in Hears[e] THEN Range(<<m>>) ELSE {})
  BY <1>1, TypeInvTables, ExchangeLemma
<1>3. QED
  BY <1>1, <1>2, GenuineWritten, NoDataGenuine

LEMMA DropGenuine ==
  ASSUME TypeInv, SegmentsGenuine, UNCHANGED sent, NEW e \in Engines, inbox[e] # << >>,
         Exchange(e, << >>)
  PROVE  SegmentsGenuine'
<1>1. << >> \in Seq(Segments) /\ Range(<< >>) = {}
  BY NothingWritten
<1>2. \A b \in Engines : InFlight(b)' \subseteq
        InFlight(b) \cup (IF b \in Hears[e] THEN Range(<< >>) ELSE {})
  BY <1>1, TypeInvTables, ExchangeLemma
<1>3. QED
  BY <1>1, <1>2, GenuineWritten

LEMMA WriteGenuine ==
  ASSUME TypeInv, SegmentsGenuine, sent \subseteq sent', NEW e \in Engines,
         NEW m \in Segments, Genuine(m, sent'), Transmit(e, <<m>>)
  PROVE  SegmentsGenuine'
<1>1. <<m>> \in Seq(Segments) /\ Range(<<m>>) = {m}
  BY SingleSegment
<1>2. \A b \in Engines : InFlight(b)' \subseteq
        InFlight(b) \cup (IF b \in Hears[e] THEN Range(<<m>>) ELSE {})
  BY <1>1, TypeInvTables, TransmitLemma
<1>3. QED
  BY <1>1, <1>2, GenuineWritten

\* Closing export sessions.
LEMMA CancelExportSent ==
  ASSUME Tables, ExportsSent, UNCHANGED sent, NEW e \in Engines, NEW n, CancelExport(e, n)
  PROVE  ExportsSent'
<1>1. ASSUME NEW x \in Engines, NEW s \in ExportSlots, exports'[x][s].active = 1
      PROVE  exports'[x][s] = exports[x][s]
  <2>1. exports'[x][s] \in {exports[x][s], Closed(exports[x][s])}
    BY DEF CancelExport, Tables
  <2>2. Closed(exports[x][s]).active = 0
    BY ClosedType DEF Tables
  <2>3. QED
    BY <1>1, <2>1, <2>2
<1>2. QED
  BY <1>1 DEF ExportsSent

\* Closing import sessions.
LEMMA AbandonImportAgrees ==
  ASSUME Tables, ImportsAgree, UNCHANGED sent, NEW e \in Engines, NEW S,
         AbandonImport(e, S)
  PROVE  ImportsAgree'
<1>1. ASSUME NEW x \in Engines, NEW s \in ImportSlots, imports'[x][s].active = 1
      PROVE  imports'[x][s] = imports[x][s]
  <2>1. imports'[x][s] \in {imports[x][s], FreeImport}
    BY DEF AbandonImport, Tables
  <2>2. FreeImport.active = 0
    BY DEF FreeImport
  <2>3. QED
    BY <1>1, <2>1, <2>2
<1>2. ASSUME NEW x \in Engines, NEW s \in ImportSlots, imports'[x][s].active = 1
      PROVE  Agrees(imports'[x][s], sent')
  BY <1>1, <1>2, MoreSent DEF ImportsAgree
<1>3. QED
  BY <1>2 DEF ImportsAgree
----------------------------------------------------------------------------
(* Sending                                                                 *)

LEMMA InitIntegrity == Init => Integrity
<1> SUFFICES ASSUME Init PROVE Integrity
  OBVIOUS
<1>1. TypeInv
  BY InitTypes
<1>2. SentOnce /\ DeliveredIntact
  BY DEF Init, SentOnce, DeliveredIntact, Range
<1>3. ExportsSent
  BY DEF Init, ExportsSent, FreeExport
<1>4. SegmentsGenuine
  BY NothingWritten DEF Init, SegmentsGenuine, InFlight
<1>5. ImportsAgree
  BY DEF Init, ImportsAgree, FreeImport
<1>6. QED
  BY <1>1, <1>2, <1>3, <1>4, <1>5 DEF Integrity

\* A session opened under the next number.
LEMMA OpenExportIntegrity ==
  ASSUME Integrity, NEW e \in Engines, NEW b \in Blocks, NEW s \in ExportSlots,
         OpenExport(e, b, s)
  PROVE  /\ sent \subseteq sent'
         /\ SentOnce'
         /\ ExportsSent'
         /\ Submission(e, next[e], b) \in sent'
         /\ next[e] \in Nat
<1> DEFINE r == Submission(e, next[e], b)
           x == [active |-> 1, number |-> next[e], block |-> b, nextCp |-> 2,
                 completed |-> 0, cancelled |-> 0]
<1>0. next \in [Engines -> Nat \ {0}] /\ sent \subseteq [engine : Engines, number : Nat, block : Blocks]
  BY DEF Integrity, TypeInv, TypeOK
<1>1. sent' = sent \cup {r} /\ next' = [next EXCEPT ![e] = @ + 1]
  BY DEF OpenExport, Submission
<1>2. r.engine = e /\ r.number = next[e] /\ r.block = b
  BY DEF Submission
<1>3. exports' = [exports EXCEPT ![e][s] = x]
  BY DEF OpenExport
<1>4. x.number = next[e] /\ x.block = b
  OBVIOUS
<1> HIDE DEF r, x
<1>5. SentOnce'
  <2>1. ASSUME NEW q \in sent'
        PROVE  q.number < next'[q.engine]
    <3>1. CASE q = r
      BY <1>0, <1>1, <1>2, <3>1
    <3>2. CASE q \in sent
      <4>1. q.number < next[q.engine] /\ q.engine \in Engines /\ q.number \in Nat
        BY <1>0, <3>2 DEF Integrity, SentOnce
      <4>2. next'[q.engine] \in {next[q.engine], next[q.engine] + 1}
        BY <1>0, <1>1, <4>1
      <4>3. next[q.engine] \in Nat
        BY <1>0, <4>1
      <4>4. QED
        BY <4>1, <4>2, <4>3
    <3>3. QED
      BY <1>1, <2>1, <3>1, <3>2
  <2>2. ASSUME NEW q \in sent, q.engine = e
        PROVE  q.number # next[e]
    <3>1. q.number < next[e] /\ q.number \in Nat /\ next[e] \in Nat
      BY <1>0, <2>2 DEF Integrity, SentOnce
    <3>2. QED
      BY <3>1
  <2>3. ASSUME NEW p \in sent', NEW q \in sent', p.engine = q.engine, p.number = q.number
        PROVE  p = q
    BY <1>1, <1>2, <2>2, <2>3 DEF Integrity, SentOnce
  <2>4. QED
    BY <2>1, <2>3 DEF SentOnce
<1>6. ExportsSent'
  <2>1. ASSUME NEW e1 \in Engines, NEW s1 \in ExportSlots, exports'[e1][s1].active = 1
        PROVE  Submission(e1, exports'[e1][s1].number, exports'[e1][s1].block) \in sent'
    <3>1. exports'[e1][s1] = IF e1 = e /\ s1 = s THEN x ELSE exports[e1][s1]
      BY <1>3 DEF Integrity, TypeInv, TypeOK
    <3>2. CASE e1 = e /\ s1 = s
      BY <1>1, <1>4, <3>1, <3>2 DEF r
    <3>3. CASE ~ (e1 = e /\ s1 = s)
      BY <1>1, <2>1, <3>1, <3>3 DEF Integrity, ExportsSent
    <3>4. QED
      BY <3>2, <3>3
  <2>2. QED
    BY <2>1 DEF ExportsSent
<1>7. QED
  BY <1>0, <1>1, <1>5, <1>6 DEF r

\* The segments of a block just submitted are genuine.
LEMMA BlockGenuine ==
  ASSUME NEW e \in Engines, NEW n \in Nat, NEW b \in Blocks, NEW count \in 1 .. MaxBlock,
         SegmentCount(BlockLen[b], count), NEW S, Submission(e, n, b) \in S
  PROVE  \A m \in Range(BlockSegments(e, n, b, count)) : Genuine(m, S)
  BY BlockSegmentsType DEF Genuine

LEMMA SendBlockIntegrity ==
  ASSUME Integrity, NEW e \in Engines, NEW b \in Blocks, SendBlock(e, b)
  PROVE  Integrity'
<1>1. PICK s \in ExportSlots, count \in 1 .. MaxBlock :
        /\ SegmentCount(BlockLen[b], count)
        /\ OpenExport(e, b, s)
        /\ Transmit(e, BlockSegments(e, next[e], b, count))
        /\ UNCHANGED <<imports, delivered, gaveUp, outcome>>
  BY DEF SendBlock
<1>2. /\ sent \subseteq sent' /\ SentOnce' /\ ExportsSent'
      /\ Submission(e, next[e], b) \in sent' /\ next[e] \in Nat
  BY <1>1, OpenExportIntegrity
<1> DEFINE out == BlockSegments(e, next[e], b, count)
<1>3. out \in Seq(Segments) /\ \A m \in Range(out) : Genuine(m, sent')
  BY <1>1, <1>2, BlockSegmentsType, DataIsSegments, BlockGenuine
<1>4. Transmit(e, out)
  BY <1>1
<1> HIDE DEF out
<1>5. \A a \in Engines : InFlight(a)' \subseteq
        InFlight(a) \cup (IF a \in Hears[e] THEN Range(out) ELSE {})
  BY <1>3, <1>4, TypeInvTables, TransmitLemma DEF Integrity
<1>6. SegmentsGenuine'
  BY <1>2, <1>3, <1>5, GenuineWritten DEF Integrity
<1>7. ImportsAgree' /\ DeliveredIntact'
  BY <1>1, <1>2, MoreSent DEF Integrity
<1>8. TypeInv'
  BY SendBlockTypes DEF Integrity
<1>9. QED
  BY <1>2, <1>6, <1>7, <1>8 DEF Integrity

LEMMA SendBlockFailsIntegrity ==
  ASSUME Integrity, NEW e \in Engines, NEW b \in Blocks, SendBlockFails(e, b)
  PROVE  Integrity'
<1>1. PICK s \in ExportSlots, count \in 1 .. MaxBlock : \E k \in 0 .. (count - 1) :
        /\ SegmentCount(BlockLen[b], count)
        /\ OpenExport(e, b, s)
        /\ Transmit(e, SubSeq(BlockSegments(e, next[e], b, count), 1, k))
        /\ UNCHANGED <<imports, timers, waiting, delivered, gaveUp, outcome>>
  BY DEF SendBlockFails
<1>2. /\ sent \subseteq sent' /\ SentOnce' /\ ExportsSent'
      /\ Submission(e, next[e], b) \in sent' /\ next[e] \in Nat
  BY <1>1, OpenExportIntegrity
<1> DEFINE all == BlockSegments(e, next[e], b, count)
<1>3. all \in Seq(Segments) /\ \A m \in Range(all) : Genuine(m, sent')
  BY <1>1, <1>2, BlockSegmentsType, DataIsSegments, BlockGenuine
<1>4. Len(all) = count /\ count \in Nat
  BY ConstantsAssumption DEF BlockSegments
<1>5. PICK k \in 0 .. (count - 1) : Transmit(e, SubSeq(all, 1, k))
  BY <1>1
<1> HIDE DEF all
<1> DEFINE out == SubSeq(all, 1, k)
<1>6. k \in 0 .. Len(all)
  BY <1>4
<1>7. out \in Seq(Segments) /\ Range(out) \subseteq Range(all)
  BY <1>3, <1>6, FirstSegments
<1> HIDE DEF out
<1>8. \A a \in Engines : InFlight(a)' \subseteq
        InFlight(a) \cup (IF a \in Hears[e] THEN Range(out) ELSE {})
  BY <1>5, <1>7, TypeInvTables, TransmitLemma DEF Integrity, out
<1>9. SegmentsGenuine'
  BY <1>2, <1>3, <1>7, <1>8, GenuineWritten DEF Integrity
<1>10. ImportsAgree' /\ DeliveredIntact'
  BY <1>1, <1>2, MoreSent DEF Integrity
<1>11. TypeInv'
  BY SendBlockFailsTypes DEF Integrity
<1>12. QED
  BY <1>2, <1>9, <1>10, <1>11 DEF Integrity

----------------------------------------------------------------------------
(* Receiving data                                                          *)

\* A session just opened for a genuine segment holds nothing, of its block.
LEMMA NewImportAgrees ==
  ASSUME NEW m \in DataSegments, NEW S, Genuine(m, S)
  PROVE  Agrees(NewImport(m), S)
<1>1. m.type \in DataTypes
  BY DEF DataSegments
<1>2. Submission(m.from, m.number, m.block) \in S
  BY <1>1 DEF Genuine
<1>3. QED
  BY <1>2, NewImportType DEF Agrees, Submission

\* Absorbing a genuine segment of the session's own keeps the agreement: the
\* session and the segment are of one block, since their number was given once.
LEMMA AbsorbAgrees ==
  ASSUME SentOnce, NEW sess \in ImportSessions, NEW m \in DataSegments,
         sess.engine = m.from, sess.number = m.number,
         Agrees(sess, sent), Genuine(m, sent)
  PROVE  Agrees(Absorb(sess, m), sent)
<1> DEFINE new == Absorb(sess, m)
           q == Submission(m.from, m.number, m.block)
<1>1. m.type \in DataTypes
  BY DEF DataSegments
<1>2. q \in sent /\ (m.type = RedDataEorpCp => m.offset + m.length = BlockLen[m.block])
  BY <1>1 DEF Genuine
<1>3. q.engine = m.from /\ q.number = m.number /\ q.block = m.block
  BY DEF Submission
<1>4. PICK r \in sent :
        /\ r.engine = sess.engine /\ r.number = sess.number
        /\ sess.blockLen \in {0, BlockLen[r.block]}
        /\ \A o \in Offsets : sess.got[o] \in {Gap, Byte(r.block, o)}
  BY DEF Agrees
<1>5. r = q
  BY <1>2, <1>3, <1>4 DEF SentOnce
<1>6. /\ new.engine = sess.engine /\ new.number = sess.number
      /\ new.blockLen = IF m.type = RedDataEorpCp THEN m.offset + m.length ELSE sess.blockLen
      /\ \A o \in Offsets : new.got[o] \in {sess.got[o], Byte(m.block, o)}
  BY AbsorbType
<1> HIDE DEF new, q
<1>7. new.blockLen \in {0, BlockLen[r.block]}
  BY <1>2, <1>3, <1>4, <1>5, <1>6
<1>8. \A o \in Offsets : new.got[o] \in {Gap, Byte(r.block, o)}
  BY <1>3, <1>4, <1>5, <1>6
<1>9. QED
  BY <1>4, <1>6, <1>7, <1>8 DEF Agrees, new
LEMMA AppendRange ==
  ASSUME NEW T, NEW q \in Seq(T), NEW x
  PROVE  Range(Append(q, x)) = Range(q) \cup {x}
<1>1. q \in Seq(T \cup {x})
  OBVIOUS
<1>2. \A i \in DOMAIN q : i \in DOMAIN Append(q, x) /\ Append(q, x)[i] = q[i]
  BY <1>1
<1>3. Len(q) + 1 \in DOMAIN Append(q, x) /\ Append(q, x)[Len(q) + 1] = x
  BY <1>1
<1>4. \A i \in DOMAIN Append(q, x) : i \in DOMAIN q \/ i = Len(q) + 1
  BY <1>1
<1>5. QED
  BY <1>2, <1>3, <1>4, Zenon DEF Range

\* A complete session that agrees with its block holds exactly that block: its
\* claims start at 0 and reach its length, and its length is the block's.
LEMMA CompleteIsBlock ==
  ASSUME NEW sess \in ImportSessions, Complete(sess), NEW b \in Blocks,
         sess.blockLen \in {0, BlockLen[b]},
         \A o \in Offsets : sess.got[o] \in {Gap, Byte(b, o)}
  PROVE  [o \in 0 .. (sess.blockLen - 1) |-> sess.got[o]] = Contents(b)
<1>1. MaxBlock \in Nat /\ sess.blockLen \in Nat /\ BlockLen[b] \in Nat
  BY ConstantsAssumption DEF ImportSessions
<1>2. sess.blockLen = BlockLen[b]
  BY <1>1 DEF Complete
<1>3. PICK k \in 1 .. MaxBlock : k >= sess.blockLen /\ Claims(sess) = 0 .. (k - 1)
  BY DEF Complete, CoversFromZero
<1>4. ASSUME NEW o \in 0 .. (BlockLen[b] - 1)
      PROVE  sess.got[o] = b
  <2>1. o \in 0 .. (k - 1) /\ o \in Offsets /\ o < BlockLen[b]
    BY <1>1, <1>2, <1>3 DEF Offsets
  <2>2. sess.got[o] # Gap
    BY <1>3, <2>1 DEF Claims
  <2>3. Byte(b, o) = b
    BY <2>1 DEF Byte
  <2>4. QED
    BY <2>1, <2>2, <2>3
<1>5. QED
  BY <1>2, <1>4 DEF Contents

\* Keeping or delivering a session that agrees with its block.
LEMMA DeliverIntegrity ==
  ASSUME Integrity, UNCHANGED sent, NEW e \in Engines, NEW s \in ImportSlots,
         NEW sess \in ImportSessions, sess.engine \in Engines, Agrees(sess, sent),
         StoreOrDeliver(e, s, sess)
  PROVE  ImportsAgree' /\ DeliveredIntact'
<1>0. PICK r \in sent :
        /\ r.engine = sess.engine /\ r.number = sess.number
        /\ sess.blockLen \in {0, BlockLen[r.block]}
        /\ \A o \in Offsets : sess.got[o] \in {Gap, Byte(r.block, o)}
  BY DEF Agrees
<1>1. r.block \in Blocks
  BY DEF Integrity, TypeInv, TypeOK
<1>2. PICK x \in {FreeImport, sess} : imports' = [imports EXCEPT ![e][s] = x]
  BY DEF StoreOrDeliver
<1>3. ImportsAgree'
  <2>1. ASSUME NEW e1 \in Engines, NEW s1 \in ImportSlots, imports'[e1][s1].active = 1
        PROVE  Agrees(imports'[e1][s1], sent')
    <3>1. imports'[e1][s1] = IF e1 = e /\ s1 = s THEN x ELSE imports[e1][s1]
      BY <1>2 DEF Integrity, TypeInv, TypeOK
    <3>2. FreeImport.active = 0
      BY DEF FreeImport
    <3>3. QED
      BY <2>1, <3>1, <3>2 DEF Integrity, ImportsAgree
  <2>2. QED
    BY <2>1 DEF ImportsAgree
<1>4. CASE Complete(sess)
  <2> DEFINE dat == [o \in 0 .. (sess.blockLen - 1) |-> sess.got[o]]
             d == [at |-> e, from |-> sess.engine, number |-> sess.number, data |-> dat]
  <2>1. dat = Contents(r.block)
    BY <1>0, <1>1, <1>4, CompleteIsBlock
  <2> HIDE DEF dat
  <2>2. d.from = sess.engine /\ d.number = sess.number /\ d.data = dat
    OBVIOUS
  <2>3. delivered' = Append(delivered, d)
    BY <1>4 DEF StoreOrDeliver, dat
  <2> HIDE DEF d
  <2>5. Range(delivered') = Range(delivered) \cup {d}
    BY <2>3, AppendRange DEF Integrity, TypeInv, TypeOK
  <2>6. ASSUME NEW c \in Range(delivered')
        PROVE  \E q \in sent' : /\ q.engine = c.from /\ q.number = c.number
                                /\ c.data = Contents(q.block)
    <3>1. CASE c = d
      BY <1>0, <2>1, <2>2, <3>1
    <3>2. CASE c \in Range(delivered)
      BY <3>2 DEF Integrity, DeliveredIntact
    <3>3. QED
      BY <2>5, <2>6, <3>1, <3>2
  <2>7. DeliveredIntact'
    BY <2>6 DEF DeliveredIntact, Range
  <2>8. QED
    BY <1>3, <2>7
<1>5. CASE ~ Complete(sess)
  BY <1>3, <1>5, MoreSent DEF StoreOrDeliver, Integrity
<1>6. QED
  BY <1>4, <1>5

\* The session a data segment goes to agrees with its block once the segment
\* is absorbed.
LEMMA DataSessionAgrees ==
  ASSUME Integrity, NEW e \in Engines, NEW m \in DataSegments, m \in InFlight(e),
         NEW s \in ImportSlots, DataSlot(e, m, s)
  PROVE  /\ Absorb(DataSession(e, m, s), m) \in ImportSessions
         /\ Absorb(DataSession(e, m, s), m).engine \in Engines
         /\ Agrees(Absorb(DataSession(e, m, s), m), sent)
<1> DEFINE old == DataSession(e, m, s)
<1>1. Tables /\ Genuine(m, sent) /\ SentOnce
  BY TypeInvTables DEF Integrity, SegmentsGenuine
<1>2. /\ old \in ImportSessions /\ old.engine = m.from /\ old.number = m.number
      /\ \/ imports[e][s].active = 1 /\ old = imports[e][s]
         \/ old = NewImport(m)
  BY <1>1, DataSessionType
<1>3. Agrees(old, sent)
  BY <1>1, <1>2, NewImportAgrees DEF Integrity, ImportsAgree
<1> HIDE DEF old
<1>4. Agrees(Absorb(old, m), sent)
  BY <1>1, <1>2, <1>3, AbsorbAgrees
<1>5. Absorb(old, m) \in ImportSessions /\ Absorb(old, m).engine = m.from
  BY <1>2, AbsorbType
<1>6. m.from \in Engines
  BY DEF DataSegments
<1>7. QED
  BY <1>4, <1>5, <1>6 DEF old
LEMMA IncomingData ==
  ASSUME Integrity, NEW e \in Engines, inbox[e] # << >>
  PROVE  /\ Head(inbox[e]) \in InFlight(e)
         /\ Head(inbox[e]) \in Segments
  BY TailOfSeq DEF Integrity, TypeInv, TypeOK, InFlight

LEMMA ReceiveRedDataIntegrity ==
  ASSUME Integrity, NEW e \in Engines, ReceiveRedData(e)
  PROVE  Integrity'
<1> DEFINE m == Head(inbox[e])
<1>1. inbox[e] # << >> /\ m \in DataSegments /\ m \in InFlight(e)
  BY IncomingData, KindOfSegment, TypeNumbers DEF ReceiveRedData, Incoming
<1>2. PICK s \in ImportSlots :
        /\ DataSlot(e, m, s)
        /\ Exchange(e, << >>)
        /\ StoreOrDeliver(e, s, Absorb(DataSession(e, m, s), m))
  BY DEF ReceiveRedData
<1>3. UNCHANGED <<exports, timers, next, waiting, sent, gaveUp, outcome>>
  BY DEF ReceiveRedData
<1> HIDE DEF m
<1>4. ImportsAgree' /\ DeliveredIntact'
  BY <1>1, <1>2, <1>3, DataSessionAgrees, DeliverIntegrity
<1>5. SegmentsGenuine'
  BY <1>1, <1>2, <1>3, DropGenuine DEF Integrity
<1>6. TypeInv'
  BY ReceiveRedDataTypes DEF Integrity
<1>7. QED
  BY <1>3, <1>4, <1>5, <1>6 DEF Integrity, SentOnce, ExportsSent

LEMMA ReceiveCheckpointIntegrity ==
  ASSUME Integrity, NEW e \in Engines, ReceiveCheckpoint(e)
  PROVE  Integrity'
<1> DEFINE m == Head(inbox[e])
           Sess(s) == Absorb(DataSession(e, m, s), m)
           Upper(s) == IF Sess(s).blockLen > 0 THEN Sess(s).blockLen ELSE m.offset + m.length
<1>1. inbox[e] # << >> /\ m \in DataSegments /\ m \in InFlight(e)
  BY IncomingData, KindOfSegment, TypeNumbers DEF ReceiveCheckpoint, Incoming
<1>2. PICK s \in ImportSlots :
        /\ DataSlot(e, m, s)
        /\ Exchange(e, <<ReportOn(e, Sess(s), Sess(s).nextRpt, m.cp, Upper(s))>>)
        /\ StoreOrDeliver(e, s, [Sess(s) EXCEPT !.nextRpt = @ + 1])
  BY DEF ReceiveCheckpoint
<1>3. UNCHANGED <<exports, next, waiting, sent, gaveUp, outcome>>
  BY DEF ReceiveCheckpoint
<1> DEFINE sess == Sess(s)
           x == [sess EXCEPT !.nextRpt = @ + 1]
<1>4. sess \in ImportSessions /\ sess.engine \in Engines /\ Agrees(sess, sent)
  BY <1>1, <1>2, DataSessionAgrees
<1>5. StoreOrDeliver(e, s, x)
  BY <1>2
<1>6. Upper(s) \in Nat /\ sess.nextRpt \in Nat /\ m.cp \in Nat
  BY <1>1, <1>4 DEF DataSegments, ImportSessions
<1> HIDE DEF m, Sess, Upper, sess
<1>7. x \in ImportSessions /\ x.engine \in Engines /\ Agrees(x, sent)
  BY <1>4, NumberedSession DEF Agrees
<1> HIDE DEF x
<1>8. ImportsAgree' /\ DeliveredIntact'
  BY <1>3, <1>5, <1>7, DeliverIntegrity
<1> DEFINE r == ReportOn(e, sess, sess.nextRpt, m.cp, Upper(s))
<1>9. r \in Segments /\ r.type \notin DataTypes
  <2>1. r \in Segments /\ r.type = Report
    BY <1>4, <1>6, ReportOnType, Zenon
  <2>2. QED
    BY <2>1, TypeNumbers
<1>10. Exchange(e, <<r>>)
  BY <1>2 DEF sess
<1> HIDE DEF r
<1>11. SegmentsGenuine'
  BY <1>1, <1>3, <1>9, <1>10, AnswerGenuine DEF Integrity
<1>12. TypeInv'
  BY ReceiveCheckpointTypes DEF Integrity
<1>13. QED
  BY <1>3, <1>8, <1>11, <1>12 DEF Integrity, SentOnce, ExportsSent

----------------------------------------------------------------------------
(* Sending again                                                           *)

\* An export session may change as long as it keeps its number and its block.
LEMMA UpdateExportSent ==
  ASSUME Integrity, UNCHANGED sent, NEW e \in Engines, NEW s \in ExportSlots,
         NEW x, exports' = [exports EXCEPT ![e][s] = x],
         x.active = exports[e][s].active, x.number = exports[e][s].number,
         x.block = exports[e][s].block
  PROVE  ExportsSent'
<1>1. ASSUME NEW e1 \in Engines, NEW s1 \in ExportSlots, exports'[e1][s1].active = 1
      PROVE  Submission(e1, exports'[e1][s1].number, exports'[e1][s1].block) \in sent'
  <2>1. exports'[e1][s1] = IF e1 = e /\ s1 = s THEN x ELSE exports[e1][s1]
    BY DEF Integrity, TypeInv, TypeOK
  <2>2. QED
    BY <1>1, <2>1 DEF Integrity, ExportsSent
<1>2. QED
  BY <1>1 DEF ExportsSent

LEMMA ReceiveReportFullIntegrity ==
  ASSUME Integrity, NEW e \in Engines, ReceiveReportFull(e)
  PROVE  Integrity'
<1> DEFINE r == Head(inbox[e])
<1>1. inbox[e] # << >> /\ r \in ReportSegments
  BY IncomingData, KindOfSegment DEF ReceiveReportFull, Incoming
<1>2. PICK s \in ExportSlots :
        /\ Exchange(e, <<AckOf(e, r)>>)
        /\ exports' = [exports EXCEPT ![e][s].completed = 1]
  BY DEF ReceiveReportFull
<1>3. UNCHANGED <<imports, next, waiting, history>>
  BY DEF ReceiveReportFull
<1> DEFINE old == exports[e][s]
           x == [old EXCEPT !.completed = 1]
<1>4. old \in ExportSessions /\ exports' = [exports EXCEPT ![e][s] = x]
  BY <1>2 DEF Integrity, TypeInv, TypeOK
<1> HIDE DEF r, old
<1>5. x.active = old.active /\ x.number = old.number /\ x.block = old.block
  BY <1>4 DEF ExportSessions
<1> HIDE DEF x
<1>6. ExportsSent'
  BY <1>3, <1>4, <1>5, UpdateExportSent DEF old, history
<1>7. AckOf(e, r) \in Segments /\ AckOf(e, r).type \notin DataTypes
  BY <1>1, AckType, TypeNumbers
<1>8. SegmentsGenuine'
  BY <1>1, <1>2, <1>3, <1>7, AnswerGenuine DEF Integrity, history
<1>9. ImportsAgree' /\ DeliveredIntact'
  BY <1>3, MoreSent DEF Integrity, history
<1>10. TypeInv'
  BY ReceiveReportFullTypes DEF Integrity
<1>11. QED
  BY <1>3, <1>6, <1>8, <1>9, <1>10 DEF Integrity, SentOnce, history

AllGenuine(out, S) == out \in Seq(Segments) /\ \A m \in Range(out) : Genuine(m, S)

\* What a report makes an engine send again is genuine.
LEMMA RetransmissionGenuine ==
  ASSUME NEW e \in Engines, NEW sess \in ExportSessions, sess.block \in Blocks,
         NEW S, Submission(e, sess.number, sess.block) \in S,
         NEW M \in SUBSET Offsets, NEW len \in Nat, NEW q \in [1 .. len -> Pieces(M)]
  PROVE  AllGenuine(Retransmission(e, sess, q), S)
<1> DEFINE out == Retransmission(e, sess, q)
<1>1. out \in Seq(DataSegments)
  BY RetransmissionType
<1>2. ASSUME NEW m \in Range(out)
      PROVE  SentAgain(m, e, sess)
  BY <1>2, RetransmissionType
<1> HIDE DEF out
<1>3. \A m \in Range(out) : Genuine(m, S)
  BY <1>2 DEF Genuine, SentAgain
<1>4. QED
  BY <1>1, <1>3, DataIsSegments DEF AllGenuine, out

LEMMA ReceiveReportPartialIntegrity ==
  ASSUME Integrity, NEW e \in Engines, ReceiveReportPartial(e)
  PROVE  Integrity'
<1> DEFINE r == Head(inbox[e])
<1>1. inbox[e] # << >> /\ r \in ReportSegments
  BY IncomingData, KindOfSegment DEF ReceiveReportPartial, Incoming
<1>2. PICK s \in ExportSlots, len \in 0 .. MaxBlock :
        LET sess == exports[e][s]
            pieces == Pieces(Missing(r, BlockLen[sess.block]))
        IN
        /\ First(OpenExports(e, r.number), s)
        /\ \E q \in [1 .. len -> pieces] :
             LET cp == IF len > 0 THEN sess.nextCp + 1 ELSE sess.nextCp IN
             /\ Exchange(e, <<AckOf(e, r)>> \o Retransmission(e, sess, q))
             /\ exports' = [exports EXCEPT ![e][s].nextCp = cp]
  BY ZenonT(60) DEF ReceiveReportPartial
<1> DEFINE sess == exports[e][s]
           M == Missing(r, BlockLen[sess.block])
           cp == IF len > 0 THEN sess.nextCp + 1 ELSE sess.nextCp
           x == [sess EXCEPT !.nextCp = cp]
<1>3. PICK q \in [1 .. len -> Pieces(M)] :
        /\ Exchange(e, <<AckOf(e, r)>> \o Retransmission(e, sess, q))
        /\ exports' = [exports EXCEPT ![e][s].nextCp = cp]
  BY <1>2
<1>4. UNCHANGED <<imports, next, waiting, history>>
  BY DEF ReceiveReportPartial
<1>5. sess \in ExportSessions /\ sess.active = 1
  BY <1>2 DEF Integrity, TypeInv, TypeOK, First, OpenExports
<1>6. sess.block \in Blocks /\ Submission(e, sess.number, sess.block) \in sent
  BY <1>5 DEF Integrity, TypeInv, OpenExportsUsable, Usable, ExportsSent
<1>7. exports' = [exports EXCEPT ![e][s] = x]
  BY <1>3 DEF Integrity, TypeInv, TypeOK
<1>8. len \in Nat /\ M \in SUBSET Offsets
  BY ConstantsAssumption, MissingInBlock
<1> HIDE DEF r, sess, M, cp
<1>9. x.active = sess.active /\ x.number = sess.number /\ x.block = sess.block
  BY <1>5 DEF ExportSessions
<1> HIDE DEF x
<1>10. ExportsSent'
  BY <1>4, <1>7, <1>9, UpdateExportSent DEF sess, history
<1> DEFINE again == Retransmission(e, sess, q)
           out == <<AckOf(e, r)>> \o again
<1>11. AllGenuine(again, sent)
  BY <1>5, <1>6, <1>8, RetransmissionGenuine
<1>12. AckOf(e, r) \in Segments /\ AckOf(e, r).type \notin DataTypes
  BY <1>1, AckType, TypeNumbers
<1>13. <<AckOf(e, r)>> \in Seq(Segments) /\ Range(<<AckOf(e, r)>>) = {AckOf(e, r)}
  BY <1>12, SingleSegment
<1>14. Exchange(e, out)
  BY <1>3
<1> HIDE DEF again
<1> DEFINE ack == <<AckOf(e, r)>>
<1> HIDE DEF ack
<1>15. out \in Seq(Segments) /\ Range(out) = {AckOf(e, r)} \cup Range(again)
  <2>1. ack \in Seq(Segments) /\ again \in Seq(Segments) /\ out = ack \o again
    BY <1>11, <1>13 DEF ack, AllGenuine
  <2> HIDE DEF out
  <2>2. out \in Seq(Segments) /\ Range(out) = Range(ack) \cup Range(again)
    BY <2>1, ConcatOfSeq
  <2>3. QED
    BY <1>13, <2>2 DEF ack
<1> HIDE DEF out
<1>16. \A m \in Range(out) : Genuine(m, sent')
  <2>1. \A m \in Range(again) : Genuine(m, sent')
    BY <1>4, <1>11 DEF AllGenuine, history
  <2>2. Genuine(AckOf(e, r), sent')
    BY <1>12, NoDataGenuine
  <2>3. QED
    BY <1>15, <2>1, <2>2
<1>17. \A b \in Engines : InFlight(b)' \subseteq
         InFlight(b) \cup (IF b \in Hears[e] THEN Range(out) ELSE {})
  BY <1>1, <1>14, <1>15, TypeInvTables, ExchangeLemma DEF Integrity
<1>18. SegmentsGenuine'
  BY <1>4, <1>16, <1>17, GenuineWritten DEF Integrity, history
<1>19. ImportsAgree' /\ DeliveredIntact'
  BY <1>4, MoreSent DEF Integrity, history
<1>20. TypeInv'
  BY ReceiveReportPartialTypes DEF Integrity
<1>21. QED
  BY <1>4, <1>10, <1>18, <1>19, <1>20 DEF Integrity, SentOnce, history

LEMMA CheckpointTimeoutIntegrity ==
  ASSUME Integrity, NEW e \in Engines, NEW i \in TimerSlots, CheckpointTimeout(e, i)
  PROVE  Integrity'
<1>1. PICK s \in ExportSlots :
        /\ First(OpenExports(e, timers[e][i].number), s)
        /\ Transmit(e, <<TailCheckpoint(e, exports[e][s])>>)
        /\ exports' = [exports EXCEPT ![e][s].nextCp = @ + 1]
  BY DEF CheckpointTimeout
<1>2. UNCHANGED <<imports, next, waiting, history>>
  BY DEF CheckpointTimeout
<1> DEFINE sess == exports[e][s]
           x == [sess EXCEPT !.nextCp = @ + 1]
<1>3. sess \in ExportSessions /\ sess.active = 1
  BY <1>1 DEF Integrity, TypeInv, TypeOK, First, OpenExports
<1>4. sess.block \in Blocks /\ Submission(e, sess.number, sess.block) \in sent
  BY <1>3 DEF Integrity, TypeInv, OpenExportsUsable, Usable, ExportsSent
<1>5. exports' = [exports EXCEPT ![e][s] = x]
  BY <1>1 DEF Integrity, TypeInv, TypeOK
<1> HIDE DEF sess
<1>6. x.active = sess.active /\ x.number = sess.number /\ x.block = sess.block
  BY <1>3 DEF ExportSessions
<1> HIDE DEF x
<1>7. ExportsSent'
  BY <1>2, <1>5, <1>6, UpdateExportSent DEF sess, history
<1> DEFINE m == TailCheckpoint(e, sess)
<1>8. m \in Segments /\ Genuine(m, sent')
  BY <1>2, <1>3, <1>4, TailCheckpointType DEF Genuine, Segments, history
<1>9. Transmit(e, <<m>>)
  BY <1>1 DEF sess
<1> HIDE DEF m
<1>10. SegmentsGenuine'
  BY <1>2, <1>8, <1>9, WriteGenuine DEF Integrity, history
<1>11. ImportsAgree' /\ DeliveredIntact'
  BY <1>2, MoreSent DEF Integrity, history
<1>12. TypeInv'
  BY CheckpointTimeoutTypes DEF Integrity
<1>13. QED
  BY <1>2, <1>7, <1>10, <1>11, <1>12 DEF Integrity, SentOnce, history
----------------------------------------------------------------------------
(* Steps that neither submit, nor open or change an export session, nor    *)
(* write data                                                              *)

\* A step that leaves the submissions alone keeps Integrity if it keeps these.
LEMMA KeptIntegrity ==
  ASSUME Integrity, TypeInv', UNCHANGED <<next, sent, delivered>>,
         ExportsSent', SegmentsGenuine', ImportsAgree'
  PROVE  Integrity'
<1>1. SentOnce'
  BY DEF Integrity, SentOnce
<1>2. DeliveredIntact'
  BY MoreSent DEF Integrity
<1>3. QED
  BY <1>1, <1>2 DEF Integrity

LEMMA SameExports ==
  ASSUME Integrity, UNCHANGED <<exports, sent>>
  PROVE  ExportsSent'
  BY DEF Integrity, ExportsSent

LEMMA SameImports ==
  ASSUME Integrity, UNCHANGED <<imports, sent>>
  PROVE  ImportsAgree'
  BY DEF Integrity, ImportsAgree

LEMMA SameLink ==
  ASSUME Integrity, UNCHANGED <<inbox, sent>>
  PROVE  SegmentsGenuine'
  BY DEF Integrity, SegmentsGenuine, InFlight

LEMMA ReturnIntegrity ==
  ASSUME Integrity, NEW e \in Engines, Return(e)
  PROVE  Integrity'
<1>1. UNCHANGED <<exports, imports, timers, next, inbox, sent, delivered, gaveUp>>
  BY DEF Return
<1>2. TypeInv'
  BY ReturnTypes DEF Integrity
<1>3. QED
  BY <1>1, <1>2, SameExports, SameImports, SameLink, KeptIntegrity

LEMMA LoseIntegrity ==
  ASSUME Integrity, NEW e \in Engines, Lose(e)
  PROVE  Integrity'
<1>1. /\ inbox[e] # << >> /\ inbox' = [inbox EXCEPT ![e] = Tail(@)]
      /\ UNCHANGED <<tables, history>>
  BY DEF Lose
<1>2. inbox \in [Engines -> Seq(Segments)]
  BY DEF Integrity, TypeInv, TypeOK
<1>3. ASSUME NEW b \in Engines
      PROVE  InFlight(b)' \subseteq InFlight(b)
  BY <1>1, <1>2, TailOfSeq DEF InFlight
<1>4. SegmentsGenuine'
  BY <1>1, <1>3 DEF Integrity, SegmentsGenuine, history
<1>5. TypeInv'
  BY LoseTypes DEF Integrity
<1>6. QED
  BY <1>1, <1>4, <1>5, SameExports, SameImports, KeptIntegrity DEF tables, history

LEMMA DroppedDataIntegrity ==
  ASSUME Integrity, NEW e \in Engines, ReceiveDataNoSlot(e) \/ ReceiveReportUnknown(e)
  PROVE  Integrity'
<1>1. Exchange(e, << >>) /\ inbox[e] # << >> /\ UNCHANGED <<tables, history>>
  BY DEF ReceiveDataNoSlot, ReceiveReportUnknown, Incoming
<1>2. SegmentsGenuine'
  BY <1>1, DropGenuine DEF Integrity, history
<1>3. TypeInv'
  BY DroppedDataTypes DEF Integrity
<1>4. QED
  BY <1>1, <1>2, <1>3, SameExports, SameImports, KeptIntegrity DEF tables, history

LEMMA ReceiveReportAckIntegrity ==
  ASSUME Integrity, NEW e \in Engines, ReceiveReportAck(e)
  PROVE  Integrity'
<1>1. /\ Exchange(e, << >>) /\ inbox[e] # << >>
      /\ UNCHANGED <<exports, imports, next, waiting, history>>
  BY DEF ReceiveReportAck, Incoming
<1>2. SegmentsGenuine'
  BY <1>1, DropGenuine DEF Integrity, history
<1>3. TypeInv'
  BY ReceiveReportAckTypes DEF Integrity
<1>4. QED
  BY <1>1, <1>2, <1>3, SameExports, SameImports, KeptIntegrity DEF history

\* Cancel segments carry no data.
LEMMA CancelGenuine ==
  ASSUME NEW e \in Engines, NEW n \in Nat, NEW type \in CancelTypes, NEW S
  PROVE  /\ Cancel(type, e, n) \in Segments
         /\ Cancel(type, e, n).type \notin DataTypes
         /\ Genuine(Cancel(type, e, n), S)
<1>1. Cancel(type, e, n) \in Segments /\ Cancel(type, e, n).type = type
  BY AnswerTypes
<1>2. type \notin DataTypes
  BY TypeNumbers
<1>3. QED
  BY <1>1, <1>2 DEF Genuine

LEMMA CancelSessionIntegrity ==
  ASSUME Integrity, NEW e \in Engines, NEW n \in Nat, CancelSession(e, n)
  PROVE  Integrity'
<1>1. PICK s \in ExportSlots : exports' = [exports EXCEPT ![e][s] = Cancelled(@)]
  BY DEF CancelSession
<1>2. Transmit(e, <<Cancel(CancelBySender, e, n)>>) /\ UNCHANGED <<imports, next, waiting, history>>
  BY DEF CancelSession
<1> DEFINE x == Cancelled(exports[e][s])
<1>3. /\ x.active = exports[e][s].active /\ x.number = exports[e][s].number
      /\ x.block = exports[e][s].block
  BY ClosedType DEF Integrity, TypeInv, TypeOK
<1>4. exports' = [exports EXCEPT ![e][s] = x]
  BY <1>1 DEF Integrity, TypeInv, TypeOK
<1> HIDE DEF x
<1>5. ExportsSent'
  BY <1>2, <1>3, <1>4, UpdateExportSent DEF history
<1>6. CancelBySender \in CancelTypes
  BY DEF CancelTypes
<1>7. Cancel(CancelBySender, e, n) \in Segments /\ Genuine(Cancel(CancelBySender, e, n), sent')
  BY <1>6, CancelGenuine
<1>8. SegmentsGenuine'
  BY <1>2, <1>7, WriteGenuine DEF Integrity, history
<1>9. TypeInv'
  BY CancelSessionTypes DEF Integrity
<1>10. QED
  BY <1>2, <1>5, <1>8, <1>9, SameImports, KeptIntegrity DEF history

LEMMA CancelImportIntegrity ==
  ASSUME Integrity, NEW e \in Engines, NEW a, NEW n \in Nat, CancelImport(e, a, n)
  PROVE  Integrity'
<1>1. Transmit(e, <<Cancel(CancelByRecvr, e, n)>>) /\ UNCHANGED <<tables, history>>
  BY DEF CancelImport
<1>2. CancelByRecvr \in CancelTypes
  BY DEF CancelTypes
<1>3. Cancel(CancelByRecvr, e, n) \in Segments /\ Genuine(Cancel(CancelByRecvr, e, n), sent')
  BY <1>2, CancelGenuine
<1>4. SegmentsGenuine'
  BY <1>1, <1>3, WriteGenuine DEF Integrity, history
<1>5. TypeInv'
  BY CancelImportTypes DEF Integrity
<1>6. QED
  BY <1>1, <1>4, <1>5, SameExports, SameImports, KeptIntegrity DEF tables, history

\* The four cancel handlers: each answers with a cancel segment or with nothing,
\* and closes sessions of one table or of neither.
LEMMA ReceiveCancelIntegrity ==
  ASSUME Integrity, NEW e \in Engines,
         \/ ReceiveCancelBySender(e) \/ ReceiveCancelAckSender(e)
         \/ ReceiveCancelByRecvr(e) \/ ReceiveCancelAckRecvr(e)
  PROVE  Integrity'
<1> DEFINE m == Head(inbox[e])
<1>1. Tables /\ TypeInv /\ ExportsSent /\ SegmentsGenuine /\ ImportsAgree
  BY TypeInvTables DEF Integrity
<1>2. TypeInv'
  BY <1>1, ReceiveCancelBySenderTypes, ReceiveCancelAckSenderTypes,
     ReceiveCancelByRecvrTypes, ReceiveCancelAckRecvrTypes
<1>3. inbox[e] # << >> /\ m.number \in Nat
  BY IncomingData, KindOfSegment
     DEF ReceiveCancelBySender, ReceiveCancelAckSender, ReceiveCancelByRecvr,
         ReceiveCancelAckRecvr, Incoming
<1>4. CancelAckSender \in CancelTypes /\ CancelAckRecvr \in CancelTypes
  BY DEF CancelTypes
<1>5. CASE ReceiveCancelBySender(e)
  <2>1. /\ Exchange(e, <<Cancel(CancelAckSender, e, m.number)>>)
        /\ AbandonImport(e, OpenImports(e, m.from, m.number))
        /\ UNCHANGED <<exports, timers, next, waiting, sent, delivered, outcome>>
    BY <1>5 DEF ReceiveCancelBySender
  <2> HIDE DEF m
  <2>2. SegmentsGenuine'
    BY <1>1, <1>3, <1>4, <2>1, CancelGenuine, AnswerGenuine
  <2>3. ImportsAgree'
    BY <1>1, <2>1, AbandonImportAgrees
  <2>4. QED
    BY <1>2, <2>1, <2>2, <2>3, SameExports, KeptIntegrity
<1>6. CASE ReceiveCancelAckSender(e)
  <2>1. /\ Exchange(e, << >>) /\ CancelExport(e, m.number)
        /\ UNCHANGED <<imports, next, waiting, history>>
    BY <1>6 DEF ReceiveCancelAckSender
  <2> HIDE DEF m
  <2>2. SegmentsGenuine'
    BY <1>1, <1>3, <2>1, DropGenuine DEF history
  <2>3. ExportsSent'
    BY <1>1, <2>1, CancelExportSent DEF history
  <2>4. QED
    BY <1>2, <2>1, <2>2, <2>3, SameImports, KeptIntegrity DEF history
<1>7. CASE ReceiveCancelByRecvr(e)
  <2>1. /\ Exchange(e, <<Cancel(CancelAckRecvr, e, m.number)>>)
        /\ CancelExport(e, m.number)
        /\ UNCHANGED <<imports, timers, next, waiting, history>>
    BY <1>7 DEF ReceiveCancelByRecvr
  <2> HIDE DEF m
  <2>2. SegmentsGenuine'
    BY <1>1, <1>3, <1>4, <2>1, CancelGenuine, AnswerGenuine DEF history
  <2>3. ExportsSent'
    BY <1>1, <2>1, CancelExportSent DEF history
  <2>4. QED
    BY <1>2, <2>1, <2>2, <2>3, SameImports, KeptIntegrity DEF history
<1>8. CASE ReceiveCancelAckRecvr(e)
  <2>1. /\ Exchange(e, << >>)
        /\ AbandonImport(e, OpenImports(e, m.from, m.number))
        /\ UNCHANGED <<exports, next, waiting, sent, delivered, outcome>>
    BY <1>8 DEF ReceiveCancelAckRecvr
  <2> HIDE DEF m
  <2>2. SegmentsGenuine'
    BY <1>1, <1>3, <2>1, DropGenuine
  <2>3. ImportsAgree'
    BY <1>1, <2>1, AbandonImportAgrees
  <2>4. QED
    BY <1>2, <2>1, <2>2, <2>3, SameExports, KeptIntegrity
<1>9. QED
  BY <1>5, <1>6, <1>7, <1>8

LEMMA ReportTimeoutIntegrity ==
  ASSUME Integrity, NEW e \in Engines, NEW i \in TimerSlots, ReportTimeout(e, i)
  PROVE  Integrity'
<1>1. PICK s \in ImportSlots :
        Transmit(e, <<ReportOn(e, imports[e][s], timers[e][i].serial, 0,
                               imports[e][s].blockLen)>>)
  BY DEF ReportTimeout
<1>2. UNCHANGED <<exports, imports, next, waiting, history>>
  BY DEF ReportTimeout
<1> DEFINE r == ReportOn(e, imports[e][s], timers[e][i].serial, 0, imports[e][s].blockLen)
<1>3. imports[e][s] \in ImportSessions /\ timers[e][i] \in Timers
  BY DEF Integrity, TypeInv, TypeOK
<1>4. imports[e][s].blockLen \in Nat /\ timers[e][i].serial \in Nat
  BY <1>3 DEF ImportSessions, Timers
<1>5. r \in Segments /\ r.type = Report
  BY <1>3, <1>4, ReportOnType
<1> HIDE DEF r
<1>6. r \in Segments /\ Genuine(r, sent')
  BY <1>5, TypeNumbers DEF Genuine
<1>7. SegmentsGenuine'
  BY <1>1, <1>2, <1>6, WriteGenuine DEF Integrity, r, history
<1>8. TypeInv'
  BY ReportTimeoutTypes DEF Integrity
<1>9. QED
  BY <1>2, <1>7, <1>8, SameExports, SameImports, KeptIntegrity DEF history

LEMMA CancelTimeoutIntegrity ==
  ASSUME Integrity, NEW e \in Engines, NEW i \in TimerSlots, CancelTimeout(e, i)
  PROVE  Integrity'
<1>1. /\ Transmit(e, <<Cancel(CancelBySender, e, timers[e][i].number)>>)
      /\ UNCHANGED <<exports, imports, next, waiting, history>>
  BY DEF CancelTimeout
<1>2. timers[e][i].number \in Nat /\ CancelBySender \in CancelTypes
  BY DEF Integrity, TypeInv, TypeOK, Timers, CancelTypes
<1>3. SegmentsGenuine'
  BY <1>1, <1>2, CancelGenuine, WriteGenuine DEF Integrity, history
<1>4. TypeInv'
  BY CancelTimeoutTypes DEF Integrity
<1>5. QED
  BY <1>1, <1>3, <1>4, SameExports, SameImports, KeptIntegrity DEF history

LEMMA QuietTimeoutIntegrity ==
  ASSUME Integrity, NEW e \in Engines, NEW i \in TimerSlots,
         \/ OrphanTimeout(e, i) \/ CheckpointExhausted(e, i)
         \/ ReportExhausted(e, i) \/ CancelExhausted(e, i)
  PROVE  Integrity'
<1>1. Tables /\ TypeInv /\ ExportsSent /\ ImportsAgree
  BY TypeInvTables DEF Integrity
<1>2. TypeInv'
  BY <1>1, OrphanTimeoutTypes, ExhaustedTypes
<1>3. CASE OrphanTimeout(e, i) \/ CancelExhausted(e, i)
  <2>1. UNCHANGED <<exports, imports, next, waiting, inbox, history>>
    BY <1>3 DEF OrphanTimeout, CancelExhausted
  <2>2. QED
    BY <1>2, <2>1, SameExports, SameImports, SameLink, KeptIntegrity DEF history
<1>4. CASE CheckpointExhausted(e, i)
  <2>1. /\ CancelExport(e, timers[e][i].number)
        /\ UNCHANGED <<imports, next, waiting, inbox, history>>
    BY <1>4 DEF CheckpointExhausted
  <2>2. ExportsSent'
    BY <1>1, <2>1, CancelExportSent DEF history
  <2>3. QED
    BY <1>2, <2>1, <2>2, SameImports, SameLink, KeptIntegrity DEF history
<1>5. CASE ReportExhausted(e, i)
  <2>1. /\ AbandonImport(e, ImportsNumbered(e, timers[e][i].number))
        /\ UNCHANGED <<exports, next, waiting, inbox, sent, delivered, outcome>>
    BY <1>5 DEF ReportExhausted
  <2>2. ImportsAgree'
    BY <1>1, <2>1, AbandonImportAgrees
  <2>3. QED
    BY <1>2, <2>1, <2>2, SameExports, SameLink, KeptIntegrity
<1>6. QED
  BY <1>3, <1>4, <1>5

----------------------------------------------------------------------------

LEMMA StepIntegrity == Integrity /\ [Next]_vars => Integrity'
<1> SUFFICES ASSUME Integrity, [Next]_vars PROVE Integrity'
  OBVIOUS
<1>1. ASSUME NEW e \in Engines, Application(e)
      PROVE  Integrity'
  <2>1. \A x \in Engines : \A n \in 1 .. MaxSessions[x] : n \in Nat
    BY ConstantsAssumption
  <2>2. QED
    BY <1>1, <2>1, SendBlockIntegrity, SendBlockFailsIntegrity, CancelSessionIntegrity,
       CancelImportIntegrity DEF Application
<1>2. ASSUME NEW e \in Engines, Receive(e)
      PROVE  Integrity'
  BY <1>2, DroppedDataIntegrity, ReceiveRedDataIntegrity, ReceiveCheckpointIntegrity,
     ReceiveReportFullIntegrity, ReceiveReportPartialIntegrity, ReceiveReportAckIntegrity,
     ReceiveCancelIntegrity DEF Receive
<1>3. ASSUME NEW e \in Engines, NEW i \in TimerSlots, Timeout(e, i)
      PROVE  Integrity'
  BY <1>3, CheckpointTimeoutIntegrity, ReportTimeoutIntegrity, CancelTimeoutIntegrity,
     QuietTimeoutIntegrity DEF Timeout
<1>4. CASE UNCHANGED vars
  <2>1. UNCHANGED <<exports, imports, timers, next, waiting, inbox, sent, delivered, gaveUp, outcome>>
    BY <1>4 DEF vars, tables, history
  <2>2. TypeInv'
    BY <1>4, StepTypes DEF Integrity
  <2>3. QED
    BY <2>1, <2>2, SameExports, SameImports, SameLink, KeptIntegrity
<1>5. QED
  BY <1>1, <1>2, <1>3, <1>4, ReturnIntegrity, LoseIntegrity DEF Next, Step

\* Whatever is lost, repeated by timers or reports, interleaved with the blocks of
\* other engines, cancelled or abandoned and reopened, on_block_received is called
\* only with the bytes that were given to ltp_send_block under that session.
THEOREM DeliveryIntact == Spec => []DeliveredIntact
<1>1. Integrity => DeliveredIntact
  BY DEF Integrity
<1>2. QED
  BY <1>1, InitIntegrity, StepIntegrity, PTL DEF Spec

----------------------------------------------------------------------------
(* The sender's side of a session: its checkpoint serials and its timer.   *)
(*                                                                         *)
(* Three writers draw checkpoint serials from a session, each in its own   *)
(* way: a new block, a report, a timer.  That the serials ascend in every  *)
(* inbox is inductive with two facts: an open session's next serial is     *)
(* above those of its checkpoints on their way (Serialed), and an engine's *)
(* open sessions have numbers of their own, below the next one             *)
(* (SessionNumbers).  The second also makes the timers sufficient: a report*)
(* or a timer looks its session up by number, and finds the only one.      *)

\* The open sessions of an engine have numbers of their own, given out before.
SessionNumbers ==
  \A e \in Engines :
    /\ \A s \in ExportSlots : exports[e][s].active = 1 => exports[e][s].number < next[e]
    /\ \A s, t \in ExportSlots :
         /\ exports[e][s].active = 1 /\ exports[e][t].active = 1
         /\ exports[e][s].number = exports[e][t].number
         => s = t

\* A checkpoint on its way is of a session that was opened, and its serial is one that
\* the session has used.
Below(m) ==
  /\ m.number < next[m.from]
  /\ \A s \in ExportSlots :
       exports[m.from][s].active = 1 /\ exports[m.from][s].number = m.number =>
         m.cp < exports[m.from][s].nextCp

Serialed == \A b \in Engines : \A m \in InFlight(b) : IsCheckpoint(m) => Below(m)

Serials ==
  /\ TypeInv
  /\ SessionNumbers
  /\ Serialed
  /\ CheckpointSerialsAscend

----------------------------------------------------------------------------
(* Sequences of segments                                                   *)

\* w carries a later serial than m, if both are checkpoints of one session.
After(m, w) ==
  IsCheckpoint(m) /\ IsCheckpoint(w) /\ m.from = w.from /\ m.number = w.number => m.cp < w.cp

Ascends(q) == \A i, j \in DOMAIN q : i < j => After(q[i], q[j])

LEMMA AscendsTail ==
  ASSUME NEW S, NEW q \in Seq(S), q # << >>, Ascends(q)
  PROVE  Ascends(Tail(q))
<1>1. ASSUME NEW i \in DOMAIN Tail(q), NEW j \in DOMAIN Tail(q), i < j
      PROVE  After(Tail(q)[i], Tail(q)[j])
  <2>1. /\ i + 1 \in DOMAIN q /\ j + 1 \in DOMAIN q /\ i + 1 < j + 1
        /\ Tail(q)[i] = q[i + 1] /\ Tail(q)[j] = q[j + 1]
    BY <1>1, SMT
  <2>2. QED
    BY <2>1 DEF Ascends
<1>2. QED
  BY <1>1 DEF Ascends

LEMMA AscendsConcat ==
  ASSUME NEW S, NEW q \in Seq(S), NEW r \in Seq(S), Ascends(q), Ascends(r),
         \A m \in Range(q), w \in Range(r) : After(m, w)
  PROVE  Ascends(q \o r)
<1>1. \A i \in DOMAIN (q \o r) :
        \/ i \in DOMAIN q /\ (q \o r)[i] = q[i]
        \/ i - Len(q) \in DOMAIN r /\ (q \o r)[i] = r[i - Len(q)] /\ i > Len(q)
  BY SMT
<1>2. Len(q) \in Nat /\ DOMAIN q = 1 .. Len(q)
  OBVIOUS
<1>3. ASSUME NEW i \in DOMAIN (q \o r), NEW j \in DOMAIN (q \o r), i < j
      PROVE  After((q \o r)[i], (q \o r)[j])
  <2>0. i \in Nat /\ j \in Nat
    OBVIOUS
  <2>1. CASE i \in DOMAIN q /\ (q \o r)[i] = q[i] /\ j \in DOMAIN q /\ (q \o r)[j] = q[j]
    BY <1>3, <2>1 DEF Ascends
  <2>2. CASE /\ i \in DOMAIN q /\ (q \o r)[i] = q[i]
             /\ j - Len(q) \in DOMAIN r /\ (q \o r)[j] = r[j - Len(q)]
    BY <2>2 DEF Range
  <2>3. CASE /\ i - Len(q) \in DOMAIN r /\ (q \o r)[i] = r[i - Len(q)]
             /\ j - Len(q) \in DOMAIN r /\ (q \o r)[j] = r[j - Len(q)]
    <3>1. i - Len(q) < j - Len(q)
      BY <1>2, <1>3, <2>0
    <3>2. QED
      BY <2>3, <3>1 DEF Ascends
  <2>4. CASE /\ i - Len(q) \in DOMAIN r /\ (q \o r)[i] = r[i - Len(q)] /\ i > Len(q)
             /\ j \in DOMAIN q
    BY <1>2, <1>3, <2>0, <2>4
  <2>5. QED
    BY <1>1, <2>1, <2>2, <2>3, <2>4
<1>4. QED
  BY <1>3 DEF Ascends

\* At most one of the segments is a checkpoint.
Lone(out) ==
  \A i, j \in DOMAIN out : IsCheckpoint(out[i]) /\ IsCheckpoint(out[j]) => i = j

LEMMA LoneAscends ==
  ASSUME NEW S, NEW out \in Seq(S), Lone(out)
  PROVE  Ascends(out)
  BY SMT DEF Lone, Ascends, After

LEMMA AscendsMeans ==
  CheckpointSerialsAscend <=> \A b \in Engines : Ascends(inbox[b])
  BY DEF CheckpointSerialsAscend, Ascends, After

----------------------------------------------------------------------------
(* What a step writes                                                      *)

\* A segment is read or lost, the segments of `out' are written, or nothing.
Moved(out) ==
  \A b \in Engines :
    \/ inbox'[b] = inbox[b]
    \/ inbox[b] # << >> /\ inbox'[b] = Tail(inbox[b])
    \/ inbox'[b] = inbox[b] \o out

LEMMA ExchangeMoves ==
  ASSUME NEW e, inbox[e] # << >>, NEW out, Exchange(e, out)
  PROVE  Moved(out)
  BY DEF Exchange, Moved

LEMMA TransmitMoves ==
  ASSUME NEW e, NEW out, Transmit(e, out)
  PROVE  Moved(out)
  BY DEF Transmit, Moved

\* The checkpoints of `out' come after those on their way.
Later(out) ==
  \A b \in Engines : \A m \in InFlight(b), w \in Range(out) : After(m, w)

\* The sessions that are open were open before under the same number, with a serial
\* that was no higher, or have a number not given out before.
ExportsMoved ==
  \A a \in Engines, s \in ExportSlots : exports'[a][s].active = 1 =>
    \/ /\ exports[a][s].active = 1 /\ exports'[a][s].number = exports[a][s].number
       /\ exports[a][s].nextCp <= exports'[a][s].nextCp
    \/ next[a] <= exports'[a][s].number

\* The parts of Serials that are about the link.
LEMMA LinkSerials ==
  ASSUME Serials, TypeInv', NEW out \in Seq(Segments), Moved(out), Lone(out), Later(out),
         ExportsMoved, \A a \in Engines : next[a] <= next'[a],
         \A w \in Range(out) : IsCheckpoint(w) => Below(w)'
  PROVE  Serialed' /\ CheckpointSerialsAscend'
<1>0. /\ inbox \in [Engines -> Seq(Segments)]
      /\ next \in [Engines -> Nat \ {0}] /\ next' \in [Engines -> Nat \ {0}]
      /\ exports \in [Engines -> [ExportSlots -> ExportSessions]]
      /\ exports' \in [Engines -> [ExportSlots -> ExportSessions]]
  BY DEF Serials, TypeInv, TypeOK
<1>1. ASSUME NEW b \in Engines
      PROVE  Range(inbox'[b]) \subseteq InFlight(b) \cup Range(out)
  <2>1. inbox[b] \in Seq(Segments)
    BY <1>0
  <2>2. CASE inbox'[b] = inbox[b]
    BY <2>2 DEF InFlight
  <2>3. CASE inbox[b] # << >> /\ inbox'[b] = Tail(inbox[b])
    BY <2>1, <2>3, TailOfSeq DEF InFlight
  <2>4. CASE inbox'[b] = inbox[b] \o out
    BY <2>1, <2>4, ConcatOfSeq DEF InFlight
  <2>5. QED
    BY <2>2, <2>3, <2>4 DEF Moved
<1>2. ASSUME NEW m \in Segments, IsCheckpoint(m), Below(m)
      PROVE  Below(m)'
  <2>1. m.from \in Engines /\ m.number \in Nat /\ m.cp \in Nat
    BY <1>2, KindOfSegment, TypeNumbers DEF IsCheckpoint, DataSegments
  <2>2. m.number < next'[m.from]
    BY <1>0, <1>2, <2>1 DEF Below
  <2>3. ASSUME NEW s \in ExportSlots, exports'[m.from][s].active = 1,
               exports'[m.from][s].number = m.number
        PROVE  m.cp < exports'[m.from][s].nextCp
    <3>1. exports'[m.from][s].number < next[m.from]
      BY <1>2, <2>3 DEF Below
    <3>2. ~ (next[m.from] <= exports'[m.from][s].number)
      BY <1>0, <2>1, <2>3, <3>1
    <3>3. /\ exports[m.from][s].active = 1 /\ exports[m.from][s].number = m.number
          /\ exports[m.from][s].nextCp <= exports'[m.from][s].nextCp
      BY <2>1, <2>3, <3>2 DEF ExportsMoved
    <3>4. m.cp < exports[m.from][s].nextCp
      BY <1>2, <3>3 DEF Below
    <3>5. exports[m.from][s].nextCp \in Nat /\ exports'[m.from][s].nextCp \in Nat
      BY <1>0, <2>1 DEF ExportSessions
    <3>6. QED
      BY <2>1, <3>3, <3>4, <3>5
  <2>4. QED
    BY <2>2, <2>3 DEF Below
<1>3. Serialed'
  <2>1. ASSUME NEW b \in Engines, NEW m \in InFlight(b)', IsCheckpoint(m)
        PROVE  Below(m)'
    <3>1. CASE m \in Range(out)
      BY <2>1, <3>1
    <3>2. CASE m \in InFlight(b)
      <4>1. m \in Segments
        BY <1>0, <3>2 DEF InFlight, Range
      <4>2. Below(m)
        BY <2>1, <3>2 DEF Serials, Serialed
      <4>3. QED
        BY <1>2, <2>1, <4>1, <4>2
    <3>3. QED
      BY <1>1, <2>1, <3>1, <3>2 DEF InFlight
  <2>2. QED
    BY <2>1 DEF Serialed
<1>4. ASSUME NEW b \in Engines
      PROVE  Ascends(inbox'[b])
  <2>1. inbox[b] \in Seq(Segments) /\ Ascends(inbox[b])
    BY <1>0, AscendsMeans DEF Serials
  <2>2. CASE inbox[b] # << >> /\ inbox'[b] = Tail(inbox[b])
    BY <2>1, <2>2, AscendsTail
  <2>3. CASE inbox'[b] = inbox[b] \o out
    <3>1. \A m \in Range(inbox[b]), w \in Range(out) : After(m, w)
      BY DEF Later, InFlight
    <3>2. QED
      BY <2>1, <2>3, <3>1, LoneAscends, AscendsConcat
  <2>4. QED
    BY <2>1, <2>2, <2>3 DEF Moved
<1>5. CheckpointSerialsAscend'
  BY <1>4 DEF CheckpointSerialsAscend, Ascends, After
<1>6. QED
  BY <1>3, <1>5

----------------------------------------------------------------------------
(* What a step does to the export sessions                                 *)

\* Sessions stay as they are, close, complete or use up serials.
ExportsKept ==
  \A a \in Engines, s \in ExportSlots : exports'[a][s].active = 1 =>
    /\ exports[a][s].active = 1 /\ exports'[a][s].number = exports[a][s].number
    /\ exports[a][s].nextCp <= exports'[a][s].nextCp
    /\ exports'[a][s].completed = 0 => exports[a][s].completed = 0

LEMMA ExportNumbers ==
  ASSUME TypeInv
  PROVE  \A a \in Engines :
           /\ next[a] \in Nat \ {0}
           /\ \A t \in ExportSlots : exports[a][t].number \in Nat /\ exports[a][t].nextCp \in Nat
<1>1. \A a \in Engines : next[a] \in Nat \ {0}
  BY DEF TypeInv, TypeOK
<1>2. \A a \in Engines, t \in ExportSlots : exports[a][t] \in ExportSessions
  BY DEF TypeInv, TypeOK
<1>3. \A x \in ExportSessions : x.number \in Nat /\ x.nextCp \in Nat
  BY DEF ExportSessions
<1>4. QED
  BY <1>1, <1>2, <1>3

LEMMA ExportsSame ==
  ASSUME TypeInv, UNCHANGED exports
  PROVE  ExportsKept
<1>1. \A a \in Engines, s \in ExportSlots : exports[a][s].nextCp \in Nat
  BY DEF TypeInv, TypeOK, ExportSessions
<1>2. QED
  BY <1>1 DEF ExportsKept

LEMMA ExportReplaced ==
  ASSUME TypeInv, NEW e \in Engines, NEW s \in ExportSlots, NEW x,
         \A a \in Engines, t \in ExportSlots :
           exports'[a][t] = IF a = e /\ t = s THEN x ELSE exports[a][t],
         x.active = exports[e][s].active, x.number = exports[e][s].number,
         exports[e][s].nextCp <= x.nextCp,
         x.completed = 0 => exports[e][s].completed = 0
  PROVE  ExportsKept
<1>1. ASSUME NEW a \in Engines, NEW t \in ExportSlots, exports'[a][t].active = 1
      PROVE  /\ exports[a][t].active = 1 /\ exports'[a][t].number = exports[a][t].number
             /\ exports[a][t].nextCp <= exports'[a][t].nextCp
             /\ exports'[a][t].completed = 0 => exports[a][t].completed = 0
  <2>1. exports'[a][t] = IF a = e /\ t = s THEN x ELSE exports[a][t]
    OBVIOUS
  <2>2. CASE a = e /\ t = s
    BY <1>1, <2>1, <2>2
  <2>3. CASE ~ (a = e /\ t = s)
    <3>1. exports[a][t].nextCp \in Nat
      BY ExportNumbers
    <3>2. QED
      BY <1>1, <2>1, <2>3, <3>1
  <2>4. QED
    BY <2>2, <2>3
<1>2. QED
  BY <1>1 DEF ExportsKept

LEMMA ExportChanged ==
  ASSUME TypeInv, NEW e \in Engines, NEW s \in ExportSlots, NEW x \in ExportSessions,
         exports' = [exports EXCEPT ![e][s] = x],
         x.active = exports[e][s].active, x.number = exports[e][s].number,
         exports[e][s].nextCp <= x.nextCp,
         x.completed = 0 => exports[e][s].completed = 0
  PROVE  ExportsKept
<1>1. \A a \in Engines, t \in ExportSlots :
        exports'[a][t] = IF a = e /\ t = s THEN x ELSE exports[a][t]
  BY DEF TypeInv, TypeOK
<1>2. QED
  BY <1>1, ExportReplaced

\* The first open session with a number is the only one, and is closed.
LEMMA ExportsClosed ==
  ASSUME TypeInv, SessionNumbers, NEW e \in Engines, NEW n, CancelExport(e, n)
  PROVE  /\ ExportsKept
         /\ \A s \in ExportSlots : exports'[e][s].active = 1 => exports'[e][s].number # n
<1>1. Tables
  BY TypeInvTables
<1>2. ASSUME NEW a \in Engines, NEW s \in ExportSlots, exports'[a][s].active = 1
      PROVE  exports'[a][s] = exports[a][s]
  <2>1. exports'[a][s] \in {exports[a][s], Closed(exports[a][s])}
    BY <1>1 DEF CancelExport, Tables
  <2>2. Closed(exports[a][s]).active = 0
    BY <1>1, ClosedType DEF Tables
  <2>3. QED
    BY <1>2, <2>1, <2>2
<1>3. ExportsKept
  <2>1. \A a \in Engines, s \in ExportSlots : exports[a][s].nextCp \in Nat
    BY DEF TypeInv, TypeOK, ExportSessions
  <2>2. QED
    BY <1>2, <2>1 DEF ExportsKept
<1>4. ASSUME NEW s \in ExportSlots, exports'[e][s].active = 1, exports'[e][s].number = n
      PROVE  FALSE
  <2>1. exports[e][s].active = 1 /\ exports[e][s].number = n
    BY <1>2, <1>4
  <2>2. s \in OpenExports(e, n) /\ \A t \in OpenExports(e, n) : t = s
    BY <2>1 DEF OpenExports, SessionNumbers
  <2>3. s \in Nat
    BY ConstantsAssumption DEF ExportSlots
  <2>4. First(OpenExports(e, n), s)
    BY <2>2, <2>3 DEF First
  <2>5. exports'[e][s] = Closed(exports[e][s])
    BY <1>1, <2>4 DEF CancelExport, Tables
  <2>6. Closed(exports[e][s]).active = 0
    BY <1>1, ClosedType DEF Tables
  <2>7. QED
    BY <1>4, <2>5, <2>6
<1>5. QED
  BY <1>3, <1>4

LEMMA NumbersKept ==
  ASSUME SessionNumbers, ExportsKept, UNCHANGED next
  PROVE  SessionNumbers'
<1>1. ASSUME NEW e \in Engines, NEW s \in ExportSlots, exports'[e][s].active = 1
      PROVE  exports[e][s].active = 1 /\ exports'[e][s].number = exports[e][s].number
  BY <1>1 DEF ExportsKept
<1>2. QED
  BY <1>1 DEF SessionNumbers

\* A checkpoint of `out' takes the next serial of its session, which goes on after it.
Fresh(e, out) ==
  \A w \in Range(out) : IsCheckpoint(w) =>
    /\ w.from = e
    /\ \E s \in ExportSlots :
         /\ exports[e][s].active = 1 /\ exports[e][s].number = w.number
         /\ w.cp = exports[e][s].nextCp
         /\ w.cp < exports'[e][s].nextCp

LEMMA FreshSerials ==
  ASSUME Serials, TypeInv', ExportsKept, UNCHANGED next, NEW e \in Engines,
         NEW out \in Seq(Segments), Moved(out), Lone(out), Fresh(e, out)
  PROVE  Serials'
<1>1. /\ TypeInv /\ SessionNumbers
      /\ next \in [Engines -> Nat \ {0}]
  BY DEF Serials, TypeInv, TypeOK
<1>2. SessionNumbers'
  BY <1>1, NumbersKept
<1>3. ASSUME NEW b \in Engines, NEW m \in InFlight(b), NEW w \in Range(out)
      PROVE  After(m, w)
  <2> SUFFICES ASSUME IsCheckpoint(m), IsCheckpoint(w), m.from = w.from, m.number = w.number
               PROVE  m.cp < w.cp
    BY DEF After
  <2>1. PICK s \in ExportSlots :
          /\ exports[e][s].active = 1 /\ exports[e][s].number = w.number
          /\ w.cp = exports[e][s].nextCp
    BY DEF Fresh
  <2>2. w.from = e /\ Below(m)
    BY DEF Fresh, Serials, Serialed
  <2>3. QED
    BY <2>1, <2>2 DEF Below
<1>4. ASSUME NEW w \in Range(out), IsCheckpoint(w)
      PROVE  Below(w)'
  <2>1. PICK s \in ExportSlots :
          /\ exports[e][s].active = 1 /\ exports[e][s].number = w.number
          /\ w.cp < exports'[e][s].nextCp
    BY <1>4 DEF Fresh
  <2>2. w.from = e
    BY <1>4 DEF Fresh
  <2>3. w.number < next'[e]
    BY <1>1, <2>1 DEF SessionNumbers
  <2>4. ASSUME NEW t \in ExportSlots, exports'[e][t].active = 1, exports'[e][t].number = w.number
        PROVE  w.cp < exports'[e][t].nextCp
    <3>1. exports[e][t].active = 1 /\ exports[e][t].number = w.number
      BY <2>4 DEF ExportsKept
    <3>2. t = s
      BY <1>1, <2>1, <3>1 DEF SessionNumbers
    <3>3. QED
      BY <2>1, <3>2
  <2>5. QED
    BY <2>2, <2>3, <2>4 DEF Below
<1>5. ExportsMoved
  BY DEF ExportsKept, ExportsMoved
<1>6. \A a \in Engines : next[a] <= next'[a]
  BY <1>1
<1>7. Later(out)
  BY <1>3 DEF Later
<1>8. Serialed' /\ CheckpointSerialsAscend'
  BY <1>4, <1>5, <1>6, <1>7, LinkSerials
<1>9. QED
  BY <1>2, <1>8 DEF Serials

LEMMA PlainSerials ==
  ASSUME Serials, TypeInv', ExportsKept, UNCHANGED next,
         NEW out \in Seq(Segments), Moved(out),
         \A m \in Range(out) : ~ IsCheckpoint(m), NEW e \in Engines
  PROVE  Serials'
<1>1. Lone(out) /\ Fresh(e, out)
  BY DEF Lone, Fresh, Range
<1>2. QED
  BY <1>1, FreshSerials

LEMMA QuietSerials ==
  ASSUME Serials, TypeInv', ExportsKept, UNCHANGED next, Moved(<< >>), NEW e \in Engines
  PROVE  Serials'
  BY NothingWritten, PlainSerials

LEMMA AnswerSerials ==
  ASSUME Serials, TypeInv', ExportsKept, UNCHANGED next, NEW m \in Segments, Moved(<<m>>),
         ~ IsCheckpoint(m), NEW e \in Engines
  PROVE  Serials'
  BY SingleSegment, PlainSerials

----------------------------------------------------------------------------
(* Opening a session                                                       *)

LEMMA OpeningExports ==
  ASSUME TypeInv, NEW e \in Engines, NEW b \in Blocks, NEW s \in ExportSlots,
         OpenExport(e, b, s)
  PROVE  /\ next[e] \in Nat \ {0} /\ next'[e] = next[e] + 1
         /\ \A a \in Engines : a # e => next'[a] = next[a]
         /\ \A a \in Engines, t \in ExportSlots :
              IF a = e /\ t = s
              THEN /\ exports'[a][t].active = 1 /\ exports'[a][t].number = next[e]
                   /\ exports'[a][t].nextCp = 2 /\ exports'[a][t].completed = 0
              ELSE exports'[a][t] = exports[a][t]
<1>1. next[e] \in Nat \ {0} /\ next'[e] = next[e] + 1
  BY DEF TypeInv, TypeOK, OpenExport
<1>2. \A a \in Engines : a # e => next'[a] = next[a]
  BY DEF TypeInv, TypeOK, OpenExport
<1> DEFINE x == [active |-> 1, number |-> next[e], block |-> b, nextCp |-> 2,
                 completed |-> 0, cancelled |-> 0]
<1>3. exports' = [exports EXCEPT ![e][s] = x]
  BY DEF OpenExport
<1>4. x.active = 1 /\ x.number = next[e] /\ x.nextCp = 2 /\ x.completed = 0
  OBVIOUS
<1> HIDE DEF x
<1>5. \A a \in Engines, t \in ExportSlots :
        exports'[a][t] = IF a = e /\ t = s THEN x ELSE exports[a][t]
  BY <1>3 DEF TypeInv, TypeOK
<1>6. QED
  BY <1>1, <1>2, <1>4, <1>5

LEMMA OpeningNumbers ==
  ASSUME TypeInv, SessionNumbers, NEW e \in Engines, NEW b \in Blocks, NEW s \in ExportSlots,
         OpenExport(e, b, s)
  PROVE  SessionNumbers'
<1>1. /\ next[e] \in Nat \ {0} /\ next'[e] = next[e] + 1
      /\ \A a \in Engines : a # e => next'[a] = next[a]
      /\ \A a \in Engines, t \in ExportSlots :
           IF a = e /\ t = s
           THEN exports'[a][t].active = 1 /\ exports'[a][t].number = next[e]
           ELSE exports'[a][t] = exports[a][t]
  BY OpeningExports
<1>2. \A a \in Engines, t \in ExportSlots :
        exports[a][t].number \in Nat /\ next[a] \in Nat
  BY ExportNumbers
<1>3. ASSUME NEW a \in Engines, NEW t \in ExportSlots, exports'[a][t].active = 1
      PROVE  exports'[a][t].number < next'[a]
  <2>1. CASE a = e /\ t = s
    BY <1>1, <2>1
  <2>2. CASE ~ (a = e /\ t = s)
    <3>1. exports[a][t].active = 1 /\ exports'[a][t].number = exports[a][t].number
      BY <1>1, <1>3, <2>2
    <3>2. exports[a][t].number < next[a]
      BY <3>1 DEF SessionNumbers
    <3>3. next'[a] = next[a] \/ next'[a] = next[a] + 1
      BY <1>1
    <3>4. QED
      BY <1>2, <3>1, <3>2, <3>3
  <2>3. QED
    BY <2>1, <2>2
<1>4. ASSUME NEW a \in Engines, NEW t \in ExportSlots, NEW u \in ExportSlots,
             exports'[a][t].active = 1, exports'[a][u].active = 1,
             exports'[a][t].number = exports'[a][u].number
      PROVE  t = u
  <2>1. ASSUME NEW v \in ExportSlots, exports'[a][v].active = 1, ~ (a = e /\ v = s)
        PROVE  /\ exports[a][v].active = 1 /\ exports'[a][v].number = exports[a][v].number
               /\ a = e => exports'[a][v].number # next[e]
    <3>1. exports[a][v].active = 1 /\ exports'[a][v].number = exports[a][v].number
      BY <1>1, <2>1
    <3>2. exports[a][v].number < next[a]
      BY <3>1 DEF SessionNumbers
    <3>3. QED
      BY <1>2, <3>1, <3>2
  <2>2. CASE (a = e /\ t = s) \/ (a = e /\ u = s)
    BY <1>1, <1>4, <2>1, <2>2
  <2>3. CASE ~ (a = e /\ t = s) /\ ~ (a = e /\ u = s)
    <3>1. /\ exports[a][t].active = 1 /\ exports[a][u].active = 1
          /\ exports[a][t].number = exports[a][u].number
      BY <1>4, <2>1, <2>3
    <3>2. QED
      BY <3>1 DEF SessionNumbers
  <2>4. QED
    BY <2>2, <2>3
<1>5. QED
  BY <1>3, <1>4 DEF SessionNumbers

\* Checkpoint 1 of a new session: no other checkpoint of it is on its way.
LEMMA OpeningSerials ==
  ASSUME Serials, TypeInv', NEW e \in Engines, NEW b \in Blocks, NEW s \in ExportSlots,
         OpenExport(e, b, s), NEW out \in Seq(Segments), Moved(out), Lone(out),
         \A w \in Range(out) :
           w.from = e /\ w.number = next[e] /\ (IsCheckpoint(w) => w.cp = 1)
  PROVE  Serials'
<1>1. TypeInv /\ SessionNumbers
  BY DEF Serials
<1>2. /\ next[e] \in Nat \ {0} /\ next'[e] = next[e] + 1
      /\ \A a \in Engines : a # e => next'[a] = next[a]
      /\ \A a \in Engines, t \in ExportSlots :
           IF a = e /\ t = s
           THEN /\ exports'[a][t].active = 1 /\ exports'[a][t].number = next[e]
                /\ exports'[a][t].nextCp = 2
           ELSE exports'[a][t] = exports[a][t]
  BY <1>1, OpeningExports
<1>3. SessionNumbers'
  BY <1>1, OpeningNumbers
<1>4. \A a \in Engines, t \in ExportSlots :
        /\ exports[a][t].number \in Nat /\ next[a] \in Nat
        /\ exports[a][t].nextCp \in Nat
  BY <1>1, ExportNumbers
<1>5. ASSUME NEW m, IsCheckpoint(m), Below(m), NEW w \in Range(out)
      PROVE  After(m, w)
  <2>1. m.from = e => m.number < next[e]
    BY <1>5 DEF Below
  <2>2. m.from = e => m.number # next[e]
    BY <1>2, <2>1
  <2>3. QED
    BY <2>2 DEF After
<1>6. Later(out)
  BY <1>5 DEF Later, Serials, Serialed, After
<1>7. ASSUME NEW w \in Range(out), IsCheckpoint(w)
      PROVE  Below(w)'
  <2>1. w.from = e /\ w.number = next[e] /\ w.cp = 1
    BY <1>7
  <2>2. w.number < next'[e]
    BY <1>2, <2>1
  <2>3. ASSUME NEW t \in ExportSlots, exports'[e][t].active = 1, exports'[e][t].number = w.number
        PROVE  w.cp < exports'[e][t].nextCp
    <3>1. t = s
      <4>1. exports'[e][s].active = 1 /\ exports'[e][s].number = w.number
        BY <1>2, <2>1
      <4>2. QED
        BY <1>3, <2>3, <4>1 DEF SessionNumbers
    <3>2. exports'[e][t].nextCp = 2
      BY <1>2, <3>1
    <3>3. QED
      BY <2>1, <3>2
  <2>4. QED
    BY <2>1, <2>2, <2>3 DEF Below
<1>8. ExportsMoved
  <2>1. ASSUME NEW a \in Engines, NEW t \in ExportSlots, exports'[a][t].active = 1
        PROVE  \/ /\ exports[a][t].active = 1 /\ exports'[a][t].number = exports[a][t].number
                  /\ exports[a][t].nextCp <= exports'[a][t].nextCp
               \/ next[a] <= exports'[a][t].number
    <3>1. CASE a = e /\ t = s
      BY <1>2, <3>1
    <3>2. CASE ~ (a = e /\ t = s)
      <4>1. exports'[a][t] = exports[a][t]
        BY <1>2, <3>2
      <4>2. QED
        BY <1>4, <2>1, <4>1
    <3>3. QED
      BY <3>1, <3>2
  <2>2. QED
    BY <2>1 DEF ExportsMoved
<1>9. \A a \in Engines : next[a] <= next'[a]
  <2>1. \A a \in Engines : next'[a] = next[a] \/ next'[a] = next[a] + 1
    BY <1>2
  <2>2. \A a \in Engines : next[a] \in Nat
    BY <1>1, ExportNumbers
  <2>3. QED
    BY <2>1, <2>2
<1>10. Serialed' /\ CheckpointSerialsAscend'
  BY <1>6, <1>7, <1>8, <1>9, LinkSerials
<1>11. QED
  BY <1>3, <1>10 DEF Serials

\* Only the last segment of a block is a checkpoint, and its serial is 1.
LEMMA BlockSegmentsSerial ==
  ASSUME NEW e \in Engines, NEW n \in Nat, NEW b \in Blocks, NEW count \in 1 .. MaxBlock
  PROVE  /\ DOMAIN BlockSegments(e, n, b, count) = 1 .. count
         /\ \A k \in 1 .. count : IsCheckpoint(BlockSegments(e, n, b, count)[k]) =>
              k = count /\ BlockSegments(e, n, b, count)[k].cp = 1
<1>1. DOMAIN BlockSegments(e, n, b, count) = 1 .. count
  BY DEF BlockSegments
<1>2. ASSUME NEW k \in 1 .. count
      PROVE  /\ BlockSegments(e, n, b, count)[k].type
                  = IF k = count THEN RedDataEorpCp ELSE RedData
             /\ BlockSegments(e, n, b, count)[k].cp = IF k = count THEN 1 ELSE 0
  BY DEF BlockSegments
<1>3. QED
  BY <1>1, <1>2, TypeNumbers DEF IsCheckpoint

LEMMA SendBlockSerials ==
  ASSUME Serials, TypeInv', NEW e \in Engines, NEW b \in Blocks, SendBlock(e, b)
  PROVE  Serials'
<1>1. PICK s \in ExportSlots, count \in 1 .. MaxBlock :
        /\ SegmentCount(BlockLen[b], count)
        /\ OpenExport(e, b, s)
        /\ Transmit(e, BlockSegments(e, next[e], b, count))
  BY DEF SendBlock
<1> DEFINE out == BlockSegments(e, next[e], b, count)
<1>2. next[e] \in Nat
  BY DEF Serials, TypeInv, TypeOK
<1>3. /\ out \in Seq(Segments)
      /\ \A w \in Range(out) : w.from = e /\ w.number = next[e]
  BY <1>1, <1>2, BlockSegmentsType, DataIsSegments
<1>4. /\ DOMAIN out = 1 .. count
      /\ \A k \in 1 .. count : IsCheckpoint(out[k]) => k = count /\ out[k].cp = 1
  BY <1>2, BlockSegmentsSerial
<1>5. Moved(out)
  BY <1>1, TransmitMoves
<1> HIDE DEF out
<1>6. Lone(out)
  BY <1>4 DEF Lone
<1>7. \A w \in Range(out) :
        w.from = e /\ w.number = next[e] /\ (IsCheckpoint(w) => w.cp = 1)
  BY <1>3, <1>4 DEF Range
<1>8. QED
  BY <1>1, <1>3, <1>5, <1>6, <1>7, OpeningSerials

LEMMA SendBlockFailsSerials ==
  ASSUME Serials, TypeInv', NEW e \in Engines, NEW b \in Blocks, SendBlockFails(e, b)
  PROVE  Serials'
<1>0. PICK s \in ExportSlots, count \in 1 .. MaxBlock : \E k \in 0 .. (count - 1) :
        /\ SegmentCount(BlockLen[b], count)
        /\ OpenExport(e, b, s)
        /\ Transmit(e, SubSeq(BlockSegments(e, next[e], b, count), 1, k))
  BY DEF SendBlockFails
<1>1. PICK k \in 0 .. (count - 1) :
        /\ SegmentCount(BlockLen[b], count)
        /\ OpenExport(e, b, s)
        /\ Transmit(e, SubSeq(BlockSegments(e, next[e], b, count), 1, k))
  BY <1>0
<1> DEFINE all == BlockSegments(e, next[e], b, count)
           out == SubSeq(all, 1, k)
<1>2. next[e] \in Nat /\ k \in Nat /\ count \in Nat /\ k < count
  BY ConstantsAssumption DEF Serials, TypeInv, TypeOK
<1>3. /\ all \in Seq(Segments)
      /\ \A w \in Range(all) : w.from = e /\ w.number = next[e]
  BY <1>1, <1>2, BlockSegmentsType, DataIsSegments
<1>4. /\ DOMAIN all = 1 .. count
      /\ \A i \in 1 .. count : IsCheckpoint(all[i]) => i = count /\ all[i].cp = 1
  BY <1>2, BlockSegmentsSerial
<1>5. Moved(out)
  BY <1>1, TransmitMoves
<1> HIDE DEF all
<1>6. Len(all) = count
  BY <1>2, <1>3, <1>4
<1>7. /\ out \in Seq(Segments)
      /\ DOMAIN out = 1 .. k
      /\ \A i \in 1 .. k : out[i] = all[i]
  BY <1>2, <1>3, <1>6, FirstSegments, SMT
<1> HIDE DEF out
<1>8. \A i \in 1 .. k : i \in 1 .. count /\ i # count
  BY <1>2
<1>9. \A i \in DOMAIN out :
        /\ ~ IsCheckpoint(out[i])
        /\ out[i].from = e /\ out[i].number = next[e]
  <2>1. \A i \in 1 .. k : all[i] \in Range(all)
    BY <1>4, <1>8 DEF Range
  <2>2. QED
    BY <1>3, <1>4, <1>7, <1>8, <2>1
<1>10. Lone(out)
  BY <1>9 DEF Lone
<1>11. \A w \in Range(out) :
         w.from = e /\ w.number = next[e] /\ (IsCheckpoint(w) => w.cp = 1)
  BY <1>9 DEF Range
<1>12. QED
  BY <1>1, <1>5, <1>7, <1>10, <1>11, OpeningSerials

----------------------------------------------------------------------------
(* Going on with a session                                                 *)

LEMMA SerialsInTables ==
  Serials => TypeInv /\ Tables
  BY TypeInvTables DEF Serials

LEMMA CheckpointTimeoutSerials ==
  ASSUME Serials, TypeInv', NEW e \in Engines, NEW i \in TimerSlots, CheckpointTimeout(e, i)
  PROVE  Serials'
<1>1. PICK s \in ExportSlots :
        /\ First(OpenExports(e, timers[e][i].number), s)
        /\ Transmit(e, <<TailCheckpoint(e, exports[e][s])>>)
        /\ exports' = [exports EXCEPT ![e][s].nextCp = @ + 1]
  BY DEF CheckpointTimeout
<1> DEFINE sess == exports[e][s]
           x == [sess EXCEPT !.nextCp = @ + 1]
           m == TailCheckpoint(e, sess)
<1>2. TypeInv /\ sess \in ExportSessions /\ sess.active = 1
  BY <1>1, SerialsInTables DEF Tables, First, OpenExports
<1>3. sess.block \in Blocks /\ sess.nextCp \in Nat
  BY <1>2 DEF TypeInv, OpenExportsUsable, Usable, ExportSessions
<1>4. exports' = [exports EXCEPT ![e][s] = x]
  BY <1>1, <1>2 DEF TypeInv, TypeOK
<1>5. /\ m.from = e /\ m.number = sess.number /\ m.cp = sess.nextCp
      /\ m \in Segments
  BY <1>2, <1>3, TailCheckpointType DEF TailCheckpoint, Segments
<1>6. exports'[e][s] = x
  BY <1>2, <1>4 DEF TypeInv, TypeOK
<1>7. Moved(<<m>>)
  BY <1>1, TransmitMoves
<1> HIDE DEF sess, m
<1>8. /\ x \in ExportSessions /\ x.active = sess.active /\ x.number = sess.number
      /\ x.nextCp = sess.nextCp + 1 /\ x.completed = sess.completed
  BY <1>2, <1>3 DEF ExportSessions
<1> HIDE DEF x
<1>9. sess.nextCp <= x.nextCp /\ sess.nextCp < x.nextCp
  BY <1>3, <1>8
<1>10. ExportsKept
  BY <1>2, <1>4, <1>8, <1>9, ExportChanged DEF sess
<1>11. /\ <<m>> \in Seq(Segments) /\ Range(<<m>>) = {m}
       /\ DOMAIN <<m>> = {1}
  BY <1>5, SingleSegment
<1>12. Lone(<<m>>)
  BY <1>11 DEF Lone
<1>13. Fresh(e, <<m>>)
  BY <1>2, <1>5, <1>6, <1>9, <1>11 DEF Fresh, sess
<1>14. UNCHANGED next
  BY DEF CheckpointTimeout
<1>15. QED
  BY <1>7, <1>10, <1>11, <1>12, <1>13, <1>14, FreshSerials

\* What answers a report: the acknowledgement first.
LEMMA AnswerThen ==
  ASSUME NEW S, NEW a \in S, NEW r \in Seq(S)
  PROVE  /\ <<a>> \o r \in Seq(S)
         /\ \A i \in DOMAIN (<<a>> \o r) :
              \/ (<<a>> \o r)[i] = a
              \/ i - 1 \in DOMAIN r /\ (<<a>> \o r)[i] = r[i - 1]
  BY SMT

\* Only the last segment sent again is a checkpoint, under the session's next serial.
LEMMA RetransmissionSerial ==
  ASSUME NEW e \in Engines, NEW sess, NEW M, NEW len \in Nat,
         NEW q \in [1 .. len -> Pieces(M)]
  PROVE  /\ DOMAIN Retransmission(e, sess, q) = 1 .. len
         /\ \A k \in 1 .. len : IsCheckpoint(Retransmission(e, sess, q)[k]) =>
              /\ k = len
              /\ Retransmission(e, sess, q)[k].from = e
              /\ Retransmission(e, sess, q)[k].number = sess.number
              /\ Retransmission(e, sess, q)[k].cp = sess.nextCp
<1>1. Len(q) = len /\ DOMAIN q = 1 .. len
  OBVIOUS
<1>2. DOMAIN Retransmission(e, sess, q) = 1 .. len
  BY <1>1 DEF Retransmission
<1>3. ASSUME NEW k \in 1 .. len
      PROVE  /\ Retransmission(e, sess, q)[k].type = IF k = len THEN RedDataCp ELSE RedData
             /\ Retransmission(e, sess, q)[k].from = e
             /\ Retransmission(e, sess, q)[k].number = sess.number
             /\ Retransmission(e, sess, q)[k].cp = IF k = len THEN sess.nextCp ELSE 0
  BY <1>1 DEF Retransmission
<1>4. QED
  BY <1>2, <1>3, TypeNumbers DEF IsCheckpoint

LEMMA ReceiveReportPartialSerials ==
  ASSUME Serials, TypeInv', NEW e \in Engines, ReceiveReportPartial(e)
  PROVE  Serials'
<1> DEFINE r == Head(inbox[e])
<1>1. TypeInv /\ inbox[e] # << >> /\ r \in ReportSegments
  BY SerialsInTables, HeadType, KindOfSegment DEF ReceiveReportPartial, Incoming
<1>2. PICK s \in ExportSlots, len \in 0 .. MaxBlock :
        LET sess == exports[e][s]
            pieces == Pieces(Missing(r, BlockLen[sess.block]))
        IN
        /\ First(OpenExports(e, r.number), s)
        /\ \E q \in [1 .. len -> pieces] :
             LET cp == IF len > 0 THEN sess.nextCp + 1 ELSE sess.nextCp IN
             /\ Exchange(e, <<AckOf(e, r)>> \o Retransmission(e, sess, q))
             /\ exports' = [exports EXCEPT ![e][s].nextCp = cp]
  BY DEF ReceiveReportPartial
<1> DEFINE sess == exports[e][s]
           M == Missing(r, BlockLen[sess.block])
           cp == IF len > 0 THEN sess.nextCp + 1 ELSE sess.nextCp
           x == [sess EXCEPT !.nextCp = cp]
<1>3. PICK q \in [1 .. len -> Pieces(M)] :
        /\ Exchange(e, <<AckOf(e, r)>> \o Retransmission(e, sess, q))
        /\ exports' = [exports EXCEPT ![e][s].nextCp = cp]
  BY <1>2
<1>4. sess \in ExportSessions /\ sess.active = 1
  BY <1>1, <1>2 DEF TypeInv, TypeOK, First, OpenExports
<1>5. sess.block \in Blocks /\ sess.nextCp \in Nat
  BY <1>1, <1>4 DEF TypeInv, OpenExportsUsable, Usable, ExportSessions
<1>6. len \in Nat /\ M \in SUBSET Offsets
  BY ConstantsAssumption, MissingInBlock
<1>7. exports' = [exports EXCEPT ![e][s] = x]
  BY <1>1, <1>3 DEF TypeInv, TypeOK
<1>8. exports'[e][s] = x
  BY <1>1, <1>7 DEF TypeInv, TypeOK
<1> DEFINE again == Retransmission(e, sess, q)
           out == <<AckOf(e, r)>> \o again
<1>9. Moved(out)
  BY <1>1, <1>3, ExchangeMoves
<1>10. cp \in Nat /\ sess.nextCp <= cp /\ (len > 0 => sess.nextCp < cp)
  BY <1>5, <1>6
<1> HIDE DEF r, sess, M, cp
<1>11. /\ AckOf(e, r) \in Segments /\ AckOf(e, r).type = ReportAck
       /\ again \in Seq(Segments)
  BY <1>1, <1>4, <1>5, <1>6, AckType, RetransmissionType, DataIsSegments
<1>12. /\ x \in ExportSessions /\ x.active = sess.active /\ x.number = sess.number
       /\ x.nextCp = cp /\ x.completed = sess.completed
  BY <1>4, <1>10 DEF ExportSessions
<1> HIDE DEF x
<1>13. /\ DOMAIN again = 1 .. len
       /\ \A k \in 1 .. len : IsCheckpoint(again[k]) =>
            /\ k = len /\ again[k].from = e /\ again[k].number = sess.number
            /\ again[k].cp = sess.nextCp
  <2>1. q \in [1 .. len -> Pieces(M)] /\ len \in Nat
    BY <1>6
  <2>2. /\ DOMAIN again = 1 .. len
        /\ \A k \in 1 .. len : IsCheckpoint(again[k]) =>
             /\ k = len
             /\ again[k].from = e
             /\ again[k].number = sess.number
             /\ again[k].cp = sess.nextCp
    BY <2>1, RetransmissionSerial
  <2>3. QED
    BY <2>2
<1> HIDE DEF again
<1>14. ~ IsCheckpoint(AckOf(e, r))
  BY <1>11, TypeNumbers DEF IsCheckpoint
<1>15. /\ out \in Seq(Segments)
       /\ \A i \in DOMAIN out :
            \/ out[i] = AckOf(e, r)
            \/ i - 1 \in DOMAIN again /\ out[i] = again[i - 1]
  BY <1>11, AnswerThen
<1> HIDE DEF out
<1>16. \A i \in DOMAIN out : IsCheckpoint(out[i]) =>
         /\ i - 1 = len /\ len \in 1 .. len
         /\ out[i].from = e /\ out[i].number = sess.number /\ out[i].cp = sess.nextCp
  BY <1>13, <1>14, <1>15
<1>17. DOMAIN out \subseteq Nat
  BY <1>15
<1>18. Lone(out)
  <2>1. ASSUME NEW i \in DOMAIN out, NEW j \in DOMAIN out, i - 1 = len, j - 1 = len
        PROVE  i = j
    BY <1>6, <1>17, <2>1
  <2>2. QED
    BY <1>16, <2>1 DEF Lone
<1>19. len \in 1 .. len => len > 0
  BY <1>6
<1>20. \A w \in Range(out) : IsCheckpoint(w) =>
         w.from = e /\ w.number = sess.number /\ w.cp = sess.nextCp /\ sess.nextCp < cp
  BY <1>10, <1>16, <1>19 DEF Range
<1>21. Fresh(e, out)
  BY <1>4, <1>8, <1>12, <1>20 DEF Fresh, sess
<1>22. ExportsKept
  BY <1>1, <1>7, <1>10, <1>12, ExportChanged DEF sess
<1>23. UNCHANGED next
  BY DEF ReceiveReportPartial
<1>24. QED
  BY <1>9, <1>15, <1>18, <1>21, <1>22, <1>23, FreshSerials

LEMMA ReceiveReportFullKeeps ==
  ASSUME TypeInv, NEW e \in Engines, NEW s \in ExportSlots,
         exports' = [exports EXCEPT ![e][s].completed = 1]
  PROVE  ExportsKept /\ exports'[e][s].completed = 1
<1> DEFINE x == [exports[e][s] EXCEPT !.completed = 1]
<1>1. exports[e][s] \in ExportSessions /\ exports[e][s].nextCp \in Nat
  BY ExportNumbers DEF TypeInv, TypeOK
<1>2. \A a \in Engines, t \in ExportSlots :
        exports'[a][t] = IF a = e /\ t = s THEN x ELSE exports[a][t]
  BY DEF TypeInv, TypeOK
<1>3. /\ x.active = exports[e][s].active /\ x.number = exports[e][s].number
      /\ x.nextCp = exports[e][s].nextCp /\ x.completed = 1
  BY <1>1 DEF ExportSessions
<1> HIDE DEF x
<1>4. /\ exports[e][s].nextCp <= x.nextCp
      /\ x.completed = 0 => exports[e][s].completed = 0
  BY <1>1, <1>3
<1>5. ExportsKept
  BY <1>2, <1>3, <1>4, ExportReplaced
<1>6. exports'[e][s].completed = 1
  BY <1>2, <1>3
<1>7. QED
  BY <1>5, <1>6

LEMMA ReceiveReportFullSerials ==
  ASSUME Serials, TypeInv', NEW e \in Engines, ReceiveReportFull(e)
  PROVE  Serials'
<1> DEFINE r == Head(inbox[e])
<1>1. TypeInv /\ inbox[e] # << >> /\ r \in ReportSegments
  BY SerialsInTables, HeadType, KindOfSegment DEF ReceiveReportFull, Incoming
<1>2. PICK s \in ExportSlots :
        /\ Exchange(e, <<AckOf(e, r)>>)
        /\ exports' = [exports EXCEPT ![e][s].completed = 1]
  BY DEF ReceiveReportFull
<1>3. ExportsKept
  BY <1>1, <1>2, ReceiveReportFullKeeps
<1>4. Moved(<<AckOf(e, r)>>)
  BY <1>1, <1>2, ExchangeMoves
<1> HIDE DEF r
<1>5. AckOf(e, r) \in Segments /\ ~ IsCheckpoint(AckOf(e, r))
  BY <1>1, AckType, TypeNumbers DEF IsCheckpoint
<1>6. UNCHANGED next
  BY DEF ReceiveReportFull
<1>7. QED
  BY <1>3, <1>4, <1>5, <1>6, AnswerSerials

LEMMA CancelNoCheckpoint ==
  ASSUME NEW e \in Engines, NEW n \in Nat, NEW type \in CancelTypes
  PROVE  Cancel(type, e, n) \in Segments /\ ~ IsCheckpoint(Cancel(type, e, n))
<1>1. Cancel(type, e, n) \in Segments /\ Cancel(type, e, n).type = type
  BY AnswerTypes
<1>2. QED
  BY <1>1, TypeNumbers DEF IsCheckpoint

LEMMA CancelSessionKeeps ==
  ASSUME TypeInv, NEW e \in Engines, NEW s \in ExportSlots,
         exports' = [exports EXCEPT ![e][s] = Cancelled(@)]
  PROVE  ExportsKept
<1> DEFINE x == Cancelled(exports[e][s])
<1>1. exports[e][s] \in ExportSessions /\ exports[e][s].nextCp \in Nat
  BY ExportNumbers DEF TypeInv, TypeOK
<1>2. \A a \in Engines, t \in ExportSlots :
        exports'[a][t] = IF a = e /\ t = s THEN x ELSE exports[a][t]
  BY DEF TypeInv, TypeOK
<1>3. /\ x.active = exports[e][s].active /\ x.number = exports[e][s].number
      /\ x.nextCp = exports[e][s].nextCp /\ x.completed = exports[e][s].completed
  BY <1>1 DEF Cancelled, ExportSessions
<1> HIDE DEF x
<1>4. /\ exports[e][s].nextCp <= x.nextCp
      /\ x.completed = 0 => exports[e][s].completed = 0
  BY <1>1, <1>3
<1>5. QED
  BY <1>2, <1>3, <1>4, ExportReplaced

LEMMA CancelSessionSerials ==
  ASSUME Serials, TypeInv', NEW e \in Engines, NEW n \in Nat, CancelSession(e, n)
  PROVE  Serials'
<1>1. PICK s \in ExportSlots : exports' = [exports EXCEPT ![e][s] = Cancelled(@)]
  BY DEF CancelSession
<1>2. ExportsKept
  BY <1>1, SerialsInTables, CancelSessionKeeps
<1>3. Moved(<<Cancel(CancelBySender, e, n)>>) /\ UNCHANGED next
  BY TransmitMoves DEF CancelSession
<1>4. Cancel(CancelBySender, e, n) \in Segments /\ ~ IsCheckpoint(Cancel(CancelBySender, e, n))
  BY CancelNoCheckpoint DEF CancelTypes
<1>5. QED
  BY <1>2, <1>3, <1>4, AnswerSerials

\* A session is closed by its number.
LEMMA ClosingSerials ==
  ASSUME Serials, TypeInv', NEW e \in Engines,
         \/ ReceiveCancelAckSender(e) \/ ReceiveCancelByRecvr(e)
         \/ \E i \in TimerSlots : CheckpointExhausted(e, i)
  PROVE  Serials'
<1>1. TypeInv /\ SessionNumbers
  BY DEF Serials
<1>2. ExportsKept /\ UNCHANGED next
  BY <1>1, ExportsClosed
     DEF ReceiveCancelAckSender, ReceiveCancelByRecvr, CheckpointExhausted
<1>3. CASE ReceiveCancelAckSender(e)
  <2>1. Moved(<< >>)
    BY <1>3, ExchangeMoves DEF ReceiveCancelAckSender, Incoming
  <2>2. QED
    BY <1>2, <2>1, QuietSerials
<1>4. CASE ReceiveCancelByRecvr(e)
  <2> DEFINE n == Head(inbox[e]).number
  <2>1. n \in Nat
    BY <1>1, <1>4, HeadType, KindOfSegment DEF ReceiveCancelByRecvr, Incoming
  <2>2. Moved(<<Cancel(CancelAckRecvr, e, n)>>)
    BY <1>4, ExchangeMoves DEF ReceiveCancelByRecvr, Incoming
  <2> HIDE DEF n
  <2>3. Cancel(CancelAckRecvr, e, n) \in Segments /\ ~ IsCheckpoint(Cancel(CancelAckRecvr, e, n))
    BY <2>1, CancelNoCheckpoint DEF CancelTypes
  <2>4. QED
    BY <1>2, <2>2, <2>3, AnswerSerials
<1>5. CASE \E i \in TimerSlots : CheckpointExhausted(e, i)
  <2>1. Moved(<< >>)
    BY <1>5 DEF CheckpointExhausted, Moved
  <2>2. QED
    BY <1>2, <2>1, QuietSerials
<1>6. QED
  BY <1>3, <1>4, <1>5

----------------------------------------------------------------------------
(* The steps that leave the export sessions alone                          *)

LEMMA ReceiveCheckpointSerials ==
  ASSUME Serials, TypeInv', NEW e \in Engines, ReceiveCheckpoint(e)
  PROVE  Serials'
<1> DEFINE m == Head(inbox[e])
           Sess(s) == Absorb(DataSession(e, m, s), m)
           Upper(s) == IF Sess(s).blockLen > 0 THEN Sess(s).blockLen ELSE m.offset + m.length
<1>1. TypeInv /\ Tables /\ inbox[e] # << >> /\ m \in DataSegments
  BY SerialsInTables, HeadType, KindOfSegment, TypeNumbers DEF ReceiveCheckpoint, Incoming
<1>2. PICK s \in ImportSlots :
        /\ DataSlot(e, m, s)
        /\ Exchange(e, <<ReportOn(e, Sess(s), Sess(s).nextRpt, m.cp, Upper(s))>>)
  BY DEF ReceiveCheckpoint
<1> DEFINE sess == Sess(s)
           w == ReportOn(e, sess, sess.nextRpt, m.cp, Upper(s))
<1>3. Moved(<<w>>)
  BY <1>1, <1>2, ExchangeMoves
<1>4. Upper(s) = IF sess.blockLen > 0 THEN sess.blockLen ELSE m.offset + m.length
  OBVIOUS
<1>5. sess = Absorb(DataSession(e, m, s), m)
  OBVIOUS
<1> HIDE DEF m, Sess, Upper
<1>6. DataSession(e, m, s) \in ImportSessions
  BY <1>1, <1>2, DataSessionType
<1>7. Absorb(DataSession(e, m, s), m) \in ImportSessions
  BY <1>1, <1>6, AbsorbType
<1> HIDE DEF sess
<1>8. sess \in ImportSessions
  BY <1>5, <1>7
<1>9. /\ sess.nextRpt \in Nat /\ sess.blockLen \in Nat
      /\ m.cp \in Nat /\ m.offset \in Nat /\ m.length \in Nat
  BY <1>1, <1>8 DEF ImportSessions, DataSegments
<1>10. Upper(s) \in Nat
  BY <1>4, <1>9
<1>11. w \in Segments /\ w.type = Report
  BY <1>8, <1>9, <1>10, ReportOnType
<1>12. ~ IsCheckpoint(w)
  BY <1>11, TypeNumbers DEF IsCheckpoint
<1> HIDE DEF w
<1>13. ExportsKept /\ UNCHANGED next
  BY <1>1, ExportsSame DEF ReceiveCheckpoint
<1>14. QED
  BY <1>3, <1>11, <1>12, <1>13, AnswerSerials

LEMMA ReceiveCancelBySenderSerials ==
  ASSUME Serials, TypeInv', NEW e \in Engines, ReceiveCancelBySender(e)
  PROVE  Serials'
<1> DEFINE n == Head(inbox[e]).number
<1>1. n \in Nat
  BY SerialsInTables, HeadType, KindOfSegment DEF ReceiveCancelBySender, Incoming
<1>2. Moved(<<Cancel(CancelAckSender, e, n)>>)
  BY ExchangeMoves DEF ReceiveCancelBySender, Incoming
<1> HIDE DEF n
<1>3. Cancel(CancelAckSender, e, n) \in Segments /\ ~ IsCheckpoint(Cancel(CancelAckSender, e, n))
  BY <1>1, CancelNoCheckpoint DEF CancelTypes
<1>4. ExportsKept /\ UNCHANGED next
  BY SerialsInTables, ExportsSame DEF ReceiveCancelBySender
<1>5. QED
  BY <1>2, <1>3, <1>4, AnswerSerials

LEMMA CancelImportSerials ==
  ASSUME Serials, TypeInv', NEW e \in Engines, NEW a, NEW n \in Nat, CancelImport(e, a, n)
  PROVE  Serials'
<1>1. Moved(<<Cancel(CancelByRecvr, e, n)>>)
  BY TransmitMoves DEF CancelImport
<1>2. Cancel(CancelByRecvr, e, n) \in Segments /\ ~ IsCheckpoint(Cancel(CancelByRecvr, e, n))
  BY CancelNoCheckpoint DEF CancelTypes
<1>3. ExportsKept /\ UNCHANGED next
  BY SerialsInTables, ExportsSame DEF CancelImport, tables
<1>4. QED
  BY <1>1, <1>2, <1>3, AnswerSerials

LEMMA ReportTimeoutSerials ==
  ASSUME Serials, TypeInv', NEW e \in Engines, NEW i \in TimerSlots, ReportTimeout(e, i)
  PROVE  Serials'
<1>1. PICK s \in ImportSlots :
        Transmit(e, <<ReportOn(e, imports[e][s], timers[e][i].serial, 0,
                               imports[e][s].blockLen)>>)
  BY DEF ReportTimeout
<1> DEFINE w == ReportOn(e, imports[e][s], timers[e][i].serial, 0, imports[e][s].blockLen)
<1>2. imports[e][s] \in ImportSessions /\ timers[e][i] \in Timers
  BY SerialsInTables DEF TypeInv, TypeOK
<1>3. imports[e][s].blockLen \in Nat /\ timers[e][i].serial \in Nat
  BY <1>2 DEF ImportSessions, Timers
<1>4. w \in Segments /\ w.type = Report
  BY <1>2, <1>3, ReportOnType
<1>5. Moved(<<w>>)
  BY <1>1, TransmitMoves
<1> HIDE DEF w
<1>6. ~ IsCheckpoint(w)
  BY <1>4, TypeNumbers DEF IsCheckpoint
<1>7. ExportsKept /\ UNCHANGED next
  BY SerialsInTables, ExportsSame DEF ReportTimeout
<1>8. QED
  BY <1>4, <1>5, <1>6, <1>7, AnswerSerials

LEMMA CancelTimeoutSerials ==
  ASSUME Serials, TypeInv', NEW e \in Engines, NEW i \in TimerSlots, CancelTimeout(e, i)
  PROVE  Serials'
<1> DEFINE n == timers[e][i].number
<1>1. n \in Nat
  BY SerialsInTables DEF TypeInv, TypeOK, Timers
<1>2. Moved(<<Cancel(CancelBySender, e, n)>>)
  BY TransmitMoves DEF CancelTimeout
<1> HIDE DEF n
<1>3. Cancel(CancelBySender, e, n) \in Segments /\ ~ IsCheckpoint(Cancel(CancelBySender, e, n))
  BY <1>1, CancelNoCheckpoint DEF CancelTypes
<1>4. ExportsKept /\ UNCHANGED next
  BY SerialsInTables, ExportsSame DEF CancelTimeout
<1>5. QED
  BY <1>2, <1>3, <1>4, AnswerSerials

\* A segment is read and nothing written, or the inboxes are left alone.
LEMMA SilentSerials ==
  ASSUME Serials, TypeInv', NEW e \in Engines,
         \/ ReceiveDataNoSlot(e) \/ ReceiveRedData(e) \/ ReceiveReportUnknown(e)
         \/ ReceiveReportAck(e) \/ ReceiveCancelAckRecvr(e) \/ Return(e) \/ Lose(e)
         \/ \E i \in TimerSlots :
              \/ OrphanTimeout(e, i) \/ ReportExhausted(e, i) \/ CancelExhausted(e, i)
  PROVE  Serials'
<1>1. UNCHANGED <<exports, next>>
  BY DEF ReceiveDataNoSlot, ReceiveRedData, ReceiveReportUnknown, ReceiveReportAck,
         ReceiveCancelAckRecvr, Return, Lose, OrphanTimeout, ReportExhausted,
         CancelExhausted, tables
<1>2. CASE inbox[e] # << >> /\ Exchange(e, << >>)
  BY <1>2, ExchangeMoves, <1>1, SerialsInTables, ExportsSame, QuietSerials
<1>3. CASE UNCHANGED inbox
  BY <1>3, <1>1, SerialsInTables, ExportsSame, QuietSerials DEF Moved
<1>4. CASE Lose(e)
  <2>1. inbox[e] # << >> /\ inbox' = [inbox EXCEPT ![e] = Tail(@)]
    BY <1>4 DEF Lose
  <2>2. inbox \in [Engines -> Seq(Segments)]
    BY SerialsInTables DEF TypeInv, TypeOK
  <2>3. \A b \in Engines : IF b = e THEN inbox'[b] = Tail(inbox[b]) ELSE inbox'[b] = inbox[b]
    BY <2>1, <2>2
  <2>4. Moved(<< >>)
    BY <2>1, <2>3 DEF Moved
  <2>5. QED
    BY <2>4, <1>1, SerialsInTables, ExportsSame, QuietSerials
<1>5. QED
  BY <1>2, <1>3, <1>4 DEF ReceiveDataNoSlot, ReceiveRedData, ReceiveReportUnknown,
     ReceiveReportAck, ReceiveCancelAckRecvr, Return, OrphanTimeout, ReportExhausted,
     CancelExhausted, Incoming

----------------------------------------------------------------------------
(* Checkpoint serials ascend                                               *)

LEMMA InitSerials == Init => Serials
<1> SUFFICES ASSUME Init PROVE Serials
  OBVIOUS
<1>1. TypeInv
  BY InitTypes
<1>2. \A e \in Engines, s \in ExportSlots : exports[e][s].active = 0
  BY DEF Init, FreeExport
<1>3. SessionNumbers
  BY <1>2 DEF SessionNumbers
<1>4. \A e \in Engines : inbox[e] = << >> /\ InFlight(e) = {}
  BY NothingWritten DEF Init, InFlight
<1>5. Serialed
  BY <1>4 DEF Serialed
<1>6. CheckpointSerialsAscend
  BY <1>4 DEF CheckpointSerialsAscend
<1>7. QED
  BY <1>1, <1>3, <1>5, <1>6 DEF Serials

LEMMA StepSerials == Serials /\ [Next]_vars => Serials'
<1> SUFFICES ASSUME Serials, [Next]_vars PROVE Serials'
  OBVIOUS
<1>0. TypeInv'
  BY StepTypes DEF Serials
<1>1. ASSUME NEW e \in Engines, Application(e)
      PROVE  Serials'
  <2>1. \A x \in Engines : \A n \in 1 .. MaxSessions[x] : n \in Nat
    BY ConstantsAssumption
  <2>2. QED
    BY <1>0, <1>1, <2>1, SendBlockSerials, SendBlockFailsSerials, CancelSessionSerials,
       CancelImportSerials DEF Application
<1>2. ASSUME NEW e \in Engines, Receive(e)
      PROVE  Serials'
  BY <1>0, <1>2, SilentSerials, ReceiveCheckpointSerials, ReceiveReportFullSerials,
     ReceiveReportPartialSerials, ReceiveCancelBySenderSerials, ClosingSerials DEF Receive
<1>3. ASSUME NEW e \in Engines, NEW i \in TimerSlots, Timeout(e, i)
      PROVE  Serials'
  BY <1>0, <1>3, SilentSerials, CheckpointTimeoutSerials, ReportTimeoutSerials,
     CancelTimeoutSerials, ClosingSerials DEF Timeout
<1>4. CASE UNCHANGED vars
  BY <1>0, <1>4 DEF vars, tables, Serials, SessionNumbers, Serialed, Below, InFlight,
     CheckpointSerialsAscend
<1>5. QED
  BY <1>0, <1>1, <1>2, <1>3, <1>4, SilentSerials DEF Next, Step

\* However new blocks, reports and timers interleave, and whatever the link loses, the
\* checkpoints of a session are in ascending order of serial in every inbox: no
\* checkpoint repeats the serial of one before it.
THEOREM SerialsAscend == Spec => []CheckpointSerialsAscend
<1>1. Serials => CheckpointSerialsAscend
  BY DEF Serials
<1>2. QED
  BY <1>1, InitSerials, StepSerials, PTL DEF Spec

----------------------------------------------------------------------------
(* The timer of a session                                                  *)

\* The loops of ltp.c that stop at the first slot that fits do stop at one.
LEMMA FirstExists ==
  ASSUME NEW S \in SUBSET Nat, S # {}
  PROVE  \E s \in S : First(S, s)
<1> DEFINE R == OpToRel(<, Nat)
<1>1. IsWellFoundedOn(R, Nat)
  BY NatLessThanWellFounded, Zenon
<1>2. \A x, y \in Nat : x < y => <<x, y>> \in R
  BY DEF OpToRel
<1> HIDE DEF R
<1>3. PICK s \in S : \A y \in S : ~ (<<y, s>> \in R)
  BY <1>1, WFMin
<1>4. ASSUME NEW t \in S
      PROVE  s <= t
  <2>1. s \in Nat /\ t \in Nat
    OBVIOUS
  <2>2. ~ (t < s)
    BY <1>2, <1>3, <2>1
  <2>3. QED
    BY <2>1, <2>2
<1>5. QED
  BY <1>4 DEF First

\* A checkpoint timer runs for session n.
Timed(ts, n) ==
  \E i \in TimerSlots :
    ts[i].active = 1 /\ ts[i].type = CheckpointTimer /\ ts[i].number = n

HasRoom(ts) == \E i \in TimerSlots : ts[i].active = 0

\* No timer table is ever full: a timer that is to start, starts.
TimersFree == \A e \in Engines : HasRoom(timers[e])

LEMMA StartKeeps ==
  ASSUME NEW ts, NEW type, NEW a, NEW n, NEW serial, NEW k, Timed(ts, k)
  PROVE  Timed(StartTimer(ts, type, a, n, serial), k)
<1>1. PICK i \in TimerSlots :
        ts[i].active = 1 /\ ts[i].type = CheckpointTimer /\ ts[i].number = k
  BY DEF Timed
<1>2. ts[i].active # 0
  BY <1>1
<1>3. StartTimer(ts, type, a, n, serial)[i] = ts[i]
  BY <1>2 DEF StartTimer, First
<1>4. QED
  BY <1>1, <1>3 DEF Timed

LEMMA StartAdds ==
  ASSUME NEW ts, NEW a, NEW n, NEW serial, HasRoom(ts)
  PROVE  Timed(StartTimer(ts, CheckpointTimer, a, n, serial), n)
<1> DEFINE free == {i \in TimerSlots : ts[i].active = 0}
<1>1. free # {} /\ free \in SUBSET Nat
  BY ConstantsAssumption DEF HasRoom, TimerSlots
<1> HIDE DEF free
<1>2. PICK i \in free : First(free, i)
  BY <1>1, FirstExists
<1>3. i \in TimerSlots
  BY <1>2 DEF free
<1>4. StartTimer(ts, CheckpointTimer, a, n, serial)[i] =
        [active |-> 1, type |-> CheckpointTimer, engine |-> a, number |-> n,
         serial |-> serial, retries |-> 0]
  BY <1>2, <1>3 DEF StartTimer, free
<1>5. QED
  BY <1>3, <1>4 DEF Timed

LEMMA StopKeeps ==
  ASSUME NEW ts, NEW type, NEW n, NEW serial, NEW k, Timed(ts, k),
         type # CheckpointTimer \/ k # n
  PROVE  Timed(StopTimer(ts, type, n, serial), k)
<1>1. PICK i \in TimerSlots :
        ts[i].active = 1 /\ ts[i].type = CheckpointTimer /\ ts[i].number = k
  BY DEF Timed
<1>2. ~ (ts[i].type = type /\ ts[i].number = n)
  BY <1>1
<1>3. StopTimer(ts, type, n, serial)[i] = ts[i]
  BY <1>2 DEF StopTimer, First
<1>4. QED
  BY <1>1, <1>3 DEF Timed

LEMMA StopHasRoom ==
  ASSUME NEW ts, NEW type, NEW n, NEW serial, HasRoom(ts)
  PROVE  HasRoom(StopTimer(ts, type, n, serial))
<1>1. PICK i \in TimerSlots : ts[i].active = 0
  BY DEF HasRoom
<1>2. StopTimer(ts, type, n, serial)[i] \in {NoTimer, ts[i]}
  BY DEF StopTimer
<1>3. NoTimer.active = 0
  BY DEF NoTimer
<1>4. QED
  BY <1>1, <1>2, <1>3 DEF HasRoom

\* A session that is still open and not completed does not lose its timer.
Served(a) ==
  \A s \in ExportSlots :
    /\ exports'[a][s].active = 1 /\ exports'[a][s].completed = 0
    /\ Timed(timers[a], exports'[a][s].number)
    => Timed(timers'[a], exports'[a][s].number)

LEMMA ServedTimed ==
  ASSUME OpenSessionIsTimed, ExportsKept, \A a \in Engines : Served(a)
  PROVE  OpenSessionIsTimed'
<1>1. ASSUME NEW a \in Engines \ Faulty, NEW s \in ExportSlots,
             exports'[a][s].active = 1, exports'[a][s].completed = 0
      PROVE  Timed(timers'[a], exports'[a][s].number)
  <2>1. /\ exports[a][s].active = 1 /\ exports'[a][s].number = exports[a][s].number
        /\ exports[a][s].completed = 0
    BY <1>1 DEF ExportsKept
  <2>2. Timed(timers[a], exports[a][s].number)
    BY <2>1 DEF OpenSessionIsTimed, Timed
  <2>3. QED
    BY <1>1, <2>1, <2>2 DEF Served
<1>2. QED
  BY <1>1 DEF OpenSessionIsTimed, Timed

\* The other engines keep their timers as they are.
LEMMA OthersServed ==
  ASSUME Tables, NEW e \in Engines, NEW ts, timers' = [timers EXCEPT ![e] = ts]
  PROVE  /\ timers'[e] = ts
         /\ \A a \in Engines : a # e => Served(a)
<1>1. timers'[e] = ts /\ \A a \in Engines : a # e => timers'[a] = timers[a]
  BY DEF Tables
<1>2. QED
  BY <1>1 DEF Served

LEMMA RearmServes ==
  ASSUME Tables, NEW e \in Engines, NEW i \in TimerSlots, Rearm(e, i), NEW a \in Engines
  PROVE  Served(a)
<1>1. timers[e][i] \in Timers /\ timers' = [timers EXCEPT ![e][i].retries = @ + 1]
  BY DEF Tables, TimerTable, Rearm
<1>2. ASSUME NEW j \in TimerSlots
      PROVE  /\ timers'[a][j].active = timers[a][j].active
             /\ timers'[a][j].type = timers[a][j].type
             /\ timers'[a][j].number = timers[a][j].number
  <2>1. CASE a = e /\ j = i
    <3>1. timers'[e][i] = [timers[e][i] EXCEPT !.retries = @ + 1]
      BY <1>1 DEF Tables, TimerTable
    <3>2. QED
      BY <1>1, <2>1, <3>1 DEF Timers
  <2>2. CASE ~ (a = e /\ j = i)
    <3>1. timers'[a][j] = timers[a][j]
      BY <1>1, <2>2 DEF Tables, TimerTable
    <3>2. QED
      BY <3>1
  <2>3. QED
    BY <2>1, <2>2
<1>3. QED
  BY <1>2 DEF Served, Timed

\* A timer is cleared that is no checkpoint timer, or whose session is over.
LEMMA DisarmServes ==
  ASSUME Tables, NEW e \in Engines, NEW i \in TimerSlots, Disarm(e, i), NEW a \in Engines,
         \/ timers[e][i].type # CheckpointTimer
         \/ \A s \in ExportSlots :
              exports'[e][s].active = 1 => exports'[e][s].number # timers[e][i].number
  PROVE  Served(a)
<1>1. \A j \in TimerSlots : ~ (a = e /\ j = i) => timers'[a][j] = timers[a][j]
  BY DEF Tables, TimerTable, Disarm
<1>2. ASSUME NEW s \in ExportSlots, exports'[a][s].active = 1,
             Timed(timers[a], exports'[a][s].number)
      PROVE  Timed(timers'[a], exports'[a][s].number)
  <2>1. PICK j \in TimerSlots :
          /\ timers[a][j].active = 1 /\ timers[a][j].type = CheckpointTimer
          /\ timers[a][j].number = exports'[a][s].number
    BY <1>2 DEF Timed
  <2>2. ~ (a = e /\ j = i)
    BY <1>2, <2>1
  <2>3. QED
    BY <1>1, <2>1, <2>2 DEF Timed
<1>3. QED
  BY <1>2 DEF Served

\* What is inductive along with it: a timer is looked for by the number of a session.
TimedInv ==
  /\ TypeInv
  /\ SessionNumbers
  /\ OpenSessionIsTimed

LEMMA TimedSteps ==
  ASSUME TimedInv, ExportsKept, UNCHANGED next, \A a \in Engines : Served(a), TypeInv'
  PROVE  TimedInv'
  BY ServedTimed, NumbersKept DEF TimedInv

\* The steps that start or stop a timer in the table of e, or none.
LEMMA TableTimed ==
  ASSUME TimedInv, ExportsKept, UNCHANGED next, TypeInv', NEW e \in Engines, NEW ts,
         timers' = [timers EXCEPT ![e] = ts],
         \A s \in ExportSlots :
           /\ exports'[e][s].active = 1 /\ exports'[e][s].completed = 0
           /\ Timed(timers[e], exports'[e][s].number)
           => Timed(ts, exports'[e][s].number)
  PROVE  TimedInv'
<1>1. /\ timers'[e] = ts
      /\ \A a \in Engines : a # e => Served(a)
  BY TypeInvTables, OthersServed DEF TimedInv
<1>2. Served(e)
  BY <1>1 DEF Served
<1>3. QED
  BY <1>1, <1>2, TimedSteps

LEMMA SendBlockTimed ==
  ASSUME TimedInv, TimersFree, TypeInv', NEW e \in Engines, NEW b \in Blocks, SendBlock(e, b)
  PROVE  TimedInv'
<1>0. TypeInv /\ Tables /\ SessionNumbers /\ OpenSessionIsTimed
  BY TypeInvTables DEF TimedInv
<1>1. PICK s \in ExportSlots :
        /\ OpenExport(e, b, s)
        /\ timers' = [timers EXCEPT ![e] = StartTimer(@, CheckpointTimer, e, next[e], 1)]
  BY DEF SendBlock
<1> DEFINE ts == StartTimer(timers[e], CheckpointTimer, e, next[e], 1)
<1>2. /\ timers'[e] = ts
      /\ \A a \in Engines : a # e => timers'[a] = timers[a]
  BY <1>0, <1>1 DEF Tables
<1>3. Timed(ts, next[e]) /\ \A k : Timed(timers[e], k) => Timed(ts, k)
  BY StartAdds, StartKeeps DEF TimersFree
<1> HIDE DEF ts
<1>4. \A a \in Engines, t \in ExportSlots :
        IF a = e /\ t = s THEN exports'[a][t].number = next[e]
        ELSE exports'[a][t] = exports[a][t]
  BY <1>0, <1>1, OpeningExports
<1>5. ASSUME NEW a \in Engines \ Faulty, NEW t \in ExportSlots,
             exports'[a][t].active = 1, exports'[a][t].completed = 0
      PROVE  Timed(timers'[a], exports'[a][t].number)
  <2>1. CASE a = e /\ t = s
    BY <1>2, <1>3, <1>4, <2>1
  <2>2. CASE ~ (a = e /\ t = s)
    <3>1. exports'[a][t] = exports[a][t]
      BY <1>4, <2>2
    <3>2. Timed(timers[a], exports[a][t].number)
      BY <1>0, <1>5, <3>1 DEF OpenSessionIsTimed, Timed
    <3>3. QED
      BY <1>2, <1>3, <3>1, <3>2
  <2>3. QED
    BY <2>1, <2>2
<1>6. OpenSessionIsTimed'
  BY <1>5 DEF OpenSessionIsTimed, Timed
<1>7. SessionNumbers'
  BY <1>0, <1>1, OpeningNumbers
<1>8. QED
  BY <1>6, <1>7 DEF TimedInv

LEMMA SendBlockFailsTimed ==
  ASSUME TimedInv, TypeInv', NEW e \in Engines, NEW b \in Blocks, SendBlockFails(e, b)
  PROVE  TimedInv'
<1>0. TypeInv /\ SessionNumbers /\ OpenSessionIsTimed
  BY DEF TimedInv
<1>1. PICK s \in ExportSlots : OpenExport(e, b, s)
  BY DEF SendBlockFails
<1>2. e \in Faulty /\ UNCHANGED timers
  BY DEF SendBlockFails
<1>3. \A a \in Engines \ Faulty, t \in ExportSlots : exports'[a][t] = exports[a][t]
  BY <1>0, <1>1, <1>2, OpeningExports
<1>4. OpenSessionIsTimed'
  BY <1>0, <1>2, <1>3 DEF OpenSessionIsTimed
<1>5. SessionNumbers'
  BY <1>0, <1>1, OpeningNumbers
<1>6. QED
  BY <1>4, <1>5 DEF TimedInv

LEMMA CancelSessionTimed ==
  ASSUME TimedInv, TypeInv', NEW e \in Engines, NEW n, CancelSession(e, n)
  PROVE  TimedInv'
<1>1. PICK s \in ExportSlots : exports' = [exports EXCEPT ![e][s] = Cancelled(@)]
  BY DEF CancelSession
<1>2. /\ timers' = [timers EXCEPT ![e] = StartTimer(timers[e], CancelTimer, e, n, 0)]
      /\ UNCHANGED next
  BY DEF CancelSession
<1>3. ExportsKept
  BY <1>1, CancelSessionKeeps DEF TimedInv
<1>4. \A k : Timed(timers[e], k) => Timed(StartTimer(timers[e], CancelTimer, e, n, 0), k)
  BY StartKeeps
<1>5. QED
  BY <1>2, <1>3, <1>4, TableTimed

LEMMA ReceiveCheckpointTimed ==
  ASSUME TimedInv, TypeInv', NEW e \in Engines, ReceiveCheckpoint(e)
  PROVE  TimedInv'
<1> DEFINE m == Head(inbox[e])
           Sess(s) == Absorb(DataSession(e, m, s), m)
<1>1. PICK s \in ImportSlots :
        timers' = [timers EXCEPT ![e] =
          StartTimer(@, ReportTimer, Sess(s).engine, Sess(s).number, Sess(s).nextRpt)]
  BY DEF ReceiveCheckpoint
<1> DEFINE ts == StartTimer(timers[e], ReportTimer, Sess(s).engine, Sess(s).number,
                            Sess(s).nextRpt)
<1>2. timers' = [timers EXCEPT ![e] = ts]
  BY <1>1
<1>3. ExportsKept /\ UNCHANGED next
  BY ExportsSame DEF ReceiveCheckpoint, TimedInv
<1> HIDE DEF m, Sess
<1>4. \A k : Timed(timers[e], k) => Timed(ts, k)
  BY StartKeeps
<1> HIDE DEF ts
<1>5. QED
  BY <1>2, <1>3, <1>4, TableTimed

\* A completed session is the only one with its number: no other loses its timer.
LEMMA ReceiveReportFullTimed ==
  ASSUME TimedInv, TypeInv', NEW e \in Engines, ReceiveReportFull(e)
  PROVE  TimedInv'
<1> DEFINE r == Head(inbox[e])
           ts == StopTimer(timers[e], CheckpointTimer, r.number, r.cp)
<1>0. TypeInv /\ SessionNumbers
  BY DEF TimedInv
<1>1. PICK s \in ExportSlots :
        /\ First(OpenExports(e, r.number), s)
        /\ exports' = [exports EXCEPT ![e][s].completed = 1]
        /\ timers' = [timers EXCEPT ![e] = StopTimer(@, CheckpointTimer, r.number, r.cp)]
  BY DEF ReceiveReportFull
<1>2. timers' = [timers EXCEPT ![e] = ts]
  BY <1>1
<1>3. exports[e][s].active = 1 /\ exports[e][s].number = r.number
  BY <1>1 DEF First, OpenExports
<1>4. /\ ExportsKept
      /\ exports'[e][s].completed = 1
  BY <1>0, <1>1, ReceiveReportFullKeeps
<1>5. UNCHANGED next
  BY DEF ReceiveReportFull
<1>6. ASSUME NEW t \in ExportSlots, exports'[e][t].active = 1, exports'[e][t].completed = 0
      PROVE  exports'[e][t].number # r.number
  <2>1. t # s
    BY <1>4, <1>6
  <2>2. exports[e][t].active = 1 /\ exports'[e][t].number = exports[e][t].number
    BY <1>4, <1>6 DEF ExportsKept
  <2>3. QED
    BY <1>0, <1>3, <2>1, <2>2 DEF SessionNumbers
<1>7. \A k : Timed(timers[e], k) /\ k # r.number => Timed(ts, k)
  BY StopKeeps
<1> HIDE DEF ts, r
<1>8. \A t \in ExportSlots :
        /\ exports'[e][t].active = 1 /\ exports'[e][t].completed = 0
        /\ Timed(timers[e], exports'[e][t].number)
        => Timed(ts, exports'[e][t].number)
  BY <1>6, <1>7
<1>9. QED
  BY <1>2, <1>4, <1>5, <1>8, TableTimed

LEMMA ReceiveReportPartialTimed ==
  ASSUME TimedInv, TimersFree, TypeInv', NEW e \in Engines, ReceiveReportPartial(e)
  PROVE  TimedInv'
<1> DEFINE r == Head(inbox[e])
<1>0. TypeInv /\ SessionNumbers
  BY DEF TimedInv
<1>1. PICK s \in ExportSlots, cp \in Nat :
        /\ exports' = [exports EXCEPT ![e][s].nextCp = cp]
        /\ exports[e][s].nextCp <= cp
        /\ timers' = [timers EXCEPT ![e] =
             StartTimer(StopTimer(@, CheckpointTimer, r.number, r.cp),
                        CheckpointTimer, e, r.number, cp - 1)]
  <2>1. PICK s \in ExportSlots, len \in 0 .. MaxBlock :
          LET cp == IF len > 0 THEN exports[e][s].nextCp + 1 ELSE exports[e][s].nextCp IN
          /\ exports' = [exports EXCEPT ![e][s].nextCp = cp]
          /\ timers' = [timers EXCEPT ![e] =
               StartTimer(StopTimer(@, CheckpointTimer, r.number, r.cp),
                          CheckpointTimer, e, r.number, cp - 1)]
    BY ZenonT(60) DEF ReceiveReportPartial
  <2> DEFINE cp == IF len > 0 THEN exports[e][s].nextCp + 1 ELSE exports[e][s].nextCp
  <2>2. exports[e][s].nextCp \in Nat
    BY <1>0, ExportNumbers
  <2>3. cp \in Nat /\ exports[e][s].nextCp <= cp
    BY <2>2
  <2>4. /\ exports' = [exports EXCEPT ![e][s].nextCp = cp]
        /\ timers' = [timers EXCEPT ![e] =
             StartTimer(StopTimer(@, CheckpointTimer, r.number, r.cp),
                        CheckpointTimer, e, r.number, cp - 1)]
    BY <2>1
  <2> HIDE DEF cp, r
  <2>5. QED
    BY <2>3, <2>4
<1> DEFINE x == [exports[e][s] EXCEPT !.nextCp = cp]
           mid == StopTimer(timers[e], CheckpointTimer, r.number, r.cp)
           ts == StartTimer(mid, CheckpointTimer, e, r.number, cp - 1)
<1>2. timers' = [timers EXCEPT ![e] = ts]
  BY <1>1
<1>3. exports[e][s] \in ExportSessions /\ exports' = [exports EXCEPT ![e][s] = x]
  BY <1>0, <1>1 DEF TypeInv, TypeOK
<1>4. /\ x \in ExportSessions /\ x.active = exports[e][s].active
      /\ x.number = exports[e][s].number /\ x.nextCp = cp
      /\ x.completed = exports[e][s].completed
  BY <1>1, <1>3 DEF ExportSessions
<1> HIDE DEF x
<1>5. /\ exports[e][s].nextCp <= x.nextCp
      /\ x.completed = 0 => exports[e][s].completed = 0
  BY <1>1, <1>4
<1>6. exports' = [exports EXCEPT ![e][s] = x]
  BY <1>3
<1>7. ExportsKept
  BY <1>0, <1>4, <1>5, <1>6, ExportChanged
<1>8. HasRoom(mid)
  BY StopHasRoom DEF TimersFree
<1>9. \A k : Timed(timers[e], k) /\ k # r.number => Timed(mid, k)
  BY StopKeeps
<1> HIDE DEF mid
<1>10. Timed(ts, r.number)
  BY <1>8, StartAdds
<1>11. \A k : Timed(mid, k) => Timed(ts, k)
  BY StartKeeps
<1> HIDE DEF ts
<1>12. \A k : Timed(timers[e], k) => Timed(ts, k)
  BY <1>9, <1>10, <1>11
<1>13. UNCHANGED next
  BY DEF ReceiveReportPartial
<1>14. QED
  BY <1>2, <1>7, <1>12, <1>13, TableTimed

\* Stopping a timer of another kind.
LEMMA StopTimed ==
  ASSUME TimedInv, ExportsKept, UNCHANGED next, TypeInv', NEW e \in Engines,
         NEW type \in {ReportTimer, CancelTimer}, NEW n, NEW serial,
         timers' = [timers EXCEPT ![e] = StopTimer(timers[e], type, n, serial)]
  PROVE  TimedInv'
<1>1. type # CheckpointTimer
  BY DEF CheckpointTimer, ReportTimer, CancelTimer
<1>2. \A k : Timed(timers[e], k) => Timed(StopTimer(timers[e], type, n, serial), k)
  BY <1>1, StopKeeps
<1>3. QED
  BY <1>2, TableTimed

LEMMA StoppingTimed ==
  ASSUME TimedInv, TypeInv', NEW e \in Engines,
         ReceiveReportAck(e) \/ ReceiveCancelAckSender(e) \/ ReceiveCancelAckRecvr(e)
  PROVE  TimedInv'
<1>1. TypeInv /\ SessionNumbers
  BY DEF TimedInv
<1>2. UNCHANGED next
  BY DEF ReceiveReportAck, ReceiveCancelAckSender, ReceiveCancelAckRecvr
<1>3. ExportsKept
  BY <1>1, ExportsSame, ExportsClosed
     DEF ReceiveReportAck, ReceiveCancelAckSender, ReceiveCancelAckRecvr
<1>4. CASE ReceiveReportAck(e)
  <2> DEFINE m == Head(inbox[e])
  <2>1. timers' = [timers EXCEPT ![e] = StopTimer(timers[e], ReportTimer, m.number, m.rpt)]
    BY <1>4 DEF ReceiveReportAck
  <2>2. QED
    BY <1>2, <1>3, <2>1, StopTimed
<1>5. CASE ReceiveCancelAckSender(e) \/ ReceiveCancelAckRecvr(e)
  <2> DEFINE m == Head(inbox[e])
  <2>1. timers' = [timers EXCEPT ![e] = StopTimer(timers[e], CancelTimer, m.number, 0)]
    BY <1>5 DEF ReceiveCancelAckSender, ReceiveCancelAckRecvr
  <2>2. QED
    BY <1>2, <1>3, <2>1, StopTimed
<1>6. QED
  BY <1>4, <1>5

LEMMA RearmTimed ==
  ASSUME TimedInv, TypeInv', NEW e \in Engines, NEW i \in TimerSlots,
         \/ CheckpointTimeout(e, i) \/ ReportTimeout(e, i) \/ CancelTimeout(e, i)
         \/ OrphanTimeout(e, i)
  PROVE  TimedInv'
<1>0. TypeInv /\ Tables
  BY TypeInvTables DEF TimedInv
<1>1. Rearm(e, i) /\ UNCHANGED next
  BY DEF CheckpointTimeout, ReportTimeout, CancelTimeout, OrphanTimeout
<1>2. \A a \in Engines : Served(a)
  BY <1>0, <1>1, RearmServes
<1>3. ExportsKept
  <2>1. CASE CheckpointTimeout(e, i)
    <3>1. PICK s \in ExportSlots : exports' = [exports EXCEPT ![e][s].nextCp = @ + 1]
      BY <2>1 DEF CheckpointTimeout
    <3> DEFINE x == [exports[e][s] EXCEPT !.nextCp = @ + 1]
    <3>2. exports[e][s] \in ExportSessions /\ exports[e][s].nextCp \in Nat
      BY <1>0, ExportNumbers DEF Tables
    <3>3. exports' = [exports EXCEPT ![e][s] = x]
      BY <1>0, <3>1 DEF Tables
    <3>4. /\ x \in ExportSessions /\ x.active = exports[e][s].active
          /\ x.number = exports[e][s].number /\ x.nextCp = exports[e][s].nextCp + 1
          /\ x.completed = exports[e][s].completed
      BY <3>2 DEF ExportSessions
    <3> HIDE DEF x
    <3>5. /\ exports[e][s].nextCp <= x.nextCp
          /\ x.completed = 0 => exports[e][s].completed = 0
      BY <3>2, <3>4
    <3>6. QED
      BY <1>0, <3>3, <3>4, <3>5, ExportChanged
  <2>2. CASE ~ CheckpointTimeout(e, i)
    BY <1>0, <2>2, ExportsSame DEF ReportTimeout, CancelTimeout, OrphanTimeout
  <2>3. QED
    BY <2>1, <2>2
<1>4. QED
  BY <1>1, <1>2, <1>3, TimedSteps

LEMMA ExhaustedTimed ==
  ASSUME TimedInv, TypeInv', NEW e \in Engines, NEW i \in TimerSlots,
         \/ CheckpointExhausted(e, i) \/ ReportExhausted(e, i) \/ CancelExhausted(e, i)
  PROVE  TimedInv'
<1>0. TypeInv /\ Tables /\ SessionNumbers
  BY TypeInvTables DEF TimedInv
<1>1. Disarm(e, i) /\ UNCHANGED next
  BY DEF CheckpointExhausted, ReportExhausted, CancelExhausted
<1>2. CASE CheckpointExhausted(e, i)
  <2>1. /\ ExportsKept
        /\ \A s \in ExportSlots :
             exports'[e][s].active = 1 => exports'[e][s].number # timers[e][i].number
    BY <1>0, <1>2, ExportsClosed DEF CheckpointExhausted
  <2>2. \A a \in Engines : Served(a)
    BY <1>0, <1>1, <2>1, DisarmServes
  <2>3. QED
    BY <1>1, <2>1, <2>2, TimedSteps
<1>3. CASE ReportExhausted(e, i) \/ CancelExhausted(e, i)
  <2>1. UNCHANGED exports /\ timers[e][i].type \in {ReportTimer, CancelTimer}
    BY <1>3 DEF ReportExhausted, CancelExhausted, Expiring
  <2>2. timers[e][i].type # CheckpointTimer
    BY <2>1 DEF CheckpointTimer, ReportTimer, CancelTimer
  <2>3. \A a \in Engines : Served(a)
    BY <1>0, <1>1, <2>2, DisarmServes
  <2>4. QED
    BY <1>0, <1>1, <2>1, <2>3, ExportsSame, TimedSteps
<1>4. QED
  BY <1>2, <1>3

\* The steps that leave the timers alone.
LEMMA UntimedSteps ==
  ASSUME TimedInv, TypeInv', NEW e \in Engines,
         \/ ReceiveDataNoSlot(e) \/ ReceiveRedData(e) \/ ReceiveReportUnknown(e)
         \/ ReceiveCancelBySender(e) \/ ReceiveCancelByRecvr(e) \/ Return(e) \/ Lose(e)
         \/ \E a \in Engines, n \in Nat : CancelImport(e, a, n)
  PROVE  TimedInv'
<1>0. TypeInv /\ SessionNumbers
  BY DEF TimedInv
<1>1. UNCHANGED <<timers, next>>
  BY DEF ReceiveDataNoSlot, ReceiveRedData, ReceiveReportUnknown, ReceiveCancelBySender,
         ReceiveCancelByRecvr, Return, Lose, CancelImport, tables
<1>2. ExportsKept
  <2>1. CASE ReceiveCancelByRecvr(e)
    BY <1>0, <2>1, ExportsClosed DEF ReceiveCancelByRecvr
  <2>2. CASE ~ ReceiveCancelByRecvr(e)
    <3>1. UNCHANGED exports
      BY <2>2 DEF ReceiveDataNoSlot, ReceiveRedData, ReceiveReportUnknown,
         ReceiveCancelBySender, Return, Lose, CancelImport, tables
    <3>2. QED
      BY <1>0, <3>1, ExportsSame
  <2>3. QED
    BY <2>1, <2>2
<1>3. \A a \in Engines : Served(a)
  BY <1>1 DEF Served
<1>4. QED
  BY <1>1, <1>2, <1>3, TimedSteps

LEMMA InitTimed == Init => TimedInv
<1> SUFFICES ASSUME Init PROVE TimedInv
  OBVIOUS
<1>1. \A e \in Engines, s \in ExportSlots : exports[e][s].active = 0
  BY DEF Init, FreeExport
<1>2. SessionNumbers /\ OpenSessionIsTimed
  BY <1>1 DEF SessionNumbers, OpenSessionIsTimed
<1>3. QED
  BY <1>2, InitTypes DEF TimedInv

LEMMA StepTimed == TimedInv /\ TimersFree /\ [Next]_vars => TimedInv'
<1> SUFFICES ASSUME TimedInv, TimersFree, [Next]_vars PROVE TimedInv'
  OBVIOUS
<1>0. TypeInv'
  BY StepTypes DEF TimedInv
<1>1. ASSUME NEW e \in Engines, Application(e)
      PROVE  TimedInv'
  <2>1. \A x \in Engines : \A n \in 1 .. MaxSessions[x] : n \in Nat
    BY ConstantsAssumption
  <2>2. QED
    BY <1>0, <1>1, <2>1, SendBlockTimed, SendBlockFailsTimed, CancelSessionTimed,
       UntimedSteps DEF Application
<1>2. ASSUME NEW e \in Engines, Receive(e)
      PROVE  TimedInv'
  BY <1>0, <1>2, UntimedSteps, ReceiveCheckpointTimed, ReceiveReportFullTimed,
     ReceiveReportPartialTimed, StoppingTimed DEF Receive
<1>3. ASSUME NEW e \in Engines, NEW i \in TimerSlots, Timeout(e, i)
      PROVE  TimedInv'
  BY <1>0, <1>3, RearmTimed, ExhaustedTimed DEF Timeout
<1>4. CASE UNCHANGED vars
  BY <1>0, <1>4 DEF vars, tables, TimedInv, SessionNumbers, OpenSessionIsTimed
<1>5. QED
  BY <1>0, <1>1, <1>2, <1>3, <1>4, UntimedSteps DEF Next, Step

\* As long as every timer table has a free entry, so that ltp_start_timer does start
\* what it is asked to, an open session that is not completed has a checkpoint timer,
\* however reports, acknowledgements, cancellations and expiries stop and start timers:
\* no session stalls in silence.  An engine whose device refuses writes is left out:
\* ltp_send_block returns before it starts the timer.
THEOREM SessionsAreTimed == Spec /\ []TimersFree => []OpenSessionIsTimed
<1>1. TimedInv => OpenSessionIsTimed
  BY DEF TimedInv
<1>2. QED
  BY <1>1, InitTimed, StepTimed, PTL DEF Spec
=============================================================================

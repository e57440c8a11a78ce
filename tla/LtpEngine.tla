------------------------------ MODULE LtpEngine ------------------------------
(***************************************************************************)
(* The LTP engine of src/kiss-interface/ltp.c: a set of engines, each with *)
(* its table of export sessions (blocks it sends), its table of import     *)
(* sessions (blocks it receives) and its table of retransmission timers,   *)
(* joined by a link that may lose segments.                                *)
(*                                                                         *)
(* A block is a run of bytes 0 .. BlockLen[b]-1; every byte of block b is  *)
(* represented by b itself.  Time is abstracted: an active timer may       *)
(* expire at any moment.  Flags are 0 or 1, as in the C structures.        *)
(***************************************************************************)
EXTENDS Integers, Sequences, FiniteSets

CONSTANTS
  Engines,     \* the engines; the hash of an endpoint identifier is taken as injective
  Hears,       \* Hears[e]: the engines that receive what e writes to its device
  Blocks,      \* the blocks the applications send
  BlockLen,    \* BlockLen[b]: the length of block b
  Zero,        \* the contents of memory cleared by memset
  Gap,         \* marks a byte that no claim of a reception map covers
  MaxBlock,    \* LTP_MAX_BLOCK_SIZE
  Mtu,         \* config.segment_mtu
  MaxExport,   \* LTP_MAX_EXPORT_SESSIONS
  MaxImport,   \* LTP_MAX_IMPORT_SESSIONS
  MaxTimers,   \* LTP_MAX_TIMERS
  MaxClaims,   \* LTP_MAX_CLAIMS
  MaxRetries,  \* config.max_retries
  Cancellers,  \* the engines whose application cancels sessions
  Timely,      \* TRUE when config.owlt_ms bounds the delay of the link, so that no
               \* timer expires while a segment is on its way; FALSE: at any time
  Faulty,      \* the engines whose device may refuse a write
  MaxSessions, \* bound: MaxSessions[e] blocks are sent by e
  MaxSerial,   \* bound: checkpoint and report serials of a session (LastSerial)
  MaxInbox     \* bound: segments on their way to one engine

ASSUME ConstantsAssumption ==
  /\ Hears \in [Engines -> SUBSET Engines]
  /\ \A e \in Engines : e \notin Hears[e]
  /\ MaxBlock \in Nat \ {0}
  /\ \A bl \in Blocks : BlockLen[bl] \in 1 .. MaxBlock
  /\ Zero \notin Blocks /\ Gap \notin Blocks /\ Zero # Gap
  /\ Mtu \in Nat \ {0}
  /\ MaxExport \in Nat /\ MaxImport \in Nat /\ MaxTimers \in Nat
  /\ MaxClaims \in Nat \ {0} /\ MaxRetries \in Nat
  /\ Timely \in BOOLEAN
  /\ Cancellers \subseteq Engines /\ Faulty \subseteq Engines
  /\ MaxSessions \in [Engines -> Nat] /\ MaxSerial \in Nat /\ MaxInbox \in Nat

VARIABLES
  exports,   \* exports[e]: the export session table of engine e
  imports,   \* imports[e]: the import session table
  timers,    \* timers[e]: the timer table
  next,      \* next[e]: next_session_number
  waiting,   \* waiting[e]: send_session of a running ltp_engine_run, 0 outside one
  inbox,     \* inbox[e]: the segments written and not yet read by e, oldest first
  sent,      \* history: which block was submitted as which session
  delivered, \* history: the calls of on_block_received, oldest first
  gaveUp,    \* history: import sessions closed before their block was delivered
  outcome    \* history: what ltp_engine_run returned for which session

tables == <<exports, imports, timers, next, waiting>>
history == <<sent, delivered, gaveUp, outcome>>
vars == <<tables, inbox, history>>

----------------------------------------------------------------------------
(* Segments and tables                                                     *)

RedData == 0
RedDataCp == 1
RedDataEorpCp == 2
Report == 8
ReportAck == 9
CancelBySender == 12
CancelAckSender == 13
CancelByRecvr == 14
CancelAckRecvr == 15

DataTypes == {RedData, RedDataCp, RedDataEorpCp}
CancelTypes == {CancelBySender, CancelAckSender, CancelByRecvr, CancelAckRecvr}

Offsets == 0 .. (MaxBlock - 1)

DataSegments ==
  [type : DataTypes, from : Engines, number : Nat, offset : Nat, length : Nat,
   cp : Nat, block : Blocks]
ReportSegments ==
  [type : {Report}, from : Engines, number : Nat, rpt : Nat, cp : Nat,
   upper : Nat, claims : SUBSET Offsets]
ReportAckSegments ==
  [type : {ReportAck}, from : Engines, number : Nat, rpt : Nat]
CancelSegments ==
  [type : CancelTypes, from : Engines, number : Nat]

\* What goes over the link.  `from' is the sender_engine_id of the header, the
\* only engine id a segment carries.
Segments == DataSegments \cup ReportSegments \cup ReportAckSegments \cup CancelSegments

ExportSlots == 1 .. MaxExport
ImportSlots == 1 .. MaxImport
TimerSlots == 1 .. MaxTimers

ExportSessions ==
  [active : {0, 1}, number : Nat, block : Blocks \cup {Zero}, nextCp : Nat,
   completed : {0, 1}, cancelled : {0, 1}]

\* `got' is block_data where recv_map claims it, and Gap elsewhere: nothing
\* reads a byte that is not claimed.
ImportSessions ==
  [active : {0, 1}, engine : Engines \cup {Zero}, number : Nat, blockLen : Nat,
   got : [Offsets -> Blocks \cup {Zero, Gap}], nextRpt : Nat]

CheckpointTimer == 0
ReportTimer == 1
CancelTimer == 2

\* `engine' is session_engine_id: recorded, and compared by nothing.
Timers ==
  [active : {0, 1}, type : {CheckpointTimer, ReportTimer, CancelTimer},
   engine : Engines \cup {Zero}, number : Nat, serial : Nat, retries : Nat]

FreeExport ==
  [active |-> 0, number |-> 0, block |-> Zero, nextCp |-> 0, completed |-> 0,
   cancelled |-> 0]
FreeImport ==
  [active |-> 0, engine |-> Zero, number |-> 0, blockLen |-> 0,
   got |-> [o \in Offsets |-> Gap], nextRpt |-> 0]
NoTimer ==
  [active |-> 0, type |-> CheckpointTimer, engine |-> Zero, number |-> 0,
   serial |-> 0, retries |-> 0]

\* The loops of ltp.c that stop at the first slot that fits.
First(S, s) == s \in S /\ \A t \in S : s <= t

FreeExports(e) == {s \in ExportSlots : exports[e][s].active = 0}
OpenExports(e, n) ==
  {s \in ExportSlots : exports[e][s].active = 1 /\ exports[e][s].number = n}

FreeImports(e) == {s \in ImportSlots : imports[e][s].active = 0}
\* Mutant: sessions told apart by their engine alone.
OpenImportsOfEngine(e, a, n) ==
  {s \in ImportSlots : imports[e][s].active = 1 /\ imports[e][s].engine = a}
OpenImports(e, a, n) ==
  {s \in ImportSlots : /\ imports[e][s].active = 1
                       /\ imports[e][s].engine = a
                       /\ imports[e][s].number = n}
\* The timer handlers look an import session up by its number alone.
ImportsNumbered(e, n) ==
  {s \in ImportSlots : imports[e][s].active = 1 /\ imports[e][s].number = n}

\* ltp_start_timer: the first inactive slot, or nothing when all are active.
StartTimer(ts, type, a, n, serial) ==
  LET free == {i \in TimerSlots : ts[i].active = 0}
  IN  [i \in TimerSlots |->
         IF First(free, i)
         THEN [active |-> 1, type |-> type, engine |-> a, number |-> n,
               serial |-> serial, retries |-> 0]
         ELSE ts[i]]

\* ltp_cancel_timer: the first active timer with this type, number and serial.
StopTimer(ts, type, n, serial) ==
  LET match == {i \in TimerSlots : /\ ts[i].active = 1 /\ ts[i].type = type
                                   /\ ts[i].number = n /\ ts[i].serial = serial}
  IN  [i \in TimerSlots |-> IF First(match, i) THEN NoTimer ELSE ts[i]]

Cancelled(sess) == [sess EXCEPT !.cancelled = 1]
Closed(sess) == [Cancelled(sess) EXCEPT !.active = 0]

\* Close the first open export session numbered n, as a cancelled one.
CancelExport(e, n) ==
  exports' = [exports EXCEPT ![e] =
    [s \in ExportSlots |->
       IF First(OpenExports(e, n), s) THEN Closed(exports[e][s]) ELSE exports[e][s]]]

\* Close the first of the import sessions in S; its block was not delivered.
AbandonImport(e, S) ==
  /\ imports' = [imports EXCEPT ![e] =
       [s \in ImportSlots |-> IF First(S, s) THEN FreeImport ELSE imports[e][s]]]
  /\ gaveUp' = gaveUp \cup
       {[at |-> e, from |-> imports[e][s].engine, number |-> imports[e][s].number] :
          s \in {t \in S : First(S, t)}}

----------------------------------------------------------------------------
(* The link                                                                *)

\* e writes the segments of `out', reading none.
Transmit(e, out) ==
  /\ \A b \in Hears[e] : Len(inbox[b]) + Len(out) <= MaxInbox
  /\ inbox' = [b \in Engines |-> IF b \in Hears[e] THEN inbox[b] \o out ELSE inbox[b]]

\* e reads the oldest segment on its way to it and writes those of `out'.
Exchange(e, out) ==
  /\ \A b \in Hears[e] : Len(inbox[b]) + Len(out) <= MaxInbox
  /\ inbox' = [b \in Engines |->
       IF b = e THEN Tail(inbox[b])
       ELSE IF b \in Hears[e] THEN inbox[b] \o out
       ELSE inbox[b]]

Incoming(e, types) == inbox[e] # << >> /\ Head(inbox[e]).type \in types

\* A segment is lost or corrupted on its way to e.
Lose(e) ==
  /\ inbox[e] # << >>
  /\ inbox' = [inbox EXCEPT ![e] = Tail(@)]
  /\ UNCHANGED <<tables, history>>

----------------------------------------------------------------------------
(* Sending a block                                                         *)

\* The segments of a block cut into `count' pieces; the last one ends the red
\* part and is checkpoint 1.
\* Mutant: the last piece is taken to begin where it ends.
BlockSegmentsOffByOne(e, n, b, count) ==
  [k \in 1 .. count |->
     [type |-> IF k = count THEN RedDataEorpCp ELSE RedData,
      from |-> e, number |-> n,
      offset |-> (k - 1) * Mtu,
      length |-> IF k = count THEN BlockLen[b] - k * Mtu ELSE Mtu,
      cp |-> IF k = count THEN 1 ELSE 0,
      block |-> b]]

BlockSegments(e, n, b, count) ==
  [k \in 1 .. count |->
     [type |-> IF k = count THEN RedDataEorpCp ELSE RedData,
      from |-> e, number |-> n,
      offset |-> (k - 1) * Mtu,
      length |-> IF k = count THEN BlockLen[b] - (k - 1) * Mtu ELSE Mtu,
      cp |-> IF k = count THEN 1 ELSE 0,
      block |-> b]]

\* count = ceil(len / Mtu)
SegmentCount(len, count) == (count - 1) * Mtu < len /\ len <= count * Mtu

\* Bound: the serials of an engine's first session run up to MaxSerial, those of
\* all its sessions one less far once it has opened another.
LastSerial(e) == IF next[e] <= 2 THEN MaxSerial ELSE MaxSerial - 1

\* The export session ltp_segment_block opens in slot s.
OpenExport(e, b, s) ==
  /\ waiting[e] = 0
  /\ next[e] <= MaxSessions[e]
  /\ \A t \in ExportSlots : exports[e][t].nextCp <= MaxSerial
  /\ First(FreeExports(e), s)
  /\ exports' = [exports EXCEPT ![e][s] =
       [active |-> 1, number |-> next[e], block |-> b, nextCp |-> 2,
        completed |-> 0, cancelled |-> 0]]
  /\ next' = [next EXCEPT ![e] = @ + 1]
  /\ sent' = sent \cup {[engine |-> e, number |-> next[e], block |-> b]}

\* ltp_send_block, and the entry into ltp_engine_run that follows it.
SendBlock(e, b) ==
  \E s \in ExportSlots, count \in 1 .. MaxBlock :
    /\ SegmentCount(BlockLen[b], count)
    /\ OpenExport(e, b, s)
    /\ Transmit(e, BlockSegments(e, next[e], b, count))
    /\ timers' = [timers EXCEPT ![e] = StartTimer(@, CheckpointTimer, e, next[e], 1)]
    /\ waiting' = [waiting EXCEPT ![e] = next[e]]
    /\ UNCHANGED <<imports, delivered, gaveUp, outcome>>

\* ltp_send_block when the device refuses one of the writes: the segments after
\* it are skipped and -1 is returned, with the session open and no timer.
SendBlockFails(e, b) ==
  \E s \in ExportSlots, count \in 1 .. MaxBlock : \E k \in 0 .. (count - 1) :
    /\ e \in Faulty
    /\ SegmentCount(BlockLen[b], count)
    /\ OpenExport(e, b, s)
    /\ Transmit(e, SubSeq(BlockSegments(e, next[e], b, count), 1, k))
    /\ UNCHANGED <<imports, timers, waiting, delivered, gaveUp, outcome>>

\* Mutant: a cancelled session is reported as a success.
ReturnAnyEnd(e) ==
  /\ waiting[e] # 0
  /\ \E s \in ExportSlots :
       /\ First({t \in ExportSlots : exports[e][t].number = waiting[e]}, s)
       /\ exports[e][s].completed = 1 \/ exports[e][s].cancelled = 1
  /\ outcome' = outcome \cup {[engine |-> e, number |-> waiting[e], ok |-> 1]}
  /\ waiting' = [waiting EXCEPT ![e] = 0]
  /\ UNCHANGED <<exports, imports, timers, next, inbox, sent, delivered, gaveUp>>

\* The end of an iteration of ltp_engine_run in send mode: success is tested
\* before cancellation, whether or not the session is still active.
Return(e) ==
  /\ waiting[e] # 0
  /\ \E s \in ExportSlots :
       /\ First({t \in ExportSlots : exports[e][t].number = waiting[e]}, s)
       /\ exports[e][s].completed = 1 \/ exports[e][s].cancelled = 1
       /\ outcome' = outcome \cup
            {[engine |-> e, number |-> waiting[e], ok |-> exports[e][s].completed]}
  /\ waiting' = [waiting EXCEPT ![e] = 0]
  /\ UNCHANGED <<exports, imports, timers, next, inbox, sent, delivered, gaveUp>>

----------------------------------------------------------------------------
(* Receiving data (types 0, 1 and 2)                                       *)

Claims(sess) == {o \in Offsets : sess.got[o] # Gap}

\* The number of entries of recv_map: the maximal runs of claimed bytes.
ClaimCount(claims) == Cardinality({o \in claims : o - 1 \notin claims})

\* A single claim that starts at 0 and is at least len long.
CoversFromZero(claims, len) == \E k \in 1 .. MaxBlock : k >= len /\ claims = 0 .. (k - 1)

\* Byte o of the block_data array of an export session holding b.
Byte(b, o) == IF o < BlockLen[b] THEN b ELSE Zero

NewImport(m) ==
  [active |-> 1, engine |-> m.from, number |-> m.number, blockLen |-> 0,
   got |-> [o \in Offsets |-> Gap], nextRpt |-> 1]

Span(m) == m.offset .. (m.offset + m.length - 1)

\* ltp_recv_map_add_claim has room for the segment: it merges with an existing
\* claim that it overlaps or touches, or the table has a free entry.
Claimable(claims, m) ==
  \/ \E o \in claims : m.offset - 1 <= o /\ o <= m.offset + m.length
  \/ ClaimCount(claims) < MaxClaims

\* Mutant: a segment's claim replaces the claims before it.
CopiedOver(sess, m) ==
  [sess EXCEPT !.got = [o \in Offsets |->
     IF o \in Span(m) THEN Byte(m.block, o) ELSE Gap]]

\* The session after the segment's bytes are copied and claimed.
Copied(sess, m) ==
  [sess EXCEPT !.got = [o \in Offsets |->
     IF o \in Span(m) /\ Claimable(Claims(sess), m)
     THEN Byte(m.block, o) ELSE sess.got[o]]]

\* The end of the red part tells the length of the block.
Absorb(sess, m) ==
  IF m.type = RedDataEorpCp
  THEN [Copied(sess, m) EXCEPT !.blockLen = m.offset + m.length]
  ELSE Copied(sess, m)

\* Mutant: the last byte of the block is there, whatever comes before it.
CompleteAtEnd(sess) == sess.blockLen > 0 /\ (sess.blockLen - 1) \in Claims(sess)

Complete(sess) == sess.blockLen > 0 /\ CoversFromZero(Claims(sess), sess.blockLen)

ReportOn(e, sess, rpt, cp, upper) ==
  [type |-> Report, from |-> e, number |-> sess.number, rpt |-> rpt, cp |-> cp,
   upper |-> upper, claims |-> Claims(sess)]

\* The session of a data segment: the open one, else the first free slot.
DataSlot(e, m, s) ==
  IF OpenImports(e, m.from, m.number) # {}
  THEN First(OpenImports(e, m.from, m.number), s)
  ELSE First(FreeImports(e), s)

DataSession(e, m, s) ==
  IF imports[e][s].active = 1 THEN imports[e][s] ELSE NewImport(m)

\* A complete block is handed to the application and its session closed.
StoreOrDeliver(e, s, sess) ==
  IF Complete(sess)
  THEN /\ imports' = [imports EXCEPT ![e][s] = FreeImport]
       /\ delivered' = Append(delivered,
            [at |-> e, from |-> sess.engine, number |-> sess.number,
             data |-> [o \in 0 .. (sess.blockLen - 1) |-> sess.got[o]]])
  ELSE /\ imports' = [imports EXCEPT ![e][s] = sess]
       /\ UNCHANGED delivered

\* Every session is taken: the segment is dropped.
ReceiveDataNoSlot(e) ==
  /\ Incoming(e, DataTypes)
  /\ OpenImports(e, Head(inbox[e]).from, Head(inbox[e]).number) = {}
  /\ FreeImports(e) = {}
  /\ Exchange(e, << >>)
  /\ UNCHANGED <<tables, history>>

\* A plain data segment (type 0).
ReceiveRedData(e) ==
  /\ Incoming(e, {RedData})
  /\ LET m == Head(inbox[e]) IN
     \E s \in ImportSlots :
       /\ DataSlot(e, m, s)
       /\ LET sess == Absorb(DataSession(e, m, s), m) IN
          /\ Exchange(e, << >>)
          /\ StoreOrDeliver(e, s, sess)
  /\ UNCHANGED <<exports, timers, next, waiting, sent, gaveUp, outcome>>

\* A checkpoint (types 1 and 2): a report answers it before the block is delivered.
ReceiveCheckpoint(e) ==
  /\ Incoming(e, {RedDataCp, RedDataEorpCp})
  /\ LET m == Head(inbox[e]) IN
     \E s \in ImportSlots :
       /\ DataSlot(e, m, s)
       /\ LET sess == Absorb(DataSession(e, m, s), m)
              upper == IF sess.blockLen > 0 THEN sess.blockLen ELSE m.offset + m.length
          IN
          /\ sess.nextRpt <= LastSerial(sess.engine)
          /\ Exchange(e, <<ReportOn(e, sess, sess.nextRpt, m.cp, upper)>>)
          /\ timers' = [timers EXCEPT ![e] =
               StartTimer(@, ReportTimer, sess.engine, sess.number, sess.nextRpt)]
          /\ StoreOrDeliver(e, s, [sess EXCEPT !.nextRpt = @ + 1])
  /\ UNCHANGED <<exports, next, waiting, sent, gaveUp, outcome>>

----------------------------------------------------------------------------
(* Receiving a report (type 8): the export side                            *)

Min2(a, b) == IF a < b THEN a ELSE b

\* The bytes ltp_retransmit_missing sends again: below the upper bound or below
\* some claim, and not claimed.
Missing(r, len) ==
  {o \in Offsets : /\ o \notin r.claims
                   /\ o < Min2(r.upper, len) \/ \E c \in r.claims : o < c}

\* Each maximal run of missing bytes is cut from its start into pieces of Mtu.
Pieces(M) ==
  {p \in [offset : M, length : 1 .. Mtu] :
     /\ p.offset .. (p.offset + p.length - 1) \subseteq M
     /\ p.length = Mtu \/ p.offset + p.length \notin M
     /\ \E k \in 0 .. MaxBlock :
          LET start == p.offset - k * Mtu
          IN  start .. p.offset \subseteq M /\ start \in M /\ start - 1 \notin M}

\* The pieces in ascending order.
InOrder(P, q) ==
  /\ \A p \in P : \E i \in DOMAIN q : q[i] = p
  /\ \A i, j \in DOMAIN q : i < j => q[i].offset < q[j].offset

\* The last piece is a checkpoint with the session's next serial.
Retransmission(e, sess, q) ==
  [k \in DOMAIN q |->
     [type |-> IF k = Len(q) THEN RedDataCp ELSE RedData,
      from |-> e, number |-> sess.number,
      offset |-> q[k].offset, length |-> q[k].length,
      cp |-> IF k = Len(q) THEN sess.nextCp ELSE 0,
      block |-> sess.block]]

AckOf(e, r) == [type |-> ReportAck, from |-> e, number |-> r.number, rpt |-> r.rpt]

\* No open export session has this number: the report is dropped unacknowledged.
ReceiveReportUnknown(e) ==
  /\ Incoming(e, {Report})
  /\ OpenExports(e, Head(inbox[e]).number) = {}
  /\ Exchange(e, << >>)
  /\ UNCHANGED <<tables, history>>

\* The report claims the whole block.
ReceiveReportFull(e) ==
  /\ Incoming(e, {Report})
  /\ LET r == Head(inbox[e]) IN
     \E s \in ExportSlots :
       /\ First(OpenExports(e, r.number), s)
       /\ CoversFromZero(r.claims, BlockLen[exports[e][s].block])
       /\ Exchange(e, <<AckOf(e, r)>>)
       /\ timers' = [timers EXCEPT ![e] = StopTimer(@, CheckpointTimer, r.number, r.cp)]
       /\ exports' = [exports EXCEPT ![e][s].completed = 1]
  /\ UNCHANGED <<imports, next, waiting, history>>

\* It does not: what it misses is sent again, and a checkpoint timer started
\* even when that is nothing.
ReceiveReportPartial(e) ==
  /\ Incoming(e, {Report})
  /\ LET r == Head(inbox[e]) IN
     \E s \in ExportSlots : \E len \in 0 .. MaxBlock :
       LET sess == exports[e][s]
           pieces == Pieces(Missing(r, BlockLen[sess.block]))
       IN
       /\ First(OpenExports(e, r.number), s)
       /\ ~ CoversFromZero(r.claims, BlockLen[sess.block])
       /\ len = Cardinality(pieces)
       /\ \E q \in [1 .. len -> pieces] :
            LET cp == IF len > 0 THEN sess.nextCp + 1 ELSE sess.nextCp IN
            /\ InOrder(pieces, q)
            /\ cp <= LastSerial(e) + 1
            /\ Exchange(e, <<AckOf(e, r)>> \o Retransmission(e, sess, q))
            /\ exports' = [exports EXCEPT ![e][s].nextCp = cp]
            /\ timers' = [timers EXCEPT ![e] =
                 StartTimer(StopTimer(@, CheckpointTimer, r.number, r.cp),
                            CheckpointTimer, e, r.number, cp - 1)]
  /\ UNCHANGED <<imports, next, waiting, history>>

\* A report acknowledgement (type 9) stops the first report timer with its
\* session and report numbers, whichever engine the session is from.
ReceiveReportAck(e) ==
  /\ Incoming(e, {ReportAck})
  /\ timers' = [timers EXCEPT ![e] =
       StopTimer(@, ReportTimer, Head(inbox[e]).number, Head(inbox[e]).rpt)]
  /\ Exchange(e, << >>)
  /\ UNCHANGED <<exports, imports, next, waiting, history>>

----------------------------------------------------------------------------
(* Cancellation (types 12 to 15)                                           *)

Cancel(type, e, n) == [type |-> type, from |-> e, number |-> n]

\* ltp_cancel_session: the session stays open until its peer acknowledges.
CancelSession(e, n) ==
  /\ e \in Cancellers
  /\ \E s \in ExportSlots :
       /\ First(OpenExports(e, n), s)
       /\ exports' = [exports EXCEPT ![e][s] = Cancelled(@)]
  /\ timers' = [timers EXCEPT ![e] = StartTimer(@, CancelTimer, e, n, 0)]
  /\ Transmit(e, <<Cancel(CancelBySender, e, n)>>)
  /\ UNCHANGED <<imports, next, waiting, history>>

\* The acknowledgement goes out whether or not the session exists.
ReceiveCancelBySender(e) ==
  /\ Incoming(e, {CancelBySender})
  /\ LET m == Head(inbox[e]) IN
     /\ Exchange(e, <<Cancel(CancelAckSender, e, m.number)>>)
     /\ AbandonImport(e, OpenImports(e, m.from, m.number))
  /\ UNCHANGED <<exports, timers, next, waiting, sent, delivered, outcome>>

ReceiveCancelAckSender(e) ==
  /\ Incoming(e, {CancelAckSender})
  /\ LET m == Head(inbox[e]) IN
     /\ Exchange(e, << >>)
     /\ CancelExport(e, m.number)
     /\ timers' = [timers EXCEPT ![e] = StopTimer(@, CancelTimer, m.number, 0)]
  /\ UNCHANGED <<imports, next, waiting, history>>

\* The cancel-by-receiver that the peer of another implementation sends for a
\* block it no longer wants: ltp.c answers this segment and never sends it.
CancelImport(e, a, n) ==
  /\ e \in Cancellers
  /\ OpenImports(e, a, n) # {}
  /\ Transmit(e, <<Cancel(CancelByRecvr, e, n)>>)
  /\ UNCHANGED <<tables, history>>

ReceiveCancelByRecvr(e) ==
  /\ Incoming(e, {CancelByRecvr})
  /\ LET m == Head(inbox[e]) IN
     /\ Exchange(e, <<Cancel(CancelAckRecvr, e, m.number)>>)
     /\ CancelExport(e, m.number)
  /\ UNCHANGED <<imports, timers, next, waiting, history>>

ReceiveCancelAckRecvr(e) ==
  /\ Incoming(e, {CancelAckRecvr})
  /\ LET m == Head(inbox[e]) IN
     /\ Exchange(e, << >>)
     /\ AbandonImport(e, OpenImports(e, m.from, m.number))
     /\ timers' = [timers EXCEPT ![e] = StopTimer(@, CancelTimer, m.number, 0)]
  /\ UNCHANGED <<exports, next, waiting, sent, delivered, outcome>>

----------------------------------------------------------------------------
(* Timer expiry: ltp_fire_expired_timers for one expired timer             *)

Expiring(e, i, type) ==
  /\ timers[e][i].active = 1
  /\ timers[e][i].type = type
  /\ Timely => \A b \in Engines : inbox[b] = << >>
Exhausted(e, i) == timers[e][i].retries + 1 >= MaxRetries

\* Mutant: the timer is restarted and not counted.
RearmUncounted(e, i) == UNCHANGED timers

\* The timer is counted and restarted; its serial stays as it was.
Rearm(e, i) == timers' = [timers EXCEPT ![e][i].retries = @ + 1]

\* The last Mtu bytes of the block, as an end of red part checkpoint.
TailCheckpoint(e, sess) ==
  LET start == IF BlockLen[sess.block] > Mtu THEN BlockLen[sess.block] - Mtu ELSE 0
  IN  [type |-> RedDataEorpCp, from |-> e, number |-> sess.number,
       offset |-> start, length |-> BlockLen[sess.block] - start,
       cp |-> sess.nextCp, block |-> sess.block]

\* Mutant: the checkpoint is repeated under a serial that stays the next one.
CheckpointTimeoutSameSerial(e, i) ==
  /\ Expiring(e, i, CheckpointTimer)
  /\ ~ Exhausted(e, i)
  /\ \E s \in ExportSlots :
       /\ First(OpenExports(e, timers[e][i].number), s)
       /\ Transmit(e, <<TailCheckpoint(e, exports[e][s])>>)
  /\ Rearm(e, i)
  /\ UNCHANGED <<exports, imports, next, waiting, history>>

\* A checkpoint timer expires and its session is open: checkpoint again, under
\* a new serial.
CheckpointTimeout(e, i) ==
  /\ Expiring(e, i, CheckpointTimer)
  /\ ~ Exhausted(e, i)
  /\ \E s \in ExportSlots :
       /\ First(OpenExports(e, timers[e][i].number), s)
       /\ exports[e][s].nextCp <= LastSerial(e)
       /\ Transmit(e, <<TailCheckpoint(e, exports[e][s])>>)
       /\ exports' = [exports EXCEPT ![e][s].nextCp = @ + 1]
  /\ Rearm(e, i)
  /\ UNCHANGED <<imports, next, waiting, history>>

\* A report timer expires and an import session with its number is open: the
\* report is sent again, with checkpoint serial 0 and what is claimed by now.
ReportTimeout(e, i) ==
  /\ Expiring(e, i, ReportTimer)
  /\ ~ Exhausted(e, i)
  /\ \E s \in ImportSlots :
       /\ First(ImportsNumbered(e, timers[e][i].number), s)
       /\ Transmit(e, <<ReportOn(e, imports[e][s], timers[e][i].serial, 0,
                                 imports[e][s].blockLen)>>)
  /\ Rearm(e, i)
  /\ UNCHANGED <<exports, imports, next, waiting, history>>

CancelTimeout(e, i) ==
  /\ Expiring(e, i, CancelTimer)
  /\ ~ Exhausted(e, i)
  /\ Transmit(e, <<Cancel(CancelBySender, e, timers[e][i].number)>>)
  /\ Rearm(e, i)
  /\ UNCHANGED <<exports, imports, next, waiting, history>>

\* Mutant: a timer that has nothing to send is not counted.
OrphanTimeoutUncounted(e, i) ==
  /\ Expiring(e, i, ReportTimer)
  /\ ImportsNumbered(e, timers[e][i].number) = {}
  /\ UNCHANGED vars

\* The timer's session is no longer open: it runs on with nothing to send.
OrphanTimeout(e, i) ==
  /\ ~ Exhausted(e, i)
  /\ \/ /\ Expiring(e, i, CheckpointTimer)
        /\ OpenExports(e, timers[e][i].number) = {}
     \/ /\ Expiring(e, i, ReportTimer)
        /\ ImportsNumbered(e, timers[e][i].number) = {}
  /\ Rearm(e, i)
  /\ UNCHANGED <<exports, imports, next, waiting, inbox, history>>

Disarm(e, i) == timers' = [timers EXCEPT ![e][i] = NoTimer]

\* Mutant: the timer is disarmed and its session left open.
CheckpointExhaustedKept(e, i) ==
  /\ Expiring(e, i, CheckpointTimer)
  /\ Exhausted(e, i)
  /\ Disarm(e, i)
  /\ UNCHANGED <<exports, imports, next, waiting, inbox, history>>

\* Retries are used up: a checkpoint timer closes the export session with its
\* number, completed or not, and tells the peer nothing.
CheckpointExhausted(e, i) ==
  /\ Expiring(e, i, CheckpointTimer)
  /\ Exhausted(e, i)
  /\ CancelExport(e, timers[e][i].number)
  /\ Disarm(e, i)
  /\ UNCHANGED <<imports, next, waiting, inbox, history>>

\* A report timer closes the first import session with its number.
ReportExhausted(e, i) ==
  /\ Expiring(e, i, ReportTimer)
  /\ Exhausted(e, i)
  /\ AbandonImport(e, ImportsNumbered(e, timers[e][i].number))
  /\ Disarm(e, i)
  /\ UNCHANGED <<exports, next, waiting, inbox, sent, delivered, outcome>>

CancelExhausted(e, i) ==
  /\ Expiring(e, i, CancelTimer)
  /\ Exhausted(e, i)
  /\ Disarm(e, i)
  /\ UNCHANGED <<exports, imports, next, waiting, inbox, history>>

----------------------------------------------------------------------------
(* The specification                                                       *)

\* ltp_engine_init in every process.
Init ==
  /\ exports = [e \in Engines |-> [s \in ExportSlots |-> FreeExport]]
  /\ imports = [e \in Engines |-> [s \in ImportSlots |-> FreeImport]]
  /\ timers = [e \in Engines |-> [i \in TimerSlots |-> NoTimer]]
  /\ next = [e \in Engines |-> 1]
  /\ waiting = [e \in Engines |-> 0]
  /\ inbox = [e \in Engines |-> << >>]
  /\ sent = {}
  /\ delivered = << >>
  /\ gaveUp = {}
  /\ outcome = {}

Application(e) ==
  \/ \E b \in Blocks : SendBlock(e, b) \/ SendBlockFails(e, b)
  \/ \E n \in 1 .. MaxSessions[e] : CancelSession(e, n)
  \/ \E a \in Engines : \E n \in 1 .. MaxSessions[a] : CancelImport(e, a, n)

Receive(e) ==
  \/ ReceiveDataNoSlot(e)
  \/ ReceiveRedData(e)
  \/ ReceiveCheckpoint(e)
  \/ ReceiveReportUnknown(e)
  \/ ReceiveReportFull(e)
  \/ ReceiveReportPartial(e)
  \/ ReceiveReportAck(e)
  \/ ReceiveCancelBySender(e)
  \/ ReceiveCancelAckSender(e)
  \/ ReceiveCancelByRecvr(e)
  \/ ReceiveCancelAckRecvr(e)

Timeout(e, i) ==
  \/ CheckpointTimeout(e, i)
  \/ ReportTimeout(e, i)
  \/ CancelTimeout(e, i)
  \/ OrphanTimeout(e, i)
  \/ CheckpointExhausted(e, i)
  \/ ReportExhausted(e, i)
  \/ CancelExhausted(e, i)

\* One step of one engine, or of the link towards it.
Step(e) ==
  \/ Application(e)
  \/ Receive(e)
  \/ \E i \in TimerSlots : Timeout(e, i)
  \/ Return(e)
  \/ Lose(e)

Next == \E e \in Engines : Step(e)

Spec == Init /\ [][Next]_vars

\* ltp_engine_run polls until the next expiry, fires what has expired after every
\* poll and then tests its session; the link delivers or loses what it carries.
Fairness ==
  \A e \in Engines :
    /\ WF_vars(Receive(e) \/ Lose(e))
    /\ \A i \in TimerSlots : WF_vars(Timeout(e, i))
    /\ WF_vars(Return(e))

FairSpec == Spec /\ Fairness

=============================================================================

---------------------------- MODULE LtpProperties ----------------------------
(***************************************************************************)
(* What the engines of LtpEngine promise one another and their callers.    *)
(***************************************************************************)
EXTENDS LtpEngine, Functions

\* Session n of engine e was delivered by engine b.
DeliveredAt(b, e, n) ==
  \E d \in Range(delivered) : d.at = b /\ d.from = e /\ d.number = n

\* It was delivered by b, or b closed it before that.
SettledAt(b, e, n) ==
  DeliveredAt(b, e, n) \/ [at |-> b, from |-> e, number |-> n] \in gaveUp

----------------------------------------------------------------------------

Deliveries ==
  [at : Engines, from : Engines, number : Nat,
   data : UNION {[0 .. (l - 1) -> Blocks \cup {Zero, Gap}] : l \in 1 .. MaxBlock}]

\* Every variable holds what the C structures can hold.
TypeOK ==
  /\ exports \in [Engines -> [ExportSlots -> ExportSessions]]
  /\ imports \in [Engines -> [ImportSlots -> ImportSessions]]
  /\ timers \in [Engines -> [TimerSlots -> Timers]]
  /\ next \in [Engines -> Nat \ {0}]
  /\ waiting \in [Engines -> Nat]
  /\ inbox \in [Engines -> Seq(Segments)]
  /\ sent \subseteq [engine : Engines, number : Nat, block : Blocks]
  /\ delivered \in Seq(Deliveries)
  /\ gaveUp \subseteq [at : Engines, from : Engines \cup {Zero}, number : Nat]
  /\ outcome \subseteq [engine : Engines, number : Nat, ok : {0, 1}]

\* The contents of block b.
Contents(b) == [o \in 0 .. (BlockLen[b] - 1) |-> b]

\* Every block handed to on_block_received is, byte for byte, a block that its
\* engine submitted: reassembly from lost, repeated and overlapping segments
\* never mixes blocks, truncates one or leaves a hole in it.
DeliveredIntact ==
  \A d \in Range(delivered) : \E r \in sent :
    /\ r.engine = d.from /\ r.number = d.number
    /\ d.data = Contents(r.block)

\* ltp_engine_run reports success only for a block that was delivered.  A full table
\* of claims (ltp.c:572) breaks this: once the receiver has lost the session and with it
\* the length of the block, by a restart or for want of retries, nothing brings the
\* length again (ltp.c:932).
SuccessMeansDelivered ==
  \A c \in outcome : c.ok = 1 =>
    \E b \in Hears[c.engine] : DeliveredAt(b, c.engine, c.number)

\* It reports success only for a block that an engine which hears the sender has
\* delivered or, out of retries or cancelled, has given up: never for one that
\* is still being received.
SuccessMeansSettled ==
  \A c \in outcome : c.ok = 1 =>
    \E b \in Hears[c.engine] : SettledAt(b, c.engine, c.number)

\* A session that the application did not cancel and that is neither completed
\* nor closed has a checkpoint timer running: it cannot stall in silence.
\* It takes a timer table with room: a failure to start a timer is ignored.
OpenSessionIsTimed ==
  \A e \in Engines \ Faulty, s \in ExportSlots :
    LET sess == exports[e][s] IN
    sess.active = 1 /\ sess.completed = 0 =>
      \E i \in TimerSlots : /\ timers[e][i].active = 1
                            /\ timers[e][i].type = CheckpointTimer
                            /\ timers[e][i].number = sess.number

----------------------------------------------------------------------------

\* The two ends of a link, seen from their applications.
Transfer ==
  INSTANCE BlockTransfer WITH
    Senders <- Engines, Reach <- Hears, Payloads <- Blocks,
    Bytes <- [b \in Blocks |-> Contents(b)],
    Numbers <- UNION {1 .. MaxSessions[e] : e \in Engines},
    submitted <- sent, deliveries <- delivered, abandoned <- gaveUp, verdicts <- outcome

\* Engines on a link implement block transfer: ltp_send_block submits, the call
\* of on_block_received delivers, closing an import session before that abandons, the
\* return of ltp_engine_run is the verdict.
ImplementsTransfer == Transfer!AbstractSpec

----------------------------------------------------------------------------

\* Every send run returns: whatever the link loses, the session is completed or
\* its retries are used up.
SendRunEnds == \A e \in Engines : waiting[e] # 0 ~> waiting[e] = 0

\* Retransmission dies out: no exchange of reports, repeated checkpoints and
\* sessions reopened by them keeps the timers running for ever.
TimersDieOut == <>[](\A e \in Engines, i \in TimerSlots : timers[e][i].active = 0)

----------------------------------------------------------------------------

IsCheckpoint(m) == m.type \in {RedDataCp, RedDataEorpCp}

\* The checkpoints of a session carry strictly increasing serials, in the order
\* they are written, whichever of a new block, a report and several timers wrote
\* them (requirement 4.6).
CheckpointSerialsAscend ==
  \A e \in Engines : \A i, j \in DOMAIN inbox[e] :
    LET m == inbox[e][i]
        w == inbox[e][j]
    IN  i < j /\ IsCheckpoint(m) /\ IsCheckpoint(w)
          /\ m.from = w.from /\ m.number = w.number => m.cp < w.cp

\* What a report on its way claims for a session, the receiver still holds, or
\* it has delivered the block or given the session up: the sender is never told
\* that a byte has arrived that will not reach the application.
ClaimsAreHeld ==
  \A e \in Engines : \A i \in DOMAIN inbox[e] :
    LET r == inbox[e][i] IN
    r.type = Report =>
      \/ \E s \in OpenImports(r.from, e, r.number) : r.claims \subseteq Claims(imports[r.from][s])
      \/ SettledAt(r.from, e, r.number)

\* A claimed byte of an open import session keeps its value until the session
\* closes: overlapping and repeated segments agree with what is there.
ClaimedBytesStay ==
  [][\A e \in Engines, s \in ImportSlots :
       LET was == imports[e][s]
           is == imports[e][s]'
       IN  was.active = 1 /\ is.active = 1
             /\ was.engine = is.engine /\ was.number = is.number =>
           \A o \in Claims(was) : is.got[o] = was.got[o]]_imports
=============================================================================

----------------------------- MODULE LtpTransfer -----------------------------
(***************************************************************************)
(* On point-to-point links, ltp_engine_run reports success only for a block*)
(* that its receiver has delivered or given up: the proof.                 *)
(*                                                                         *)
(* A sender completes a session when a report claims every byte.  Whether  *)
(* that implies delivery depends on the receiver knowing the length of the *)
(* block when it reports, for it delivers by that length.  The invariant   *)
(* says where the knowledge travels: the end of the red part brings it, a  *)
(* report is written only by an engine that has it (or is done with the    *)
(* session), and the plain checkpoints that follow a report find it there. *)
(* The last part is about receivers that restart.                          *)
(***************************************************************************)
EXTENDS LtpProofs, LtpRestart

\* Every engine hears, and is heard by, at most one engine, the same one.
PointToPoint ==
  \A e, x \in Engines : \A b \in Hears[e] :
    /\ Hears[e] = {b}
    /\ b \in Hears[x] => x = e
    /\ Hears[b] \subseteq {e}

\* The open session that data of session n of engine a goes to at b knows the
\* length of its block.
LengthKnown(b, a, n) ==
  \E s \in ImportSlots : First(OpenImports(b, a, n), s) /\ imports[b][s].blockLen > 0

Sure(b, a, n) == SettledAt(b, a, n) \/ LengthKnown(b, a, n)

\* What holds of a segment on its way to b.
Warranted(b, m) ==
  /\ b \in Hears[m.from]
  /\ m.type = RedDataCp => Sure(b, m.from, m.number)
  /\ m.type = Report =>
       /\ m.from \in Hears[b]
       /\ Sure(m.from, b, m.number)
       /\ \E r \in sent : /\ r.engine = b /\ r.number = m.number
                          /\ CoversFromZero(m.claims, BlockLen[r.block]) =>
                               SettledAt(m.from, b, m.number)

LinkWarranted == \A b \in Engines : \A m \in InFlight(b) : Warranted(b, m)

\* An open import session is of an engine that b hears, and is not complete.
ImportsOpen ==
  \A b \in Engines : \A s \in ImportSlots :
    imports[b][s].active = 1 =>
      /\ b \in Hears[imports[b][s].engine]
      /\ ~ Complete(imports[b][s])

\* A report timer runs for a session whose length is known.
ReportTimerFor(t, a, n) ==
  t.active = 1 /\ t.type = ReportTimer /\ t.engine = a /\ t.number = n

TimersSure ==
  \A b \in Engines, i \in TimerSlots, a \in Engines \cup {Zero}, n \in Nat :
    ReportTimerFor(timers[b][i], a, n) => a \in Engines /\ b \in Hears[a] /\ Sure(b, a, n)

CompletedSettled ==
  \A e \in Engines, s \in ExportSlots, n \in Nat :
    exports[e][s].completed = 1 /\ exports[e][s].number = n =>
      \E b \in Hears[e] : SettledAt(b, e, n)

Sound ==
  /\ Integrity
  /\ LinkWarranted
  /\ ImportsOpen
  /\ TimersSure
  /\ CompletedSettled
  /\ SuccessMeansSettled

----------------------------------------------------------------------------
(* What is settled stays settled, and what is known stays known or becomes *)
(* settled                                                                 *)

SettledKept ==
  \A b, a \in Engines, n \in Nat : SettledAt(b, a, n) => SettledAt(b, a, n)'

SureKept ==
  /\ SettledKept
  /\ \A b, a \in Engines, n \in Nat : Sure(b, a, n) => Sure(b, a, n)'

LEMMA QuietKept ==
  ASSUME UNCHANGED <<imports, delivered, gaveUp>>
  PROVE  SureKept
  BY DEF SureKept, SettledKept, Sure, SettledAt, DeliveredAt, LengthKnown, OpenImports

LEMMA FirstUnique ==
  ASSUME NEW k \in Nat, NEW S \in SUBSET (1 .. k), NEW s, NEW t, First(S, s), First(S, t)
  PROVE  s = t
  BY DEF First

\* Closing the first session of a set settles it, and leaves the others.
LEMMA AbandonKept ==
  ASSUME Tables, NEW e \in Engines, NEW S \in SUBSET ImportSlots, AbandonImport(e, S),
         UNCHANGED delivered
  PROVE  SureKept
<1>1. gaveUp \subseteq gaveUp'
  BY DEF AbandonImport
<1>2. SettledKept
  BY <1>1 DEF SettledKept, SettledAt, DeliveredAt
<1>3. ASSUME NEW b \in Engines, NEW a \in Engines, NEW n \in Nat, LengthKnown(b, a, n)
      PROVE  SettledAt(b, a, n)' \/ LengthKnown(b, a, n)'
  <2>1. PICK s \in ImportSlots : First(OpenImports(b, a, n), s) /\ imports[b][s].blockLen > 0
    BY <1>3 DEF LengthKnown
  <2>2. CASE \E t \in OpenImports(b, a, n) : b = e /\ First(S, t)
    <3>1. PICK t \in OpenImports(b, a, n) : b = e /\ First(S, t)
      BY <2>2
    <3>2. t \in S /\ imports[b][t].engine = a /\ imports[b][t].number = n
      BY <3>1 DEF First, OpenImports
    <3>3. [at |-> b, from |-> a, number |-> n] \in gaveUp'
      BY <3>1, <3>2 DEF AbandonImport
    <3>4. QED
      BY <3>3 DEF SettledAt
  <2>3. CASE ~ \E t \in OpenImports(b, a, n) : b = e /\ First(S, t)
    <3>1. \A t \in ImportSlots : imports'[b][t] =
            IF b = e /\ First(S, t) THEN FreeImport ELSE imports[b][t]
      BY DEF AbandonImport, Tables
    <3>2. FreeImport.active = 0
      BY DEF FreeImport
    <3>3. \A t \in OpenImports(b, a, n) : imports'[b][t] = imports[b][t]
      BY <2>3, <3>1 DEF OpenImports
    <3>4. OpenImports(b, a, n)' = OpenImports(b, a, n)
      BY <3>1, <3>2, <3>3 DEF OpenImports
    <3>5. s \in OpenImports(b, a, n)
      BY <2>1 DEF First
    <3>6. imports'[b][s].blockLen > 0
      BY <2>1, <3>3, <3>5
    <3>7. QED
      BY <2>1, <3>4, <3>6 DEF LengthKnown, First
  <2>4. QED
    BY <2>2, <2>3
<1>4. QED
  BY <1>2, <1>3 DEF SureKept, SettledKept, Sure
\* Storing or delivering the session of a data segment of session n of engine a
\* settles it when it is complete, and otherwise keeps what is known of its length.
LEMMA DataKept ==
  ASSUME Integrity, UNCHANGED gaveUp, NEW e \in Engines, NEW m \in DataSegments,
         NEW s \in ImportSlots, DataSlot(e, m, s), NEW x \in ImportSessions,
         x.active = 1, x.engine = m.from, x.number = m.number,
         imports[e][s].active = 1 /\ imports[e][s].blockLen > 0 => x.blockLen > 0,
         StoreOrDeliver(e, s, x)
  PROVE  /\ SureKept
         /\ Complete(x) => SettledAt(e, m.from, m.number)'
         /\ x.blockLen > 0 => Sure(e, m.from, m.number)'
<1> DEFINE open == OpenImports(e, m.from, m.number)
<1>0. imports \in [Engines -> [ImportSlots -> ImportSessions]] /\ delivered \in Seq(Deliveries)
  BY DEF Integrity, TypeInv, TypeOK
<1>1. Range(delivered) \subseteq Range(delivered')
  <2>1. CASE Complete(x)
    <3>1. \E d : delivered' = Append(delivered, d)
      BY <2>1 DEF StoreOrDeliver
    <3>2. QED
      BY <1>0, <3>1, AppendRange
  <2>2. CASE ~ Complete(x)
    BY <2>2 DEF StoreOrDeliver
  <2>3. QED
    BY <2>1, <2>2
<1>2. SettledKept
  BY <1>1 DEF SettledKept, SettledAt, DeliveredAt
<1>3. ASSUME Complete(x)
      PROVE  SettledAt(e, m.from, m.number)'
  <2> DEFINE d == [at |-> e, from |-> x.engine, number |-> x.number,
                   data |-> [o \in 0 .. (x.blockLen - 1) |-> x.got[o]]]
  <2>1. delivered' = Append(delivered, d)
    BY <1>3 DEF StoreOrDeliver
  <2>2. d.at = e /\ d.from = m.from /\ d.number = m.number
    OBVIOUS
  <2> HIDE DEF d
  <2>3. d \in Range(delivered')
    BY <1>0, <2>1, AppendRange
  <2>4. QED
    BY <2>2, <2>3 DEF SettledAt, DeliveredAt
<1>4. /\ s \notin open => open = {} /\ imports[e][s].active = 0
      /\ open # {} => First(open, s)
      /\ s \in ImportSlots
  BY DEF DataSlot, First, FreeImports
<1>5. /\ ~ Complete(x) => imports' = [imports EXCEPT ![e][s] = x]
      /\ Complete(x) => imports' = [imports EXCEPT ![e][s] = FreeImport]
      /\ FreeImport.active = 0
  BY DEF StoreOrDeliver, FreeImport
<1>6. ASSUME ~ Complete(x)
      PROVE  /\ imports'[e][s] = x
             /\ First(open', s)
             /\ open # {} => open' = open
  <2>1. imports'[e][s] = x
    BY <1>0, <1>5, <1>6
  <2>2. \A t \in ImportSlots : t # s => imports'[e][t] = imports[e][t]
    BY <1>0, <1>5, <1>6
  <2>3. open' = open \cup {s}
    BY <2>1, <2>2 DEF OpenImports
  <2>4. CASE open # {}
    BY <1>4, <2>1, <2>3, <2>4 DEF First
  <2>5. CASE open = {}
    BY <2>1, <2>3, <2>5 DEF First, ImportSlots
  <2>6. QED
    BY <2>1, <2>4, <2>5
<1>7. ASSUME x.blockLen > 0
      PROVE  Sure(e, m.from, m.number)'
  <2>1. CASE Complete(x)
    BY <1>3, <2>1 DEF Sure
  <2>2. CASE ~ Complete(x)
    BY <1>6, <1>7, <2>2 DEF Sure, LengthKnown
  <2>3. QED
    BY <2>1, <2>2
<1>8. ASSUME NEW b \in Engines, NEW a \in Engines, NEW n \in Nat, LengthKnown(b, a, n)
      PROVE  Sure(b, a, n)'
  <2>1. PICK t \in ImportSlots : First(OpenImports(b, a, n), t) /\ imports[b][t].blockLen > 0
    BY <1>8 DEF LengthKnown
  <2>2. t \in OpenImports(b, a, n)
    BY <2>1 DEF First
  <2>3. CASE b = e /\ a = m.from /\ n = m.number
    <3>1. First(open, s) /\ First(open, t)
      BY <1>4, <2>1, <2>2, <2>3
    <3>2. s = t
      BY <3>1, FirstUnique, ConstantsAssumption DEF OpenImports, ImportSlots
    <3>3. x.blockLen > 0
      BY <2>1, <2>2, <2>3, <3>2 DEF OpenImports
    <3>4. QED
      BY <1>7, <2>3, <3>3
  <2>4. CASE ~ (b = e /\ a = m.from /\ n = m.number)
    <3>1. OpenImports(b, a, n)' = OpenImports(b, a, n)
      <4>1. CASE b = e
        <5>1. s \notin OpenImports(b, a, n)
          BY <1>4, <2>4, <4>1 DEF OpenImports
        <5>2. ~ (imports'[b][s].active = 1 /\ imports'[b][s].engine = a
                 /\ imports'[b][s].number = n)
          BY <1>0, <1>5, <2>4, <4>1
        <5>3. \A u \in ImportSlots : u # s => imports'[b][u] = imports[b][u]
          BY <1>0, <1>5, <4>1
        <5>4. QED
          BY <5>1, <5>2, <5>3 DEF OpenImports
      <4>2. CASE b # e
        BY <1>0, <1>5, <4>2 DEF OpenImports
      <4>3. QED
        BY <4>1, <4>2
    <3>2. imports'[b][t] = imports[b][t]
      <4>1. CASE b = e /\ t = s
        BY <1>4, <2>2, <2>4, <4>1 DEF OpenImports
      <4>2. CASE ~ (b = e /\ t = s)
        BY <1>0, <1>5, <4>2
      <4>3. QED
        BY <4>1, <4>2
    <3>3. LengthKnown(b, a, n)'
      BY <2>1, <3>1, <3>2 DEF LengthKnown, First
    <3>4. QED
      BY <3>3 DEF Sure
  <2>5. QED
    BY <2>3, <2>4
<1>9. SureKept
  BY <1>2, <1>8 DEF SureKept, SettledKept, Sure
<1>10. QED
  BY <1>3, <1>7, <1>9
----------------------------------------------------------------------------
(* The parts of Sound that a step leaves alone                             *)

LEMMA HearsEngines ==
  \A e \in Engines : Hears[e] \subseteq Engines
  BY ConstantsAssumption

LEMMA WarrantKept ==
  ASSUME SureKept, sent \subseteq sent', NEW b \in Engines, NEW m \in Segments,
         Warranted(b, m)
  PROVE  Warranted(b, m)'
<1>1. m.from \in Engines /\ m.number \in Nat
  BY KindOfSegment
<1>2. m.type = RedDataCp => Sure(b, m.from, m.number)'
  BY <1>1 DEF Warranted, SureKept
<1>3. ASSUME m.type = Report
      PROVE  /\ m.from \in Hears[b] /\ Sure(m.from, b, m.number)'
             /\ \E r \in sent' : /\ r.engine = b /\ r.number = m.number
                                 /\ CoversFromZero(m.claims, BlockLen[r.block]) =>
                                      SettledAt(m.from, b, m.number)'
  BY <1>1, <1>3 DEF Warranted, SureKept, SettledKept
<1>4. QED
  BY <1>2, <1>3 DEF Warranted

LEMMA PlainWarrant ==
  ASSUME NEW b, NEW m, b \in Hears[m.from], m.type \notin {RedDataCp, Report}
  PROVE  Warranted(b, m)'
  BY DEF Warranted

LEMMA ArrivalsWarranted ==
  ASSUME TypeInv, LinkWarranted, SureKept, sent \subseteq sent', NEW e, NEW out,
         \A b \in Engines : InFlight(b)' \subseteq
            InFlight(b) \cup (IF b \in Hears[e] THEN Range(out) ELSE {}),
         \A b \in Engines : \A m \in Range(out) : b \in Hears[e] => Warranted(b, m)'
  PROVE  LinkWarranted'
<1>1. ASSUME NEW b \in Engines, NEW m \in InFlight(b)'
      PROVE  Warranted(b, m)'
  <2>1. CASE m \in InFlight(b)
    <3>1. m \in Segments
      BY <2>1 DEF TypeInv, TypeOK, InFlight, Range
    <3>2. QED
      BY <2>1, <3>1, WarrantKept DEF LinkWarranted
  <2>2. CASE m \notin InFlight(b)
    BY <1>1, <2>2
  <2>3. QED
    BY <2>1, <2>2
<1>2. QED
  BY <1>1 DEF LinkWarranted

LEMMA TransmitWarranted ==
  ASSUME TypeInv, LinkWarranted, SureKept, sent \subseteq sent', NEW e \in Engines,
         NEW out \in Seq(Segments), Transmit(e, out),
         \A b \in Engines : \A m \in Range(out) : b \in Hears[e] => Warranted(b, m)'
  PROVE  LinkWarranted'
<1>1. \A b \in Engines : InFlight(b)' \subseteq
        InFlight(b) \cup (IF b \in Hears[e] THEN Range(out) ELSE {})
  BY TypeInvTables, TransmitLemma
<1>2. QED
  BY <1>1, ArrivalsWarranted

LEMMA ExchangeWarranted ==
  ASSUME TypeInv, LinkWarranted, SureKept, sent \subseteq sent', NEW e \in Engines,
         inbox[e] # << >>, NEW out \in Seq(Segments), Exchange(e, out),
         \A b \in Engines : \A m \in Range(out) : b \in Hears[e] => Warranted(b, m)'
  PROVE  LinkWarranted'
<1>1. \A b \in Engines : InFlight(b)' \subseteq
        InFlight(b) \cup (IF b \in Hears[e] THEN Range(out) ELSE {})
  BY TypeInvTables, ExchangeLemma
<1>2. QED
  BY <1>1, ArrivalsWarranted

\* Every report timer ran before, or is for a session whose length is known now.
LEMMA TimersKept ==
  ASSUME TimersSure, SureKept,
         \A b \in Engines, i \in TimerSlots, a \in Engines \cup {Zero}, n \in Nat :
           ReportTimerFor(timers'[b][i], a, n) =>
             \/ \E j \in TimerSlots : ReportTimerFor(timers[b][j], a, n)
             \/ a \in Engines /\ b \in Hears[a] /\ Sure(b, a, n)'
  PROVE  TimersSure'
<1>1. ASSUME NEW b \in Engines, NEW i \in TimerSlots, NEW a \in Engines \cup {Zero},
             NEW n \in Nat, ReportTimerFor(timers'[b][i], a, n)
      PROVE  a \in Engines /\ b \in Hears[a] /\ Sure(b, a, n)'
  BY <1>1 DEF TimersSure, SureKept
<1>2. QED
  BY <1>1 DEF TimersSure

LEMMA TimersSame ==
  ASSUME TimersSure, SureKept, UNCHANGED timers
  PROVE  TimersSure'
  BY TimersKept

LEMMA TimersStopped ==
  ASSUME TypeInv, TimersSure, SureKept, NEW e \in Engines, NEW type, NEW n, NEW serial,
         timers' = [timers EXCEPT ![e] = StopTimer(@, type, n, serial)]
  PROVE  TimersSure'
<1>1. \A b \in Engines, i \in TimerSlots : timers'[b][i] \in {timers[b][i], NoTimer}
  BY DEF TypeInv, TypeOK, StopTimer
<1>2. \A a, k : ~ ReportTimerFor(NoTimer, a, k)
  BY DEF ReportTimerFor, NoTimer
<1>3. QED
  BY <1>1, <1>2, TimersKept

LEMMA TimersStarted ==
  ASSUME TypeInv, TimersSure, SureKept, NEW e \in Engines, NEW ts \in TimerTable,
         NEW type, NEW a, NEW n, NEW serial,
         timers' = [timers EXCEPT ![e] = StartTimer(ts, type, a, n, serial)],
         \A i \in TimerSlots : ts[i] \in {timers[e][i], NoTimer},
         type = ReportTimer => a \in Engines /\ e \in Hears[a] /\ Sure(e, a, n)'
  PROVE  TimersSure'
<1> DEFINE new == [active |-> 1, type |-> type, engine |-> a, number |-> n,
                   serial |-> serial, retries |-> 0]
<1>1. \A b \in Engines, i \in TimerSlots :
        timers'[b][i] \in {timers[b][i], NoTimer} \/ (b = e /\ timers'[b][i] = new)
  BY DEF TypeInv, TypeOK, StartTimer
<1>2. \A c, k : ~ ReportTimerFor(NoTimer, c, k)
  BY DEF ReportTimerFor, NoTimer
<1>3. \A c, k : ReportTimerFor(new, c, k) => type = ReportTimer /\ c = a /\ k = n
  BY DEF ReportTimerFor
<1> HIDE DEF new
<1>4. QED
  BY <1>1, <1>2, <1>3, TimersKept

LEMMA TimersRearmed ==
  ASSUME TypeInv, TimersSure, SureKept, NEW e \in Engines, NEW i \in TimerSlots,
         Rearm(e, i) \/ Disarm(e, i)
  PROVE  TimersSure'
<1> DEFINE t == timers[e][i]
           x == [t EXCEPT !.retries = @ + 1]
<1>1. t \in Timers
  BY DEF TypeInv, TypeOK
<1>2. PICK y \in {x, NoTimer} : timers' = [timers EXCEPT ![e][i] = y]
  BY DEF Rearm, Disarm, TypeInv, TypeOK
<1> HIDE DEF t
<1>3. \A a, n : ReportTimerFor(x, a, n) => ReportTimerFor(t, a, n)
  BY <1>1 DEF ReportTimerFor, Timers
<1>4. \A c, k : ~ ReportTimerFor(NoTimer, c, k)
  BY DEF ReportTimerFor, NoTimer
<1> HIDE DEF x
<1>5. \A b \in Engines, j \in TimerSlots :
        timers'[b][j] = timers[b][j] \/ (b = e /\ j = i /\ timers'[b][j] = y)
  BY <1>2 DEF TypeInv, TypeOK
<1>6. QED
  BY <1>2, <1>3, <1>4, <1>5, TimersKept DEF t
LEMMA CompletedKept ==
  ASSUME CompletedSettled, SettledKept,
         \A e \in Engines, s \in ExportSlots :
           exports'[e][s].completed = 1 =>
             exports[e][s].completed = 1 /\ exports'[e][s].number = exports[e][s].number
  PROVE  CompletedSettled'
<1>1. ASSUME NEW e \in Engines, NEW s \in ExportSlots, NEW n \in Nat,
             exports'[e][s].completed = 1, exports'[e][s].number = n
      PROVE  \E b \in Hears[e] : SettledAt(b, e, n)'
  <2>1. PICK b \in Hears[e] : SettledAt(b, e, n)
    BY <1>1 DEF CompletedSettled
  <2>2. QED
    BY <2>1, HearsEngines DEF SettledKept
<1>2. QED
  BY <1>1 DEF CompletedSettled

LEMMA CompletedSame ==
  ASSUME CompletedSettled, SettledKept, UNCHANGED exports
  PROVE  CompletedSettled'
  BY CompletedKept

LEMMA CompletedClosed ==
  ASSUME Tables, CompletedSettled, SettledKept, NEW e \in Engines, NEW n, CancelExport(e, n)
  PROVE  CompletedSettled'
<1>1. ASSUME NEW x \in Engines, NEW s \in ExportSlots
      PROVE  /\ exports'[x][s].completed = exports[x][s].completed
             /\ exports'[x][s].number = exports[x][s].number
  <2>1. exports'[x][s] \in {exports[x][s], Closed(exports[x][s])}
    BY DEF CancelExport, Tables
  <2>2. exports[x][s] \in ExportSessions
    BY DEF Tables
  <2> DEFINE old == exports[x][s]
             mid == Cancelled(old)
  <2>3. mid \in ExportSessions /\ mid.completed = old.completed /\ mid.number = old.number
    BY <2>2 DEF Cancelled, ExportSessions
  <2>4. Closed(old) = [mid EXCEPT !.active = 0]
    BY DEF Closed
  <2> HIDE DEF old, mid
  <2>5. Closed(old).completed = old.completed /\ Closed(old).number = old.number
    BY <2>3, <2>4 DEF ExportSessions
  <2>6. QED
    BY <2>1, <2>5 DEF old
<1>2. QED
  BY <1>1, CompletedKept

LEMMA SuccessKept ==
  ASSUME TypeInv, SuccessMeansSettled, SettledKept, UNCHANGED outcome
  PROVE  SuccessMeansSettled'
<1>1. ASSUME NEW c \in outcome, c.ok = 1
      PROVE  \E b \in Hears[c.engine] : SettledAt(b, c.engine, c.number)'
  <2>1. c.engine \in Engines /\ c.number \in Nat
    BY DEF TypeInv, TypeOK
  <2>2. PICK b \in Hears[c.engine] : SettledAt(b, c.engine, c.number)
    BY <1>1 DEF SuccessMeansSettled
  <2>3. QED
    BY <2>1, <2>2, HearsEngines DEF SettledKept
<1>2. QED
  BY <1>1 DEF SuccessMeansSettled

LEMMA OpenSame ==
  ASSUME ImportsOpen, UNCHANGED imports
  PROVE  ImportsOpen'
  BY DEF ImportsOpen

LEMMA OpenAbandoned ==
  ASSUME Tables, ImportsOpen, NEW e \in Engines, NEW S, AbandonImport(e, S)
  PROVE  ImportsOpen'
<1>1. ASSUME NEW x \in Engines, NEW s \in ImportSlots, imports'[x][s].active = 1
      PROVE  imports'[x][s] = imports[x][s]
  <2>1. imports'[x][s] \in {imports[x][s], FreeImport}
    BY DEF AbandonImport, Tables
  <2>2. FreeImport.active = 0
    BY DEF FreeImport
  <2>3. QED
    BY <1>1, <2>1, <2>2
<1>2. QED
  BY <1>1 DEF ImportsOpen

LEMMA OpenStored ==
  ASSUME Tables, ImportsOpen, NEW e \in Engines, NEW s \in ImportSlots,
         NEW x, e \in Hears[x.engine], StoreOrDeliver(e, s, x)
  PROVE  ImportsOpen'
<1>1. ASSUME NEW b \in Engines, NEW t \in ImportSlots, imports'[b][t].active = 1
      PROVE  b \in Hears[imports'[b][t].engine] /\ ~ Complete(imports'[b][t])
  <2>1. \/ imports'[b][t] = imports[b][t]
        \/ imports'[b][t] = FreeImport
        \/ b = e /\ imports'[b][t] = x /\ ~ Complete(x)
    BY DEF StoreOrDeliver, Tables
  <2>2. FreeImport.active = 0
    BY DEF FreeImport
  <2>3. QED
    BY <1>1, <2>1, <2>2 DEF ImportsOpen
<1>2. QED
  BY <1>1 DEF ImportsOpen

\* What is left to show of a step that returns no verdict.
LEMMA SoundFrom ==
  ASSUME Sound, Integrity', SettledKept, LinkWarranted', ImportsOpen', TimersSure',
         CompletedSettled', UNCHANGED outcome
  PROVE  Sound'
  BY SuccessKept DEF Sound, Integrity

LEMMA SoundParts ==
  Sound => /\ Integrity /\ TypeInv /\ Tables /\ LinkWarranted /\ ImportsOpen
           /\ TimersSure /\ CompletedSettled /\ SuccessMeansSettled
  BY TypeInvTables DEF Sound, Integrity

----------------------------------------------------------------------------
(* The steps of the sender                                                 *)

LEMMA InitSound == Init => Sound
<1> SUFFICES ASSUME Init PROVE Sound
  OBVIOUS
<1>1. Integrity
  BY InitIntegrity
<1>2. LinkWarranted
  BY NothingWritten DEF Init, LinkWarranted, InFlight
<1>3. ImportsOpen /\ TimersSure
  BY DEF Init, ImportsOpen, FreeImport, TimersSure, ReportTimerFor, NoTimer
<1>4. CompletedSettled /\ SuccessMeansSettled
  BY DEF Init, CompletedSettled, FreeExport, SuccessMeansSettled
<1>5. QED
  BY <1>1, <1>2, <1>3, <1>4 DEF Sound

LEMMA CompletedOpened ==
  ASSUME TypeInv, CompletedSettled, SettledKept, NEW e \in Engines, NEW b \in Blocks,
         NEW s \in ExportSlots, OpenExport(e, b, s)
  PROVE  CompletedSettled'
<1> DEFINE x == [active |-> 1, number |-> next[e], block |-> b, nextCp |-> 2,
                 completed |-> 0, cancelled |-> 0]
<1>1. exports' = [exports EXCEPT ![e][s] = x]
  BY DEF OpenExport
<1>2. x.completed = 0
  OBVIOUS
<1> HIDE DEF x
<1>3. \A a \in Engines, t \in ExportSlots :
        exports'[a][t] = exports[a][t] \/ exports'[a][t] = x
  BY <1>1 DEF TypeInv, TypeOK
<1>4. QED
  BY <1>2, <1>3, CompletedKept

LEMMA SendSound ==
  ASSUME Sound, NEW e \in Engines, NEW b \in Blocks,
         SendBlock(e, b) \/ SendBlockFails(e, b)
  PROVE  Sound'
<1>1. /\ Integrity /\ TypeInv /\ LinkWarranted /\ ImportsOpen
      /\ TimersSure /\ CompletedSettled
  BY SoundParts
<1>2. PICK s \in ExportSlots, count \in 1 .. MaxBlock :
        /\ SegmentCount(BlockLen[b], count)
        /\ OpenExport(e, b, s)
        /\ \/ Transmit(e, BlockSegments(e, next[e], b, count))
           \/ \E k \in 0 .. (count - 1) :
                Transmit(e, SubSeq(BlockSegments(e, next[e], b, count), 1, k))
        /\ \/ UNCHANGED timers
           \/ timers' = [timers EXCEPT ![e] = StartTimer(@, CheckpointTimer, e, next[e], 1)]
        /\ UNCHANGED <<imports, delivered, gaveUp, outcome>>
  BY DEF SendBlock, SendBlockFails
<1>3. SureKept /\ SettledKept
  BY <1>2, QuietKept DEF SureKept
<1>4. next[e] \in Nat /\ sent \subseteq sent'
  BY <1>1, <1>2, OpenExportIntegrity
<1> DEFINE all == BlockSegments(e, next[e], b, count)
<1>5. /\ all \in Seq(Segments)
      /\ \A m \in Range(all) : m.from = e /\ m.type \in {RedData, RedDataEorpCp}
  BY <1>2, <1>4, BlockSegmentsType, DataIsSegments
<1>6. Len(all) = count /\ count \in Nat
  BY ConstantsAssumption DEF BlockSegments
<1>7. \/ Transmit(e, all)
      \/ \E k \in 0 .. (count - 1) : Transmit(e, SubSeq(all, 1, k))
  BY <1>2
<1> HIDE DEF all
<1>8. PICK out \in Seq(Segments) : Transmit(e, out) /\ Range(out) \subseteq Range(all)
  <2>1. CASE Transmit(e, all)
    BY <1>5, <2>1
  <2>2. CASE \E k \in 0 .. (count - 1) : Transmit(e, SubSeq(all, 1, k))
    <3>1. PICK k \in 0 .. (count - 1) : Transmit(e, SubSeq(all, 1, k))
      BY <2>2
    <3>2. k \in 0 .. Len(all)
      BY <1>6
    <3>3. SubSeq(all, 1, k) \in Seq(Segments) /\ Range(SubSeq(all, 1, k)) \subseteq Range(all)
      BY <1>5, <3>2, FirstSegments
    <3>4. QED
      BY <3>1, <3>3
  <2>3. QED
    BY <1>7, <2>1, <2>2
<1>9. \A a \in Engines : \A m \in Range(out) : a \in Hears[e] => Warranted(a, m)'
  BY <1>5, <1>8, TypeNumbers, PlainWarrant
<1>10. LinkWarranted'
  BY <1>1, <1>3, <1>4, <1>8, <1>9, TransmitWarranted
<1>11. TimersSure'
  <2>1. CASE UNCHANGED timers
    BY <1>1, <1>3, <2>1, TimersSame
  <2>2. CASE timers' = [timers EXCEPT ![e] = StartTimer(@, CheckpointTimer, e, next[e], 1)]
    <3>1. timers[e] \in TimerTable
      BY <1>1 DEF TypeInv, TypeOK, TimerTable
    <3>2. timers' = [timers EXCEPT ![e] = StartTimer(timers[e], CheckpointTimer, e, next[e], 1)]
      BY <2>2
    <3>3. CheckpointTimer # ReportTimer
      BY DEF CheckpointTimer, ReportTimer
    <3>4. QED
      BY <1>1, <1>3, <3>1, <3>2, <3>3, TimersStarted
  <2>3. QED
    BY <1>2, <2>1, <2>2
<1>12. ImportsOpen' /\ CompletedSettled'
  BY <1>1, <1>2, <1>3, OpenSame, CompletedOpened
<1>13. Integrity'
  BY <1>1, SendBlockIntegrity, SendBlockFailsIntegrity
<1>14. QED
  BY <1>2, <1>3, <1>10, <1>11, <1>12, <1>13, SoundFrom

LEMMA ReturnSound ==
  ASSUME Sound, NEW e \in Engines, Return(e)
  PROVE  Sound'
<1>1. /\ Integrity /\ TypeInv /\ LinkWarranted /\ ImportsOpen
      /\ TimersSure /\ CompletedSettled /\ SuccessMeansSettled
  BY SoundParts
<1>2. PICK s \in ExportSlots :
        /\ First({t \in ExportSlots : exports[e][t].number = waiting[e]}, s)
        /\ outcome' = outcome \cup
             {[engine |-> e, number |-> waiting[e], ok |-> exports[e][s].completed]}
  BY DEF Return
<1>3. UNCHANGED <<exports, imports, timers, next, inbox, sent, delivered, gaveUp>>
  BY DEF Return
<1>4. SureKept /\ SettledKept
  BY <1>3, QuietKept DEF SureKept
<1>5. Integrity'
  BY <1>1, ReturnIntegrity
<1>6. LinkWarranted'
  <2>1. \A b \in Engines : InFlight(b)' = InFlight(b)
    BY <1>3 DEF InFlight
  <2>2. \A b \in Engines : InFlight(b)' \subseteq
          InFlight(b) \cup (IF b \in Hears[e] THEN Range(<< >>) ELSE {})
    BY <2>1
  <2>3. QED
    BY <1>1, <1>3, <1>4, <2>2, NothingWritten, ArrivalsWarranted
<1>7. ImportsOpen' /\ TimersSure' /\ CompletedSettled'
  BY <1>1, <1>3, <1>4, OpenSame, TimersSame, CompletedSame
<1>8. SuccessMeansSettled'
  <2>1. PICK n \in Nat : n = waiting[e]
    BY <1>1 DEF TypeInv, TypeOK
  <2>2. exports[e][s].number = n
    BY <1>2, <2>1 DEF First
  <2> DEFINE v == [engine |-> e, number |-> n, ok |-> exports[e][s].completed]
  <2>3. v.ok = 1 => \E b \in Hears[e] : SettledAt(b, e, n)
    BY <1>1, <2>2 DEF CompletedSettled
  <2>4. ASSUME NEW c \in outcome', c.ok = 1
        PROVE  \E b \in Hears[c.engine] : SettledAt(b, c.engine, c.number)
    BY <1>1, <1>2, <2>1, <2>3, <2>4 DEF SuccessMeansSettled
  <2>5. QED
    BY <1>3, <2>4 DEF SuccessMeansSettled, SettledAt, DeliveredAt
<1>9. QED
  BY <1>5, <1>6, <1>7, <1>8 DEF Sound
\* Reading a segment, and answering it with at most one that needs no warrant.
LEMMA DropWarranted ==
  ASSUME TypeInv, LinkWarranted, SureKept, UNCHANGED sent, NEW e \in Engines,
         inbox[e] # << >>, Exchange(e, << >>)
  PROVE  LinkWarranted'
  BY NothingWritten, ExchangeWarranted

LEMMA AnswerWarranted ==
  ASSUME TypeInv, LinkWarranted, SureKept, UNCHANGED sent, NEW e \in Engines,
         inbox[e] # << >>, NEW m \in Segments, m.from = e,
         m.type \notin {RedDataCp, Report}, Exchange(e, <<m>>)
  PROVE  LinkWarranted'
<1>1. <<m>> \in Seq(Segments) /\ Range(<<m>>) = {m}
  BY SingleSegment
<1>2. \A b \in Engines : b \in Hears[e] => Warranted(b, m)'
  BY PlainWarrant
<1>3. QED
  BY <1>1, <1>2, ExchangeWarranted

\* Writing one segment.
LEMMA WriteWarranted ==
  ASSUME TypeInv, LinkWarranted, SureKept, UNCHANGED sent, NEW e \in Engines,
         NEW m \in Segments, Transmit(e, <<m>>),
         \A b \in Engines : b \in Hears[e] => Warranted(b, m)'
  PROVE  LinkWarranted'
<1>1. <<m>> \in Seq(Segments) /\ Range(<<m>>) = {m}
  BY SingleSegment
<1>2. QED
  BY <1>1, TransmitWarranted

LEMMA LoseSound ==
  ASSUME Sound, NEW e \in Engines, Lose(e)
  PROVE  Sound'
<1>1. /\ Integrity /\ TypeInv /\ LinkWarranted /\ ImportsOpen
      /\ TimersSure /\ CompletedSettled
  BY SoundParts
<1>2. /\ inbox[e] # << >> /\ inbox' = [inbox EXCEPT ![e] = Tail(@)]
      /\ UNCHANGED <<tables, history>>
  BY DEF Lose
<1>3. SureKept /\ SettledKept
  BY <1>2, QuietKept DEF SureKept, tables, history
<1>4. \A b \in Engines : InFlight(b)' \subseteq InFlight(b)
  BY <1>1, <1>2, TailOfSeq DEF InFlight, TypeInv, TypeOK
<1>5. \A b \in Engines : InFlight(b)' \subseteq
        InFlight(b) \cup (IF b \in Hears[e] THEN Range(<< >>) ELSE {})
  BY <1>4
<1>6. LinkWarranted'
  BY <1>1, <1>2, <1>3, <1>5, NothingWritten, ArrivalsWarranted DEF history
<1>7. ImportsOpen' /\ TimersSure' /\ CompletedSettled'
  BY <1>1, <1>2, <1>3, OpenSame, TimersSame, CompletedSame DEF tables
<1>8. Integrity'
  BY <1>1, LoseIntegrity
<1>9. QED
  BY <1>2, <1>3, <1>6, <1>7, <1>8, SoundFrom DEF history

LEMMA DroppedSound ==
  ASSUME Sound, NEW e \in Engines, ReceiveDataNoSlot(e) \/ ReceiveReportUnknown(e)
  PROVE  Sound'
<1>1. /\ Integrity /\ TypeInv /\ LinkWarranted /\ ImportsOpen
      /\ TimersSure /\ CompletedSettled
  BY SoundParts
<1>2. Exchange(e, << >>) /\ inbox[e] # << >> /\ UNCHANGED <<tables, history>>
  BY DEF ReceiveDataNoSlot, ReceiveReportUnknown, Incoming
<1>3. SureKept /\ SettledKept
  BY <1>2, QuietKept DEF SureKept, tables, history
<1>4. LinkWarranted'
  BY <1>1, <1>2, <1>3, DropWarranted DEF history
<1>5. ImportsOpen' /\ TimersSure' /\ CompletedSettled'
  BY <1>1, <1>2, <1>3, OpenSame, TimersSame, CompletedSame DEF tables
<1>6. Integrity'
  BY <1>1, DroppedDataIntegrity
<1>7. QED
  BY <1>2, <1>3, <1>4, <1>5, <1>6, SoundFrom DEF history

LEMMA ReceiveReportAckSound ==
  ASSUME Sound, NEW e \in Engines, ReceiveReportAck(e)
  PROVE  Sound'
<1>1. /\ Integrity /\ TypeInv /\ LinkWarranted /\ ImportsOpen
      /\ TimersSure /\ CompletedSettled
  BY SoundParts
<1>2. /\ Exchange(e, << >>) /\ inbox[e] # << >>
      /\ timers' = [timers EXCEPT ![e] =
           StopTimer(@, ReportTimer, Head(inbox[e]).number, Head(inbox[e]).rpt)]
      /\ UNCHANGED <<exports, imports, next, waiting, history>>
  BY DEF ReceiveReportAck, Incoming
<1>3. SureKept /\ SettledKept
  BY <1>2, QuietKept DEF SureKept, history
<1>4. LinkWarranted'
  BY <1>1, <1>2, <1>3, DropWarranted DEF history
<1>5. ImportsOpen' /\ CompletedSettled'
  BY <1>1, <1>2, <1>3, OpenSame, CompletedSame
<1>6. TimersSure'
  BY <1>1, <1>2, <1>3, TimersStopped
<1>7. Integrity'
  BY <1>1, ReceiveReportAckIntegrity
<1>8. QED
  BY <1>2, <1>3, <1>4, <1>5, <1>6, <1>7, SoundFrom DEF history

----------------------------------------------------------------------------
(* Data: the steps of the receiver                                         *)

\* The session once the segment m is absorbed, for the first slot that fits.
LEMMA AbsorbedSession ==
  ASSUME Sound, NEW e \in Engines, NEW m \in DataSegments, m \in InFlight(e),
         NEW s \in ImportSlots, DataSlot(e, m, s),
         NEW x \in ImportSessions, x = Absorb(DataSession(e, m, s), m)
  PROVE  /\ x.active = 1 /\ x.engine = m.from /\ x.number = m.number
         /\ e \in Hears[m.from]
         /\ imports[e][s].active = 1 /\ imports[e][s].blockLen > 0 => x.blockLen > 0
         /\ m.type = RedDataEorpCp => x.blockLen > 0
         /\ Agrees(x, sent)
<1>1. Integrity /\ Tables /\ LinkWarranted
  BY SoundParts
<1> DEFINE old == DataSession(e, m, s)
<1>2. /\ old \in ImportSessions /\ old.active = 1
      /\ old.engine = m.from /\ old.number = m.number
      /\ \/ imports[e][s].active = 1 /\ old = imports[e][s]
         \/ imports[e][s].active = 0 /\ old = NewImport(m)
  BY <1>1, DataSessionType
<1> HIDE DEF old
<1>3. /\ x.active = old.active /\ x.engine = old.engine /\ x.number = old.number
      /\ x.blockLen = IF m.type = RedDataEorpCp THEN m.offset + m.length ELSE old.blockLen
  BY <1>2, AbsorbType DEF old
<1>4. m.type = RedDataEorpCp => m.offset + m.length > 0
  <2>1. Genuine(m, sent) /\ m.type \in DataTypes
    BY <1>1 DEF Integrity, SegmentsGenuine, DataSegments
  <2>2. m.type = RedDataEorpCp => m.offset + m.length = BlockLen[m.block]
    BY <2>1 DEF Genuine
  <2>3. BlockLen[m.block] \in 1 .. MaxBlock /\ MaxBlock \in Nat
    BY ConstantsAssumption DEF DataSegments
  <2>4. QED
    BY <2>2, <2>3
<1>5. e \in Hears[m.from]
  BY <1>1 DEF LinkWarranted, Warranted
<1>6. Agrees(x, sent)
  BY <1>1, DataSessionAgrees
<1>7. QED
  BY <1>2, <1>3, <1>4, <1>5, <1>6

LEMMA ReceiveRedDataSound ==
  ASSUME Sound, NEW e \in Engines, ReceiveRedData(e)
  PROVE  Sound'
<1>1. /\ Integrity /\ TypeInv /\ Tables /\ LinkWarranted /\ ImportsOpen
      /\ TimersSure /\ CompletedSettled
  BY SoundParts
<1>2. inbox[e] # << >> /\ Head(inbox[e]) \in DataSegments /\ Head(inbox[e]) \in InFlight(e)
  BY <1>1, IncomingData, KindOfSegment, TypeNumbers DEF ReceiveRedData, Incoming
<1>3. PICK m \in DataSegments : m = Head(inbox[e])
  BY <1>2
<1>4. PICK s \in ImportSlots :
        /\ DataSlot(e, m, s)
        /\ Exchange(e, << >>)
        /\ StoreOrDeliver(e, s, Absorb(DataSession(e, m, s), m))
  BY <1>3 DEF ReceiveRedData
<1>5. UNCHANGED <<exports, timers, next, waiting, sent, gaveUp, outcome>>
  BY DEF ReceiveRedData
<1>6. PICK x \in ImportSessions : x = Absorb(DataSession(e, m, s), m)
  BY <1>1, <1>2, <1>3, <1>4, DataSessionAgrees
<1>7. /\ x.active = 1 /\ x.engine = m.from /\ x.number = m.number
      /\ e \in Hears[m.from]
      /\ imports[e][s].active = 1 /\ imports[e][s].blockLen > 0 => x.blockLen > 0
  BY <1>2, <1>3, <1>4, <1>6, AbsorbedSession
<1>8. StoreOrDeliver(e, s, x)
  BY <1>4, <1>6
<1>9. SureKept /\ SettledKept
  BY <1>1, <1>4, <1>5, <1>7, <1>8, DataKept DEF SureKept
<1>10. LinkWarranted'
  BY <1>1, <1>2, <1>4, <1>5, <1>9, DropWarranted
<1>11. ImportsOpen' /\ TimersSure' /\ CompletedSettled'
  BY <1>1, <1>5, <1>7, <1>8, <1>9, OpenStored, TimersSame, CompletedSame
<1>12. Integrity'
  BY <1>1, ReceiveRedDataIntegrity
<1>13. QED
  BY <1>5, <1>9, <1>10, <1>11, <1>12, SoundFrom

\* A session that claims all of its block and knows its length is complete.
LEMMA FullIsComplete ==
  ASSUME SentOnce, NEW x \in ImportSessions, Agrees(x, sent), x.blockLen > 0,
         NEW r \in sent, r.engine = x.engine, r.number = x.number,
         CoversFromZero(Claims(x), BlockLen[r.block])
  PROVE  Complete(x)
<1>1. PICK q \in sent :
        /\ q.engine = x.engine /\ q.number = x.number
        /\ x.blockLen \in {0, BlockLen[q.block]}
  BY DEF Agrees
<1>2. q = r
  BY <1>1 DEF SentOnce
<1>3. QED
  BY <1>1, <1>2 DEF Complete, ImportSessions

LEMMA ReceiveCheckpointSound ==
  ASSUME PointToPoint, Sound, NEW e \in Engines, ReceiveCheckpoint(e)
  PROVE  Sound'
<1>1. /\ Integrity /\ TypeInv /\ Tables /\ LinkWarranted /\ ImportsOpen
      /\ TimersSure /\ CompletedSettled /\ SentOnce
  BY SoundParts DEF Integrity
<1>2. /\ inbox[e] # << >> /\ Head(inbox[e]) \in DataSegments
      /\ Head(inbox[e]) \in InFlight(e)
      /\ Head(inbox[e]).type \in {RedDataCp, RedDataEorpCp}
  BY <1>1, IncomingData, KindOfSegment, TypeNumbers DEF ReceiveCheckpoint, Incoming
<1>3. PICK m \in DataSegments : m = Head(inbox[e])
  BY <1>2
<1> DEFINE Sess(s) == Absorb(DataSession(e, m, s), m)
           Upper(s) == IF Sess(s).blockLen > 0 THEN Sess(s).blockLen ELSE m.offset + m.length
<1>4. PICK s \in ImportSlots :
        /\ DataSlot(e, m, s)
        /\ Exchange(e, <<ReportOn(e, Sess(s), Sess(s).nextRpt, m.cp, Upper(s))>>)
        /\ timers' = [timers EXCEPT ![e] =
             StartTimer(@, ReportTimer, Sess(s).engine, Sess(s).number, Sess(s).nextRpt)]
        /\ StoreOrDeliver(e, s, [Sess(s) EXCEPT !.nextRpt = @ + 1])
  BY <1>3 DEF ReceiveCheckpoint
<1>5. UNCHANGED <<exports, next, waiting, sent, gaveUp, outcome>>
  BY DEF ReceiveCheckpoint
<1>6. PICK x \in ImportSessions : x = Sess(s)
  BY <1>1, <1>2, <1>3, <1>4, DataSessionAgrees
<1>40. m \in InFlight(e) /\ DataSlot(e, m, s) /\ x = Absorb(DataSession(e, m, s), m)
  BY <1>2, <1>3, <1>4, <1>6
<1>7. /\ x.active = 1 /\ x.engine = m.from /\ x.number = m.number
      /\ e \in Hears[m.from]
      /\ imports[e][s].active = 1 /\ imports[e][s].blockLen > 0 => x.blockLen > 0
      /\ m.type = RedDataEorpCp => x.blockLen > 0
      /\ Agrees(x, sent)
  BY <1>40, AbsorbedSession
<1>8. PICK up \in Nat : up = Upper(s)
  BY <1>6 DEF DataSegments, ImportSessions
<1>9. /\ Exchange(e, <<ReportOn(e, x, x.nextRpt, m.cp, up)>>)
      /\ timers' = [timers EXCEPT ![e] =
           StartTimer(timers[e], ReportTimer, m.from, m.number, x.nextRpt)]
      /\ StoreOrDeliver(e, s, [x EXCEPT !.nextRpt = @ + 1])
  BY <1>4, <1>6, <1>7, <1>8
<1> HIDE DEF Sess, Upper
<1>10. x.nextRpt \in Nat /\ m.cp \in Nat /\ m.from \in Engines /\ m.number \in Nat
  BY DEF ImportSessions, DataSegments
<1>11. PICK y \in ImportSessions : y = [x EXCEPT !.nextRpt = @ + 1]
  BY NumberedSession
<1>12. /\ y.active = 1 /\ y.engine = m.from /\ y.number = m.number
       /\ y.blockLen = x.blockLen /\ y.got = x.got
  BY <1>7, <1>11, NumberedSession
<1>13. StoreOrDeliver(e, s, y)
  BY <1>9, <1>11
<1>14. /\ SureKept /\ SettledKept
       /\ Complete(y) => SettledAt(e, m.from, m.number)'
       /\ y.blockLen > 0 => Sure(e, m.from, m.number)'
  BY <1>1, <1>4, <1>5, <1>7, <1>12, <1>13, DataKept DEF SureKept
<1>15. Complete(y) <=> Complete(x)
  BY <1>12 DEF Complete, Claims
\* A plain checkpoint finds the length known or the session settled.
<1>16. SettledAt(e, m.from, m.number) \/ x.blockLen > 0
  <2>1. CASE m.type = RedDataEorpCp
    BY <1>7, <2>1
  <2>2. CASE m.type = RedDataCp
    <3>1. Sure(e, m.from, m.number)
      BY <1>1, <1>2, <1>3, <2>2 DEF LinkWarranted, Warranted
    <3>2. CASE LengthKnown(e, m.from, m.number)
      <4>1. PICK t \in ImportSlots :
              First(OpenImports(e, m.from, m.number), t) /\ imports[e][t].blockLen > 0
        BY <3>2 DEF LengthKnown
      <4>2. First(OpenImports(e, m.from, m.number), s)
        BY <1>4, <4>1 DEF DataSlot, First
      <4>3. s = t
        BY <4>1, <4>2, FirstUnique, ConstantsAssumption DEF OpenImports, ImportSlots
      <4>4. imports[e][s].active = 1
        BY <4>2 DEF First, OpenImports
      <4>5. QED
        BY <1>7, <4>1, <4>3, <4>4
    <3>3. QED
      BY <3>1, <3>2 DEF Sure
  <2>3. QED
    BY <1>2, <1>3, <2>1, <2>2
<1>17. Sure(e, m.from, m.number)'
  BY <1>10, <1>12, <1>14, <1>16 DEF SettledKept, Sure
<1>18. \E r \in sent : /\ r.engine = m.from /\ r.number = m.number
                       /\ CoversFromZero(Claims(x), BlockLen[r.block]) =>
                            SettledAt(e, m.from, m.number)'
  <2>1. PICK r \in sent : r.engine = x.engine /\ r.number = x.number
    BY <1>7 DEF Agrees
  <2>2. ASSUME CoversFromZero(Claims(x), BlockLen[r.block]), x.blockLen > 0
        PROVE  SettledAt(e, m.from, m.number)'
    BY <1>1, <1>7, <1>14, <1>15, <2>1, <2>2, FullIsComplete
  <2>3. SettledAt(e, m.from, m.number) => SettledAt(e, m.from, m.number)'
    BY <1>10, <1>14 DEF SettledKept
  <2>4. QED
    BY <1>7, <1>16, <2>1, <2>2, <2>3
<1>19. PICK r \in Segments : r = ReportOn(e, x, x.nextRpt, m.cp, up)
  BY <1>10, ReportOnType
<1>20. r.type = Report /\ r.from = e /\ r.number = m.number /\ r.claims = Claims(x)
  BY <1>7, <1>19 DEF ReportOn
<1>21. ASSUME NEW b \in Engines, b \in Hears[e]
       PROVE  Warranted(b, r)'
  <2>1. b = m.from
    BY <1>7, <1>10, <1>21 DEF PointToPoint
  <2>2. QED
    BY <1>5, <1>7, <1>17, <1>18, <1>20, <1>21, <2>1, TypeNumbers DEF Warranted
<1>22. LinkWarranted'
  <2>1. <<r>> \in Seq(Segments) /\ Range(<<r>>) = {r}
    BY SingleSegment
  <2>2. Exchange(e, <<r>>)
    BY <1>9, <1>19
  <2>3. QED
    BY <1>1, <1>2, <1>5, <1>14, <1>21, <2>1, <2>2, ExchangeWarranted
<1>23. TimersSure'
  <2>1. timers[e] \in TimerTable
    BY <1>1 DEF TypeInv, TypeOK, TimerTable
  <2>2. QED
    BY <1>1, <1>7, <1>9, <1>10, <1>14, <1>17, <2>1, TimersStarted
<1>24. ImportsOpen' /\ CompletedSettled'
  BY <1>1, <1>5, <1>7, <1>12, <1>13, <1>14, OpenStored, CompletedSame
<1>25. Integrity'
  BY <1>1, ReceiveCheckpointIntegrity
<1>26. QED
  BY <1>5, <1>14, <1>22, <1>23, <1>24, <1>25, SoundFrom

----------------------------------------------------------------------------
(* Reports: the steps of the sender                                        *)

\* Changing an export session, neither its number nor whether it is completed.
LEMMA CompletedChanged ==
  ASSUME TypeInv, CompletedSettled, SettledKept, NEW e \in Engines, NEW s \in ExportSlots,
         NEW x, exports' = [exports EXCEPT ![e][s] = x],
         x.completed = exports[e][s].completed, x.number = exports[e][s].number
  PROVE  CompletedSettled'
<1>1. ASSUME NEW a \in Engines, NEW t \in ExportSlots
      PROVE  /\ exports'[a][t].completed = exports[a][t].completed
             /\ exports'[a][t].number = exports[a][t].number
  <2>1. exports'[a][t] = IF a = e /\ t = s THEN x ELSE exports[a][t]
    BY DEF TypeInv, TypeOK
  <2>2. QED
    BY <2>1
<1>2. QED
  BY <1>1, CompletedKept

\* The report that completes a session was written by its receiver after it
\* delivered the block or gave it up.
LEMMA ReceiveReportFullSound ==
  ASSUME Sound, NEW e \in Engines, ReceiveReportFull(e)
  PROVE  Sound'
<1>1. /\ Integrity /\ TypeInv /\ LinkWarranted /\ ImportsOpen
      /\ TimersSure /\ CompletedSettled /\ SentOnce /\ ExportsSent
  BY SoundParts DEF Integrity
<1>2. inbox[e] # << >> /\ Head(inbox[e]) \in ReportSegments /\ Head(inbox[e]) \in InFlight(e)
  BY <1>1, IncomingData, KindOfSegment DEF ReceiveReportFull, Incoming
<1>3. PICK r \in ReportSegments : r = Head(inbox[e])
  BY <1>2
<1>4. PICK s \in ExportSlots :
        /\ First(OpenExports(e, r.number), s)
        /\ CoversFromZero(r.claims, BlockLen[exports[e][s].block])
        /\ Exchange(e, <<AckOf(e, r)>>)
        /\ timers' = [timers EXCEPT ![e] = StopTimer(@, CheckpointTimer, r.number, r.cp)]
        /\ exports' = [exports EXCEPT ![e][s].completed = 1]
  BY <1>3 DEF ReceiveReportFull
<1>5. UNCHANGED <<imports, next, waiting, history>>
  BY DEF ReceiveReportFull
<1>6. SureKept /\ SettledKept
  BY <1>5, QuietKept DEF SureKept, history
<1>7. /\ exports[e][s] \in ExportSessions /\ exports[e][s].number = r.number
      /\ Submission(e, r.number, exports[e][s].block) \in sent
  BY <1>1, <1>4 DEF TypeInv, TypeOK, First, OpenExports, ExportsSent
<1>8. r.from \in Hears[e] /\ SettledAt(r.from, e, r.number)
  <2>1. Warranted(e, r) /\ r.type = Report
    BY <1>1, <1>2, <1>3 DEF LinkWarranted, ReportSegments
  <2>2. PICK q \in sent :
          /\ q.engine = e /\ q.number = r.number
          /\ CoversFromZero(r.claims, BlockLen[q.block]) => SettledAt(r.from, e, r.number)
    BY <2>1 DEF Warranted
  <2>3. q.block = exports[e][s].block
    BY <1>1, <1>7, <2>2 DEF SentOnce, Submission
  <2>4. QED
    BY <1>4, <2>1, <2>2, <2>3 DEF Warranted
<1>9. LinkWarranted'
  <2>1. AckOf(e, r) \in Segments /\ AckOf(e, r).type = ReportAck /\ AckOf(e, r).from = e
    BY AckType DEF AckOf
  <2>2. QED
    BY <1>1, <1>2, <1>4, <1>5, <1>6, <2>1, TypeNumbers, AnswerWarranted DEF history
<1>10. ImportsOpen' /\ TimersSure'
  BY <1>1, <1>4, <1>5, <1>6, OpenSame, TimersStopped
<1>11. CompletedSettled'
  <2>1. \A x \in Engines, t \in ExportSlots :
          /\ exports'[x][t].number = exports[x][t].number
          /\ exports'[x][t].completed = exports[x][t].completed \/ (x = e /\ t = s)
    <3> DEFINE old == exports[e][s]
               x == [old EXCEPT !.completed = 1]
    <3>1. exports' = [exports EXCEPT ![e][s] = x]
      BY <1>1, <1>4 DEF TypeInv, TypeOK
    <3>2. old \in ExportSessions
      BY <1>7
    <3> HIDE DEF old
    <3>3. x.number = old.number
      BY <3>2 DEF ExportSessions
    <3> HIDE DEF x
    <3>4. QED
      BY <1>1, <3>1, <3>3 DEF TypeInv, TypeOK, old
  <2>2. ASSUME NEW x \in Engines, NEW t \in ExportSlots, NEW n \in Nat,
               exports'[x][t].completed = 1, exports'[x][t].number = n
        PROVE  \E b \in Hears[x] : SettledAt(b, x, n)'
    <3>1. \E b \in Hears[x] : SettledAt(b, x, n)
      <4>1. CASE x = e /\ t = s
        BY <1>7, <1>8, <2>1, <2>2, <4>1
      <4>2. CASE ~ (x = e /\ t = s)
        BY <1>1, <2>1, <2>2, <4>2 DEF CompletedSettled
      <4>3. QED
        BY <4>1, <4>2
    <3>2. QED
      BY <1>6, <3>1, HearsEngines DEF SettledKept
  <2>3. QED
    BY <2>2 DEF CompletedSettled
<1>12. Integrity'
  BY <1>1, ReceiveReportFullIntegrity
<1>13. QED
  BY <1>5, <1>6, <1>9, <1>10, <1>11, <1>12, SoundFrom DEF history

\* What a report makes an engine send again goes to the engine that wrote it,
\* which knows the length of the block or is done with it.
LEMMA RetransmissionWarranted ==
  ASSUME PointToPoint, SureKept, NEW e \in Engines, NEW r \in ReportSegments, Warranted(e, r),
         NEW m \in DataSegments, m.from = e, m.number = r.number,
         NEW b \in Engines, b \in Hears[e]
  PROVE  Warranted(b, m)'
<1>1. r.type = Report /\ r.from \in Engines /\ r.number \in Nat
  BY DEF ReportSegments
<1>2. r.from \in Hears[e] /\ Sure(r.from, e, r.number)
  BY <1>1 DEF Warranted
<1>3. b = r.from
  BY <1>2 DEF PointToPoint
<1>4. Sure(b, e, m.number)'
  BY <1>1, <1>2, <1>3 DEF SureKept
<1>5. m.type # Report
  BY TypeNumbers DEF DataSegments
<1>6. QED
  BY <1>4, <1>5 DEF Warranted

LEMMA ReceiveReportPartialSound ==
  ASSUME PointToPoint, Sound, NEW e \in Engines, ReceiveReportPartial(e)
  PROVE  Sound'
<1>1. /\ Integrity /\ TypeInv /\ LinkWarranted /\ ImportsOpen
      /\ TimersSure /\ CompletedSettled
  BY SoundParts
<1>2. inbox[e] # << >> /\ Head(inbox[e]) \in ReportSegments /\ Head(inbox[e]) \in InFlight(e)
  BY <1>1, IncomingData, KindOfSegment DEF ReceiveReportPartial, Incoming
<1>3. PICK r \in ReportSegments : r = Head(inbox[e])
  BY <1>2
<1>4. PICK s \in ExportSlots, len \in 0 .. MaxBlock :
        LET sess == exports[e][s]
            pieces == Pieces(Missing(r, BlockLen[sess.block]))
        IN
        /\ First(OpenExports(e, r.number), s)
        /\ \E q \in [1 .. len -> pieces] :
             LET cp == IF len > 0 THEN sess.nextCp + 1 ELSE sess.nextCp IN
             /\ Exchange(e, <<AckOf(e, r)>> \o Retransmission(e, sess, q))
             /\ exports' = [exports EXCEPT ![e][s].nextCp = cp]
             /\ timers' = [timers EXCEPT ![e] =
                  StartTimer(StopTimer(@, CheckpointTimer, r.number, r.cp),
                             CheckpointTimer, e, r.number, cp - 1)]
  BY <1>3 DEF ReceiveReportPartial
<1> DEFINE sess == exports[e][s]
           M == Missing(r, BlockLen[sess.block])
           cp == IF len > 0 THEN sess.nextCp + 1 ELSE sess.nextCp
           x == [sess EXCEPT !.nextCp = cp]
           ts == StopTimer(timers[e], CheckpointTimer, r.number, r.cp)
<1>5. PICK q \in [1 .. len -> Pieces(M)] :
        /\ Exchange(e, <<AckOf(e, r)>> \o Retransmission(e, sess, q))
        /\ exports' = [exports EXCEPT ![e][s].nextCp = cp]
        /\ timers' = [timers EXCEPT ![e] =
             StartTimer(ts, CheckpointTimer, e, r.number, cp - 1)]
  BY <1>4
<1>6. UNCHANGED <<imports, next, waiting, history>>
  BY DEF ReceiveReportPartial
<1>7. SureKept /\ SettledKept
  BY <1>6, QuietKept DEF SureKept, history
<1>8. sess \in ExportSessions /\ sess.active = 1 /\ sess.number = r.number
  BY <1>1, <1>4 DEF TypeInv, TypeOK, First, OpenExports
<1>9. sess.block \in Blocks
  BY <1>1, <1>8 DEF TypeInv, OpenExportsUsable, Usable
<1>10. exports' = [exports EXCEPT ![e][s] = x]
  BY <1>1, <1>5 DEF TypeInv, TypeOK
<1>11. len \in Nat /\ M \in SUBSET Offsets
  BY ConstantsAssumption, MissingInBlock
<1> HIDE DEF sess, M, cp
<1>12. x.completed = sess.completed /\ x.number = sess.number
  BY <1>8 DEF ExportSessions
<1> HIDE DEF x
<1>13. CompletedSettled'
  BY <1>1, <1>7, <1>10, <1>12, CompletedChanged DEF sess
<1>14. TimersSure'
  <2>1. timers[e] \in TimerTable
    BY <1>1 DEF TypeInv, TypeOK, TimerTable
  <2>2. ts \in TimerTable
    BY <2>1, StopTimerType
  <2>3. \A i \in TimerSlots : ts[i] \in {timers[e][i], NoTimer}
    BY DEF StopTimer
  <2>4. CheckpointTimer # ReportTimer
    BY DEF CheckpointTimer, ReportTimer
  <2> HIDE DEF ts
  <2>5. QED
    BY <1>1, <1>5, <1>7, <2>2, <2>3, <2>4, TimersStarted
<1> DEFINE again == Retransmission(e, sess, q)
           ack == <<AckOf(e, r)>>
<1>15. /\ again \in Seq(DataSegments) /\ again \in Seq(Segments)
       /\ \A m \in Range(again) : SentAgain(m, e, sess)
  BY <1>8, <1>9, <1>11, RetransmissionType, DataIsSegments
<1>16. AckOf(e, r) \in Segments /\ AckOf(e, r).type = ReportAck /\ AckOf(e, r).from = e
  BY AckType DEF AckOf
<1>17. ack \in Seq(Segments) /\ Range(ack) = {AckOf(e, r)}
  BY <1>16, SingleSegment
<1>18. Exchange(e, ack \o again)
  BY <1>5
<1>19. Warranted(e, r)
  BY <1>1, <1>2, <1>3 DEF LinkWarranted
<1> HIDE DEF again, ack
<1>20. PICK out \in Seq(Segments) : out = ack \o again
  BY <1>15, <1>17, ConcatOfSeq
<1>21. Range(out) = {AckOf(e, r)} \cup Range(again)
  BY <1>15, <1>17, <1>20, ConcatOfSeq
<1>22. \A b \in Engines : \A m \in Range(out) : b \in Hears[e] => Warranted(b, m)'
  <2>1. ASSUME NEW b \in Engines, b \in Hears[e]
        PROVE  Warranted(b, AckOf(e, r))'
    BY <1>16, <2>1, TypeNumbers, PlainWarrant
  <2>2. ASSUME NEW b \in Engines, b \in Hears[e], NEW m \in Range(again)
        PROVE  Warranted(b, m)'
    <3>1. m \in DataSegments
      BY <1>15, <2>2 DEF Range
    <3>2. m.from = e /\ m.number = r.number
      BY <1>8, <1>15, <2>2 DEF SentAgain
    <3>3. QED
      BY <1>7, <1>19, <2>2, <3>1, <3>2, RetransmissionWarranted
  <2>3. QED
    BY <1>21, <2>1, <2>2
<1>23. LinkWarranted'
  BY <1>1, <1>2, <1>6, <1>7, <1>18, <1>20, <1>22, ExchangeWarranted DEF history
<1>24. ImportsOpen'
  BY <1>1, <1>6, OpenSame
<1>25. Integrity'
  BY <1>1, ReceiveReportPartialIntegrity
<1>26. QED
  BY <1>6, <1>7, <1>13, <1>14, <1>23, <1>24, <1>25, SoundFrom DEF history

----------------------------------------------------------------------------
(* Cancellation                                                            *)

LEMMA CancelPlain ==
  ASSUME NEW e \in Engines, NEW n \in Nat, NEW type \in CancelTypes
  PROVE  /\ Cancel(type, e, n) \in Segments
         /\ Cancel(type, e, n).from = e
         /\ Cancel(type, e, n).type \notin {RedDataCp, Report}
<1>1. type \notin {RedDataCp, Report}
  BY TypeNumbers
<1>2. QED
  BY <1>1, AnswerTypes DEF Cancel

\* Writing one cancel segment.
LEMMA CancelWarranted ==
  ASSUME TypeInv, LinkWarranted, SureKept, UNCHANGED sent, NEW e \in Engines,
         NEW n \in Nat, NEW type \in CancelTypes, Transmit(e, <<Cancel(type, e, n)>>)
  PROVE  LinkWarranted'
<1>1. PICK m \in Segments : m = Cancel(type, e, n)
  BY CancelPlain
<1>2. \A b \in Engines : b \in Hears[e] => Warranted(b, m)'
  BY <1>1, CancelPlain, PlainWarrant
<1>3. Transmit(e, <<m>>)
  BY <1>1
<1>4. QED
  BY <1>2, <1>3, WriteWarranted

LEMMA CancelSessionSound ==
  ASSUME Sound, NEW e \in Engines, NEW n \in Nat, CancelSession(e, n)
  PROVE  Sound'
<1>1. /\ Integrity /\ TypeInv /\ LinkWarranted /\ ImportsOpen
      /\ TimersSure /\ CompletedSettled
  BY SoundParts
<1>2. PICK s \in ExportSlots : exports' = [exports EXCEPT ![e][s] = Cancelled(@)]
  BY DEF CancelSession
<1>3. /\ Transmit(e, <<Cancel(CancelBySender, e, n)>>)
      /\ timers' = [timers EXCEPT ![e] = StartTimer(timers[e], CancelTimer, e, n, 0)]
      /\ UNCHANGED <<imports, next, waiting, history>>
  BY DEF CancelSession
<1>4. SureKept /\ SettledKept
  BY <1>3, QuietKept DEF SureKept, history
<1> DEFINE x == Cancelled(exports[e][s])
<1>5. exports[e][s] \in ExportSessions /\ exports' = [exports EXCEPT ![e][s] = x]
  BY <1>1, <1>2 DEF TypeInv, TypeOK
<1>6. x.completed = exports[e][s].completed /\ x.number = exports[e][s].number
  BY <1>5 DEF Cancelled, ExportSessions
<1> HIDE DEF x
<1>7. CompletedSettled'
  BY <1>1, <1>4, <1>5, <1>6, CompletedChanged
<1>8. CancelBySender \in CancelTypes
  BY DEF CancelTypes
<1>9. LinkWarranted'
  BY <1>1, <1>3, <1>4, <1>8, CancelWarranted DEF history
<1>10. TimersSure'
  <2>1. timers[e] \in TimerTable
    BY <1>1 DEF TypeInv, TypeOK, TimerTable
  <2>2. CancelTimer # ReportTimer
    BY DEF CancelTimer, ReportTimer
  <2>3. QED
    BY <1>1, <1>3, <1>4, <2>1, <2>2, TimersStarted
<1>11. ImportsOpen' /\ Integrity'
  BY <1>1, <1>3, OpenSame, CancelSessionIntegrity
<1>12. QED
  BY <1>3, <1>4, <1>7, <1>9, <1>10, <1>11, SoundFrom DEF history

LEMMA CancelImportSound ==
  ASSUME Sound, NEW e \in Engines, NEW a, NEW n \in Nat, CancelImport(e, a, n)
  PROVE  Sound'
<1>1. /\ Integrity /\ TypeInv /\ LinkWarranted /\ ImportsOpen
      /\ TimersSure /\ CompletedSettled
  BY SoundParts
<1>2. Transmit(e, <<Cancel(CancelByRecvr, e, n)>>) /\ UNCHANGED <<tables, history>>
  BY DEF CancelImport
<1>3. SureKept /\ SettledKept
  BY <1>2, QuietKept DEF SureKept, tables, history
<1>4. CancelByRecvr \in CancelTypes
  BY DEF CancelTypes
<1>5. LinkWarranted'
  BY <1>1, <1>2, <1>3, <1>4, CancelWarranted DEF history
<1>6. ImportsOpen' /\ TimersSure' /\ CompletedSettled'
  BY <1>1, <1>2, <1>3, OpenSame, TimersSame, CompletedSame DEF tables
<1>7. Integrity'
  BY <1>1, CancelImportIntegrity
<1>8. QED
  BY <1>2, <1>3, <1>5, <1>6, <1>7, SoundFrom DEF history

\* Answering a segment with a cancel segment.
LEMMA CancelAnswered ==
  ASSUME TypeInv, LinkWarranted, SureKept, UNCHANGED sent, NEW e \in Engines,
         inbox[e] # << >>, NEW n \in Nat, NEW type \in CancelTypes,
         Exchange(e, <<Cancel(type, e, n)>>)
  PROVE  LinkWarranted'
<1>1. PICK m \in Segments : m = Cancel(type, e, n)
  BY CancelPlain
<1>2. m.from = e /\ m.type \notin {RedDataCp, Report} /\ Exchange(e, <<m>>)
  BY <1>1, CancelPlain
<1>3. QED
  BY <1>2, AnswerWarranted

LEMMA ReceiveCancelSound ==
  ASSUME Sound, NEW e \in Engines,
         \/ ReceiveCancelBySender(e) \/ ReceiveCancelAckSender(e)
         \/ ReceiveCancelByRecvr(e) \/ ReceiveCancelAckRecvr(e)
  PROVE  Sound'
<1>1. /\ Integrity /\ TypeInv /\ Tables /\ LinkWarranted /\ ImportsOpen
      /\ TimersSure /\ CompletedSettled
  BY SoundParts
<1>2. Integrity'
  BY <1>1, ReceiveCancelIntegrity
<1>3. inbox[e] # << >> /\ Head(inbox[e]) \in Segments
  BY <1>1, IncomingData
     DEF ReceiveCancelBySender, ReceiveCancelAckSender, ReceiveCancelByRecvr,
         ReceiveCancelAckRecvr, Incoming
<1>4. PICK m \in Segments : m = Head(inbox[e])
  BY <1>3
<1>5. m.from \in Engines /\ m.number \in Nat
  BY KindOfSegment
<1>6. CancelAckSender \in CancelTypes /\ CancelAckRecvr \in CancelTypes
  BY DEF CancelTypes
<1>7. OpenImports(e, m.from, m.number) \in SUBSET ImportSlots
  BY DEF OpenImports
<1>8. CASE ReceiveCancelBySender(e)
  <2>1. /\ Exchange(e, <<Cancel(CancelAckSender, e, m.number)>>)
        /\ AbandonImport(e, OpenImports(e, m.from, m.number))
        /\ UNCHANGED <<exports, timers, next, waiting, sent, delivered, outcome>>
    BY <1>4, <1>8 DEF ReceiveCancelBySender
  <2>2. SureKept /\ SettledKept
    BY <1>1, <1>7, <2>1, AbandonKept DEF SureKept
  <2>3. LinkWarranted'
    BY <1>1, <1>3, <1>5, <1>6, <2>1, <2>2, CancelAnswered
  <2>4. ImportsOpen' /\ TimersSure' /\ CompletedSettled'
    BY <1>1, <2>1, <2>2, OpenAbandoned, TimersSame, CompletedSame
  <2>5. QED
    BY <1>2, <2>1, <2>2, <2>3, <2>4, SoundFrom
<1>9. CASE ReceiveCancelAckSender(e)
  <2>1. /\ Exchange(e, << >>)
        /\ CancelExport(e, m.number)
        /\ timers' = [timers EXCEPT ![e] = StopTimer(@, CancelTimer, m.number, 0)]
        /\ UNCHANGED <<imports, next, waiting, history>>
    BY <1>4, <1>9 DEF ReceiveCancelAckSender
  <2>2. SureKept /\ SettledKept
    BY <2>1, QuietKept DEF SureKept, history
  <2>3. LinkWarranted'
    BY <1>1, <1>3, <2>1, <2>2, DropWarranted DEF history
  <2>4. ImportsOpen' /\ TimersSure' /\ CompletedSettled'
    BY <1>1, <2>1, <2>2, OpenSame, TimersStopped, CompletedClosed
  <2>5. QED
    BY <1>2, <2>1, <2>2, <2>3, <2>4, SoundFrom DEF history
<1>10. CASE ReceiveCancelByRecvr(e)
  <2>1. /\ Exchange(e, <<Cancel(CancelAckRecvr, e, m.number)>>)
        /\ CancelExport(e, m.number)
        /\ UNCHANGED <<imports, timers, next, waiting, history>>
    BY <1>4, <1>10 DEF ReceiveCancelByRecvr
  <2>2. SureKept /\ SettledKept
    BY <2>1, QuietKept DEF SureKept, history
  <2>3. LinkWarranted'
    BY <1>1, <1>3, <1>5, <1>6, <2>1, <2>2, CancelAnswered DEF history
  <2>4. ImportsOpen' /\ TimersSure' /\ CompletedSettled'
    BY <1>1, <2>1, <2>2, OpenSame, TimersSame, CompletedClosed
  <2>5. QED
    BY <1>2, <2>1, <2>2, <2>3, <2>4, SoundFrom DEF history
<1>11. CASE ReceiveCancelAckRecvr(e)
  <2>1. /\ Exchange(e, << >>)
        /\ AbandonImport(e, OpenImports(e, m.from, m.number))
        /\ timers' = [timers EXCEPT ![e] = StopTimer(@, CancelTimer, m.number, 0)]
        /\ UNCHANGED <<exports, next, waiting, sent, delivered, outcome>>
    BY <1>4, <1>11 DEF ReceiveCancelAckRecvr
  <2>2. SureKept /\ SettledKept
    BY <1>1, <1>7, <2>1, AbandonKept DEF SureKept
  <2>3. LinkWarranted'
    BY <1>1, <1>3, <2>1, <2>2, DropWarranted
  <2>4. ImportsOpen' /\ TimersSure' /\ CompletedSettled'
    BY <1>1, <2>1, <2>2, OpenAbandoned, TimersStopped, CompletedSame
  <2>5. QED
    BY <1>2, <2>1, <2>2, <2>3, <2>4, SoundFrom
<1>12. QED
  BY <1>8, <1>9, <1>10, <1>11

----------------------------------------------------------------------------
(* Timers                                                                  *)

LEMMA CheckpointTimeoutSound ==
  ASSUME Sound, NEW e \in Engines, NEW i \in TimerSlots, CheckpointTimeout(e, i)
  PROVE  Sound'
<1>1. /\ Integrity /\ TypeInv /\ LinkWarranted /\ ImportsOpen
      /\ TimersSure /\ CompletedSettled
  BY SoundParts
<1>2. PICK s \in ExportSlots :
        /\ First(OpenExports(e, timers[e][i].number), s)
        /\ Transmit(e, <<TailCheckpoint(e, exports[e][s])>>)
        /\ exports' = [exports EXCEPT ![e][s].nextCp = @ + 1]
  BY DEF CheckpointTimeout
<1>3. Rearm(e, i) /\ UNCHANGED <<imports, next, waiting, history>>
  BY DEF CheckpointTimeout
<1>4. SureKept /\ SettledKept
  BY <1>3, QuietKept DEF SureKept, history
<1> DEFINE sess == exports[e][s]
           x == [sess EXCEPT !.nextCp = @ + 1]
<1>5. sess \in ExportSessions /\ sess.active = 1
  BY <1>1, <1>2 DEF TypeInv, TypeOK, First, OpenExports
<1>6. sess.block \in Blocks
  BY <1>1, <1>5 DEF TypeInv, OpenExportsUsable, Usable
<1>7. exports' = [exports EXCEPT ![e][s] = x]
  BY <1>1, <1>2 DEF TypeInv, TypeOK
<1> HIDE DEF sess
<1>8. x.completed = sess.completed /\ x.number = sess.number
  BY <1>5 DEF ExportSessions
<1> HIDE DEF x
<1>9. CompletedSettled'
  BY <1>1, <1>4, <1>7, <1>8, CompletedChanged DEF sess
<1>10. PICK m \in DataSegments : m = TailCheckpoint(e, sess)
  BY <1>5, <1>6, TailCheckpointType
<1>11. m.from = e /\ m.type = RedDataEorpCp
  BY <1>10 DEF TailCheckpoint
<1>12. m \in Segments /\ Transmit(e, <<m>>)
  BY <1>2, <1>10 DEF Segments, sess
<1>13. \A b \in Engines : b \in Hears[e] => Warranted(b, m)'
  BY <1>11, PlainWarrant, TypeNumbers
<1>14. LinkWarranted'
  BY <1>1, <1>3, <1>4, <1>12, <1>13, WriteWarranted DEF history
<1>15. ImportsOpen' /\ TimersSure'
  BY <1>1, <1>3, <1>4, OpenSame, TimersRearmed
<1>16. Integrity'
  BY <1>1, CheckpointTimeoutIntegrity
<1>17. QED
  BY <1>3, <1>4, <1>9, <1>14, <1>15, <1>16, SoundFrom DEF history

\* A repeated report is written for the session of the one engine that e hears,
\* though the session is looked up by its number alone.
LEMMA ReportTimeoutSound ==
  ASSUME PointToPoint, Sound, NEW e \in Engines, NEW i \in TimerSlots, ReportTimeout(e, i)
  PROVE  Sound'
<1>1. /\ Integrity /\ TypeInv /\ LinkWarranted /\ ImportsOpen
      /\ TimersSure /\ CompletedSettled /\ SentOnce /\ ImportsAgree
  BY SoundParts DEF Integrity
<1>2. timers[e][i] \in Timers
  BY <1>1 DEF TypeInv, TypeOK
<1>3. PICK n \in Nat, a \in Engines \cup {Zero}, rpt \in Nat :
        n = timers[e][i].number /\ a = timers[e][i].engine /\ rpt = timers[e][i].serial
  BY <1>2 DEF Timers
<1>4. PICK s \in ImportSlots :
        /\ First(ImportsNumbered(e, n), s)
        /\ Transmit(e, <<ReportOn(e, imports[e][s], rpt, 0, imports[e][s].blockLen)>>)
  BY <1>3 DEF ReportTimeout
<1>5. /\ Rearm(e, i) /\ UNCHANGED <<exports, imports, next, waiting, history>>
      /\ timers[e][i].active = 1 /\ timers[e][i].type = ReportTimer
  BY DEF ReportTimeout, Expiring
<1>6. SureKept /\ SettledKept
  BY <1>5, QuietKept DEF SureKept, history
<1>7. PICK x \in ImportSessions : x = imports[e][s]
  BY <1>1 DEF TypeInv, TypeOK
<1>8. x.active = 1 /\ x.number = n
  BY <1>4, <1>7 DEF First, ImportsNumbered
<1>9. e \in Hears[x.engine] /\ ~ Complete(x) /\ Agrees(x, sent)
  BY <1>1, <1>7, <1>8 DEF ImportsOpen, ImportsAgree
<1>10. PICK q \in sent : q.engine = x.engine /\ q.number = x.number
  BY <1>9 DEF Agrees
<1>11. x.engine \in Engines
  BY <1>1, <1>10 DEF TypeInv, TypeOK
<1>12. a \in Engines /\ e \in Hears[a] /\ Sure(e, a, n)
  BY <1>1, <1>3, <1>5 DEF TimersSure, ReportTimerFor
<1>13. a = x.engine
  BY <1>9, <1>11, <1>12 DEF PointToPoint
<1>14. CoversFromZero(Claims(x), BlockLen[q.block]) => SettledAt(e, a, n)
  <2>1. SUFFICES ASSUME CoversFromZero(Claims(x), BlockLen[q.block]), LengthKnown(e, a, n)
                 PROVE  FALSE
    BY <1>12 DEF Sure
  <2>2. PICK t \in ImportSlots : First(OpenImports(e, a, n), t) /\ imports[e][t].blockLen > 0
    BY <2>1 DEF LengthKnown
  <2>3. First(OpenImports(e, a, n), s)
    BY <1>4, <1>7, <1>8, <1>13 DEF First, OpenImports, ImportsNumbered
  <2>4. s = t
    BY <2>2, <2>3, FirstUnique, ConstantsAssumption DEF OpenImports, ImportSlots
  <2>5. x.blockLen > 0
    BY <1>7, <2>2, <2>4
  <2>6. QED
    BY <1>1, <1>9, <1>10, <2>1, <2>5, FullIsComplete
<1>15. x.blockLen \in Nat
  BY DEF ImportSessions
<1>16. PICK r \in Segments : r = ReportOn(e, x, rpt, 0, x.blockLen)
  BY <1>15, ReportOnType
<1>17. r.type = Report /\ r.from = e /\ r.number = n /\ r.claims = Claims(x)
  BY <1>8, <1>16 DEF ReportOn
<1>18. ASSUME NEW b \in Engines, b \in Hears[e]
       PROVE  Warranted(b, r)'
  <2>1. b = a
    BY <1>12, <1>18 DEF PointToPoint
  <2>2. Sure(e, a, n)' /\ (SettledAt(e, a, n) => SettledAt(e, a, n)')
    BY <1>6, <1>12 DEF SureKept, SettledKept
  <2>3. q \in sent' /\ q.engine = b /\ q.number = n
    BY <1>5, <1>8, <1>10, <1>13, <2>1 DEF history
  <2>4. CoversFromZero(r.claims, BlockLen[q.block]) => SettledAt(e, b, n)'
    BY <1>14, <1>17, <2>1, <2>2
  <2>5. e \in Hears[b] /\ Sure(e, b, n)'
    BY <1>12, <2>1, <2>2
  <2>6. QED
    BY <1>17, <1>18, <2>3, <2>4, <2>5, TypeNumbers DEF Warranted
<1>19. LinkWarranted'
  <2>1. Transmit(e, <<r>>)
    BY <1>4, <1>7, <1>16
  <2>2. QED
    BY <1>1, <1>5, <1>6, <1>18, <2>1, WriteWarranted DEF history
<1>20. ImportsOpen' /\ TimersSure' /\ CompletedSettled'
  BY <1>1, <1>5, <1>6, OpenSame, TimersRearmed, CompletedSame
<1>21. Integrity'
  BY <1>1, ReportTimeoutIntegrity
<1>22. QED
  BY <1>5, <1>6, <1>19, <1>20, <1>21, SoundFrom DEF history

LEMMA CancelTimeoutSound ==
  ASSUME Sound, NEW e \in Engines, NEW i \in TimerSlots, CancelTimeout(e, i)
  PROVE  Sound'
<1>1. /\ Integrity /\ TypeInv /\ LinkWarranted /\ ImportsOpen
      /\ TimersSure /\ CompletedSettled
  BY SoundParts
<1>2. /\ Transmit(e, <<Cancel(CancelBySender, e, timers[e][i].number)>>)
      /\ Rearm(e, i) /\ UNCHANGED <<exports, imports, next, waiting, history>>
  BY DEF CancelTimeout
<1>3. SureKept /\ SettledKept
  BY <1>2, QuietKept DEF SureKept, history
<1>4. timers[e][i].number \in Nat /\ CancelBySender \in CancelTypes
  BY <1>1 DEF TypeInv, TypeOK, Timers, CancelTypes
<1>5. LinkWarranted'
  BY <1>1, <1>2, <1>3, <1>4, CancelWarranted DEF history
<1>6. ImportsOpen' /\ TimersSure' /\ CompletedSettled'
  BY <1>1, <1>2, <1>3, OpenSame, TimersRearmed, CompletedSame
<1>7. Integrity'
  BY <1>1, CancelTimeoutIntegrity
<1>8. QED
  BY <1>2, <1>3, <1>5, <1>6, <1>7, SoundFrom DEF history

\* Nothing is written when a timer has nothing to send or no retries left.
LEMMA QuietTimeoutSound ==
  ASSUME Sound, NEW e \in Engines, NEW i \in TimerSlots,
         \/ OrphanTimeout(e, i) \/ CheckpointExhausted(e, i)
         \/ ReportExhausted(e, i) \/ CancelExhausted(e, i)
  PROVE  Sound'
<1>1. /\ Integrity /\ TypeInv /\ Tables /\ LinkWarranted /\ ImportsOpen
      /\ TimersSure /\ CompletedSettled
  BY SoundParts
<1>2. Integrity'
  BY <1>1, QuietTimeoutIntegrity
<1>3. /\ Rearm(e, i) \/ Disarm(e, i)
      /\ UNCHANGED <<inbox, sent, delivered, outcome>>
  BY DEF OrphanTimeout, CheckpointExhausted, ReportExhausted, CancelExhausted, history
<1>4. \/ UNCHANGED <<imports, gaveUp>>
      \/ /\ AbandonImport(e, ImportsNumbered(e, timers[e][i].number))
         /\ UNCHANGED exports
  BY DEF OrphanTimeout, CheckpointExhausted, ReportExhausted, CancelExhausted, history
<1>5. UNCHANGED exports \/ CancelExport(e, timers[e][i].number)
  BY DEF OrphanTimeout, CheckpointExhausted, ReportExhausted, CancelExhausted
<1>6. ImportsNumbered(e, timers[e][i].number) \in SUBSET ImportSlots
  BY DEF ImportsNumbered
<1>7. SureKept /\ SettledKept
  BY <1>1, <1>3, <1>4, <1>6, QuietKept, AbandonKept DEF SureKept
<1>8. LinkWarranted'
  <2>1. \A b \in Engines : InFlight(b)' \subseteq
          InFlight(b) \cup (IF b \in Hears[e] THEN Range(<< >>) ELSE {})
    BY <1>3 DEF InFlight
  <2>2. QED
    BY <1>1, <1>3, <1>7, <2>1, NothingWritten, ArrivalsWarranted
<1>9. ImportsOpen' /\ TimersSure' /\ CompletedSettled'
  BY <1>1, <1>3, <1>4, <1>5, <1>7, OpenSame, OpenAbandoned, TimersRearmed, CompletedSame,
     CompletedClosed
<1>10. QED
  BY <1>2, <1>3, <1>7, <1>8, <1>9, SoundFrom

----------------------------------------------------------------------------

LEMMA StepSound ==
  ASSUME PointToPoint
  PROVE  Sound /\ [Next]_vars => Sound'
<1> SUFFICES ASSUME Sound, [Next]_vars PROVE Sound'
  OBVIOUS
<1>1. ASSUME NEW e \in Engines, Application(e)
      PROVE  Sound'
  <2>1. \A x \in Engines : \A n \in 1 .. MaxSessions[x] : n \in Nat
    BY ConstantsAssumption
  <2>2. QED
    BY <1>1, <2>1, SendSound, CancelSessionSound, CancelImportSound DEF Application
<1>2. ASSUME NEW e \in Engines, Receive(e)
      PROVE  Sound'
  BY <1>2, DroppedSound, ReceiveRedDataSound, ReceiveCheckpointSound,
     ReceiveReportFullSound, ReceiveReportPartialSound, ReceiveReportAckSound,
     ReceiveCancelSound DEF Receive
<1>3. ASSUME NEW e \in Engines, NEW i \in TimerSlots, Timeout(e, i)
      PROVE  Sound'
  BY <1>3, CheckpointTimeoutSound, ReportTimeoutSound, CancelTimeoutSound,
     QuietTimeoutSound DEF Timeout
<1>4. CASE UNCHANGED vars
  <2>1. UNCHANGED <<exports, imports, timers, next, waiting, inbox, sent, delivered, gaveUp, outcome>>
    BY <1>4 DEF vars, tables, history
  <2>2. /\ Integrity /\ TypeInv /\ LinkWarranted /\ ImportsOpen
        /\ TimersSure /\ CompletedSettled
    BY SoundParts
  <2>3. Integrity'
    BY <1>4, <2>2, StepIntegrity
  <2>4. SureKept /\ SettledKept
    BY <2>1, QuietKept DEF SureKept
  <2>5. \A b \in Engines : \A e : InFlight(b)' \subseteq
          InFlight(b) \cup (IF b \in Hears[e] THEN Range(<< >>) ELSE {})
    BY <2>1 DEF InFlight
  <2>6. LinkWarranted'
    BY <2>1, <2>2, <2>4, <2>5, NothingWritten, ArrivalsWarranted
  <2>7. ImportsOpen' /\ TimersSure' /\ CompletedSettled'
    BY <2>1, <2>2, <2>4, OpenSame, TimersSame, CompletedSame
  <2>8. QED
    BY <2>1, <2>3, <2>4, <2>6, <2>7, SoundFrom
<1>5. QED
  BY <1>1, <1>2, <1>3, <1>4, ReturnSound, LoseSound DEF Next, Step

\* On point-to-point links, whatever is lost, cancelled or timed out and however
\* small the claim tables are, ltp_engine_run never reports success for a block
\* that its receiver is still collecting or has heard nothing of.
THEOREM SuccessSettled ==
  ASSUME PointToPoint
  PROVE  Spec => []SuccessMeansSettled
<1>1. Sound => SuccessMeansSettled
  BY DEF Sound
<1>2. Sound /\ [Next]_vars => Sound'
  BY StepSound
<1>3. QED
  BY <1>1, <1>2, InitSound, PTL DEF Spec

----------------------------------------------------------------------------
(***************************************************************************)
(* What a sender may believe of its receiver, and the engines as an        *)
(* implementation of block transfer: the proofs.                           *)
(*                                                                         *)
(* Every step leaves the import sessions alone, closes one, or has one data*)
(* segment absorbed.  So the claims of a session only grow, the bytes under*)
(* them stay, and what a report claims is still there, or has become a     *)
(* delivery, when the report arrives.  With Sound, and with what Verdicts  *)
(* says of the session a run waits for, each step is a step of             *)
(* BlockTransfer or none.                                                  *)
(***************************************************************************)

----------------------------------------------------------------------------
(* What a step does to the import sessions                                 *)

\* Engine e absorbs the data segment m into slot s, where the session becomes x.
AbsorbedInto(e, m, s, x) ==
  /\ m \in DataSegments /\ m \in InFlight(e) /\ DataSlot(e, m, s)
  /\ x \in ImportSessions /\ x.active = 1
  /\ x.engine = m.from /\ x.number = m.number
  /\ Agrees(x, sent)
  /\ imports[e][s].active = 1 =>
       /\ imports[e][s].engine = m.from /\ imports[e][s].number = m.number
       /\ \A o \in Offsets : x.got[o] \in {imports[e][s].got[o], Byte(m.block, o)}
  /\ StoreOrDeliver(e, s, x)
  /\ UNCHANGED <<exports, next, waiting, sent, gaveUp, outcome>>

\* The session once the segment is absorbed, in the slot it goes to.
LEMMA AbsorbedParts ==
  ASSUME Integrity, NEW e \in Engines, NEW m \in DataSegments, m \in InFlight(e),
         NEW s \in ImportSlots, DataSlot(e, m, s),
         NEW x, x = Absorb(DataSession(e, m, s), m)
  PROVE  /\ x \in ImportSessions /\ x.active = 1
         /\ x.engine = m.from /\ x.number = m.number
         /\ Agrees(x, sent)
         /\ imports[e][s].active = 1 =>
              /\ imports[e][s].engine = m.from /\ imports[e][s].number = m.number
              /\ \A o \in Offsets : x.got[o] \in {imports[e][s].got[o], Byte(m.block, o)}
<1> DEFINE old == DataSession(e, m, s)
<1>1. /\ old \in ImportSessions /\ old.active = 1
      /\ old.engine = m.from /\ old.number = m.number
      /\ \/ imports[e][s].active = 1 /\ old = imports[e][s]
         \/ imports[e][s].active = 0 /\ old = NewImport(m)
  BY TypeInvTables, DataSessionType DEF Integrity
<1> HIDE DEF old
<1>2. /\ x \in ImportSessions /\ x.active = old.active
      /\ x.engine = old.engine /\ x.number = old.number
      /\ \A o \in Offsets : x.got[o] \in {old.got[o], Byte(m.block, o)}
  BY <1>1, AbsorbType DEF old
<1>3. Agrees(x, sent)
  BY DataSessionAgrees
<1>4. QED
  BY <1>1, <1>2, <1>3

LEMMA RedDataAbsorbed ==
  ASSUME Integrity, NEW e \in Engines, ReceiveRedData(e)
  PROVE  /\ \E m, x : \E s \in ImportSlots : AbsorbedInto(e, m, s, x)
         /\ inbox[e] # << >> /\ Exchange(e, << >>)
<1>1. /\ inbox[e] # << >> /\ Exchange(e, << >>)
      /\ Head(inbox[e]) \in DataSegments /\ Head(inbox[e]) \in InFlight(e)
  BY IncomingData, KindOfSegment, TypeNumbers DEF ReceiveRedData, Incoming
<1>2. PICK m \in DataSegments : m = Head(inbox[e])
  BY <1>1
<1>3. PICK s \in ImportSlots :
        /\ DataSlot(e, m, s)
        /\ StoreOrDeliver(e, s, Absorb(DataSession(e, m, s), m))
  BY <1>2 DEF ReceiveRedData
<1>4. PICK x : x = Absorb(DataSession(e, m, s), m)
  OBVIOUS
<1>5. UNCHANGED <<exports, next, waiting, sent, gaveUp, outcome>>
  BY DEF ReceiveRedData
<1>6. m \in InFlight(e) /\ StoreOrDeliver(e, s, x)
  BY <1>1, <1>2, <1>3, <1>4
<1>7. AbsorbedInto(e, m, s, x)
  BY <1>3, <1>4, <1>5, <1>6, AbsorbedParts DEF AbsorbedInto
<1>8. QED
  BY <1>1, <1>7

\* A checkpoint is absorbed likewise, and answered with what the session now claims.
LEMMA CheckpointAbsorbed ==
  ASSUME Integrity, NEW e \in Engines, ReceiveCheckpoint(e)
  PROVE  \E m, x : \E s \in ImportSlots, rpt, cp, upper \in Nat :
           /\ AbsorbedInto(e, m, s, x)
           /\ inbox[e] # << >> /\ Exchange(e, <<ReportOn(e, x, rpt, cp, upper)>>)
<1>1. /\ inbox[e] # << >>
      /\ Head(inbox[e]) \in DataSegments /\ Head(inbox[e]) \in InFlight(e)
  BY IncomingData, KindOfSegment, TypeNumbers DEF ReceiveCheckpoint, Incoming
<1>2. PICK m \in DataSegments : m = Head(inbox[e])
  BY <1>1
<1> DEFINE Sess(s) == Absorb(DataSession(e, m, s), m)
           Upper(s) == IF Sess(s).blockLen > 0 THEN Sess(s).blockLen ELSE m.offset + m.length
<1>3. PICK s \in ImportSlots :
        /\ DataSlot(e, m, s)
        /\ Exchange(e, <<ReportOn(e, Sess(s), Sess(s).nextRpt, m.cp, Upper(s))>>)
        /\ StoreOrDeliver(e, s, [Sess(s) EXCEPT !.nextRpt = @ + 1])
  BY <1>2 DEF ReceiveCheckpoint
<1>4. UNCHANGED <<exports, next, waiting, sent, gaveUp, outcome>>
  BY DEF ReceiveCheckpoint
<1>5. PICK y : y = Sess(s)
  OBVIOUS
<1>6. m \in InFlight(e)
  BY <1>1, <1>2
<1>7. /\ y \in ImportSessions /\ y.active = 1
      /\ y.engine = m.from /\ y.number = m.number
      /\ Agrees(y, sent)
      /\ imports[e][s].active = 1 =>
           /\ imports[e][s].engine = m.from /\ imports[e][s].number = m.number
           /\ \A o \in Offsets : y.got[o] \in {imports[e][s].got[o], Byte(m.block, o)}
  BY <1>3, <1>5, <1>6, AbsorbedParts
<1>8. PICK upper \in Nat : upper = Upper(s)
  BY <1>5, <1>7 DEF DataSegments, ImportSessions
<1>9. /\ Exchange(e, <<ReportOn(e, y, y.nextRpt, m.cp, upper)>>)
      /\ StoreOrDeliver(e, s, [y EXCEPT !.nextRpt = @ + 1])
  BY <1>3, <1>5, <1>8
<1> HIDE DEF Sess, Upper
<1>10. PICK x : x = [y EXCEPT !.nextRpt = @ + 1]
  OBVIOUS
<1>11. /\ x \in ImportSessions /\ x.active = y.active /\ x.engine = y.engine
       /\ x.number = y.number /\ x.blockLen = y.blockLen /\ x.got = y.got
  BY <1>7, <1>10, NumberedSession
<1>12. Agrees(x, sent)
  BY <1>7, <1>11 DEF Agrees
<1>13. ReportOn(e, x, y.nextRpt, m.cp, upper) = ReportOn(e, y, y.nextRpt, m.cp, upper)
  BY <1>11 DEF ReportOn, Claims
<1>14. StoreOrDeliver(e, s, x)
  BY <1>9, <1>10
<1>15. AbsorbedInto(e, m, s, x)
  BY <1>3, <1>4, <1>6, <1>7, <1>11, <1>12, <1>14 DEF AbsorbedInto
<1>16. y.nextRpt \in Nat /\ m.cp \in Nat
  BY <1>7 DEF ImportSessions, DataSegments
<1>17. Exchange(e, <<ReportOn(e, x, y.nextRpt, m.cp, upper)>>)
  BY <1>9, <1>13
<1>18. QED
  BY <1>1, <1>15, <1>16, <1>17

\* A step other than the receipt of data leaves the import sessions alone or closes
\* one, and delivers nothing.
LEMMA StepOfImports ==
  ASSUME Integrity, NEW e \in Engines, Step(e)
  PROVE  \/ UNCHANGED <<imports, delivered, gaveUp>>
         \/ \E S \in SUBSET ImportSlots :
              /\ \A t \in S : imports[e][t].active = 1
              /\ AbandonImport(e, S) /\ UNCHANGED <<sent, delivered, outcome>>
         \/ \E m, x : \E s \in ImportSlots : AbsorbedInto(e, m, s, x)
<1>1. CASE Application(e)
  BY <1>1 DEF Application, SendBlock, SendBlockFails, CancelSession, CancelImport, tables,
     history
<1>2. CASE ReceiveRedData(e) \/ ReceiveCheckpoint(e)
  BY <1>2, RedDataAbsorbed, CheckpointAbsorbed
<1>3. CASE ReceiveCancelBySender(e) \/ ReceiveCancelAckRecvr(e)
  <2>1. \A a, n : /\ OpenImports(e, a, n) \in SUBSET ImportSlots
                  /\ \A t \in OpenImports(e, a, n) : imports[e][t].active = 1
    BY DEF OpenImports
  <2>2. QED
    BY <1>3, <2>1 DEF ReceiveCancelBySender, ReceiveCancelAckRecvr
<1>4. CASE Receive(e) /\ ~ ReceiveRedData(e) /\ ~ ReceiveCheckpoint(e)
             /\ ~ ReceiveCancelBySender(e) /\ ~ ReceiveCancelAckRecvr(e)
  BY <1>4 DEF Receive, ReceiveDataNoSlot, ReceiveReportUnknown, ReceiveReportFull,
     ReceiveReportPartial, ReceiveReportAck, ReceiveCancelAckSender, ReceiveCancelByRecvr,
     tables, history
<1>5. ASSUME NEW i \in TimerSlots, Timeout(e, i)
      PROVE  \/ UNCHANGED <<imports, delivered, gaveUp>>
             \/ \E S \in SUBSET ImportSlots :
                  /\ \A t \in S : imports[e][t].active = 1
                  /\ AbandonImport(e, S) /\ UNCHANGED <<sent, delivered, outcome>>
  <2>1. CASE ReportExhausted(e, i)
    <3>1. /\ ImportsNumbered(e, timers[e][i].number) \in SUBSET ImportSlots
          /\ \A t \in ImportsNumbered(e, timers[e][i].number) : imports[e][t].active = 1
      BY DEF ImportsNumbered
    <3>2. QED
      BY <2>1, <3>1 DEF ReportExhausted
  <2>2. CASE ~ ReportExhausted(e, i)
    BY <1>5, <2>2 DEF Timeout, CheckpointTimeout, ReportTimeout, CancelTimeout, OrphanTimeout,
       CheckpointExhausted, CancelExhausted, history
  <2>3. QED
    BY <2>1, <2>2
<1>6. CASE Return(e) \/ Lose(e)
  BY <1>6 DEF Return, Lose, tables, history
<1>7. QED
  BY <1>1, <1>2, <1>3, <1>4, <1>5, <1>6 DEF Step, Receive

----------------------------------------------------------------------------
(* Claimed bytes stay                                                      *)

\* The action of ClaimedBytesStay.
BytesStay ==
  \A e \in Engines, s \in ImportSlots :
    LET was == imports[e][s]
        is == imports[e][s]'
    IN  was.active = 1 /\ is.active = 1
          /\ was.engine = is.engine /\ was.number = is.number =>
        \A o \in Claims(was) : is.got[o] = was.got[o]

LEMMA ByteIsClaimed ==
  ASSUME NEW b \in Blocks, NEW o
  PROVE  Byte(b, o) # Gap
  BY ConstantsAssumption DEF Byte

\* What is absorbed agrees, byte for byte, with what is claimed already: both are
\* of the one block submitted under the number of the session.
LEMMA AbsorbedBytesStay ==
  ASSUME Integrity, NEW e \in Engines, NEW m, NEW s \in ImportSlots, NEW x,
         AbsorbedInto(e, m, s, x), imports[e][s].active = 1,
         NEW o \in Claims(imports[e][s])
  PROVE  x.got[o] = imports[e][s].got[o]
<1> DEFINE old == imports[e][s]
<1>1. /\ m \in DataSegments /\ x.engine = m.from /\ x.number = m.number
      /\ old.engine = m.from /\ old.number = m.number
      /\ \A k \in Offsets : x.got[k] \in {old.got[k], Byte(m.block, k)}
      /\ Agrees(x, sent)
  BY DEF AbsorbedInto
<1>2. o \in Offsets /\ old.got[o] # Gap
  BY DEF Claims
<1>3. Agrees(old, sent) /\ SentOnce /\ sent \subseteq [engine : Engines, number : Nat, block : Blocks]
  BY DEF Integrity, ImportsAgree, TypeInv, TypeOK
<1> HIDE DEF old
<1>4. PICK r \in sent :
        /\ r.engine = old.engine /\ r.number = old.number
        /\ old.got[o] \in {Gap, Byte(r.block, o)}
  BY <1>2, <1>3 DEF Agrees
<1>5. PICK q \in sent :
        /\ q.engine = x.engine /\ q.number = x.number
        /\ x.got[o] \in {Gap, Byte(q.block, o)}
  BY <1>1, <1>2 DEF Agrees
<1>6. q = r
  BY <1>1, <1>3, <1>4, <1>5 DEF SentOnce
<1>7. Byte(m.block, o) # Gap
  BY <1>1, ByteIsClaimed DEF DataSegments
<1>8. x.got[o] # Gap
  BY <1>1, <1>2, <1>7
<1>9. QED
  BY <1>2, <1>4, <1>5, <1>6, <1>8 DEF old

\* The slots after a data segment is absorbed.
LEMMA AbsorbedSlots ==
  ASSUME Tables, NEW e \in Engines, NEW m, NEW s \in ImportSlots, NEW x,
         AbsorbedInto(e, m, s, x), NEW b \in Engines, NEW t \in ImportSlots
  PROVE  imports'[b][t] = IF b = e /\ t = s
                          THEN IF Complete(x) THEN FreeImport ELSE x
                          ELSE imports[b][t]
<1>1. imports' = [imports EXCEPT ![e][s] = IF Complete(x) THEN FreeImport ELSE x]
  BY DEF AbsorbedInto, StoreOrDeliver
<1>2. QED
  BY <1>1 DEF Tables

\* The slots after a session is closed.
LEMMA AbandonedSlots ==
  ASSUME Tables, NEW e \in Engines, NEW S, AbandonImport(e, S),
         NEW b \in Engines, NEW t \in ImportSlots
  PROVE  imports'[b][t] = IF b = e /\ First(S, t) THEN FreeImport ELSE imports[b][t]
  BY DEF AbandonImport, Tables

LEMMA FreeIsClosed == FreeImport.active = 0
  BY DEF FreeImport

LEMMA StepBytesStay ==
  ASSUME Integrity, [Next]_vars
  PROVE  BytesStay
<1>1. ASSUME NEW b \in Engines, NEW t \in ImportSlots,
             imports[b][t].active = 1, imports'[b][t].active = 1,
             NEW o \in Claims(imports[b][t])
      PROVE  imports'[b][t].got[o] = imports[b][t].got[o]
  <2>1. Tables
    BY TypeInvTables DEF Integrity
  <2>2. CASE UNCHANGED imports
    BY <2>2
  <2>3. ASSUME NEW e \in Engines, NEW S, AbandonImport(e, S)
        PROVE  imports'[b][t].got[o] = imports[b][t].got[o]
    BY <1>1, <2>1, <2>3, AbandonedSlots, FreeIsClosed
  <2>4. ASSUME NEW e \in Engines, NEW m, NEW x, NEW s \in ImportSlots,
               AbsorbedInto(e, m, s, x)
        PROVE  imports'[b][t].got[o] = imports[b][t].got[o]
    <3>1. CASE b = e /\ t = s
      <4>1. imports'[b][t] = x
        BY <1>1, <2>1, <2>4, <3>1, AbsorbedSlots, FreeIsClosed
      <4>2. x.got[o] = imports[b][t].got[o]
        BY <1>1, <2>4, <3>1, AbsorbedBytesStay
      <4>3. QED
        BY <4>1, <4>2
    <3>2. CASE ~ (b = e /\ t = s)
      <4>1. imports'[b][t] = imports[b][t]
        BY <2>1, <2>4, <3>2, AbsorbedSlots
      <4>2. QED
        BY <4>1
    <3>3. QED
      BY <3>1, <3>2
  <2>5. CASE Next
    BY <2>2, <2>3, <2>4, <2>5, StepOfImports DEF Next
  <2>6. QED
    BY <2>2, <2>5 DEF vars, tables
<1>2. QED
  BY <1>1 DEF BytesStay

\* For any number of engines and any way they hear one another: a byte that the
\* receive map of ltp.c claims is never overwritten with another value, by an
\* overlapping, repeated or late segment, until the session closes.
THEOREM ClaimedBytesAreKept == Spec => ClaimedBytesStay
<1>1. Integrity /\ [Next]_vars => [BytesStay]_imports
  BY StepBytesStay
<1>2. QED
  BY <1>1, InitIntegrity, StepIntegrity, PTL DEF Spec, ClaimedBytesStay, BytesStay

----------------------------------------------------------------------------
(* What a report claims is held                                            *)

\* The receiver b still holds the bytes C of session n of engine a, or has settled it.
Held(b, a, n, C) ==
  \/ \E s \in OpenImports(b, a, n) : C \subseteq Claims(imports[b][s])
  \/ SettledAt(b, a, n)

HeldKept ==
  \A b, a \in Engines, n \in Nat, C \in SUBSET Offsets : Held(b, a, n, C) => Held(b, a, n, C)'

\* ClaimsAreHeld, over the segments on their way.
ReportsHeld ==
  \A e \in Engines : \A r \in InFlight(e) :
    r.type = Report => Held(r.from, e, r.number, r.claims)

LEMMA UnchangedHeld ==
  ASSUME UNCHANGED <<imports, delivered, gaveUp>>
  PROVE  HeldKept
  BY DEF HeldKept, Held, OpenImports, SettledAt, DeliveredAt

LEMMA AbandonedHeld ==
  ASSUME Tables, NEW e \in Engines, NEW S \in SUBSET ImportSlots, AbandonImport(e, S),
         UNCHANGED delivered
  PROVE  HeldKept
<1>1. ASSUME NEW b \in Engines, NEW a \in Engines, NEW n \in Nat, NEW C \in SUBSET Offsets,
             Held(b, a, n, C)
      PROVE  Held(b, a, n, C)'
  <2>1. CASE SettledAt(b, a, n)
    BY <2>1 DEF Held, SettledAt, DeliveredAt, AbandonImport
  <2>2. ASSUME NEW s \in OpenImports(b, a, n), C \subseteq Claims(imports[b][s])
        PROVE  Held(b, a, n, C)'
    <3>1. s \in ImportSlots /\ imports[b][s].engine = a /\ imports[b][s].number = n
      BY DEF OpenImports
    <3>2. CASE b = e /\ First(S, s)
      <4>1. s \in {t \in S : First(S, t)}
        BY <3>2 DEF First
      <4>2. [at |-> b, from |-> a, number |-> n] \in gaveUp'
        BY <3>1, <3>2, <4>1 DEF AbandonImport
      <4>3. QED
        BY <4>2 DEF Held, SettledAt
    <3>3. CASE ~ (b = e /\ First(S, s))
      <4>1. imports'[b][s] = imports[b][s]
        BY <3>1, <3>3, AbandonedSlots
      <4>2. QED
        BY <2>2, <4>1 DEF Held, OpenImports, Claims
    <3>4. QED
      BY <3>2, <3>3
  <2>3. QED
    BY <1>1, <2>1, <2>2 DEF Held
<1>2. QED
  BY <1>1 DEF HeldKept

\* Deliveries are kept, and a session that is complete is delivered.
LEMMA AbsorbedSettles ==
  ASSUME TypeInv, NEW e \in Engines, NEW m, NEW s \in ImportSlots, NEW x,
         AbsorbedInto(e, m, s, x)
  PROVE  /\ SettledKept
         /\ Complete(x) => SettledAt(e, m.from, m.number)'
<1> DEFINE d == [at |-> e, from |-> x.engine, number |-> x.number,
                 data |-> [o \in 0 .. (x.blockLen - 1) |-> x.got[o]]]
<1>1. delivered' = IF Complete(x) THEN Append(delivered, d) ELSE delivered
  BY DEF AbsorbedInto, StoreOrDeliver
<1>2. d.at = e /\ d.from = m.from /\ d.number = m.number
  BY DEF AbsorbedInto
<1> HIDE DEF d
<1>3. Range(delivered') = Range(delivered) \cup (IF Complete(x) THEN {d} ELSE {})
  <2>1. delivered \in Seq(Deliveries)
    BY DEF TypeInv, TypeOK
  <2>2. CASE Complete(x)
    BY <1>1, <2>1, <2>2, AppendRange
  <2>3. CASE ~ Complete(x)
    BY <1>1, <2>3
  <2>4. QED
    BY <2>2, <2>3
<1>4. gaveUp' = gaveUp
  BY DEF AbsorbedInto
<1>5. SettledKept
  BY <1>3, <1>4 DEF SettledKept, SettledAt, DeliveredAt
<1>6. ASSUME Complete(x)
      PROVE  SettledAt(e, m.from, m.number)'
  BY <1>2, <1>3, <1>6 DEF SettledAt, DeliveredAt
<1>7. QED
  BY <1>5, <1>6

LEMMA AbsorbedHeld ==
  ASSUME TypeInv, NEW e \in Engines, NEW m, NEW s \in ImportSlots, NEW x,
         AbsorbedInto(e, m, s, x)
  PROVE  /\ HeldKept
         /\ Held(e, m.from, m.number, Claims(x))'
<1>0. /\ m \in DataSegments /\ x.active = 1 /\ x.engine = m.from /\ x.number = m.number
      /\ imports[e][s].active = 1 =>
           /\ imports[e][s].engine = m.from /\ imports[e][s].number = m.number
           /\ \A o \in Offsets : x.got[o] \in {imports[e][s].got[o], Byte(m.block, o)}
  BY DEF AbsorbedInto
<1>1. Tables
  BY TypeInvTables
<1>2. SettledKept /\ (Complete(x) => SettledAt(e, m.from, m.number)')
  BY AbsorbedSettles
<1>3. Held(e, m.from, m.number, Claims(x))'
  <2>1. CASE Complete(x)
    BY <1>2, <2>1 DEF Held
  <2>2. CASE ~ Complete(x)
    <3>1. imports'[e][s] = x
      BY <1>1, <2>2, AbsorbedSlots
    <3>2. s \in OpenImports(e, m.from, m.number)'
      BY <1>0, <3>1 DEF OpenImports
    <3>3. QED
      BY <3>1, <3>2 DEF Held
  <2>3. QED
    BY <2>1, <2>2
<1>4. ASSUME NEW b \in Engines, NEW a \in Engines, NEW n \in Nat, NEW C \in SUBSET Offsets,
             NEW t \in OpenImports(b, a, n), C \subseteq Claims(imports[b][t])
      PROVE  Held(b, a, n, C)'
  <2>1. t \in ImportSlots /\ imports[b][t].active = 1
        /\ imports[b][t].engine = a /\ imports[b][t].number = n
    BY <1>4 DEF OpenImports
  <2>2. CASE b = e /\ t = s
    <3>1. a = m.from /\ n = m.number
      BY <1>0, <2>1, <2>2
    <3>2. C \subseteq Claims(x)
      <4>1. ASSUME NEW o \in C
            PROVE  o \in Offsets /\ x.got[o] # Gap
        <5>1. o \in Offsets /\ imports[e][s].got[o] # Gap
          BY <1>4, <2>2 DEF Claims
        <5>2. Byte(m.block, o) # Gap
          BY <1>0, ByteIsClaimed DEF DataSegments
        <5>3. QED
          BY <1>0, <2>1, <2>2, <5>1, <5>2
      <4>2. QED
        BY <4>1 DEF Claims
    <3>3. QED
      BY <1>3, <2>2, <3>1, <3>2 DEF Held
  <2>3. CASE ~ (b = e /\ t = s)
    <3>1. imports'[b][t] = imports[b][t]
      BY <1>1, <2>1, <2>3, AbsorbedSlots
    <3>2. QED
      BY <1>4, <3>1 DEF Held, OpenImports, Claims
  <2>4. QED
    BY <2>2, <2>3
<1>5. HeldKept
  BY <1>2, <1>4 DEF HeldKept, Held, SettledKept
<1>6. QED
  BY <1>3, <1>5

LEMMA StepHeld ==
  ASSUME Integrity, NEW e \in Engines, Step(e)
  PROVE  HeldKept
<1>1. TypeInv /\ Tables
  BY TypeInvTables DEF Integrity
<1>2. QED
  BY <1>1, StepOfImports, UnchangedHeld, AbandonedHeld, AbsorbedHeld

\* Every report on its way was on its way before.
NoNewReports ==
  \A b \in Engines : \A r \in InFlight(b)' : r.type = Report => r \in InFlight(b)

\* e writes the segments of `out', having read one or none.
Writes(e, out) ==
  \/ Transmit(e, out)
  \/ inbox[e] # << >> /\ Exchange(e, out)

LEMMA WritesOnly ==
  ASSUME NEW e, NEW out, Transmit(e, out)
  PROVE  Writes(e, out)
  BY DEF Writes

LEMMA WritesLemma ==
  ASSUME TypeInv, NEW e \in Engines, NEW out \in Seq(Segments), Writes(e, out)
  PROVE  \A b \in Engines : InFlight(b)' \subseteq
           InFlight(b) \cup (IF b \in Hears[e] THEN Range(out) ELSE {})
  BY TypeInvTables, TransmitLemma, ExchangeLemma DEF Writes

LEMMA PlainWritten ==
  ASSUME TypeInv, NEW e \in Engines, NEW out \in Seq(Segments), Writes(e, out),
         \A m \in Range(out) : m.type # Report
  PROVE  NoNewReports
<1>1. ASSUME NEW b \in Engines, NEW r \in InFlight(b)', r.type = Report
      PROVE  r \in InFlight(b)
  BY <1>1, WritesLemma
<1>2. QED
  BY <1>1 DEF NoNewReports

LEMMA OneWritten ==
  ASSUME TypeInv, NEW e \in Engines, NEW m \in Segments, Writes(e, <<m>>), m.type # Report
  PROVE  NoNewReports
  BY SingleSegment, PlainWritten

LEMMA CancelWritten ==
  ASSUME TypeInv, NEW e \in Engines, NEW n \in Nat, NEW type \in CancelTypes,
         Writes(e, <<Cancel(type, e, n)>>)
  PROVE  NoNewReports
<1>1. Cancel(type, e, n) \in Segments /\ Cancel(type, e, n).type # Report
  BY CancelPlain
<1>2. QED
  BY <1>1, OneWritten

LEMMA NothingReported ==
  ASSUME TypeInv, NEW e \in Engines, Writes(e, << >>)
  PROVE  NoNewReports
  BY NothingWritten, PlainWritten

LEMMA DataUnreported ==
  ASSUME NEW m \in DataSegments
  PROVE  m \in Segments /\ m.type # Report
  BY TypeNumbers DEF DataSegments, Segments

LEMMA SendUnreported ==
  ASSUME TypeInv, NEW e \in Engines, NEW b \in Blocks,
         SendBlock(e, b) \/ SendBlockFails(e, b)
  PROVE  NoNewReports
<1>1. \E s \in ExportSlots, count \in 1 .. MaxBlock :
        /\ SegmentCount(BlockLen[b], count)
        /\ \/ Transmit(e, BlockSegments(e, next[e], b, count))
           \/ \E k \in 0 .. (count - 1) :
                Transmit(e, SubSeq(BlockSegments(e, next[e], b, count), 1, k))
  BY DEF SendBlock, SendBlockFails
<1>2. PICK count \in 1 .. MaxBlock :
        /\ SegmentCount(BlockLen[b], count)
        /\ \/ Transmit(e, BlockSegments(e, next[e], b, count))
           \/ \E k \in 0 .. (count - 1) :
                Transmit(e, SubSeq(BlockSegments(e, next[e], b, count), 1, k))
  BY <1>1
<1> DEFINE out == BlockSegments(e, next[e], b, count)
<1>3. next[e] \in Nat
  BY DEF TypeInv, TypeOK
<1>4. /\ out \in Seq(Segments) /\ out \in Seq(DataSegments)
      /\ Len(out) = count
  <2>1. out \in Seq(DataSegments)
    BY <1>2, <1>3, BlockSegmentsType
  <2>2. DOMAIN out = 1 .. count /\ count \in Nat
    BY ConstantsAssumption DEF BlockSegments
  <2> HIDE DEF out
  <2>3. QED
    BY <2>1, <2>2, DataIsSegments
<1> HIDE DEF out
<1>5. \A m \in Range(out) : m.type # Report
  BY <1>4, DataUnreported DEF Range
<1>6. CASE Transmit(e, out)
  BY <1>4, <1>5, <1>6, PlainWritten, WritesOnly
<1>7. ASSUME NEW k \in 0 .. (count - 1), Transmit(e, SubSeq(out, 1, k))
      PROVE  NoNewReports
  <2>1. k \in 0 .. Len(out)
    BY <1>4, ConstantsAssumption
  <2>2. /\ SubSeq(out, 1, k) \in Seq(Segments)
        /\ Range(SubSeq(out, 1, k)) \subseteq Range(out)
    BY <1>4, <2>1, FirstSegments
  <2>3. QED
    BY <1>5, <1>7, <2>2, PlainWritten, WritesOnly
<1>8. QED
  BY <1>2, <1>6, <1>7 DEF out

LEMMA ReportUnreported ==
  ASSUME TypeInv, NEW e \in Engines, ReceiveReportFull(e) \/ ReceiveReportPartial(e)
  PROVE  NoNewReports
<1>1. inbox[e] # << >> /\ Head(inbox[e]) \in ReportSegments
  BY HeadType, KindOfSegment DEF ReceiveReportFull, ReceiveReportPartial, Incoming
<1>2. PICK r \in ReportSegments : r = Head(inbox[e])
  BY <1>1
<1>3. AckOf(e, r) \in Segments /\ AckOf(e, r).type # Report
  BY AckType, TypeNumbers
<1>4. CASE ReceiveReportFull(e)
  <2>1. Writes(e, <<AckOf(e, r)>>)
    BY <1>1, <1>2, <1>4 DEF ReceiveReportFull, Writes
  <2>2. QED
    BY <1>3, <2>1, OneWritten
<1>5. CASE ReceiveReportPartial(e)
  <2>1. PICK s \in ExportSlots, len \in 0 .. MaxBlock :
          /\ First(OpenExports(e, r.number), s)
          /\ \E q \in [1 .. len -> Pieces(Missing(r, BlockLen[exports[e][s].block]))] :
               Exchange(e, <<AckOf(e, r)>> \o Retransmission(e, exports[e][s], q))
    BY <1>2, <1>5, ZenonT(60) DEF ReceiveReportPartial
  <2> DEFINE sess == exports[e][s]
             M == Missing(r, BlockLen[sess.block])
  <2>2. PICK q \in [1 .. len -> Pieces(M)] :
          Exchange(e, <<AckOf(e, r)>> \o Retransmission(e, sess, q))
    BY <2>1
  <2>3. sess \in ExportSessions /\ sess.active = 1
    BY <2>1 DEF TypeInv, TypeOK, First, OpenExports
  <2>4. sess.block \in Blocks
    BY <2>3 DEF TypeInv, OpenExportsUsable, Usable
  <2>5. len \in Nat /\ M \in SUBSET Offsets
    BY ConstantsAssumption, MissingInBlock
  <2> HIDE DEF sess, M
  <2> DEFINE again == Retransmission(e, sess, q)
             ack == <<AckOf(e, r)>>
  <2>6. again \in Seq(DataSegments) /\ again \in Seq(Segments)
    BY <2>3, <2>4, <2>5, RetransmissionType, DataIsSegments
  <2>7. ack \in Seq(Segments) /\ Range(ack) = {AckOf(e, r)}
    BY <1>3, SingleSegment
  <2>8. Exchange(e, ack \o again)
    BY <2>2
  <2> HIDE DEF again, ack
  <2>9. ack \o again \in Seq(Segments) /\ Range(ack \o again) = {AckOf(e, r)} \cup Range(again)
    BY <2>6, <2>7, ConcatOfSeq
  <2>10. \A m \in Range(ack \o again) : m.type # Report
    <3>1. \A m \in Range(again) : m \in DataSegments
      BY <2>6 DEF Range
    <3>2. QED
      BY <1>3, <2>9, <3>1, DataUnreported
  <2>11. Writes(e, ack \o again)
    BY <1>1, <2>8 DEF Writes
  <2>12. QED
    BY <2>9, <2>10, <2>11, PlainWritten
<1>6. QED
  BY <1>4, <1>5

LEMMA CancelUnreported ==
  ASSUME TypeInv, NEW e \in Engines,
         \/ ReceiveCancelBySender(e) \/ ReceiveCancelAckSender(e)
         \/ ReceiveCancelByRecvr(e) \/ ReceiveCancelAckRecvr(e)
  PROVE  NoNewReports
<1>1. inbox[e] # << >> /\ Head(inbox[e]) \in Segments
  BY HeadType DEF ReceiveCancelBySender, ReceiveCancelAckSender, ReceiveCancelByRecvr,
     ReceiveCancelAckRecvr, Incoming
<1>2. Head(inbox[e]).number \in Nat
  BY <1>1, KindOfSegment
<1>3. CancelAckSender \in CancelTypes /\ CancelAckRecvr \in CancelTypes
  BY DEF CancelTypes
<1>4. \/ Writes(e, << >>)
      \/ \E type \in {CancelAckSender, CancelAckRecvr} :
           Writes(e, <<Cancel(type, e, Head(inbox[e]).number)>>)
  BY <1>1 DEF ReceiveCancelBySender, ReceiveCancelAckSender, ReceiveCancelByRecvr,
     ReceiveCancelAckRecvr, Writes
<1>5. QED
  BY <1>2, <1>3, <1>4, NothingReported, CancelWritten

LEMMA ApplicationUnreported ==
  ASSUME TypeInv, NEW e \in Engines, Application(e)
  PROVE  NoNewReports
<1>1. CancelBySender \in CancelTypes /\ CancelByRecvr \in CancelTypes
  BY DEF CancelTypes
<1>2. ASSUME NEW x \in Engines, NEW n \in 1 .. MaxSessions[x],
             CancelSession(e, n) \/ CancelImport(e, x, n)
      PROVE  NoNewReports
  <2>1. n \in Nat
    BY ConstantsAssumption
  <2>2. \E type \in {CancelBySender, CancelByRecvr} : Writes(e, <<Cancel(type, e, n)>>)
    BY <1>2, WritesOnly DEF CancelSession, CancelImport
  <2>3. QED
    BY <1>1, <2>1, <2>2, CancelWritten
<1>3. QED
  BY <1>2, SendUnreported DEF Application

LEMMA TimeoutUnreported ==
  ASSUME TypeInv, NEW e \in Engines, NEW i \in TimerSlots, Timeout(e, i),
         ~ ReportTimeout(e, i)
  PROVE  NoNewReports
<1>1. CASE CheckpointTimeout(e, i)
  <2>1. PICK s \in ExportSlots :
          /\ First(OpenExports(e, timers[e][i].number), s)
          /\ Transmit(e, <<TailCheckpoint(e, exports[e][s])>>)
    BY <1>1 DEF CheckpointTimeout
  <2>2. exports[e][s] \in ExportSessions /\ exports[e][s].active = 1
    BY <2>1 DEF TypeInv, TypeOK, First, OpenExports
  <2>3. exports[e][s].block \in Blocks
    BY <2>2 DEF TypeInv, OpenExportsUsable, Usable
  <2>4. TailCheckpoint(e, exports[e][s]) \in DataSegments
    BY <2>2, <2>3, TailCheckpointType
  <2>5. QED
    BY <2>1, <2>4, DataUnreported, OneWritten, WritesOnly
<1>2. CASE CancelTimeout(e, i)
  <2>1. timers[e][i].number \in Nat /\ CancelBySender \in CancelTypes
    BY DEF TypeInv, TypeOK, Timers, CancelTypes
  <2>2. QED
    BY <1>2, <2>1, CancelWritten, WritesOnly DEF CancelTimeout
<1>3. CASE \/ OrphanTimeout(e, i) \/ CheckpointExhausted(e, i)
           \/ ReportExhausted(e, i) \/ CancelExhausted(e, i)
  BY <1>3 DEF OrphanTimeout, CheckpointExhausted, ReportExhausted, CancelExhausted,
     NoNewReports, InFlight
<1>4. QED
  BY <1>1, <1>2, <1>3 DEF Timeout

LEMMA LossUnreported ==
  ASSUME TypeInv, NEW e \in Engines, Lose(e)
  PROVE  NoNewReports
<1>1. inbox[e] # << >> /\ inbox' = [inbox EXCEPT ![e] = Tail(@)]
  BY DEF Lose
<1>2. ASSUME NEW b \in Engines
      PROVE  InFlight(b)' \subseteq InFlight(b)
  BY <1>1, TailOfSeq DEF InFlight, TypeInv, TypeOK
<1>3. QED
  BY <1>2 DEF NoNewReports

\* Only a checkpoint received and a report timer write reports.
LEMMA StepUnreported ==
  ASSUME Integrity, NEW e \in Engines, Step(e), ~ ReceiveCheckpoint(e),
         \A i \in TimerSlots : ~ ReportTimeout(e, i)
  PROVE  NoNewReports
<1>1. TypeInv
  BY DEF Integrity
<1>2. CASE \/ ReceiveDataNoSlot(e) \/ ReceiveReportUnknown(e) \/ ReceiveReportAck(e)
           \/ ReceiveRedData(e)
  <2>1. Writes(e, << >>)
    BY <1>2, RedDataAbsorbed DEF ReceiveDataNoSlot, ReceiveReportUnknown, ReceiveReportAck,
       Incoming, Writes
  <2>2. QED
    BY <1>1, <2>1, NothingReported
<1>3. CASE Return(e)
  BY <1>3 DEF Return, NoNewReports, InFlight
<1>4. CASE Receive(e)
  BY <1>1, <1>2, <1>4, ReportUnreported, CancelUnreported DEF Receive
<1>5. QED
  BY <1>1, <1>3, <1>4, ApplicationUnreported, TimeoutUnreported, LossUnreported DEF Step

\* Reports that were on their way stay true, and those just written are.
LEMMA ReportsKept ==
  ASSUME TypeInv, ReportsHeld, HeldKept,
         \A b \in Engines : \A r \in InFlight(b)' :
           r.type = Report => r \in InFlight(b) \/ Held(r.from, b, r.number, r.claims)'
  PROVE  ReportsHeld'
<1>1. ASSUME NEW b \in Engines, NEW r \in InFlight(b)', r.type = Report
      PROVE  Held(r.from, b, r.number, r.claims)'
  <2>1. CASE r \in InFlight(b)
    <3>1. r \in Segments
      BY <2>1 DEF TypeInv, TypeOK, InFlight, Range
    <3>2. r.from \in Engines /\ r.number \in Nat /\ r.claims \in SUBSET Offsets
      BY <1>1, <3>1, KindOfSegment DEF ReportSegments
    <3>3. Held(r.from, b, r.number, r.claims)
      BY <1>1, <2>1 DEF ReportsHeld
    <3>4. QED
      BY <3>2, <3>3 DEF HeldKept
  <2>2. CASE r \notin InFlight(b)
    BY <1>1, <2>2
  <2>3. QED
    BY <2>1, <2>2
<1>2. QED
  BY <1>1 DEF ReportsHeld

LEMMA ReportWritten ==
  ASSUME PointToPoint, TypeInv, ReportsHeld, HeldKept, NEW e \in Engines, NEW r \in Segments,
         Writes(e, <<r>>), r.from = e, NEW a \in Engines, e \in Hears[a],
         Held(e, a, r.number, r.claims)'
  PROVE  ReportsHeld'
<1>1. <<r>> \in Seq(Segments) /\ Range(<<r>>) = {r}
  BY SingleSegment
<1>2. \A b \in Engines : InFlight(b)' \subseteq
        InFlight(b) \cup (IF b \in Hears[e] THEN Range(<<r>>) ELSE {})
  BY <1>1, WritesLemma
<1>3. \A b \in Engines : b \in Hears[e] => b = a
  BY DEF PointToPoint
<1>4. ASSUME NEW b \in Engines, NEW q \in InFlight(b)', q.type = Report
      PROVE  q \in InFlight(b) \/ Held(q.from, b, q.number, q.claims)'
  BY <1>1, <1>2, <1>3, <1>4
<1>5. QED
  BY <1>4, ReportsKept

LEMMA CheckpointReport ==
  ASSUME PointToPoint, Sound, ReportsHeld, HeldKept, NEW e \in Engines, ReceiveCheckpoint(e)
  PROVE  ReportsHeld'
<1>1. Integrity /\ TypeInv /\ LinkWarranted
  BY SoundParts
<1>2. PICK m, x : \E s \in ImportSlots, rpt, cp, upper \in Nat :
        /\ AbsorbedInto(e, m, s, x)
        /\ inbox[e] # << >> /\ Exchange(e, <<ReportOn(e, x, rpt, cp, upper)>>)
  BY <1>1, CheckpointAbsorbed
<1>3. PICK s \in ImportSlots, rpt \in Nat, cp \in Nat, upper \in Nat :
        /\ AbsorbedInto(e, m, s, x)
        /\ inbox[e] # << >> /\ Exchange(e, <<ReportOn(e, x, rpt, cp, upper)>>)
  BY <1>2
<1>4. /\ m \in DataSegments /\ m \in InFlight(e)
      /\ x \in ImportSessions /\ x.engine = m.from /\ x.number = m.number
  BY <1>3 DEF AbsorbedInto
<1>5. m.from \in Engines /\ e \in Hears[m.from]
  BY <1>1, <1>4 DEF LinkWarranted, Warranted, DataSegments
<1>6. Held(e, m.from, m.number, Claims(x))'
  BY <1>1, <1>3, AbsorbedHeld
<1>7. PICK r \in Segments : r = ReportOn(e, x, rpt, cp, upper)
  BY <1>4, ReportOnType
<1>8. r.from = e /\ r.number = m.number /\ r.claims = Claims(x)
  BY <1>4, <1>7 DEF ReportOn
<1>9. Writes(e, <<r>>)
  BY <1>3, <1>7 DEF Writes
<1>10. Held(e, m.from, r.number, r.claims)'
  BY <1>6, <1>8
<1>11. QED
  BY <1>1, <1>5, <1>8, <1>9, <1>10, ReportWritten

\* A timer repeats the report of an open session; its claims are read as it is written.
LEMMA TimerReport ==
  ASSUME PointToPoint, Sound, ReportsHeld, HeldKept, NEW e \in Engines,
         NEW i \in TimerSlots, ReportTimeout(e, i)
  PROVE  ReportsHeld'
<1>1. Integrity /\ TypeInv /\ ImportsOpen /\ ImportsAgree
  BY SoundParts DEF Integrity
<1>2. timers[e][i] \in Timers
  BY <1>1 DEF TypeInv, TypeOK
<1>3. PICK n \in Nat, rpt \in Nat : n = timers[e][i].number /\ rpt = timers[e][i].serial
  BY <1>2 DEF Timers
<1>4. PICK s \in ImportSlots :
        /\ First(ImportsNumbered(e, n), s)
        /\ Transmit(e, <<ReportOn(e, imports[e][s], rpt, 0, imports[e][s].blockLen)>>)
  BY <1>3 DEF ReportTimeout
<1>5. UNCHANGED <<imports, history>>
  BY DEF ReportTimeout
<1>6. PICK x \in ImportSessions : x = imports[e][s]
  BY <1>1 DEF TypeInv, TypeOK
<1>7. x.active = 1 /\ x.number = n
  BY <1>4, <1>6 DEF First, ImportsNumbered
<1>8. e \in Hears[x.engine] /\ Agrees(x, sent)
  BY <1>1, <1>6, <1>7 DEF ImportsOpen, ImportsAgree
<1>9. x.engine \in Engines
  BY <1>1, <1>8 DEF Agrees, TypeInv, TypeOK
<1>10. x.blockLen \in Nat
  BY DEF ImportSessions
<1>11. PICK r \in Segments : r = ReportOn(e, x, rpt, 0, x.blockLen)
  BY <1>10, ReportOnType
<1>12. r.from = e /\ r.number = n /\ r.claims = Claims(x)
  BY <1>7, <1>11 DEF ReportOn
<1>13. Held(e, x.engine, n, Claims(x))'
  <2>1. s \in OpenImports(e, x.engine, n)
    BY <1>6, <1>7 DEF OpenImports
  <2>2. QED
    BY <1>5, <1>6, <2>1 DEF Held, OpenImports
<1>14. Writes(e, <<r>>)
  BY <1>4, <1>6, <1>11, WritesOnly
<1>15. Held(e, x.engine, r.number, r.claims)'
  BY <1>12, <1>13
<1>16. QED
  BY <1>1, <1>8, <1>9, <1>12, <1>14, <1>15, ReportWritten

Truthful == Sound /\ ReportsHeld

LEMMA InitTruthful == Init => Truthful
<1>1. Init => ReportsHeld
  BY NothingWritten DEF Init, ReportsHeld, InFlight
<1>2. QED
  BY <1>1, InitSound DEF Truthful

LEMMA StepTruthful ==
  ASSUME PointToPoint
  PROVE  Truthful /\ [Next]_vars => Truthful'
<1> SUFFICES ASSUME Truthful, [Next]_vars PROVE Truthful'
  OBVIOUS
<1>1. Sound /\ ReportsHeld /\ Integrity /\ TypeInv
  BY SoundParts DEF Truthful
<1>2. Sound'
  BY <1>1, StepSound
<1>3. ASSUME NEW e \in Engines, Step(e)
      PROVE  ReportsHeld'
  <2>1. HeldKept
    BY <1>1, <1>3, StepHeld
  <2>2. CASE ReceiveCheckpoint(e)
    BY <1>1, <2>1, <2>2, CheckpointReport
  <2>3. ASSUME NEW i \in TimerSlots, ReportTimeout(e, i)
        PROVE  ReportsHeld'
    BY <1>1, <2>1, <2>3, TimerReport
  <2>4. CASE ~ ReceiveCheckpoint(e) /\ \A i \in TimerSlots : ~ ReportTimeout(e, i)
    <3>1. NoNewReports
      BY <1>1, <1>3, <2>4, StepUnreported
    <3>2. QED
      BY <1>1, <2>1, <3>1, ReportsKept DEF NoNewReports
  <2>5. QED
    BY <2>2, <2>3, <2>4
<1>4. CASE UNCHANGED vars
  <2>1. UNCHANGED <<imports, delivered, gaveUp, inbox>>
    BY <1>4 DEF vars, tables, history
  <2>2. NoNewReports /\ HeldKept
    BY <2>1, UnchangedHeld DEF NoNewReports, InFlight
  <2>3. QED
    BY <1>1, <1>2, <2>2, ReportsKept DEF NoNewReports, Truthful
<1>5. QED
  BY <1>2, <1>3, <1>4 DEF Truthful, Next

LEMMA HeldClaims == ReportsHeld => ClaimsAreHeld
  BY DEF ReportsHeld, ClaimsAreHeld, Held, InFlight, Range

\* On point-to-point links: what a report claims, its writer still holds when it
\* arrives, however late, unless it has delivered the block or given it up.  The sender
\* never drops bytes from its retransmissions that the receiver has lost.
THEOREM ReportsAreTrue ==
  ASSUME PointToPoint
  PROVE  Spec => []ClaimsAreHeld
<1>1. Truthful => ClaimsAreHeld
  BY HeldClaims DEF Truthful
<1>2. Truthful /\ [Next]_vars => Truthful'
  BY StepTruthful
<1>3. QED
  BY <1>1, <1>2, InitTruthful, PTL DEF Spec

----------------------------------------------------------------------------
(* The engines implement block transfer                                    *)

\* While no session has been given up, settled means delivered.
LEMMA NothingGivenUp ==
  ASSUME SuccessMeansSettled, gaveUp = {}
  PROVE  SuccessMeansDelivered
  BY DEF SuccessMeansSettled, SuccessMeansDelivered, SettledAt

\* On point-to-point links, and as long as no receiver has run out of retries or been
\* told to cancel: success means that the block was delivered.
THEOREM SuccessDelivered ==
  ASSUME PointToPoint
  PROVE  Spec => [](gaveUp = {} => SuccessMeansDelivered)
<1>1. Sound => (gaveUp = {} => SuccessMeansDelivered)
  BY NothingGivenUp DEF Sound
<1>2. Sound /\ [Next]_vars => Sound'
  BY StepSound
<1>3. QED
  BY <1>1, <1>2, InitSound, PTL DEF Spec

\* A run waits for a session that was submitted and has no verdict yet; a verdict is on
\* a number that was given out.
Verdicts ==
  /\ \A c \in outcome : c.number # 0 /\ c.number < next[c.engine] /\ c.number # waiting[c.engine]
  /\ \A e \in Engines : waiting[e] # 0 =>
       \E r \in sent : r.engine = e /\ r.number = waiting[e]

LEMMA InitVerdicts == Init => Verdicts
  BY DEF Init, Verdicts

\* Nothing an application sees changes.
LEMMA VerdictsSame ==
  ASSUME Verdicts, UNCHANGED <<next, waiting, sent, outcome>>
  PROVE  Verdicts'
  BY DEF Verdicts

LEMMA SendVerdicts ==
  ASSUME Integrity, Verdicts, NEW e \in Engines, NEW b \in Blocks,
         SendBlock(e, b) \/ SendBlockFails(e, b)
  PROVE  Verdicts'
<1>1. /\ next \in [Engines -> Nat \ {0}] /\ waiting \in [Engines -> Nat]
      /\ outcome \subseteq [engine : Engines, number : Nat, ok : {0, 1}]
  BY DEF Integrity, TypeInv, TypeOK
<1>2. /\ waiting[e] = 0 /\ next' = [next EXCEPT ![e] = @ + 1]
      /\ sent' = sent \cup {Submission(e, next[e], b)}
  BY DEF SendBlock, SendBlockFails, OpenExport, Submission
<1>3. /\ waiting' = waiting \/ waiting' = [waiting EXCEPT ![e] = next[e]]
      /\ outcome' = outcome
  BY DEF SendBlock, SendBlockFails
<1>4. ASSUME NEW c \in outcome
      PROVE  /\ c.number # 0 /\ c.number < next'[c.engine]
             /\ c.number # waiting'[c.engine]
  <2>1. c.engine \in Engines /\ c.number \in Nat
    BY <1>1
  <2>2. /\ c.number # 0 /\ c.number < next[c.engine]
        /\ c.number # waiting[c.engine]
    BY DEF Verdicts
  <2>3. next[c.engine] \in Nat /\ next'[c.engine] \in {next[c.engine], next[c.engine] + 1}
    BY <1>1, <1>2, <2>1
  <2>4. waiting'[c.engine] \in {waiting[c.engine], next[c.engine]}
    BY <1>1, <1>3, <2>1
  <2>5. QED
    BY <2>1, <2>2, <2>3, <2>4
<1>5. ASSUME NEW x \in Engines, waiting'[x] # 0
      PROVE  \E r \in sent' : r.engine = x /\ r.number = waiting'[x]
  <2>1. CASE waiting'[x] = waiting[x]
    BY <1>2, <1>5, <2>1 DEF Verdicts
  <2>2. CASE x = e /\ waiting'[x] = next[e]
    <3>1. /\ Submission(e, next[e], b) \in sent'
          /\ Submission(e, next[e], b).engine = e /\ Submission(e, next[e], b).number = next[e]
      BY <1>2 DEF Submission
    <3>2. QED
      BY <2>2, <3>1
  <2>3. QED
    BY <1>1, <1>3, <2>1, <2>2
<1>6. QED
  BY <1>3, <1>4, <1>5 DEF Verdicts

LEMMA ReturnVerdicts ==
  ASSUME Integrity, Verdicts, NEW e \in Engines, Return(e)
  PROVE  Verdicts'
<1>1. /\ next \in [Engines -> Nat \ {0}] /\ waiting \in [Engines -> Nat]
      /\ outcome \subseteq [engine : Engines, number : Nat, ok : {0, 1}]
      /\ \A r \in sent : r.number < next[r.engine]
  BY DEF Integrity, TypeInv, TypeOK, SentOnce
<1>2. /\ waiting[e] # 0 /\ waiting' = [waiting EXCEPT ![e] = 0]
      /\ UNCHANGED <<next, sent>>
  BY DEF Return
<1>3. PICK c0 : c0.engine = e /\ c0.number = waiting[e] /\ outcome' = outcome \cup {c0}
  BY DEF Return
<1>4. PICK r \in sent : r.engine = e /\ r.number = waiting[e]
  BY <1>2 DEF Verdicts
<1>5. waiting[e] < next[e]
  BY <1>1, <1>4
<1>6. ASSUME NEW c \in outcome
      PROVE  /\ c.number # 0 /\ c.number < next[c.engine]
             /\ c.number # waiting'[c.engine]
  <2>1. /\ c.engine \in Engines /\ c.number # 0 /\ c.number < next[c.engine]
        /\ c.number # waiting[c.engine]
    BY <1>1 DEF Verdicts
  <2>2. CASE c.engine # e
    BY <1>1, <1>2, <2>1, <2>2
  <2>3. CASE c.engine = e
    BY <1>1, <1>2, <2>1, <2>3
  <2>4. QED
    BY <2>2, <2>3
<1>7. /\ c0.number # 0 /\ c0.number < next[c0.engine]
      /\ c0.number # waiting'[c0.engine]
  BY <1>1, <1>2, <1>3, <1>5
<1>8. ASSUME NEW x \in Engines, waiting'[x] # 0
      PROVE  \E q \in sent' : q.engine = x /\ q.number = waiting'[x]
  <2>1. waiting'[x] = waiting[x]
    BY <1>1, <1>2, <1>8
  <2>2. QED
    BY <1>2, <1>8, <2>1 DEF Verdicts
<1>9. QED
  BY <1>2, <1>3, <1>6, <1>7, <1>8 DEF Verdicts

\* A block is submitted under a number that its engine has not used.
LEMMA SendTransfers ==
  ASSUME Integrity, NEW e \in Engines, NEW b \in Blocks,
         SendBlock(e, b) \/ SendBlockFails(e, b)
  PROVE  Transfer!AbstractNext
<1> DEFINE n == next[e]
<1>1. /\ n <= MaxSessions[e]
      /\ sent' = sent \cup {[engine |-> e, number |-> n, block |-> b]}
      /\ UNCHANGED <<delivered, gaveUp, outcome>>
  BY DEF SendBlock, SendBlockFails, OpenExport
<1>2. n \in Nat \ {0} /\ MaxSessions[e] \in Nat
  BY ConstantsAssumption DEF Integrity, TypeInv, TypeOK
<1>3. n \in UNION {1 .. MaxSessions[a] : a \in Engines}
  BY <1>1, <1>2
<1>4. ASSUME NEW r \in sent, r.engine = e
      PROVE  r.number # n
  <2>1. r.number < n /\ r.number \in Nat
    BY <1>4 DEF Integrity, SentOnce, TypeInv, TypeOK
  <2>2. QED
    BY <1>2, <2>1
<1> HIDE DEF n
<1>5. Transfer!SubmitAs(e, n, b)
  BY <1>1, <1>4 DEF Transfer!SubmitAs
<1>6. QED
  BY <1>3, <1>5 DEF Transfer!AbstractNext

\* A complete session is delivered as the block submitted under its number, at an
\* engine that hears the submitter.
LEMMA AbsorbTransfers ==
  ASSUME Integrity, LinkWarranted, NEW e \in Engines, NEW m, NEW s \in ImportSlots, NEW x,
         AbsorbedInto(e, m, s, x)
  PROVE  Transfer!AbstractNext \/ UNCHANGED <<sent, delivered, gaveUp, outcome>>
<1>1. /\ m \in DataSegments /\ m \in InFlight(e) /\ x \in ImportSessions
      /\ x.engine = m.from /\ x.number = m.number
      /\ Agrees(x, sent) /\ StoreOrDeliver(e, s, x)
      /\ UNCHANGED <<sent, gaveUp, outcome>>
  BY DEF AbsorbedInto
<1>2. e \in Hears[m.from]
  BY <1>1 DEF LinkWarranted, Warranted
<1>3. PICK r \in sent :
        /\ r.engine = x.engine /\ r.number = x.number
        /\ x.blockLen \in {0, BlockLen[r.block]}
        /\ \A o \in Offsets : x.got[o] \in {Gap, Byte(r.block, o)}
  BY <1>1 DEF Agrees
<1>4. r.block \in Blocks
  BY DEF Integrity, TypeInv, TypeOK
<1>5. CASE Complete(x)
  <2> DEFINE dat == [o \in 0 .. (x.blockLen - 1) |-> x.got[o]]
  <2>1. dat = Contents(r.block)
    BY <1>1, <1>3, <1>4, <1>5, CompleteIsBlock
  <2>2. delivered' = Append(delivered,
          [at |-> e, from |-> x.engine, number |-> x.number, data |-> dat])
    BY <1>1, <1>5 DEF StoreOrDeliver
  <2> HIDE DEF dat
  <2>3. [b \in Blocks |-> Contents(b)][r.block] = dat
    BY <1>4, <2>1
  <2>4. Transfer!Deliver(r, e)
    BY <1>1, <1>2, <1>3, <2>2, <2>3 DEF Transfer!Deliver
  <2>5. e \in Hears[r.engine]
    BY <1>1, <1>2, <1>3
  <2>6. QED
    BY <2>4, <2>5 DEF Transfer!AbstractNext
<1>6. CASE ~ Complete(x)
  BY <1>1, <1>6 DEF StoreOrDeliver
<1>7. QED
  BY <1>5, <1>6

\* A session that is closed before its block is complete is one of a submitted block, at
\* an engine that hears the submitter.
LEMMA AbandonTransfers ==
  ASSUME Integrity, ImportsOpen, NEW e \in Engines, NEW S \in SUBSET ImportSlots,
         \A t \in S : imports[e][t].active = 1,
         AbandonImport(e, S), UNCHANGED <<sent, delivered, outcome>>
  PROVE  Transfer!AbstractNext \/ UNCHANGED <<sent, delivered, gaveUp, outcome>>
<1> DEFINE Entry(s) == [at |-> e, from |-> imports[e][s].engine, number |-> imports[e][s].number]
<1>1. gaveUp' = gaveUp \cup {Entry(s) : s \in {t \in S : First(S, t)}}
  BY DEF AbandonImport
<1>2. CASE \E s \in S : First(S, s)
  <2>1. PICK s \in S : First(S, s)
    BY <1>2
  <2>2. \A t \in S : First(S, t) => t = s
    <3>1. ImportSlots \subseteq Nat
      BY ConstantsAssumption DEF ImportSlots
    <3>2. QED
      BY <2>1, <3>1 DEF First
  <2>3. gaveUp' = gaveUp \cup {Entry(s)}
    BY <1>1, <2>1, <2>2
  <2>4. PICK r \in sent : r.engine = imports[e][s].engine /\ r.number = imports[e][s].number
    BY DEF Integrity, ImportsAgree, Agrees
  <2>5. e \in Hears[r.engine]
    BY <2>4 DEF ImportsOpen
  <2>6. Transfer!Abandon(r, e)
    BY <2>3, <2>4, <2>5 DEF Transfer!Abandon
  <2>7. QED
    BY <2>5, <2>6 DEF Transfer!AbstractNext
<1>3. CASE ~ \E s \in S : First(S, s)
  BY <1>1, <1>3
<1>4. QED
  BY <1>2, <1>3

\* The return of a run is the one verdict on its session, and a success comes after
\* its block has been delivered or given up.
LEMMA ReturnTransfers ==
  ASSUME Sound, Verdicts, NEW e \in Engines, Return(e)
  PROVE  Transfer!AbstractNext
<1>1. TypeInv /\ CompletedSettled
  BY SoundParts
<1>2. PICK s \in ExportSlots :
        /\ First({t \in ExportSlots : exports[e][t].number = waiting[e]}, s)
        /\ outcome' = outcome \cup
             {[engine |-> e, number |-> waiting[e], ok |-> exports[e][s].completed]}
  BY DEF Return
<1>3. waiting[e] # 0 /\ waiting[e] \in Nat /\ UNCHANGED <<sent, delivered, gaveUp>>
  BY <1>1 DEF Return, TypeInv, TypeOK
<1>4. PICK r \in sent : r.engine = e /\ r.number = waiting[e]
  BY <1>3 DEF Verdicts
<1>5. Transfer!Pending(r)
  BY <1>4 DEF Transfer!Pending, Verdicts
<1>6. exports[e][s].completed \in {0, 1} /\ exports[e][s].number = waiting[e]
  BY <1>1, <1>2 DEF TypeInv, TypeOK, ExportSessions, First
<1>7. CASE exports[e][s].completed = 1
  <2>1. PICK b \in Hears[e] : SettledAt(b, e, waiting[e])
    BY <1>1, <1>3, <1>6, <1>7 DEF CompletedSettled
  <2>2. ASSUME DeliveredAt(b, e, waiting[e])
        PROVE  Transfer!Settled(r)
    <3>1. PICK d \in Range(delivered) : d.from = e /\ d.number = waiting[e]
      BY <2>2 DEF DeliveredAt
    <3>2. \E i \in DOMAIN delivered :
            delivered[i].from = r.engine /\ delivered[i].number = r.number
      BY <1>4, <3>1 DEF Range
    <3>3. QED
      BY <3>2 DEF Transfer!Settled
  <2>3. ASSUME [at |-> b, from |-> e, number |-> waiting[e]] \in gaveUp
        PROVE  Transfer!Settled(r)
    BY <1>4, <2>3 DEF Transfer!Settled
  <2>4. outcome' = outcome \cup {[engine |-> r.engine, number |-> r.number, ok |-> 1]}
    BY <1>2, <1>4, <1>7
  <2>5. Transfer!Succeed(r)
    BY <1>3, <1>5, <2>1, <2>2, <2>3, <2>4 DEF Transfer!Succeed, SettledAt
  <2>6. QED
    BY <2>5 DEF Transfer!AbstractNext
<1>8. CASE exports[e][s].completed = 0
  <2>1. outcome' = outcome \cup {[engine |-> r.engine, number |-> r.number, ok |-> 0]}
    BY <1>2, <1>4, <1>8
  <2>2. Transfer!Fail(r)
    BY <1>3, <1>5, <2>1 DEF Transfer!Fail
  <2>3. QED
    BY <2>2 DEF Transfer!AbstractNext
<1>9. QED
  BY <1>6, <1>7, <1>8

\* The other steps are seen by no application.
QuietFor(e) ==
  /\ ~ Return(e)
  /\ \A b \in Blocks : ~ SendBlock(e, b) /\ ~ SendBlockFails(e, b)

LEMMA OthersQuiet ==
  ASSUME Integrity, NEW e \in Engines, Step(e), QuietFor(e)
  PROVE  /\ UNCHANGED <<next, waiting, sent, outcome>>
         /\ \/ UNCHANGED delivered
            \/ \E m, x : \E s \in ImportSlots : AbsorbedInto(e, m, s, x)
<1>1. CASE Application(e)
  BY <1>1 DEF Application, QuietFor, CancelSession, CancelImport, tables, history
<1>2. CASE ReceiveRedData(e) \/ ReceiveCheckpoint(e)
  <2>1. PICK m, x : \E s \in ImportSlots : AbsorbedInto(e, m, s, x)
    BY <1>2, RedDataAbsorbed, CheckpointAbsorbed
  <2>2. QED
    BY <2>1 DEF AbsorbedInto
<1>3. CASE Receive(e) /\ ~ ReceiveRedData(e) /\ ~ ReceiveCheckpoint(e)
  BY <1>3 DEF Receive, ReceiveDataNoSlot, ReceiveReportUnknown, ReceiveReportFull,
     ReceiveReportPartial, ReceiveReportAck, ReceiveCancelBySender, ReceiveCancelAckSender,
     ReceiveCancelByRecvr, ReceiveCancelAckRecvr, tables, history
<1>4. ASSUME NEW i \in TimerSlots, Timeout(e, i)
      PROVE  UNCHANGED <<next, waiting, sent, outcome, delivered>>
  BY <1>4 DEF Timeout, CheckpointTimeout, ReportTimeout, CancelTimeout, OrphanTimeout,
     CheckpointExhausted, ReportExhausted, CancelExhausted, history
<1>5. CASE Lose(e)
  BY <1>5 DEF Lose, tables, history
<1>6. QED
  BY <1>1, <1>2, <1>3, <1>4, <1>5 DEF Step, QuietFor

LEMMA StepVerdicts ==
  Integrity /\ Verdicts /\ [Next]_vars => Verdicts'
<1> SUFFICES ASSUME Integrity, Verdicts, [Next]_vars PROVE Verdicts'
  OBVIOUS
<1>1. ASSUME NEW e \in Engines, Step(e)
      PROVE  Verdicts'
  <2>1. CASE QuietFor(e)
    BY <1>1, <2>1, OthersQuiet, VerdictsSame
  <2>2. CASE ~ QuietFor(e)
    BY <2>2, SendVerdicts, ReturnVerdicts DEF QuietFor
  <2>3. QED
    BY <2>1, <2>2
<1>2. CASE UNCHANGED vars
  BY <1>2, VerdictsSame DEF vars, tables, history
<1>3. QED
  BY <1>1, <1>2 DEF Next

LEMMA StepTransfers ==
  ASSUME Sound, Verdicts, [Next]_vars
  PROVE  [Transfer!AbstractNext]_(Transfer!abstractVars)
<1>1. Integrity /\ LinkWarranted /\ ImportsOpen
  BY SoundParts DEF Sound
<1>2. ASSUME NEW e \in Engines, Step(e)
      PROVE  Transfer!AbstractNext \/ UNCHANGED <<sent, delivered, gaveUp, outcome>>
  <2>1. CASE QuietFor(e)
    <3>1. UNCHANGED <<sent, outcome>>
      BY <1>1, <1>2, <2>1, OthersQuiet
    <3>2. QED
      BY <1>1, <1>2, <3>1, StepOfImports, AbandonTransfers, AbsorbTransfers
  <2>2. CASE ~ QuietFor(e)
    BY <1>1, <2>2, SendTransfers, ReturnTransfers DEF QuietFor
  <2>3. QED
    BY <2>1, <2>2
<1>3. CASE UNCHANGED vars
  BY <1>3 DEF vars, tables, history, Transfer!abstractVars
<1>4. QED
  BY <1>2, <1>3 DEF Next, Transfer!abstractVars

LEMMA InitTransfers == Init => Transfer!AbstractInit
  BY DEF Init, Transfer!AbstractInit

\* On point-to-point links the engines implement block transfer as their applications
\* know it: every submission has a number of its own, what is delivered was submitted
\* and is delivered whole where the submitter is heard, and each run gets one verdict,
\* success only after the receiver has delivered the block or has given it up.
THEOREM TransferImplemented ==
  ASSUME PointToPoint
  PROVE  Spec => ImplementsTransfer
<1>1. Sound /\ Verdicts /\ [Next]_vars
        => [Transfer!AbstractNext]_(Transfer!abstractVars)
  BY StepTransfers
<1>2. Sound /\ [Next]_vars => Sound'
  BY StepSound
<1>3. Sound => Integrity
  BY DEF Sound
<1>4. QED
  BY <1>1, <1>2, <1>3, InitSound, InitVerdicts, StepVerdicts, InitTransfers, PTL
     DEF Spec, ImplementsTransfer, Transfer!AbstractSpec

----------------------------------------------------------------------------
(***************************************************************************)
(* Receivers that end and start again, at any point and any number of      *)
(* times.  What is delivered is still whole: a restart forgets what was    *)
(* received and misnumbers nothing, as long as the engine that restarts    *)
(* has sent nothing.  The invariant says so beside Integrity.              *)
(***************************************************************************)

\* The engines that may restart do not send; the run sender_restart shows what
\* happens to one that does.
ReceiversRestart == \A e \in Restarting : MaxSessions[e] = 0

NothingSentBy(S) == \A r \in sent : r.engine \notin S

Restartable == Integrity /\ NothingSentBy(Restarting)

LEMMA RestartTypes ==
  ASSUME TypeInv, NEW e \in Engines, Restart(e)
  PROVE  TypeInv'
<1>1. /\ FreeExport \in ExportSessions /\ FreeImport \in ImportSessions /\ NoTimer \in Timers
      /\ FreeExport.active = 0
  BY DEF FreeExport, FreeImport, NoTimer, ExportSessions, ImportSessions, Timers,
     CheckpointTimer
<1> DEFINE xs == [s \in ExportSlots |-> FreeExport]
           ms == [s \in ImportSlots |-> FreeImport]
           ts == [i \in TimerSlots |-> NoTimer]
<1>2. /\ xs \in [ExportSlots -> ExportSessions]
      /\ ms \in [ImportSlots -> ImportSessions]
      /\ ts \in [TimerSlots -> Timers]
      /\ \A s \in ExportSlots : xs[s].active = 0
  BY <1>1
<1>3. /\ exports' = [exports EXCEPT ![e] = xs] /\ imports' = [imports EXCEPT ![e] = ms]
      /\ timers' = [timers EXCEPT ![e] = ts] /\ next' = [next EXCEPT ![e] = 1]
      /\ waiting' = [waiting EXCEPT ![e] = 0]
      /\ UNCHANGED <<inbox, sent, delivered, gaveUp, outcome>>
  BY DEF Restart, history
<1> HIDE DEF xs, ms, ts
<1>4. TypeOK'
  BY <1>2, <1>3 DEF TypeInv, TypeOK
<1>5. OpenExportsUsable'
  <2>1. ASSUME NEW x \in Engines, NEW s \in ExportSlots
        PROVE  exports'[x][s] = exports[x][s] \/ exports'[x][s].active = 0
    BY <1>2, <1>3 DEF TypeInv, TypeOK
  <2>2. QED
    BY <2>1 DEF TypeInv, OpenExportsUsable, Usable
<1>6. QED
  BY <1>4, <1>5 DEF TypeInv

LEMMA RestartKeeps ==
  ASSUME Restartable, NEW e \in Engines, Restart(e)
  PROVE  Restartable'
<1>1. /\ exports' = [exports EXCEPT ![e] = [s \in ExportSlots |-> FreeExport]]
      /\ imports' = [imports EXCEPT ![e] = [s \in ImportSlots |-> FreeImport]]
      /\ next' = [next EXCEPT ![e] = 1]
      /\ UNCHANGED <<inbox, sent, delivered>>
      /\ e \in Restarting
  BY DEF Restart, history
<1>2. /\ TypeInv /\ TypeOK
      /\ sent \subseteq [engine : Engines, number : Nat, block : Blocks]
  BY DEF Restartable, Integrity, TypeInv, TypeOK
<1>3. TypeInv'
  BY <1>2, RestartTypes
<1>4. SentOnce'
  <2>1. \A r \in sent : next'[r.engine] = next[r.engine]
    BY <1>1, <1>2 DEF Restartable, NothingSentBy, TypeOK
  <2>2. QED
    BY <1>1, <2>1 DEF Restartable, Integrity, SentOnce
<1>5. ExportsSent'
  BY <1>1, <1>2 DEF Restartable, Integrity, ExportsSent, TypeOK, FreeExport
<1>6. SegmentsGenuine' /\ DeliveredIntact'
  BY <1>1 DEF Restartable, Integrity, SegmentsGenuine, InFlight, Range, DeliveredIntact
<1>7. ImportsAgree'
  BY <1>1, <1>2 DEF Restartable, Integrity, ImportsAgree, TypeOK, FreeImport
<1>8. QED
  BY <1>1, <1>3, <1>4, <1>5, <1>6, <1>7 DEF Restartable, Integrity, NothingSentBy

\* What an engine submits has a number up to MaxSessions[e].
LEMMA SubmissionsBounded ==
  ASSUME Integrity, NEW e \in Engines, Step(e), NEW r \in sent', r \notin sent
  PROVE  r.engine = e /\ MaxSessions[e] # 0
<1>1. ~ QuietFor(e)
  BY OthersQuiet
<1>2. ~ Return(e)
  BY DEF Return
<1>3. PICK b \in Blocks : SendBlock(e, b) \/ SendBlockFails(e, b)
  BY <1>1, <1>2 DEF QuietFor
<1>4. PICK s \in ExportSlots : OpenExport(e, b, s)
  BY <1>3 DEF SendBlock, SendBlockFails
<1>5. next[e] <= MaxSessions[e] /\ next[e] \in Nat \ {0}
  BY <1>4 DEF OpenExport, Integrity, TypeInv, TypeOK
<1>6. r.engine = e
  BY <1>4 DEF OpenExport
<1>7. QED
  BY <1>5, <1>6, ConstantsAssumption

LEMMA StepRestartable ==
  ASSUME ReceiversRestart, Restartable, [RestartNext]_vars
  PROVE  Restartable'
<1>1. CASE \E e \in Engines : Restart(e)
  BY <1>1, RestartKeeps
<1>2. CASE [Next]_vars
  <2>1. Integrity'
    BY <1>2, StepIntegrity DEF Restartable
  <2>2. ASSUME NEW r \in sent', r \notin sent
        PROVE  r.engine \notin Restarting
    <3>1. PICK e \in Engines : Step(e)
      BY <1>2, <2>2 DEF Next, vars, history
    <3>2. QED
      BY <2>2, <3>1, SubmissionsBounded DEF ReceiversRestart, Restartable
  <2>3. QED
    BY <2>1, <2>2 DEF Restartable, NothingSentBy
<1>3. QED
  BY <1>1, <1>2 DEF RestartNext

\* A receiver whose process is killed and started again in the middle of a
\* transfer, having reported bytes that it has forgotten (ltp.c:1004), still calls
\* on_block_received only with a block as it was submitted.
THEOREM DeliveryIntactAfterRestarts ==
  ASSUME ReceiversRestart
  PROVE  RestartSpec => []DeliveredIntact
<1>1. Init => Restartable
  BY InitIntegrity DEF Init, Restartable, NothingSentBy
<1>2. Restartable /\ [RestartNext]_vars => Restartable'
  BY StepRestartable
<1>3. Restartable => DeliveredIntact
  BY DEF Restartable, Integrity
<1>4. QED
  BY <1>1, <1>2, <1>3, PTL DEF RestartSpec
=============================================================================

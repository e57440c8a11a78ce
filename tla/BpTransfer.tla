------------------------------ MODULE BpTransfer ------------------------------
(***************************************************************************)
(* Bundles over reliable block transfer: cmd_bp_send cuts a payload into   *)
(* fragment bundles and sends them one after the other, each as a block;   *)
(* bp-recv puts fragments together again in its one reassembly context.    *)
(*                                                                         *)
(* The link is the abstract BlockTransfer that the LTP engine implements,  *)
(* so a block may be delivered late and more than once, with receivers     *)
(* that give no block up.  A payload is identified by a name, and each of  *)
(* its bytes is represented by it.                                         *)
(***************************************************************************)
EXTENDS Integers, Sequences, FiniteSets, Functions

CONSTANTS
  Stations,      \* those that run bp-send and bp-recv
  Reach,         \* Reach[e]: the stations a block of e may be delivered at
  Adus,          \* the payloads
  AduLen,        \* AduLen[a]: the length of payload a
  FragmentSize,  \* BP_DEFAULT_FRAGMENT_SIZE
  SingleMax,     \* the longest payload that is encoded as one bundle
  MaxFragments,  \* BP_MAX_FRAGMENTS
  MaxAdu,        \* BP_MAX_PAYLOAD
  Hole,          \* marks a byte that has not been received
  Clockless,     \* the stations whose clock is before the DTN epoch
  Interruptible, \* the stations whose bp-send may get SIGINT or SIGTERM
  Restarting,    \* the stations whose bp-recv may be started again
  MaxSends,      \* bound: MaxSends[e] runs of bp-send at e
  MaxDeliveries, \* bound: deliveries of blocks in all
  MaxRestarts    \* bound: restarts of bp-recv in all

ASSUME BpAssumption ==
  /\ Reach \in [Stations -> SUBSET Stations]
  /\ MaxAdu \in Nat \ {0}
  /\ \A a \in Adus : AduLen[a] \in 1 .. MaxAdu
  /\ FragmentSize \in Nat \ {0} /\ SingleMax \in Nat /\ MaxFragments \in Nat
  /\ Hole \notin Adus
  /\ Clockless \subseteq Stations /\ Interruptible \subseteq Stations
  /\ Restarting \subseteq Stations
  /\ MaxSends \in [Stations -> Nat] /\ MaxDeliveries \in Nat /\ MaxRestarts \in Nat

VARIABLES
  submitted,  \* the blocks submitted to the link,
  deliveries, \* its deliveries
  verdicts,   \* and what it told the submitters
  process,    \* process[e]: the bp-send that runs at e
  runs,       \* runs[e]: how many have been started at e
  reasm,      \* reasm[b]: the reassembly context of the bp-recv at b
  restarts,   \* how often a bp-recv was started again
  received,   \* history: the payloads handed to the user, oldest first
  finished    \* history: what bp-send told its user

link == <<submitted, deliveries, verdicts>>
sender == <<process, runs, finished>>
receiver == <<reasm, restarts, received>>
vars == <<link, sender, receiver>>

----------------------------------------------------------------------------
(* Bundles                                                                 *)

Min2(a, b) == IF a < b THEN a ELSE b

\* What a decoded bundle says.  The sequence number is 1 in every process.
Bundles ==
  [src : Stations, time : Nat, fragment : {0, 1}, offset : Nat, length : Nat,
   total : Nat, adu : Adus]

\* bp_fragment_count
FragmentCount(a) == (AduLen[a] + FragmentSize - 1) \div FragmentSize

\* Payload a as one bundle.
WholeBundle(e, t, a) ==
  [src |-> e, time |-> t, fragment |-> 0, offset |-> 0, length |-> AduLen[a],
   total |-> 0, adu |-> a]

\* Mutant: what is left of the payload is counted from the end of the fragment.
FragmentBundleAfter(e, t, a, k) ==
  [src |-> e, time |-> t, fragment |-> 1, offset |-> k * FragmentSize,
   length |-> Min2(AduLen[a] - (k + 1) * FragmentSize, FragmentSize),
   total |-> AduLen[a], adu |-> a]

\* Fragment k of payload a, from 0.
FragmentBundle(e, t, a, k) ==
  [src |-> e, time |-> t, fragment |-> 1, offset |-> k * FragmentSize,
   length |-> Min2(AduLen[a] - k * FragmentSize, FragmentSize),
   total |-> AduLen[a], adu |-> a]

Fits(a) == AduLen[a] <= SingleMax
BlockCount(a) == IF Fits(a) THEN 1 ELSE FragmentCount(a)
BlockOf(e, p) ==
  IF Fits(p.adu) THEN WholeBundle(e, p.time, p.adu)
  ELSE FragmentBundle(e, p.time, p.adu, p.index)

----------------------------------------------------------------------------
(* Sending                                                                 *)

\* Reliable block transfer, by receivers that give no block up.
Link ==
  INSTANCE BlockTransfer WITH
    Senders <- Stations, Payloads <- Bundles, Bytes <- [b \in Bundles |-> b],
    Numbers <- Nat, abandoned <- {}

Idle == [busy |-> 0]

\* `number' is the session a run of the LTP engine waits for, 0 outside one.
Sending(a, t) ==
  [busy |-> 1, adu |-> a, time |-> t, index |-> 0, number |-> 0, signalled |-> 0]

\* bp_dtn_time_now: never the same twice, unless the clock is before the epoch.
DtnTime(e) == IF e \in Clockless THEN 0 ELSE runs[e] + 1

\* A bp-send is started; a payload of too many fragments is refused.
StartSend(e, a) ==
  /\ process[e] = Idle
  /\ runs[e] < MaxSends[e]
  /\ Fits(a) \/ FragmentCount(a) <= MaxFragments
  /\ process' = [process EXCEPT ![e] = Sending(a, DtnTime(e))]
  /\ runs' = [runs EXCEPT ![e] = @ + 1]
  /\ UNCHANGED <<link, finished, receiver>>

Verdict(e, ok) == [src |-> e, time |-> process[e].time, adu |-> process[e].adu, ok |-> ok]

Finish(e, ok) ==
  /\ process' = [process EXCEPT ![e] = Idle]
  /\ finished' = finished \cup {Verdict(e, ok)}

\* ltp_send_block for the next fragment, or for the whole bundle.
SubmitNext(e) ==
  /\ process[e].busy = 1
  /\ process[e].number = 0
  /\ LET n == Cardinality({r \in submitted : r.engine = e}) + 1 IN
     /\ Link!SubmitAs(e, n, BlockOf(e, process[e]))
     /\ process' = [process EXCEPT ![e].number = n]
  /\ UNCHANGED <<runs, finished, receiver>>

\* It is refused by the device: the rest is not sent.
SubmitFails(e) ==
  /\ process[e].busy = 1
  /\ process[e].number = 0
  /\ Finish(e, 0)
  /\ UNCHANGED <<link, runs, receiver>>

\* Mutant: the last fragment is forgotten.
AdvanceShort(e) ==
  IF process[e].index + 2 < BlockCount(process[e].adu)
  THEN /\ process' = [process EXCEPT ![e].index = @ + 1, ![e].number = 0]
       /\ UNCHANGED finished
  ELSE Finish(e, 1)

\* The run of the LTP engine for the block is over; the next one is sent.
Advance(e) ==
  IF process[e].index + 1 < BlockCount(process[e].adu)
  THEN /\ process' = [process EXCEPT ![e].index = @ + 1, ![e].number = 0]
       /\ UNCHANGED finished
  ELSE Finish(e, 1)

Waiting(e, r) ==
  /\ process[e].busy = 1
  /\ process[e].number # 0
  /\ r.engine = e /\ r.number = process[e].number

RunSucceeds(e) ==
  /\ \E r \in submitted : Waiting(e, r) /\ Link!Succeed(r)
  /\ Advance(e)
  /\ UNCHANGED <<runs, receiver>>

RunFails(e) ==
  /\ \E r \in submitted : Waiting(e, r) /\ Link!Fail(r)
  /\ Finish(e, 0)
  /\ UNCHANGED <<runs, receiver>>

\* SIGINT or SIGTERM: g_running is cleared, and stays so.
Interrupt(e) ==
  /\ e \in Interruptible
  /\ process[e].busy = 1
  /\ process[e].signalled = 0
  /\ process' = [process EXCEPT ![e].signalled = 1]
  /\ UNCHANGED <<link, runs, finished, receiver>>

\* From then on every ltp_engine_run returns 0 at once, and the fragments that
\* are left are still sent.
RunInterrupted(e) ==
  /\ process[e].busy = 1
  /\ process[e].signalled = 1
  /\ process[e].number # 0
  /\ Advance(e)
  /\ UNCHANGED <<link, runs, receiver>>

----------------------------------------------------------------------------
(* Receiving: bp_recv_block_cb                                             *)

Empty == [active |-> 0]

\* bp_reassembly_add, first part: an inactive context takes up the bundle the
\* fragment is of.
Latched(ctx, f) ==
  IF ctx.active = 1 THEN ctx
  ELSE [active |-> 1, src |-> f.src, time |-> f.time, total |-> f.total,
        data |-> [o \in 0 .. (MaxAdu - 1) |-> Hole]]

\* Mutant: fragments are told apart by their source and total length alone.
MatchesUntimed(ctx, f) == ctx.src = f.src /\ ctx.total = f.total

Matches(ctx, f) == ctx.src = f.src /\ ctx.time = f.time /\ ctx.total = f.total

InBounds(ctx, f) == f.offset + f.length <= ctx.total /\ f.offset + f.length <= MaxAdu

Filled(ctx, f) ==
  [ctx EXCEPT !.data = [o \in 0 .. (MaxAdu - 1) |->
     IF o \in f.offset .. (f.offset + f.length - 1) THEN f.adu ELSE ctx.data[o]]]

BytesReceived(ctx) == Cardinality({o \in DOMAIN ctx.data : ctx.data[o] # Hole})

Whole(ctx) == BytesReceived(ctx) >= ctx.total

Hand(b, f, data) ==
  received' = Append(received, [at |-> b, src |-> f.src, time |-> f.time, data |-> data])

\* The link delivers block r to the application at b.
Arrives(b, r) ==
  /\ Len(deliveries) < MaxDeliveries
  /\ Link!Deliver(r, b)
  /\ UNCHANGED <<sender, restarts>>

\* A whole bundle goes to the user whatever the context holds.
ReceiveWhole(b) ==
  \E r \in submitted :
    LET f == r.block IN
    /\ b \in Reach[r.engine]
    /\ f.fragment = 0
    /\ Arrives(b, r)
    /\ Hand(b, f, [o \in 0 .. (f.length - 1) |-> f.adu])
    /\ UNCHANGED reasm

\* A fragment of another bundle than the one the context holds is refused.
ReceiveStray(b) ==
  \E r \in submitted :
    LET f == r.block
        ctx == Latched(reasm[b], f)
    IN
    /\ b \in Reach[r.engine]
    /\ f.fragment = 1
    /\ ~ (Matches(ctx, f) /\ InBounds(ctx, f))
    /\ Arrives(b, r)
    /\ reasm' = [reasm EXCEPT ![b] = ctx]
    /\ UNCHANGED received

\* Mutant: the context is not cleared once its bundle is complete.
ReceiveFragmentKept(b) ==
  \E r \in submitted :
    LET f == r.block
        ctx == Filled(Latched(reasm[b], f), f)
    IN
    /\ b \in Reach[r.engine]
    /\ f.fragment = 1
    /\ Matches(ctx, f) /\ InBounds(ctx, f)
    /\ Arrives(b, r)
    /\ reasm' = [reasm EXCEPT ![b] = ctx]
    /\ IF Whole(ctx)
       THEN Hand(b, f, [o \in 0 .. (ctx.total - 1) |-> ctx.data[o]])
       ELSE UNCHANGED received

\* A fragment fills its part of the context; the last one hands the payload to
\* the user and clears the context.
ReceiveFragment(b) ==
  \E r \in submitted :
    LET f == r.block
        ctx == Filled(Latched(reasm[b], f), f)
    IN
    /\ b \in Reach[r.engine]
    /\ f.fragment = 1
    /\ Matches(ctx, f) /\ InBounds(ctx, f)
    /\ Arrives(b, r)
    /\ IF Whole(ctx)
       THEN /\ Hand(b, f, [o \in 0 .. (ctx.total - 1) |-> ctx.data[o]])
            /\ reasm' = [reasm EXCEPT ![b] = Empty]
       ELSE /\ reasm' = [reasm EXCEPT ![b] = ctx]
            /\ UNCHANGED received

\* The bp-recv at b ends and is started again, with an empty context.
RestartReceiver(b) ==
  /\ b \in Restarting
  /\ restarts < MaxRestarts
  /\ restarts' = restarts + 1
  /\ reasm' = [reasm EXCEPT ![b] = Empty]
  /\ UNCHANGED <<link, sender, received>>

----------------------------------------------------------------------------

Init ==
  /\ Link!AbstractInit
  /\ process = [e \in Stations |-> Idle]
  /\ runs = [e \in Stations |-> 0]
  /\ reasm = [b \in Stations |-> Empty]
  /\ restarts = 0
  /\ received = << >>
  /\ finished = {}

Next ==
  \E e \in Stations :
    \/ \E a \in Adus : StartSend(e, a)
    \/ SubmitNext(e)
    \/ SubmitFails(e)
    \/ RunSucceeds(e)
    \/ RunFails(e)
    \/ Interrupt(e)
    \/ RunInterrupted(e)
    \/ ReceiveWhole(e)
    \/ ReceiveStray(e)
    \/ ReceiveFragment(e)
    \/ RestartReceiver(e)

Spec == Init /\ [][Next]_vars

----------------------------------------------------------------------------
(* Properties                                                              *)

Contents(a) == [o \in 0 .. (AduLen[a] - 1) |-> a]

Processes ==
  {Idle} \cup
  [busy : {1}, adu : Adus, time : Nat, index : Nat, number : Nat, signalled : {0, 1}]
Contexts ==
  {Empty} \cup
  [active : {1}, src : Stations, time : Nat, total : Nat,
   data : [0 .. (MaxAdu - 1) -> Adus \cup {Hole}]]
Handovers ==
  [at : Stations, src : Stations, time : Nat,
   data : UNION {[0 .. (l - 1) -> Adus \cup {Hole}] : l \in 1 .. MaxAdu}]

\* Every variable of the bundle layer holds what the C structures can hold.
TypeOK ==
  /\ submitted \subseteq [engine : Stations, number : Nat, block : Bundles]
  /\ process \in [Stations -> Processes]
  /\ runs \in [Stations -> Nat]
  /\ reasm \in [Stations -> Contexts]
  /\ restarts \in Nat
  /\ received \in Seq(Handovers)
  /\ finished \subseteq [src : Stations, time : Nat, adu : Adus, ok : {0, 1}]

\* Every payload handed to the user is, byte for byte, the payload of the bundle
\* it is said to be, whatever fragments of other bundles, of given up ones, or
\* delivered again came in between.
ReassembledIntact ==
  \A d \in Range(received) : \E r \in submitted :
    /\ r.block.src = d.src /\ r.block.time = d.time
    /\ d.data = Contents(r.block.adu)

\* How often the block of a bundle was delivered at b, and the bundle handed over.
Arrivals(b, f) == Cardinality({i \in DOMAIN deliveries : deliveries[i].at = b /\ deliveries[i].data = f})
Handed(b, src, t) ==
  Cardinality({i \in DOMAIN received :
    received[i].at = b /\ received[i].src = src /\ received[i].time = t})

\* A bundle is handed over at most as often as each of its blocks has arrived:
\* fragments delivered again are never made into one more bundle.
EachHandoverTakesEveryBlock ==
  \A b \in Stations, r \in submitted :
    Handed(b, r.block.src, r.block.time) <= Arrivals(b, r.block)

\* A bp-send that no signal interrupts reports success only when every fragment of
\* the payload, the last one included, has been delivered at a station that hears it.
SentMeansArrived ==
  \A v \in finished : v.ok = 1 /\ v.src \notin Interruptible =>
    LET blocks ==
          IF Fits(v.adu) THEN {WholeBundle(v.src, v.time, v.adu)}
          ELSE {FragmentBundle(v.src, v.time, v.adu, k) : k \in 0 .. (FragmentCount(v.adu) - 1)}
    IN  \A f \in blocks : \E b \in Reach[v.src] : Arrivals(b, f) > 0

\* Requirement 11.2 of the bundle protocol: when all fragments of a bundle have
\* been received, the payload is delivered to the application.
AllArrivedMeansReceived ==
  \A b \in Stations, r \in submitted :
    LET f == r.block IN
    (\A k \in 0 .. (FragmentCount(f.adu) - 1) :
       Arrivals(b, FragmentBundle(f.src, f.time, f.adu, k)) > 0)
    => Handed(b, f.src, f.time) > 0
=============================================================================

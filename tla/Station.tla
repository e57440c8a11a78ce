-------------------------------- MODULE Station -----------------------------
(***************************************************************************)
(* The event loops of kiss_interface and their time: standalone beacon     *)
(* (cmd_beacon), LTP with and without a beacon beside it (ltp_engine_run   *)
(* and the loops of main), and the beacon on the software radio            *)
(* (run_sdr_beacon).  One process in one of these programs; what it hears  *)
(* comes from an environment that sends anything.  Of the LTP engine only  *)
(* what its timers and its caller see is kept: LtpEngine has the rest.     *)
(*                                                                         *)
(* Time is relative: `due` and the timers hold what is left of them.  It   *)
(* passes while poll() sleeps, during every write, and by one tick at most *)
(* in a pass of the loop for everything else.                              *)
(***************************************************************************)
EXTENDS Integers, FiniteSets, Sequences

CONSTANTS
  Programs,    \* the programs that may be started
  Interval,    \* --beacon-interval
  Duration,    \* 2 * owlt_ms + 200
  MaxRetries,  \* --retries
  MaxTimers,   \* LTP_MAX_TIMERS
  Airtime,     \* the longest ltp_paced_write takes
  BeaconAir,   \* the longest beacon_transmit or uhd_tx_transmit takes
  Burst,       \* the most data segments written in a row
  MaxBatch,    \* the most frames that end in one read()
  MaxQueue,    \* bound: frames waiting in the serial line's buffer
  Heard,       \* the frames that may be heard, at any time and any number of times
  Forever      \* poll()'s timeout of -1

Kinds  == {"checkpoint", "full", "gap", "reportack", "cancel", "other"}
Frames == [kind : Kinds, ax25 : BOOLEAN]

Known == {"beacon", "sdr_beacon", "recv", "send", "recv_beacon", "send_beacon"}

ASSUME StationAssumption ==
  /\ Programs \subseteq Known /\ Heard \subseteq Frames
  /\ Interval \in Nat \ {0} /\ Duration \in Nat \ {0}
  /\ MaxTimers \in Nat \ {0} /\ MaxBatch \in Nat \ {0}
  /\ MaxRetries \in Nat /\ MaxQueue \in Nat
  /\ Airtime \in Nat /\ BeaconAir \in Nat /\ Burst \in Nat
  /\ BeaconAir < Interval
  /\ Forever \notin Int

Slots == 1 .. MaxTimers
Patience == MaxRetries * Duration

VARIABLES
  program,  \* the program that runs
  pc,       \* where it is
  due,      \* ticks until the beacon is due
  wake,     \* ticks until poll() times out
  timers,   \* timers of the LTP engine
  session,  \* the export session a sender waits for
  queue,    \* frames heard and not yet processed
  batch,    \* how many of them the last read() took
  running,  \* g_running
  gone,     \* the serial device is unplugged
  rc,       \* what the program returned
  lagged,   \* this pass has had its tick
  idle,     \* history: ticks since the beacon was last tried
  age       \* history: ticks since a sender's block was out, Patience at most

engine  == <<timers, session>>
input   == <<queue, batch>>
outside == <<running, gone>>
clocks  == <<due, idle, age, timers>>
vars    == <<program, pc, due, wake, engine, input, outside, rc, lagged, idle, age>>

HasEngine  == program \in {"recv", "send", "recv_beacon", "send_beacon"}
EngineLoop == program \in {"recv", "send"}
HasBeacon  == program \notin {"recv", "send"}
Sends      == program \in {"send", "send_beacon"}

NoTimer == [active |-> FALSE, kind |-> "checkpoint", left |-> 0, retries |-> 0]
Active(ts) == {i \in Slots : ts[i].active}

-----------------------------------------------------------------------------
(* Time                                                                    *)

AtLeastZero(n) == IF n > 0 THEN n ELSE 0

(* next_tx of the software radio's beacon may fall behind; the other one   *)
(* is due or not.                                                          *)
DueAfter(k) == IF program = "sdr_beacon" THEN due - k ELSE AtLeastZero(due - k)

Aged(ts, k) ==
  [i \in Slots |-> IF ts[i].active THEN [ts[i] EXCEPT !.left = @ - k] ELSE ts[i]]

Older(k) == IF ~Sends THEN age ELSE IF age + k < Patience THEN age + k ELSE Patience
Idler(k) == IF HasBeacon THEN idle + k ELSE idle

(* k ticks pass and nothing else touches the clocks.                       *)
Elapse(k) ==
  /\ due' = DueAfter(k) /\ idle' = Idler(k) /\ age' = Older(k)
  /\ timers' = Aged(timers, k)

(* beacon_transmit: the time of the beacon is taken when it is out, and    *)
(* only when it is.                                                        *)
BeaconTransmit ==
  \/ \E k \in 0 .. BeaconAir :
       /\ ~gone
       /\ due' = Interval /\ idle' = 0 /\ age' = Older(k)
       /\ timers' = Aged(timers, k)
  \/ /\ idle' = 0
     /\ UNCHANGED <<due, age, timers>>

-----------------------------------------------------------------------------
(* The timers of the LTP engine                                            *)

FirstFree(ts) == {i \in Slots \ Active(ts) : \A j \in Slots \ Active(ts) : i <= j}

(* ltp_start_timer: in the first free slot, or not at all.                 *)
Started(ts, kind) ==
  IF Active(ts) = Slots THEN {ts}
  ELSE {[ts EXCEPT ![i] = [active |-> TRUE, kind |-> kind, left |-> Duration, retries |-> 0]] :
          i \in FirstFree(ts)}

(* ltp_cancel_timer: which timer carries the serial is LtpEngine's matter. *)
Stopped(ts, kind) ==
  {ts} \cup {[ts EXCEPT ![i] = NoTimer] : i \in {j \in Active(ts) : ts[j].kind = kind}}

Expired == {i \in Active(timers) : timers[i].left <= 0}
Exhausted(i) == timers[i].retries + 1 >= MaxRetries

(* Faults: retries are not counted; the retried timer keeps what is left.  *)
RetriedUncounted(t, k) == [t EXCEPT !.left = Duration - k]
RetriedAtOnce(t, k) == [t EXCEPT !.left = @ - k, !.retries = @ + 1]

(* The timer of a segment sent again runs from the moment                  *)
(* ltp_fire_expired_timers began, not from when the segment was out.       *)
Retried(t, k) == [t EXCEPT !.left = Duration - k, !.retries = @ + 1]

(* ltp_fire_expired_timers.  The clock is read once, before any write.  A  *)
(* session given up in a slot is not retransmitted in a later one.         *)
FireExpired ==
  LET ended    == {i \in Expired : Exhausted(i)}
      closing  == {i \in ended : timers[i].kind = "checkpoint"}
      writing  == {i \in Expired \ ended :
                     timers[i].kind = "checkpoint" =>
                       session.open /\ \A j \in closing : i < j}
  IN \E k \in 0 .. Airtime * Cardinality(writing) :
       /\ timers' = [i \in Slots |->
            IF i \in ended THEN NoTimer
            ELSE IF i \in Expired THEN Retried(timers[i], k)
            ELSE Aged(timers, k)[i]]
       /\ due' = DueAfter(k) /\ idle' = Idler(k) /\ age' = Older(k)
       /\ session' = IF closing # {} /\ session.open
                     THEN [session EXCEPT !.open = FALSE, !.cancelled = "retries"]
                     ELSE session

-----------------------------------------------------------------------------
Init ==
  /\ program \in Programs
  /\ pc = "start"
  /\ due = 0 /\ wake = 0
  /\ timers = [i \in Slots |-> NoTimer]
  /\ session = [open |-> FALSE, completed |-> FALSE, cancelled |-> "no"]
  /\ queue = <<>> /\ batch = 0
  /\ running = TRUE /\ gone = FALSE
  /\ rc = 0 /\ lagged = FALSE
  /\ idle = 0 /\ age = 0

Goto(l) == pc' = l
Return(code) == pc' = "done" /\ rc' = code
Stay == UNCHANGED <<program, rc, lagged, input, outside, wake>>

(* The first beacon.  cmd_beacon gives up when it fails; the other loops   *)
(* go on, with a last beacon at the time the machine was booted.           *)
StartBeacon ==
  /\ pc = "start" /\ program = "beacon"
  /\ \/ due' = Interval /\ Goto("loop") /\ UNCHANGED rc
     \/ due' = due /\ Return(-1)
  /\ UNCHANGED <<program, wake, engine, input, outside, lagged, idle, age>>

StartOther ==
  /\ pc = "start" /\ program \in {"sdr_beacon", "recv", "recv_beacon"}
  /\ IF program = "recv_beacon" THEN due' \in 0 .. Interval ELSE due' = due
  /\ Goto("loop")
  /\ UNCHANGED <<program, wake, engine, input, outside, rc, lagged, idle, age>>

(* cmd_ltp_send, and main's ltp-send with --beacon: the beacon goes out    *)
(* first, the block takes as long as it takes, and the checkpoint's timer  *)
(* starts when all of it is out.                                           *)
StartSend ==
  /\ pc = "start" /\ Sends
  /\ \/ /\ IF program = "send_beacon"
           THEN \E k \in 0 .. Burst * Airtime :
                  idle' = k /\ due' \in 0 .. AtLeastZero(Interval - k)
           ELSE UNCHANGED <<due, idle>>
        /\ session' = [session EXCEPT !.open = TRUE]
        /\ timers' \in Started(timers, "checkpoint")
        /\ Goto("loop") /\ UNCHANGED rc
     \/ /\ Return(IF program = "send" THEN -1 ELSE 1)
        /\ UNCHANGED <<due, idle, engine>>
  /\ UNCHANGED <<program, wake, input, outside, lagged, age>>

-----------------------------------------------------------------------------
(* A pass of the loop                                                      *)

(* Fault: the software radio's loop does not test g_running.               *)
LoopUntested ==
  /\ pc = "loop"
  /\ IF ~running /\ program # "sdr_beacon" THEN Return(0) ELSE
       /\ Goto(IF program = "sdr_beacon" THEN "beacon" ELSE "tested")
       /\ UNCHANGED rc
  /\ UNCHANGED <<program, wake, clocks, session, input, outside, lagged>>

(* g_running is tested.                                                    *)
Loop ==
  /\ pc = "loop"
  /\ IF ~running THEN Return(0) ELSE
       /\ Goto(IF program = "sdr_beacon" THEN "beacon" ELSE "tested")
       /\ UNCHANGED rc
  /\ UNCHANGED <<program, wake, clocks, session, input, outside, lagged>>

(* Fault: a timer that has run out makes the timeout negative.             *)
TimersLeft == {timers[i].left : i \in Active(timers)}

TimersDue == {AtLeastZero(timers[i].left) : i \in Active(timers)}

(* Faults: the loop forgets the beacon, or the engine's timers.            *)
EndsOfTimers == IF HasEngine THEN TimersDue ELSE {due}
EndsOfBeacon == IF HasBeacon THEN {due} ELSE {3 * Duration}

(* What poll() must not sleep beyond: beacon_get_timeout_ms and            *)
(* ltp_get_next_timeout_ms.                                                *)
Ends == (IF HasEngine THEN TimersDue ELSE {}) \cup (IF HasBeacon THEN {due} ELSE {})

OneSecond == 1

(* The timeout is computed and poll() called.  A signal before is lost.    *)
Poll ==
  /\ pc = "tested"
  /\ IF Ends # {} THEN wake' \in Ends /\ \A n \in Ends : wake' <= n
     ELSE wake' = IF program = "send" THEN OneSecond ELSE Forever
  /\ lagged' = FALSE
  /\ Goto("sleep")
  /\ UNCHANGED <<program, clocks, session, input, outside, rc>>

Sleep ==
  /\ pc = "sleep" /\ wake # 0 /\ queue = <<>> /\ ~gone
  /\ Elapse(1)
  /\ wake' = IF wake = Forever THEN Forever ELSE wake - 1
  /\ UNCHANGED <<program, pc, session, input, outside, rc, lagged>>

AfterRead == IF HasEngine THEN "fire" ELSE "beacon"

(* poll() returns 0.  ltp_engine_run fires the timers twice.               *)
TimedOut ==
  /\ pc = "sleep" /\ wake = 0 /\ queue = <<>> /\ ~gone
  /\ Goto(IF EngineLoop THEN "fire0" ELSE AfterRead)
  /\ Stay /\ UNCHANGED <<clocks, session>>

(* read() returns the end of some of the frames waiting, or of none: the   *)
(* rest of the first is still to come.  cmd_beacon leaves them in the      *)
(* buffer.                                                                 *)
Readable ==
  /\ pc = "sleep" /\ queue # <<>>
  /\ IF HasEngine
     THEN Goto("process") /\ batch' \in {n \in 0 .. MaxBatch : n <= Len(queue)}
     ELSE Goto("beacon") /\ UNCHANGED batch
  /\ UNCHANGED <<program, wake, clocks, session, queue, outside, rc, lagged>>

(* The device is gone: poll() returns at once.  ltp_engine_run returns when *)
(* read() fails; the loops of main take no notice.                         *)
HungUp ==
  /\ pc = "sleep" /\ gone
  /\ \/ Goto(AfterRead) /\ UNCHANGED rc
     \/ EngineLoop /\ Return(-1)
  /\ UNCHANGED <<program, wake, clocks, session, input, outside, lagged>>

-----------------------------------------------------------------------------
(* What is heard.  The loops with a beacon take every AX.25 frame for an   *)
(* APRS packet; ltp_engine_run looks inside.                               *)
Ignored(f) == f.kind = "other" \/ (f.ax25 /\ ~EngineLoop)

Spends(k) == due' = DueAfter(k) /\ idle' = Idler(k) /\ age' = Older(k)

(* A checkpoint: the report is written, then its timer started.            *)
HearCheckpoint(k) ==
  /\ k <= Airtime
  /\ timers' \in Started(Aged(timers, k), "report")
  /\ UNCHANGED session

(* A report: acknowledged, its checkpoint's timer stopped; the session is  *)
(* completed, or what is missing goes out and a new timer starts.          *)
HearReport(f, k) ==
  /\ session.open
  /\ \/ /\ f.kind = "full" /\ k <= Airtime
        /\ \E ts \in Stopped(Aged(timers, k), "checkpoint") : timers' = ts
        /\ session' = [session EXCEPT !.completed = TRUE]
     \/ /\ f.kind = "gap" /\ k <= (1 + Burst) * Airtime
        /\ \E ts \in Stopped(Aged(timers, k), "checkpoint") :
             timers' \in Started(ts, "checkpoint")
        /\ UNCHANGED session

(* The acknowledgement of a report stops the report's timer.               *)
HearReportAck(k) ==
  /\ k = 0
  /\ timers' \in Stopped(timers, "report")
  /\ UNCHANGED session

(* A cancellation or the acknowledgement of one: answered if it asks for   *)
(* that; the session is closed if it is of a block sent from here and names*)
(* this one.                                                               *)
HearCancel(k) ==
  /\ k <= Airtime
  /\ timers' = Aged(timers, k)
  /\ \/ session.open /\ session' = [session EXCEPT !.open = FALSE, !.cancelled = "peer"]
     \/ UNCHANGED session

ProcessFrame ==
  /\ pc = "process" /\ batch > 0
  /\ queue' = Tail(queue) /\ batch' = batch - 1
  /\ LET f == Head(queue) IN
     \E k \in 0 .. (1 + Burst) * Airtime :
       /\ Spends(k)
       /\ \/ ~Ignored(f) /\ f.kind = "checkpoint" /\ HearCheckpoint(k)
          \/ ~Ignored(f) /\ HearReport(f, k)
          \/ ~Ignored(f) /\ f.kind = "reportack" /\ HearReportAck(k)
          \/ ~Ignored(f) /\ f.kind = "cancel" /\ HearCancel(k)
          \/ /\ k = 0
             /\ Ignored(f) \/ f.kind = "checkpoint" \/ (f.kind \in {"full", "gap"} /\ ~session.open)
             /\ UNCHANGED engine
  /\ UNCHANGED <<program, pc, wake, outside, rc, lagged>>

Processed ==
  /\ pc = "process" /\ batch = 0
  /\ Goto("fire")
  /\ Stay /\ UNCHANGED <<clocks, session>>

(* ltp_fire_expired_timers after a timeout, and in every pass.             *)
FireOnTimeout ==
  /\ pc = "fire0"
  /\ FireExpired
  /\ Goto("fire")
  /\ Stay

Fire ==
  /\ pc = "fire"
  /\ FireExpired
  /\ Goto(IF ~EngineLoop THEN "beacon" ELSE IF program = "send" THEN "check" ELSE "loop")
  /\ Stay

(* The beacon, if it is due: nothing the engine does puts it off.  The     *)
(* software radio's next one is due an interval after this one was.        *)
Beacon ==
  /\ pc = "beacon"
  /\ \/ due > 0 /\ UNCHANGED clocks
     \/ due <= 0 /\ program # "sdr_beacon" /\ BeaconTransmit
     \/ /\ due <= 0 /\ program = "sdr_beacon"
        /\ \E k \in 0 .. BeaconAir : due' = due - k + Interval
        /\ idle' = 0
        /\ UNCHANGED <<age, timers>>
  /\ Goto(IF program = "send_beacon" THEN "check" ELSE "loop")
  /\ lagged' = IF program = "sdr_beacon" THEN FALSE ELSE lagged
  /\ UNCHANGED <<program, wake, session, input, outside, rc>>

(* A sender looks at its session: completed counts before cancelled.  With *)
(* a beacon there is one more at the end.                                  *)
Check ==
  /\ pc = "check"
  /\ \/ /\ session.completed /\ Return(0)
        /\ IF program = "send_beacon" THEN BeaconTransmit ELSE UNCHANGED clocks
     \/ /\ ~session.completed
        /\ IF session.cancelled # "no" THEN Return(-1) ELSE Goto("loop") /\ UNCHANGED rc
        /\ UNCHANGED clocks
  /\ UNCHANGED <<program, wake, session, input, outside, lagged>>

Step ==
  \/ StartBeacon \/ StartOther \/ StartSend
  \/ Loop \/ Poll \/ TimedOut \/ Readable \/ HungUp
  \/ ProcessFrame \/ Processed \/ FireOnTimeout \/ Fire \/ Beacon \/ Check

-----------------------------------------------------------------------------
(* The world outside                                                       *)

(* The tick for what a pass takes beside its writes and its sleep.         *)
Lag ==
  /\ pc = "loop" /\ ~lagged
  /\ Elapse(1)
  /\ lagged' = TRUE
  /\ UNCHANGED <<program, pc, wake, session, input, outside, rc>>

Hear(f) ==
  /\ pc \notin {"start", "done"} /\ program # "sdr_beacon"
  /\ ~gone /\ Len(queue) < MaxQueue
  /\ queue' = Append(queue, f)
  /\ UNCHANGED <<program, pc, wake, clocks, session, batch, outside, rc, lagged>>

Unplug ==
  /\ ~gone /\ pc \notin {"start", "done"} /\ program # "sdr_beacon"
  /\ gone' = TRUE
  /\ UNCHANGED <<program, pc, wake, clocks, session, input, running, rc, lagged>>

(* SIGINT or SIGTERM.  poll() is interrupted and g_running tested at once;  *)
(* no other call is long.                                                  *)
Signal ==
  /\ running /\ pc \notin {"start", "done"}
  /\ running' = FALSE
  /\ IF pc = "sleep" THEN Goto("loop") /\ lagged' = TRUE ELSE UNCHANGED <<pc, lagged>>
  /\ UNCHANGED <<program, wake, clocks, session, input, gone, rc>>

Next ==
  \/ Step \/ Sleep \/ Lag \/ Unplug \/ Signal
  \/ \E f \in Heard : Hear(f)

Spec == Init /\ [][Next]_vars

(* The process goes on, and time does.                                     *)
FairSpec == Spec /\ WF_vars(Step) /\ WF_vars(Sleep) /\ SF_vars(Lag)

-----------------------------------------------------------------------------
(* Properties                                                              *)

Timer == [active : BOOLEAN, kind : {"checkpoint", "report"}, left : Int, retries : Nat]
Session == [open : BOOLEAN, completed : BOOLEAN, cancelled : {"no", "retries", "peer"}]
Labels == {"start", "loop", "tested", "sleep", "fire0", "process", "fire", "beacon", "check", "done"}

(* Every variable has its type: poll() waits for a time that is not        *)
(* negative, and a read() never takes more frames than there are.          *)
TypeOK ==
  /\ program \in Programs /\ pc \in Labels
  /\ due \in Int /\ wake \in Nat \cup {Forever}
  /\ timers \in [Slots -> Timer] /\ session \in Session
  /\ queue \in Seq(Frames)
  /\ batch \in 0 .. Len(queue)
  /\ running \in BOOLEAN /\ gone \in BOOLEAN /\ lagged \in BOOLEAN
  /\ rc \in {-1, 0, 1} /\ idle \in Nat /\ age \in 0 .. Patience

(* What a read() can make the engine write, and one run of the timers.     *)
Reading == MaxBatch * (1 + Burst) * Airtime
Firing == MaxTimers * Airtime

Longest(x, y) == IF x > y THEN x ELSE y

(* A station with a beacon tries to send it no later than the interval     *)
(* plus what one read() and the timers may put in front of it, whatever    *)
(* is heard, lost or unplugged; only a sender's first burst may last       *)
(* longer than the interval (main.c:1775, 1881, 1493).                     *)
BeaconInTime ==
  HasBeacon => idle <= Longest(Interval, 1 + Burst * Airtime) + Reading + Firing

(* No timer of the engine is left alone for longer than a pass with the    *)
(* most to do, beside other timers and a beacon (ltp.c:1334, main.c:1868). *)
TimersInTime ==
  pc # "done" =>
    \A i \in Active(timers) : timers[i].left >= -(Reading + Firing + BeaconAir)

(* A session is given up for want of an answer only when all its retries   *)
(* had their full time, late passes and waits cut short by the writes      *)
(* before them included (ltp.c:1356, 1483).                                *)
GivenUpAfterAllRetries == session.cancelled = "retries" => age >= Patience

(* A process that got a signal ends; only one that has nothing to wait for *)
(* and was between its test of g_running and poll() may sleep on           *)
(* (main.c:169, ltp.c:1516).                                               *)
Oversleeping == pc = "sleep" /\ wake = Forever /\ queue = <<>> /\ ~gone
StopsOnSignal == ~running ~> (pc = "done" \/ Oversleeping)

(* A gap report puts the end of a send run off: it stops the timer of a    *)
(* checkpoint, and the new one starts with all its retries.                *)
PutOff ==
  /\ ProcessFrame /\ Head(queue).kind = "gap"
  /\ \E i \in Active(timers) :
       /\ timers[i].kind = "checkpoint"
       /\ \/ ~timers'[i].active
          \/ timers'[i].left > timers[i].left
          \/ timers'[i].retries < timers[i].retries

(* Whatever else is heard, and with its device unplugged too, a send run   *)
(* ends unless it is put off for ever (ltp.c:1145, 1168, 1367).            *)
SendEnds == <>[][~PutOff]_vars => (Sends ~> pc = "done")
=============================================================================

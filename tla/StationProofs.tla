----------------------------- MODULE StationProofs ---------------------------
(***************************************************************************)
(* Theorems about the event loops, for every program, interval, timer      *)
(* duration, table size and length of writes.                              *)
(***************************************************************************)
EXTENDS Station, FiniteSetTheorems, SequenceTheorems, TLAPS

-----------------------------------------------------------------------------
(* Arithmetic and what the helpers return                                  *)

(* The products that bound a pass are natural numbers.                     *)
LEMMA Bounds == Patience \in Nat /\ Reading \in Nat /\ Firing \in Nat /\ Burst * Airtime \in Nat
  BY StationAssumption DEF Patience, Reading, Firing

(* A timer that has run out counts as due at once.                         *)
LEMMA AtLeastZeroNat ==
  ASSUME NEW n \in Int
  PROVE  AtLeastZero(n) \in Nat /\ AtLeastZero(n) >= n /\ (n > 0 => AtLeastZero(n) = n)
  BY DEF AtLeastZero

(* Time leaves timers timers.                                              *)
LEMMA AgedType ==
  ASSUME NEW ts \in [Slots -> Timer], NEW k \in Nat
  PROVE  Aged(ts, k) \in [Slots -> Timer]
  BY DEF Aged, Timer

(* So does a retry.                                                        *)
LEMMA RetriedType ==
  ASSUME NEW t \in Timer, NEW k \in Nat
  PROVE  Retried(t, k) \in Timer
<1>1. Duration - k \in Int /\ t.retries + 1 \in Nat
  BY StationAssumption DEF Timer
<1> QED BY <1>1 DEF Retried, Timer

(* Starting and stopping leave timers timers.                              *)
LEMMA StartedType ==
  ASSUME NEW ts \in [Slots -> Timer], NEW kind \in {"checkpoint", "report"},
         NEW new \in Started(ts, kind)
  PROVE  new \in [Slots -> Timer]
<1>1. CASE Active(ts) = Slots
  BY <1>1 DEF Started
<1>2. CASE Active(ts) # Slots
  <2>1. PICK i \in Slots :
          new = [ts EXCEPT ![i] = [active |-> TRUE, kind |-> kind,
                                   left |-> Duration, retries |-> 0]]
    BY <1>2 DEF Started, FirstFree
  <2>2. [active |-> TRUE, kind |-> kind, left |-> Duration, retries |-> 0] \in Timer
    BY StationAssumption DEF Timer
  <2> QED BY <2>1, <2>2
<1> QED BY <1>1, <1>2

LEMMA StoppedType ==
  ASSUME NEW ts \in [Slots -> Timer], NEW kind \in {"checkpoint", "report"},
         NEW new \in Stopped(ts, kind)
  PROVE  new \in [Slots -> Timer]
<1>1. NoTimer \in Timer
  BY DEF NoTimer, Timer
<1> QED BY <1>1 DEF Stopped, Active

(* The clocks stay clocks while time passes.                               *)
LEMMA ClocksType ==
  ASSUME TypeOK, NEW k \in Nat
  PROVE  DueAfter(k) \in Int /\ Idler(k) \in Nat /\ Older(k) \in 0 .. Patience
  <1>1. DueAfter(k) \in Int
    BY AtLeastZeroNat DEF DueAfter, TypeOK
  <1>2. Idler(k) \in Nat
    BY DEF Idler, TypeOK
  <1>3. Older(k) \in 0 .. Patience
    BY Bounds DEF Older, TypeOK
  <1> QED BY <1>1, <1>2, <1>3

(* A counted subset of the slots is not larger than the table.             *)
LEMMA FewSlots ==
  ASSUME NEW S \in SUBSET Slots
  PROVE  Airtime * Cardinality(S) \in 0 .. Firing
<1>1. IsFiniteSet(Slots) /\ Cardinality(Slots) = MaxTimers
  <2>1. 1 \in Int /\ MaxTimers \in Int /\ MaxTimers - 1 + 1 = MaxTimers /\ ~(1 > MaxTimers)
    BY StationAssumption
  <2> QED BY <2>1, FS_Interval DEF Slots
<1>2. Cardinality(S) \in Nat /\ Cardinality(S) <= MaxTimers
  BY <1>1, FS_Subset, FS_CardinalityType
<1>3. \A n, m, a \in Nat : n <= m => a * n \in 0 .. (m * a)
  OBVIOUS
<1> QED BY <1>2, <1>3, StationAssumption DEF Firing

-----------------------------------------------------------------------------
(* Type correctness                                                        *)

LEMMA InitType == Init => TypeOK
<1> SUFFICES ASSUME Init PROVE TypeOK
  OBVIOUS
<1>1. timers \in [Slots -> Timer] /\ session \in Session
  BY DEF Init, NoTimer, Timer, Session
<1>2. queue \in Seq(Frames) /\ batch \in 0 .. Len(queue)
  BY DEF Init
<1>3. age \in 0 .. Patience
  BY Bounds DEF Init
<1>4. program \in Programs /\ pc \in Labels /\ due \in Int /\ wake \in Nat
  BY DEF Init, Labels
<1>5. running \in BOOLEAN /\ gone \in BOOLEAN /\ lagged \in BOOLEAN
        /\ rc \in {-1, 0, 1} /\ idle \in Nat
  BY DEF Init
<1> QED BY <1>1, <1>2, <1>3, <1>4, <1>5 DEF TypeOK

(* The timers are run.                                                     *)
LEMMA FireType ==
  TypeOK /\ FireExpired =>
    /\ due' \in Int /\ idle' \in Nat /\ age' \in 0 .. Patience
    /\ timers' \in [Slots -> Timer] /\ session' \in Session
<1> SUFFICES ASSUME TypeOK, FireExpired
             PROVE  /\ due' \in Int /\ idle' \in Nat /\ age' \in 0 .. Patience
                    /\ timers' \in [Slots -> Timer] /\ session' \in Session
  OBVIOUS
<1> DEFINE ended == {i \in Expired : Exhausted(i)}
           closing == {i \in ended : timers[i].kind = "checkpoint"}
           writing == {i \in Expired \ ended :
                         timers[i].kind = "checkpoint" =>
                           session.open /\ \A j \in closing : i < j}
<1>1. PICK k \in 0 .. Airtime * Cardinality(writing) :
        /\ timers' = [i \in Slots |->
             IF i \in ended THEN NoTimer
             ELSE IF i \in Expired THEN Retried(timers[i], k)
             ELSE Aged(timers, k)[i]]
        /\ due' = DueAfter(k) /\ idle' = Idler(k) /\ age' = Older(k)
        /\ session' = IF closing # {} /\ session.open
                      THEN [session EXCEPT !.open = FALSE, !.cancelled = "retries"]
                      ELSE session
  BY DEF FireExpired
<1>2. k \in Nat
  <2>1. writing \in SUBSET Slots
    BY DEF Expired, Active
  <2> HIDE DEF writing
  <2> QED BY <2>1, FewSlots, Bounds
<1>3. timers' \in [Slots -> Timer]
  <2>1. Aged(timers, k) \in [Slots -> Timer]
    BY <1>2, AgedType DEF TypeOK
  <2>2. ASSUME NEW t \in Timer PROVE Retried(t, k) \in Timer
    BY <1>2, RetriedType
  <2>3. NoTimer \in Timer
    BY DEF NoTimer, Timer
  <2> HIDE DEF ended
  <2> QED BY <1>1, <2>1, <2>2, <2>3 DEF TypeOK
<1>4. session' \in Session
  BY <1>1 DEF TypeOK, Session
<1> QED BY <1>1, <1>2, <1>3, <1>4, ClocksType

(* A beacon goes out, or not.                                              *)
LEMMA TransmitType ==
  TypeOK /\ BeaconTransmit =>
    due' \in Int /\ idle' \in Nat /\ age' \in 0 .. Patience /\ timers' \in [Slots -> Timer]
<1> SUFFICES ASSUME TypeOK, BeaconTransmit
             PROVE  /\ due' \in Int /\ idle' \in Nat /\ age' \in 0 .. Patience
                    /\ timers' \in [Slots -> Timer]
  OBVIOUS
<1>1. CASE \E k \in 0 .. BeaconAir :
             due' = Interval /\ idle' = 0 /\ age' = Older(k) /\ timers' = Aged(timers, k)
  <2>1. PICK k \in 0 .. BeaconAir :
          due' = Interval /\ idle' = 0 /\ age' = Older(k) /\ timers' = Aged(timers, k)
    BY <1>1
  <2>2. k \in Nat /\ Interval \in Int
    BY StationAssumption
  <2>3. age' \in 0 .. Patience
    BY <2>1, <2>2, ClocksType
  <2>4. timers' \in [Slots -> Timer]
    BY <2>1, <2>2, AgedType DEF TypeOK
  <2> QED BY <2>1, <2>2, <2>3, <2>4
<1>2. CASE idle' = 0 /\ UNCHANGED <<due, age, timers>>
  BY <1>2 DEF TypeOK
<1> QED BY <1>1, <1>2 DEF BeaconTransmit

(* What becomes of one frame.                                              *)
Processing(f, k) ==
  /\ Spends(k)
  /\ \/ HearCheckpoint(k)
     \/ HearReport(f, k)
     \/ HearReportAck(k)
     \/ HearCancel(k)
     \/ k = 0 /\ UNCHANGED engine

LEMMA OneFrame ==
  TypeOK /\ ProcessFrame =>
    \E f \in Frames, k \in 0 .. (1 + Burst) * Airtime : Processing(f, k)
<1> SUFFICES ASSUME TypeOK, ProcessFrame
             PROVE  \E f \in Frames,
                       k \in 0 .. (1 + Burst) * Airtime : Processing(f, k)
  OBVIOUS
<1>1. /\ queue \in Seq(Frames)
      /\ batch \in 0 .. Len(queue) /\ batch > 0
  BY DEF ProcessFrame, TypeOK
<1>2. queue # <<>>
  BY <1>1
<1>3. Head(queue) \in Frames
  BY <1>1, <1>2, HeadTailProperties
<1> QED BY <1>3 DEF ProcessFrame, Processing

(* A frame is processed.                                                   *)
LEMMA ProcessType == TypeOK /\ ProcessFrame => TypeOK'
<1> SUFFICES ASSUME TypeOK, ProcessFrame PROVE TypeOK'
  OBVIOUS
<1>1. PICK f \in Frames, k \in 0 .. (1 + Burst) * Airtime :
        Processing(f, k)
  BY OneFrame
<1>2. k \in Nat
  BY StationAssumption
<1>3. due' \in Int /\ idle' \in Nat /\ age' \in 0 .. Patience
  BY <1>1, <1>2, ClocksType DEF Processing, Spends
<1>4. timers' \in [Slots -> Timer] /\ session' \in Session
  <2>0. Aged(timers, k) \in [Slots -> Timer] /\ timers \in [Slots -> Timer]
    BY <1>2, AgedType DEF TypeOK
  <2>1. CASE HearCheckpoint(k)
    BY <2>0, <2>1, StartedType DEF HearCheckpoint, TypeOK
  <2>2. CASE HearReport(f, k)
    <3>1. PICK ts \in Stopped(Aged(timers, k), "checkpoint") :
            timers' = ts \/ timers' \in Started(ts, "checkpoint")
      BY <2>2 DEF HearReport
    <3>2. ts \in [Slots -> Timer]
      BY <2>0, StoppedType
    <3>3. timers' \in [Slots -> Timer]
      BY <3>1, <3>2, StartedType
    <3>4. session' = [session EXCEPT !.completed = TRUE] \/ session' = session
      BY <2>2 DEF HearReport
    <3> QED BY <3>3, <3>4 DEF TypeOK, Session
  <2>3. CASE HearReportAck(k)
    BY <2>0, <2>3, StoppedType DEF HearReportAck, TypeOK
  <2>4. CASE HearCancel(k)
    BY <2>0, <2>4 DEF HearCancel, TypeOK, Session
  <2>5. CASE UNCHANGED engine
    BY <2>5 DEF engine, TypeOK
  <2> QED BY <1>1, <2>1, <2>2, <2>3, <2>4, <2>5 DEF Processing
<1>5. queue' \in Seq(Frames) /\ batch' \in 0 .. Len(queue')
  <2>1. /\ queue \in Seq(Frames)
        /\ batch \in 0 .. Len(queue) /\ batch > 0
    BY DEF ProcessFrame, TypeOK
  <2>2. queue' = Tail(queue) /\ batch' = batch - 1
    BY DEF ProcessFrame
  <2> QED BY <2>1, <2>2
<1> QED BY <1>3, <1>4, <1>5 DEF ProcessFrame, TypeOK, outside

(* The first steps of the programs.                                        *)
LEMMA StartType == TypeOK /\ (StartBeacon \/ StartOther \/ StartSend) => TypeOK'
<1> SUFFICES ASSUME TypeOK, StartBeacon \/ StartOther \/ StartSend PROVE TypeOK'
  OBVIOUS
<1> USE DEF TypeOK, Labels, Goto, Return, input, outside
<1>1. CASE StartBeacon
  BY <1>1, StationAssumption DEF StartBeacon, engine
<1>2. CASE StartOther
  <2>1. due' \in Int
    BY <1>2, StationAssumption DEF StartOther
  <2> QED BY <1>2, <2>1 DEF StartOther, engine
<1>3. CASE StartSend
  <2>1. due' \in Int /\ idle' \in Nat
    <3> HIDE DEF TypeOK, Labels, Goto, Return, input, outside
    <3>1. \/ \E k \in 0 .. Burst * Airtime :
                idle' = k /\ due' \in 0 .. AtLeastZero(Interval - k)
          \/ due' = due /\ idle' = idle
      BY <1>3 DEF StartSend
    <3>2. ASSUME NEW k \in 0 .. Burst * Airtime
          PROVE  k \in Nat /\ 0 .. AtLeastZero(Interval - k) \subseteq Int
      BY Bounds
    <3>3. due \in Int /\ idle \in Nat
      BY DEF TypeOK
    <3> QED BY <3>1, <3>2, <3>3
  <2>2. timers' \in [Slots -> Timer] /\ session' \in Session
    BY <1>3, StartedType DEF StartSend, engine, Session
  <2> QED BY <1>3, <2>1, <2>2 DEF StartSend
<1> QED BY <1>1, <1>2, <1>3

(* A beacon's turn, and a sender's look at its session.                    *)
LEMMA BeaconType == TypeOK /\ (Beacon \/ Check) => TypeOK'
<1> SUFFICES ASSUME TypeOK, Beacon \/ Check PROVE TypeOK'
  OBVIOUS
<1>1. /\ due' \in Int /\ idle' \in Nat /\ age' \in 0 .. Patience
      /\ timers' \in [Slots -> Timer]
  <2>1. CASE UNCHANGED clocks
    BY <2>1 DEF clocks, TypeOK
  <2>2. CASE BeaconTransmit
    BY <2>2, TransmitType
  <2>3. CASE /\ \E k \in 0 .. BeaconAir : due' = due - k + Interval
             /\ idle' = 0 /\ UNCHANGED <<age, timers>>
    BY <2>3, StationAssumption DEF TypeOK
  <2> QED BY <2>1, <2>2, <2>3 DEF Beacon, Check
<1> QED BY <1>1 DEF Beacon, Check, Goto, Return, TypeOK, Labels, input, outside

(* Where a program can be, and what holds there besides types: only the    *)
(* software radio's beacon falls behind, and it never polls; without it    *)
(* poll() might be given a time before now.                                *)
Placed ==
  /\ pc = "start" \/ ~HasEngine => Active(timers) = {}
  /\ pc \in {"tested", "sleep"} => program # "sdr_beacon"
  /\ pc \in {"process", "fire"} => HasEngine
  /\ pc = "fire0" => EngineLoop
  /\ pc = "beacon" => HasBeacon
  /\ pc = "check" \/ session.open \/ session.cancelled = "retries" => Sends
  /\ program # "sdr_beacon" => due >= 0
  /\ HasBeacon \/ idle = 0

(* poll() waits for the nearest end, and returns.                          *)
LEMMA PollType == TypeOK /\ Placed /\ (Poll \/ TimedOut \/ Readable \/ HungUp) => TypeOK'
<1> SUFFICES ASSUME TypeOK, Placed, Poll \/ TimedOut \/ Readable \/ HungUp PROVE TypeOK'
  OBVIOUS
<1> USE DEF TypeOK, Labels, Goto, Return, input, outside, clocks, AfterRead
<1>1. CASE Poll
  <2>1. TimersDue \subseteq Nat
    BY AtLeastZeroNat DEF Timer, TimersDue, Active
  <2>2. Ends \subseteq Nat
    BY <1>1, <2>1 DEF Ends, Placed, Poll
  <2>3. wake' \in Nat \cup {Forever}
    <3>1. CASE Ends # {}
      BY <1>1, <2>2, <3>1 DEF Poll
    <3>2. CASE Ends = {}
      BY <1>1, <3>2 DEF Poll, OneSecond
    <3> QED BY <3>1, <3>2
  <2> QED BY <1>1, <2>3 DEF Poll
<1>2. CASE TimedOut
  BY <1>2 DEF TimedOut, Stay
<1>3. CASE Readable
  BY <1>3 DEF Readable
<1>4. CASE HungUp
  BY <1>4 DEF HungUp
<1> QED BY <1>1, <1>2, <1>3, <1>4

(* Every step keeps the types.                                             *)
LEMMA NextType == TypeOK /\ Placed /\ [Next]_vars => TypeOK'
<1> SUFFICES ASSUME TypeOK, Placed, [Next]_vars PROVE TypeOK'
  OBVIOUS
<1>1. CASE StartBeacon \/ StartOther \/ StartSend
  BY <1>1, StartType
<1>2. CASE Poll \/ TimedOut \/ Readable \/ HungUp
  BY <1>2, PollType
<1>3. CASE Beacon \/ Check
  BY <1>3, BeaconType
<1>4. CASE ProcessFrame
  BY <1>4, ProcessType
<1>5. CASE FireOnTimeout \/ Fire
  BY <1>5, FireType DEF FireOnTimeout, Fire, Stay, Goto, TypeOK, Labels, input, outside
<1>6. CASE Loop \/ Processed
  BY <1>6 DEF Loop, Processed, Stay, Goto, Return, TypeOK, Labels, input, outside, clocks
<1>7. CASE Sleep \/ Lag
  <2>1. \E k \in Nat : Elapse(k)
    BY <1>7 DEF Sleep, Lag
  <2>2. /\ due' \in Int /\ idle' \in Nat /\ age' \in 0 .. Patience
        /\ timers' \in [Slots -> Timer]
    BY <2>1, ClocksType, AgedType DEF Elapse, TypeOK
  <2>3. wake' \in Nat \cup {Forever}
    BY <1>7, StationAssumption DEF Sleep, Lag, TypeOK
  <2> QED BY <1>7, <2>2, <2>3 DEF Sleep, Lag, TypeOK, input, outside
<1>8. CASE Unplug \/ Signal
  BY <1>8 DEF Unplug, Signal, Goto, TypeOK, Labels, input, outside, clocks
<1>9. ASSUME NEW f \in Heard, Hear(f) PROVE TypeOK'
  <2>1. queue' \in Seq(Frames) /\ Len(queue') = Len(queue) + 1
    BY <1>9, StationAssumption DEF Hear, TypeOK
  <2>2. batch' \in 0 .. Len(queue')
    BY <1>9, <2>1 DEF Hear, TypeOK
  <2> QED BY <1>9, <2>1, <2>2 DEF Hear, TypeOK, outside, clocks
<1>10. CASE UNCHANGED vars
  BY <1>10 DEF vars, engine, input, outside, TypeOK
<1> QED
  BY <1>1, <1>2, <1>3, <1>4, <1>5, <1>6, <1>7, <1>8, <1>9, <1>10 DEF Next, Step

-----------------------------------------------------------------------------
(* Lateness.  The invariants that the bounds rest on, place by place.      *)

(* What one frame of a read() can make the engine write.                   *)
FrameAir == (1 + Burst) * Airtime

(* Ticks a pass may have spent beside its sleep, by where it is.           *)
Spent ==
  CASE pc \in {"start", "loop", "check"} -> IF lagged THEN 0 ELSE -1
    [] pc = "process" -> (MaxBatch - batch) * FrameAir
    [] pc = "fire" -> Reading
    [] pc \in {"beacon", "done"} -> Reading + Firing
    [] OTHER -> 0

LateBy(n) == \A i \in Active(timers) : timers[i].left >= -n

(* poll() does not sleep beyond the end of anything it waits for.          *)
SleepsNoLonger ==
  pc = "sleep" =>
    /\ HasBeacon => wake \in Nat /\ wake <= due
    /\ \A i \in Active(timers) : wake \in Nat /\ wake <= AtLeastZero(timers[i].left)

(* Timers are as late as the last pass left them, and this one's share.    *)
TimersHeld ==
  /\ pc = "process" => batch <= MaxBatch
  /\ pc = "beacon" => LateBy(Firing - 1)
  /\ pc # "done" => LateBy(Firing + BeaconAir + Spent)

FirstWait == Longest(Interval, 1 + Burst * Airtime)

(* While the beacon is not due, its interval is not over either; when it   *)
(* is, only this pass stands before it.                                    *)
BeaconHeld ==
  /\ pc = "start" => idle = 0
  /\ HasBeacon /\ due > 0 => idle + due <= Interval
  /\ HasBeacon => idle <= FirstWait + Spent

(* A sender's checkpoint timer has had every wait it counts in full.       *)
WaitsPaid ==
  /\ Sends => \A i \in Active(timers) :
       timers[i].kind = "checkpoint" =>
         age = Patience \/ age >= (timers[i].retries + 1) * Duration - timers[i].left
  /\ GivenUpAfterAllRetries

IInv == TypeOK /\ Placed /\ SleepsNoLonger /\ TimersHeld /\ BeaconHeld /\ WaitsPaid

-----------------------------------------------------------------------------
(* What becomes of the timers in a step of k ticks                         *)

Carried(i, k) ==
  /\ i \in Active(timers)
  /\ timers'[i].left = timers[i].left - k
  /\ timers'[i].kind = timers[i].kind /\ timers'[i].retries = timers[i].retries

Fresh(i) == timers'[i].left = Duration /\ timers'[i].retries = 0

Renewed(i, k) ==
  /\ i \in Active(timers) /\ timers[i].left <= 0
  /\ timers'[i].left = Duration - k
  /\ timers'[i].kind = timers[i].kind /\ timers'[i].retries = timers[i].retries + 1

(* Time alone carries every timer.                                         *)
LEMMA AgedTimers ==
  ASSUME NEW ts \in [Slots -> Timer], NEW k \in Nat
  PROVE  /\ Active(Aged(ts, k)) = Active(ts)
         /\ \A i \in Active(ts) :
              /\ Aged(ts, k)[i].left = ts[i].left - k
              /\ Aged(ts, k)[i].kind = ts[i].kind /\ Aged(ts, k)[i].retries = ts[i].retries
<1> DEFINE Later(t) == [t EXCEPT !.left = @ - k]
<1>1. ASSUME NEW t \in Timer
      PROVE  /\ Later(t).active = t.active
             /\ Later(t).left = t.left - k
             /\ Later(t).kind = t.kind
             /\ Later(t).retries = t.retries
  BY DEF Timer
<1>2. \A i \in Slots : Aged(ts, k)[i] = IF ts[i].active THEN Later(ts[i]) ELSE ts[i]
  BY DEF Aged
<1>3. \A i \in Slots : ts[i] \in Timer
  OBVIOUS
<1> HIDE DEF Later
<1>4. ASSUME NEW i \in Slots
      PROVE  /\ Aged(ts, k)[i].active = ts[i].active
             /\ ts[i].active => /\ Aged(ts, k)[i].left = ts[i].left - k
                                /\ Aged(ts, k)[i].kind = ts[i].kind
                                /\ Aged(ts, k)[i].retries = ts[i].retries
  BY <1>1, <1>2, <1>3
<1> QED BY <1>4 DEF Active

LEMMA ElapsedTimers ==
  ASSUME TypeOK, NEW k \in Nat, timers' = Aged(timers, k)
  PROVE  Active(timers') = Active(timers) /\ \A i \in Active(timers') : Carried(i, k)
BY AgedTimers DEF TypeOK, Carried

(* A started timer is fresh, the others are as they were.                  *)
LEMMA StartedTimers ==
  ASSUME NEW ts \in [Slots -> Timer], NEW kind \in {"checkpoint", "report"},
         NEW new \in Started(ts, kind), NEW i \in Active(new)
  PROVE  \/ i \in Active(ts) /\ new[i] = ts[i]
         \/ new[i].left = Duration /\ new[i].retries = 0
<1>1. CASE Active(ts) = Slots
  BY <1>1 DEF Started
<1>2. CASE Active(ts) # Slots
  <2>1. PICK j \in Slots :
          new = [ts EXCEPT ![j] = [active |-> TRUE, kind |-> kind,
                                   left |-> Duration, retries |-> 0]]
    BY <1>2 DEF Started, FirstFree
  <2> QED BY <2>1 DEF Active
<1> QED BY <1>1, <1>2

LEMMA StoppedTimers ==
  ASSUME NEW ts \in [Slots -> Timer], NEW kind \in {"checkpoint", "report"},
         NEW new \in Stopped(ts, kind), NEW i \in Active(new)
  PROVE  i \in Active(ts) /\ new[i] = ts[i]
BY DEF Stopped, Active, NoTimer

(* Processing a frame carries timers and starts fresh ones.                *)
LEMMA HeardTimers ==
  ASSUME TypeOK, ProcessFrame
  PROVE  \E k \in 0 .. FrameAir :
           /\ Spends(k)
           /\ \A i \in Active(timers') : Carried(i, k) \/ Fresh(i)
           /\ session'.open => session.open
           /\ session'.cancelled = "retries" => session.cancelled = "retries"
<1>1. PICK f \in Frames, k \in 0 .. (1 + Burst) * Airtime :
        Processing(f, k)
  BY OneFrame
<1>2. k \in Nat
  BY StationAssumption
<1>3. Spends(k)
  BY <1>1 DEF Processing
<1>4. Aged(timers, k) \in [Slots -> Timer] /\ timers \in [Slots -> Timer]
  BY <1>2, AgedType DEF TypeOK
<1>5. \A i \in Active(timers') : Carried(i, k) \/ Fresh(i)
  <2>1. CASE HearCheckpoint(k)
    <3>1. ASSUME NEW i \in Active(timers') PROVE Carried(i, k) \/ Fresh(i)
      <4>1. timers' \in Started(Aged(timers, k), "report")
        BY <2>1 DEF HearCheckpoint
      <4>2. \/ i \in Active(Aged(timers, k)) /\ timers'[i] = Aged(timers, k)[i]
            \/ timers'[i].left = Duration /\ timers'[i].retries = 0
        BY <1>4, <3>1, <4>1, StartedTimers
      <4> QED BY <1>2, <1>4, <4>2, AgedTimers DEF Carried, Fresh
    <3> QED BY <3>1
  <2>2. CASE HearReport(f, k)
    <3>1. ASSUME NEW ts \in Stopped(Aged(timers, k), "checkpoint"), timers' = ts
          PROVE  \A i \in Active(timers') : Carried(i, k)
      BY <1>2, <1>4, <3>1, StoppedTimers, AgedTimers DEF Carried
    <3>2. ASSUME NEW ts \in Stopped(Aged(timers, k), "checkpoint"),
                 timers' \in Started(ts, "checkpoint"), NEW i \in Active(timers')
          PROVE  Carried(i, k) \/ Fresh(i)
      <4>1. ts \in [Slots -> Timer]
        BY <1>4, StoppedType
      <4>2. \/ i \in Active(ts) /\ timers'[i] = ts[i]
            \/ timers'[i].left = Duration /\ timers'[i].retries = 0
        BY <4>1, <3>2, StartedTimers
      <4>3. i \in Active(ts) => i \in Active(Aged(timers, k)) /\ ts[i] = Aged(timers, k)[i]
        BY <1>4, StoppedTimers
      <4> QED BY <1>2, <1>4, <4>2, <4>3, AgedTimers DEF Carried, Fresh
    <3> QED BY <2>2, <3>1, <3>2 DEF HearReport
  <2>3. CASE HearReportAck(k)
    <3>1. ASSUME NEW i \in Active(timers') PROVE i \in Active(timers) /\ timers'[i] = timers[i]
      <4>1. timers' \in Stopped(timers, "report")
        BY <2>3 DEF HearReportAck
      <4> QED BY <1>4, <3>1, <4>1, StoppedTimers
    <3>2. k = 0 /\ \A i \in Active(timers) : timers[i].left \in Int
      BY <1>4, <2>3 DEF HearReportAck, Active, Timer
    <3> QED BY <3>1, <3>2 DEF Carried
  <2>4. CASE HearCancel(k)
    BY <1>2, <2>4, ElapsedTimers DEF HearCancel
  <2>5. CASE k = 0 /\ UNCHANGED engine
    <3>1. \A i \in Active(timers) : timers[i].left \in Int
      BY <1>4 DEF Active, Timer
    <3> QED BY <2>5, <3>1 DEF engine, Carried
  <2> QED BY <1>1, <2>1, <2>2, <2>3, <2>4, <2>5 DEF Processing
<1>6. /\ session'.open => session.open
      /\ session'.cancelled = "retries" => session.cancelled = "retries"
  <2>1. session \in Session
    BY DEF TypeOK
  <2> QED BY <1>1, <2>1 DEF Processing, HearCheckpoint, HearReport, HearReportAck, HearCancel,
                            engine, Session
<1> QED BY <1>3, <1>5, <1>6 DEF FrameAir

(* Running the timers carries those that have time left and renews the     *)
(* others; it gives up only a session whose timer used up its retries.     *)
LEMMA FiredTimers ==
  ASSUME TypeOK, FireExpired
  PROVE  \E k \in 0 .. Firing :
           /\ Spends(k)
           /\ \A i \in Active(timers') :
                (timers[i].left > 0 /\ Carried(i, k)) \/ Renewed(i, k)
           /\ \/ UNCHANGED session
              \/ /\ session.open /\ ~session'.open /\ session'.cancelled = "retries"
                 /\ \E i \in Active(timers) :
                      /\ timers[i].kind = "checkpoint" /\ timers[i].left <= 0
                      /\ timers[i].retries + 1 >= MaxRetries
<1> DEFINE ended == {i \in Expired : Exhausted(i)}
           closing == {i \in ended : timers[i].kind = "checkpoint"}
           writing == {i \in Expired \ ended :
                         timers[i].kind = "checkpoint" =>
                           session.open /\ \A j \in closing : i < j}
<1>1. PICK k \in 0 .. Airtime * Cardinality(writing) :
        /\ timers' = [i \in Slots |->
             IF i \in ended THEN NoTimer
             ELSE IF i \in Expired THEN Retried(timers[i], k)
             ELSE Aged(timers, k)[i]]
        /\ due' = DueAfter(k) /\ idle' = Idler(k) /\ age' = Older(k)
        /\ session' = IF closing # {} /\ session.open
                      THEN [session EXCEPT !.open = FALSE, !.cancelled = "retries"]
                      ELSE session
  BY DEF FireExpired
<1>2. k \in 0 .. Firing /\ k \in Nat
  <2>1. writing \in SUBSET Slots
    BY DEF Expired, Active
  <2> HIDE DEF writing
  <2> QED BY <2>1, FewSlots, Bounds
<1>3. ASSUME NEW i \in Active(timers')
      PROVE  (timers[i].left > 0 /\ Carried(i, k)) \/ Renewed(i, k)
  <2>1. i \in Slots /\ timers[i] \in Timer /\ timers'[i].active
    BY <1>3 DEF Active, TypeOK
  <2>2. i \notin ended
    BY <1>1, <2>1 DEF NoTimer
  <2>3. CASE i \in Expired
    <3>1. timers'[i] = Retried(timers[i], k)
      BY <1>1, <2>1, <2>2, <2>3
    <3>2. i \in Active(timers) /\ timers[i].left <= 0
      BY <2>3 DEF Expired
    <3>3. /\ Retried(timers[i], k).left = Duration - k
          /\ Retried(timers[i], k).kind = timers[i].kind
          /\ Retried(timers[i], k).retries = timers[i].retries + 1
      BY <2>1 DEF Retried, Timer
    <3> QED BY <3>1, <3>2, <3>3 DEF Renewed
  <2>4. CASE i \notin Expired
    <3>1. timers'[i] = Aged(timers, k)[i]
      BY <1>1, <2>1, <2>2, <2>4
    <3>2. i \in Active(Aged(timers, k))
      BY <2>1, <3>1, <1>2, AgedType DEF Active, TypeOK
    <3>3. i \in Active(timers) /\ Carried(i, k)
      BY <1>2, <3>1, <3>2, AgedTimers DEF Carried, TypeOK
    <3>4. timers[i].left > 0
      BY <2>1, <2>4, <3>3 DEF Expired, Timer
    <3> QED BY <3>3, <3>4
  <2> QED BY <2>3, <2>4
<1>4. \/ UNCHANGED session
      \/ /\ session.open /\ ~session'.open /\ session'.cancelled = "retries"
         /\ closing # {}
  BY <1>1 DEF TypeOK, Session
<1>5. closing # {} => \E i \in Active(timers) :
                        /\ timers[i].kind = "checkpoint" /\ timers[i].left <= 0
                        /\ timers[i].retries + 1 >= MaxRetries
  BY DEF Expired, Exhausted
<1>6. Spends(k)
  BY <1>1 DEF Spends
<1> HIDE DEF closing
<1> QED BY <1>2, <1>3, <1>4, <1>5, <1>6

-----------------------------------------------------------------------------
(* Where a program can be                                                  *)

LEMMA InitPlaced == Init => Placed
BY DEF Init, Placed, Active, NoTimer, HasEngine, HasBeacon, EngineLoop, Sends

(* An elapse keeps what is placed.                                         *)
LEMMA ElapsePlaced ==
  ASSUME TypeOK, Placed, NEW k \in Nat
  PROVE  /\ program # "sdr_beacon" => DueAfter(k) >= 0
         /\ HasBeacon \/ Idler(k) = 0
         /\ Active(timers) = {} => Active(Aged(timers, k)) = {}
<1>1. program # "sdr_beacon" => DueAfter(k) >= 0
  <2>1. due - k \in Int
    BY DEF TypeOK
  <2> QED BY <2>1, AtLeastZeroNat DEF DueAfter
<1>2. HasBeacon \/ Idler(k) = 0
  BY DEF Idler, Placed
<1>3. Active(Aged(timers, k)) = Active(timers)
  <2>1. timers \in [Slots -> Timer]
    BY DEF TypeOK
  <2> QED BY <2>1, AgedTimers
<1> QED BY <1>1, <1>2, <1>3

(* A beacon that goes out takes the place of the last one.                 *)
LEMMA SentTimers ==
  ASSUME TypeOK, BeaconTransmit
  PROVE  /\ idle' = 0 /\ (due' = Interval \/ due' = due)
         /\ \E k \in 0 .. BeaconAir :
              /\ age' = Older(k) \/ (k = 0 /\ age' = age)
              /\ Active(timers') = Active(timers)
              /\ \A i \in Active(timers') : Carried(i, k)
<1>0. idle' = 0 /\ (due' = Interval \/ due' = due)
  BY DEF BeaconTransmit
<1>1. CASE \E k \in 0 .. BeaconAir : age' = Older(k) /\ timers' = Aged(timers, k)
  <2>1. PICK k \in 0 .. BeaconAir : age' = Older(k) /\ timers' = Aged(timers, k)
    BY <1>1
  <2>2. k \in Nat
    BY StationAssumption
  <2>3. Active(timers') = Active(timers) /\ \A i \in Active(timers') : Carried(i, k)
    BY <2>1, <2>2, ElapsedTimers
  <2> QED BY <1>0, <2>1, <2>3
<1>2. CASE idle' = 0 /\ UNCHANGED <<due, age, timers>>
  <2>1. 0 \in 0 .. BeaconAir
    BY StationAssumption
  <2>2. \A i \in Active(timers) : timers[i].left \in Int
    BY DEF Active, Timer, TypeOK
  <2>3. \A i \in Active(timers') : Carried(i, 0)
    BY <1>2, <2>2 DEF Carried
  <2> QED BY <1>0, <1>2, <2>1, <2>3
<1> QED BY <1>1, <1>2 DEF BeaconTransmit

LEMMA NextPlaced == TypeOK /\ Placed /\ [Next]_vars => Placed'
<1> SUFFICES ASSUME TypeOK, Placed, [Next]_vars PROVE Placed'
  OBVIOUS
<1>0. UNCHANGED program
  BY DEF Next, Step, StartBeacon, StartOther, StartSend, Loop, Poll, TimedOut, Readable, HungUp,
         ProcessFrame, Processed, FireOnTimeout, Fire, Beacon, Check, Sleep, Lag, Unplug, Signal,
         Hear, Stay, vars
<1> USE <1>0 DEF Placed, HasEngine, EngineLoop, HasBeacon, Sends, Goto, Return
<1>1. CASE StartBeacon \/ StartOther
  BY <1>1, StationAssumption DEF StartBeacon, StartOther, engine
<1>2. CASE StartSend
  BY <1>2, Bounds, StationAssumption DEF StartSend, engine, AtLeastZero
<1>3. CASE Loop \/ Poll \/ TimedOut \/ Readable \/ HungUp \/ Processed
  BY <1>3 DEF Loop, Poll, TimedOut, Readable, HungUp, Processed, Stay, clocks, AfterRead, TypeOK, Known
<1>4. CASE ProcessFrame
  <2>1. PICK k \in 0 .. FrameAir : Spends(k) /\ (session'.open => session.open)
                /\ (session'.cancelled = "retries" => session.cancelled = "retries")
    BY <1>4, HeardTimers
  <2>2. k \in Nat
    BY StationAssumption DEF FrameAir
  <2> QED BY <1>4, <2>1, <2>2, ElapsePlaced DEF ProcessFrame, Spends
<1>5. CASE FireOnTimeout \/ Fire
  <2>1. PICK k \in 0 .. Firing : Spends(k) /\
                (UNCHANGED session \/ (session.open /\ ~session'.open))
    BY <1>5, FiredTimers DEF FireOnTimeout, Fire
  <2>2. k \in Nat
    BY Bounds
  <2> QED BY <1>5, <2>1, <2>2, ElapsePlaced DEF FireOnTimeout, Fire, Spends
<1>6. CASE Beacon \/ Check
  <2>1. CASE UNCHANGED clocks
    BY <1>6, <2>1 DEF Beacon, Check, clocks
  <2>2. CASE BeaconTransmit
    <3>1. idle' = 0 /\ (due' = Interval \/ due' = due) /\ Active(timers') = Active(timers)
      BY <2>2, SentTimers
    <3>2. program # "sdr_beacon" => due' >= 0
      BY <3>1, StationAssumption
    <3>3. ~HasEngine => Active(timers') = {}
      BY <3>1
    <3>4. session' = session /\ pc \in {"beacon", "check"}
      BY <1>6 DEF Beacon, Check
    <3>5. pc' \in {"loop", "check", "done"} /\ (pc' = "check" => Sends)
      BY <1>6 DEF Beacon, Check
    <3> QED BY <3>1, <3>2, <3>3, <3>4, <3>5
  <2>3. CASE /\ program = "sdr_beacon" /\ idle' = 0 /\ UNCHANGED <<age, timers>>
    BY <1>6, <2>3 DEF Beacon, Check
  <2> QED BY <1>6, <2>1, <2>2, <2>3 DEF Beacon, Check
<1>7. CASE Sleep \/ Lag
  <2>1. Elapse(1)
    BY <1>7 DEF Sleep, Lag
  <2> QED BY <1>7, <2>1, ElapsePlaced DEF Sleep, Lag, Elapse
<1>8. CASE Unplug \/ Signal
  BY <1>8 DEF Unplug, Signal, clocks
<1>9. ASSUME NEW f \in Heard, Hear(f) PROVE Placed'
  BY <1>9 DEF Hear, clocks
<1>10. CASE UNCHANGED vars
  BY <1>10 DEF vars, engine
<1> QED
  BY <1>1, <1>2, <1>3, <1>4, <1>5, <1>6, <1>7, <1>8, <1>9, <1>10 DEF Next, Step

-----------------------------------------------------------------------------
(* The time a pass has spent                                               *)

LEMMA FrameAirNat ==
  FrameAir \in Nat /\ Reading = MaxBatch * FrameAir /\ Reading \in Nat
<1>1. FrameAir \in Nat
  BY StationAssumption DEF FrameAir
<1>2. \A m, b, a \in Nat : m * (1 + b) * a = m * ((1 + b) * a)
  OBVIOUS
<1> QED BY <1>1, <1>2, Bounds, StationAssumption DEF FrameAir, Reading

LEMMA SpentType ==
  ASSUME TypeOK, TimersHeld
  PROVE  /\ Spent \in Int /\ Spent >= -1
         /\ pc \notin {"start", "loop", "check"} => Spent >= 0
<1>1. CASE pc = "process"
  <2>1. MaxBatch - batch \in Nat
    BY <1>1, StationAssumption DEF TypeOK, TimersHeld
  <2>2. \A n, a \in Nat : n * a \in Nat
    OBVIOUS
  <2>3. Spent = (MaxBatch - batch) * FrameAir
    BY <1>1 DEF Spent
  <2> QED BY <2>1, <2>2, <2>3, FrameAirNat
<1>2. CASE pc # "process"
  BY <1>2, Bounds DEF Spent, TypeOK
<1> QED BY <1>1, <1>2

(* Steps in which no time passes.                                          *)
Quiet ==
  \/ Loop \/ Poll \/ TimedOut \/ Readable \/ HungUp \/ Processed \/ Unplug \/ Signal
  \/ \E f \in Heard : Hear(f)
  \/ UNCHANGED vars

LEMMA QuietSteps ==
  ASSUME TypeOK, Placed, TimersHeld, Quiet
  PROVE  /\ UNCHANGED <<program, clocks, session>>
         /\ Spent' \in Int /\ Spent' >= Spent
         /\ pc' = "process" => batch' <= MaxBatch
         /\ pc' = "start" => pc = "start"
         /\ pc' = "beacon" => pc = "beacon" \/ ~HasEngine
         /\ pc = "done" => pc' = "done"
<1>1. UNCHANGED <<program, clocks, session>>
  BY DEF Quiet, Loop, Poll, TimedOut, Readable, HungUp, Processed, Unplug, Signal, Hear, Stay,
         vars, engine, clocks
<1>2. CASE Readable /\ HasEngine
  <2>1. batch' \in Nat /\ batch' <= MaxBatch /\ pc' = "process" /\ pc = "sleep"
    BY <1>2 DEF Readable, Goto
  <2>2. MaxBatch - batch' \in Nat
    <3>1. MaxBatch \in Nat
      BY StationAssumption
    <3>2. \A n, m \in Nat : n <= m => m - n \in Nat
      OBVIOUS
    <3> QED BY <2>1, <3>1, <3>2
  <2>3. \A n, a \in Nat : n * a \in Nat
    OBVIOUS
  <2>4. Spent' = (MaxBatch - batch') * FrameAir /\ Spent = 0
    BY <2>1 DEF Spent, FrameAir
  <2>5. (MaxBatch - batch') * FrameAir \in Nat
    BY <2>2, <2>3, FrameAirNat
  <2> QED BY <1>1, <2>1, <2>4, <2>5
<1>3. CASE Processed
  <2>1. pc = "process" /\ pc' = "fire" /\ batch = 0
    BY <1>3 DEF Processed, Goto
  <2>2. Spent = MaxBatch * FrameAir /\ Spent' = Reading
    BY <2>1, StationAssumption DEF Spent
  <2> QED BY <1>1, <2>1, <2>2, FrameAirNat
<1>4. CASE Loop \/ Poll \/ TimedOut \/ (Readable /\ ~HasEngine) \/ HungUp
  <2>1. /\ pc \in {"loop", "tested", "sleep"}
        /\ pc' \in {"tested", "sleep", "fire0", "fire", "beacon", "done"}
        /\ pc' = "beacon" => ~HasEngine
    BY <1>4 DEF Loop, Poll, TimedOut, Readable, HungUp, Goto, Return, AfterRead, HasEngine, EngineLoop
  <2>2. Spent \in {-1, 0}
    BY <2>1 DEF Spent, TypeOK
  <2>3. Spent' \in {0, Reading, Reading + Firing}
    BY <2>1 DEF Spent, Reading, Firing
  <2> QED BY <1>1, <2>1, <2>2, <2>3, Bounds
<1>5. CASE Unplug \/ (Signal /\ pc # "sleep") \/ (\E f \in Heard : Hear(f)) \/ UNCHANGED vars
  <2>1. UNCHANGED <<pc, batch, lagged>>
    BY <1>5 DEF Unplug, Signal, Hear, vars, input
  <2>2. Spent' = Spent
    BY <2>1 DEF Spent, Reading, Firing, FrameAir
  <2> QED BY <1>1, <2>1, <2>2, SpentType DEF TimersHeld
<1>6. CASE Signal /\ pc = "sleep"
  BY <1>1, <1>6 DEF Signal, Goto, Spent
<1> QED BY <1>2, <1>3, <1>4, <1>5, <1>6 DEF Quiet

-----------------------------------------------------------------------------
(* poll() sleeps no longer than it may                                     *)

LEMMA NextSleeps == TypeOK /\ Placed /\ SleepsNoLonger /\ [Next]_vars => SleepsNoLonger'
<1> SUFFICES ASSUME TypeOK, Placed, SleepsNoLonger, [Next]_vars, pc' = "sleep"
             PROVE  /\ HasBeacon' => wake' \in Nat /\ wake' <= due'
                    /\ \A i \in Active(timers') :
                         wake' \in Nat /\ wake' <= AtLeastZero(timers'[i].left)
  BY DEF SleepsNoLonger
<1>1. CASE Poll
  <2>1. UNCHANGED <<program, due, timers>>
    BY <1>1 DEF Poll, clocks
  <2>2. TimersDue \subseteq Nat
    BY AtLeastZeroNat DEF Timer, TimersDue, Active, TypeOK
  <2>3. Ends \subseteq Nat
    BY <1>1, <2>2 DEF Ends, Placed, Poll, TypeOK
  <2>4. \A n \in Ends : wake' \in Nat /\ wake' <= n
    BY <1>1, <2>3 DEF Poll
  <2>5. HasBeacon => due \in Ends
    BY DEF Ends
  <2>6. \A i \in Active(timers) : AtLeastZero(timers[i].left) \in Ends
    <3>1. CASE HasEngine
      BY <3>1 DEF Ends, TimersDue
    <3>2. CASE ~HasEngine
      BY <3>2 DEF Placed
    <3> QED BY <3>1, <3>2
  <2> QED BY <2>1, <2>4, <2>5, <2>6 DEF HasBeacon
<1>2. CASE Sleep
  <2>1. /\ pc = "sleep" /\ wake # 0 /\ program' = program
        /\ due' = DueAfter(1) /\ timers' = Aged(timers, 1)
        /\ wake' = IF wake = Forever THEN Forever ELSE wake - 1
    BY <1>2 DEF Sleep, Elapse
  <2>2. wake \in Nat => wake' \in Nat /\ wake' = wake - 1 /\ wake >= 1
    BY <2>1, StationAssumption
  <2>3. HasBeacon => wake' \in Nat /\ wake' <= due'
    <3>1. ASSUME HasBeacon PROVE wake' \in Nat /\ wake' <= due'
      <4>1. wake \in Nat /\ wake <= due /\ due \in Int
        BY <2>1, <3>1 DEF SleepsNoLonger, TypeOK
      <4>2. due' = due - 1
        BY <2>1, <2>2, <4>1 DEF DueAfter, AtLeastZero
      <4> QED BY <2>2, <4>1, <4>2
    <3> QED BY <3>1
  <2>4. ASSUME NEW i \in Active(timers')
        PROVE  wake' \in Nat /\ wake' <= AtLeastZero(timers'[i].left)
    <3>1. i \in Active(timers) /\ timers'[i].left = timers[i].left - 1
      BY <2>1, ElapsedTimers DEF Carried
    <3>2. timers[i].left \in Int
      BY <3>1 DEF Active, Timer, TypeOK
    <3>3. wake \in Nat /\ wake <= AtLeastZero(timers[i].left)
      BY <2>1, <3>1 DEF SleepsNoLonger
    <3>4. timers[i].left > 0 /\ wake <= timers[i].left
      BY <2>2, <3>2, <3>3 DEF AtLeastZero
    <3>5. wake' <= timers'[i].left
      BY <2>2, <3>1, <3>2, <3>3, <3>4
    <3> QED BY <2>2, <3>1, <3>2, <3>3, <3>5, AtLeastZeroNat
  <2> QED BY <2>1, <2>3, <2>4 DEF HasBeacon
<1>3. CASE pc = "sleep" /\ UNCHANGED <<program, wake, clocks>>
  BY <1>3 DEF SleepsNoLonger, clocks, HasBeacon
<1> QED
  BY <1>1, <1>2, <1>3 DEF Next, Step, StartBeacon, StartOther, StartSend, Loop, TimedOut, Readable,
     HungUp, ProcessFrame, Processed, FireOnTimeout, Fire, Beacon, Check, Lag, Unplug, Signal,
     Hear, Stay, Goto, Return, AfterRead, vars, clocks, engine

-----------------------------------------------------------------------------
(* Timers are not late by more than a pass                                 *)

LEMMA LateTimers ==
  ASSUME TypeOK, NEW n \in Int, NEW m \in Int, n <= m, LateBy(n)
  PROVE  LateBy(m)
<1>1. \A i \in Active(timers) : timers[i].left \in Int
  BY DEF Active, Timer, TypeOK
<1> QED BY <1>1 DEF LateBy

(* Quiet steps leave the timers alone.                                     *)
LEMMA QuietHolds == TypeOK /\ Placed /\ TimersHeld /\ Quiet => TimersHeld'
<1> SUFFICES ASSUME TypeOK, Placed, TimersHeld, Quiet PROVE TimersHeld'
  OBVIOUS
<1>1. /\ UNCHANGED <<program, timers>>
      /\ Spent' \in Int /\ Spent' >= Spent
      /\ pc' = "process" => batch' <= MaxBatch
      /\ pc' = "beacon" => pc = "beacon" \/ ~HasEngine
      /\ pc = "done" => pc' = "done"
  BY QuietSteps DEF clocks
<1>2. Spent \in Int /\ Firing + BeaconAir + Spent \in Int /\ Firing + BeaconAir + Spent' \in Int
        /\ Firing + BeaconAir + Spent <= Firing + BeaconAir + Spent'
  BY <1>1, SpentType, Bounds, StationAssumption
<1>3. ASSUME pc' # "done" PROVE LateBy(Firing + BeaconAir + Spent)'
  <2>1. LateBy(Firing + BeaconAir + Spent)
    BY <1>1, <1>3 DEF TimersHeld
  <2>2. LateBy(Firing + BeaconAir + Spent')
    BY <1>2, <2>1, LateTimers
  <2> QED BY <1>1, <2>2 DEF LateBy
<1>4. ASSUME pc' = "beacon" PROVE LateBy(Firing - 1)'
  <2>1. CASE pc = "beacon"
    BY <1>1, <2>1 DEF TimersHeld, LateBy, Firing
  <2>2. CASE ~HasEngine
    BY <1>1, <2>2 DEF Placed, LateBy
  <2> QED BY <1>1, <1>4, <2>1, <2>2
<1> QED BY <1>1, <1>3, <1>4 DEF TimersHeld

(* A step of k ticks after which every timer is carried or has Duration.   *)
LEMMA LaterBy ==
  ASSUME TypeOK, NEW n \in Int, n >= -1, NEW m \in Int, NEW k \in Nat, n + k <= m, LateBy(n),
         \A i \in Active(timers') : Carried(i, k) \/ Fresh(i)
  PROVE  \A i \in Active(timers') : timers'[i].left >= -m
<1> SUFFICES ASSUME NEW i \in Active(timers') PROVE timers'[i].left >= -m
  OBVIOUS
<1>1. CASE Carried(i, k)
  <2>1. timers[i].left \in Int /\ timers[i].left >= -n /\ timers'[i].left = timers[i].left - k
    BY <1>1 DEF Carried, Active, Timer, TypeOK, LateBy
  <2> QED BY <2>1
<1>2. CASE Fresh(i)
  <2>1. timers'[i].left = Duration /\ Duration \in Nat /\ Duration >= 1
    BY <1>2, StationAssumption DEF Fresh
  <2> QED BY <2>1
<1> QED BY <1>1, <1>2

(* What runs the timers leaves none later than the rest of the table takes. *)
LEMMA FiredInTime ==
  ASSUME TypeOK, FireExpired
  PROVE  \A i \in Active(timers') : timers'[i].left >= -(Firing - 1)
<1>1. PICK k \in 0 .. Firing :
        \A i \in Active(timers') : (timers[i].left > 0 /\ Carried(i, k)) \/ Renewed(i, k)
  BY FiredTimers
<1> SUFFICES ASSUME NEW i \in Active(timers') PROVE timers'[i].left >= -(Firing - 1)
  OBVIOUS
<1>2. k \in Nat /\ k <= Firing /\ Firing \in Nat
  BY Bounds
<1>3. CASE timers[i].left > 0 /\ Carried(i, k)
  <2>1. timers[i].left \in Int /\ timers'[i].left = timers[i].left - k
    BY <1>3 DEF Carried, Active, Timer, TypeOK
  <2> QED BY <1>2, <1>3, <2>1
<1>4. CASE Renewed(i, k)
  <2>1. timers'[i].left = Duration - k /\ Duration \in Nat /\ Duration >= 1
    BY <1>4, StationAssumption DEF Renewed
  <2> QED BY <1>2, <2>1
<1> QED BY <1>1, <1>3, <1>4

LEMMA NextTimers ==
  TypeOK /\ Placed /\ SleepsNoLonger /\ TimersHeld /\ [Next]_vars => TimersHeld'
<1> SUFFICES ASSUME TypeOK, Placed, SleepsNoLonger, TimersHeld, [Next]_vars PROVE TimersHeld'
  OBVIOUS
<1>0. /\ Firing \in Nat /\ BeaconAir \in Nat /\ Reading \in Nat /\ FrameAir \in Nat
      /\ Spent \in Int /\ Spent >= -1
  BY SpentType, FrameAirNat, Bounds, StationAssumption
<1>1. CASE StartBeacon \/ StartOther
  <2>1. Active(timers) = {} /\ timers' = timers /\ pc' \in {"loop", "done"}
    BY <1>1 DEF StartBeacon, StartOther, Placed, engine, Goto, Return
  <2> QED BY <2>1 DEF TimersHeld, LateBy
<1>2. CASE StartSend
  <2>1. Active(timers) = {} /\ pc' \in {"loop", "done"}
    BY <1>2 DEF StartSend, Placed, Goto, Return
  <2>2. \A i \in Active(timers') : timers'[i].left = Duration
    <3>1. CASE timers' \in Started(timers, "checkpoint")
      BY <2>1, <3>1, StartedTimers DEF TypeOK
    <3>2. CASE timers' = timers
      BY <2>1, <3>2
    <3> QED BY <1>2, <3>1, <3>2 DEF StartSend, engine
  <2>3. Spent' \in {-1, 0} \/ pc' = "done"
    BY <2>1 DEF Spent
  <2>4. Duration \in Nat /\ Duration >= 1
    BY StationAssumption
  <2>5. LateBy(Firing + BeaconAir + Spent)' \/ pc' = "done"
    BY <1>0, <2>2, <2>3, <2>4 DEF LateBy, Firing
  <2> QED BY <2>1, <2>5 DEF TimersHeld
<1>3. CASE Quiet
  BY <1>3, QuietHolds
<1>4. CASE Sleep
  <2>1. timers' = Aged(timers, 1) /\ pc = "sleep" /\ pc' = "sleep" /\ wake # 0
    BY <1>4 DEF Sleep, Elapse
  <2>2. ASSUME NEW i \in Active(timers') PROVE timers'[i].left \in Nat
    <3>1. i \in Active(timers) /\ timers'[i].left = timers[i].left - 1
      BY <2>1, ElapsedTimers DEF Carried
    <3>2. timers[i].left \in Int
      BY <3>1 DEF Active, Timer, TypeOK
    <3>3. wake \in Nat /\ wake <= AtLeastZero(timers[i].left)
      BY <2>1, <3>1 DEF SleepsNoLonger
    <3> QED BY <2>1, <3>1, <3>2, <3>3 DEF AtLeastZero
  <2>3. Spent' = 0
    BY <2>1 DEF Spent
  <2>4. LateBy(Firing + BeaconAir + Spent)'
    BY <1>0, <2>2, <2>3 DEF LateBy, Firing
  <2> QED BY <2>1, <2>4 DEF TimersHeld
<1>5. CASE Lag
  <2>1. timers' = Aged(timers, 1) /\ pc = "loop" /\ pc' = "loop" /\ Spent = -1 /\ Spent' = 0
    BY <1>5 DEF Lag, Elapse, Spent
  <2>2. LateBy(Firing + BeaconAir + Spent)
    BY <2>1 DEF TimersHeld
  <2>3. \A i \in Active(timers') : Carried(i, 1)
    BY <2>1, ElapsedTimers
  <2>5. /\ Firing + BeaconAir + Spent \in Int /\ Firing + BeaconAir + Spent >= -1
        /\ Firing + BeaconAir \in Int /\ Firing + BeaconAir + Spent + 1 <= Firing + BeaconAir
    BY <1>0, <2>1
  <2>4. \A i \in Active(timers') : timers'[i].left >= -(Firing + BeaconAir)
    BY <2>2, <2>3, <2>5, LaterBy
  <2> QED BY <1>0, <2>1, <2>4 DEF TimersHeld, LateBy, Firing
<1>6. CASE ProcessFrame
  <2>1. PICK k \in 0 .. FrameAir : \A i \in Active(timers') : Carried(i, k) \/ Fresh(i)
    BY <1>6, HeardTimers
  <2>2. /\ pc = "process" /\ pc' = "process" /\ batch' = batch - 1 /\ batch > 0
        /\ batch \in Nat /\ batch <= MaxBatch /\ MaxBatch \in Nat
    BY <1>6, StationAssumption DEF ProcessFrame, TimersHeld, TypeOK
  <2>3. Spent' = Spent + FrameAir
    <3>1. Spent = (MaxBatch - batch) * FrameAir /\ Spent' = (MaxBatch - (batch - 1)) * FrameAir
      BY <2>2 DEF Spent, FrameAir
    <3>2. \A n, b, a \in Nat : (n - (b - 1)) * a = (n - b) * a + a
      OBVIOUS
    <3> QED BY <1>0, <2>2, <3>1, <3>2
  <2>4. LateBy(Firing + BeaconAir + Spent)
    BY <2>2 DEF TimersHeld
  <2>5. k \in Nat /\ k <= FrameAir
    BY <1>0
  <2>6. /\ Firing + BeaconAir + Spent \in Int /\ Firing + BeaconAir + Spent >= -1
        /\ Firing + BeaconAir + Spent' \in Int
        /\ Firing + BeaconAir + Spent + k <= Firing + BeaconAir + Spent'
    BY <1>0, <2>3, <2>5
  <2>7. \A i \in Active(timers') : timers'[i].left >= -(Firing + BeaconAir + Spent')
    BY <2>1, <2>4, <2>5, <2>6, LaterBy
  <2>8. batch' <= MaxBatch
    BY <2>2
  <2> QED BY <2>2, <2>7, <2>8 DEF TimersHeld, LateBy, Firing
<1>7. CASE FireOnTimeout \/ Fire
  <2>1. \A i \in Active(timers') : timers'[i].left >= -(Firing - 1)
    BY <1>7, FiredInTime DEF FireOnTimeout, Fire
  <2>2. pc' \in {"fire", "beacon", "check", "loop"}
    BY <1>7 DEF FireOnTimeout, Fire, Goto
  <2>3. Spent' \in {-1, 0, Reading, Reading + Firing}
    BY <2>2 DEF Spent, Reading, Firing
  <2>4. \A i \in Active(timers') : timers'[i].left \in Int
    BY <1>7, FireType DEF FireOnTimeout, Fire, Active, Timer
  <2>5. \A i \in Active(timers') : timers'[i].left >= -(Firing + BeaconAir + Spent')
    BY <1>0, <2>1, <2>3, <2>4
  <2> QED BY <2>1, <2>2, <2>5 DEF TimersHeld, LateBy, Firing
<1>8. CASE Beacon
  <2>1. PICK k \in 0 .. BeaconAir : \A i \in Active(timers') : Carried(i, k)
    <3>1. CASE BeaconTransmit
      BY <3>1, SentTimers
    <3>2. CASE UNCHANGED timers
      <4>1. \A i \in Active(timers) : timers[i].left \in Int
        BY DEF Active, Timer, TypeOK
      <4>2. \A i \in Active(timers') : Carried(i, 0)
        BY <3>2, <4>1 DEF Carried
      <4>3. 0 \in 0 .. BeaconAir
        BY <1>0
      <4> QED BY <4>2, <4>3
    <3> QED BY <1>8, <3>1, <3>2 DEF Beacon, clocks
  <2>2. pc = "beacon" /\ pc' \in {"check", "loop"}
    BY <1>8 DEF Beacon, Goto
  <2>3. LateBy(Firing - 1)
    BY <2>2 DEF TimersHeld
  <2>4. k \in Nat /\ k <= BeaconAir
    BY <1>0
  <2>5. Spent' \in {-1, 0}
    BY <2>2 DEF Spent
  <2>6. /\ Firing - 1 \in Int /\ Firing - 1 >= -1
        /\ Firing + BeaconAir + Spent' \in Int
        /\ Firing - 1 + k <= Firing + BeaconAir + Spent'
    <3>1. \A f, b, j \in Nat : j <= b => f - 1 + j <= f + b + -1 /\ f - 1 + j <= f + b + 0
      OBVIOUS
    <3>2. CASE Spent' = -1
      BY <1>0, <2>4, <3>1, <3>2
    <3>3. CASE Spent' = 0
      BY <1>0, <2>4, <3>1, <3>3
    <3> QED BY <2>5, <3>2, <3>3
  <2>7. \A i \in Active(timers') : timers'[i].left >= -(Firing + BeaconAir + Spent')
    BY <2>1, <2>3, <2>4, <2>6, LaterBy
  <2> QED BY <2>2, <2>7 DEF TimersHeld, LateBy, Firing
<1>9. CASE Check
  <2>1. pc' = "done" \/ (pc' = "loop" /\ UNCHANGED <<timers, lagged>>)
    BY <1>9 DEF Check, Goto, Return, clocks
  <2>2. pc = "check"
    BY <1>9 DEF Check
  <2>3. pc' = "loop" => Spent' = Spent
    BY <2>1, <2>2 DEF Spent
  <2>4. LateBy(Firing + BeaconAir + Spent)
    BY <2>2 DEF TimersHeld
  <2> QED BY <2>1, <2>3, <2>4 DEF TimersHeld, LateBy, Firing
<1> QED
  BY <1>1, <1>2, <1>3, <1>4, <1>5, <1>6, <1>7, <1>8, <1>9 DEF Next, Step, Quiet

-----------------------------------------------------------------------------
(* The beacon waits for its interval and for one pass                      *)

(* While k ticks pass, what is left of the interval shrinks as the wait    *)
(* grows.                                                                  *)
LEMMA IdleAndDue ==
  ASSUME TypeOK, BeaconHeld, HasBeacon, NEW k \in Nat, Spends(k)
  PROVE  idle' = idle + k /\ (due' > 0 => idle' + due' <= Interval)
<1>1. idle' = idle + k /\ due' = DueAfter(k) /\ due \in Int /\ idle \in Nat
  BY DEF Spends, Idler, TypeOK
<1>2. due' > 0 => due' = due - k /\ due > 0
  BY <1>1 DEF DueAfter, AtLeastZero
<1>3. due > 0 => idle + due <= Interval
  BY DEF BeaconHeld
<1>4. Interval \in Int
  BY StationAssumption
<1> QED BY <1>1, <1>2, <1>3, <1>4

LEMMA Waits ==
  /\ FirstWait \in Nat /\ FirstWait >= Interval /\ FirstWait >= Burst * Airtime + 1
  /\ Interval \in Nat /\ Interval >= 1
BY Bounds, StationAssumption DEF FirstWait, Longest

(* A beacon d ticks off and n ticks old, when a pass has spent sp.         *)
Held(d, n, sp) == (d > 0 => n + d <= Interval) /\ n <= FirstWait + sp

LEMMA HeldLater ==
  ASSUME NEW d \in Int, NEW n \in Nat, NEW sp \in Int, NEW more \in Int, sp <= more,
         Held(d, n, sp)
  PROVE  Held(d, n, more)
BY Waits DEF Held

LEMMA HeldAnew ==
  ASSUME NEW d \in Int, d <= Interval, NEW sp \in Int, sp >= -1
  PROVE  Held(d, 0, sp)
BY Waits DEF Held

(* One that is not due yet would be in time however little was spent.      *)
LEMMA HeldUndue ==
  ASSUME NEW d \in Int, d > 0, NEW n \in Nat, NEW sp \in Int, Held(d, n, sp)
  PROVE  Held(d, n, -1) /\ d <= Interval /\ n + 1 <= FirstWait
BY Waits DEF Held

(* Ticks that the pass spends are allowed for.                             *)
LEMMA HeldLonger ==
  ASSUME NEW d \in Int, NEW n \in Nat, NEW sp \in Int, NEW k \in Nat, NEW more \in Int,
         sp + k <= more, Held(d, n, sp)
  PROVE  n + k <= FirstWait + more
BY Waits DEF Held

LEMMA NextBeacon ==
  TypeOK /\ Placed /\ SleepsNoLonger /\ TimersHeld /\ BeaconHeld /\ [Next]_vars => BeaconHeld'
<1> SUFFICES ASSUME TypeOK, Placed, SleepsNoLonger, TimersHeld, BeaconHeld, [Next]_vars
             PROVE  BeaconHeld'
  OBVIOUS
<1>0. /\ Firing \in Nat /\ Reading \in Nat /\ FrameAir \in Nat
      /\ Spent \in Int /\ Spent >= -1 /\ due \in Int /\ idle \in Nat
  BY SpentType, FrameAirNat, Bounds DEF TypeOK
<1>b. FirstWait' = FirstWait
  BY DEF FirstWait
<1>a. HasBeacon => Held(due, idle, Spent)
  BY DEF BeaconHeld, Held
<1>d. ASSUME pc' # "start", HasBeacon' => Held(due', idle', Spent') PROVE BeaconHeld'
  BY <1>b, <1>d DEF BeaconHeld, Held
<1>e. HasBeacon /\ due > 0 => due <= Interval
  BY <1>0, <1>a, HeldUndue
<1>c. UNCHANGED program => HasBeacon' = HasBeacon
  BY DEF HasBeacon
<1>1. CASE StartBeacon \/ StartOther
  <2>1. /\ idle = 0 /\ idle' = 0 /\ UNCHANGED program /\ pc' \in {"loop", "done"}
        /\ due' \in Int /\ (due' <= Interval \/ due' = due)
    <3>1. CASE StartBeacon
      BY <1>0, <3>1, Waits DEF StartBeacon, BeaconHeld, Goto, Return
    <3>2. CASE StartOther
      <4>1. due' \in 0 .. Interval \/ due' = due
        BY <3>2 DEF StartOther
      <4>2. due' \in Int /\ (due' <= Interval \/ due' = due)
        BY <1>0, <4>1, Waits
      <4> QED BY <3>2, <4>2 DEF StartOther, BeaconHeld, Goto
    <3> QED BY <1>1, <3>1, <3>2
  <2>2. Spent' \in Int /\ Spent' >= -1
    BY <1>0, <2>1 DEF Spent, Reading, Firing
  <2>3. HasBeacon => due' <= Interval
    BY <1>0, <1>e, <2>1, Waits
  <2>4. HasBeacon => Held(due', idle', Spent')
    BY <2>1, <2>2, <2>3, HeldAnew
  <2> QED BY <1>c, <1>d, <2>1, <2>4
<1>2. CASE StartSend
  <2>1. pc = "start" /\ idle = 0 /\ pc' \in {"loop", "done"} /\ UNCHANGED program
    BY <1>2 DEF StartSend, BeaconHeld, Goto, Return
  <2>2. Spent' \in Int /\ Spent' >= -1
    BY <1>0, <2>1 DEF Spent, Reading, Firing
  <2>3. CASE HasBeacon /\ pc' = "loop"
    <3>1. PICK k \in 0 .. Burst * Airtime :
            idle' = k /\ due' \in 0 .. AtLeastZero(Interval - k)
      BY <1>2, <2>3 DEF StartSend, HasBeacon, Sends, Goto, Return
    <3>2. k \in Nat /\ k + 1 <= FirstWait /\ Interval \in Int
      BY Bounds, Waits
    <3>3. Held(due', k, -1)
      <4>1. k <= FirstWait + -1
        BY <3>2, Waits
      <4>2. due' > 0 => k + due' <= Interval
        <5>1. CASE Interval - k > 0
          <6>1. due' \in 0 .. (Interval - k)
            BY <3>1, <5>1 DEF AtLeastZero
          <6>2. \A e, m, n \in Int : e \in 0 .. (m - n) => n + e <= m
            OBVIOUS
          <6>3. due' \in Int /\ k \in Int /\ Interval \in Int
            BY <3>2, <6>1
          <6> QED BY <6>1, <6>2, <6>3
        <5>2. CASE ~(Interval - k > 0)
          BY <3>1, <5>2 DEF AtLeastZero
        <5> QED BY <5>1, <5>2
      <4> QED BY <4>1, <4>2 DEF Held
    <3>4. due' \in Int
      BY <3>1, <3>2 DEF AtLeastZero
    <3>5. Held(due', idle', Spent')
      BY <2>2, <3>1, <3>2, <3>3, <3>4, HeldLater
    <3> QED BY <1>d, <2>1, <3>5
  <2>4. CASE HasBeacon /\ pc' = "done"
    <3>1. idle' = 0 /\ due' = due
      BY <1>2, <2>1, <2>4 DEF StartSend, Goto, Return
    <3>2. due <= Interval
      BY <1>0, <1>e, <2>4, Waits
    <3>3. Held(due', idle', Spent')
      BY <1>0, <2>2, <3>1, <3>2, HeldAnew
    <3> QED BY <1>d, <2>1, <3>3
  <2>5. CASE ~HasBeacon
    BY <1>c, <1>d, <2>1, <2>5
  <2> QED BY <2>1, <2>3, <2>4, <2>5
<1>3. CASE Quiet
  <2>1. /\ UNCHANGED <<program, due, idle>> /\ Spent' \in Int /\ Spent' >= Spent
        /\ pc' = "start" => pc = "start"
    BY <1>3, QuietSteps DEF clocks
  <2>2. HasBeacon => Held(due', idle', Spent')
    BY <1>0, <1>a, <2>1, HeldLater
  <2> QED BY <1>b, <1>c, <2>1, <2>2 DEF BeaconHeld, Held
<1>4. CASE Sleep
  <2>1. pc = "sleep" /\ pc' = "sleep" /\ wake # 0 /\ UNCHANGED program /\ Spends(1)
    BY <1>4 DEF Sleep, Elapse, Spends
  <2>2. CASE HasBeacon
    <3>1. idle' = idle + 1 /\ (due' > 0 => idle' + due' <= Interval)
      BY <2>1, <2>2, IdleAndDue
    <3>2. wake \in Nat /\ wake <= due
      BY <2>1, <2>2 DEF SleepsNoLonger
    <3>3. idle + 1 <= FirstWait
      <4>1. due > 0
        BY <1>0, <2>1, <3>2
      <4> QED BY <1>0, <1>a, <2>2, <4>1, HeldUndue
    <3>4. Spent' = 0
      BY <2>1 DEF Spent
    <3> QED BY <1>0, <1>b, <2>1, <3>1, <3>3, <3>4, Waits DEF BeaconHeld
  <2>3. CASE ~HasBeacon
    BY <1>c, <2>1, <2>3 DEF BeaconHeld
  <2> QED BY <2>2, <2>3
<1>5. CASE Lag
  <2>1. /\ pc = "loop" /\ pc' = "loop" /\ UNCHANGED program /\ Spends(1)
        /\ Spent = -1 /\ Spent' = 0
    BY <1>5 DEF Lag, Elapse, Spends, Spent
  <2>2. CASE HasBeacon
    <3>1. idle' = idle + 1 /\ (due' > 0 => idle' + due' <= Interval)
      BY <2>1, <2>2, IdleAndDue
    <3>2. idle + 1 <= FirstWait + 0
      BY <1>0, <1>a, <2>1, <2>2, HeldLonger
    <3> QED BY <1>0, <1>b, <2>1, <3>1, <3>2, Waits DEF BeaconHeld
  <2>3. CASE ~HasBeacon
    BY <1>c, <2>1, <2>3 DEF BeaconHeld
  <2> QED BY <2>2, <2>3
<1>6. CASE ProcessFrame
  <2>1. PICK k \in 0 .. FrameAir : Spends(k)
    BY <1>6, HeardTimers
  <2>2. /\ pc = "process" /\ pc' = "process" /\ UNCHANGED program
        /\ Spent' = Spent + FrameAir /\ k \in Nat /\ k <= FrameAir
    <3>1. /\ pc = "process" /\ pc' = "process" /\ UNCHANGED program
          /\ batch' = batch - 1 /\ batch \in Nat /\ MaxBatch \in Nat
      BY <1>6, StationAssumption DEF ProcessFrame, TypeOK
    <3>2. Spent = (MaxBatch - batch) * FrameAir /\ Spent' = (MaxBatch - (batch - 1)) * FrameAir
      BY <3>1 DEF Spent, FrameAir
    <3>3. \A n, b, a \in Nat : (n - (b - 1)) * a = (n - b) * a + a
      OBVIOUS
    <3> QED BY <1>0, <3>1, <3>2, <3>3
  <2>3. CASE HasBeacon
    <3>1. idle' = idle + k /\ (due' > 0 => idle' + due' <= Interval)
      BY <2>1, <2>2, <2>3, IdleAndDue
    <3>2. idle' <= FirstWait + Spent'
      <4>1. Spent' \in Int /\ Spent + k <= Spent'
        BY <1>0, <2>2
      <4> QED BY <1>0, <1>a, <2>2, <2>3, <3>1, <4>1, HeldLonger
    <3> QED BY <1>b, <2>2, <3>1, <3>2 DEF BeaconHeld
  <2>4. CASE ~HasBeacon
    BY <1>c, <2>2, <2>4 DEF BeaconHeld
  <2> QED BY <2>3, <2>4
<1>7. CASE FireOnTimeout \/ Fire
  <2>1. PICK k \in 0 .. Firing : Spends(k)
    BY <1>7, FiredTimers DEF FireOnTimeout, Fire
  <2>2. UNCHANGED program /\ pc' # "start"
    BY <1>7 DEF FireOnTimeout, Fire, Stay, Goto
  <2>3. CASE HasBeacon
    <3>1. pc = "fire" /\ pc' = "beacon"
      BY <1>7, <2>3 DEF FireOnTimeout, Fire, Placed, EngineLoop, HasBeacon, Goto
    <3>2. Spent = Reading /\ Spent' = Reading + Firing /\ k \in Nat /\ k <= Firing
      BY <1>0, <3>1 DEF Spent, Reading, Firing
    <3>3. idle' = idle + k /\ (due' > 0 => idle' + due' <= Interval)
      BY <2>1, <2>3, <3>2, IdleAndDue
    <3>4. idle' <= FirstWait + Spent'
      <4>1. Spent' \in Int /\ Spent + k <= Spent'
        BY <1>0, <3>2
      <4> QED BY <1>0, <1>a, <2>3, <3>2, <3>3, <4>1, HeldLonger
    <3> QED BY <1>b, <2>2, <3>3, <3>4 DEF BeaconHeld
  <2>4. CASE ~HasBeacon
    BY <1>c, <2>2, <2>4 DEF BeaconHeld
  <2> QED BY <2>3, <2>4
<1>8. CASE Beacon
  <2>1. pc = "beacon" /\ pc' \in {"check", "loop"} /\ UNCHANGED program /\ HasBeacon
    BY <1>8 DEF Beacon, Goto, Placed
  <2>2. Spent' \in Int /\ Spent' >= -1
    BY <2>1 DEF Spent
  <2>3. CASE due > 0 /\ UNCHANGED clocks
    <3>1. due' = due /\ idle' = idle
      BY <2>3 DEF clocks
    <3>2. Held(due, idle, -1)
      BY <1>0, <1>a, <2>1, <2>3, HeldUndue
    <3>3. Held(due', idle', Spent')
      BY <1>0, <2>2, <3>1, <3>2, HeldLater
    <3> QED BY <1>d, <2>1, <3>3
  <2>4. CASE due <= 0 /\ BeaconTransmit
    <3>1. idle' = 0 /\ (due' = Interval \/ due' = due)
      BY <2>4, SentTimers
    <3>2. due' \in Int /\ due' <= Interval
      BY <1>0, <2>4, <3>1, Waits
    <3>3. Held(due', idle', Spent')
      BY <2>2, <3>1, <3>2, HeldAnew
    <3> QED BY <1>d, <2>1, <3>3
  <2>5. CASE due <= 0 /\ idle' = 0 /\ \E k \in 0 .. BeaconAir : due' = due - k + Interval
    <3>1. due' \in Int /\ due' <= Interval
      BY <1>0, <2>5, StationAssumption
    <3>2. Held(due', idle', Spent')
      BY <2>2, <2>5, <3>1, HeldAnew
    <3> QED BY <1>d, <2>1, <3>2
  <2> QED BY <1>8, <2>3, <2>4, <2>5 DEF Beacon
<1>9. CASE Check
  <2>1. pc = "check" /\ UNCHANGED program /\ pc' \in {"done", "loop"}
    BY <1>9 DEF Check, Goto, Return
  <2>2. /\ pc' = "loop" => Spent' = Spent
        /\ pc' = "done" => Spent' = Reading + Firing
    BY <1>9, <2>1 DEF Check, Spent, Reading, Firing
  <2>3. Spent <= 0
    BY <2>1 DEF Spent
  <2>4. Spent' \in Int /\ Spent' >= Spent /\ Spent' >= -1
    BY <1>0, <2>1, <2>2, <2>3
  <2>5. CASE UNCHANGED clocks
    <3>1. due' = due /\ idle' = idle
      BY <2>5 DEF clocks
    <3>2. HasBeacon => Held(due', idle', Spent')
      BY <1>0, <1>a, <2>4, <3>1, HeldLater
    <3> QED BY <1>c, <1>d, <2>1, <3>2
  <2>6. CASE BeaconTransmit
    <3>1. idle' = 0 /\ (due' = Interval \/ due' = due)
      BY <2>6, SentTimers
    <3>2. HasBeacon => due' \in Int /\ due' <= Interval
      BY <1>0, <1>e, <3>1, Waits
    <3>3. HasBeacon => Held(due', idle', Spent')
      BY <2>4, <3>1, <3>2, HeldAnew
    <3> QED BY <1>c, <1>d, <2>1, <3>3
  <2> QED BY <1>9, <2>5, <2>6 DEF Check
<1> QED
  BY <1>1, <1>2, <1>3, <1>4, <1>5, <1>6, <1>7, <1>8, <1>9 DEF Next, Step, Quiet

-----------------------------------------------------------------------------
(* A session is given up when its retries have had their time              *)

Paid(i) ==
  \/ age = Patience
  \/ age >= (timers[i].retries + 1) * Duration - timers[i].left

Checkpoint(i) == i \in Active(timers) /\ timers[i].kind = "checkpoint"

(* The waits of a timer are still paid for after a step of k ticks.        *)
LEMMA StillPaid ==
  ASSUME TypeOK, WaitsPaid, Sends, NEW k \in Nat, age' = Older(k), NEW i \in Active(timers'),
         Carried(i, k) \/ Fresh(i) \/ Renewed(i, k), timers'[i].kind = "checkpoint"
  PROVE  Paid(i)'
<1>1. age' = Patience \/ age' = age + k
  BY DEF Older
<1>2. age \in Nat /\ Duration \in Nat /\ Patience \in Nat /\ age <= Patience
  BY StationAssumption, Bounds DEF TypeOK
<1>3. CASE age' = Patience
  BY <1>3 DEF Paid, Patience
<1>4. CASE age' = age + k /\ age' # Patience
  <2>1. CASE Fresh(i)
    <3>1. timers'[i].left = Duration /\ timers'[i].retries = 0
      BY <2>1 DEF Fresh
    <3>2. age' >= (0 + 1) * Duration - Duration
      BY <1>2, <1>4
    <3> QED BY <3>1, <3>2 DEF Paid
  <2>2. CASE i \in Active(timers) /\ timers[i].kind = "checkpoint" /\ age = Patience
    BY <1>1, <1>2, <2>2, <1>4 DEF Older
  <2>3. CASE /\ i \in Active(timers)
             /\ age >= (timers[i].retries + 1) * Duration - timers[i].left
             /\ Carried(i, k)
    <3>1. timers[i].left \in Int /\ timers[i].retries \in Nat
      BY <2>3 DEF Active, Timer, TypeOK
    <3>2. timers'[i].left = timers[i].left - k /\ timers'[i].retries = timers[i].retries
      BY <2>3 DEF Carried
    <3>3. \A p, l, a, j \in Int : a >= p - l => a + j >= p - (l - j)
      OBVIOUS
    <3>4. (timers[i].retries + 1) * Duration \in Int
      BY <1>2, <3>1
    <3>5. age + k >= (timers[i].retries + 1) * Duration - (timers[i].left - k)
      BY <1>2, <2>3, <3>1, <3>3, <3>4
    <3> QED BY <1>4, <3>2, <3>5 DEF Paid
  <2>4. CASE /\ i \in Active(timers)
             /\ age >= (timers[i].retries + 1) * Duration - timers[i].left
             /\ Renewed(i, k)
    <3>1. timers[i].left \in Int /\ timers[i].retries \in Nat /\ timers[i].left <= 0
      BY <2>4 DEF Active, Timer, TypeOK, Renewed
    <3>2. timers'[i].left = Duration - k /\ timers'[i].retries = timers[i].retries + 1
      BY <2>4 DEF Renewed
    <3>3. \A r, d \in Nat : \A l, a, j \in Int :
            l <= 0 /\ a >= (r + 1) * d - l => a + j >= ((r + 1) + 1) * d - (d - j)
      <4>1. \A r, d \in Nat : ((r + 1) + 1) * d = (r + 1) * d + d /\ (r + 1) * d \in Int
        OBVIOUS
      <4>2. \A p, d, l, a, j \in Int : l <= 0 /\ a >= p - l => a + j >= p + d - (d - j)
        OBVIOUS
      <4> QED BY <4>1, <4>2
    <3>4. age + k >= ((timers[i].retries + 1) + 1) * Duration - (Duration - k)
      BY <1>2, <2>4, <3>1, <3>3
    <3> QED BY <1>4, <3>2, <3>4 DEF Paid
  <2>5. CASE Carried(i, k) \/ Renewed(i, k)
    <3>1. i \in Active(timers) /\ timers[i].kind = "checkpoint"
      BY <2>5 DEF Carried, Renewed
    <3>2. age = Patience \/ age >= (timers[i].retries + 1) * Duration - timers[i].left
      BY <3>1 DEF WaitsPaid
    <3> QED BY <2>2, <2>3, <2>4, <2>5, <3>1, <3>2
  <2> QED BY <2>1, <2>5
<1> QED BY <1>1, <1>3, <1>4

(* Patience does not shrink.                                               *)
LEMMA AgesOn ==
  ASSUME TypeOK, NEW k \in Nat
  PROVE  Older(k) \in Nat /\ (age >= Patience => Older(k) >= Patience)
BY Bounds DEF Older, TypeOK

(* Every step takes some ticks, and carries, starts or renews each timer.  *)
LEMMA EveryStep ==
  ASSUME TypeOK, Placed, TimersHeld, [Next]_vars
  PROVE  \E k \in Nat :
           /\ age' = Older(k)
           /\ \A i \in Active(timers') : Carried(i, k) \/ Fresh(i) \/ Renewed(i, k)
<1>0. Older(0) = age
  BY Bounds DEF Older, TypeOK
<1>1. CASE UNCHANGED <<age, timers>>
  <2>1. \A i \in Active(timers) : timers[i].left \in Int
    BY DEF Active, Timer, TypeOK
  <2>2. \A i \in Active(timers') : Carried(i, 0)
    BY <1>1, <2>1 DEF Carried
  <2> QED BY <1>0, <1>1, <2>2
<1>2. CASE StartBeacon \/ StartOther
  BY <1>1, <1>2 DEF StartBeacon, StartOther, engine
<1>3. CASE StartSend
  <2>1. Active(timers) = {} /\ age' = age
    BY <1>3 DEF StartSend, Placed
  <2>2. CASE timers' \in Started(timers, "checkpoint")
    <3>1. \A i \in Active(timers') : Fresh(i)
      BY <2>1, <2>2, StartedTimers DEF Fresh, TypeOK
    <3> QED BY <1>0, <2>1, <3>1
  <2>3. CASE timers' = timers
    BY <1>1, <2>1, <2>3
  <2> QED BY <1>3, <2>2, <2>3 DEF StartSend, engine
<1>4. CASE Quiet
  BY <1>1, <1>4, QuietSteps DEF clocks
<1>5. CASE Sleep \/ Lag
  <2>1. age' = Older(1) /\ timers' = Aged(timers, 1)
    BY <1>5 DEF Sleep, Lag, Elapse
  <2>2. \A i \in Active(timers') : Carried(i, 1)
    BY <2>1, ElapsedTimers
  <2> QED BY <2>1, <2>2
<1>6. CASE ProcessFrame
  <2>1. PICK k \in 0 .. FrameAir :
          Spends(k) /\ \A i \in Active(timers') : Carried(i, k) \/ Fresh(i)
    BY <1>6, HeardTimers
  <2> QED BY <2>1 DEF Spends
<1>7. CASE FireOnTimeout \/ Fire
  <2>1. PICK k \in 0 .. Firing :
          Spends(k) /\ \A i \in Active(timers') : Carried(i, k) \/ Renewed(i, k)
    BY <1>7, FiredTimers DEF FireOnTimeout, Fire
  <2> QED BY <2>1 DEF Spends
<1>8. CASE BeaconTransmit
  <2>1. PICK k \in 0 .. BeaconAir :
          /\ age' = Older(k) \/ (k = 0 /\ age' = age)
          /\ \A i \in Active(timers') : Carried(i, k)
    BY <1>8, SentTimers
  <2>2. age' = Older(k)
    BY <1>0, <2>1
  <2> QED BY <2>1, <2>2
<1>9. CASE Beacon \/ Check
  BY <1>1, <1>8, <1>9 DEF Beacon, Check, clocks
<1> QED
  BY <1>2, <1>3, <1>4, <1>5, <1>6, <1>7, <1>9 DEF Next, Step, Quiet

(* Only running the timers gives a session up.                             *)
LEMMA GivesUp ==
  ASSUME TypeOK, Placed, TimersHeld, [Next]_vars, session'.cancelled = "retries"
  PROVE  session.cancelled = "retries" \/ FireExpired
<1> USE DEF TypeOK, Session
<1>1. CASE Quiet
  BY <1>1, QuietSteps
<1>2. CASE ProcessFrame
  BY <1>2, HeardTimers
<1>3. CASE FireOnTimeout \/ Fire
  BY <1>3 DEF FireOnTimeout, Fire
<1>4. CASE StartBeacon \/ StartOther \/ StartSend \/ Sleep \/ Lag \/ Beacon \/ Check
  BY <1>4 DEF StartBeacon, StartOther, StartSend, Sleep, Lag, Beacon, Check, engine
<1> QED BY <1>1, <1>2, <1>3, <1>4 DEF Next, Step, Quiet

LEMMA NextWaits ==
  TypeOK /\ Placed /\ TimersHeld /\ WaitsPaid /\ [Next]_vars => WaitsPaid'
<1> SUFFICES ASSUME TypeOK, Placed, TimersHeld, WaitsPaid, [Next]_vars PROVE WaitsPaid'
  OBVIOUS
<1>1. PICK k \in Nat :
        /\ age' = Older(k)
        /\ \A i \in Active(timers') : Carried(i, k) \/ Fresh(i) \/ Renewed(i, k)
  BY EveryStep
<1>2. Sends' = Sends
  BY DEF Next, Step, StartBeacon, StartOther, StartSend, Loop, Poll, TimedOut, Readable, HungUp,
         ProcessFrame, Processed, FireOnTimeout, Fire, Beacon, Check, Sleep, Lag, Unplug, Signal,
         Hear, Stay, vars, Sends
<1>3. ASSUME Sends, NEW i \in Active(timers'), timers'[i].kind = "checkpoint" PROVE Paid(i)'
  BY <1>1, <1>3, StillPaid
<1>4. ASSUME session'.cancelled = "retries" PROVE age' >= Patience
  <2>1. CASE session.cancelled = "retries"
    BY <1>1, <2>1, AgesOn DEF WaitsPaid, GivenUpAfterAllRetries
  <2>2. CASE FireExpired /\ session.cancelled # "retries"
    <3>1. session.open
      BY <1>4, <2>2, FiredTimers
    <3>2. Sends
      BY <3>1 DEF Placed
    <3>3. PICK i \in Active(timers) :
            /\ timers[i].kind = "checkpoint" /\ timers[i].left <= 0
            /\ timers[i].retries + 1 >= MaxRetries
      BY <1>4, <2>2, FiredTimers
    <3>4. age = Patience \/ age >= (timers[i].retries + 1) * Duration - timers[i].left
      BY <3>2, <3>3 DEF WaitsPaid
    <3>5. /\ timers[i].left \in Int /\ timers[i].retries \in Nat /\ age \in Nat
          /\ Duration \in Nat /\ MaxRetries \in Nat
      BY StationAssumption, Bounds DEF Active, Timer, TypeOK
    <3>6. \A r, n, d \in Nat : r + 1 >= n => (r + 1) * d >= n * d /\ (r + 1) * d \in Int
      OBVIOUS
    <3>7. (timers[i].retries + 1) * Duration >= Patience /\ (timers[i].retries + 1) * Duration \in Int
      BY <3>3, <3>5, <3>6 DEF Patience
    <3>8. \A a, p, q, l \in Int : l <= 0 /\ p >= q /\ a >= p - l => a >= q
      OBVIOUS
    <3>9. age >= Patience
      BY <3>3, <3>4, <3>5, <3>7, <3>8, Bounds
    <3> QED BY <1>1, <3>9, AgesOn
  <2> QED BY <1>4, <2>1, <2>2, GivesUp
<1> QED BY <1>2, <1>3, <1>4 DEF WaitsPaid, Paid, GivenUpAfterAllRetries, Patience

-----------------------------------------------------------------------------
(* The theorems                                                            *)

LEMMA InitIInv == Init => IInv
<1> SUFFICES ASSUME Init PROVE IInv
  OBVIOUS
<1>1. TypeOK /\ Placed
  BY InitType, InitPlaced
<1>2. Active(timers) = {} /\ pc = "start" /\ lagged = FALSE /\ idle = 0 /\ due = 0
        /\ session.cancelled = "no"
  BY DEF Init, Active, NoTimer
<1>3. SleepsNoLonger /\ TimersHeld /\ WaitsPaid
  BY <1>2 DEF SleepsNoLonger, TimersHeld, LateBy, WaitsPaid, GivenUpAfterAllRetries
<1>4. BeaconHeld
  <2>1. Spent = -1
    BY <1>2 DEF Spent
  <2> QED BY <1>2, <2>1, Waits DEF BeaconHeld
<1> QED BY <1>1, <1>3, <1>4 DEF IInv

LEMMA NextIInv == IInv /\ [Next]_vars => IInv'
BY NextType, NextPlaced, NextSleeps, NextTimers, NextBeacon, NextWaits DEF IInv

(* Every reachable state of every program is well-typed: poll() is never   *)
(* given a negative timeout.                                               *)
THEOREM StationTypeOK == Spec => []TypeOK
<1>1. IInv => TypeOK
  BY DEF IInv
<1> QED BY <1>1, InitIInv, NextIInv, PTL DEF Spec

(* The beacon is tried an interval, one read() and one run of the timers   *)
(* after the last one at the latest.                                       *)
THEOREM BeaconIsInTime == Spec => []BeaconInTime
<1>1. IInv => BeaconInTime
  <2> SUFFICES ASSUME IInv, HasBeacon PROVE idle <= FirstWait + Reading + Firing
    BY DEF BeaconInTime, FirstWait
  <2>1. idle <= FirstWait + Spent /\ idle \in Nat /\ FirstWait \in Nat
    BY Waits DEF IInv, BeaconHeld, TypeOK
  <2>2. Spent \in Int /\ Spent <= Reading + Firing
    <3>1. CASE pc = "process"
      <4>1. Spent = (MaxBatch - batch) * FrameAir /\ batch \in Nat /\ batch <= MaxBatch
        BY <3>1 DEF Spent, IInv, TypeOK, TimersHeld
      <4>2. \A n, b, a \in Nat : (n - b) * a \in Int /\ (n - b) * a <= n * a
        OBVIOUS
      <4>3. MaxBatch \in Nat
        BY StationAssumption
      <4> QED BY <4>1, <4>2, <4>3, FrameAirNat, Bounds
    <3>2. CASE pc # "process"
      BY <3>2, Bounds, FrameAirNat DEF Spent
    <3> QED BY <3>1, <3>2
  <2> QED BY <2>1, <2>2, Bounds
<1> QED BY <1>1, InitIInv, NextIInv, PTL DEF Spec

(* No timer is late by more than a pass can take.                          *)
THEOREM TimersAreInTime == Spec => []TimersInTime
<1>1. IInv => TimersInTime
  <2> SUFFICES ASSUME IInv, pc # "done", NEW i \in Active(timers)
               PROVE  timers[i].left >= -(Reading + Firing + BeaconAir)
    BY DEF TimersInTime
  <2>0. /\ timers[i].left \in Int /\ Firing \in Nat /\ Reading \in Nat /\ BeaconAir \in Nat
    BY Bounds, StationAssumption DEF IInv, TypeOK, Active, Timer
  <2>1. CASE pc = "beacon"
    <3>1. timers[i].left >= -(Firing - 1)
      BY <2>1 DEF IInv, TimersHeld, LateBy
    <3> QED BY <2>0, <3>1
  <2>2. CASE pc # "beacon"
    <3>1. timers[i].left >= -(Firing + BeaconAir + Spent)
      BY DEF IInv, TimersHeld, LateBy
    <3>2. Spent \in Int /\ Spent <= Reading
      <4>1. CASE pc = "process"
        <5>1. Spent = (MaxBatch - batch) * FrameAir /\ batch \in Nat /\ batch <= MaxBatch
          BY <4>1 DEF Spent, IInv, TypeOK, TimersHeld
        <5>2. \A n, b, a \in Nat : (n - b) * a \in Int /\ (n - b) * a <= n * a
          OBVIOUS
        <5>3. MaxBatch \in Nat
          BY StationAssumption
        <5> QED BY <5>1, <5>2, <5>3, FrameAirNat
      <4>2. CASE pc # "process"
        BY <2>0, <2>2, <4>2 DEF Spent
      <4> QED BY <4>1, <4>2
    <3> QED BY <2>0, <3>1, <3>2
  <2> QED BY <2>1, <2>2
<1> QED BY <1>1, InitIInv, NextIInv, PTL DEF Spec

(* A session given up for want of an answer had MaxRetries full waits.     *)
THEOREM SessionsGetAllRetries == Spec => []GivenUpAfterAllRetries
<1>1. IInv => GivenUpAfterAllRetries
  BY DEF IInv, WaitsPaid
<1> QED BY <1>1, InitIInv, NextIInv, PTL DEF Spec
=============================================================================

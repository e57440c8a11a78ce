# Verification of ion-dtn-terrestrial

TLA+ models of the delay-tolerant networking stack in `src/`: an LTP engine and a bundle
agent over KISS packet radio (`src/kiss-interface`), and the adapter that connects NASA ION
to the same radios (`src/opt/ion-demo/cla`). The models are written from the code. TLC checks
them on small instances; TLAPS proves the theorems for every value of the constants.

Line numbers below are those of `src/kiss-interface/` unless another file is named.

## 1. The system

```
 bp-send ── bundles, fragments ──> bp-recv      main.c, bp.c      BpTransfer
    │                                 ▲
 ltp_send_block                on_block_received
    ▼                                 │
 LTP engine ── segments ──────> LTP engine      ltp.c             LtpEngine, LtpRestart
    │                                 ▲
 AX.25, KISS ──> TNC ~~radio~~ TNC ──> KISS     ax25.c, kiss.c    (a link that loses)

 ION ── ionserialcla ── TNC                     ionserialcla.c    SerialCla
 ping ── TNC ~~radio~~ TNC ── echo              main.c, kiss.c    Kiss, PingEcho

 event loops: timers, beacon, poll, signals     main.c, ltp.c, beacon.c    Station
 sdr-beacon ── tones ~~radio~~ tones ── sdr-recv   nrzi.c, afsk_demod.c    Modem
```

| Component | State | Operations | Talks to |
|---|---|---|---|
| LTP engine (`ltp.c`) | export sessions, import sessions, timers, next session number | send a block, process a segment of each of eight types, fire expired timers, cancel, the run loop | its device through `ltp_send_segment`; the application through `on_block_received` and the return of `ltp_engine_run` |
| Bundle agent (`bp.c`, `main.c` 1194–1404) | one reassembly context; the bundle being sent | encode, fragment, send each block, receive and reassemble | LTP engine |
| ION serial convergence layer (`ionserialcla.c`) | the serial descriptor shared by two threads, KISS decoder, two running flags | dequeue, write, reopen; read, decode, hand over | ION, TNC |
| KISS framing (`kiss.c`) | decoder: bytes collected, in a frame, escape seen | encode, feed a byte | serial device |
| AX.25 (`ax25.c`) | none | build and strip a frame | every loop of `main.c` |
| SDNV, CBOR (`sdnv.c`, `cbor.c`) | none | encode and decode numbers and items | LTP, bundles |
| HDLC and software modem (`nrzi.c`, `afsk.c`, `afsk_demod.c`, `uhd_rx.c`) | two frame detectors, one for each tone sense: last level, eight bits, bits of a frame | FCS, stuff, frame, NRZI; correlate, detect, check | `sdr-beacon`, `sdr-recv` |
| Beacon (`beacon.c`) | frame, interval, last transmission | due, transmit, timeout | the loops of `main.c` |
| Dispatcher (`main.c`) | one of each, by mode; `g_running` | send, receive, echo, ping, beacon, LTP, bundles, signals | all |
| Ping and echo (`main.c` 704–1013, `ping.c`) | KISS decoder, sequence number, statistics | ping and wait for the reply; echo what is heard | KISS, AX.25, serial device |
| Serial device, APRS decoder, GNU Radio beacon, debug programs, ION demonstration | | | not modelled, see section 8 |

The engine is single-threaded: a run loop polls the device, processes what was read, fires
the timers that have expired and tests whether its session is over. All concurrency is
between engines, their applications' cancellations and the link. The convergence layer is
the one place with threads.

### What is hard here

* Whatever the radio loses, each of four kinds of segment is repeated by another timer with
  another counter, and nothing orders their expiries. Timers are stopped by the serial they
  were started with, but a repeated checkpoint has a new serial (`ltp.c:1422`), and a
  completed session stays open (`ltp.c:1163`), so old timers act on sessions long after.
* A delivered import session is closed and forgotten (`ltp.c:1100`): a late checkpoint opens
  the same session again.
* The header carries one engine id, that of its writer. Reports, acknowledgements and
  cancellations find their session by number alone.
* Tables are small and mostly overflow in silence: sessions, timers, claims.
* Nothing is persistent: after a restart the same numbers are given out again.
* Fragments of all senders meet in one reassembly context that one of them occupies.
* Two threads share a descriptor that one of them closes and opens again.
* Bytes come from `read` cut anywhere, while frames are lost, late, or too long for the decoder.
* One thread does everything in turn, and every write takes seconds of radio time
  (`ltp.c:785`): timers, beacons and signals wait for writes that other timers and other
  stations' segments caused.
* The demodulator has no clock of its own and does not know which tone is which.

### What makes each component correct

* LTP: what is delivered is what was sent; a reported success is a delivery, or its receiver has
  given the block up; a report claims only what is held; sessions end; timers die out.
* Bundles: reassembly never mixes bundles; the sender's success means every block arrived;
  every bundle that arrived whole is received.
* Convergence layer: no thread uses a descriptor that is not the adapter's; ION gets what
  the TNC heard; ION's end ends the process.
* Event loops: no timer and no beacon waits longer than the work that may stand before it;
  a session is given up only after all its retries; runs end, and so do signalled processes.
* Modem: a frame that comes through is reported as sent, in either tone sense.
* Ping: a reply that is counted was echoed, and one that comes in time is counted.
* Codecs and framing: decoding inverts encoding, however the bytes are cut, and recovers
  after lost ones.

## 2. Modules

| Module | Of what | |
|---|---|---|
| `BlockTransfer` | what a block transfer promises | abstract specification: submit, deliver, give up, verdict |
| `LtpEngine` | `ltp.c` | state and one action per handler and timer |
| `LtpProperties` | | the properties of the engines, and their refinement of `BlockTransfer` |
| `LtpRestart` | process ends and restarts around `LtpEngine` | |
| `BpTransfer` | `bp.c`, `cmd_bp_send`, `bp_recv_block_cb` | over `BlockTransfer` |
| `SerialCla` | `ionserialcla.c` | both threads |
| `Kiss` | `kiss.c` | encoder and decoder as operators |
| `PingEcho` | `cmd_ping`, `cmd_echo`, `ping.c`, the frames of `ax25.c` | over `Kiss`, stations on one channel |
| `LtpProofs`, `LtpTransfer` | | theorems about `LtpEngine`, `LtpProperties` and, with receivers that restart, `LtpRestart` |
| `Station` | the event loops of `main.c` and `ltp_engine_run`, `beacon.c`, the timers of `ltp.c` | with time |
| `Modem` | `nrzi.c`, `afsk_demod.c`, the loops of `sdr-beacon` and `sdr-recv` | bit by bit, one receiver and its channel |
| `BpProofs`, `SerialProofs`, `PingProofs`, `StationProofs`, `ModemProofs` | | theorems about `BpTransfer`, `SerialCla`, `PingEcho`, `Station` and `Modem` |
| `SequenceLemmas` | | induction over numbers and sequences, folds and concatenation, for the proofs about framings and bits |
| `MCLtp`, `MCLtpRestart`, `MCBp`, `MCSerial`, `MCPing`, `MCStation`, `MCModem` | | instances for TLC |

The composition: `LtpProperties` shows that engines implement `BlockTransfer`
(`ImplementsTransfer`), and `BpTransfer` uses `BlockTransfer`, not the engine, as its link.
The bundle results so hold for any link that meets that specification and whose receivers give
no block up (`Link` has `abandoned <- {}`); of LTP that is true for as long as `gaveUp` is empty
(`SuccessDelivered`). For two senders on one channel the LTP engine does not meet it (run
`channel`); `BpTransfer` then says what the bundle layer adds of its own.

### LtpEngine and `ltp.c`

| Code | Model |
|---|---|
| `export_sessions`, `import_sessions`, `timers`, `next_session_number` | `exports`, `imports`, `timers`, `next`; slot by slot, the first that fits is taken as the loops do |
| `send_session` of a running `ltp_engine_run` | `waiting` |
| what was written and not yet read | `inbox`, a sequence per engine |
| `ltp_send_block` (817) | `SendBlock`, `SendBlockFails` where the device refuses a write |
| data segments in `ltp_process_segment` (982), red data and checkpoints | `ReceiveRedData`, `ReceiveCheckpoint`, `ReceiveDataNoSlot` where no session is to be had |
| report segments (1111) | `ReceiveReportFull`, `ReceiveReportPartial` with the missing ranges sent again, `ReceiveReportUnknown` where the session is not there |
| report acknowledgement; four cancel segments | `ReceiveReportAck`, `ReceiveCancelBySender`, … |
| `ltp_fire_expired_timers` (1364 on) | `CheckpointTimeout`, `ReportTimeout`, `CancelTimeout`, their exhausted forms, and `OrphanTimeout` for a timer whose session is gone |
| the tests of `ltp_engine_run` (1607) | `Return` |
| `ltp_cancel_session` | `CancelSession` |
| no code: the cancel-by-receiver of another implementation | `CancelImport`, at an engine that holds such a session |

`Return` is an action of its own because the loop handles several segments and timers
between two tests. A byte of block `b` is `b`; a byte nobody has claimed is `Gap`. Times are
gone: an active timer may expire at any moment, which includes every order the real clock
gives. With `Timely` a timer expires only when nothing is on its way, which is what an
`owlt_ms` that is not too small gives; only runs that ask for liveness, or that keep a
star small, use it. A freed import slot is reset in the model when the code only clears its
`active`; no code reads an inactive slot and a new session is cleared by `memset`. The test
against the block size (`ltp.c:1024`) cannot fail between engines of this program.

The link is a FIFO that loses any segment. It neither repeats nor reorders: a serial line
and one radio channel do not. A failed write other than those of `ltp_send_block` is ignored
by the code, and so is one more lost segment. Statistics, logging, the byte layout and the
table of endpoint names, which verbose output alone reads, are left out. The engine id, a
hash of the endpoint name, is taken as injective.

`LtpRestart` adds a process that ends without a word at any point and is started again
(`Restart`): `ltp_engine_init` clears every table and numbers sessions from 1. A signal is in
`Station`.

### BpTransfer and `bp.c`

A sender cuts a bundle into fragments as `cmd_bp_send` does, submits one block each and waits
for its verdict before the next; it stops at the first failure. The receiver has the one
context of `bp_recv_block_cb`: a fragment is taken in (`ReceiveFragment`), refused because
it is of another bundle (`ReceiveStray`), or is a bundle by itself (`ReceiveWhole`). Bundles
have the identity the code gives them: source, creation time, sequence number. The CBOR
layout, the CRC and the lifetime are not there; the code writes them and verifies neither CRC
nor lifetime. Session numbers are taken to be distinct between the processes of one station.

### SerialCla and `ionserialcla.c`

`fds` maps a descriptor to what it refers to: closed, or one plugging-in of the device. A
file opened before the TNC was unplugged is hung up for good: `write` fails with `EIO`,
`read` returns nothing. The main thread goes through `loop`, `dequeue`, `write`, `drain` and,
when one of these fails, `mark`, `close`, `open`, `publish`; each is one action because the
other thread runs in between. The receiving thread goes through `check`, `load` (under the
lock), `read` (after it) and `reading`. Its KISS decoder is translated byte by byte, because
the point is where `read` cuts the stream; the AX.25 header stands as one byte. A pass that
ends forgets its descriptor (`NextPass`), as the block of the C loop does. `open` may
return any free descriptor, hence also the one just closed. `open_serial` flushes what is
unread, and so does unplugging: what remains of the stream may begin in mid-frame. Sleeps,
pacing, baud rates and the beacon are left out: they change nothing that the threads share.

### Kiss, PingEcho and the ping and echo loops

`Kiss` has the decoder of `kiss.c` byte by byte, with the flags it keeps and the frames it
hands out; an overlong frame is dropped, and what follows it up to the next FEND is ignored.
The convergence layer has its own decoder, which keeps the head of such a frame; `SerialCla`
models that one. In `PingEcho` a pinger goes from `send` to `wait` and on to the next number;
`ReadReply` is one `read` with its loop over the bytes, which stops at the reply and throws
the rest of them away, as `cmd_ping` does; the decoder starts afresh with every ping.
`ReplyTimeout` may come at any moment. `ReadAndEcho` is one `read` of `cmd_echo` with every
frame it completes; the operator's delay, round-trip times and statistics are left out. A
callsign is one byte, a header three, a time stamp one byte that must be escaped. A frame
goes out whole and each station in range hears it or not.

### Station and the event loops

One process in one of six programs: `beacon` (`cmd_beacon`), `sdr_beacon` (`run_sdr_beacon`),
`recv` and `send` (`ltp_engine_run` under `cmd_ltp_recv`, `cmd_ltp_send`), `recv_beacon` and
`send_beacon` (the loops in `main`, 1763 and 1869; the one of `bp-recv`, 2030, is the same as
1869). `pc` goes through a pass of the loop: `loop` (the test of `g_running`), `tested` (the
timeout is computed), `sleep` (`poll`), `process` (what was read), `fire0` and `fire` (the
timers; `ltp_engine_run` fires them twice after a timeout), `beacon`, `check` (a sender looks
at its session).

| Code | Model |
|---|---|
| `last_tx + interval - now`, `next_tx - now` | `due`; the second one may be negative |
| `expiry - now`, `retries` of a timer | `timers[i].left`, `.retries` |
| `ltp_start_timer`, `ltp_cancel_timer`, `ltp_fire_expired_timers` | `Started`, `Stopped`, `FireExpired` |
| `beacon_transmit` | `BeaconTransmit`: out, and timed when it is out; or failed, and still due |
| `beacon_get_timeout_ms`, `ltp_get_next_timeout_ms` | `Ends` and `Poll` |
| `ltp_paced_write` | a write takes 0 to `Airtime` ticks |
| `aprs_is_ax25_frame` in the loops of `main`, `ax25_strip_frame` in `ltp_engine_run` | `Ignored` |
| `signal_handler` | `Signal`, which also interrupts a `poll` |

Time is discrete and relative. It passes while `poll` sleeps (`Sleep`), in writes, and by one
tick at most in each pass for everything else (`Lag`). Of the engine it keeps what its
timers and its caller see; which serial a timer has is the matter of `LtpEngine`, and so
`Stopped` leaves open whether one is found. What is heard is anything and comes for ever, a report
that claims all for a block nobody received included. Only `SendEnds` asks something of
the peers. `idle` and `age` are history.

### Modem, `nrzi.c` and `afsk_demod.c`

A transmission is a sequence of levels, one tone for each bit: `FrameToBitstream` and
`NrziEncode` are `nrzi_frame_to_bitstream` and `nrzi_encode`, computed on bits with the FCS; the
level of a bit is the parity of the zeros so far, because each of them toggles it.
The receiver takes windows of one bit period that begin wherever its chunk of samples
began: `phase` is how much of a level is over by then. `Correlate` returns the tone that fills more of the window, mark if
neither does; the correlator of the code does that for clean tones, and a window of noise is
`Disturbed`. `FeedBit`, `Accumulate` and `Found` are `afsk_demod_feed_bit`, for each of the two
detectors. `ShortChunk` is a chunk from the radio that is no multiple of a bit period:
`afsk_demod_process` drops what is left of it. `sense` is whether the FM chain swaps the
tones. `Hiss` is what may be heard between frames. The lengths are parameters (`MinOctets`
is 16, `MaxOctets` 328, `MaxBits` 4096, `Preamble` 80, `Closing` 3, `SPB` 40 in the code).

## 3. Properties

Of the engines (`LtpProperties`):

* `DeliveredIntact` – a delivered block is byte for byte the one submitted as that session.
* `SuccessMeansDelivered` – success is reported only for a block that was delivered;
  `SuccessMeansSettled` – or that its receiver closed, cancelled or out of retries. The second
  is what the engine keeps in general, the first where timers wait for a round trip, no claim is
  dropped and nobody cancels or restarts (`live`; section 6).
* `OpenSessionIsTimed` – an open session has a checkpoint timer: it cannot stall in silence.
* `CheckpointSerialsAscend` – blocks, reports and timers all write checkpoints; their
  serials ascend all the same.
* `ClaimsAreHeld` – what a report on its way claims, its writer still has or has delivered.
* `ClaimedBytesStay` – no later segment changes a byte that was claimed.
* `ImplementsTransfer` – all of it is an implementation of `BlockTransfer`, where a receiver may
  give a block up at any time and a success follows a delivery or that.
* `SendRunEnds`, `TimersDieOut` – liveness.

Of bundles (`BpTransfer`): `ReassembledIntact`, `EachHandoverTakesEveryBlock` (handing a
bundle over takes every block of it anew: no block counts for two handovers),
`SentMeansArrived`, `AllArrivedMeansReceived`.

Of ping and echo (`PingEcho`): `CountedWasEchoed` – a late echo is never counted for a later
ping; `ReplyInTimeCounts` – leftovers of an earlier wait, a frame cut in two by a timeout or a
frame too long never cost the reply that follows.

Of the event loops (`Station`):

* `BeaconInTime` – a beacon is tried no later than its interval and one pass with the most to
  do, whatever is heard and whatever fails; the first burst of a sender may last longer.
* `TimersInTime` – no timer is left alone for longer than one pass.
* `GivenUpAfterAllRetries` – though a repeated segment's timer runs from before its write,
  a session is given up only after `retries` times the duration of a timer.
* `StopsOnSignal` – a signalled process ends, but for one that had nothing to wait for and was
  caught between its test of `g_running` and `poll`.
* `SendEnds` – a send run ends, with its device unplugged too, unless gap reports put it off for
  ever: each stops the timer of its checkpoint and starts one with all its retries
  (`ltp.c:1145`, 1168), so that the retries (1367) bound a run only once such reports cease.

Of the modem (`Modem`): `ComesThrough` – a frame that was heard with one good flag on each side
is reported as it was sent, by both detectors, whatever came before it; `NothingElseHeard` – no
detector reports anything else, and none reports it twice.

Of the convergence layer (`SerialCla`): `PublishedIsOpen`, `WrittenOnceInOrder`,
`HandedAsHeard`, `OneFrameSpoiledPerLoss`, `EndsUnlessReading`, `RxUsesNewPort`.

## 4. Runs

| Run | Instance and bounds | Shows |
|---|---|---|
| `pair` | two engines, two sessions with a block of five bytes (in segments of two, two and one) or of one, a reception map of one claim, two retries, three serials in the first session and two once there is a second, three segments on the way, timers at any time | segmentation, repetition and reassembly, claims that are dropped, a block given up with its report on the way, the verdict, what the first session leaves behind against the second (timers, late reports, sessions opened again), and the refinement |
| `cancel` | both ends cancel at any point, the receiver is killed and started again any number of times, a block of three segments, two claims, two timers, a device that refuses writes | cancellation, a full timer table, blocks sent in part, sessions half forgotten |
| `live` | a block of two bytes, `Timely`, serials as many as it takes, fairness | every send run returns; all timers fall silent; the blocks are whole and the verdicts right however often a checkpoint is repeated; no claim is dropped here |
| `bundle` | two senders, one sending two bundles of two fragments or one whole, the other one bundle; receiver restarts, one sender may be interrupted; repeated deliveries | reassembly under every interleaving |
| `serial` | two segments out, two frames in, the TNC unplugged once, two descriptors | the hand-over of the port, framing across it, the end |
| `ping` | three pings, reads of up to four bytes, three echoes, one overlong frame of a third party | late echoes, cut frames, the decoder's recovery |
| `station` | the six programs, an interval of three ticks, timers of two, two retries, two timers, one tick for a write, one frame waiting at a time and any number of them | time bounds and ends of the loops |
| `modem` | three frames of one and two octets, two transmissions or noises, two faults, windows at four places | framing, recovery, the two tone senses |
| `channel` | two senders out of each other's range, one receiver | *violated*, see below |
| `sender_restart`, `bundle_stuck`, `rx_ends` | | *violated*, see below |

Why these bounds are enough to be interesting: five bytes in three segments is the smallest
block with a short last piece, a gap on either side and, with one claim, a map that overflows; two retries let a timer expire,
expire again and run out; three timers let leftover ones meet new ones, and two make the table overflow; two blocks of different length make an
old session's bytes visible in a new one. Checkpoint serials, sessions, segments on the way,
deliveries, restarts, frames and unpluggings are unbounded in the code (or bounded by more
than can be explored: 128 sessions, 256 timers, 16 claims, 2048 bytes); `MaxSerial`,
`MaxSessions`, `MaxInbox`, `MaxDeliveries`, `MaxFrames`, `MaxUnplugs` and
`MaxSegments`, `MaxNoise` and `MaxEchoes` stop the model there, and `Count` and `MaxRead` of
`ping` stand for the operator's count and a buffer of 256 bytes. In `station` only the frames that
wait in the device are bounded (`MaxQueue`); what is heard in all and time are not: `due` and the timers are relative, and their bounds are what the properties say. A beacon
must be shorter than its interval (`StationAssumption`): the code allows nothing below ten
seconds. In `modem` the frames hold runs of five and of six ones, an SSID to be fixed, and an FCS
that ends in five ones; the noises are a frame broken off and one longer than `MaxBits`. In `live`, `MaxSerial` is 20, which two retries never
reach, so that no bound brings an end about. In `pair` the first session has three serials
(`MaxSerial`) until the second is opened and two from then on (`LastSerial`): three are
what a checkpoint, its repetition after a gap and one more repetition take, the case of the dropped
claim in section 6 included. With three in both sessions the repeated checkpoints fill the three
timers, the failure to start one is ignored (845), and an open session stays without, against
`OpenSessionIsTimed`; the code does the same when its 256 are taken. In `serial` the first
descriptor is 0: the code compares descriptors for nothing but being negative, so they are
interchangeable. `cancel` gives the map room for
both claims that three segments can make, and this matters: with `MaxClaims` 1 and three serials TLC
finds `SuccessMeansSettled` violated when the receiver restarts (section 6). With two claims and three
serials it holds as well, in seventeen million states. `CHECK_DEADLOCK FALSE` is set everywhere: a
transfer that is over, and an adapter that has ended, really stop.

## 5. Fairness

`FairSpec` of the engines: what is on the link is received or lost, each timer expires, and a
run tests its session. The loop of `ltp_engine_run` polls no longer than the next expiry,
fires what has expired after every poll and tests the session after that, so each is taken
again and again. Nothing says that a segment ever arrives. `SerialCla` asks that both
threads are scheduled and that `tcdrain` returns; it asks nothing of the TNC, of ION or of
the user. `FairSpec` of `Station` asks that the process goes on (`Step`), that `poll` which
nothing wakes times out (`Sleep`), and that time does pass in a loop that never sleeps:
`Lag` has strong fairness because a pass may take no time, but not every pass. Of what is heard, of the device
and of signals it asks nothing. The bundle and modem properties are all of safety.

## 6. Where code and documents part

Each is a run that ends in a violation, with the step-by-step trace as evidence.

* `channel`: a sender takes the report for another sender's block of the same session number
  for its own (`ltp.c:1117`) and reports a success for a block nobody received.
* `sender_restart`: a restarted sender gives out its session numbers again (`ltp.c:672`); the
  receiver merges the new block into what is left of the old one.
* `bundle_stuck`: fragments of a bundle whose rest never comes occupy the one context
  (`bp.c:379`); every other fragmented bundle is refused.
* `rx_ends`: the receiving thread of `ionserialcla` copies the descriptor under the lock and
  reads it after; closed in between, `read` fails with `EBADF`, the thread ends for good and
  the adapter goes on sending, deaf. A reader on a hung-up port polls it without pause, so
  that the window is met more often than one read in a while would suggest.

Not a run of its own: a dropped claim can cost the block, and its sender is told of success all the same. A receiver
that drops the claim of the last segment for want of room (572) reports the gap and asks for it
again; the sender repeats it as a checkpoint that does not say where the block ends (932; the end is
repeated only when a timer of the sender expires, 1409, and requirement 4.1 of `ltp-over-kiss` asks
for the flag on the final segment). If the first session is gone by then, the segment opens a new
one, and by further reports that session comes to claim every byte; it never learns the length
(1042) and never delivers. The report of all bytes completes the sender's session and the run
returns success. The session can be gone in two ways.

* The receiver's report timer runs out of retries (1375) with its report still on its way. No
  process restarts; it takes timers shorter than the round trip. The run `pair` reaches this, by
  a trace of seventeen states, which is why it checks `SuccessMeansSettled` and not `SuccessMeansDelivered`:
  with the latter in `MCLtpPair.cfg` TLC prints the trace. Requirement 6.3 (line 106 of the same
  document) has every block delivered whose bytes have all been received. With `Timely` TRUE (`MaxSerial` 5,
  `MaxInbox` 4) `SuccessMeansDelivered` holds in that instance, over 805,832 states.
* The receiver restarts. Then nothing was given up either: `cancel` with `MaxClaims` 1 and
  `MaxSerial` 3 shows `SuccessMeansSettled` violated.

Smaller ones, noticed and not made a run of: the checkpoint timer keeps its first serial
(1422, requirement 5.4 of `docs/specs/ltp-over-kiss/requirements.md`); a completed session is
not released (1163, 3.4); report timers match by number alone (1379, 3.3); a full reception
map drops claims (572, 6.3); a full timer table is ignored (845, 5.1); cancel segments of type
14 are answered but never written, so that no receiver can give a block up (7.3); bundle lifetime
and CRC are not verified (requirements 11.5, 6.6 and 2.7 of
`docs/specs/bundle-protocol/requirements.md`); the bundle agent cuts at 512 and 2048 bytes
where its documents say 900 and 1024. A station without a clock gives all its bundles one
identity: with a non-empty `Clockless` TLC finds two of them mixed by reassembly. A send run
that a signal ends returns 0, and "Block delivered" is printed for it (`ltp.c:1621`,
`main.c:1065`; requirement 10.4 of `ltp-over-kiss`). Of the event loops: `cmd_beacon` polls for
input and never reads it, so that it spins from the first byte heard on (`main.c:1170`;
`docs/specs/aprs-beacon/requirements.md:56` says "so that the process sleeps efficiently between
transmissions"); a retry's
timer runs from before the write (`ltp.c:1483`), so that with `owlt_ms` near the time of
a write the answer has less than a round trip; bursts are not interrupted for the beacon and
the beacon is not deferred for a transfer (`main.c:1775`; lines 68–70 and 81 of the same
document); a loop with a beacon gives every AX.25 frame to the monitor, segments in it
included (`main.c:1781`, 1887), so that two stations with `--src` and `--beacon` cannot
transfer; these loops spin when the device is gone. Of the modem: each frame is reported once
by each detector, and both are counted (`afsk_demod.c:144`), where
`docs/specs/uhd-aprs-receive/requirements.md:140` asks for the number of valid frames received;
there is no clock recovery, though the header has fields for one (`afsk_demod.h:41-47`), and the
samples left of a chunk are dropped; the test for a flag in `SYNC` (`afsk_demod.c:93`) can
never succeed, because two flags are eight bits apart.

## 7. Proofs

| Theorem | Statement | Module |
|---|---|---|
| `TypeCorrect` | `Spec => []TypeOK` | `LtpProofs` |
| `DeliveryIntact` | `Spec => []DeliveredIntact` | `LtpProofs` |
| `SuccessSettled` | `Spec => []SuccessMeansSettled`, if each engine hears at most one other | `LtpTransfer` |
| `DeliveryIntactAfterRestarts` | `RestartSpec => []DeliveredIntact`, if the engines that restart do not send | `LtpTransfer` |
| `ClaimedBytesAreKept` | `Spec => ClaimedBytesStay` | `LtpTransfer` |
| `ReportsAreTrue` | `Spec => []ClaimsAreHeld`, if each engine hears at most one other | `LtpTransfer` |
| `SuccessDelivered` | `Spec => [](gaveUp = {} => SuccessMeansDelivered)`, likewise | `LtpTransfer` |
| `TransferImplemented` | `Spec => ImplementsTransfer`, likewise | `LtpTransfer` |
| `SerialsAscend` | `Spec => []CheckpointSerialsAscend` | `LtpProofs` |
| `SessionsAreTimed` | `Spec /\ []TimersFree => []OpenSessionIsTimed` | `LtpProofs` |
| `BpTypeCorrect` | `Spec => []TypeOK` | `BpProofs` |
| `SentMeansArrivedHolds` | `Spec => []SentMeansArrived` | `BpProofs` |
| `ReassembledIntactHolds` | `Spec => []ReassembledIntact`, if every station has a clock | `BpProofs` |
| `HandoversTakeEveryBlock` | `Spec => []EachHandoverTakesEveryBlock`, if every station has a clock | `BpProofs` |
| `PortAgreed` | `Spec => []PublishedIsOpen` | `SerialProofs` |
| `SegmentsInOrder` | `Spec => []WrittenOnceInOrder` | `SerialProofs` |
| `SerialTypes` | `Spec => []TypeOK` | `SerialProofs` |
| `HandedIsHeard` | `Spec => []HandedAsHeard`, if the payloads fit | `SerialProofs` |
| `LossSpoilsOneFrame` | `Spec => []OneFrameSpoiledPerLoss`, if the payloads fit | `SerialProofs` |
| `PingTypes` | `Spec => []TypeOK` | `PingProofs` |
| `ReplyInTime` | `Spec => []ReplyInTimeCounts`, if a ping fits the decoder | `PingProofs` |
| `CountedEchoed` | `Spec => []CountedWasEchoed`, if no pinger hears another one's stations and nobody else pings | `PingProofs` |
| `ModemTypes` | `Spec => []TypeOK` | `ModemProofs` |
| `FramesComeThrough` | `Spec => []ComesThrough`, if a frame fits a detector | `ModemProofs` |
| `StationTypeOK` | `Spec => []TypeOK` | `StationProofs` |
| `BeaconIsInTime` | `Spec => []BeaconInTime` | `StationProofs` |
| `TimersAreInTime` | `Spec => []TimersInTime` | `StationProofs` |
| `SessionsGetAllRetries` | `Spec => []GivenUpAfterAllRetries` | `StationProofs` |

The theorems about LTP (the first ten) hold for any set of engines, any blocks, any table sizes,
retries and bounds, under `ConstantsAssumption` of `LtpEngine`, which TLC evaluates on every run.
Those that need each engine to hear at most one other say so in their own hypothesis, `PointToPoint`.

*Types.* `TypeOK` is not inductive by itself: what is cut from a block depends on the
session's block being one. `OpenExportsUsable` adds that an open export session holds a
block, and `TypeInv` is the two together. One lemma per action.

*Integrity.* The path of a byte is long: from the export session through a segment to an
import session, perhaps by a repetition cut elsewhere. `Integrity` therefore says it at each
station: a session number stands for one block (`SentOnce`), export sessions hold what was
submitted under their number (`ExportsSent`), segments on their way carry bytes and lengths
of that block (`SegmentsGenuine`), import sessions hold in every claimed place the byte of
that block (`ImportsAgree`). A complete reception map then is the block (`CompleteIsBlock`).
It fails where numbers are given out twice; this is the run `sender_restart`. A restart of an engine that
has sent nothing gives none out again: `Restartable` adds that no submission is of an engine that
restarts, and is inductive in `RestartSpec`, where the step `Restart` empties the tables and
leaves what is on its way. `ReceiversRestart`, the hypothesis, holds in the run `cancel`.

*Success.* A session is completed by a report that claims the whole of it. `Sound` follows
that claim backwards: every full report on its way is warranted by a session at its writer
that holds everything, was delivered, or was given up (`LinkWarranted`), a report timer can
only repeat such a claim (`TimersSure`), and a completed session is settled
(`CompletedSettled`). That a report can be about nobody else's block needs `PointToPoint`;
the run `channel` is what happens without.

*Claimed bytes.* `BytesStay` is the action of `ClaimedBytesStay`. An absorbed segment leaves each
place as it is or writes its own byte there. Its block and the block of the claims are both the
one submitted under the session's number (`Integrity`), so they agree wherever they overlap.

*Reports.* `Truthful` is `Sound` and `ReportsHeld`: the bytes that a report on its way claims are
still held by its writer, or the writer has settled the session. Every step keeps what is held
(`HeldKept`), so a claim, once true, stays true for as long as the report or its repetitions live.

*Delivery and the refinement.* A receiver that gives a session up may have reported all of it and
delivered nothing, and the sender's success is then no delivery; `SuccessSettled` therefore says
"delivered or given up", and `SuccessDelivered` is what remains while nothing was given up. For the
refinement, `Verdicts` (a run waits for a session that was submitted and has no verdict yet) adds to
`Sound` what the abstract `BlockTransfer` asks of a verdict. The initial state maps to the
initial one, and each step to `SubmitAs`, `Deliver`, `Abandon`, `Succeed`, `Fail` or a stutter:
a session that is closed is of a submitted block, because it agrees with one (`ImportsAgree`), at an
engine that hears the submitter (`ImportsOpen`).

*Serials.* `Serials` says that open sessions of an engine have numbers of their own, below the
next one (`SessionNumbers`), and that a checkpoint on its way is of a number given out and below
the next serial of its session if that is open (`Serialed`); then whatever is written next is
above it. Nothing is assumed about who hears whom.

*Timers.* `OpenSessionIsTimed` holds only as long as every timer table has a free entry:
`ltp.c:845` ignores that a timer could not be started, and such a session waits for ever.
`TimersFree` is a hypothesis over the whole behaviour. `SessionNumbers` is needed again: a timer
belongs to a session by its number, and stopping one must not stop that of another.

*Bundles.* `LinkInv`: what is delivered was submitted and is heard by where it arrives.
`SentSoFar` says of a `bp-send` at block `k` that all before `k` have arrived. `DateInv`: source
and time of a bundle name its payload. `ReassemblyInv`: a reassembly context holds bytes of one
submitted bundle only. `CountInv`: how often a bundle was handed over, and once more if the
context now holds the block, is at most how often the block arrived. The last two
need `Clockless = {}`: a `bp-send` without a clock gives all its bundles one identity, and
TLC then finds fragments of two of them put together as one.

*The port.* `Handover` adds to `PublishedIsOpen` that nothing is published between mark and
publish, and that what publish will hand out is open: these are what the order mark, close,
open, publish is for. The theorem is about the published descriptor; that the thread may
still use the copy it made before is the run `rx_ends`. *Segments.* `Written` adds that none
written is beyond the last one taken from ION, and that while the last waits to be written
it is not among them. All theorems about `SerialCla` hold for any set of descriptors and any
bounds (`SerialAssumption`).

*The framing.* What a read hands over is a fold of `KissDecByte` over the bytes. `FoldTraced` and
`FedMore` turn the fold into a recurrence, byte by byte; `AllSequences` (a set of sequences that
holds the empty one and whatever is longer by one element holds all) then stands in for
induction. From these: decoding one piece after another is decoding both together (`FedBoth`), so
that it does not matter where `read` cuts; what was handed out before has no influence
(`FedPast`); and a KISS frame is handed out whole after whatever was left of an earlier one
(`FrameDecoded`). The invariants speak of the decoder run ahead over what the line still
holds (`Ahead`) and of what ION will have then (`Promised`). A read moves bytes from one to the
other and changes neither (`ReadKeepsPromise`). Until bytes are lost, `Promised` is what was
heard (`HeardSoFar`). After a loss, `LossHeals` compares the decoder with the one that would have
read the lost bytes too: from the first FEND on they do the same, and what they handed out
differs by what came before the loss and one frame. `SpoiledSoFar` counts the
frames of `Promised` that nobody sent, and one more for a frame begun and not ended. `PayloadsFit`
is a hypothesis of both theorems, which TLC evaluates for the instance of the runs: a payload is
not empty, and command byte, header and payload fit the buffer. The code's buffer
(`MAX_AX25`, `ionserialcla.c:40`) has no room for the command byte that shares it, so a payload of
exactly `MAX_SEGMENT` bytes does not fit and loses its last byte.

*Ping and echo.* The decoder of `kiss.c` is another fold, with the same recurrence
(`FoldTraced`, `FedMore`) and the same consequences: it does not matter where `read` cuts
(`FedBoth`), and an encoded frame is handed out whole or, if too long, not at all, by a decoder that
is between frames (`FrameFed`). What is new is that a wait begins with a fresh decoder wherever the
line then is, and that the rest of a read is thrown away behind a reply. So the invariants speak of
a line read from any place: a fresh decoder passes over a frame that it meets in the middle
(`TailFed`), so from each place the line gives only frames that were sent, and leaves the
decoder between two of them (`Lines`, `LineSent`). `AllCarry` says this of each line, and that
whoever is reading will get the same with the decoder it has. To it `WaitInv` adds that a reply
that came for a waiting pinger is still to be decoded (`Pending`), which gives `ReplyInTimeCounts`
when the line is empty. `EchoInv` adds that what is still to be decoded by a pinger is, if it is a ping, one whose
echo is in `echoed`, which gives `CountedWasEchoed`.
`FrameFed` needs nothing of the frame, `PingFits` is needed for the ping alone. `Apart` (each station
belongs to one pinger, which does not hear itself) and `OthersDoNotPing` are hypotheses because
the code tells a reply by its number alone: the ping of another station with that number is
counted as well (`main.c:960`). TLC evaluates all three for the instance of the run.

*The modem.* `BitStuff` and `BitDestuff` are folds over the bits, with the recurrence of
the framings (`FoldTraced`, `FoldMore`). From it: no six of the stuffed bits are ones, and
destuffing gives back what was stuffed, also where it ends in five ones (`StuffedBits`); an octet is
the sum of its bits (`OctetsOfBits`), so that what was stuffed passes the test of the FCS and is the
frame (`DataAccepted`). Of the FCS nothing is used but that both ends compute it from the same bits.
`LevelStays`: the bit that a detector takes from two levels is the one sent, in either tone sense
(`BitHeard`), and `LevelHeard`: a window that straddles no two levels exactly gives the one that
fills more of it, this one or the next. What is between the flags of a frame, the seven bits of
the closing one included, looks at no place like a flag or like seven ones (`NoFlagWithin`), so a
detector goes from the last flag before the frame to the first behind it bit by bit (`Followed`,
`FollowStep`) and there reports the frame (`FollowFound`). `ModemInv` says that the air holds the
end of what is sent (`OnAir`), and, while what is vital goes by and is clean, that both detectors
have the last level and the bits so far, or have reported the frame (`Tracking`). Nothing is
asked of a detector before the flag: each of its eight bits pushes out one that was there. The
invariant was a run of TLC before it was proved. `FramesFit` (what is stuffed and seven bits more are
at most `MaxBits`) is a hypothesis that TLC evaluates for the instance of the run; in the code the
longest frame gives 3168 bits and 4096 fit. `ModemAssumption` asks for two flags before a frame,
because the first bit of the first one may be decoded against any level; the code sends 80.

*The event loops.* `IInv` of `StationProofs` says of each place of the loop what time may
already have gone there. `Placed`: which program can be where, and what it can hold.
`SleepsNoLonger`: `poll` waits for no longer than anything that is due. `TimersHeld`:
how late a timer can be at each place, as the sum of the writes that may stand between it
and its turn; for a pass in the middle of a batch it counts the frames still to come.
`BeaconHeld` is the same for the beacon, with `idle + due` bounded by the interval.
`WaitsPaid`: a checkpoint timer with `n` retries belongs to a session at least `n` durations
old, less what is left of it; this is what makes shortened waits harmless, because each
is shortened by no more than the write before it took. Steps are proved one action at a
time; arithmetic leaves are kept apart from those that expand records. It holds for any
interval, airtimes, burst, table size and retries, under `StationAssumption`.

Only model-checked: liveness, and all that mentions `ENABLED`, hence also the end of the
convergence layer; `SuccessMeansSettled` with a receiver that restarts, which is false when claims
are dropped (section 6); and `NothingElseHeard`, which no theorem could state for all
frames: with other frames a few mistaken bits may make a sequence with a right FCS, and 16 bits of
FCS cannot exclude that.

## 8. Not modelled

* `sdnv.c`, `cbor.c`, the addresses of `ax25.c`: planned. The loops of `send` and `receive` in
  `main.c` and the command line: nothing there outlives a call.
* `serial.c`: pure I/O; its failures are choices of the models above it.
* `aprs.c`: formats text for the screen; its test for AX.25 is in `Station`.
* The tones of `afsk.c`, the sums of the correlator, `uhd_tx.c`, and the FM discriminator and
  filter of `uhd_rx.c`: floating-point signal processing. `Modem` has their results. A frame of
  more than 330 octets between two flags, for which `afsk_demod_feed_bit` has no room, is not
  among its inputs.
* `gnuradio/*.py`: the transmit chain again, in Python, one flow.
* debug programs; the configuration and scripts for ION, which is not in this repository.

## 9. Plan

In this order:

1. `PingEcho` with several pingers and several echo stations: replies are told apart by
   number alone, and two echo stations in range of each other never stop.
2. `Codecs`: SDNV and CBOR as recursive functions over bounded inputs.
3. Theorems: `SuccessMeansSettled` of `LtpRestart` for a reception map with room for every claim, and
   `DeliveredIntact` for senders that restart, with sessions named by their process as well.

--------------------------------- MODULE Modem --------------------------------
(***************************************************************************)
(* The software modem: what beacons write with nrzi.c and afsk.c, and what *)
(* run_sdr_recv hears of it with uhd_rx.c and afsk_demod.c.  One receiver  *)
(* and the channel in front of it.                                         *)
(*                                                                         *)
(* A level is the tone of one bit period; the receiver looks at windows of *)
(* one bit period that begin wherever its chunk of samples began.  `phase' *)
(* is how many samples of the next level are gone by then.                 *)
(***************************************************************************)
EXTENDS Integers, Sequences, FiniteSets, SequencesExt

CONSTANTS
  Frames,       \* the frames sent, sequences of octets
  SsidOctets,   \* where the SSIDs are: octets 7 and 14
  MinOctets,    \* 16, the shortest AX.25 UI frame
  MaxOctets,    \* 328, nrzi_frame_to_bitstream refuses longer ones
  MaxBits,      \* AFSK_DEMOD_MAX_FRAME_BITS
  Preamble,     \* NRZI_PREAMBLE_FLAGS
  Closing,      \* NRZI_CLOSING_FLAGS
  SPB,          \* AFSK_DEMOD_SAMPLES_PER_BIT
  Noises,       \* what may be heard between transmissions, sequences of levels
  MaxSent,      \* bound: transmissions and noises in all
  MaxFaults     \* bound: faults in all

ASSUME ModemAssumption ==
  /\ Frames \subseteq Seq(0 .. 255)
  /\ MinOctets \in Nat \ {0} /\ MaxOctets \in Nat
  /\ \A f \in Frames : Len(f) >= MinOctets /\ Len(f) <= MaxOctets
  /\ Preamble \in Nat \ {0, 1} /\ Closing \in Nat \ {0} /\ SPB \in Nat \ {0}
  /\ MaxBits \in Nat \ {0} /\ MaxSent \in Nat /\ MaxFaults \in Nat
  /\ Noises \subseteq Seq({0, 1})

VARIABLES
  sense,   \* 1 when the FM chain swaps the tones
  air,     \* the levels still to come
  phase,   \* samples of the first of them that are gone
  det,     \* the two frame detectors
  frame,   \* history: the frame on the air
  clean,   \* history: what it takes to hear that frame came through
  heard,   \* history: what the callback got during this transmission, by polarity
  sent,    \* transmissions and noises so far
  faults   \* faults so far

vars == <<sense, air, phase, det, frame, clean, heard, sent, faults>>

Polarities == {0, 1}
Flag == <<0, 1, 1, 1, 1, 1, 1, 0>>

-----------------------------------------------------------------------------
(* Frames to bits and back                                                 *)

Weight == <<1, 2, 4, 8, 16, 32, 64, 128>>

\* nrzi_bytes_to_bits: the lowest bit of an octet first.
Bits(octets) == [k \in 1 .. 8 * Len(octets) |->
                   (octets[(k + 7) \div 8] \div Weight[((k - 1) % 8) + 1]) % 2]

Octet(bits) == bits[1] + 2 * bits[2] + 4 * bits[3] + 8 * bits[4]
               + 16 * bits[5] + 32 * bits[6] + 64 * bits[7] + 128 * bits[8]
Octets(bits) == [i \in 1 .. Len(bits) \div 8 |-> Octet(SubSeq(bits, 8 * i - 7, 8 * i))]

\* The polynomial 0x8408, lowest bit first.
Poly == [i \in 1 .. 16 |-> IF i \in {4, 11, 16} THEN 1 ELSE 0]

Crc(crc, bit) ==
  LET out == (crc[1] + bit) % 2
  IN  [i \in 1 .. 16 |-> ((IF i < 16 THEN crc[i + 1] ELSE 0) + out * Poly[i]) % 2]

\* nrzi_compute_fcs, over and as bits.
Fcs(bits) ==
  LET crc == FoldLeft(Crc, [i \in 1 .. 16 |-> 1], bits)
  IN  [i \in 1 .. 16 |-> IF crc[i] = 1 THEN 0 ELSE 1]

\* Mutant: a 0 only before a sixth one.
StuffLate(s, bit) ==
  IF bit = 0 THEN [out |-> Append(s.out, 0), ones |-> 0]
  ELSE IF s.ones = 5 THEN [out |-> s.out \o <<0, 1>>, ones |-> 1]
  ELSE [out |-> Append(s.out, 1), ones |-> s.ones + 1]

\* nrzi_bit_stuff: a 0 behind every five ones, also behind the last five.
Stuff(s, bit) ==
  IF bit = 0 THEN [out |-> Append(s.out, 0), ones |-> 0]
  ELSE IF s.ones = 4 THEN [out |-> s.out \o <<1, 0>>, ones |-> 0]
  ELSE [out |-> Append(s.out, 1), ones |-> s.ones + 1]

\* nrzi_bit_destuff: what follows five ones is dropped, a 1 as well.
Destuff(s, bit) ==
  IF s.ones = 5 THEN [s EXCEPT !.ones = 0]
  ELSE [out |-> Append(s.out, bit), ones |-> IF bit = 1 THEN s.ones + 1 ELSE 0]

NoBits == [out |-> <<>>, ones |-> 0]
BitStuff(bits) == FoldLeft(Stuff, NoBits, bits).out
BitDestuff(bits) == FoldLeft(Destuff, NoBits, bits).out

\* The reserved bits and the highest bit of an SSID are set.
FixSsid(f) ==
  [i \in DOMAIN f |-> IF i \in SsidOctets THEN (f[i] % 32) + 224 ELSE f[i]]

Body == [f \in Frames |-> LET bits == Bits(FixSsid(f)) IN BitStuff(bits \o Fcs(bits))]
Flags(n) == [i \in 1 .. 8 * n |-> Flag[((i - 1) % 8) + 1]]

\* nrzi_frame_to_bitstream
FrameToBitstream(f) == Flags(Preamble) \o Body[f] \o Flags(Closing)

\* nrzi_encode from the initial state 0: each 0 toggles the level, which is thus
\* the parity of the zeros so far.
NrziEncode(bits) ==
  [i \in DOMAIN bits |-> Cardinality({j \in 1 .. i : bits[j] = 0}) % 2]

\* What is sent fits a detector, with the seven bits of the closing flag that come
\* in before it is known to be one.
FramesFit == \A f \in Frames : Len(Body[f]) + 7 <= MaxBits

-----------------------------------------------------------------------------
(* The frame detector, afsk_demod_feed_bit                                 *)

Detector == [state |-> "HUNT", prev |-> 0, shift |-> <<0, 0, 0, 0, 0, 0, 0, 0>>, bits |-> <<>>]

\* NRZI decoding: a level that stays is a 1.
DataBit(d, level) == IF level = d.prev THEN 1 ELSE 0
Shifted(d, level) == Append(Tail(d.shift), DataBit(d, level))

\* The bits between two flags: all but the first bit of the closing flag came in
\* before it was known to be one.
Trimmed(d) == IF Len(d.bits) >= 7 THEN SubSeq(d.bits, 1, Len(d.bits) - 7) ELSE d.bits

\* Mutant: whatever is between two flags is a frame.
AcceptsUnchecked(bits) == Len(bits) \div 8 - 2 >= MinOctets

\* Long enough, and with the right FCS in its last two octets; bits beyond the
\* last whole octet do not count.
Accepts(bits) ==
  LET octets == Len(bits) \div 8 IN
  /\ octets - 2 >= MinOctets
  /\ SubSeq(bits, 8 * (octets - 2) + 1, 8 * octets) = Fcs(SubSeq(bits, 1, 8 * (octets - 2)))

\* What the callback gets with this level: one frame or none.
Found(d, level) ==
  LET bits == BitDestuff(Trimmed(d)) IN
  IF d.state = "FRAME" /\ Shifted(d, level) = Flag /\ Accepts(bits)
  THEN <<Octets(SubSeq(bits, 1, 8 * (Len(bits) \div 8 - 2)))>>
  ELSE <<>>

\* Mutant: a frame that is too long is kept.
AccumulateForever(d, shift, bit) ==
  IF \A i \in 1 .. 7 : shift[i] = 1 THEN [state |-> "HUNT", bits |-> <<>>]
  ELSE [state |-> "FRAME", bits |-> Append(d.bits, bit)]

\* A bit of a frame.  It is given up when it is too long, or has seven ones.
Accumulate(d, shift, bit) ==
  IF Len(d.bits) = MaxBits \/ \A i \in 1 .. 7 : shift[i] = 1
  THEN [state |-> "HUNT", bits |-> <<>>]
  ELSE [state |-> "FRAME", bits |-> Append(d.bits, bit)]

\* A flag ends and begins a frame, whatever came before.
FeedBit(d, level) ==
  LET shift == Shifted(d, level)
      bit == DataBit(d, level)
      to == IF shift = Flag THEN [state |-> "SYNC", bits |-> <<>>]
            ELSE IF d.state = "HUNT" THEN [state |-> "HUNT", bits |-> <<>>]
            ELSE IF d.state = "SYNC" THEN [state |-> "FRAME", bits |-> <<bit>>]
            ELSE Accumulate(d, shift, bit)
  IN  [state |-> to.state, prev |-> level, shift |-> shift, bits |-> to.bits]

\* The tone as a detector sees it: the second one has them swapped.
Seen(p, level) == IF p = 1 THEN 1 - level ELSE level

-----------------------------------------------------------------------------
(* The channel                                                             *)

Init ==
  /\ sense \in {0, 1}
  /\ air = <<>> /\ phase = 0
  /\ det = [p \in Polarities |-> Detector]
  /\ frame = <<>> /\ clean = FALSE
  /\ heard = [p \in Polarities |-> <<>>]
  /\ sent = 0 /\ faults = 0

\* A frame is sent, with a clock of its own.
Transmit(f) ==
  /\ air = <<>> /\ sent < MaxSent
  /\ air' = NrziEncode(FrameToBitstream(f))
  /\ phase' \in 0 .. (SPB - 1)
  /\ frame' = f /\ clean' = TRUE
  /\ heard' = [p \in Polarities |-> <<>>]
  /\ sent' = sent + 1
  /\ UNCHANGED <<sense, det, faults>>

\* Nobody sends.
Hiss(levels) ==
  /\ air = <<>> /\ sent < MaxSent
  /\ air' = levels /\ phase' = 0
  /\ frame' = <<>> /\ clean' = FALSE
  /\ heard' = [p \in Polarities |-> <<>>]
  /\ sent' = sent + 1
  /\ UNCHANGED <<sense, det, faults>>

\* What has to come through: the last flag before the frame and the level before
\* it, the frame, and the first flag behind it.
Vital == Len(air) \in (8 * (Closing - 1) + 1) .. (8 * Closing + Len(Body[frame]) + 8 + 2)
Straddles == 2 * phase = SPB

Tone(level) == IF sense = 1 THEN 1 - level ELSE level

\* afsk_demod_correlate: the tone that fills more of the window, mark if neither
\* does.
Correlate ==
  LET next == IF Len(air) = 1 THEN 0 ELSE Tone(air[2])
      mark == (SPB - phase) * Tone(air[1]) + phase * next
  IN  IF 2 * mark >= SPB THEN 1 ELSE 0

\* A window of samples goes to both detectors.
Window(level) ==
  /\ air' = Tail(air)
  /\ det' = [p \in Polarities |-> FeedBit(det[p], Seen(p, level))]
  /\ heard' = [p \in Polarities |-> heard[p] \o Found(det[p], Seen(p, level))]
  /\ phase' = IF Len(air) = 1 THEN 0 ELSE phase
  /\ UNCHANGED <<sense, frame, sent>>

Listen ==
  /\ air # <<>>
  /\ Window(Correlate)
  /\ clean' = (clean /\ ~(Straddles /\ Vital))
  /\ UNCHANGED faults

\* A burst of noise: the tone is mistaken.
Disturbed ==
  /\ air # <<>> /\ faults < MaxFaults
  /\ Window(1 - Correlate)
  /\ clean' = (clean /\ ~Vital)
  /\ faults' = faults + 1

\* uhd_rx_receive returned a short chunk: afsk_demod_process drops the samples
\* that do not fill a window, and the next window begins behind them.
ShortChunk(n) ==
  /\ air # <<>> /\ faults < MaxFaults
  /\ IF phase + n < SPB THEN phase' = phase + n /\ UNCHANGED air
     ELSE /\ air' = Tail(air)
          /\ phase' = IF Len(air) = 1 THEN 0 ELSE phase + n - SPB
  /\ clean' = (clean /\ ~Vital)
  /\ faults' = faults + 1
  /\ UNCHANGED <<sense, det, frame, heard, sent>>

Next ==
  \/ \E f \in Frames : Transmit(f)
  \/ \E levels \in Noises : Hiss(levels)
  \/ Listen \/ Disturbed
  \/ \E n \in 1 .. (SPB - 1) : ShortChunk(n)

Spec == Init /\ [][Next]_vars

-----------------------------------------------------------------------------
(* Properties                                                              *)

Bit == {0, 1}

\* Every variable has its type; bits are kept only of a frame, and never more
\* than fit.
TypeOK ==
  /\ sense \in Bit /\ air \in Seq(Bit) /\ phase \in 0 .. (SPB - 1)
  /\ \A p \in Polarities :
       /\ det[p].state \in {"HUNT", "SYNC", "FRAME"} /\ det[p].prev \in Bit
       /\ det[p].shift \in [1 .. 8 -> Bit] /\ det[p].bits \in Seq(Bit)
       /\ Len(det[p].bits) <= (IF det[p].state = "FRAME" THEN MaxBits ELSE 0)
       /\ heard[p] \in Seq(Seq(0 .. 255))
  /\ frame \in Frames \cup {<<>>} /\ clean \in BOOLEAN
  /\ sent \in 0 .. MaxSent /\ faults \in 0 .. MaxFaults

\* A frame that comes through with one flag before and one behind it is reported
\* as it was sent, by each detector, whichever way the tones are and whatever was
\* heard before (nrzi.c:55, afsk_demod.c:110).
ComesThrough ==
  clean /\ Len(air) <= 8 * (Closing - 1) =>
    \A p \in Polarities : FixSsid(frame) \in ToSet(heard[p])

\* Nothing is reported that is not on the air, and that only once, whatever is
\* lost or disturbed: of these frames, so few faults never make another one with a
\* right FCS (afsk_demod.c:140).
NothingElseHeard ==
  \A p \in Polarities : heard[p] \in {<<>>, <<FixSsid(frame)>>}
=============================================================================

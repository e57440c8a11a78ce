-------------------------------- MODULE Kiss --------------------------------
(***************************************************************************)
(* KISS framing as in kiss.c: bytes stuffed between two FENDs, and the     *)
(* decoder that is fed one byte at a time.                                 *)
(***************************************************************************)
EXTENDS Integers, SequencesExt

CONSTANT MaxPayload  \* KISS_MAX_PAYLOAD

ASSUME KissAssumption == MaxPayload \in Nat \ {0}

FEND  == 192
FESC  == 219
TFEND == 220
TFESC == 221

Stuffed(b) == CASE b = FEND -> <<FESC, TFEND>>
                [] b = FESC -> <<FESC, TFESC>>
                [] OTHER    -> <<b>>

KissEncode(payload) ==
  <<FEND, 0>> \o FlattenSeq([i \in DOMAIN payload |-> Stuffed(payload[i])]) \o <<FEND>>

(* `out' holds the payloads decoded so far, for the caller to take.        *)
DecoderInit == [buf |-> <<>>, in_frame |-> FALSE, escape |-> FALSE, out |-> <<>>]

Ready(d) == [d EXCEPT !.buf = <<>>, !.in_frame = TRUE, !.escape = FALSE]

(* Fault: two FENDs in a row count as the end of a frame and its start.    *)
BoundaryToggles(d) ==
  IF ~d.in_frame        THEN Ready(d)
  ELSE IF d.buf = <<>>  THEN DecoderInit
  ELSE IF d.buf[1] % 16 # 0 THEN Ready(d)
  ELSE [Ready(d) EXCEPT !.out = Append(@, Tail(d.buf))]

(* A FEND starts a frame, repeats the start, or ends a frame: one of data  *)
(* is handed out without its command byte, any other is dropped.           *)
Boundary(d) ==
  IF ~d.in_frame        THEN Ready(d)
  ELSE IF d.buf = <<>>  THEN d
  ELSE IF d.buf[1] % 16 # 0 THEN Ready(d)
  ELSE [Ready(d) EXCEPT !.out = Append(@, Tail(d.buf))]

Unstuffed(b) == CASE b = TFEND -> FEND [] b = TFESC -> FESC [] OTHER -> b

(* A frame that is too long is dropped; the decoder waits for a FEND.      *)
Collect(d, b) ==
  IF Len(d.buf) > MaxPayload
  THEN [DecoderInit EXCEPT !.out = d.out]
  ELSE [d EXCEPT !.buf = Append(@, b), !.escape = FALSE]

DecoderFeed(d, b) ==
  CASE b = FEND                                      -> Boundary(d)
    [] b # FEND /\ ~d.in_frame                       -> d
    [] b # FEND /\ d.in_frame /\ d.escape            -> Collect(d, Unstuffed(b))
    [] b = FESC /\ d.in_frame /\ ~d.escape           -> [d EXCEPT !.escape = TRUE]
    [] b \notin {FEND, FESC} /\ d.in_frame /\ ~d.escape -> Collect(d, b)

(* The decoder after a run of bytes, its output taken before.              *)
FeedAll(d, bytes) == FoldLeft(DecoderFeed, [d EXCEPT !.out = <<>>], bytes)
=============================================================================

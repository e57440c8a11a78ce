-------------------------------- MODULE MCModem -------------------------------
(***************************************************************************)
(* A small instance of Modem.  The frames hold five ones in a row, six as  *)
(* in a flag, and an SSID to be fixed before the FCS, which ends in five   *)
(* ones: the last stuffed bit stands before the closing flag.              *)
(***************************************************************************)
EXTENDS Modem

ThreeFrames == {<<124>>, <<126>>, <<238, 23>>}

\* A transmission that breaks off within its frame, and one that goes on for
\* longer than a frame can be.
TwoNoises == {NrziEncode(Flag \o SubSeq(Body[<<124>>], 1, 13)),
              NrziEncode(Flag \o [i \in 1 .. 55 |-> 0])}

ASSUME FramesFit
===============================================================================

------------------------------- MODULE MCPing -------------------------------
(* One station that pings, one that echoes it, and a third party that      *)
(* sends a frame too long for the decoder.                                 *)
EXTENDS PingEcho, TLC

MCPingers == {1}
MCEchoers == {2}
MCInRange == 1 :> {2} @@ 2 :> {1}
MCTarget  == 1 :> 2
MCNoise   == <<9, 7, UI, 0, UI, 9, 7, UI>>

ASSUME StationsApart == Apart /\ OthersDoNotPing /\ PingFits
=============================================================================

----------------------------- MODULE MCLtpRestart ----------------------------
(* Instances of restarting engines for TLC.                                *)
EXTENDS LtpRestart, TLC

CONSTANTS a, b, c, X, Y

PairHears == a :> {b} @@ b :> {a}

OneWayOne == a :> 1 @@ b :> 0

TwoByteBlocks == X :> 2 @@ Y :> 2
ThreeByteBlocks == X :> 3 @@ Y :> 3
=============================================================================

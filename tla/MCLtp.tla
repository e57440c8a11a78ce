-------------------------------- MODULE MCLtp --------------------------------
(* Instances of the engines for TLC.                                       *)
EXTENDS LtpProperties, TLC

CONSTANTS a, b, c, X, Y

\* Two engines on a point-to-point link.
PairHears == a :> {b} @@ b :> {a}

\* Two senders, out of each other's range, and a receiver that both hear.
StarHears == a :> {c} @@ b :> {c} @@ c :> {a, b}

\* How many blocks each engine sends.
OneWayOne == a :> 1 @@ b :> 0
OneWayTwo == a :> 2 @@ b :> 0
TwoSenders == a :> 1 @@ b :> 1 @@ c :> 0

\* How long the blocks are.
ThreeByteBlocks == X :> 3 @@ Y :> 3
TwoByteBlocks == X :> 2 @@ Y :> 2
MixedBlocks == X :> 5 @@ Y :> 1
=============================================================================

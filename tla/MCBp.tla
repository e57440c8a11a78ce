--------------------------------- MODULE MCBp ---------------------------------
(* Instances of bundle transfer for TLC.                                   *)
EXTENDS BpTransfer, TLC

CONSTANTS a, b, c, X, Y, Z

\* Two senders that one receiver hears.
StarReach == a :> {b} @@ c :> {b} @@ b :> {}

\* X and Y take two fragments each, Z is a bundle of its own.
Lengths == X :> 3 @@ Y :> 3 @@ Z :> 1

TwoOne == a :> 2 @@ c :> 1 @@ b :> 0

\* Payloads of one length are interchangeable.
PayloadSymmetry == Permutations({X, Y})
=============================================================================

---------------------------- MODULE MCStation ----------------------------
(* Every kind of frame, and one LTP segment inside AX.25, which the loops  *)
(* with a beacon take for an APRS packet and the others look into.         *)
EXTENDS Station

MCHeard ==
  {f \in Frames : ~f.ax25} \cup {[kind |-> "full", ax25 |-> TRUE]}
=============================================================================

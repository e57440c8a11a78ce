----------------------------- MODULE MCSerial -----------------------------
(* Two descriptor numbers, one of them reused; a payload that needs        *)
(* stuffing and one that could be taken for a command byte.                *)
EXTENDS SerialCla

MCFds      == {0, 1}
MCPayloads == {<<FEND>>, <<0>>}

(* What the theorems about the framing suppose is so here.                 *)
ASSUME TheseFit == PayloadsFit
=============================================================================

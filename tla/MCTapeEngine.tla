---------------------------- MODULE MCTapeEngine ----------------------------
(***************************************************************************)
(* A file of four frames and a fade of three passes: the fade spans     *)
(* several loops, and the knob, the pads and a failing card interfere.     *)
(***************************************************************************)
EXTENDS TapeEngine
=============================================================================

------------------------- MODULE MCHarnessTransport -------------------------
(***************************************************************************)
(* A grid of four sub-ticks, two to a common tick, and clocks of one, two  *)
(* or four pulses. As in the code the fastest quarter is shorter than the  *)
(* timeout of the clock input and the slowest one longer, so that a pulse  *)
(* can be too fast, too slow but not yet a timeout, or a new take.         *)
(***************************************************************************)
EXTENDS HarnessTransport

MCExtPpqChoices == {1, 2, 4}
MCAsked == {1, 4, 12}
=============================================================================

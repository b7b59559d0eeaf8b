----------------------------- MODULE MCWavTake ------------------------------
(***************************************************************************)
(* WavTake on a take of a few frames: several transfers, several           *)
(* checkpoints, a ring that overflows and cards that fill up.              *)
(***************************************************************************)
EXTENDS WavTake

MCSpaces == {0, 2, 8}
=============================================================================

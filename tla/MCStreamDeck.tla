---------------------------- MODULE MCStreamDeck ----------------------------
(***************************************************************************)
(* One deck with a ring of two frames and files of none or two: the ring *)
(* fills, empties and wraps within a file, a file loops, and a second      *)
(* stream follows the first by a restart or a seek.                        *)
(***************************************************************************)
EXTENDS StreamDeck

MCLengths == {0, 2}

\* Seeks only, for the run without an atomic interrupt: no stop() and restart.
SeekSpec == Init /\ [][Next /\ ~Stop]_vars
=============================================================================

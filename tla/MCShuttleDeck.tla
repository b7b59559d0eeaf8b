---------------------------- MODULE MCShuttleDeck ----------------------------
(***************************************************************************)
(* Tracks of two frames, a file that is longer and one that is empty; the  *)
(* card may cut the first short anywhere.                                  *)
(***************************************************************************)
EXTENDS ShuttleDeck

MCSlots    == {"t3", "t0"}
MCFileLen  == [t \in MCSlots |-> IF t = "t3" THEN 3 ELSE 0]
MCBootSlot == [s \in Tracks |-> IF s = 0 THEN "t0" ELSE "t3"]
=============================================================================

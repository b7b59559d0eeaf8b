--------------------------- MODULE MCParamPickup ----------------------------
(***************************************************************************)
(* ParamPickup on scales of a few steps, which still tell a value within   *)
(* the deadband, the catch window and the wide window at an end from one   *)
(* that is not.                                                            *)
(***************************************************************************)
EXTENDS ParamPickup, TLC

CONSTANTS deckA, deckB

BothDecks == {deckA, deckB}

\* No action tells one deck from the other.
DeckSymmetry == Permutations(BothDecks)

\* An engine that keeps its first parameter as it is set, and of its second only in
\* which half of the scale it is: it reads back a position inside that half.
Halves == [p \in 1..Params |->
              [x \in 0..Top |-> IF p = 1 THEN x ELSE IF 2 * x < Top THEN 1 ELSE Top - 1]]
=============================================================================

---------------------------- MODULE MCBardResume ----------------------------
(***************************************************************************)
(* Two shelves, the first with two books, one of the same name on the      *)
(* other; a table with room for three of the four keys that a deck whose   *)
(* shelf has just been turned can note.                                    *)
(***************************************************************************)
EXTENDS BardResume

MCLibrary == <<{1, 2}, {1}>>
=============================================================================

----------------------------- MODULE MCRadioDeck -----------------------------
(***************************************************************************)
(* Two banks of different sizes; the dial has four positions a station.    *)
(***************************************************************************)
EXTENDS RadioDeck

MCSize == <<3, 1>>
=============================================================================

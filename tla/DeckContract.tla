---------------------------- MODULE DeckContract ----------------------------
(***************************************************************************)
(* One deck of the streaming service as an engine sees it: IStreamDeck     *)
(* (src/engine/istreamdeck.h), with what  StreamDeck (src/hw/stream_deck)  *)
(* promises behind it. A deck is a record:                                 *)
(*   mode        what is_playing() and is_recording() report               *)
(*   finalizing  a stopped take that process() has not finished yet        *)
(*   seeking     seek_play() has parked the deck and not resumed it        *)
(*                                                                         *)
(* The operators say what each call does to it. DeckService makes a        *)
(* specification of them, which StreamDeck implements; the engines' modules *)
(* are built on them.                                                      *)
(***************************************************************************)

Deck == [mode : {"idle", "play", "record"}, finalizing : BOOLEAN, seeking : BOOLEAN]

IdleDeck == [mode |-> "idle", finalizing |-> FALSE, seeking |-> FALSE]

Playing(d)   == d.mode = "play"
Recording(d) == d.mode = "record"

\* A start succeeds only on a deck that does nothing and owes nothing.
Free(d) == d.mode = "idle" /\ ~d.finalizing /\ ~d.seeking

Started(d, what) == [d EXCEPT !.mode = what]

\* stop(): a player is closed at once, a take is left to process(). On an idle
\* deck it does nothing.
Halted(d) == [d EXCEPT !.mode = "idle", !.finalizing = @ \/ d.mode = "record"]

\* process(): a take is finished, a player that has run out is retired.
Finished(d) == [d EXCEPT !.finalizing = FALSE]
RanOut(d)   == [d EXCEPT !.mode = "idle"]

Parked(d)  == [d EXCEPT !.mode = "idle", !.seeking = TRUE]
Resumed(d) == [d EXCEPT !.mode = "play", !.seeking = FALSE]
=============================================================================

----------------------------- MODULE DeckService -----------------------------
(***************************************************************************)
(* What a deck promises to the engine that uses it: the abstract           *)
(* specification of StreamDeck.                                            *)
(***************************************************************************)
EXTENDS DeckContract

VARIABLE deck

Init == deck = IdleDeck

Start  == Free(deck) /\ \E what \in {"play", "record"} : deck' = Started(deck, what)
Stop   == deck.mode # "idle" /\ deck' = Halted(deck)
Finish == deck.finalizing /\ deck' = Finished(deck)
RunOut == Playing(deck) /\ deck' = RanOut(deck)
Park   == Playing(deck) /\ deck' = Parked(deck)
Resume == deck.seeking /\ deck' = Resumed(deck)

Next == Start \/ Stop \/ Finish \/ RunOut \/ Park \/ Resume

\* What the service does by itself it does in the end.
Spec == Init /\ [][Next]_deck /\ WF_deck(Finish) /\ WF_deck(Resume)
=============================================================================

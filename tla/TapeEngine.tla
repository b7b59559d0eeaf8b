----------------------------- MODULE TapeEngine -----------------------------
(***************************************************************************)
(* One deck of the tape engine (src/engine/tape/tape_engine) on a deck of  *)
(* the streaming service: the pads, the four loop modes of the ENV knob,   *)
(* and the stop that a faded-out Frippertronics loop asks for. The other   *)
(* deck is a copy; the slot selector, pan, mix and tape FX are left out.   *)
(*                                                                         *)
(* The main loop makes its pass in the order of src/app/harness.cpp:       *)
(* stream.process(), pads, knobs, prepare(). The audio interrupt (Block)   *)
(* comes between any two of its steps; prepare() is two steps, since it    *)
(* clears the request before it acts on it.                                *)
(***************************************************************************)
EXTENDS DeckContract, Naturals

CONSTANTS Frames,   \* length of the file that is played: the loop
          Passes    \* loop passes after which the gain is below kFrippFloor

ASSUME TapeAssumption == Frames \in Nat \ {0} /\ Passes \in Nat \ {0}

VARIABLES
    deck,        \* the streaming deck
    streamLoop,  \* set_loop(): whether the stream rewinds at its end
    loopMode,    \* _loop_mode
    hot,         \* a toggle was accepted less than kDebounceMs ago
    wantStop,    \* _want_stop
    pc,          \* where the main loop is in its pass
    primed,      \* _primed
    srcPos,      \* _src_pos
    gain,        \* _loop_gain, in passes left; 0 is silence
    young        \* history: the stream was started in this pass

control  == <<streamLoop, loopMode, hot, wantStop>>
voice    == <<primed, srcPos, gain>>
tapeVars == <<deck, control, pc, voice, young>>

Modes == {"none", "plain", "faded", "fripp"}

TapeInit ==
    /\ deck = IdleDeck /\ streamLoop = FALSE /\ loopMode = "none"
    /\ hot = FALSE /\ wantStop = FALSE /\ pc = "service"
    /\ primed = FALSE /\ srcPos = 0 /\ gain = Passes
    /\ young = FALSE

-----------------------------------------------------------------------------
\* stream.process(): the take is finished, or the player is retired at the end
\* of its file; a player that loops ends so only if the card fails it.
Service ==
    /\ pc = "service" /\ pc' = "pads"
    /\ \/ deck' = deck
       \/ deck.finalizing /\ deck' = Finished(deck)
       \/ Playing(deck) /\ deck' = RanOut(deck)
    /\ UNCHANGED <<control, voice, young>>

\* A stream starts: nothing of it has been pulled.
Begun(what) ==
    /\ deck' = Started(deck, what)
    /\ young' = TRUE

\* _toggle(): a press on the pad of `what`. Debounced; ends what it would start,
\* does nothing to the other, and a start may be refused.
Toggle(what) ==
    /\ pc = "pads" /\ ~hot /\ hot' = TRUE
    /\ \/ deck.mode = what /\ deck' = Halted(deck) /\ UNCHANGED young
       \/ Free(deck) /\ Begun(what)
       \/ deck.mode # what /\ UNCHANGED <<deck, young>>
    /\ UNCHANGED <<streamLoop, loopMode, wantStop, pc, voice>>

PadsDone == pc = "pads" /\ pc' = "knobs" /\ UNCHANGED <<deck, control, voice, young>>

\* The debounce time passes.
Cool == hot /\ hot' = FALSE
        /\ UNCHANGED <<deck, streamLoop, loopMode, wantStop, pc, voice, young>>

\* set_param(Env)
TurnEnv ==
    /\ pc = "knobs" /\ pc' = "prepare"
    /\ loopMode' \in Modes
    /\ UNCHANGED <<deck, streamLoop, hot, wantStop, voice, young>>

\* mutant: a request is dropped unless the loop mode is still the one that faded
PrepareDrops ==
    /\ pc = "prepare"
    /\ streamLoop' = (loopMode # "none")
    /\ wantStop' = FALSE
    /\ pc' = IF wantStop /\ loopMode # "fripp" THEN "stop" ELSE "service"
    /\ young' = (wantStop /\ young)
    /\ UNCHANGED <<deck, loopMode, hot, voice>>

\* prepare(): push the loop flag, take the request.
Prepare ==
    /\ pc = "prepare"
    /\ streamLoop' = (loopMode # "none")
    /\ wantStop' = FALSE
    /\ pc' = IF wantStop THEN "stop" ELSE "service"
    /\ young' = (wantStop /\ young)
    /\ UNCHANGED <<deck, loopMode, hot, voice>>

StopFaded ==
    /\ pc = "stop" /\ pc' = "service"
    /\ deck' = Halted(deck)
    /\ young' = FALSE
    /\ UNCHANGED <<control, voice>>

-----------------------------------------------------------------------------
(* The audio interrupt: _render_deck. *)

\* The gain a block starts from: priming restores it.
Level == IF primed THEN gain ELSE Passes

\* mutant: the first boundary already asks for the stop
CrossedEarly ==
    LET softer == IF Level = 0 THEN 0 ELSE Level - 1
    IN  gain' = softer /\ wantStop' = TRUE

\* A Frippertronics loop crosses its boundary: softer by one pass, and at the
\* floor muted, with the request to stop.
Crossed ==
    LET softer == IF Level = 0 THEN 0 ELSE Level - 1
    IN  gain' = softer /\ wantStop' = (wantStop \/ softer = 0)

\* A playing deck advances by one source frame, after priming with two if it did
\* not play before. The place in the loop is only counted in the modes that use
\* it. A pull from an empty ring brings silence and is counted all the same.
Render ==
    /\ Playing(deck)
    /\ primed' = TRUE
    /\ LET counts  == loopMode \in {"faded", "fripp"}
           before  == IF primed THEN srcPos ELSE 2
           crosses == counts /\ before + 1 >= Frames
       IN  /\ srcPos' = IF crosses THEN 0 ELSE IF counts THEN before + 1 ELSE before
           /\ IF crosses /\ loopMode = "fripp" THEN Crossed
              ELSE gain' = Level /\ UNCHANGED wantStop
    /\ UNCHANGED <<deck, streamLoop, loopMode, hot, pc, young>>

\* mutant: the floor is tested on a deck that does not play, too
RestAsks ==
    /\ ~Playing(deck) /\ primed /\ primed' = FALSE
    /\ wantStop' = (gain = 0)
    /\ UNCHANGED <<deck, streamLoop, loopMode, hot, pc, srcPos, gain, young>>

\* A deck that records or does nothing re-primes when it plays next.
Rest ==
    /\ ~Playing(deck) /\ primed /\ primed' = FALSE
    /\ UNCHANGED <<deck, control, pc, srcPos, gain, young>>

Block == Render \/ Rest

Pass == Service \/ PadsDone \/ TurnEnv \/ Prepare \/ StopFaded

TapeNext == Pass \/ Block \/ Cool \/ \E what \in {"play", "record"} : Toggle(what)

TapeSpec == TapeInit /\ [][TapeNext]_tapeVars

\* The main loop goes round and the interrupt keeps coming.
TapeFairSpec == TapeSpec /\ WF_tapeVars(Pass) /\ WF_tapeVars(Block)

-----------------------------------------------------------------------------
TapeTypeOK ==
    /\ deck \in Deck /\ streamLoop \in BOOLEAN /\ loopMode \in Modes
    /\ hot \in BOOLEAN /\ wantStop \in BOOLEAN
    /\ pc \in {"service", "pads", "knobs", "prepare", "stop"}
    /\ primed \in BOOLEAN /\ srcPos \in 0..(Frames + 2) /\ gain \in 0..Passes
    /\ young \in BOOLEAN

\* A take is ended by the player: prepare() carries out the interrupt's request
\* a pass later, on whatever the deck does by then, but a take that has got
\* through one prepare() is never cut by it (tape_engine.cpp:56).
TakeSurvives ==
    [][pc = "stop" /\ Recording(deck) /\ ~Recording(deck') => young]_tapeVars

\* Nor is a play, unless it has faded to silence: turning ENV away from and back
\* to the Frippertronics mode, or a restart, never stops a sounding loop.
StoppedOnlyFaded ==
    [][pc = "stop" /\ Playing(deck) /\ ~Playing(deck') /\ ~young => gain = 0]_tapeVars

\* A Frippertronics loop that is left alone fades out and frees its deck
\* (tape_engine.cpp:31-33, tape_engine.h:206).
FadeEnds == [](Playing(deck) /\ [](loopMode = "fripp") => <>~Playing(deck))
=============================================================================

------------------------------- MODULE Edrums -------------------------------
(***************************************************************************)
(* The drum machine (src/engine/edrums/edrums_engine), one deck of it: two *)
(* drums that both play, one of them under the knobs; the clock ticks of   *)
(* the transport that step them; and the kit kept in QSPI flash. The audio *)
(* interrupt ticks between any two operations of the main loop. The voices *)
(* and the panel's lights are left out.                                    *)
(***************************************************************************)
EXTENDS CPattern

CONSTANTS Settings,    \* what the knobs of each drum may be set to; knobs go from 0 to Full
          Factory,     \* kBootKit: the setting each drum boots with
          Full,
          Routes,      \* Route: the topologies of the drum bus, "stereo" the one at power-on
          Debounce,    \* kSaveDebounceMs, in moments
          MaxTicks     \* bound on the ticks between two resets of the grid

Slots == {0, 1}

\* size, pos and env are knobs; div the ticks to a step, as MODFREQ chooses.
Setting == [size : 0..Full, pos : 0..Full, env : 0..Full, div : {1, 2, 4}]

ASSUME EdrumsAssumption ==
    /\ Full \in Nat \ {0} /\ Debounce \in Nat \ {0} /\ MaxTicks \in Nat
    /\ Settings \in [Slots -> SUBSET Setting]
    /\ "stereo" \in Routes
    /\ Factory \in [Slots -> Setting] /\ \A d \in Slots : Factory[d] \in Settings[d]

VARIABLES
    knobs,     \* _param and _div, by slot
    focus,     \* _active_slot
    route,     \* _route, of both decks
    running,   \* _running
    steps, onsets, shift, word,    \* the patterns: _steps, _onsets, _shift, _pattern
    next,      \* _next_point
    stepTick,  \* _step_tick
    clean,     \* history: neither length nor division changed since the grid was reset
    dirty,     \* _dirty
    quiet,     \* now - _dirty_since_ms, in moments, up to Debounce
    flash      \* the kit in flash; NoKit if there is none that can be read

pattern == <<steps, onsets, shift, word>>
grid    == <<next, stepTick, clean>>
store   == <<dirty, quiet, flash>>
vars    == <<knobs, focus, route, running, pattern, grid, store>>

NoKit == <<>>

\* serialize()
Kit == <<knobs, focus, route>>

\* The kit at power-on, with none in flash.
FactoryKit == <<Factory, 0, "stereo">>

-----------------------------------------------------------------------------
\* Division to the nearest, halves up: lround() and round() of what a knob scales.
Rounded(a, b) == (2 * a + b) \div (2 * b)

\* The pattern length a SIZE knob asks for.
Length(s) == 2 + Rounded(s.size * (Size - 2), Full)

\* The onsets a POS knob asks for, over n steps.
Density(s, n) == Rounded(s.pos * n, Full)

\* set_shift()
Shift(s, n) == Rounded(s.env * n, Full) % n

\* mutant: the new length keeps the old word
LengthenedStale(p, n) ==
    IF n = p.steps THEN p
    ELSE LET k == IF p.onsets > n THEN n ELSE p.onsets
         IN  [steps |-> n, onsets |-> k, shift |-> IF p.shift >= n THEN 0 ELSE p.shift,
              word |-> p.word, next |-> IF p.next >= n THEN 0 ELSE p.next]

\* A pattern after set_length(n). It is rebuilt only when the length changes, and
\* what no longer fits is brought inside.
Lengthened(p, n) ==
    IF n = p.steps THEN p
    ELSE LET k == IF p.onsets > n THEN n ELSE p.onsets
         IN  [steps |-> n, onsets |-> k, shift |-> IF p.shift >= n THEN 0 ELSE p.shift,
              word |-> Build(n, k), next |-> IF p.next >= n THEN 0 ELSE p.next]

\* _apply_density(): set_onsets() over the current length.
Populated(p, s) ==
    LET asked == Density(s, p.steps)
        k     == IF asked > p.steps THEN p.steps ELSE asked
    IN  IF k = p.onsets THEN p ELSE [p EXCEPT !.onsets = k, !.word = Build(p.steps, k)]

\* _rebuild_slot(): a drum from its setting.
Rebuilt(p, s) ==
    LET long == Lengthened(p, Length(s))
    IN  Populated([long EXCEPT !.shift = Shift(s, long.steps)], s)

\* CPattern's constructor: seven onsets of sixteen, or as many as there are steps.
New == [steps |-> Size, onsets |-> IF Size < 7 THEN Size ELSE 7, shift |-> 0,
        word |-> Build(Size, IF Size < 7 THEN Size ELSE 7), next |-> 0]

Pattern(d) == [steps |-> steps[d], onsets |-> onsets[d], shift |-> shift[d],
               word |-> word[d], next |-> next[d]]

\* The drums of kit k on the patterns P they find. No drum drops its place in the
\* sequence for it.
Sounds(P) ==
    /\ steps' = [d \in Slots |-> P[d].steps] /\ onsets' = [d \in Slots |-> P[d].onsets]
    /\ shift' = [d \in Slots |-> P[d].shift] /\ word' = [d \in Slots |-> P[d].word]
    /\ next' = [d \in Slots |-> P[d].next]

\* init() on new patterns: the factory kit, and on top of it the kit in flash.
FactoryPattern(d) == Rebuilt(New, Factory[d])

Init ==
    /\ knobs = Factory /\ focus = 0 /\ route = "stereo" /\ running = [d \in Slots |-> TRUE]
    /\ steps = [d \in Slots |-> FactoryPattern(d).steps]
    /\ onsets = [d \in Slots |-> FactoryPattern(d).onsets]
    /\ shift = [d \in Slots |-> FactoryPattern(d).shift]
    /\ word = [d \in Slots |-> FactoryPattern(d).word]
    /\ next = [d \in Slots |-> FactoryPattern(d).next]
    /\ stepTick = 0 /\ clean = [d \in Slots |-> TRUE]
    /\ dirty = FALSE /\ quiet = 0 /\ flash = NoKit

Boot ==
    /\ knobs' = IF flash' = NoKit THEN Factory ELSE flash'[1]
    /\ focus' = IF flash' = NoKit THEN 0 ELSE flash'[2]
    /\ route' = IF flash' = NoKit THEN "stereo" ELSE flash'[3]
    /\ running' = [d \in Slots |-> TRUE]
    /\ Sounds([d \in Slots |-> IF flash' = NoKit THEN FactoryPattern(d)
                               ELSE Rebuilt(FactoryPattern(d), flash'[1][d])])
    /\ stepTick' = 0 /\ clean' = [d \in Slots |-> TRUE]
    /\ dirty' = FALSE /\ quiet' = 0

\* _mark_dirty(): the kit changed, and the wait for a quiet moment starts again.
MarkDirty == dirty' = TRUE /\ quiet' = 0 /\ UNCHANGED flash

-----------------------------------------------------------------------------
\* The main loop.

\* A drum's pattern after knob k of it was turned, its setting now s: set_param(Size),
\* (Pos) and (Env), and set_mod_speed(), which leaves the pattern alone.
Turned(p, k, s) ==
    CASE k = "size" -> Populated(Lengthened(p, Length(s)), s)
      [] k = "pos"  -> Populated(p, s)
      [] k = "env"  -> [p EXCEPT !.shift = Shift(s, p.steps)]
      [] k = "div"  -> p

\* A knob is turned: it edits the drum in focus, and marks the kit also where the
\* setting comes out as it was.
Turn ==
    \E k \in {"size", "pos", "env", "div"}, s \in Settings[focus] :
        LET p == Turned(Pattern(focus), k, s)
        IN  /\ s = [knobs[focus] EXCEPT ![k] = s[k]]
            /\ knobs' = [knobs EXCEPT ![focus] = s]
            /\ Sounds([d \in Slots |-> IF d = focus THEN p ELSE Pattern(d)])
            /\ clean' = [clean EXCEPT ![focus] = @ /\ s.div = knobs[focus].div
                                                   /\ p.steps = steps[focus]]
            /\ MarkDirty /\ UNCHANGED <<focus, route, running, stepTick>>

\* mutant: the focus is not taken for part of the kit
SwapUnsaved ==
    /\ focus' = 1 - focus
    /\ UNCHANGED <<knobs, route, running, pattern, grid, store>>

\* on_play_pad(reverse): the other drum under the knobs.
Swap ==
    /\ focus' = 1 - focus
    /\ MarkDirty
    /\ UNCHANGED <<knobs, route, running, pattern, grid>>

\* set_config(Route): the switch of the drum bus, which is part of the kit.
SetRoute ==
    /\ route' \in Routes \ {route}
    /\ MarkDirty
    /\ UNCHANGED <<knobs, focus, running, pattern, grid>>

\* on_play_pad(): the drum in focus stops or starts.
PlayPad ==
    /\ running' = [running EXCEPT ![focus] = ~@]
    /\ UNCHANGED <<knobs, focus, route, pattern, grid, store>>

\* clear_sequence(): both drums back to the factory kit, where they are in the bar.
ClearSequence ==
    LET P == [d \in Slots |-> Rebuilt(Pattern(d), Factory[d])]
    IN  /\ knobs' = Factory /\ focus' = 0 /\ running' = [d \in Slots |-> TRUE]
        /\ Sounds(P)
        /\ clean' = [d \in Slots |-> clean[d] /\ P[d].steps = steps[d]
                                              /\ Factory[d].div = knobs[d].div]
        /\ MarkDirty /\ UNCHANGED <<route, stepTick>>

\* Time passes without a change.
Moment ==
    /\ dirty /\ quiet < Debounce
    /\ quiet' = quiet + 1
    /\ UNCHANGED <<knobs, focus, route, running, pattern, grid, dirty, flash>>

\* mutant: a kit once in flash is not written over
SaveOnce ==
    /\ dirty /\ quiet = Debounce /\ flash = NoKit
    /\ dirty' = FALSE
    /\ flash' = Kit
    /\ UNCHANGED <<knobs, focus, route, running, pattern, grid, quiet>>

\* prepare(): the kit is saved once nothing changed for a while.
Save ==
    /\ dirty /\ quiet = Debounce
    /\ dirty' = FALSE
    /\ flash' = Kit
    /\ UNCHANGED <<knobs, focus, route, running, pattern, grid, quiet>>

\* The power is cut, maybe between the erasing and the writing of a save.
PowerCut ==
    /\ flash' \in {flash} \cup (IF dirty /\ quiet = Debounce THEN {NoKit} ELSE {})
    /\ Boot

-----------------------------------------------------------------------------
\* The audio interrupt.

\* mutant: a drum that is stopped does not move on
StepsRunning(d, t) == running[d] /\ t % knobs[d].div = 0

\* The drum takes a step at tick t.
Steps(d, t) == t % knobs[d].div = 0

\* _on_tick() at a sub-tick that is no common tick: only a reset of the grid counts.
Realign ==
    /\ stepTick' = 0 /\ next' = [d \in Slots |-> 0] /\ clean' = [d \in Slots |-> TRUE]
    /\ UNCHANGED <<knobs, focus, route, running, pattern, store>>

\* _on_tick(): a drum moves on whether or not it is heard; a reset of the grid takes
\* both back to the start.
Tick ==
    \E reset \in BOOLEAN :
        LET t      == IF reset THEN 0 ELSE stepTick
            from(d) == IF reset THEN 0 ELSE next[d]
        IN  /\ t < MaxTicks
            /\ stepTick' = t + 1
            /\ next' = [d \in Slots |-> IF ~Steps(d, t) THEN from(d)
                                        ELSE IF from(d) + 1 >= steps[d] THEN 0
                                        ELSE from(d) + 1]
            /\ clean' = [d \in Slots |-> reset \/ clean[d]]
            /\ UNCHANGED <<knobs, focus, route, running, pattern, store>>

Edit == Turn \/ Swap \/ SetRoute \/ ClearSequence

Next == Edit \/ PlayPad \/ Moment \/ Save \/ PowerCut \/ Realign \/ Tick

Spec == Init /\ [][Next]_vars

\* The main loop keeps coming to prepare(), and time passes.
FairSpec == Spec /\ WF_vars(Moment) /\ WF_vars(Save)

-----------------------------------------------------------------------------
\* Every pattern stays inside its length: the steps it holds, its position and its
\* rotation (cpattern.cpp set_length() and trigger(), which index by them).
TypeOK ==
    /\ knobs \in [Slots -> Setting] /\ focus \in Slots /\ route \in Routes
    /\ running \in [Slots -> BOOLEAN]
    /\ \A d \in Slots :
          /\ steps[d] \in 1..Size /\ onsets[d] \in 0..steps[d]
          /\ shift[d] \in 0..steps[d]-1 /\ next[d] \in 0..steps[d]-1
          /\ DOMAIN word[d] = 0..steps[d]-1
    /\ stepTick \in 0..MaxTicks /\ clean \in [Slots -> BOOLEAN]
    /\ dirty \in BOOLEAN /\ quiet \in 0..Debounce
    /\ flash = NoKit \/ flash \in [Slots -> Setting] \X Slots \X Routes

\* A drum's pattern is the one its knobs ask for, however it came by them: a knob, the
\* factory kit, the kit in flash, on whatever pattern it had before. Its density stays in
\* proportion when SIZE changes its length (edrums_engine.cpp _apply_density(),
\* _rebuild_slot(); cpattern.cpp _build()).
PatternCurrent ==
    \A d \in Slots :
        /\ steps[d] = Length(knobs[d]) /\ onsets[d] = Density(knobs[d], steps[d])
        /\ word[d] = Build(steps[d], onsets[d])

\* A drum that nobody made longer, shorter, slower or faster since the grid was reset is
\* where the bar is, also when it was stopped and started in between, or its deck's
\* other drum was edited (edrums_engine.cpp _on_tick(): a stopped deck "stays
\* phase-locked to the grid").
InPhase ==
    \A d \in Slots : clean[d] =>
        next[d] = ((stepTick + knobs[d].div - 1) \div knobs[d].div) % steps[d]

\* What a power cut would lose is waiting to be saved: with no save waiting the flash
\* holds the kit, or there is none in it and the kit is the factory's
\* (edrums_engine.cpp _mark_dirty(), prepare(), kit_load()).
UnsavedIsDirty == ~dirty => flash = Kit \/ (flash = NoKit /\ Kit = FactoryKit)

\* A player who lets go finds the kit again: once nothing changes and the power holds,
\* the flash comes to hold the kit for good, unless it is the factory's that no save
\* ever wrote (edrums_engine.cpp prepare(), kit_save()).
KitKept ==
    <>[][~Edit /\ ~PowerCut]_vars =>
        <>[](flash = Kit \/ (flash = NoKit /\ Kit = FactoryKit))

\* The patterns in the sequencers and the knobs of the kit agree.
Inv == TypeOK /\ PatternCurrent
=============================================================================

---------------------------- MODULE EngineProofs ----------------------------
(***************************************************************************)
(* The two engines whose control runs in both contexts: the tape, whose    *)
(* interrupt asks the main loop for a stop, and the drums, which the       *)
(* interrupt steps while the main loop edits them.                         *)
(*                                                                         *)
(* TapeEngine, for every length of the loop and every decay: the stop that *)
(* a faded loop asks for in the interrupt, and the main loop carries out a *)
(* pass later, hits neither a take nor a loop that still sounds.           *)
(*                                                                         *)
(* Edrums, for every size of the patterns, every grain of the knobs and    *)
(* any bound on the ticks: a drum whose length and division were left      *)
(* alone is where the bar is, an edit is saved or waiting to be, and the   *)
(* patterns are the ones the knobs ask for, as even as can be.             *)
(***************************************************************************)
EXTENDS TapeEngine, Edrums, ModularArithmetic, FiniteSetTheorems, TLAPS

-----------------------------------------------------------------------------
(* The tape. *)

\* A request, from the block that makes it until it is carried out.
Asked == wantStop \/ pc = "stop"

\* Nothing but a stream that was started in this very pass is recording while a
\* request is on its way.
NoTakeAsked == Recording(deck) /\ Asked => young

\* A request that was made of a stream that plays stays made of silence: the gain
\* is only restored by priming, and a playing deck is not primed again.
AskedOfSilence == Playing(deck) /\ Asked => young \/ (primed /\ gain = 0)

TapeInv == TapeTypeOK /\ NoTakeAsked /\ AskedOfSilence

-----------------------------------------------------------------------------
\* What the calls of the streaming service make of a deck.
LEMMA DeckCalls ==
    ASSUME NEW d \in Deck, NEW what \in {"play", "record"}
    PROVE  /\ Started(d, what) \in Deck /\ Started(d, what).mode = what
           /\ Halted(d) \in Deck /\ Halted(d).mode = "idle"
           /\ Finished(d) \in Deck /\ Finished(d).mode = d.mode
           /\ RanOut(d) \in Deck /\ RanOut(d).mode = "idle"
BY DEF Deck, Started, Halted, Finished, RanOut

\* One block keeps the place and the gain in their ranges.
LEMMA RenderTypes ==
    ASSUME TapeTypeOK, Render PROVE TapeTypeOK'
<1> USE TapeAssumption
<1>1. Level \in 0..Passes
  BY DEF TapeTypeOK, Level
<1>2. gain' \in 0..Passes /\ wantStop' \in BOOLEAN
  <2>1. Crossed => gain' \in 0..Passes /\ wantStop' \in BOOLEAN
    BY <1>1 DEF TapeTypeOK, Crossed
  <2>2. Crossed \/ (gain' = Level /\ UNCHANGED wantStop)
    BY DEF Render
  <2> QED
    BY <1>1, <2>1, <2>2 DEF TapeTypeOK
<1>3. srcPos' \in 0..(Frames + 2)
  BY DEF TapeTypeOK, Render
<1> QED
  BY <1>2, <1>3 DEF TapeTypeOK, Render

LEMMA TapeTypeStep == TapeTypeOK /\ [TapeNext]_tapeVars => TapeTypeOK'
<1> SUFFICES ASSUME TapeTypeOK, [TapeNext]_tapeVars PROVE TapeTypeOK'
  OBVIOUS
<1> USE DEF TapeTypeOK, control, voice, tapeVars
<1>1. CASE Service
  BY <1>1, DeckCalls DEF Service
<1>2. CASE PadsDone
  BY <1>2 DEF PadsDone
<1>3. CASE TurnEnv
  BY <1>3 DEF TurnEnv
<1>4. CASE Prepare
  BY <1>4 DEF Prepare
<1>5. CASE StopFaded
  BY <1>5, DeckCalls DEF StopFaded
<1>6. CASE Render
  BY <1>6, RenderTypes
<1>7. CASE Rest
  BY <1>7 DEF Rest
<1>8. CASE Cool
  BY <1>8 DEF Cool
<1>9. ASSUME NEW what \in {"play", "record"}, Toggle(what) PROVE TapeTypeOK'
  <2>0. Started(deck, what) \in Deck /\ Halted(deck) \in Deck
    BY DeckCalls
  <2>1. deck' \in Deck /\ young' \in BOOLEAN /\ hot' \in BOOLEAN
    BY <1>9, <2>0 DEF Toggle, Begun
  <2>2. UNCHANGED <<streamLoop, loopMode, wantStop, pc, voice>>
    BY <1>9 DEF Toggle
  <2> QED
    BY <2>1, <2>2
<1>10. CASE UNCHANGED tapeVars
  BY <1>10
<1> QED
  BY <1>1, <1>2, <1>3, <1>4, <1>5, <1>6, <1>7, <1>8, <1>9, <1>10 DEF TapeNext, Pass, Block

-----------------------------------------------------------------------------
LEMMA TapeInvInit == TapeInit => TapeInv
<1> SUFFICES ASSUME TapeInit PROVE TapeInv
  OBVIOUS
<1>1. deck \in Deck /\ deck.mode = "idle"
  BY DEF TapeInit, Deck, IdleDeck
<1>2. srcPos \in 0..(Frames + 2) /\ gain \in 0..Passes
  BY TapeAssumption DEF TapeInit
<1>3. TapeTypeOK
  BY <1>1, <1>2 DEF TapeInit, TapeTypeOK, Modes
<1> QED
  BY <1>1, <1>3 DEF TapeInv, NoTakeAsked, AskedOfSilence, Recording, Playing

\* Only Render makes a request, and only of a deck that plays.
LEMMA NoTakeAskedStep == TapeInv /\ [TapeNext]_tapeVars => NoTakeAsked'
<1> SUFFICES ASSUME TapeInv, [TapeNext]_tapeVars PROVE NoTakeAsked'
  OBVIOUS
<1> USE DEF TapeInv, TapeTypeOK, NoTakeAsked, Asked, Recording, control, voice, tapeVars
<1>1. CASE Service
  BY <1>1, DeckCalls DEF Service
<1>2. CASE PadsDone
  BY <1>2 DEF PadsDone
<1>3. CASE TurnEnv
  BY <1>3 DEF TurnEnv
<1>4. CASE Prepare
  BY <1>4 DEF Prepare
<1>5. CASE StopFaded
  BY <1>5, DeckCalls DEF StopFaded
<1>6. CASE Render
  BY <1>6 DEF Render, Playing
<1>7. CASE Rest
  BY <1>7 DEF Rest
<1>8. CASE Cool
  BY <1>8 DEF Cool
<1>9. ASSUME NEW what \in {"play", "record"}, Toggle(what) PROVE NoTakeAsked'
  BY <1>9, DeckCalls DEF Toggle, Begun
<1>10. CASE UNCHANGED tapeVars
  BY <1>10
<1> QED
  BY <1>1, <1>2, <1>3, <1>4, <1>5, <1>6, <1>7, <1>8, <1>9, <1>10 DEF TapeNext, Pass, Block

\* The block that makes the request leaves the gain at silence, and no later block
\* of the same stream raises it.
LEMMA AskedOfSilenceStep == TapeInv /\ [TapeNext]_tapeVars => AskedOfSilence'
<1> SUFFICES ASSUME TapeInv, [TapeNext]_tapeVars PROVE AskedOfSilence'
  OBVIOUS
<1> USE DEF TapeInv, TapeTypeOK, AskedOfSilence, Asked, Playing, control, voice, tapeVars
<1>1. CASE Service
  BY <1>1, DeckCalls DEF Service
<1>2. CASE PadsDone
  BY <1>2 DEF PadsDone
<1>3. CASE TurnEnv
  BY <1>3 DEF TurnEnv
<1>4. CASE Prepare
  BY <1>4 DEF Prepare
<1>5. CASE StopFaded
  BY <1>5, DeckCalls DEF StopFaded
<1>6. CASE Render
  <2>1. gain' = Level \/ Crossed
    BY <1>6 DEF Render
  <2>2. wantStop' => wantStop \/ gain' = 0
    BY <1>6 DEF Render, Crossed
  <2>3. primed /\ gain = 0 => gain' = 0
    BY <2>1 DEF Level, Crossed
  <2> QED
    BY <1>6, <2>2, <2>3 DEF Render
<1>7. CASE Rest
  BY <1>7 DEF Rest
<1>8. CASE Cool
  BY <1>8 DEF Cool
<1>9. ASSUME NEW what \in {"play", "record"}, Toggle(what) PROVE AskedOfSilence'
  BY <1>9, DeckCalls DEF Toggle, Begun
<1>10. CASE UNCHANGED tapeVars
  BY <1>10
<1> QED
  BY <1>1, <1>2, <1>3, <1>4, <1>5, <1>6, <1>7, <1>8, <1>9, <1>10 DEF TapeNext, Pass, Block

LEMMA TapeInvStep == TapeInv /\ [TapeNext]_tapeVars => TapeInv'
BY TapeTypeStep, NoTakeAskedStep, AskedOfSilenceStep DEF TapeInv

LEMMA TapeInvariant == TapeSpec => []TapeInv
BY TapeInvInit, TapeInvStep, PTL DEF TapeSpec

\* The variables of tape_engine.h keep their ranges.
THEOREM TapeTypeCorrect == TapeSpec => []TapeTypeOK
BY TapeInvariant, PTL DEF TapeInv

\* prepare() ends a take on behalf of a loop that faded out only in the pass in
\* which the take was started (tape_engine.cpp:53-58).
THEOREM TakesSurvive == TapeSpec => TakeSurvives
<1>1. TapeInv =>
        [pc = "stop" /\ Recording(deck) /\ ~Recording(deck') => young]_tapeVars
  BY DEF TapeInv, NoTakeAsked, Asked
<1> QED
  BY <1>1, TapeInvariant, PTL DEF TakeSurvives

\* And it ends a play that lasts for longer only when its gain is at silence
\* (tape_engine.cpp:53-58, 320-323).
THEOREM SoundingLoopsSurvive == TapeSpec => StoppedOnlyFaded
<1>1. TapeInv =>
        [pc = "stop" /\ Playing(deck) /\ ~Playing(deck') /\ ~young => gain = 0]_tapeVars
  BY DEF TapeInv, AskedOfSilence, Asked
<1> QED
  BY <1>1, TapeInvariant, PTL DEF StoppedOnlyFaded

-----------------------------------------------------------------------------
(* The calls of the tape's deck. *)

Contract == INSTANCE DeckService

\* Every step of the engine leaves the deck alone or makes one of its calls.
LEMMA TapeDeckStep ==
    ASSUME [TapeNext]_tapeVars
    PROVE  \/ deck' = deck
           \/ deck.finalizing /\ deck' = Finished(deck)
           \/ Playing(deck) /\ deck' = RanOut(deck)
           \/ deck' = Halted(deck)
           \/ \E what \in {"play", "record"} : Free(deck) /\ deck' = Started(deck, what)
<1>1. CASE Service
  BY <1>1 DEF Service
<1>2. ASSUME NEW what \in {"play", "record"}, Toggle(what)
      PROVE  \/ deck' = deck \/ deck' = Halted(deck)
             \/ Free(deck) /\ deck' = Started(deck, what)
  BY <1>2 DEF Toggle, Begun
<1>3. CASE PadsDone \/ TurnEnv \/ Prepare \/ StopFaded \/ Render \/ Rest \/ Cool
           \/ UNCHANGED tapeVars
  BY <1>3 DEF PadsDone, TurnEnv, Prepare, StopFaded, Render, Rest, Cool, tapeVars
<1> QED
  BY <1>1, <1>2, <1>3 DEF TapeNext, Pass, Block

\* The tape keeps to the contract: with the stop that the interrupt asks for landing
\* on whatever the deck does a pass later, it calls the deck only as the service
\* allows (istreamdeck.h:68-74, tape_engine.cpp:56, 347-366).
THEOREM TapeKeepsToContract == TapeSpec => Contract!Init /\ [][Contract!Next]_deck
<1>1. TapeInit => Contract!Init
  BY DEF TapeInit, Contract!Init, Contract!IdleDeck, IdleDeck
<1>2. TapeTypeOK /\ [TapeNext]_tapeVars => [Contract!Next]_deck
  <2> SUFFICES ASSUME TapeTypeOK, [TapeNext]_tapeVars, deck' # deck PROVE Contract!Next
    OBVIOUS
  <2>1. CASE deck.finalizing /\ deck' = Finished(deck)
    BY <2>1, Zenon DEF Contract!Next, Contract!Finish, Contract!Finished, Finished
  <2>2. CASE Playing(deck) /\ deck' = RanOut(deck)
    BY <2>2 DEF Contract!Next, Contract!RunOut, Contract!Playing, Contract!RanOut, Playing, RanOut
  <2>3. CASE deck' = Halted(deck)
    <3>1. deck.mode # "idle"
      <4> SUFFICES ASSUME deck.mode = "idle" PROVE Halted(deck) = deck
        BY <2>3
      <4>1. deck \in Deck
        BY DEF TapeTypeOK
      <4> QED
        BY <4>1 DEF Deck, Halted
    <3> QED
      BY <2>3, <3>1 DEF Contract!Next, Contract!Stop, Contract!Halted, Halted
  <2>4. ASSUME NEW what \in {"play", "record"}, Free(deck), deck' = Started(deck, what)
        PROVE  Contract!Next
    BY <2>4 DEF Contract!Next, Contract!Start, Contract!Free, Contract!Started, Free, Started
  <2> QED
    BY <2>1, <2>2, <2>3, <2>4, TapeDeckStep
<1> QED
  BY <1>1, <1>2, TapeTypeCorrect, PTL DEF TapeSpec

-----------------------------------------------------------------------------
(* The drums. *)

\* The settings have their types, also the ones in flash.
KitTypes ==
    /\ knobs \in [Slots -> Setting] /\ focus \in Slots /\ route \in Routes
    /\ flash = NoKit \/ flash \in [Slots -> Setting] \X Slots \X Routes

\* A pattern has a length and a place, and the grid a tick.
GridTypes ==
    /\ steps \in [Slots -> Nat \ {0}] /\ next \in [Slots -> Nat]
    /\ clean \in [Slots -> BOOLEAN] /\ stepTick \in Nat

IInv == KitTypes /\ GridTypes /\ InPhase /\ UnsavedIsDirty

\* What the operations on a pattern are made for: a record of its five parts.
IsPattern(p) == /\ p = [steps |-> p.steps, onsets |-> p.onsets, shift |-> p.shift,
                        word |-> p.word, next |-> p.next]
                /\ p.steps \in Nat \ {0} /\ p.next \in Nat

-----------------------------------------------------------------------------
(* Settings and patterns. *)

LEMMA LengthType == ASSUME NEW s \in Setting PROVE Length(s) \in Nat \ {0}
<1>1. s.size \in Nat /\ Size - 2 \in Nat /\ Full \in Nat \ {0}
  BY SizeAssumption, EdrumsAssumption DEF Setting
<1>2. PICK a \in Nat : a = s.size * (Size - 2)
  <2>1. \A x, y \in Nat : x * y \in Nat
    OBVIOUS
  <2> QED
    BY <1>1, <2>1
<1>3. 2 * a + Full \in Nat /\ 2 * Full \in Nat \ {0}
  BY <1>1
<1>4. (2 * a + Full) \div (2 * Full) \in Nat
  BY <1>3, QuotientRange
<1> QED
  BY <1>2, <1>4 DEF Length, Rounded

LEMMA FactoryTypes == Factory[0] \in Setting /\ Factory[1] \in Setting
BY EdrumsAssumption DEF Slots

\* set_length() gives the length it is asked for, and leaves the place of a pattern
\* that has that length.
LEMMA LengthenedGrid ==
    ASSUME NEW p, IsPattern(p), NEW n \in Nat \ {0}
    PROVE  /\ IsPattern(Lengthened(p, n)) /\ Lengthened(p, n).steps = n
           /\ Lengthened(p, n).next \in {p.next, 0}
           /\ n = p.steps => Lengthened(p, n).next = p.next
BY DEF Lengthened, IsPattern

\* Density and rotation leave the grid alone.
LEMMA PopulatedGrid ==
    ASSUME NEW p, IsPattern(p), NEW s
    PROVE  /\ IsPattern(Populated(p, s)) /\ Populated(p, s).steps = p.steps
           /\ Populated(p, s).next = p.next
BY DEF Populated, IsPattern

LEMMA ShiftedGrid ==
    ASSUME NEW p, IsPattern(p), NEW i
    PROVE  LET q == [p EXCEPT !.shift = i]
           IN  IsPattern(q) /\ q.steps = p.steps /\ q.next = p.next
BY DEF IsPattern

LEMMA RebuiltGrid ==
    ASSUME NEW p, IsPattern(p), NEW s \in Setting
    PROVE  /\ IsPattern(Rebuilt(p, s)) /\ Rebuilt(p, s).next \in {p.next, 0}
           /\ Rebuilt(p, s).steps = p.steps => Rebuilt(p, s).next = p.next
<1> DEFINE long == Lengthened(p, Length(s))
           set  == [long EXCEPT !.shift = Shift(s, long.steps)]
<1>1. /\ IsPattern(long) /\ long.steps = Length(s) /\ long.next \in {p.next, 0}
      /\ Length(s) = p.steps => long.next = p.next
  BY LengthType, LengthenedGrid
<1>2. IsPattern(set) /\ set.steps = long.steps /\ set.next = long.next
  BY <1>1, ShiftedGrid
<1>3. Rebuilt(p, s) = Populated(set, s)
  BY DEF Rebuilt
<1> HIDE DEF set, long
<1> QED
  BY <1>1, <1>2, <1>3, PopulatedGrid

LEMMA TurnedGrid ==
    ASSUME NEW p, IsPattern(p), NEW s \in Setting, NEW k \in {"size", "pos", "env", "div"}
    PROVE  /\ IsPattern(Turned(p, k, s)) /\ Turned(p, k, s).next \in {p.next, 0}
           /\ Turned(p, k, s).steps = p.steps => Turned(p, k, s).next = p.next
<1>1. CASE k = "size"
  <2>1. Turned(p, k, s) = Populated(Lengthened(p, Length(s)), s)
    BY <1>1 DEF Turned
  <2> QED
    BY <2>1, LengthType, LengthenedGrid, PopulatedGrid
<1>2. CASE k = "pos"
  BY <1>2, PopulatedGrid DEF Turned
<1>3. CASE k = "env"
  BY <1>3, ShiftedGrid DEF Turned
<1>4. CASE k = "div"
  BY <1>4 DEF Turned
<1> QED
  BY <1>1, <1>2, <1>3, <1>4

LEMMA PatternGrid ==
    ASSUME GridTypes, NEW d \in Slots
    PROVE  IsPattern(Pattern(d)) /\ Pattern(d).steps = steps[d] /\ Pattern(d).next = next[d]
BY DEF GridTypes, IsPattern, Pattern

\* A drum boots at the head of its pattern.
LEMMA FactoryGrid ==
    ASSUME NEW d \in Slots
    PROVE  IsPattern(FactoryPattern(d)) /\ FactoryPattern(d).next = 0
<1>1. IsPattern(New) /\ New.next = 0
  BY SizeAssumption DEF New, IsPattern
<1> QED
  BY <1>1, FactoryTypes, RebuiltGrid DEF FactoryPattern, Slots

-----------------------------------------------------------------------------
(* The bar: the steps a drum has taken after t ticks of its grid. *)

Taken(t, div) == (t + div - 1) \div div

LEMMA TakenCounts ==
    ASSUME NEW t \in Nat, NEW div \in {1, 2, 4}
    PROVE  /\ Taken(t, div) \in Nat /\ Taken(0, div) = 0
           /\ Taken(t + 1, div) = IF t % div = 0 THEN Taken(t, div) + 1 ELSE Taken(t, div)
<1>1. CASE div = 1
  BY <1>1 DEF Taken
<1>2. CASE div = 2
  BY <1>2 DEF Taken
<1>3. CASE div = 4
  BY <1>3 DEF Taken
<1> QED
  BY <1>1, <1>2, <1>3

\* The wrap of trigger() is the remainder of the count.
LEMMA WrapIsRemainder ==
    ASSUME NEW n \in Nat \ {0}, NEW q \in Nat
    PROVE  (q + 1) % n = IF (q % n) + 1 >= n THEN 0 ELSE (q % n) + 1
<1>1. PICK r \in 0..n-1 : q % n = r
  BY Euclid
<1>2. (q + 1) % n = (r + 1) % n
  <2>1. PICK i \in Int : i = 1
    OBVIOUS
  <2>2. q \in Int
    OBVIOUS
  <2>3. ((q % n) + i) % n = (q + i) % n
    BY <2>2, RemainderCountsOn
  <2> QED
    BY <1>1, <2>1, <2>3
<1>3. CASE r + 1 >= n
  <2>1. r + 1 = n * 1 + 0
    BY <1>3
  <2>2. (r + 1) % n = 0
    BY <2>1, RemainderUnique
  <2> QED
    BY <1>1, <1>2, <1>3, <2>2
<1>4. CASE r + 1 < n
  <2>1. r + 1 = n * 0 + (r + 1) /\ r + 1 \in 0..n-1
    BY <1>4
  <2>2. (r + 1) % n = r + 1
    BY <2>1, RemainderUnique
  <2> QED
    BY <1>1, <1>2, <1>4, <2>2
<1> QED
  BY <1>3, <1>4

LEMMA ZeroRemainder == ASSUME NEW n \in Nat \ {0} PROVE 0 % n = 0
<1>1. 0 = n * 0 + 0 /\ 0 \in 0..n-1
  OBVIOUS
<1> QED
  BY <1>1, RemainderUnique

\* Where drum d is when it is in phase.
InPhaseAt(d) == next[d] = Taken(stepTick, knobs[d].div) % steps[d]

LEMMA PhaseOfDrums ==
    /\ InPhase <=> \A d \in Slots : clean[d] => InPhaseAt(d)
    /\ InPhase' <=> \A d \in Slots : clean'[d] => InPhaseAt(d)'
BY DEF InPhase, InPhaseAt, Taken

\* At the head of the bar a drum is at its first step.
LEMMA HeadOfBar ==
    ASSUME KitTypes', GridTypes', NEW d \in Slots, stepTick' = 0, next'[d] = 0
    PROVE  InPhaseAt(d)'
<1>1. knobs'[d].div \in {1, 2, 4} /\ steps'[d] \in Nat \ {0}
  BY DEF KitTypes, GridTypes, Setting
<1>2. Taken(0, knobs'[d].div) = 0
  BY <1>1, TakenCounts
<1>3. 0 % steps'[d] = 0
  BY <1>1, ZeroRemainder
<1> QED
  BY <1>2, <1>3 DEF InPhaseAt

-----------------------------------------------------------------------------
(* The steps of the main loop and of the interrupt. *)

\* What Sounds() leaves of the grid.
LEMMA SoundsGrid ==
    ASSUME NEW P, \A d \in Slots : IsPattern(P[d]), Sounds(P)
    PROVE  /\ steps' \in [Slots -> Nat \ {0}] /\ next' \in [Slots -> Nat]
           /\ \A d \in Slots : steps'[d] = P[d].steps /\ next'[d] = P[d].next
BY DEF Sounds, IsPattern

\* Edits: a drum that stays clean keeps its length, its division and its place.
LEMMA TurnKeeps == ASSUME IInv, Turn PROVE KitTypes' /\ GridTypes' /\ InPhase'
<1>1. PICK k \in {"size", "pos", "env", "div"}, s \in Settings[focus] :
        LET p == Turned(Pattern(focus), k, s)
        IN  /\ s = [knobs[focus] EXCEPT ![k] = s[k]]
            /\ knobs' = [knobs EXCEPT ![focus] = s]
            /\ Sounds([d \in Slots |-> IF d = focus THEN p ELSE Pattern(d)])
            /\ clean' = [clean EXCEPT ![focus] = @ /\ s.div = knobs[focus].div
                                                   /\ p.steps = steps[focus]]
            /\ MarkDirty /\ UNCHANGED <<focus, route, running, stepTick>>
  BY DEF Turn
<1> DEFINE p == Turned(Pattern(focus), k, s)
           P == [d \in Slots |-> IF d = focus THEN p ELSE Pattern(d)]
<1>2. focus \in Slots /\ s \in Setting
  BY EdrumsAssumption DEF IInv, KitTypes
<1>3. /\ IsPattern(p)
      /\ p.steps = steps[focus] => p.next = next[focus]
  <2>1. PICK was : was = Pattern(focus)
    OBVIOUS
  <2>2. IsPattern(was) /\ was.steps = steps[focus] /\ was.next = next[focus]
    BY <1>2, <2>1, PatternGrid DEF IInv
  <2>3. /\ IsPattern(Turned(was, k, s))
        /\ Turned(was, k, s).steps = was.steps => Turned(was, k, s).next = was.next
    BY <1>2, <2>2, TurnedGrid
  <2> QED
    BY <2>1, <2>2, <2>3
<1>4. \A d \in Slots : IsPattern(P[d])
  BY <1>3, PatternGrid DEF IInv
<1>5. Sounds(P)
  BY <1>1
<1>6. /\ steps' \in [Slots -> Nat \ {0}] /\ next' \in [Slots -> Nat]
      /\ \A d \in Slots : steps'[d] = P[d].steps /\ next'[d] = P[d].next
  BY <1>4, <1>5, SoundsGrid
<1>7. KitTypes' /\ GridTypes'
  BY <1>1, <1>2, <1>6 DEF KitTypes, GridTypes, IInv, MarkDirty
<1>8. ASSUME NEW d \in Slots, clean'[d] PROVE InPhaseAt(d)'
  <2>1. CASE d # focus
    <3>1. knobs'[d] = knobs[d] /\ clean[d] /\ stepTick' = stepTick
      BY <1>1, <1>2, <1>8, <2>1 DEF IInv, KitTypes, GridTypes
    <3>2. steps'[d] = steps[d] /\ next'[d] = next[d]
      BY <1>6, <2>1, PatternGrid DEF IInv
    <3> QED
      BY <3>1, <3>2, PhaseOfDrums DEF IInv, InPhaseAt
  <2>2. CASE d = focus
    <3>1. clean[d] /\ s.div = knobs[d].div /\ p.steps = steps[d] /\ stepTick' = stepTick
      BY <1>1, <1>2, <1>8, <2>2 DEF IInv, GridTypes
    <3>2. knobs'[d].div = knobs[d].div
      BY <1>1, <1>2, <2>2, <3>1 DEF IInv, KitTypes
    <3>3. steps'[d] = steps[d] /\ next'[d] = next[d]
      BY <1>3, <1>6, <2>2, <3>1
    <3> QED
      BY <3>1, <3>2, <3>3, PhaseOfDrums DEF IInv, InPhaseAt
  <2> QED
    BY <2>1, <2>2
<1> QED
  BY <1>7, <1>8, PhaseOfDrums

LEMMA ClearKeeps == ASSUME IInv, ClearSequence PROVE KitTypes' /\ GridTypes' /\ InPhase'
<1> DEFINE P == [d \in Slots |-> Rebuilt(Pattern(d), Factory[d])]
<1>1. /\ knobs' = Factory /\ focus' = 0 /\ Sounds(P) /\ UNCHANGED <<route, stepTick, flash>>
      /\ clean' = [d \in Slots |-> clean[d] /\ P[d].steps = steps[d]
                                            /\ Factory[d].div = knobs[d].div]
  BY DEF ClearSequence, MarkDirty
<1>2. \A d \in Slots : /\ IsPattern(P[d])
                       /\ P[d].steps = steps[d] => P[d].next = next[d]
  BY PatternGrid, FactoryTypes, RebuiltGrid DEF IInv, Slots
<1>3. /\ steps' \in [Slots -> Nat \ {0}] /\ next' \in [Slots -> Nat]
      /\ \A d \in Slots : steps'[d] = P[d].steps /\ next'[d] = P[d].next
  BY <1>1, <1>2, SoundsGrid
<1>4. Factory \in [Slots -> Setting]
  BY EdrumsAssumption
<1> HIDE DEF P
<1>5. clean' \in [Slots -> BOOLEAN]
  BY <1>1 DEF IInv, GridTypes
<1>6. KitTypes' /\ GridTypes'
  BY <1>1, <1>3, <1>4, <1>5 DEF KitTypes, GridTypes, IInv, Slots
<1>7. ASSUME NEW d \in Slots, clean'[d] PROVE InPhaseAt(d)'
  <2>1. clean[d] /\ P[d].steps = steps[d] /\ knobs'[d].div = knobs[d].div
    BY <1>1, <1>7
  <2>2. steps'[d] = steps[d] /\ next'[d] = next[d] /\ stepTick' = stepTick
    BY <1>1, <1>2, <1>3, <2>1
  <2> QED
    BY <2>1, <2>2, PhaseOfDrums DEF IInv, InPhaseAt
<1> QED
  BY <1>6, <1>7, PhaseOfDrums

\* A drum boots in phase, from flash or from the factory.
LEMMA BootKeeps ==
    ASSUME IInv, PowerCut PROVE KitTypes' /\ GridTypes' /\ InPhase' /\ UnsavedIsDirty'
<1>1. (flash' = NoKit \/ flash' \in [Slots -> Setting] \X Slots \X Routes) /\ Boot
  BY DEF PowerCut, IInv, KitTypes
<1> DEFINE P == [d \in Slots |-> IF flash' = NoKit THEN FactoryPattern(d)
                                 ELSE Rebuilt(FactoryPattern(d), flash'[1][d])]
<1>2. \A d \in Slots : IsPattern(P[d]) /\ P[d].next = 0
  <2>1. CASE flash' = NoKit
    BY <2>1, FactoryGrid
  <2>2. CASE flash' # NoKit
    <3>1. \A d \in Slots : flash'[1][d] \in Setting
      BY <1>1, <2>2
    <3> QED
      BY <2>2, <3>1, FactoryGrid, RebuiltGrid
  <2> QED
    BY <2>1, <2>2
<1>3. Sounds(P) /\ stepTick' = 0 /\ clean' = [d \in Slots |-> TRUE]
  BY <1>1 DEF Boot
<1>4. /\ steps' \in [Slots -> Nat \ {0}] /\ next' \in [Slots -> Nat]
      /\ \A d \in Slots : next'[d] = 0
  BY <1>2, <1>3, SoundsGrid
<1>5. knobs' \in [Slots -> Setting] /\ focus' \in Slots /\ route' \in Routes
  <2>1. CASE flash' = NoKit
    <3>1. knobs' = Factory /\ focus' = 0 /\ route' = "stereo"
      BY <1>1, <2>1 DEF Boot
    <3> QED
      BY <3>1, EdrumsAssumption DEF Slots
  <2>2. CASE flash' # NoKit
    BY <1>1, <2>2 DEF Boot
  <2> QED
    BY <2>1, <2>2
<1>6. KitTypes' /\ GridTypes'
  BY <1>1, <1>3, <1>4, <1>5 DEF KitTypes, GridTypes
<1>7. InPhase'
  BY <1>3, <1>4, <1>6, HeadOfBar, PhaseOfDrums
<1>8. UnsavedIsDirty'
  <2>1. CASE flash' = NoKit
    BY <1>1, <2>1 DEF Boot, UnsavedIsDirty, Kit, FactoryKit
  <2>2. CASE flash' # NoKit
    <3>1. flash' = <<flash'[1], flash'[2], flash'[3]>>
      BY <1>1, <2>2
    <3>2. knobs' = flash'[1] /\ focus' = flash'[2] /\ route' = flash'[3]
      BY <1>1, <2>2 DEF Boot
    <3> QED
      BY <3>1, <3>2 DEF UnsavedIsDirty, Kit
  <2> QED
    BY <2>1, <2>2
<1> QED
  BY <1>6, <1>7, <1>8

\* A tick moves a drum on exactly when its division says so, also one that is stopped.
LEMMA TickKeeps == ASSUME IInv, Tick PROVE GridTypes' /\ InPhase'
<1>1. PICK reset \in BOOLEAN :
        LET t       == IF reset THEN 0 ELSE stepTick
            from(d) == IF reset THEN 0 ELSE next[d]
        IN  /\ stepTick' = t + 1
            /\ next' = [d \in Slots |-> IF ~Steps(d, t) THEN from(d)
                                        ELSE IF from(d) + 1 >= steps[d] THEN 0
                                        ELSE from(d) + 1]
            /\ clean' = [d \in Slots |-> reset \/ clean[d]]
            /\ UNCHANGED <<knobs, steps>>
  BY DEF Tick, pattern
<1> DEFINE t       == IF reset THEN 0 ELSE stepTick
           from(d) == IF reset THEN 0 ELSE next[d]
<1>2. t \in Nat /\ \A d \in Slots : from(d) \in Nat
  BY DEF IInv, GridTypes
<1>3. /\ stepTick' = t + 1 /\ UNCHANGED <<knobs, steps>>
      /\ \A d \in Slots : next'[d] = IF ~Steps(d, t) THEN from(d)
                                     ELSE IF from(d) + 1 >= steps[d] THEN 0 ELSE from(d) + 1
  BY <1>1
<1>4. ASSUME NEW d \in Slots, reset \/ clean[d]
      PROVE  from(d) = Taken(t, knobs[d].div) % steps[d]
  <2>1. knobs[d].div \in {1, 2, 4} /\ steps[d] \in Nat \ {0}
    BY DEF IInv, KitTypes, GridTypes, Setting
  <2>2. CASE reset
    <3>1. Taken(t, knobs[d].div) = 0 /\ from(d) = 0
      BY <2>1, <2>2, TakenCounts
    <3> QED
      BY <2>1, <3>1, ZeroRemainder
  <2>3. CASE ~reset
    BY <1>4, <2>3, PhaseOfDrums DEF IInv, InPhaseAt
  <2> QED
    BY <2>2, <2>3
<1>5. next' \in [Slots -> Nat] /\ clean' \in [Slots -> BOOLEAN]
  <2>1. \A d \in Slots : next'[d] \in Nat
    BY <1>2, <1>3
  <2>2. clean' = [d \in Slots |-> reset \/ clean[d]]
    BY <1>1
  <2>3. next' = [d \in Slots |-> next'[d]]
    BY <1>1
  <2> QED
    BY <2>1, <2>2, <2>3 DEF IInv, GridTypes
<1>6. \A d \in Slots : clean'[d] => reset \/ clean[d]
  BY <1>1
<1> HIDE DEF t, from
<1>7. GridTypes'
  BY <1>2, <1>3, <1>5 DEF IInv, GridTypes
<1>8. ASSUME NEW d \in Slots, clean'[d] PROVE InPhaseAt(d)'
  <2> DEFINE div == knobs[d].div
             n   == steps[d]
             q   == Taken(t, div)
  <2>1. div \in {1, 2, 4} /\ n \in Nat \ {0}
    BY DEF IInv, KitTypes, GridTypes, Setting
  <2>2. from(d) = q % n
    BY <1>4, <1>6, <1>8
  <2>3. q \in Nat /\ Taken(t + 1, div) = IF t % div = 0 THEN q + 1 ELSE q
    BY <1>2, <2>1, TakenCounts
  <2>4. next'[d] = IF t % div # 0 THEN q % n ELSE IF (q % n) + 1 >= n THEN 0 ELSE (q % n) + 1
    BY <1>3, <2>2 DEF Steps
  <2> HIDE DEF q, n, div
  <2>5. next'[d] = Taken(t + 1, div) % n
    BY <2>1, <2>3, <2>4, WrapIsRemainder
  <2> QED
    BY <1>3, <2>5 DEF InPhaseAt, n, div
<1> QED
  BY <1>7, <1>8, PhaseOfDrums

-----------------------------------------------------------------------------
LEMMA InvInit == Init => IInv
<1> SUFFICES ASSUME Init PROVE IInv
  OBVIOUS
<1>1. KitTypes
  BY EdrumsAssumption DEF Init, KitTypes, NoKit, Slots
<1>2. GridTypes /\ \A d \in Slots : next[d] = 0
  <2>1. steps \in [Slots -> Nat \ {0}] /\ next \in [Slots -> Nat]
        /\ \A d \in Slots : next[d] = 0
    BY FactoryGrid DEF Init, IsPattern
  <2> QED
    BY <2>1 DEF Init, GridTypes
<1>3. ASSUME NEW d \in Slots PROVE InPhaseAt(d)
  <2>1. knobs[d].div \in {1, 2, 4} /\ steps[d] \in Nat \ {0} /\ stepTick = 0
    BY <1>1, <1>2 DEF Init, KitTypes, GridTypes, Setting
  <2>2. Taken(0, knobs[d].div) = 0
    BY <2>1, TakenCounts
  <2>3. 0 % steps[d] = 0
    BY <2>1, ZeroRemainder
  <2> QED
    BY <1>2, <2>1, <2>2, <2>3 DEF InPhaseAt
<1>4. UnsavedIsDirty
  BY DEF Init, UnsavedIsDirty, Kit, FactoryKit
<1> QED
  BY <1>1, <1>2, <1>3, <1>4, PhaseOfDrums DEF IInv

LEMMA InvStep == IInv /\ [Next]_vars => IInv'
<1> SUFFICES ASSUME IInv, [Next]_vars PROVE IInv'
  OBVIOUS
<1>1. CASE Turn
  <2>1. dirty' = TRUE
    BY <1>1 DEF Turn, MarkDirty
  <2> QED
    BY <1>1, <2>1, TurnKeeps DEF IInv, UnsavedIsDirty
<1>2. CASE ClearSequence
  <2>1. dirty' = TRUE
    BY <1>2 DEF ClearSequence, MarkDirty
  <2> QED
    BY <1>2, <2>1, ClearKeeps DEF IInv, UnsavedIsDirty
<1>3. CASE Swap \/ SetRoute
  <2>1. /\ focus' \in Slots /\ route' \in Routes
        /\ dirty' = TRUE /\ UNCHANGED <<knobs, steps, grid, flash>>
    BY <1>3 DEF Swap, SetRoute, MarkDirty, pattern, IInv, KitTypes, Slots
  <2>2. KitTypes' /\ GridTypes'
    BY <2>1 DEF IInv, KitTypes, GridTypes, grid
  <2>3. InPhase'
    BY <2>1 DEF IInv, InPhase, grid
  <2> QED
    BY <2>1, <2>2, <2>3 DEF IInv, UnsavedIsDirty
<1>4. CASE PowerCut
  BY <1>4, BootKeeps DEF IInv
<1>5. CASE Save
  <2>1. flash' = Kit /\ UNCHANGED <<knobs, focus, route, steps, next, stepTick, clean>>
    BY <1>5 DEF Save, pattern, grid
  <2>2. KitTypes' /\ GridTypes'
    BY <2>1 DEF IInv, KitTypes, GridTypes, Kit
  <2>3. InPhase' /\ UnsavedIsDirty'
    BY <2>1 DEF IInv, InPhase, UnsavedIsDirty, Kit
  <2> QED
    BY <2>2, <2>3 DEF IInv
<1>6. CASE PlayPad \/ Moment \/ UNCHANGED vars
  <2>1. UNCHANGED <<knobs, focus, route, steps, next, stepTick, clean, dirty, flash>>
    BY <1>6 DEF PlayPad, Moment, vars, pattern, grid, store
  <2>2. KitTypes' /\ GridTypes'
    BY <2>1 DEF IInv, KitTypes, GridTypes
  <2>3. InPhase' /\ UnsavedIsDirty'
    BY <2>1 DEF IInv, InPhase, UnsavedIsDirty, Kit
  <2> QED
    BY <2>2, <2>3 DEF IInv
<1>7. CASE Realign \/ Tick
  <2>1. UNCHANGED <<knobs, focus, route, steps, dirty, flash>>
    BY <1>7 DEF Realign, Tick, pattern, store
  <2>2. KitTypes' /\ UnsavedIsDirty'
    BY <2>1 DEF IInv, KitTypes, UnsavedIsDirty, Kit
  <2>3. CASE Realign
    <3>1. stepTick' = 0 /\ next' = [d \in Slots |-> 0] /\ clean' = [d \in Slots |-> TRUE]
      BY <2>3 DEF Realign
    <3>2. GridTypes'
      BY <2>1, <3>1 DEF IInv, GridTypes
    <3>3. InPhase'
      BY <2>2, <3>1, <3>2, HeadOfBar, PhaseOfDrums
    <3> QED
      BY <2>2, <3>2, <3>3 DEF IInv
  <2>4. CASE Tick
    BY <2>2, <2>4, TickKeeps DEF IInv
  <2> QED
    BY <1>7, <2>3, <2>4
<1> QED
  BY <1>1, <1>2, <1>3, <1>4, <1>5, <1>6, <1>7 DEF Next, Edit

LEMMA Invariant == Spec => []IInv
BY InvInit, InvStep, PTL DEF Spec

\* A drum that nobody made longer, shorter, slower or faster is where the bar is
\* (edrums_engine.cpp _on_tick()).
THEOREM DrumsInPhase == Spec => []InPhase
BY Invariant, PTL DEF IInv

\* The kit is in flash, or a save is waiting, or it is the factory's
\* (edrums_engine.cpp _mark_dirty(), prepare(), kit_load()).
THEOREM NothingUnsaved == Spec => []UnsavedIsDirty
BY Invariant, PTL DEF IInv

-----------------------------------------------------------------------------
(* The patterns and the knobs. *)

\* A pattern inside its length, with the word of its length and density.
Built(p) ==
    /\ p = [steps |-> p.steps, onsets |-> p.onsets, shift |-> p.shift, word |-> p.word,
            next |-> p.next]
    /\ p.steps \in 1..Size /\ p.onsets \in 0..p.steps
    /\ p.shift \in 0..p.steps-1 /\ p.next \in 0..p.steps-1
    /\ p.word = Build(p.steps, p.onsets)

\* The pattern that setting s asks for.
Fits(p, s) == p.steps = Length(s) /\ p.onsets = Density(s, p.steps)

\* A knob scaled to n steps asks for n of them at most.
LEMMA RoundedRange ==
    ASSUME NEW x \in 0..Full, NEW n \in Nat PROVE Rounded(x * n, Full) \in 0..n
<1>1. Full \in Nat \ {0}
  BY EdrumsAssumption
<1>2. PICK a \in Nat : a = x * n /\ a <= Full * n
  <2>1. \A u, v \in Nat : u * v \in Nat
    OBVIOUS
  <2>2. PICK y \in Nat : Full = x + y
    <3>1. Full - x \in Nat /\ Full = x + (Full - x)
      BY <1>1
    <3> QED
      BY <3>1
  <2>3. Full * n = x * n + y * n /\ x * n \in Nat /\ y * n \in Nat
    BY <1>1, <2>1, <2>2
  <2> QED
    BY <2>3
<1>3. PICK c \in Nat \ {0}, m \in Nat : c = 2 * Full /\ m = 2 * a + Full
  BY <1>1, <1>2
<1>4. PICK q \in Nat, r \in 0..c-1 : q = m \div c /\ m = c * q + r
  <2>1. m \div c \in Nat /\ m % c \in 0..c-1
    BY <1>3, QuotientRange
  <2>2. m = c * (m \div c) + (m % c)
    <3>1. m \in Int /\ c \in Nat \ {0}
      BY <1>3
    <3> QED
      BY <3>1, Z3
  <2> QED
    BY <2>1, <2>2
<1>5. c * n = 2 * (Full * n)
  BY <1>1, <1>3
<1>6. m < c * n + c
  <2>1. Full * n \in Nat
    BY <1>1
  <2> QED
    BY <1>1, <1>2, <1>3, <1>5, <2>1
<1>7. q <= n
  <2> SUFFICES ASSUME q > n PROVE FALSE
    BY <1>4
  <2>1. PICK d \in Nat : q = n + 1 + d
    <3>1. q - n - 1 \in Nat /\ q = n + 1 + (q - n - 1)
      BY <1>4
    <3> QED
      BY <3>1
  <2>2. c * q = c * n + c + c * d /\ c * d \in Nat /\ c * n \in Nat
    BY <1>3, <2>1
  <2> QED
    BY <1>3, <1>4, <1>6, <2>2
<1> QED
  BY <1>2, <1>3, <1>4, <1>7 DEF Rounded

\* SIZE asks for two steps up to all of them, POS for at most the steps there are, and
\* ENV for a rotation within them.
LEMMA SettingRanges ==
    ASSUME NEW s \in Setting, NEW n \in 1..Size
    PROVE  Length(s) \in 1..Size /\ Density(s, n) \in 0..n /\ Shift(s, n) \in 0..n-1
<1>1. /\ s.size \in 0..Full /\ s.pos \in 0..Full /\ s.env \in 0..Full
      /\ Size \in Nat /\ Size >= 2 /\ n \in Nat \ {0}
  BY SizeAssumption DEF Setting
<1>2. PICK m \in Nat : m = Size - 2
  BY <1>1
<1>3. Rounded(s.size * m, Full) \in 0..m
  BY <1>1, RoundedRange
<1>4. Length(s) \in 1..Size
  <2>1. PICK r \in 0..m : r = Rounded(s.size * m, Full)
    BY <1>3
  <2>2. 2 + r \in 1..Size
    BY <1>1, <1>2, <2>1
  <2> QED
    BY <1>2, <2>1, <2>2 DEF Length
<1>5. Density(s, n) \in 0..n
  BY <1>1, RoundedRange DEF Density
<1>6. Shift(s, n) \in 0..n-1
  <2>1. PICK r \in Nat : r = Rounded(s.env * n, Full)
    <3>1. Rounded(s.env * n, Full) \in 0..n
      BY <1>1, RoundedRange
    <3> QED
      BY <3>1
  <2>2. r % n \in 0..n-1
    BY <1>1, <2>1, QuotientRange
  <2> QED
    BY <2>1, <2>2 DEF Shift
<1> QED
  BY <1>4, <1>5, <1>6

\* set_length() gives the pattern of that length, whatever fits of the old one.
LEMMA LengthenedBuilt ==
    ASSUME NEW p, Built(p), NEW n \in 1..Size
    PROVE  Built(Lengthened(p, n)) /\ Lengthened(p, n).steps = n
BY SizeAssumption DEF Lengthened, Built

\* set_onsets() keeps the length and gives the word of the new density.
LEMMA PopulatedBuilt ==
    ASSUME NEW p, Built(p), NEW s \in Setting
    PROVE  /\ Built(Populated(p, s)) /\ Populated(p, s).steps = p.steps
           /\ Populated(p, s).onsets = Density(s, p.steps)
<1>1. PICK k \in 0..p.steps : k = Density(s, p.steps) /\ p.steps \in 1..Size
  BY SettingRanges DEF Built
<1>2. Populated(p, s) = IF k = p.onsets THEN p
                        ELSE [p EXCEPT !.onsets = k, !.word = Build(p.steps, k)]
  <2>1. ~(k > p.steps)
    BY <1>1, SizeAssumption
  <2> QED
    BY <1>1, <2>1 DEF Populated
<1> QED
  BY <1>1, <1>2 DEF Built

\* set_shift() keeps the word.
LEMMA ShiftedBuilt ==
    ASSUME NEW p, Built(p), NEW s \in Setting
    PROVE  LET q == [p EXCEPT !.shift = Shift(s, p.steps)]
           IN  Built(q) /\ q.steps = p.steps /\ q.onsets = p.onsets
<1>1. PICK i \in 0..p.steps-1 : i = Shift(s, p.steps)
  BY SettingRanges DEF Built
<1> QED
  BY <1>1 DEF Built

\* Whatever pattern it is made on, a drum gets the pattern of its setting.
LEMMA RebuiltBuilt ==
    ASSUME NEW p, Built(p), NEW s \in Setting
    PROVE  Built(Rebuilt(p, s)) /\ Fits(Rebuilt(p, s), s)
<1> DEFINE long == Lengthened(p, Length(s))
           set  == [long EXCEPT !.shift = Shift(s, long.steps)]
<1>1. Length(s) \in 1..Size
  <2>1. 1 \in 1..Size
    BY SizeAssumption
  <2> QED
    BY <2>1, SettingRanges
<1>2. Built(long) /\ long.steps = Length(s)
  BY <1>1, LengthenedBuilt
<1>3. Built(set) /\ set.steps = long.steps
  BY <1>2, ShiftedBuilt
<1>4. Rebuilt(p, s) = Populated(set, s)
  BY DEF Rebuilt
<1> HIDE DEF set, long
<1> QED
  BY <1>2, <1>3, <1>4, PopulatedBuilt DEF Fits

\* A turn of one knob is enough to get from the pattern of the old setting to the
\* pattern of the new one.
LEMMA TurnedBuilt ==
    ASSUME NEW p, Built(p), NEW s \in Setting, NEW was \in Setting, Fits(p, was),
           NEW k \in {"size", "pos", "env", "div"}, s = [was EXCEPT ![k] = s[k]]
    PROVE  Built(Turned(p, k, s)) /\ Fits(Turned(p, k, s), s)
<1>1. /\ k # "size" => s.size = was.size
      /\ k # "pos" => s.pos = was.pos
  BY DEF Setting
<1>2. k # "size" => Length(s) = Length(was)
  BY <1>1 DEF Length
<1>3. k # "pos" => \A n : Density(s, n) = Density(was, n)
  BY <1>1 DEF Density
<1>4. CASE k = "size"
  <2>1. Turned(p, k, s) = Populated(Lengthened(p, Length(s)), s)
    BY <1>4 DEF Turned
  <2>2. Length(s) \in 1..Size
    <3>1. 1 \in 1..Size
      BY SizeAssumption
    <3> QED
      BY <3>1, SettingRanges
  <2> QED
    BY <2>1, <2>2, LengthenedBuilt, PopulatedBuilt DEF Fits
<1>5. CASE k = "pos"
  BY <1>2, <1>5, PopulatedBuilt DEF Turned, Fits
<1>6. CASE k = "env"
  BY <1>2, <1>3, <1>6, ShiftedBuilt DEF Turned, Fits
<1>7. CASE k = "div"
  BY <1>2, <1>3, <1>7 DEF Turned, Fits
<1> QED
  BY <1>4, <1>5, <1>6, <1>7

\* The factory kit has the patterns of its settings.
LEMMA FactoryBuilt ==
    ASSUME NEW d \in Slots
    PROVE  Built(FactoryPattern(d)) /\ Fits(FactoryPattern(d), Factory[d])
<1>1. Built(New)
  BY SizeAssumption DEF New, Built
<1>2. Factory[d] \in Setting
  BY EdrumsAssumption
<1> QED
  BY <1>1, <1>2, RebuiltBuilt DEF FactoryPattern

\* Inv, in terms of the patterns.
Scalars ==
    /\ knobs \in [Slots -> Setting] /\ focus \in Slots /\ route \in Routes
    /\ running \in [Slots -> BOOLEAN]
    /\ stepTick \in 0..MaxTicks /\ clean \in [Slots -> BOOLEAN]
    /\ dirty \in BOOLEAN /\ quiet \in 0..Debounce
    /\ flash = NoKit \/ flash \in [Slots -> Setting] \X Slots \X Routes

\* A word has as many steps as its pattern.
LEMMA WordDomain ==
    ASSUME NEW n, NEW k PROVE DOMAIN Build(n, k) = 0..n-1
BY DEF Build

\* Inv holds when the types do and each drum has the pattern of its knobs.
LEMMA InvIs ==
    ASSUME NEW P, \A d \in Slots : Built(P[d]) /\ Fits(P[d], knobs'[d]), Sounds(P), Scalars'
    PROVE  Inv'
<1>1. ASSUME NEW d \in Slots
      PROVE  /\ steps'[d] = P[d].steps /\ onsets'[d] = P[d].onsets /\ shift'[d] = P[d].shift
             /\ word'[d] = P[d].word /\ next'[d] = P[d].next
  BY DEF Sounds
<1>2. ASSUME NEW d \in Slots
      PROVE  /\ steps'[d] \in 1..Size /\ onsets'[d] \in 0..steps'[d]
             /\ shift'[d] \in 0..steps'[d]-1 /\ next'[d] \in 0..steps'[d]-1
             /\ word'[d] = Build(steps'[d], onsets'[d])
             /\ steps'[d] = Length(knobs'[d]) /\ onsets'[d] = Density(knobs'[d], steps'[d])
  BY <1>1 DEF Built, Fits
<1>3. \A d \in Slots : DOMAIN word'[d] = 0..steps'[d]-1
  BY <1>2, WordDomain
<1>4. TypeOK'
  BY <1>2, <1>3 DEF TypeOK, Scalars
<1>5. PatternCurrent'
  BY <1>2 DEF PatternCurrent
<1> QED
  BY <1>4, <1>5 DEF Inv

\* Inv says of the pattern of drum d what Built says.
LEMMA PatternBuilt ==
    ASSUME Inv, NEW d \in Slots
    PROVE  Built(Pattern(d)) /\ Fits(Pattern(d), knobs[d])
BY DEF Inv, TypeOK, PatternCurrent, Built, Fits, Pattern

\* The steps that remake patterns: each leaves every drum with the pattern of its knobs.
LEMMA TurnBuilt == ASSUME Inv, Turn PROVE Inv'
<1>1. PICK k \in {"size", "pos", "env", "div"}, s \in Settings[focus] :
        LET p == Turned(Pattern(focus), k, s)
        IN  /\ s = [knobs[focus] EXCEPT ![k] = s[k]]
            /\ knobs' = [knobs EXCEPT ![focus] = s]
            /\ Sounds([d \in Slots |-> IF d = focus THEN p ELSE Pattern(d)])
            /\ clean' = [clean EXCEPT ![focus] = @ /\ s.div = knobs[focus].div
                                                   /\ p.steps = steps[focus]]
            /\ MarkDirty /\ UNCHANGED <<focus, route, running, stepTick>>
  BY DEF Turn
<1> DEFINE p == Turned(Pattern(focus), k, s)
           P == [d \in Slots |-> IF d = focus THEN p ELSE Pattern(d)]
<1>2. focus \in Slots /\ s \in Setting /\ knobs \in [Slots -> Setting]
  BY EdrumsAssumption DEF Inv, TypeOK
<1>3. Built(p) /\ Fits(p, s)
  <2>1. Built(Pattern(focus)) /\ Fits(Pattern(focus), knobs[focus]) /\ knobs[focus] \in Setting
    BY <1>2, PatternBuilt
  <2> QED
    BY <1>1, <1>2, <2>1, TurnedBuilt
<1>4. \A d \in Slots : Built(P[d]) /\ Fits(P[d], knobs'[d])
  BY <1>1, <1>2, <1>3, PatternBuilt
<1>5. Scalars'
  BY <1>1, <1>2, EdrumsAssumption DEF Inv, TypeOK, Scalars, MarkDirty
<1>6. Sounds(P)
  BY <1>1
<1> HIDE DEF P
<1> QED
  BY <1>4, <1>5, <1>6, InvIs

LEMMA ClearBuilt == ASSUME Inv, ClearSequence PROVE Inv'
<1> DEFINE P == [d \in Slots |-> Rebuilt(Pattern(d), Factory[d])]
<1>1. /\ knobs' = Factory /\ focus' = 0 /\ Sounds(P) /\ running' = [d \in Slots |-> TRUE]
      /\ clean' = [d \in Slots |-> clean[d] /\ P[d].steps = steps[d]
                                            /\ Factory[d].div = knobs[d].div]
      /\ MarkDirty /\ UNCHANGED <<route, stepTick>>
  BY DEF ClearSequence
<1>2. Factory \in [Slots -> Setting]
  BY EdrumsAssumption
<1>3. \A d \in Slots : Built(P[d]) /\ Fits(P[d], knobs'[d])
  BY <1>1, <1>2, PatternBuilt, RebuiltBuilt
<1> HIDE DEF P
<1>4. clean' \in [Slots -> BOOLEAN]
  BY <1>1
<1>5. Scalars'
  BY <1>1, <1>2, <1>4, EdrumsAssumption DEF Inv, TypeOK, Scalars, MarkDirty, Slots
<1> QED
  BY <1>1, <1>3, <1>5, InvIs

LEMMA BootBuilt == ASSUME Inv, PowerCut PROVE Inv'
<1>1. (flash' = NoKit \/ flash' \in [Slots -> Setting] \X Slots \X Routes) /\ Boot
  BY DEF PowerCut, Inv, TypeOK
<1> DEFINE P == [d \in Slots |-> IF flash' = NoKit THEN FactoryPattern(d)
                                 ELSE Rebuilt(FactoryPattern(d), flash'[1][d])]
<1>2. knobs' \in [Slots -> Setting] /\ focus' \in Slots /\ route' \in Routes
      /\ \A d \in Slots : Built(P[d]) /\ Fits(P[d], knobs'[d])
  <2>1. CASE flash' = NoKit
    <3>1. knobs' = Factory /\ focus' = 0 /\ route' = "stereo"
      BY <1>1, <2>1 DEF Boot
    <3> QED
      BY <2>1, <3>1, FactoryBuilt, EdrumsAssumption DEF Slots
  <2>2. CASE flash' # NoKit
    <3>1. knobs' = flash'[1] /\ focus' = flash'[2] /\ flash'[1] \in [Slots -> Setting]
          /\ flash'[2] \in Slots /\ route' \in Routes
      BY <1>1, <2>2 DEF Boot
    <3>2. \A d \in Slots : flash'[1][d] \in Setting
      BY <3>1
    <3> QED
      BY <2>2, <3>1, <3>2, FactoryBuilt, RebuiltBuilt
  <2> QED
    BY <2>1, <2>2
<1>3. /\ Sounds(P) /\ stepTick' = 0 /\ clean' = [d \in Slots |-> TRUE]
      /\ running' = [d \in Slots |-> TRUE] /\ dirty' = FALSE /\ quiet' = 0
  BY <1>1 DEF Boot
<1>4. Scalars'
  <2>1. clean' \in [Slots -> BOOLEAN] /\ running' \in [Slots -> BOOLEAN]
    BY <1>3
  <2>2. stepTick' \in 0..MaxTicks /\ quiet' \in 0..Debounce /\ dirty' \in BOOLEAN
    <3>1. 0 \in 0..MaxTicks /\ 0 \in 0..Debounce
      BY EdrumsAssumption
    <3> QED
      BY <1>3, <3>1
  <2> HIDE DEF P
  <2> QED
    BY <1>1, <1>2, <2>1, <2>2 DEF Scalars
<1> HIDE DEF P
<1> QED
  BY <1>2, <1>3, <1>4, InvIs

LEMMA BuiltStep == Inv /\ [Next]_vars => Inv'
<1> SUFFICES ASSUME Inv, [Next]_vars PROVE Inv'
  OBVIOUS
<1>1. CASE Turn
  BY <1>1, TurnBuilt
<1>2. CASE ClearSequence
  BY <1>2, ClearBuilt
<1>3. CASE PowerCut
  BY <1>3, BootBuilt
<1>4. CASE Swap \/ SetRoute \/ PlayPad \/ Moment \/ Save \/ UNCHANGED vars
  <2>1. UNCHANGED <<knobs, pattern, grid>>
    BY <1>4 DEF Swap, SetRoute, PlayPad, Moment, Save, vars
  <2>2. Scalars'
    <3> USE EdrumsAssumption DEF Inv, TypeOK, Scalars, grid, store
    <3>1. CASE Swap
      BY <3>1 DEF Swap, MarkDirty, Slots
    <3>2. CASE PlayPad
      BY <3>2 DEF PlayPad
    <3>3. CASE Moment
      BY <3>3 DEF Moment
    <3>4. CASE Save
      BY <3>4 DEF Save, Kit
    <3>5. CASE UNCHANGED vars
      BY <3>5 DEF vars
    <3>6. CASE SetRoute
      BY <3>6 DEF SetRoute, MarkDirty
    <3> QED
      BY <1>4, <3>1, <3>2, <3>3, <3>4, <3>5, <3>6
  <2> QED
    BY <2>1, <2>2 DEF Inv, TypeOK, PatternCurrent, Scalars, pattern, grid
<1>5. CASE Realign \/ Tick
  <2>1. UNCHANGED <<knobs, focus, route, running, pattern, store>>
    BY <1>5 DEF Realign, Tick
  <2>2. stepTick' \in 0..MaxTicks /\ clean' \in [Slots -> BOOLEAN]
        /\ \A d \in Slots : next'[d] \in 0..steps[d]-1
    <3>1. CASE Realign
      BY <3>1, EdrumsAssumption DEF Realign, Inv, TypeOK
    <3>2. CASE Tick
      <4>1. PICK reset \in BOOLEAN :
              LET t       == IF reset THEN 0 ELSE stepTick
                  from(d) == IF reset THEN 0 ELSE next[d]
              IN  /\ t < MaxTicks /\ stepTick' = t + 1
                  /\ next' = [d \in Slots |-> IF ~Steps(d, t) THEN from(d)
                                              ELSE IF from(d) + 1 >= steps[d] THEN 0
                                              ELSE from(d) + 1]
                  /\ clean' = [d \in Slots |-> reset \/ clean[d]]
        BY <3>2 DEF Tick
      <4>2. stepTick' \in 0..MaxTicks
        BY <4>1, EdrumsAssumption DEF Inv, TypeOK
      <4>3. clean' \in [Slots -> BOOLEAN]
        BY <4>1
      <4>4. ASSUME NEW d \in Slots PROVE next'[d] \in 0..steps[d]-1
        BY <4>1, SizeAssumption DEF Inv, TypeOK
      <4> QED
        BY <4>2, <4>3, <4>4
    <3> QED
      BY <1>5, <3>1, <3>2
  <2> QED
    BY <2>1, <2>2 DEF Inv, TypeOK, PatternCurrent, pattern, store
<1> QED
  BY <1>1, <1>2, <1>3, <1>4, <1>5 DEF Next, Edit

LEMMA BuiltInit == Init => Inv
<1> SUFFICES ASSUME Init PROVE Inv
  OBVIOUS
<1>1. ASSUME NEW d \in Slots
      PROVE  /\ steps[d] = FactoryPattern(d).steps /\ onsets[d] = FactoryPattern(d).onsets
             /\ shift[d] = FactoryPattern(d).shift /\ word[d] = FactoryPattern(d).word
             /\ next[d] = FactoryPattern(d).next /\ knobs[d] = Factory[d]
  BY DEF Init
<1>2. ASSUME NEW d \in Slots
      PROVE  /\ steps[d] \in 1..Size /\ onsets[d] \in 0..steps[d]
             /\ shift[d] \in 0..steps[d]-1 /\ next[d] \in 0..steps[d]-1
             /\ word[d] = Build(steps[d], onsets[d])
             /\ steps[d] = Length(knobs[d]) /\ onsets[d] = Density(knobs[d], steps[d])
  BY <1>1, FactoryBuilt DEF Built, Fits
<1>3. \A d \in Slots : DOMAIN word[d] = 0..steps[d]-1
  BY <1>2, WordDomain
<1>4. TypeOK
  <2>1. knobs \in [Slots -> Setting] /\ focus \in Slots /\ route \in Routes
    BY EdrumsAssumption DEF Init, Slots
  <2>2. running \in [Slots -> BOOLEAN] /\ clean \in [Slots -> BOOLEAN]
    BY DEF Init
  <2>3. stepTick \in 0..MaxTicks /\ quiet \in 0..Debounce /\ dirty \in BOOLEAN /\ flash = NoKit
    <3>1. 0 \in 0..MaxTicks /\ 0 \in 0..Debounce
      BY EdrumsAssumption
    <3> QED
      BY <3>1 DEF Init
  <2> QED
    BY <1>2, <1>3, <2>1, <2>2, <2>3 DEF TypeOK
<1> QED
  BY <1>2, <1>4 DEF Inv, PatternCurrent

\* A drum's pattern is the one its knobs ask for, however it came by them, and nothing
\* in it points past its length (edrums_engine.cpp _apply_density(), _rebuild_slot();
\* cpattern.cpp set_length()).
THEOREM PatternsFollowKnobs == Spec => []Inv
BY BuiltInit, BuiltStep, PTL DEF Spec

-----------------------------------------------------------------------------
(* Even patterns. *)

\* c onsets in the first i steps are k in n steps, rounded up; how many that are; and
\* whether step i, counted from 0, brings one.
IsDue(n, k, i, c) == k * i <= n * c /\ n * c < k * i + n
Due(n, k, i) == CHOOSE c \in Nat : IsDue(n, k, i, c)
Hit(n, k, i) == n * Due(n, k, i) < k * i + k

LEMMA DueUnique ==
    ASSUME NEW n \in Nat \ {0}, NEW k \in Nat, NEW i \in Nat, NEW c \in Nat, NEW d \in Nat,
           IsDue(n, k, i, c), IsDue(n, k, i, d)
    PROVE  c = d
<1>1. PICK p \in Nat, q \in Nat, r \in Nat : p = k * i /\ q = n * c /\ r = n * d
  <2>1. \A x, y \in Nat : x * y \in Nat
    OBVIOUS
  <2> QED
    BY <2>1
<1>2. p <= q /\ q < p + n /\ p <= r /\ r < p + n
  BY <1>1 DEF IsDue
<1>3. ASSUME NEW x \in Nat, NEW y \in Nat, x < y PROVE n * x + n <= n * y
  <2>1. PICK e \in Nat : y = x + 1 + e
    <3>1. y - (x + 1) \in Nat /\ y = x + 1 + (y - (x + 1))
      BY <1>3
    <3> QED
      BY <3>1
  <2>2. n * y = n * x + n + n * e
    BY <2>1
  <2>3. n * e \in Nat /\ n * x \in Nat
    OBVIOUS
  <2> QED
    BY <2>2, <2>3
<1>4. ~(c < d) /\ ~(d < c)
  BY <1>1, <1>2, <1>3
<1> QED
  BY <1>4

LEMMA QuotientSign ==
    ASSUME NEW n \in Nat \ {0}, NEW q \in Int, NEW r \in 0..n-1, n * q + r >= 0
    PROVE  q \in Nat
<1> SUFFICES ASSUME q < 0 PROVE FALSE
  OBVIOUS
<1>1. PICK e \in Nat : q = -1 - e
  <2>1. -1 - q \in Nat /\ q = -1 - (-1 - q)
    OBVIOUS
  <2> QED
    BY <2>1
<1>2. n * q = -n - n * e /\ n * e \in Nat
  BY <1>1
<1> QED
  BY <1>2

LEMMA DueIs ==
    ASSUME NEW n \in Nat \ {0}, NEW k \in Nat, NEW i \in Nat
    PROVE  /\ Due(n, k, i) \in Nat /\ IsDue(n, k, i, Due(n, k, i))
           /\ \A c \in Nat : IsDue(n, k, i, c) => Due(n, k, i) = c
<1>1. PICK p \in Nat : p = k * i
  <2>1. k * i \in Nat
    OBVIOUS
  <2> QED
    BY <2>1
<1>2. \E c \in Nat : IsDue(n, k, i, c)
  <2>1. PICK q \in Int, r \in 0..n-1 : p = n * q + r /\ p % n = r
    BY Euclid
  <2>2. q \in Nat
    <3>1. n * q + r >= 0
      BY <2>1
    <3> QED
      BY <3>1, QuotientSign
  <2>3. CASE r = 0
    BY <1>1, <2>1, <2>2, <2>3 DEF IsDue
  <2>4. CASE r # 0
    <3>1. n * (q + 1) = n * q + n /\ q + 1 \in Nat
      BY <2>2
    <3>2. IsDue(n, k, i, q + 1)
      BY <1>1, <2>1, <2>4, <3>1 DEF IsDue
    <3> QED
      BY <3>1, <3>2
  <2> QED
    BY <2>3, <2>4
<1>3. Due(n, k, i) \in Nat /\ IsDue(n, k, i, Due(n, k, i))
  BY <1>2 DEF Due
<1> QED
  BY <1>3, DueUnique

\* A step brings one onset or none.
LEMMA DueNext ==
    ASSUME NEW n \in Nat \ {0}, NEW k \in 0..n, NEW i \in Nat
    PROVE  Due(n, k, i + 1) = IF Hit(n, k, i) THEN Due(n, k, i) + 1 ELSE Due(n, k, i)
<1>0. k \in Nat /\ i + 1 \in Nat
  OBVIOUS
<1>1. PICK c \in Nat : c = Due(n, k, i) /\ IsDue(n, k, i, c)
  BY <1>0, DueIs
<1>2. PICK p \in Nat, q \in Nat : p = k * i /\ q = n * c
  <2>1. \A x, y \in Nat : x * y \in Nat
    OBVIOUS
  <2> QED
    BY <1>0, <2>1
<1>3. k * (i + 1) = p + k /\ n * (c + 1) = q + n /\ c + 1 \in Nat
  BY <1>0, <1>2
<1>4. p <= q /\ q < p + n
  BY <1>1, <1>2 DEF IsDue
<1>5. Hit(n, k, i) <=> q < p + k
  BY <1>1, <1>2 DEF Hit
<1>6. CASE q < p + k
  <2>1. IsDue(n, k, i + 1, c + 1)
    BY <1>0, <1>2, <1>3, <1>4, <1>6 DEF IsDue
  <2> QED
    BY <1>0, <1>1, <1>3, <1>5, <1>6, <2>1, DueIs
<1>7. CASE ~(q < p + k)
  <2>1. IsDue(n, k, i + 1, c)
    BY <1>0, <1>2, <1>3, <1>4, <1>7 DEF IsDue
  <2> QED
    BY <1>0, <1>1, <1>5, <1>7, <2>1, DueIs
<1> QED
  BY <1>6, <1>7

\* None in no steps, and k in n.
LEMMA DueEnds ==
    ASSUME NEW n \in Nat \ {0}, NEW k \in 0..n
    PROVE  Due(n, k, 0) = 0 /\ Due(n, k, n) = k
<1>1. k \in Nat /\ k * n = n * k /\ k * 0 = 0 /\ n * 0 = 0
  OBVIOUS
<1>2. IsDue(n, k, 0, 0)
  BY <1>1 DEF IsDue
<1>3. IsDue(n, k, n, k)
  <2>1. n * k \in Nat
    BY <1>1
  <2> QED
    BY <1>1, <2>1 DEF IsDue
<1> QED
  BY <1>1, <1>2, <1>3, DueIs

\* After m steps with t onsets, no more and no less, it begins anew.
LEMMA DuePeriod ==
    ASSUME NEW n \in Nat \ {0}, NEW k \in Nat, NEW i \in Nat, NEW m \in Nat, NEW t \in Nat,
           n * t = k * m
    PROVE  Due(n, k, i + m) = Due(n, k, i) + t /\ (Hit(n, k, i + m) <=> Hit(n, k, i))
<1>1. PICK c \in Nat : c = Due(n, k, i) /\ IsDue(n, k, i, c)
  BY DueIs
<1>2. PICK p \in Nat, q \in Nat, s \in Nat : p = k * i /\ q = n * c /\ s = k * m
  <2>1. \A x, y \in Nat : x * y \in Nat
    OBVIOUS
  <2> QED
    BY <2>1
<1>3. k * (i + m) = p + s /\ n * (c + t) = q + s /\ c + t \in Nat /\ i + m \in Nat
  BY <1>2
<1>4. IsDue(n, k, i + m, c + t)
  BY <1>1, <1>2, <1>3 DEF IsDue
<1>5. Due(n, k, i + m) = c + t
  BY <1>3, <1>4, DueIs
<1>6. Hit(n, k, i + m) <=> Hit(n, k, i)
  BY <1>1, <1>2, <1>3, <1>5 DEF Hit
<1> QED
  BY <1>1, <1>5, <1>6

\* Wherever one begins to count, round a pattern of n steps.
LEMMA HitRound ==
    ASSUME NEW n \in Nat \ {0}, NEW k \in 0..n, NEW m \in Nat \ {0}, NEW t \in Nat,
           n * t = k * m, NEW i \in Nat
    PROVE  Hit(n, k, i % m) <=> Hit(n, k, i)
<1>1. PICK q \in Int, r \in 0..m-1 : i = m * q + r /\ i % m = r
  BY Euclid
<1>2. q \in Nat /\ r \in Nat /\ k \in Nat
  <2>1. m * q + r >= 0
    BY <1>1
  <2> QED
    BY <2>1, QuotientSign
<1>3. PICK u \in Nat, v \in Nat : u = m * q /\ v = t * q
  <2>1. \A x, y \in Nat : x * y \in Nat
    OBVIOUS
  <2> QED
    BY <1>2, <2>1
<1>4. n * v = k * u
  <2>1. n * (t * q) = (n * t) * q /\ k * (m * q) = (k * m) * q
    BY <1>2
  <2> QED
    BY <1>3, <2>1
<1>5. Hit(n, k, r + u) <=> Hit(n, k, r)
  BY <1>2, <1>4, DuePeriod, Zenon
<1> QED
  BY <1>1, <1>3, <1>5

\* The two sums of _build() after i of its steps, by the onsets there are then.
Sums(n, k, i) == <<k * (1 + i - Due(n, k, i)), (n - k) * Due(n, k, i)>>

\* The race, as a function of the steps: there is one that runs as the loop's body
\* says, and every one that does keeps these sums.
Runs(n, k, run) ==
    run = [i \in 1..n |->
              IF i = 1 THEN <<k, n - k>>
              ELSE LET r == run[i-1]
                   IN  IF r[1] > r[2] THEN <<r[1], r[2] + (n - k)>> ELSE <<r[1] + k, r[2]>>]

LEMMA SumsStep ==
    ASSUME NEW n \in Nat \ {0}, NEW k \in 1..n-1
    PROVE  /\ Sums(n, k, 1) = <<k, n - k>>
           /\ \A i \in Nat :
                 /\ Sums(n, k, i)[1] \in Nat /\ Sums(n, k, i)[2] \in Nat
                 /\ Sums(n, k, i)[1] > Sums(n, k, i)[2] <=> Hit(n, k, i)
                 /\ Sums(n, k, i)[1] = Sums(n, k, i)[2] <=> n * Due(n, k, i) = k * i + k
                 /\ Sums(n, k, i + 1) =
                       IF Hit(n, k, i)
                       THEN <<Sums(n, k, i)[1], Sums(n, k, i)[2] + (n - k)>>
                       ELSE <<Sums(n, k, i)[1] + k, Sums(n, k, i)[2]>>
<1>0. PICK x \in Nat \ {0} : x = n - k
  OBVIOUS
<1>k. k \in Nat /\ k \in 0..n
  OBVIOUS
<1>1. ASSUME NEW i \in Nat
      PROVE  /\ Due(n, k, i) \in Nat /\ Due(n, k, i) <= i
             /\ Due(n, k, i + 1) = IF Hit(n, k, i) THEN Due(n, k, i) + 1 ELSE Due(n, k, i)
  <2>1. PICK c \in Nat : c = Due(n, k, i) /\ IsDue(n, k, i, c)
    BY <1>k, DueIs
  <2>2. c <= i
    <3> SUFFICES ASSUME c > i PROVE FALSE
      BY <2>1
    <3>1. PICK e \in Nat : c = i + 1 + e
      <4>1. c - (i + 1) \in Nat /\ c = i + 1 + (c - (i + 1))
        BY <2>1
      <4> QED
        BY <4>1
    <3>2. n * c = n * i + n + n * e
      BY <3>1
    <3>3. n * i = k * i + x * i
      BY <1>0
    <3>4. x * i \in Nat /\ n * e \in Nat /\ k * i \in Nat
      BY <1>0
    <3> QED
      BY <2>1, <3>2, <3>3, <3>4 DEF IsDue
  <2> QED
    BY <2>1, <2>2, DueNext
<1>2. ASSUME NEW i \in Nat
      PROVE  /\ Sums(n, k, i)[1] \in Nat /\ Sums(n, k, i)[2] \in Nat
             /\ Sums(n, k, i)[1] > Sums(n, k, i)[2] <=> Hit(n, k, i)
             /\ Sums(n, k, i)[1] = Sums(n, k, i)[2] <=> n * Due(n, k, i) = k * i + k
             /\ Sums(n, k, i + 1) =
                   IF Hit(n, k, i)
                   THEN <<Sums(n, k, i)[1], Sums(n, k, i)[2] + (n - k)>>
                   ELSE <<Sums(n, k, i)[1] + k, Sums(n, k, i)[2]>>
  <2>1. PICK c \in Nat : c = Due(n, k, i)
    BY <1>1
  <2>2. PICK g \in Nat : g = i - c
    <3>1. i - c \in Nat
      BY <1>1, <2>1
    <3> QED
      BY <3>1
  <2>3. PICK a \in Nat, b \in Nat : a = k * (1 + g) /\ b = x * c
    <3>1. \A y, z \in Nat : y * z \in Nat
      OBVIOUS
    <3> QED
      BY <3>1
  <2>4. Sums(n, k, i) = <<a, b>>
    <3>1. 1 + i - c = 1 + g
      BY <2>2
    <3> QED
      BY <1>0, <2>1, <2>3, <3>1 DEF Sums
  <2>5. a - b = k * i + k - n * c
    <3>1. i = g + c
      BY <2>2
    <3>2. k * (g + c) = k * g + k * c /\ n * c = k * c + x * c /\ k * (1 + g) = k + k * g
      BY <1>0
    <3> QED
      BY <2>3, <3>1, <3>2
  <2>6. n * c \in Nat /\ k * i \in Nat
    OBVIOUS
  <2>7. (a > b <=> Hit(n, k, i)) /\ (a = b <=> n * Due(n, k, i) = k * i + k)
    BY <2>1, <2>3, <2>5, <2>6 DEF Hit
  <2>8. CASE Hit(n, k, i)
    <3>1. Due(n, k, i + 1) = c + 1
      BY <1>1, <2>1, <2>8
    <3>2. x * (c + 1) = b + x /\ 1 + (i + 1) - (c + 1) = 1 + g
      BY <1>0, <2>2, <2>3
    <3>3. Sums(n, k, i + 1) = <<a, b + x>>
      BY <1>0, <2>3, <3>1, <3>2 DEF Sums
    <3> QED
      BY <1>0, <2>4, <2>7, <2>8, <3>3
  <2>9. CASE ~Hit(n, k, i)
    <3>1. Due(n, k, i + 1) = c
      BY <1>1, <2>1, <2>9
    <3>2. k * (2 + g) = a + k /\ 1 + (i + 1) - c = 2 + g
      BY <2>2, <2>3
    <3>3. Sums(n, k, i + 1) = <<a + k, b>>
      BY <1>0, <2>3, <3>1, <3>2 DEF Sums
    <3> QED
      BY <2>4, <2>7, <2>9, <3>3
  <2> QED
    BY <2>8, <2>9
<1>3. Sums(n, k, 1) = <<k, n - k>>
  <2>1. Due(n, k, 0) = 0
    BY DueEnds
  <2>2. Hit(n, k, 0)
    BY <2>1 DEF Hit
  <2>3. Due(n, k, 0 + 1) = 1
    BY <1>1, <2>1, <2>2
  <2> QED
    BY <1>0, <2>3 DEF Sums
<1> QED
  BY <1>2, <1>3

LEMMA RunExists ==
    ASSUME NEW n \in Nat \ {0}, NEW k \in 1..n-1 PROVE \E run : Runs(n, k, run)
<1> DEFINE run == [i \in 1..n |-> Sums(n, k, i)]
<1>1. ASSUME NEW i \in 1..n
      PROVE  run[i] = IF i = 1 THEN <<k, n - k>>
                      ELSE LET r == run[i-1]
                           IN  IF r[1] > r[2] THEN <<r[1], r[2] + (n - k)>>
                               ELSE <<r[1] + k, r[2]>>
  <2>1. CASE i = 1
    BY <2>1, SumsStep
  <2>2. CASE i # 1
    <3>1. PICK j \in 1..n : i = j + 1 /\ j = i - 1 /\ j \in Nat
      BY <2>2
    <3>2. PICK u : u = Sums(n, k, j)
      OBVIOUS
    <3>3. Sums(n, k, j + 1) = IF u[1] > u[2] THEN <<u[1], u[2] + (n - k)>>
                              ELSE <<u[1] + k, u[2]>>
      BY <3>1, <3>2, SumsStep
    <3>4. run[i-1] = u /\ run[i] = Sums(n, k, j + 1)
      BY <3>1, <3>2
    <3> HIDE DEF run
    <3> QED
      BY <2>2, <3>3, <3>4
  <2> QED
    BY <2>1, <2>2
<1> HIDE DEF run
<1>2. Runs(n, k, run)
  BY <1>1 DEF Runs, run
<1> QED
  BY <1>2

LEMMA RunIs ==
    ASSUME NEW n \in Nat \ {0}, NEW k \in 1..n-1, NEW run, Runs(n, k, run)
    PROVE  \A i \in 1..n : run[i] = Sums(n, k, i)
<1>1. ASSUME NEW i \in 1..n
      PROVE  run[i] = IF i = 1 THEN <<k, n - k>>
                      ELSE IF run[i-1][1] > run[i-1][2]
                           THEN <<run[i-1][1], run[i-1][2] + (n - k)>>
                           ELSE <<run[i-1][1] + k, run[i-1][2]>>
  BY DEF Runs
<1> DEFINE S == {i \in Nat : i + 1 \in 1..n => run[i + 1] = Sums(n, k, i + 1)}
<1>2. 0 \in S
  <2>1. 1 \in 1..n
    OBVIOUS
  <2>2. run[1] = Sums(n, k, 1)
    BY <1>1, <2>1, SumsStep
  <2> QED
    BY <2>2
<1>3. ASSUME NEW j \in S PROVE j + 1 \in S
  <2> SUFFICES ASSUME j + 2 \in 1..n PROVE run[j + 2] = Sums(n, k, j + 2)
    OBVIOUS
  <2>1. PICK i \in 1..n : i = j + 1 /\ i \in Nat /\ j + 2 = i + 1 /\ i + 1 # 1 /\ (i + 1) - 1 = i
    OBVIOUS
  <2>2. run[i] = Sums(n, k, i)
    BY <2>1
  <2>3. run[i + 1] = IF run[i][1] > run[i][2]
                     THEN <<run[i][1], run[i][2] + (n - k)>>
                     ELSE <<run[i][1] + k, run[i][2]>>
    <3>1. PICK m \in 1..n : m = i + 1 /\ m - 1 = i /\ m # 1
      BY <2>1
    <3>2. run[m] = IF run[m-1][1] > run[m-1][2]
                   THEN <<run[m-1][1], run[m-1][2] + (n - k)>>
                   ELSE <<run[m-1][1] + k, run[m-1][2]>>
      BY <1>1, <3>1
    <3> QED
      BY <3>1, <3>2
  <2>4. run[i + 1] = Sums(n, k, i + 1)
    <3>1. PICK u : u = Sums(n, k, i)
      OBVIOUS
    <3>2. Sums(n, k, i + 1) = IF u[1] > u[2] THEN <<u[1], u[2] + (n - k)>>
                              ELSE <<u[1] + k, u[2]>>
      BY <2>1, <3>1, SumsStep
    <3> QED
      BY <2>2, <2>3, <3>1, <3>2
  <2> QED
    BY <2>1, <2>4
<1>4. Nat \subseteq S
  <2> HIDE DEF S
  <2> QED
    BY <1>2, <1>3, AllNaturals
<1>5. ASSUME NEW i \in 1..n PROVE run[i] = Sums(n, k, i)
  <2>1. i - 1 \in S /\ (i - 1) + 1 = i
    BY <1>4
  <2> QED
    BY <2>1
<1> QED
  BY <1>5

LEMMA RaceIs ==
    ASSUME NEW n \in Nat \ {0}, NEW k \in 1..n-1
    PROVE  \A i \in 1..n : Race(k, n - k, n)[i] = Sums(n, k, i)
<1>1. PICK run : run = CHOOSE r : Runs(n, k, r)
  OBVIOUS
<1>2. Runs(n, k, run)
  BY <1>1, RunExists
<1>3. run = Race(k, n - k, n)
  BY <1>1 DEF Race, Runs
<1> QED
  BY <1>2, <1>3, RunIs

\* The sums meet while there are steps left: the loop of _build() ends, and the rest it
\* puts behind the cell is inside the pattern.
LEMMA SumsMeet ==
    ASSUME NEW n \in Nat \ {0}, NEW k \in 1..n-1
    PROVE  Sums(n, k, n - 1)[1] = Sums(n, k, n - 1)[2]
<1>1. k \in Nat /\ n - 1 \in Nat
  OBVIOUS
<1>2. PICK p \in Nat : p = n * k
  <2>1. n * k \in Nat
    BY <1>1
  <2> QED
    BY <2>1
<1>3. k * (n - 1) = p - k
  BY <1>1, <1>2
<1>4. IsDue(n, k, n - 1, k)
  BY <1>1, <1>2, <1>3 DEF IsDue
<1>5. Due(n, k, n - 1) = k
  BY <1>1, <1>4, DueIs
<1>6. n * Due(n, k, n - 1) = k * (n - 1) + k
  BY <1>1, <1>2, <1>3, <1>5
<1> QED
  BY <1>1, <1>6, SumsStep

\* The steps are the hits.
LEMMA BuildHits ==
    ASSUME NEW n \in Nat \ {0}, NEW k \in 0..n
    PROVE  Build(n, k) = [i \in 0..n-1 |-> IF Hit(n, k, i) THEN 1 ELSE 0]
<1>0. k \in Nat
  OBVIOUS
<1>1. CASE k = 0
  <2>1. ASSUME NEW i \in Nat PROVE ~Hit(n, k, i)
    <3>1. k * i = 0 /\ n * 0 = 0
      BY <1>1
    <3>2. IsDue(n, k, i, 0)
      BY <3>1 DEF IsDue
    <3>3. Due(n, k, i) = 0
      BY <1>0, <3>2, DueIs
    <3> QED
      BY <1>1, <3>1, <3>3 DEF Hit
  <2>2. Build(n, k) = [i \in 0..n-1 |-> 0]
    BY <1>1 DEF Build
  <2> QED
    BY <2>1, <2>2
<1>2. CASE k = n
  <2>1. ASSUME NEW i \in Nat PROVE Hit(n, k, i)
    <3>1. k * i = n * i /\ n * i \in Nat
      BY <1>2
    <3>2. IsDue(n, k, i, i)
      BY <3>1 DEF IsDue
    <3>3. Due(n, k, i) = i
      BY <1>0, <3>2, DueIs
    <3> QED
      BY <1>2, <3>1, <3>3 DEF Hit
  <2>2. Build(n, k) = [i \in 0..n-1 |-> 1]
    BY <1>2 DEF Build
  <2> QED
    BY <2>1, <2>2
<1>3. CASE k \in 1..n-1
  <2> DEFINE run == Race(k, n - k, n)
             Meets == {i \in 1..n : run[i][1] = run[i][2]}
             stop == Min(Meets)
             cell == [i \in 0..stop |->
                         IF i = 0 \/ (i < stop /\ run[i][1] > run[i][2]) THEN 1 ELSE 0]
  <2>1. ASSUME NEW i \in 1..n
        PROVE  /\ run[i][1] > run[i][2] <=> Hit(n, k, i)
               /\ run[i][1] = run[i][2] <=> n * Due(n, k, i) = k * i + k
    <3>1. run[i] = Sums(n, k, i) /\ i \in Nat
      BY <1>3, RaceIs
    <3>2. /\ Sums(n, k, i)[1] > Sums(n, k, i)[2] <=> Hit(n, k, i)
          /\ Sums(n, k, i)[1] = Sums(n, k, i)[2] <=> n * Due(n, k, i) = k * i + k
      BY <1>3, <3>1, SumsStep
    <3> HIDE DEF run
    <3> QED
      BY <3>1, <3>2
  <2>2. n - 1 \in Meets
    <3>1. run[n-1] = Sums(n, k, n - 1) /\ n - 1 \in 1..n
      BY <1>3, RaceIs
    <3> HIDE DEF run
    <3> QED
      BY <1>3, <3>1, SumsMeet
  <2>3. Meets \subseteq Nat
    OBVIOUS
  <2>4. stop \in Meets /\ \A i \in Meets : stop <= i
    <3> HIDE DEF Meets
    <3>1. \E i \in Meets : \A j \in Meets : i <= j
      BY <2>2, <2>3, LeastExists
    <3> QED
      BY <3>1 DEF Min
  <2>5. stop \in 1..n-1
    BY <1>3, <2>2, <2>4
  <2>6. PICK s \in Nat \ {0}, m \in Nat \ {0} : s = stop /\ m = stop + 1 /\ s \in 1..n
    <3> HIDE DEF stop
    <3>1. stop \in Nat \ {0} /\ stop + 1 \in Nat \ {0} /\ stop \in 1..n
      BY <2>5
    <3> QED
      BY <3>1
  <2>7. n * Due(n, k, s) = k * s + k
    <3> HIDE DEF stop, run
    <3> QED
      BY <2>1, <2>4, <2>6
  <2>8. ASSUME NEW i \in 0..s PROVE cell[i] = IF Hit(n, k, i) THEN 1 ELSE 0
    <3>1. cell[i] = IF i = 0 \/ (i < s /\ run[i][1] > run[i][2]) THEN 1 ELSE 0
      <4> HIDE DEF stop, run
      <4> QED
        BY <2>6
    <3> HIDE DEF run, cell
    <3>2. CASE i = 0
      <4>1. Due(n, k, 0) = 0
        BY DueEnds
      <4>2. Hit(n, k, 0)
        BY <1>3, <4>1 DEF Hit
      <4> QED
        BY <3>1, <3>2, <4>2
    <3>3. CASE i = s
      <4>1. ~Hit(n, k, s)
        <5>1. PICK a \in Nat : a = k * s + k
          <6>1. k * s \in Nat
            BY <1>0
          <6> QED
            BY <1>0, <6>1
        <5> QED
          BY <2>7, <5>1 DEF Hit
      <4> QED
        BY <2>6, <3>1, <3>3, <4>1
    <3>4. CASE i # 0 /\ i # s
      <4>1. i \in 1..n /\ i < s
        BY <2>6, <3>4
      <4> QED
        BY <2>1, <3>1, <3>4, <4>1
    <3> QED
      BY <3>2, <3>3, <3>4
  <2>9. Build(n, k) = [i \in 0..n-1 |-> cell[i % m]]
    <3>1. k # 0 /\ ~(k >= n)
      BY <1>3
    <3>2. Build(n, k) = [i \in 0..n-1 |-> cell[i % (stop + 1)]]
      BY <3>1, Zenon DEF Build
    <3> HIDE DEF cell, stop
    <3> QED
      BY <2>6, <3>2
  <2> HIDE DEF cell, stop, run
  <2>10. ASSUME NEW i \in 0..n-1 PROVE cell[i % m] = IF Hit(n, k, i) THEN 1 ELSE 0
    <3>1. PICK r \in 0..m-1 : i % m = r
      <4>1. i \in Int /\ m \in Nat \ {0}
        OBVIOUS
      <4> QED
        BY <4>1, Euclid
    <3>2. PICK t \in Nat : t = Due(n, k, s)
      BY <1>0, DueIs
    <3>3. n * t = k * m
      <4>1. m = s + 1 /\ k * (s + 1) = k * s + k
        BY <1>0, <2>6
      <4> QED
        BY <2>7, <3>2, <4>1
    <3>4. Hit(n, k, i % m) <=> Hit(n, k, i)
      <4>1. i \in Nat
        OBVIOUS
      <4> QED
        BY <3>3, <4>1, HitRound, Zenon
    <3>5. r \in 0..s
      BY <2>6
    <3> QED
      BY <2>8, <3>1, <3>4, <3>5
  <2> QED
    BY <2>9, <2>10
<1> QED
  BY <1>1, <1>2, <1>3

\* The hits among w steps are counted by what is due before and after them.
LEMMA CountHits ==
    ASSUME NEW n \in Nat \ {0}, NEW k \in 0..n, NEW i \in Nat, NEW w \in Nat
    PROVE  Cardinality({j \in 0..w-1 : Hit(n, k, i + j)}) = Due(n, k, i + w) - Due(n, k, i)
<1> DEFINE H(v) == {j \in 0..v-1 : Hit(n, k, i + j)}
           S == {v \in Nat : /\ IsFiniteSet(H(v))
                             /\ Cardinality(H(v)) = Due(n, k, i + v) - Due(n, k, i)}
<1>0. k \in Nat /\ \A v \in Nat : Due(n, k, v) \in Nat
  BY DueIs
<1>1. 0 \in S
  <2>1. H(0) = {}
    OBVIOUS
  <2>2. Due(n, k, i + 0) - Due(n, k, i) = 0
    BY <1>0
  <2> HIDE DEF H
  <2> QED
    BY <2>1, <2>2, FS_EmptySet
<1>2. ASSUME NEW v \in S PROVE v + 1 \in S
  <2>1. /\ v \in Nat /\ IsFiniteSet(H(v))
        /\ Cardinality(H(v)) = Due(n, k, i + v) - Due(n, k, i)
    OBVIOUS
  <2>2. /\ i + v \in Nat /\ i + (v + 1) = (i + v) + 1
        /\ Due(n, k, (i + v) + 1) =
              IF Hit(n, k, i + v) THEN Due(n, k, i + v) + 1 ELSE Due(n, k, i + v)
    BY <2>1, DueNext
  <2>3. CASE Hit(n, k, i + v)
    <3>1. H(v + 1) = H(v) \cup {v}
      BY <2>1, <2>3
    <3>2. v \notin H(v)
      BY <2>1
    <3> HIDE DEF H
    <3>3. IsFiniteSet(H(v + 1)) /\ Cardinality(H(v + 1)) = Cardinality(H(v)) + 1
      BY <2>1, <3>1, <3>2, FS_AddElement
    <3> QED
      BY <1>0, <2>1, <2>2, <2>3, <3>3
  <2>4. CASE ~Hit(n, k, i + v)
    <3>1. H(v + 1) = H(v)
      BY <2>1, <2>4
    <3> HIDE DEF H
    <3> QED
      BY <2>1, <2>2, <2>4, <3>1
  <2> QED
    BY <2>3, <2>4
<1>3. w \in S
  <2> HIDE DEF S
  <2> QED
    BY <1>1, <1>2, AllNaturals
<1> QED
  BY <1>3

LEMMA OnsetsAre ==
    ASSUME NEW n \in Nat \ {0}, NEW k \in 0..n, NEW i \in Nat, NEW w \in Nat
    PROVE  Onsets(Build(n, k), n, i, w) = Due(n, k, i + w) - Due(n, k, i)
<1>1. ASSUME NEW j \in 0..w-1 PROVE Build(n, k)[(i + j) % n] = 1 <=> Hit(n, k, i + j)
  <2>1. PICK r \in 0..n-1 : (i + j) % n = r
    <3>1. i + j \in Int
      OBVIOUS
    <3> QED
      BY <3>1, Euclid
  <2>2. Hit(n, k, (i + j) % n) <=> Hit(n, k, i + j)
    <3>1. i + j \in Nat /\ k \in Nat /\ n * k = k * n
      OBVIOUS
    <3> QED
      BY <3>1, HitRound, Zenon
  <2>3. Build(n, k)[r] = IF Hit(n, k, r) THEN 1 ELSE 0
    BY BuildHits
  <2> QED
    BY <2>1, <2>2, <2>3
<1>2. {j \in 0..w-1 : Build(n, k)[(i + j) % n] = 1} = {j \in 0..w-1 : Hit(n, k, i + j)}
  BY <1>1, Zenon
<1> QED
  BY <1>2, CountHits DEF Onsets

\* The drum patterns are as even as can be, of whatever length and density
\* (cpattern.cpp:45-46): "distribute _onsets ones as evenly as possible over the
\* active _steps slots".
THEOREM EvenlyBuilt == \A n \in Nat \ {0}, k \in Nat : k <= n => Even(Build(n, k), n, k)
<1> SUFFICES ASSUME NEW n \in Nat \ {0}, NEW k \in Nat, k <= n PROVE Even(Build(n, k), n, k)
  OBVIOUS
<1>0. k \in 0..n /\ 0 \in Nat
  OBVIOUS
<1>1. Build(n, k) \in [0..n-1 -> {0, 1}]
  BY <1>0, BuildHits
<1>2. Due(n, k, 0) = 0 /\ Due(n, k, n) = k
  BY <1>0, DueEnds
<1>3. ASSUME NEW w \in Nat PROVE Onsets(Build(n, k), n, 0, w) = Due(n, k, w)
  <2>1. 0 + w = w /\ Due(n, k, w) \in Nat
    BY DueIs
  <2> QED
    BY <1>0, <1>2, <2>1, OnsetsAre
<1>4. k > 0 => Build(n, k)[0] = 1
  <2>1. k > 0 => Hit(n, k, 0)
    BY <1>2 DEF Hit
  <2>2. 0 \in 0..n-1
    OBVIOUS
  <2> QED
    BY <1>0, <2>1, <2>2, BuildHits
<1>5. ASSUME NEW w \in 1..n, NEW i \in 0..n-1
      PROVE  Onsets(Build(n, k), n, i, w) \in
                 {Onsets(Build(n, k), n, 0, w) + c : c \in {-1, 0, 1}}
  <2>1. w \in Nat /\ i \in Nat /\ i + w \in Nat
    OBVIOUS
  <2>2. PICK a \in Nat, b \in Nat, d \in Nat :
            /\ a = Due(n, k, i + w) /\ b = Due(n, k, i) /\ d = Due(n, k, w)
            /\ IsDue(n, k, i + w, a) /\ IsDue(n, k, i, b) /\ IsDue(n, k, w, d)
    BY <2>1, DueIs
  <2>3. Onsets(Build(n, k), n, i, w) = a - b /\ Onsets(Build(n, k), n, 0, w) = d
    BY <1>0, <1>3, <2>1, <2>2, OnsetsAre
  <2>4. PICK e \in Int : e = a - b - d
    OBVIOUS
  <2>5. n * e < n /\ n * e > -2 * n
    <3>1. PICK p \in Nat, q \in Nat : p = k * i /\ q = k * w
      <4>1. \A x, y \in Nat : x * y \in Nat
        OBVIOUS
      <4> QED
        BY <2>1, <4>1
    <3>2. k * (i + w) = p + q /\ n * e = n * a - n * b - n * d
      BY <2>1, <2>4, <3>1
    <3>3. n * a \in Nat /\ n * b \in Nat /\ n * d \in Nat
      OBVIOUS
    <3>4. /\ p + q <= n * a /\ n * a < p + q + n
          /\ p <= n * b /\ n * b < p + n /\ q <= n * d /\ n * d < q + n
      BY <2>2, <3>1, <3>2 DEF IsDue
    <3> QED
      BY <3>2, <3>3, <3>4
  <2>6. ~(e > 0)
    <3> SUFFICES ASSUME e > 0 PROVE FALSE
      OBVIOUS
    <3>1. PICK f \in Nat : e = 1 + f
      <4>1. e - 1 \in Nat /\ e = 1 + (e - 1)
        OBVIOUS
      <4> QED
        BY <4>1
    <3>2. n * e = n + n * f /\ n * f \in Nat
      BY <3>1
    <3> QED
      BY <2>5, <3>2
  <2>7. ~(e < -1)
    <3> SUFFICES ASSUME e < -1 PROVE FALSE
      OBVIOUS
    <3>1. PICK f \in Nat : e = -2 - f
      <4>1. -2 - e \in Nat /\ e = -2 - (-2 - e)
        OBVIOUS
      <4> QED
        BY <4>1
    <3>2. n * e = -2 * n - n * f /\ n * f \in Nat
      BY <3>1
    <3> QED
      BY <2>5, <3>2
  <2>8. a - b = d + e /\ e \in {-1, 0, 1}
    BY <2>4, <2>6, <2>7
  <2> QED
    BY <2>3, <2>8
<1> QED
  BY <1>1, <1>2, <1>3, <1>4, <1>5 DEF Even

\* The loop of _build() ends while there are steps left: no step it writes, the rest
\* behind the cell included, is outside the pattern (cpattern.cpp:58-67), and the cell
\* it repeats is complete.
THEOREM BuildStaysInside ==
    \A n \in Nat \ {0} : \A k \in 1..n-1 :
        \E i \in 1..n-1 : Race(k, n - k, n)[i][1] = Race(k, n - k, n)[i][2]
<1> SUFFICES ASSUME NEW n \in Nat \ {0}, NEW k \in 1..n-1
             PROVE  Race(k, n - k, n)[n-1][1] = Race(k, n - k, n)[n-1][2]
  OBVIOUS
<1>1. Race(k, n - k, n)[n-1] = Sums(n, k, n - 1)
  BY RaceIs
<1> QED
  BY <1>1, SumsMeet

\* What the sequencer plays, whatever was turned, cleared, saved and read back: at all
\* times every drum has the onsets its knobs ask for, as even as can be.
PatternsEven == \A d \in Slots : Even(word[d], steps[d], onsets[d])

THEOREM DrumsEven == Spec => []PatternsEven
<1>1. Inv => PatternsEven
  <2> SUFFICES ASSUME Inv, NEW d \in Slots PROVE Even(word[d], steps[d], onsets[d])
    BY DEF PatternsEven
  <2>1. PICK n \in Nat \ {0}, k \in Nat : n = steps[d] /\ k = onsets[d] /\ k <= n
    BY SizeAssumption DEF Inv, TypeOK
  <2>2. word[d] = Build(n, k)
    BY <2>1 DEF Inv, PatternCurrent
  <2>3. Even(Build(n, k), n, k)
    BY <2>1, EvenlyBuilt
  <2> QED
    BY <2>1, <2>2, <2>3
<1> QED
  BY <1>1, PatternsFollowKnobs, PTL
=============================================================================

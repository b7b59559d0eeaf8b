---------------------------- MODULE ParamPickup -----------------------------
(***************************************************************************)
(* The paged knobs of the harness: the pages, slots and soft takeover of   *)
(* ParamUI (app/param_ui.h), and the passes of the main loop that drive    *)
(* them (app/harness.cpp). A board has a few knobs and an engine many      *)
(* parameters; a knob that is given another parameter writes nothing until *)
(* it has reached or crossed that parameter's value.                       *)
(*                                                                         *)
(* Positions and values are the steps of a scale from 0 to Top. Knobs and  *)
(* parameters are numbered from 1, pages from 0; the engine's own page, if *)
(* it has one, comes after the pages of parameters. The action screen is   *)
(* here only with the rows that give the knobs other parameters.           *)
(***************************************************************************)
EXTENDS Integers

CONSTANTS Top,           \* the end of a knob's travel
          Knobs,         \* _knobs
          Params,        \* _count: parameters the engine lists
          Decks,
          Deadband,      \* kDeadband
          CatchWindow,   \* kCatchWindow
          EndWindow,     \* kEndCatchWindow
          EnginePage,    \* _engine_page
          AuxParam,      \* the parameter hold-and-turn writes, 0 for an engine without
          Kept,          \* Kept[p][x]: what param() gives after parameter p is set to x
          Repoints       \* the engine may give a deck's knobs other targets by itself

ASSUME PickupAssumption ==
    /\ Top \in Nat \ {0} /\ Knobs \in Nat \ {0} /\ Params \in Nat
    /\ Deadband \in Nat /\ CatchWindow \in Nat /\ EndWindow \in Nat
    /\ Deadband <= CatchWindow /\ CatchWindow <= EndWindow /\ EndWindow < Top
    /\ EnginePage \in BOOLEAN /\ Repoints \in BOOLEAN
    /\ AuxParam \in 0..Params

\* What an engine read back it keeps.
ASSUME KeptAssumption ==
    /\ Kept \in [1..Params -> [0..Top -> 0..Top]]
    /\ \A p \in 1..Params, x \in 0..Top : Kept[p][Kept[p][x]] = Kept[p][x]

VARIABLES
    value,       \* the engine's parameters, per deck
    page,        \* _page
    deck,        \* _deck
    id,          \* ParamSlot::id of each knob, 0 for none
    caught,      \* ParamSlot::caught
    lastKnob,    \* ParamSlot::last_knob
    written,     \* ParamSlot::written
    primed,      \* _primed
    suspended,   \* _suspended
    resume,      \* _resume_pending
    reseed,      \* decks the engine asks to re-seed
    knob,        \* where the knobs are
    \* history
    prev,        \* where they were at the last poll, -1 before the first
    sides        \* the sides of its parameter's value a waiting knob was read on

slots == <<id, caught, written>>
lent  == <<suspended, resume>>
pickupVars  == <<value, page, deck, slots, lastKnob, primed, lent, reseed, knob, prev,
                sides>>

Slots  == 1..Knobs
Travel == 0..Top

Pages      == (Params + Knobs - 1) \div Knobs
TotalPages == Pages + (IF EnginePage THEN 1 ELSE 0)

OnEnginePage(pg) == EnginePage /\ pg >= Pages

\* The parameter of knob k on page pg.
ParamAt(pg, k) == LET i == pg * Knobs + k IN IF i <= Params THEN i ELSE 0

Distance(a, b) == IF a < b THEN b - a ELSE a - b

\* catch_window(): wider for a value at an end of the scale.
Window(v) == IF v <= CatchWindow \/ v >= Top - CatchWindow THEN EndWindow ELSE CatchWindow

ValueAt(d, p) == IF p = 0 THEN 0 ELSE value[d][p]

\* What the engine's parameters can be: an engine may keep less than it is given
\* and reads back the middle of a step.
Settings == {v \in [Decks -> [1..Params -> Travel]] :
                \A d \in Decks, p \in 1..Params : Kept[p][v[d][p]] = v[d][p]}

\* The side of a value v on which a position x is.
SideOf(x, v) == IF x < v THEN {"below"} ELSE IF x > v THEN {"above"} ELSE {}

\* seed_page(): point the knobs at page pg's parameters, out of catch. The last
\* knob readings stay.
Seed(pg, d) ==
    /\ id' = [k \in Slots |-> ParamAt(pg, k)]
    /\ caught' = [k \in Slots |-> FALSE]
    /\ written' = [k \in Slots |-> IF ParamAt(pg, k) = 0 THEN 0 ELSE value'[d][ParamAt(pg, k)]]
    /\ sides' = [k \in Slots |-> IF primed' /\ ParamAt(pg, k) # 0
                                 THEN SideOf(lastKnob'[k], value'[d][ParamAt(pg, k)]) ELSE {}]

\* A waiting knob whose value was set behind it starts its search anew.
Forget(p) == sides' = [k \in Slots |-> IF id[k] = p THEN {} ELSE sides[k]]

\* init(), with the engine at any setting and the knobs anywhere.
PickupInit ==
    /\ value \in Settings
    /\ page = 0 /\ deck \in Decks
    /\ id = [k \in Slots |-> ParamAt(0, k)]
    /\ caught = [k \in Slots |-> FALSE]
    /\ lastKnob = [k \in Slots |-> 0]
    /\ written = [k \in Slots |-> ValueAt(deck, id[k])]
    /\ primed = FALSE /\ suspended = {} /\ resume = {} /\ reseed = {}
    /\ knob \in [Slots -> Travel]
    /\ prev = [k \in Slots |-> -1] /\ sides = [k \in Slots |-> {}]

-----------------------------------------------------------------------------
(* The player and the engine, between two polls. *)

Turn(k, position) ==
    /\ knob[k] # position
    /\ knob' = [knob EXCEPT ![k] = position]
    /\ UNCHANGED <<value, page, deck, slots, lastKnob, primed, lent, reseed, prev, sides>>

\* mutant: the knobs are seeded when the old page, not the new one, has parameters.
SetPageSeedsLeaving(inc) ==
    /\ suspended = {} /\ TotalPages > 1
    /\ page' = (page + inc) % TotalPages
    /\ UNCHANGED <<value, deck, lastKnob, primed, lent, reseed, knob, prev>>
    /\ IF OnEnginePage(page) THEN UNCHANGED <<slots, sides>>
                             ELSE Seed(page', deck)

\* set_page(): the encoder turns to a neighbour page, around the ends. Only a
\* page of parameters seeds the knobs.
SetPage(inc) ==
    /\ suspended = {} /\ TotalPages > 1
    /\ page' = (page + inc) % TotalPages
    /\ UNCHANGED <<value, deck, lastKnob, primed, lent, reseed, knob, prev>>
    /\ IF OnEnginePage(page') THEN UNCHANGED <<slots, sides>>
                              ELSE Seed(page', deck)

\* set_deck(), from the deck row or a click.
SetDeck(d) ==
    /\ suspended = {} /\ d # deck
    /\ deck' = d
    /\ UNCHANGED <<value, page, lastKnob, primed, lent, reseed, knob, prev>>
    /\ Seed(page, d)

\* A switch of the action screen: the engine may give a parameter another
\* value, and the knobs are seeded.
FireConfig(p, v) ==
    /\ suspended = {}
    /\ value' = [value EXCEPT ![deck][p] = Kept[p][v]]
    /\ UNCHANGED <<page, deck, lastKnob, primed, lent, reseed, knob, prev>>
    /\ Seed(page, deck)

\* A pad or a gate repoints a deck's knobs, and the engine asks for a re-seed.
Repoint(p, v) ==
    /\ Repoints
    /\ value' = [value EXCEPT ![deck][p] = Kept[p][v]]
    /\ reseed' = reseed \cup {deck}
    /\ Forget(p)
    /\ UNCHANGED <<page, deck, slots, lastKnob, primed, lent, knob, prev>>

\* The encoder is pressed: knob 1 is lent to the Aux selector, which its moves
\* and the encoder's write, and handed back on release.
Hold ==
    /\ AuxParam # 0 /\ suspended = {}
    /\ suspended' = {1}
    /\ UNCHANGED <<value, page, deck, slots, lastKnob, primed, resume, reseed, knob, prev,
                   sides>>

TurnAux(v) ==
    /\ suspended # {}
    /\ value' = [value EXCEPT ![deck][AuxParam] = Kept[AuxParam][v]]
    /\ Forget(AuxParam)
    /\ UNCHANGED <<page, deck, slots, lastKnob, primed, lent, reseed, knob, prev>>

\* mutant: a knob that was lent simply goes on.
ReleaseAtOnce ==
    /\ suspended # {}
    /\ suspended' = {}
    /\ UNCHANGED <<value, page, deck, slots, lastKnob, primed, resume, reseed, knob, prev,
                   sides>>

Release ==
    /\ suspended # {}
    /\ suspended' = {} /\ resume' = resume \cup suspended
    /\ UNCHANGED <<value, page, deck, slots, lastKnob, primed, reseed, knob, prev, sides>>

-----------------------------------------------------------------------------
(* A pass of the main loop: poll_knobs(), then the engine's re-seed request. *)

\* A knob with a parameter that is not lent; one that was just handed back only
\* has its reading taken.
Active(k)   == id[k] # 0 /\ k \notin suspended
Resuming(k) == Active(k) /\ k \in resume
Polled(k)   == Active(k) /\ k \notin resume

Current(k) == ValueAt(deck, id[k])

\* mutant: only an upward sweep counts.
CrossedUpwards(k) ==
    primed /\ lastKnob[k] < Current(k) /\ knob[k] >= Current(k)

Crossed(k) ==
    /\ primed
    /\ \/ lastKnob[k] < Current(k) /\ knob[k] >= Current(k)
       \/ lastKnob[k] > Current(k) /\ knob[k] <= Current(k)

Catches(k) ==
    /\ Polled(k) /\ ~caught[k]
    /\ Distance(knob[k], Current(k)) <= Window(Current(k)) \/ Crossed(k)

Reference(k) == IF Catches(k) THEN Current(k) ELSE written[k]

Writes(k) ==
    /\ Polled(k) /\ (caught[k] \/ Catches(k))
    /\ Distance(knob[k], Reference(k)) > Deadband

KnobPass ==
    /\ value' = [value EXCEPT ![deck] =
          [p \in 1..Params |-> IF \E k \in Slots : Writes(k) /\ id[k] = p
                               THEN Kept[p][knob[CHOOSE k \in Slots : id[k] = p]] ELSE @[p]]]
    /\ lastKnob' = [k \in Slots |-> IF Active(k) THEN knob[k] ELSE lastKnob[k]]
    /\ primed' = TRUE
    /\ resume' = {k \in resume : ~Active(k)}
    /\ reseed' = reseed \ {deck}
    /\ IF deck \in reseed
       THEN Seed(page, deck)
       ELSE /\ caught' = [k \in Slots |-> ~Resuming(k) /\ (caught[k] \/ Catches(k))]
            /\ written' = [k \in Slots |-> IF Writes(k) THEN knob[k] ELSE Reference(k)]
            /\ sides' = [k \in Slots |->
                  IF caught'[k] THEN {}
                  ELSE IF Resuming(k) THEN SideOf(knob[k], Current(k))
                  ELSE IF Polled(k) THEN sides[k] \cup SideOf(knob[k], Current(k))
                  ELSE sides[k]]
            /\ UNCHANGED id
    /\ prev' = knob
    /\ UNCHANGED <<page, deck, suspended, knob>>

PickupNext ==
    \/ \E k \in Slots, position \in Travel : Turn(k, position)
    \/ \E inc \in {-1, 1} : SetPage(inc)
    \/ \E d \in Decks : SetDeck(d)
    \/ \E p \in 1..Params, v \in Travel : FireConfig(p, v) \/ Repoint(p, v)
    \/ Hold \/ (\E v \in Travel : TurnAux(v)) \/ Release
    \/ KnobPass

PickupSpec == PickupInit /\ [][PickupNext]_pickupVars

-----------------------------------------------------------------------------
PickupTypeOK ==
    /\ value \in Settings
    /\ page = 0 \/ page \in 0..(TotalPages - 1)
    /\ deck \in Decks
    /\ id \in [Slots -> 0..Params] /\ caught \in [Slots -> BOOLEAN]
    /\ lastKnob \in [Slots -> Travel] /\ written \in [Slots -> Travel]
    /\ primed \in BOOLEAN /\ reseed \subseteq Decks
    /\ suspended \subseteq {1} /\ resume \subseteq {1}
    /\ knob \in [Slots -> Travel] /\ prev \in [Slots -> -1..Top]
    /\ sides \in [Slots -> SUBSET {"below", "above"}]

\* The knob is at a position v, or passed over it since the last poll, but for a
\* move within the deadband.
Passed(k, v) ==
    \/ Distance(knob[k], v) <= Window(v)
    \/ prev[k] # -1 /\ prev[k] - Deadband <= v /\ v <= knob[k] + Deadband
    \/ prev[k] # -1 /\ knob[k] - Deadband <= v /\ v <= prev[k] + Deadband

\* The hand on knob k has earned control of its parameter: it passed a position
\* the engine keeps as the value it has.
Earned(k) == \E v \in Travel : Kept[id[k]][v] = Current(k) /\ Passed(k, v)

\* Every poll since it was last seeded or lent has taken the knob's reading.
Fresh(k) == lastKnob[k] = prev[k] \/ prev[k] = -1

\* Hold-and-turn writes the parameter of knob k behind its back: knob 1 is lent to
\* the gesture, any other that has the selector's parameter stays in catch
\* (harness.cpp:360, 370-381).
Behind(k) == k # 1 /\ id[k] = AuxParam

Earnest(k) ==
    id[k] # 0 /\ value'[deck][id[k]] # value[deck][id[k]] => Earned(k)

\* A parameter is only ever carried along by a knob that is at its value or
\* passes over it: no page turn, deck switch, switch of the engine or loan of a
\* knob makes a value jump to where a knob happens to be
\* (host/test_param_ui.cpp:104). Left out are a knob that had no parameter for a
\* while, the pass of a re-seed request, and a knob other than the first that has
\* the selector's parameter, where the code lets it.
NoJump ==
    [][KnobPass /\ deck \notin reseed =>
          \A k \in Slots : Fresh(k) /\ ~Behind(k) => Earnest(k)]_pickupVars

\* A knob is never dead: one that was read below its parameter's value at one poll
\* and above it at another, however many polls, turns and pages of waiting lie
\* between, is in catch, unless in between it was lent, got another parameter or
\* had the value set behind it (param_ui.h:69-81, 147-178).
SweepCatches == \A k \in Slots : sides[k] # {"below", "above"}

\* A caught knob measures its moves from a position the engine keeps as its own
\* value, whatever happened since it was caught: a change the engine made by itself is either
\* answered by a re-seed or still waiting for it, and the loan of a knob ends in
\* a new catch. Only the selector's parameter may move under another knob.
ReferenceIsValue ==
    deck \notin reseed =>
        \A k \in Slots \ (suspended \cup resume) :
            id[k] # 0 /\ caught[k] /\ ~Behind(k) => Kept[id[k]][written[k]] = Current(k)

\* On a page of parameters the knobs have that page's, each its own.
SlotsMatchPage ==
    ~OnEnginePage(page) => \A k \in Slots : id[k] = ParamAt(page, k)

\* The pickup's slots agree with the page and with the engine's own values, over
\* page turns, deck switches, loans and re-seeds (param_ui.h:110-155).
Inv == PickupTypeOK /\ SlotsMatchPage /\ ReferenceIsValue
=============================================================================

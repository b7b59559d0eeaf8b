---------------------------- MODULE ActionScreen ----------------------------
(***************************************************************************)
(* The action screen of a board with a display (app/param_ui.h) and the    *)
(* one encoder that works it (app/harness.cpp): a press alone is a click,  *)
(* a press during which something turned is a gesture. The rows are the    *)
(* pads and switches of the engine in the build; what an engine does with  *)
(* a pad is its own affair, what it does with a switch is remembered here  *)
(* by the screen, or read back from it. The pages are in ParamPickup.      *)
(***************************************************************************)
EXTENDS Integers, Sequences, Functions

CONSTANTS Engines,      \* the builds: what each engine declares, and what it does with a switch
          ClockChoices, \* kClockInCount
          Idle          \* kActionIdleMs, in ticks

BothDecks == {"A", "B"}
Unset     == -1         \* no position: not reported, or not written yet
Ids       == {"Route", "ModType", "LfoShape", "Mode", "StartModOn", "SizeModOn"}   \* ConfigId
Effects   == {"flux", "grit"}
Pads      == Effects \cup {"play", "alt", "rec", "stop", "clear buf", "arm seq", "trig", "clr seq",
                           "disarm", "flux lock", "grit lock"}

Span(c) == IF c \in {"Route", "Mode"} THEN 3 ELSE 2      \* config_span()

\* pads: its pad rows in build_actions() order. live: its switches. reports: those config()
\* answers for. kept[c]: how many positions of c it tells apart. unset: switches it boots without
\* a position. An engine that declares nothing offers all six and keeps none (iengine.h:224): its
\* rows stand for no switch, and it is no member here.
Engine == [pads : Seq(Pads), live : SUBSET Ids, reports : SUBSET Ids,
           kept : [Ids -> 1..3], unset : SUBSET Ids, dual : BOOLEAN, aux : BOOLEAN]

\* An engine that tells fewer positions of a switch apart than the list offers (mosc's Mode) says
\* where the switch is.
ASSUME ActionScreenAssumption ==
    /\ ClockChoices \in Nat \ {0} /\ Idle \in Nat \ {0}
    /\ Engines \subseteq Engine
    /\ \A e \in Engines, c \in Ids : e.kept[c] <= Span(c)
    /\ \A e \in Engines : \A c \in e.live \ e.reports : e.kept[c] = Span(c)

VARIABLES
    engine,    \* the engine of this build
    real,      \* where the engine's switches are, by switch and deck
    heldFx,    \* the effect pads it takes for held, by effect and deck
    held,      \* enc_was_held
    turned,    \* enc_turned
    wrote,     \* history: the hold has changed the selector or the tempo
    open,      \* _actions
    seen,      \* _act_seen
    virgin,    \* history: the first visit, and the cursor has not been moved
    cursor,    \* _act_cursor
    idle,      \* now - _act_ms, in ticks, up to Idle
    focus,     \* _deck, and the harness's s_deck
    cfg,       \* _cfg where _cfg_known, else Unset
    fx,        \* _fx_on where _fx_known, else Unset
    clockIn    \* _clock_in

panel      == <<held, turned, wrote>>
list       == <<open, seen, virgin, cursor, idle>>
state      == <<real, heldFx, focus, cfg, fx, clockIn>>
screenVars == <<engine, panel, list, state>>

PerDeck(S, x) == [s \in S |-> [d \in BothDecks |-> x]]

\* Route is global: its position is the same for both decks.
SwitchPositions(e) ==
    LET set == e.live \ e.unset
    IN  {[c \in Ids |-> IF c \in set THEN p[c] ELSE [d \in BothDecks |-> Unset]] :
            p \in {p \in [set -> [BothDecks -> 0..2]] :
                     /\ \A c \in set, d \in BothDecks : p[c][d] < e.kept[c]
                     /\ "Route" \in set => p["Route"]["A"] = p["Route"]["B"]}}

ScreenInit ==
    /\ engine \in Engines /\ real \in SwitchPositions(engine) /\ heldFx = PerDeck(Effects, 0)
    /\ held = FALSE /\ turned = FALSE /\ wrote = FALSE
    /\ open = FALSE /\ seen = FALSE /\ virgin = FALSE /\ cursor = 1 /\ idle = 0
    /\ focus = "A" /\ cfg = PerDeck(Ids, Unset) /\ fx = PerDeck(Effects, Unset) /\ clockIn = 0

-----------------------------------------------------------------------------
\* build_actions(): back, the pads, the deck, the switches, the clock input.
Listed(row, there) == IF there THEN <<row>> ELSE <<>>

Rows(e) ==
    LET switch(c) == Listed(c, c \in e.live)
    IN  <<"back">> \o e.pads \o Listed("deck", e.dual)
          \o switch("Route") \o switch("ModType") \o switch("LfoShape")
          \o switch("Mode") \o switch("StartModOn") \o switch("SizeModOn") \o <<"clk in">>

\* IEngine::config()
Reported(c, d) == IF c \in engine.reports THEN real[c][d] ELSE Unset

\* What a row shows of its switch.
Shown(c, d) == IF Reported(c, d) # Unset THEN Reported(c, d) ELSE cfg[c][d]

\* is_momentary(): a pad's click leaves nothing behind in the panel.
Momentary == Range(engine.pads)

\* Where the list has one of these rows, and the first such place.
Places(rows, S) == {n \in DOMAIN rows : rows[n] \in S}
First(rows, S)  == CHOOSE n \in Places(rows, S) : \A m \in Places(rows, S) : n <= m

\* mutant: a first visit lands on the row after back
FirstUsefulRowTwo(rows) == 2

\* first_useful_row(): of an engine that reports some switch, a switch without a
\* position; else play, else any pad, else back.
FirstUsefulRow(rows) ==
    LET says   == {c \in Ids : Reported(c, focus) # Unset}
        silent == Ids \ says
    IN  IF Places(rows, says) # {} /\ Places(rows, silent) # {} THEN First(rows, silent)
        ELSE IF Places(rows, {"play"}) # {} THEN First(rows, {"play"})
        ELSE IF Places(rows, Momentary) # {} THEN First(rows, Momentary)
        ELSE 1

-----------------------------------------------------------------------------
\* The engine's set_config(): a position it does not tell apart is its last one.
Taken(c, v) == IF v < engine.kept[c] THEN v ELSE engine.kept[c] - 1

\* mutant: Route's position is remembered for the deck in focus only
ForDecksOne(c) == {focus}

\* The decks a write of a switch is for: Route is global.
ForDecks(c) == IF c = "Route" THEN BothDecks ELSE {focus}

Put(f, c, S, v) == [f EXCEPT ![c] = [d \in BothDecks |-> IF d \in S THEN v ELSE f[c][d]]]

\* Where a click takes a switch: on from where it is known to be, else to 0.
NextPosition(c) ==
    IF Shown(c, focus) = Unset THEN 0 ELSE (Shown(c, focus) + 1) % Span(c)

\* A switch row.
FireSwitch(c) ==
    /\ cfg' = Put(cfg, c, ForDecks(c), NextPosition(c))
    /\ real' = Put(real, c, IF c = "Route" THEN BothDecks ELSE {focus}, Taken(c, NextPosition(c)))
    /\ UNCHANGED <<heldFx, focus, fx, clockIn, open>>

\* An effect row: a held pad, so its state is kept here and sent; the first click
\* sends on.
FireEffect(f) ==
    LET on == IF fx[f][focus] = Unset THEN 1 ELSE 1 - fx[f][focus]
    IN  /\ fx' = Put(fx, f, {focus}, on) /\ heldFx' = Put(heldFx, f, {focus}, on)
        /\ UNCHANGED <<real, focus, cfg, clockIn, open>>

\* The lock rows latch an effect inside the engine, whatever its pad does: what is
\* heard is the pad or the lock, and the list shows nothing of it.
FireOther(row) ==
    /\ open' = (row # "back")
    /\ focus' = IF row = "deck" THEN CHOOSE d \in BothDecks : d # focus ELSE focus
    /\ clockIn' = IF row = "clk in" THEN (clockIn + 1) % ClockChoices ELSE clockIn
    /\ UNCHANGED <<real, heldFx, cfg, fx>>

\* fire(): the row under the cursor.
Fire(row) ==
    \/ row \in Ids /\ FireSwitch(row)
    \/ row \in Effects /\ FireEffect(row)
    \/ row \notin Ids \cup Effects /\ FireOther(row)

-----------------------------------------------------------------------------
\* mutant: an open list does not time out while it shows
LeftOpenForever == open

\* tick(): what is left of an open list after a spell with nothing done to it.
LeftOpen == open /\ idle < Idle

\* move_cursor(): round the list.
Wrap(n) == ((n - 1) % Len(Rows(engine))) + 1

Moves == {-1, 0, 1}

\* A pass with the encoder held. Turning it, or knob 1 from the second pass on,
\* changes the selector, or the tempo on an engine without one.
HeldPass(inc, knob) ==
    LET writes == inc # 0 \/ (knob /\ engine.aux /\ held)
    IN  /\ turned' = (turned \/ writes) /\ wrote' = (wrote \/ writes) /\ held' = TRUE
        /\ open' = LeftOpen /\ virgin' = (virgin /\ LeftOpen)
        /\ UNCHANGED <<engine, state, seen, cursor, idle>>

\* A turn with the encoder up moves the cursor of an open list; else it is a page.
TurnCursor(from, inc) == IF open' THEN cursor' = Wrap(from + inc) ELSE cursor' = from

\* mutant: any release clicks
ClicksAlways == held

\* The release of a press during which nothing turned.
Clicks == held /\ ~turned

\* A pass with the encoder up.
UpPass(inc) ==
    /\ held' = FALSE /\ turned' = FALSE /\ wrote' = FALSE
    /\ \/ /\ Clicks /\ ~LeftOpen               \* open_actions()
          /\ open' = TRUE /\ seen' = TRUE
          /\ TurnCursor(IF seen THEN cursor ELSE FirstUsefulRow(Rows(engine)), inc)
          /\ virgin' = (~seen /\ inc = 0)
          /\ UNCHANGED state
       \/ /\ Clicks /\ LeftOpen
          /\ Fire(Rows(engine)[cursor])
          /\ TurnCursor(cursor, inc) /\ virgin' = FALSE /\ UNCHANGED seen
       \/ /\ ~Clicks
          /\ open' = LeftOpen /\ TurnCursor(cursor, inc)
          /\ virgin' = (virgin /\ open' /\ inc = 0) /\ UNCHANGED <<seen, state>>
    /\ idle' = IF Clicks \/ (open' /\ inc # 0) THEN 0 ELSE idle
    /\ UNCHANGED engine

\* Time passes between two passes.
IdleTick ==
    /\ idle < Idle /\ open /\ idle' = idle + 1
    /\ UNCHANGED <<engine, panel, open, seen, virgin, cursor, state>>

Pass == (\E inc \in Moves, knob \in BOOLEAN : HeldPass(inc, knob)) \/ (\E inc \in Moves : UpPass(inc))

ScreenNext == Pass \/ IdleTick

ScreenSpec == ScreenInit /\ [][ScreenNext]_screenVars

\* The main loop goes round and the clock goes on.
ScreenFairSpec == ScreenSpec /\ WF_screenVars(Pass) /\ WF_screenVars(IdleTick)

-----------------------------------------------------------------------------
ScreenTypeOK ==
    /\ engine \in Engines /\ real \in [Ids -> [BothDecks -> -1..2]]
    /\ heldFx \in [Effects -> [BothDecks -> {0, 1}]]
    /\ held \in BOOLEAN /\ turned \in BOOLEAN /\ wrote \in BOOLEAN
    /\ open \in BOOLEAN /\ seen \in BOOLEAN /\ virgin \in BOOLEAN
    /\ cursor \in DOMAIN Rows(engine) /\ idle \in 0..Idle /\ focus \in BothDecks
    /\ cfg \in [Ids -> [BothDecks -> -1..2]] /\ \A c \in Ids, d \in BothDecks : cfg[c][d] < Span(c)
    /\ fx \in [Effects -> [BothDecks -> {Unset, 0, 1}]] /\ clockIn \in 0..ClockChoices-1

\* A position the list shows for a switch is the one the engine is at, on either deck,
\* also a Route written from the other deck, and an effect it shows as on is one whose
\* pad the engine takes for held (param_ui.h:334-356, 633-643).
ShownIsReal ==
    /\ \A c \in engine.live, d \in BothDecks : Shown(c, d) # Unset => Shown(c, d) = real[c][d]
    /\ \A f \in Effects, d \in BothDecks : fx[f][d] # Unset => fx[f][d] = heldFx[f][d]

\* "a first visit is two clicks (one to open, one to fire), and those two clicks must
\* never silently change a setting" (param_ui.h:656-660).
FirstVisitHarmless ==
    [][virgin => /\ \A c \in Ids, d \in BothDecks : real[c][d] # Unset => real'[c][d] = real[c][d]
                 /\ focus' = focus /\ clockIn' = clockIn]_screenVars

\* A hold that changed the selector or the tempo is no click, over however many
\* passes it lasted: its release opens nothing and fires nothing (harness.cpp:400-402).
GestureIsNoClick ==
    [][wrote /\ held => UNCHANGED state /\ (open' => open)]_screenVars

\* A list that nobody touches hands the encoder back to the pages, whoever holds the
\* encoder down meanwhile (param_ui.h:368-373).
HandsBack == <>[][~(Clicks /\ ~held') /\ cursor' = cursor]_screenVars => <>[]~open

\* The action screen's memory of the switches and the engines' own agree.
ScreenInv == ScreenTypeOK /\ ShownIsReal
=============================================================================

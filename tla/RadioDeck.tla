------------------------------ MODULE RadioDeck ------------------------------
(***************************************************************************)
(* One deck of the radio engine (src/engine/radio/radio_engine): a dial    *)
(* over the stations of a bank on the card. The main loop makes its pass   *)
(* in the order process(), pads, knobs, prepare(); all that touches the    *)
(* card is in prepare(). The audio interrupt only renders, so it is left   *)
(* out, as are rate.txt, START, varispeed and the mix.                     *)
(***************************************************************************)
EXTENDS DeckContract, Integers

CONSTANTS Size,    \* stations in each bank
          Dial,    \* dial positions: 0..Dial is the knob's and the jack's sweep
          Settle   \* kSettleMs, in ticks

Banks == DOMAIN Size

ASSUME RadioAssumption ==
    /\ Size \in [Banks -> Nat] /\ Dial \in Nat \ {0} /\ Settle \in Nat \ {0}

VARIABLES
    deck,      \* the streaming deck
    tuned,     \* the file it was started on: bank and station
    pc,        \* where the main loop is in its pass
    mounted,   \* the card is up
    booting,   \* now < kBootScanMs
    bank,      \* _bank
    list,      \* the bank whose stations the last scan found; NoBank if none
    rescan,    \* _rescan
    dial,      \* _station_n + _station_cv
    static,    \* _env_n >= kStaticThresh
    open,      \* _open_station; NoStation is -1
    pending,   \* _pending
    since,     \* now - _pending_ms, in ticks, up to Settle
    retune,    \* _retune
    hot,       \* a reset was accepted less than kDebounceMs ago
    dialAt     \* history: the dial when the open station was tuned to

panel == <<bank, rescan, dial, static, retune, hot>>
radio == <<list, open, pending, since, dialAt>>
world == <<mounted, booting>>
vars  == <<deck, tuned, pc, world, panel, radio>>

NoStation == -1
NoBank    == 0
Nothing   == <<NoBank, NoStation>>

Init ==
    /\ deck = IdleDeck /\ tuned = Nothing /\ pc = "service"
    /\ mounted = FALSE /\ booting = TRUE
    /\ bank \in Banks /\ rescan = TRUE /\ dial \in 0..Dial /\ static = FALSE
    /\ retune = FALSE /\ hot = FALSE
    /\ list = NoBank /\ open = NoStation /\ pending = NoStation /\ since = 0
    /\ dialAt = dial

-----------------------------------------------------------------------------
\* The dial's place in a list of n stations, in eighths of a station.
Place(n) == (dial * 8 * (n - 1)) \div Dial

Hyst == 2      \* kStationHyst, a quarter of a station

Abs(x) == IF x < 0 THEN -x ELSE x

Stations(l) == IF l = NoBank THEN 0 ELSE Size[l]

\* mutant: no hysteresis about the open station
QuantStationBare(l, cur) ==
    LET n == Stations(l)
    IN  IF n = 0 THEN NoStation ELSE (Place(n) + 4) \div 8

\* _quant_station(): the nearest station, but the open one is held until the dial
\* is past its edge by the hysteresis.
QuantStation(l, cur) ==
    LET n == Stations(l)
    IN  IF n = 0 THEN NoStation
        ELSE IF cur \in 0..n-1 /\ Abs(Place(n) - 8 * cur) <= 4 + Hyst THEN cur
        ELSE (Place(n) + 4) \div 8

-----------------------------------------------------------------------------
\* process(): a station loops, so it only ends when the card fails it.
Service ==
    /\ pc = "service" /\ pc' = "pads"
    /\ deck' \in {deck} \cup (IF Playing(deck) THEN {RanOut(deck)} ELSE {})
    /\ UNCHANGED <<tuned, world, panel, radio>>

\* The Play pad and the gate, debounced together: _arm_reset().
Pads ==
    /\ pc = "pads" /\ pc' = "knobs"
    /\ \/ ~hot /\ retune' = TRUE /\ hot' = TRUE
       \/ UNCHANGED <<retune, hot>>
    /\ UNCHANGED <<deck, tuned, world, bank, rescan, dial, static, radio>>

\* set_param(Speed, Env, Aux), cv_voct()
Knobs ==
    /\ pc = "knobs" /\ pc' = "prepare"
    /\ \/ dial' \in 0..Dial /\ UNCHANGED <<static, bank, rescan>>
       \/ static' = ~static /\ UNCHANGED <<dial, bank, rescan>>
       \/ bank' \in Banks \ {bank} /\ rescan' = TRUE /\ UNCHANGED <<dial, static>>
    /\ UNCHANGED <<deck, tuned, world, retune, hot, radio>>

NoKnob == pc = "knobs" /\ pc' = "prepare"
          /\ UNCHANGED <<deck, tuned, world, panel, radio>>

-----------------------------------------------------------------------------
\* _do_open(): the deck is stopped, and starts on the station or does not.
Open(l, station) ==
    \/ /\ station \in 0..Stations(l)-1
       /\ deck' = Started(Halted(deck), "play")
       /\ tuned' = <<l, station>> /\ open' = station
       /\ dialAt' = IF open = station /\ l = list THEN dialAt ELSE dial
    \/ /\ deck' = Halted(deck)
       /\ open' = NoStation
       /\ UNCHANGED <<tuned, dialAt>>

\* mutant: a rescan keeps the number of the open station
ScannedKeepsOpen ==
    IF rescan \/ (Stations(list) = 0 /\ booting)
    THEN [list |-> IF mounted /\ Size[bank] > 0 THEN bank ELSE NoBank,
          open |-> open, pending |-> NoStation]
    ELSE [list |-> list, open |-> open, pending |-> pending]

\* The scan at the head of prepare(): on a new bank, and while nothing has been
\* found in the boot window. What is open is forgotten with the old list.
Scanned ==
    IF rescan \/ (Stations(list) = 0 /\ booting)
    THEN [list |-> IF mounted /\ Size[bank] > 0 THEN bank ELSE NoBank,
          open |-> NoStation, pending |-> NoStation]
    ELSE [list |-> list, open |-> open, pending |-> pending]

\* mutant: a reset waits for the station to change
TuneForgetsReset(s, desired, settled) ==
    IF desired # s.open
    THEN /\ IF static \/ settled THEN Open(s.list, desired)
            ELSE open' = s.open /\ UNCHANGED <<deck, tuned, dialAt>>
         /\ retune' = retune
    ELSE /\ retune' = FALSE
         /\ open' = s.open /\ UNCHANGED <<deck, tuned, dialAt>>

\* Another station than the open one: with static at once, else when the dial has
\* settled. The same: a reset (re)starts it if it is silent.
Tune(s, desired, settled) ==
    IF desired # s.open
    THEN /\ IF static \/ settled THEN Open(s.list, desired)
            ELSE open' = s.open /\ UNCHANGED <<deck, tuned, dialAt>>
         /\ retune' = retune
    ELSE /\ retune' = FALSE
         /\ IF retune /\ ~Playing(deck) THEN Open(s.list, desired)
            ELSE open' = s.open /\ UNCHANGED <<deck, tuned, dialAt>>

\* mutant: a dial away from the open station keeps the timer at zero
PrepareRestless ==
    /\ pc = "prepare" /\ pc' = "service"
    /\ LET s       == Scanned
           desired == QuantStation(s.list, s.open)
           age     == IF desired # s.open THEN 0 ELSE since
       IN  /\ list' = s.list
           /\ pending' = desired /\ since' = age
           /\ Tune(s, desired, age = Settle)
    /\ rescan' = FALSE
    /\ UNCHANGED <<world, bank, dial, static, hot>>

\* prepare(): scan, follow the dial, tune.
Prepare ==
    /\ pc = "prepare" /\ pc' = "service"
    /\ LET s       == Scanned
           desired == QuantStation(s.list, s.open)
           age     == IF desired # s.pending THEN 0 ELSE since
       IN  /\ list' = s.list
           /\ pending' = desired /\ since' = age
           /\ Tune(s, desired, age = Settle)
    /\ rescan' = FALSE
    /\ UNCHANGED <<world, bank, dial, static, hot>>

-----------------------------------------------------------------------------
\* Time passes: the dial settles, the pads cool.
Tick ==
    /\ since < Settle \/ hot
    /\ since' = (IF since < Settle THEN since + 1 ELSE since) /\ hot' = FALSE
    /\ UNCHANGED <<deck, tuned, pc, world, bank, rescan, dial, static, retune,
                   list, open, pending, dialAt>>

\* The card comes up about a second in, later or never; the boot window closes.
Mount   == ~mounted /\ mounted' = TRUE /\ UNCHANGED <<deck, tuned, pc, booting, panel, radio>>
BootEnd == booting /\ booting' = FALSE /\ UNCHANGED <<deck, tuned, pc, mounted, panel, radio>>

Pass == Service \/ Pads \/ Knobs \/ NoKnob \/ Prepare

Next == Pass \/ Tick \/ Mount \/ BootEnd

Spec == Init /\ [][Next]_vars

Opened == Prepare /\ open' # NoStation /\ open # open'
Restarted == Prepare /\ ~Playing(deck) /\ Playing(deck')

\* The main loop goes round, time passes between passes, and a station that is
\* tried again and again opens in the end.
FairSpec == Spec /\ WF_vars(Pass) /\ SF_vars(Tick /\ pc = "service")
                 /\ SF_vars(Opened) /\ SF_vars(Restarted)

-----------------------------------------------------------------------------
Numbers == {NoStation} \cup UNION {0..Size[b]-1 : b \in Banks}

TypeOK ==
    /\ deck \in Deck /\ tuned \in (Banks \cup {NoBank}) \X Numbers
    /\ pc \in {"service", "pads", "knobs", "prepare"}
    /\ mounted \in BOOLEAN /\ booting \in BOOLEAN
    /\ bank \in Banks /\ list \in Banks \cup {NoBank} /\ rescan \in BOOLEAN
    /\ dial \in 0..Dial /\ dialAt \in 0..Dial /\ static \in BOOLEAN
    /\ open \in {NoStation} \cup 0..Stations(list)-1 /\ pending \in Numbers
    /\ since \in 0..Settle /\ retune \in BOOLEAN /\ hot \in BOOLEAN

\* The station the panel shows as open is the one that sounds, through turns of
\* the dial, changes of bank, rescans and stations that do not open
\* (radio_engine.cpp:184-188).
ShownStationPlays ==
    open # NoStation /\ Playing(deck) => tuned = <<list, open>>

\* A dial and a jack that only jitter never chatter: to leave a station for
\* another of the same list the dial has to move further than the hysteresis from
\* where it stood when the station was tuned to (radio_engine.cpp:43-47, 259-262).
NoChatter ==
    [][open # NoStation /\ open' \notin {open, NoStation} /\ list' = list =>
          Abs(Place(Stations(list))' - (dialAt * 8 * (Stations(list) - 1)) \div Dial) > Hyst]_vars

\* The panel is left alone, and the card takes no station away.
Still ==
    /\ UNCHANGED <<dial, bank, static>>
    /\ Playing(deck) => Playing(deck')
    /\ open' = NoStation => open = NoStation \/ rescan

Tuned == open = QuantStation(list, open) /\ (Stations(list) > 0 => tuned = <<list, open>>)

\* A panel that is left alone ends up on the station it points at, whatever the
\* order in which the card came up, the bank was scanned and the dial was turned.
Tunes == <>[][Still]_vars => <>[]Tuned

\* A reset is served: the deck plays, if there is a station to play.
ResetPlays ==
    <>[][Still]_vars => (retune ~> (Playing(deck) \/ Stations(list) = 0))
=============================================================================

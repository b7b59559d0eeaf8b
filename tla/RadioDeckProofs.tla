--------------------------- MODULE RadioDeckProofs ---------------------------
(***************************************************************************)
(* RadioDeck, for every number of banks and stations, every resolution of  *)
(* the dial and every settling time: the station shown is the one that     *)
(* sounds, a dial that only jitters changes no station, and the deck is    *)
(* called only as the streaming service allows.                            *)
(***************************************************************************)
EXTENDS RadioDeck, TLAPS

\* The place of a dial at x in a list of n stations; Place(n) is At(dial, n).
At(x, n) == (x * 8 * (n - 1)) \div Dial

\* What the tuning reads has its type.
Types ==
    /\ deck \in Deck /\ bank \in Banks /\ list \in Banks \cup {NoBank}
    /\ dial \in 0..Dial /\ dialAt \in 0..Dial
    /\ open \in Int /\ rescan \in BOOLEAN

\* A list that is not the selected bank's is about to be scanned again, in this
\* very pass, and only such a list is.
ListOfBank ==
    list # NoBank => /\ rescan <=> list # bank
                     /\ rescan => pc = "prepare"

\* A station is open only of a list that has it.
OpenOfList == open # NoStation => open \in 0..Stations(list)-1

\* It was the nearest one when it was tuned to.
NearestWhenTuned ==
    open # NoStation => Abs(At(dialAt, Stations(list)) - 8 * open) <= 4

IInv == Types /\ ListOfBank /\ OpenOfList /\ NearestWhenTuned /\ ShownStationPlays

-----------------------------------------------------------------------------
\* What the calls of the streaming service make of a deck.
LEMMA DeckCalls ==
    ASSUME NEW d \in Deck
    PROVE  /\ Halted(d) \in Deck /\ ~Playing(Halted(d))
           /\ RanOut(d) \in Deck /\ ~Playing(RanOut(d))
           /\ Started(Halted(d), "play") \in Deck
BY DEF Deck, Started, Halted, RanOut, Playing

LEMMA StationsType == \A l \in Banks \cup {NoBank} : Stations(l) \in Nat
BY RadioAssumption DEF Stations

LEMMA PlaceType ==
    ASSUME NEW x \in Int, NEW n \in Nat PROVE At(x, n) \in Int
<1>1. x * 8 * (n - 1) \in Int
  OBVIOUS
<1>2. \A y \in Int : y \div Dial \in Int
  BY RadioAssumption
<1> QED
  BY <1>1, <1>2 DEF At

\* _quant_station() holds a station it is near to, and else takes the nearest.
LEMMA QuantNearest ==
    ASSUME Types, NEW l \in Banks \cup {NoBank}, Stations(l) # 0,
           NEW cur \in Int, QuantStation(l, cur) # cur
    PROVE  /\ QuantStation(l, cur) \in Int
           /\ Abs(At(dial, Stations(l)) - 8 * QuantStation(l, cur)) <= 4
           /\ cur \in 0..Stations(l)-1 => Abs(At(dial, Stations(l)) - 8 * cur) > 4 + Hyst
<1> DEFINE n == Stations(l)
           p == At(dial, n)
<1>1. n \in Nat /\ p \in Int
  <2>1. n \in Nat /\ dial \in Int
    BY StationsType DEF Types
  <2> QED
    BY <2>1, PlaceType
<1>2. Place(n) = p
  BY DEF Place, At
<1>3. QuantStation(l, cur) = IF cur \in 0..n-1 /\ Abs(p - 8 * cur) <= 4 + Hyst THEN cur
                             ELSE (p + 4) \div 8
  BY <1>2 DEF QuantStation
<1> HIDE DEF n, p
<1>4. QuantStation(l, cur) = (p + 4) \div 8 /\ ~(cur \in 0..n-1 /\ Abs(p - 8 * cur) <= 4 + Hyst)
  BY <1>3
<1>5. \A q \in Int : q = (p + 4) \div 8 => Abs(p - 8 * q) <= 4
  BY <1>1 DEF Abs
<1>6. (p + 4) \div 8 \in Int
  BY <1>1
<1>7. cur \in 0..n-1 => Abs(p - 8 * cur) > 4 + Hyst
  BY <1>1, <1>4 DEF Abs, Hyst
<1> QED
  BY <1>4, <1>5, <1>6, <1>7 DEF n, p

-----------------------------------------------------------------------------
LEMMA InvInit == Init => IInv
BY DEF Init, IInv, Types, ListOfBank, OpenOfList, NearestWhenTuned, ShownStationPlays,
       Deck, IdleDeck, NoStation

\* The scan keeps the list and what is open, or finds the selected bank's list, which
\* is another than the one a station was open of.
LEMMA ScanForgets ==
    ASSUME IInv
    PROVE  /\ Scanned.list \in Banks \cup {NoBank} /\ Scanned.open \in Int
           /\ Scanned.list # NoBank => Scanned.list = bank
           /\ \/ Scanned.list = list /\ Scanned.open = open
              \/ /\ Scanned.open = NoStation
                 /\ open = NoStation \/ Scanned.list # list
<1> DEFINE scans == rescan \/ (Stations(list) = 0 /\ booting)
<1> USE DEF IInv, Types, ListOfBank, OpenOfList, NoStation
<1>1. CASE ~scans
  <2>1. Scanned = [list |-> list, open |-> open, pending |-> pending]
    BY <1>1 DEF Scanned
  <2> QED
    BY <2>1, <1>1
<1>2. CASE scans
  <2>1. Scanned = [list |-> IF mounted /\ Size[bank] > 0 THEN bank ELSE NoBank,
                   open |-> NoStation, pending |-> NoStation]
    BY <1>2 DEF Scanned
  <2>2. Scanned.open = NoStation /\ Scanned.list \in {bank, NoBank}
    BY <2>1
  <2>3. list = NoBank => Stations(list) = 0
    BY DEF Stations
  <2>4. open # NoStation => Stations(list) # 0 /\ list # NoBank
    BY <2>3, StationsType
  <2>5. open # NoStation => list # bank
    BY <1>2, <2>4
  <2> QED
    BY <2>2, <2>4, <2>5
<1> QED
  BY <1>1, <1>2

\* What a pass leaves open: nothing, what was open, or the station nearest to the
\* dial; and another of the same list only if the dial has left the open one.
LEMMA PrepareOpens ==
    ASSUME IInv, Prepare
    PROVE  /\ deck' \in Deck /\ dialAt' \in 0..Dial
           /\ \/ open' = NoStation
              \/ /\ list' = list /\ open' = open /\ dialAt' = dialAt
                 /\ Playing(deck') => tuned' = <<list', open'>>
              \/ /\ open' \in 0..Stations(list')-1 /\ tuned' = <<list', open'>>
                 /\ dialAt' = dial
                 /\ Abs(At(dial, Stations(list')) - 8 * open') <= 4
                 /\ open # NoStation /\ list' = list =>
                       Abs(At(dial, Stations(list)) - 8 * open) > 4 + Hyst
<1> DEFINE l       == Scanned.list
           was     == Scanned.open
           desired == QuantStation(l, was)
<1>1. /\ l \in Banks \cup {NoBank} /\ was \in Int
      /\ (l = list /\ was = open) \/ (was = NoStation /\ (open = NoStation \/ l # list))
  BY ScanForgets
<1>2. list' = l /\ \E settled \in BOOLEAN : Tune(Scanned, desired, settled)
  BY DEF Prepare
<1>3. PICK settled \in BOOLEAN : Tune(Scanned, desired, settled)
  BY <1>2
<1>4. deck \in Deck /\ dial \in 0..Dial /\ dialAt \in 0..Dial /\ open \in Int
  BY DEF IInv, Types
<1>5. Open(l, desired) \/ (open' = was /\ UNCHANGED <<deck, tuned, dialAt>>)
  BY <1>3 DEF Tune
<1> HIDE DEF l, was, desired
<1>6. deck' \in Deck /\ dialAt' \in 0..Dial
  BY <1>4, <1>5, DeckCalls DEF Open
<1>7. CASE open' = was /\ UNCHANGED <<deck, tuned, dialAt>>
  BY <1>1, <1>2, <1>6, <1>7 DEF IInv, ShownStationPlays
<1>8. CASE Open(l, desired) /\ desired = was /\ open' # NoStation
  <2>1. open' = desired /\ tuned' = <<l, desired>>
    BY <1>8 DEF Open
  <2>2. l = list /\ desired = open
    BY <1>1, <1>8, <2>1
  <2>3. dialAt' = dialAt
    BY <1>8, <2>2 DEF Open
  <2> QED
    BY <1>2, <1>6, <2>1, <2>2, <2>3
<1>9. CASE Open(l, desired) /\ desired # was /\ open' # NoStation
  <2>1. open' = desired /\ desired \in 0..Stations(l)-1 /\ tuned' = <<l, desired>>
    BY <1>9 DEF Open
  <2>2. desired # NoStation
    BY <1>9, <2>1
  <2>3. open # desired \/ l # list
    BY <1>1, <1>9, <2>2
  <2>4. dialAt' = dial
    BY <1>9, <2>2, <2>3 DEF Open, NoStation
  <2>5. Stations(l) # 0
    BY <1>1, <2>1, StationsType
  <2>6. /\ Abs(At(dial, Stations(l)) - 8 * desired) <= 4
        /\ was \in 0..Stations(l)-1 => Abs(At(dial, Stations(l)) - 8 * was) > 4 + Hyst
    BY <1>1, <1>9, <2>5, QuantNearest DEF IInv, desired
  <2>7. open # NoStation /\ l = list => was = open /\ was \in 0..Stations(l)-1
    BY <1>1 DEF IInv, OpenOfList
  <2> QED
    BY <1>2, <1>6, <2>1, <2>4, <2>6, <2>7
<1> QED
  BY <1>5, <1>6, <1>7, <1>8, <1>9

LEMMA PrepareKeeps == ASSUME IInv, Prepare PROVE IInv'
<1>1. /\ list' = Scanned.list /\ rescan' = FALSE /\ pc' = "service"
      /\ UNCHANGED <<bank, dial>>
  BY DEF Prepare
<1>2. open' \in Int
  BY PrepareOpens, StationsType DEF IInv, Types, NoStation
<1>3. Types' /\ ListOfBank'
  BY <1>1, <1>2, ScanForgets, PrepareOpens DEF IInv, Types, ListOfBank
<1>4. ShownStationPlays' /\ OpenOfList'
  BY PrepareOpens DEF IInv, ShownStationPlays, OpenOfList
<1>5. NearestWhenTuned'
  BY PrepareOpens DEF IInv, NearestWhenTuned
<1> QED
  BY <1>3, <1>4, <1>5 DEF IInv

LEMMA InvStep == IInv /\ [Next]_vars => IInv'
<1> SUFFICES ASSUME IInv, [Next]_vars PROVE IInv'
  OBVIOUS
<1>1. CASE Prepare
  BY <1>1, PrepareKeeps
<1>2. CASE Service
  <2>1. /\ deck' \in Deck /\ (Playing(deck') => Playing(deck))
        /\ UNCHANGED <<tuned, world, panel, radio>> /\ pc = "service"
    BY <1>2, DeckCalls DEF Service, IInv, Types
  <2> QED
    BY <2>1 DEF IInv, Types, ListOfBank, OpenOfList, NearestWhenTuned, ShownStationPlays,
                panel, radio
<1>3. CASE Knobs
  <2>1. /\ dial' \in 0..Dial /\ bank' \in Banks /\ pc = "knobs" /\ pc' = "prepare"
        /\ UNCHANGED <<deck, tuned, list, open, dialAt>>
        /\ (bank' = bank /\ rescan' = rescan) \/ (bank' # bank /\ rescan' = TRUE)
    BY <1>3 DEF Knobs, radio, IInv, Types
  <2>2. Types'
    BY <2>1 DEF IInv, Types
  <2>3. list # NoBank => ~rescan /\ list = bank
    BY <2>1 DEF IInv, ListOfBank
  <2>4. ListOfBank'
    BY <2>1, <2>2, <2>3 DEF ListOfBank
  <2>5. OpenOfList' /\ NearestWhenTuned' /\ ShownStationPlays'
    BY <2>1 DEF IInv, OpenOfList, NearestWhenTuned, ShownStationPlays
  <2> QED
    BY <2>2, <2>4, <2>5 DEF IInv
<1>4. CASE Pads \/ NoKnob \/ Tick \/ Mount \/ BootEnd \/ UNCHANGED vars
  <2>1. UNCHANGED <<deck, tuned, bank, list, rescan, dial, dialAt, open>>
    BY <1>4 DEF Pads, NoKnob, Tick, Mount, BootEnd, vars, panel, radio, world
  <2>2. pc = "prepare" => pc' = "prepare"
    BY <1>4 DEF Pads, NoKnob, Tick, Mount, BootEnd, vars
  <2> QED
    BY <2>1, <2>2 DEF IInv, Types, ListOfBank, OpenOfList, NearestWhenTuned, ShownStationPlays
<1> QED
  BY <1>1, <1>2, <1>3, <1>4 DEF Next, Pass

LEMMA Invariant == Spec => []IInv
BY InvInit, InvStep, PTL DEF Spec

\* The station the panel shows is the one that sounds (radio_engine.cpp:184-188).
THEOREM ShownSounds == Spec => []ShownStationPlays
BY Invariant, PTL DEF IInv

\* Only prepare() opens another station, and for that the dial has to be more than
\* half a station and the hysteresis from the open one, to which it was within half a
\* station when it was tuned to (radio_engine.cpp:251-265).
LEMMA StepNoChatter ==
    ASSUME IInv, [Next]_vars, open # NoStation, open' \notin {open, NoStation}, list' = list
    PROVE  Abs(Place(Stations(list))' - At(dialAt, Stations(list))) > Hyst
<1>1. Prepare
  BY DEF Next, Pass, Service, Pads, Knobs, NoKnob, Tick, Mount, BootEnd, vars, radio
<1>2. dial' = dial
  BY <1>1 DEF Prepare
<1>3. Place(Stations(list))' = At(dial, Stations(list))
  BY <1>2 DEF Place, At, Stations
<1>4. Abs(At(dial, Stations(list)) - 8 * open) > 4 + Hyst
  BY <1>1, PrepareOpens
<1>5. Abs(At(dialAt, Stations(list)) - 8 * open) <= 4
  BY DEF IInv, NearestWhenTuned
<1>6. At(dial, Stations(list)) \in Int /\ At(dialAt, Stations(list)) \in Int /\ open \in Int
  <2>1. dial \in Int /\ dialAt \in Int /\ open \in Int /\ Stations(list) \in Nat
    BY StationsType DEF IInv, Types
  <2> QED
    BY <2>1, PlaceType
<1> QED
  BY <1>3, <1>4, <1>5, <1>6 DEF Abs, Hyst

\* A dial that only jitters changes no station (radio_engine.cpp:43-47, 259-262).
THEOREM JitterTunesNothing == Spec => NoChatter
<1>1. IInv /\ [Next]_vars =>
        [open # NoStation /\ open' \notin {open, NoStation} /\ list' = list =>
            Abs(Place(Stations(list))' - (dialAt * 8 * (Stations(list) - 1)) \div Dial) > Hyst]_vars
  BY StepNoChatter DEF At
<1> QED
  BY <1>1, Invariant, PTL DEF Spec, NoChatter

-----------------------------------------------------------------------------
(* The calls of the deck. *)

Contract == INSTANCE DeckService

\* A radio only plays: its deck owes no take and is never parked.
OnlyPlays == deck \in Deck /\ deck.mode # "record" /\ deck.finalizing = FALSE /\ deck.seeking = FALSE

\* What the two calls of _do_open() make of such a deck.
LEMMA ReopenedDeck ==
    ASSUME NEW d \in Deck, d.mode # "record", d.finalizing = FALSE, d.seeking = FALSE
    PROVE  \A e \in {Halted(d), RanOut(d), Started(Halted(d), "play")} :
               /\ e \in Deck /\ e.mode # "record" /\ e.finalizing = FALSE /\ e.seeking = FALSE
<1>1. ASSUME NEW e, e \in {Halted(d), RanOut(d), Started(Halted(d), "play")}
      PROVE  /\ e \in Deck /\ e.mode # "record" /\ e.finalizing = FALSE /\ e.seeking = FALSE
  BY <1>1 DEF Deck, Halted, RanOut, Started
<1> QED
  BY <1>1

\* Every step of the engine leaves the deck alone or makes one of its calls.
LEMMA DeckStep ==
    ASSUME [Next]_vars
    PROVE  \/ deck' = deck
           \/ Playing(deck) /\ deck' = RanOut(deck)
           \/ deck' = Halted(deck)
           \/ deck' = Started(Halted(deck), "play")
<1>1. CASE Service
  BY <1>1 DEF Service
<1>2. CASE Prepare
  <2>1. PICK s, desired, settled : Tune(s, desired, settled)
    BY <1>2 DEF Prepare
  <2> QED
    BY <2>1 DEF Tune, Open
<1>3. CASE Pads \/ Knobs \/ NoKnob \/ Tick \/ Mount \/ BootEnd \/ UNCHANGED vars
  BY <1>3 DEF Pads, Knobs, NoKnob, Tick, Mount, BootEnd, vars
<1> QED
  BY <1>1, <1>2, <1>3 DEF Next, Pass

\* The radio keeps to the contract: it calls a deck only as the service allows, and
\* what it sees of the deck, over a stop and a start in one pass too, the service
\* may show it (istreamdeck.h:68-74, radio_engine.cpp:267-279).
THEOREM RadioKeepsToContract == Spec => Contract!Init /\ [][Contract!Next]_deck
<1>1. Init => OnlyPlays /\ Contract!Init
  BY DEF Init, OnlyPlays, Contract!Init, Contract!IdleDeck, IdleDeck, Deck
<1>2. OnlyPlays /\ [Next]_vars => OnlyPlays'
  BY DeckStep, ReopenedDeck DEF OnlyPlays
<1>3. OnlyPlays /\ [Next]_vars => [Contract!Next]_deck
  <2> SUFFICES ASSUME OnlyPlays, [Next]_vars, deck' # deck PROVE Contract!Next
    OBVIOUS
  <2>1. CASE Playing(deck) /\ deck' = RanOut(deck)
    BY <2>1 DEF Contract!Next, Contract!RunOut, Contract!Playing, Contract!RanOut, Playing, RanOut
  <2>2. CASE deck' = Halted(deck)
    <3>1. deck.mode # "idle"
      <4> SUFFICES ASSUME deck.mode = "idle" PROVE Halted(deck) = deck
        BY <2>2
      <4> QED
        BY DEF OnlyPlays, Deck, Halted
    <3> QED
      BY <2>2, <3>1 DEF Contract!Next, Contract!Stop, Contract!Halted, Halted
  <2>3. CASE deck' = Started(Halted(deck), "play")
    <3>1. deck.mode = "idle"
      <4> SUFFICES ASSUME deck.mode = "play" PROVE Started(Halted(deck), "play") = deck
        BY <2>3 DEF OnlyPlays, Deck
      <4> QED
        BY DEF OnlyPlays, Deck, Halted, Started
    <3>2. Halted(deck) = deck
      BY <3>1 DEF OnlyPlays, Deck, Halted
    <3>3. Contract!Free(deck) /\ deck' = Contract!Started(deck, "play")
      BY <2>3, <3>1, <3>2 DEF OnlyPlays, Contract!Free, Contract!Started, Started
    <3> QED
      BY <3>3 DEF Contract!Next, Contract!Start
  <2> QED
    BY <2>1, <2>2, <2>3, DeckStep
<1> QED
  BY <1>1, <1>2, <1>3, PTL DEF Spec
=============================================================================

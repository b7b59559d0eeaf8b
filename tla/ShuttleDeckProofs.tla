-------------------------- MODULE ShuttleDeckProofs --------------------------
(***************************************************************************)
(* ShuttleDeck, for every size of the buffers, the chunks and the files: a *)
(* load stays in step with the deck's one stream, and ends with the whole  *)
(* file or as much of it as fits. The deck is called only as the streaming *)
(* service allows.                                                         *)
(***************************************************************************)
EXTENDS ShuttleDeck, TLAPS

Loads(s) == load[s] # "idle"

\* What a track loads untouched it loads alone.
OneLoad == \A s \in Tracks : clean[s] /\ Loads(s) => load[1 - s] = "idle"

\* The stream plays a file that is on the card, and no more than it.
PlaysFile == Playing(deck) => open \in DOMAIN FileLen /\ supply <= FileLen[open]

\* Between its two halves prepare() finds the deck as it left it, and room for what
\* it has got.
PullStands ==
    pc = "pulled" =>
        /\ taken.target = Target /\ load[at] = "draining"
        /\ taken.got = 0 \/ wpos[at] <= Cap

\* Only a stream that has delivered everything is retired under a load.
RetiredEmpty == \A s \in Tracks : clean[s] /\ Loads(s) /\ ~Playing(deck) => pulled = supply

Steady == OneLoad /\ PlaysFile /\ PullStands /\ RetiredEmpty

IInv == Inv /\ Steady

-----------------------------------------------------------------------------
LEMMA Track == 0 \in Tracks /\ 1 \in Tracks /\ \A s \in Tracks : 1 - s \in Tracks /\ 1 - s # s
BY DEF Tracks

\* What the calls of the streaming service make of a deck.
LEMMA DeckCalls ==
    ASSUME NEW d \in Deck
    PROVE  /\ Started(d, "play") \in Deck /\ Playing(Started(d, "play"))
           /\ Halted(d) \in Deck /\ ~Playing(Halted(d))
           /\ RanOut(d) \in Deck /\ ~Playing(RanOut(d))
BY DEF Deck, Started, Halted, RanOut, Playing

LEMMA LeastOfTwo ==
    ASSUME NEW a \in Nat, NEW b \in Nat
    PROVE  /\ LeastOf({a, b}) \in {a, b} /\ LeastOf({a, b}) <= a /\ LeastOf({a, b}) <= b
<1>1. \E n \in {a, b} : \A m \in {a, b} : n <= m
  <2>1. CASE a <= b
    BY <2>1
  <2>2. CASE b <= a
    BY <2>2
  <2> QED
    BY <2>1, <2>2
<1>2. LeastOf({a, b}) \in {a, b} /\ \A m \in {a, b} : LeastOf({a, b}) <= m
  BY <1>1 DEF LeastOf
<1> QED
  BY <1>2

LEMMA LeastOfThree ==
    ASSUME NEW a \in Nat, NEW b \in Nat, NEW c \in Nat
    PROVE  LET n == LeastOf({a, b} \cup {c})
           IN  n \in Nat /\ n <= a /\ n <= b
<1> DEFINE S == {a, b} \cup {c}
<1>1. \E n \in S : \A m \in S : n <= m
  <2>1. CASE a <= b /\ a <= c
    BY <2>1
  <2>2. CASE b <= a /\ b <= c
    BY <2>2
  <2>3. CASE c <= a /\ c <= b
    BY <2>3
  <2> QED
    BY <2>1, <2>2, <2>3
<1>2. LeastOf(S) \in S /\ \A m \in S : LeastOf(S) <= m
  BY <1>1 DEF LeastOf
<1> QED
  BY <1>2

\* A file that plays has a length.
LEMMA TargetType == ASSUME IInv PROVE Target \in Nat
BY ShuttleAssumption DEF IInv, Steady, PlaysFile, Target

\* A pass wants no more than a chunk, and no more than there is room for.
LEMMA WantFits ==
    ASSUME IInv, NEW s \in Tracks
    PROVE  /\ Want(s) \in Nat /\ Want(s) <= Chunk
           /\ wpos[s] <= Cap => wpos[s] + Want(s) <= Cap
           /\ wpos[s] > Cap => Want(s) = 0
<1>1. wpos[s] \in Nat /\ Target \in Nat /\ Chunk \in Nat /\ Cap \in Nat
  BY TargetType, ShuttleAssumption DEF IInv, Inv, TypeOK
<1> DEFINE room == IF Cap > wpos[s] THEN Cap - wpos[s] ELSE 0
<1>2. room \in Nat /\ (wpos[s] <= Cap => wpos[s] + room = Cap) /\ (wpos[s] > Cap => room = 0)
  BY <1>1
<1>3. Want(s) = LeastOf({Chunk, room} \cup (IF Target >= wpos[s] THEN {Target - wpos[s]} ELSE {}))
  BY DEF Want
<1> HIDE DEF room
<1>4. Want(s) \in Nat /\ Want(s) <= Chunk /\ Want(s) <= room
  <2>1. CASE Target >= wpos[s]
    <3>1. Target - wpos[s] \in Nat
      BY <1>1, <2>1
    <3>2. Want(s) = LeastOf({Chunk, room} \cup {Target - wpos[s]})
      BY <1>3, <2>1
    <3> QED
      BY <1>1, <1>2, <3>1, <3>2, LeastOfThree
  <2>2. CASE ~(Target >= wpos[s])
    <3>1. Want(s) = LeastOf({Chunk, room})
      <4>1. {Chunk, room} \cup {} = {Chunk, room}
        OBVIOUS
      <4> QED
        BY <1>3, <2>2, <4>1
    <3> QED
      BY <1>1, <1>2, <3>1, LeastOfTwo
  <2> QED
    BY <2>1, <2>2
<1> QED
  BY <1>1, <1>2, <1>4

-----------------------------------------------------------------------------
(* One lemma per operation that touches a load or the stream. *)

LEMMA ServiceKeeps == ASSUME IInv, Service PROVE IInv'
<1>1. /\ pc = "service" /\ pc' = "pads"
      /\ UNCHANGED <<open, supply, pulled, at, taken, panel, tape, preload, clean>>
      /\ deck' = deck \/ (Playing(deck) /\ pulled = supply /\ deck' = RanOut(deck))
  BY DEF Service
<1>2. deck' \in Deck /\ (Playing(deck') => Playing(deck))
      /\ (Playing(deck) /\ ~Playing(deck') => pulled = supply)
  BY <1>1, DeckCalls DEF IInv, Inv, TypeOK
<1>3. Inv'
  BY <1>1, <1>2 DEF IInv, Inv, TypeOK, StreamHasLoad, LoadInStep, panel, tape
<1>4. Steady'
  BY <1>1, <1>2 DEF IInv, Steady, OneLoad, PlaysFile, PullStands, RetiredEmpty, Loads, tape
<1> QED
  BY <1>3, <1>4 DEF IInv

\* Steps that touch neither the stream nor a load, outside a pull.
LEMMA OutsideKeeps ==
    ASSUME IInv, pc # "pulled", pc' # "pulled",
           UNCHANGED <<stream, tape, clean, taken>>,
           pc' \in {"service", "pads", "prepare", "track"}, at' \in Tracks, focus' \in Tracks,
           slot' \in [Tracks -> Slots], preload' \in 0..2
    PROVE  IInv'
<1>1. Inv'
  BY DEF IInv, Inv, TypeOK, StreamHasLoad, LoadInStep, stream, tape
<1>2. Steady'
  BY DEF IInv, Steady, OneLoad, PlaysFile, PullStands, RetiredEmpty, Loads, stream, tape
<1> QED
  BY <1>1, <1>2 DEF IInv

\* A request that the deck grants empties the track and starts a load of it; the
\* other track's load, if it has one, is not untouched any more.
LEMMA RequestKeeps ==
    ASSUME IInv, NEW s \in Tracks, NEW to \in Slots, Request(s, to),
           pc # "pulled", pc' \in {"prepare", "track"}, at' \in Tracks,
           UNCHANGED <<taken, focus>>, slot' \in [Tracks -> Slots], preload' \in 0..2
    PROVE  IInv'
<1>1. CASE UNCHANGED <<stream, tape, clean>>
  BY <1>1, OutsideKeeps DEF IInv, Inv, TypeOK
<1>2. CASE ~UNCHANGED <<stream, tape, clean>>
  <2>1. /\ to \in DOMAIN FileLen /\ deck' = Started(deck, "play")
        /\ open' = to /\ supply' \in 0..FileLen[to] /\ pulled' = 0
        /\ load' = [load EXCEPT ![s] = "priming"]
        /\ wpos' = [wpos EXCEPT ![s] = 0] /\ len' = [len EXCEPT ![s] = 0]
        /\ recording' = [recording EXCEPT ![s] = FALSE]
        /\ clean' = [t \in Tracks |-> IF t = s THEN load[1 - s] = "idle"
                                      ELSE clean[t] /\ load[t] = "idle"]
    BY <1>2 DEF Request
  <2>2. deck' \in Deck /\ Playing(deck')
    BY <2>1, DeckCalls DEF IInv, Inv, TypeOK
  <2>3. FileLen[to] \in Nat /\ supply' \in Nat /\ Cap \in Nat /\ Chunk \in Nat
    BY <2>1, ShuttleAssumption
  <2>4. /\ load' \in [Tracks -> {"idle", "priming", "draining"}]
        /\ wpos' \in [Tracks -> 0..(Cap + Chunk)] /\ len' \in [Tracks -> 0..(Cap + Chunk)]
        /\ recording' \in [Tracks -> BOOLEAN]
    BY <2>1, <2>3 DEF IInv, Inv, TypeOK
  <2>5. clean' \in [Tracks -> BOOLEAN]
    <3>1. \A t \in Tracks : clean[t] \in BOOLEAN
      BY DEF IInv, Inv, TypeOK
    <3> QED
      BY <2>1, <3>1
  <2>6. TypeOK'
    BY <2>1, <2>2, <2>3, <2>4, <2>5 DEF IInv, Inv, TypeOK
  <2>7. load'[s] = "priming" /\ wpos'[s] = 0 /\ recording'[s] = FALSE
    BY <2>1 DEF IInv, Inv, TypeOK
  <2>8. \A t \in Tracks \ {s} : load'[t] = load[t] /\ (clean'[t] => load[t] = "idle")
    BY <2>1 DEF IInv, Inv, TypeOK
  <2>9. clean'[s] => load'[1 - s] = "idle"
    BY <2>1, <2>8, Track
  <2>10. StreamHasLoad' /\ LoadInStep'
    BY <2>1, <2>3, <2>7, <2>8 DEF StreamHasLoad, LoadInStep
  <2>11. OneLoad'
    BY <2>8, <2>9 DEF OneLoad, Loads
  <2>12. PlaysFile'
    BY <2>1, <2>3 DEF PlaysFile
  <2>13. PullStands' /\ RetiredEmpty'
    BY <2>2 DEF PullStands, RetiredEmpty
  <2> QED
    BY <2>6, <2>10, <2>11, <2>12, <2>13 DEF IInv, Inv, Steady
<1> QED
  BY <1>1, <1>2

LEMMA SelectKeeps == ASSUME IInv, Select PROVE IInv'
<1>1. PICK to \in Slots :
        /\ slot' = [slot EXCEPT ![focus] = to]
        /\ IF to = slot[focus] THEN UNCHANGED <<stream, tape, clean>> ELSE Request(focus, to)
  BY DEF Select
<1>2. /\ pc = "pads" /\ pc' = "prepare" /\ at' = 0 /\ UNCHANGED <<taken, focus, preload>>
      /\ focus \in Tracks /\ preload' \in 0..2 /\ at' \in Tracks
      /\ slot' \in [Tracks -> Slots]
  BY <1>1, Track DEF Select, IInv, Inv, TypeOK
<1>3. CASE UNCHANGED <<stream, tape, clean>>
  BY <1>2, <1>3, OutsideKeeps
<1>4. CASE Request(focus, to)
  BY <1>2, <1>4, RequestKeeps
<1> QED
  BY <1>1, <1>3, <1>4

LEMMA PreloadKeeps == ASSUME IInv, Preload PROVE IInv'
<1>1. /\ pc = "prepare" /\ pc' = "track" /\ UNCHANGED <<at, taken, focus>>
      /\ at' \in Tracks /\ focus' \in Tracks
  BY DEF Preload, IInv, Inv, TypeOK
<1>2. CASE UNCHANGED <<stream, slot, tape, preload, clean>>
  BY <1>1, <1>2, OutsideKeeps DEF IInv, Inv, TypeOK
<1>3. CASE ~UNCHANGED <<stream, slot, tape, preload, clean>>
  <2>1. /\ preload \in Tracks /\ preload' = preload + 1
        /\ IF len[preload] = 0 /\ BootSlot[preload] \in DOMAIN FileLen
           THEN /\ slot' = [slot EXCEPT ![preload] = BootSlot[preload]]
                /\ Request(preload, BootSlot[preload])
           ELSE UNCHANGED <<stream, slot, tape, clean>>
    BY <1>3 DEF Preload
  <2>2. preload' \in 0..2 /\ BootSlot[preload] \in Slots
    BY <2>1, ShuttleAssumption DEF Tracks
  <2>3. slot' \in [Tracks -> Slots]
    BY <2>1, <2>2 DEF IInv, Inv, TypeOK
  <2>4. CASE UNCHANGED <<stream, slot, tape, clean>>
    BY <1>1, <2>2, <2>3, <2>4, OutsideKeeps
  <2>5. CASE Request(preload, BootSlot[preload])
    BY <1>1, <2>1, <2>2, <2>3, <2>5, RequestKeeps
  <2> QED
    BY <2>1, <2>4, <2>5
<1> QED
  BY <1>2, <1>3

\* A load that is given up has no stream any more.
LEMMA PrimeKeeps == ASSUME IInv, Prime PROVE IInv'
<1>1. /\ pc = "track" /\ pc' \in {"track", "service"} /\ at \in Tracks /\ at' \in Tracks
      /\ UNCHANGED <<stream, taken, panel, wpos, len, recording, preload, clean>>
  BY Track DEF Prime, NextTrack, IInv, Inv, TypeOK
<1>2. CASE load' = load
  BY <1>1, <1>2, OutsideKeeps DEF tape, panel, IInv, Inv, TypeOK
<1>3. CASE ~Playing(deck) /\ load' = [load EXCEPT ![at] = "idle"]
  <2>1. /\ load' \in [Tracks -> {"idle", "priming", "draining"}]
        /\ \A s \in Tracks : load'[s] # "idle" => load[s] = load'[s]
        /\ \A s \in Tracks : load[s] = "idle" => load'[s] = "idle"
    BY <1>1, <1>3 DEF IInv, Inv, TypeOK
  <2>2. Inv'
    BY <1>1, <1>3, <2>1 DEF IInv, Inv, TypeOK, StreamHasLoad, LoadInStep, stream, panel
  <2>3. Steady'
    BY <1>1, <1>3, <2>1, Track
       DEF IInv, Steady, OneLoad, PlaysFile, PullStands, RetiredEmpty, Loads, stream
  <2> QED
    BY <2>2, <2>3 DEF IInv
<1> QED
  BY <1>2, <1>3 DEF Prime

\* What a pull has got is what the head is short of the stream by.
LEMMA PullKeeps == ASSUME IInv, Pull PROVE IInv'
<1>1. /\ pc = "track" /\ pc' = "pulled" /\ load[at] # "idle" /\ at \in Tracks
      /\ load' = [load EXCEPT ![at] = "draining"]
      /\ UNCHANGED <<deck, open, supply, at, panel, wpos, len, recording, preload, clean>>
  BY DEF Pull, IInv, Inv, TypeOK
<1>2. PICK got \in 0..(IF Playing(deck) THEN LeastOf({Want(at), supply - pulled}) ELSE 0) :
        pulled' = pulled + got /\ taken' = [target |-> Target, got |-> got]
  BY DEF Pull
<1>3. supply \in Nat /\ pulled \in Nat /\ supply - pulled \in Nat /\ wpos[at] \in Nat
      /\ Cap \in Nat /\ Chunk \in Nat
  BY <1>1, ShuttleAssumption DEF IInv, Inv, TypeOK
<1>4. /\ got \in 0..Chunk /\ pulled + got <= supply
      /\ wpos[at] <= Cap => wpos[at] + got <= Cap
      /\ got = 0 \/ wpos[at] <= Cap
      /\ ~Playing(deck) => got = 0
  <2>1. CASE ~Playing(deck)
    BY <1>3, <2>1 DEF IInv, Inv, TypeOK
  <2>2. CASE Playing(deck)
    <3>1. got \in Nat /\ got <= Want(at) /\ got <= supply - pulled
      BY <1>1, <1>3, <2>2, WantFits, LeastOfTwo
    <3>2. /\ Want(at) \in Nat /\ Want(at) <= Chunk
          /\ wpos[at] <= Cap => wpos[at] + Want(at) <= Cap
          /\ wpos[at] > Cap => Want(at) = 0
      BY <1>1, WantFits
    <3> QED
      BY <1>3, <2>2, <3>1, <3>2
  <2> QED
    BY <2>1, <2>2
<1>5. /\ load' \in [Tracks -> {"idle", "priming", "draining"}]
      /\ load'[at] = "draining"
      /\ \A s \in Tracks : load'[s] = "idle" <=> load[s] = "idle"
  BY <1>1 DEF IInv, Inv, TypeOK
<1>6. taken'.got = got /\ taken'.target = Target /\ Target' = Target
  BY <1>1, <1>2 DEF Target
<1>7. TypeOK'
  BY <1>1, <1>2, <1>3, <1>4, <1>5, <1>6 DEF IInv, Inv, TypeOK, panel
<1>8. StreamHasLoad'
  BY <1>1, <1>5 DEF IInv, Inv, StreamHasLoad
<1>9. ASSUME NEW s \in Tracks, clean'[s], load'[s] # "idle"
      PROVE  /\ wpos'[s] + (IF pc' = "pulled" /\ at' = s THEN taken'.got ELSE 0) = pulled'
             /\ pulled' <= Cap /\ ~recording'[s]
  <2>1. clean[s] /\ load[s] # "idle" /\ s = at
    <3>1. clean[s] /\ load[s] # "idle"
      BY <1>1, <1>5, <1>9
    <3>2. load[1 - s] = "idle"
      BY <3>1 DEF IInv, Steady, OneLoad, Loads
    <3> QED
      BY <1>1, <3>1, <3>2 DEF Tracks
  <2>2. wpos[s] = pulled /\ pulled <= Cap /\ ~recording[s]
    <3>1. wpos[s] + 0 = pulled /\ pulled <= Cap /\ ~recording[s]
      BY <1>1, <2>1 DEF IInv, Inv, LoadInStep
    <3> QED
      BY <1>3, <2>1, <3>1
  <2> QED
    BY <1>1, <1>2, <1>3, <1>4, <1>6, <2>1, <2>2
<1>10. OneLoad' /\ PlaysFile'
  BY <1>1, <1>5, Track DEF IInv, Steady, OneLoad, PlaysFile, Loads
<1>11. PullStands'
  BY <1>1, <1>4, <1>5, <1>6 DEF PullStands
<1>12. RetiredEmpty'
  BY <1>1, <1>2, <1>3, <1>4, <1>5 DEF IInv, Steady, RetiredEmpty, Loads
<1> QED
  BY <1>7, <1>8, <1>9, <1>10, <1>11, <1>12 DEF IInv, Inv, LoadInStep, Steady

\* The head catches up with the stream; a load that is over takes its stream along.
LEMMA StoreKeeps == ASSUME IInv, Store PROVE IInv'
<1>1. /\ pc = "pulled" /\ pc' \in {"track", "service"} /\ at \in Tracks /\ at' \in Tracks
      /\ UNCHANGED <<open, supply, pulled, panel, recording, preload, clean>>
      /\ wpos' = [wpos EXCEPT ![at] = @ + taken.got] /\ taken' = NoPull
  BY Track DEF Store, NextTrack, IInv, Inv, TypeOK
<1>2. \/ /\ len' = [len EXCEPT ![at] = wpos'[at]] /\ deck' = Halted(deck)
         /\ load' = [load EXCEPT ![at] = "idle"]
      \/ UNCHANGED <<len, deck, load>>
  BY DEF Store
<1>3. /\ wpos[at] \in 0..(Cap + Chunk) /\ taken.got \in 0..Chunk /\ Cap \in Nat /\ Chunk \in Nat
      /\ taken.got = 0 \/ wpos[at] <= Cap
  BY <1>1, ShuttleAssumption DEF IInv, Inv, TypeOK, Steady, PullStands
<1>4. wpos[at] + taken.got \in 0..(Cap + Chunk)
  BY <1>3
<1>5. /\ wpos' \in [Tracks -> 0..(Cap + Chunk)] /\ wpos'[at] = wpos[at] + taken.got
      /\ \A s \in Tracks \ {at} : wpos'[s] = wpos[s]
  BY <1>1, <1>4 DEF IInv, Inv, TypeOK
<1>6. len' \in [Tracks -> 0..(Cap + Chunk)]
  BY <1>1, <1>2, <1>5 DEF IInv, Inv, TypeOK
<1>7. /\ load' \in [Tracks -> {"idle", "priming", "draining"}]
      /\ \A s \in Tracks : load'[s] # "idle" => load[s] = load'[s]
      /\ \A s \in Tracks : load[s] = "idle" => load'[s] = "idle"
  BY <1>1, <1>2 DEF IInv, Inv, TypeOK
<1>8. deck' \in Deck /\ ((deck' = deck /\ load' = load) \/ (~Playing(deck') /\ load'[at] = "idle"))
  BY <1>1, <1>2, DeckCalls DEF IInv, Inv, TypeOK
<1>9. TypeOK'
  BY <1>1, <1>3, <1>5, <1>6, <1>7, <1>8 DEF IInv, Inv, TypeOK, panel, NoPull
<1>10. StreamHasLoad'
  BY <1>8 DEF IInv, Inv, StreamHasLoad
<1>11. LoadInStep'
  <2>1. SUFFICES ASSUME NEW s \in Tracks, clean'[s], load'[s] # "idle"
                 PROVE  wpos'[s] + 0 = pulled' /\ pulled' <= Cap /\ ~recording'[s]
    BY <1>1 DEF LoadInStep
  <2>2. clean[s] /\ load[s] # "idle"
    BY <1>1, <1>7, <2>1
  <2>3. /\ wpos[s] + (IF at = s THEN taken.got ELSE 0) = pulled
        /\ pulled <= Cap /\ ~recording[s] /\ wpos[s] \in Nat
    BY <1>1, <2>2 DEF IInv, Inv, LoadInStep, TypeOK
  <2>4. wpos'[s] = wpos[s] + (IF at = s THEN taken.got ELSE 0)
    BY <1>5, <2>3
  <2> QED
    BY <1>1, <1>5, <2>3, <2>4
<1>12. OneLoad' /\ PlaysFile' /\ PullStands'
  BY <1>1, <1>7, <1>8, Track DEF IInv, Steady, OneLoad, PlaysFile, PullStands, Loads
<1>13. RetiredEmpty'
  <2>1. SUFFICES ASSUME NEW s \in Tracks, clean'[s], load'[s] # "idle", ~Playing(deck')
                 PROVE  pulled' = supply'
    BY DEF RetiredEmpty, Loads
  <2>2. clean[s] /\ load[s] # "idle"
    BY <1>1, <1>7, <2>1
  <2>3. load[1 - s] = "idle" /\ load[at] = "draining"
    BY <1>1, <2>2 DEF IInv, Steady, OneLoad, PullStands, Loads
  <2>4. s = at
    BY <1>1, <2>3 DEF Tracks
  <2>5. deck' = deck
    BY <1>8, <2>1, <2>4
  <2> QED
    BY <1>1, <2>1, <2>2, <2>5 DEF IInv, Steady, RetiredEmpty, Loads
<1> QED
  BY <1>9, <1>10, <1>11, <1>12, <1>13 DEF IInv, Inv, Steady

\* The head of a recording that starts leaves the stream, and so does the load.
LEMMA RecordPadKeeps == ASSUME IInv, RecordPad PROVE IInv'
<1>1. /\ pc = "pads" /\ pc' = "pads" /\ focus \in Tracks
      /\ UNCHANGED <<stream, place, panel, load, preload>>
      /\ recording' = [recording EXCEPT ![focus] = ~@]
  BY DEF RecordPad, IInv, Inv, TypeOK, place
<1>2. CASE recording[focus]
  <2>1. len' = [len EXCEPT ![focus] = wpos[focus]] /\ UNCHANGED <<wpos, clean>>
    BY <1>2 DEF RecordPad
  <2>2. TypeOK'
    BY <1>1, <2>1 DEF IInv, Inv, TypeOK, stream, place, panel
  <2>3. StreamHasLoad' /\ LoadInStep'
    BY <1>1, <1>2, <2>1 DEF IInv, Inv, TypeOK, StreamHasLoad, LoadInStep, stream, place
  <2>4. Steady'
    BY <1>1, <2>1
       DEF IInv, Steady, OneLoad, PlaysFile, PullStands, RetiredEmpty, Loads, stream, place
  <2> QED
    BY <2>2, <2>3, <2>4 DEF IInv, Inv
<1>3. CASE ~recording[focus]
  <2>1. /\ wpos' = [wpos EXCEPT ![focus] = 0] /\ len' = [len EXCEPT ![focus] = 0]
        /\ clean' = [clean EXCEPT ![focus] = (load[focus] = "idle")]
    BY <1>3 DEF RecordPad
  <2>2. /\ clean' \in [Tracks -> BOOLEAN]
        /\ \A s \in Tracks : clean'[s] /\ load[s] # "idle" => clean[s] /\ s # focus
    BY <1>1, <2>1 DEF IInv, Inv, TypeOK
  <2>3. TypeOK'
    <3>1. /\ wpos' \in [Tracks -> 0..(Cap + Chunk)] /\ len' \in [Tracks -> 0..(Cap + Chunk)]
      BY <1>1, <2>1, ShuttleAssumption DEF IInv, Inv, TypeOK
    <3> QED
      BY <1>1, <2>2, <3>1 DEF IInv, Inv, TypeOK, stream, place, panel
  <2>4. StreamHasLoad' /\ LoadInStep'
    BY <1>1, <2>1, <2>2 DEF IInv, Inv, TypeOK, StreamHasLoad, LoadInStep, stream, place
  <2>5. Steady'
    BY <1>1, <2>2
       DEF IInv, Steady, OneLoad, PlaysFile, PullStands, RetiredEmpty, Loads, stream, place
  <2> QED
    BY <2>3, <2>4, <2>5 DEF IInv, Inv
<1> QED
  BY <1>2, <1>3

\* A track that records is not one whose load counts.
LEMMA RecordBlockKeeps == ASSUME IInv, NEW s \in Tracks, RecordBlock(s) PROVE IInv'
<1>1. /\ recording[s] /\ wpos[s] < Cap
      /\ wpos' = [wpos EXCEPT ![s] = @ + 1] /\ len' = [len EXCEPT ![s] = wpos'[s]]
      /\ UNCHANGED <<stream, place, panel, load, recording, preload, clean>>
  BY DEF RecordBlock
<1>2. wpos[s] \in Nat /\ wpos[s] + 1 \in 0..Cap /\ Cap \in Nat /\ Chunk \in Nat
  BY <1>1, ShuttleAssumption DEF IInv, Inv, TypeOK
<1>3. /\ wpos' \in [Tracks -> 0..(Cap + Chunk)] /\ wpos'[s] = wpos[s] + 1
      /\ \A t \in Tracks \ {s} : wpos'[t] = wpos[t]
  BY <1>1, <1>2 DEF IInv, Inv, TypeOK
<1>4. len' \in [Tracks -> 0..(Cap + Chunk)]
  BY <1>1, <1>3 DEF IInv, Inv, TypeOK
<1>5. TypeOK'
  BY <1>1, <1>3, <1>4 DEF IInv, Inv, TypeOK, stream, place, panel
<1>6. StreamHasLoad' /\ LoadInStep'
  BY <1>1, <1>3 DEF IInv, Inv, StreamHasLoad, LoadInStep, stream, place
<1>7. PullStands'
  <2>1. wpos[at] <= Cap => wpos'[at] <= Cap
    BY <1>2, <1>3 DEF IInv, Inv, TypeOK
  <2> QED
    BY <1>1, <2>1 DEF IInv, Steady, PullStands, Target, stream, place
<1>8. OneLoad' /\ PlaysFile' /\ RetiredEmpty'
  BY <1>1 DEF IInv, Steady, OneLoad, PlaysFile, RetiredEmpty, Loads, stream
<1> QED
  BY <1>5, <1>6, <1>7, <1>8 DEF IInv, Inv, Steady

-----------------------------------------------------------------------------
LEMMA InvInit == Init => IInv
<1> SUFFICES ASSUME Init PROVE IInv
  OBVIOUS
<1>1. deck \in Deck /\ ~Playing(deck)
  BY DEF Init, Deck, IdleDeck, Playing
<1>2. /\ Cap \in Nat /\ Chunk \in Nat /\ 0 \in 0..(Cap + Chunk) /\ 0 \in 0..Chunk
      /\ taken.got = 0 /\ \A s \in Tracks : BootSlot[s] \in Slots
  BY ShuttleAssumption DEF Init, NoPull
<1>3. TypeOK
  BY <1>1, <1>2, Track DEF Init, TypeOK
<1>4. StreamHasLoad /\ LoadInStep /\ Steady
  BY <1>1 DEF Init, StreamHasLoad, LoadInStep, Steady, OneLoad, PlaysFile, PullStands,
              RetiredEmpty, Loads
<1> QED
  BY <1>3, <1>4 DEF IInv, Inv

LEMMA InvStep == IInv /\ [Next]_vars => IInv'
<1> SUFFICES ASSUME IInv, [Next]_vars PROVE IInv'
  OBVIOUS
<1>1. CASE Service
  BY <1>1, ServiceKeeps
<1>2. CASE Select
  BY <1>2, SelectKeeps
<1>3. CASE Preload
  BY <1>3, PreloadKeeps
<1>4. CASE Prime
  BY <1>4, PrimeKeeps
<1>5. CASE Skip
  <2>1. /\ pc = "track" /\ pc' \in {"track", "service"} /\ at' \in Tracks
        /\ UNCHANGED <<stream, taken, panel, tape, preload, clean>>
    BY <1>5, Track DEF Skip, NextTrack
  <2> QED
    BY <2>1, OutsideKeeps DEF panel, IInv, Inv, TypeOK
<1>6. CASE Pull
  BY <1>6, PullKeeps
<1>7. CASE Store
  BY <1>7, StoreKeeps
<1>8. CASE SwapFocus
  <2>1. pc = "pads" /\ focus' \in Tracks /\ UNCHANGED <<stream, place, slot, tape, preload, clean>>
    BY <1>8, Track DEF SwapFocus, IInv, Inv, TypeOK
  <2> QED
    BY <2>1, OutsideKeeps DEF place, IInv, Inv, TypeOK
<1>9. CASE RecordPad
  BY <1>9, RecordPadKeeps
<1>10. ASSUME NEW s \in Tracks, RecordBlock(s) PROVE IInv'
  BY <1>10, RecordBlockKeeps
<1>11. CASE UNCHANGED vars
  <2>1. Inv'
    BY <1>11 DEF IInv, Inv, TypeOK, StreamHasLoad, LoadInStep, vars, stream, place, panel, tape
  <2>2. Steady'
    BY <1>11 DEF IInv, Steady, OneLoad, PlaysFile, PullStands, RetiredEmpty, Loads, Target,
                 vars, stream, place, tape
  <2> QED
    BY <2>1, <2>2 DEF IInv
<1> QED
  BY <1>1, <1>2, <1>3, <1>4, <1>5, <1>6, <1>7, <1>8, <1>9, <1>10, <1>11 DEF Next, Pass

LEMMA Invariant == Spec => []IInv
BY InvInit, InvStep, PTL DEF Spec

\* The stream plays only for a load, and a load that nothing crossed is in step with
\* it (shuttle_engine.cpp:102-150).
THEOREM LoadsKeepStep == Spec => []Inv
BY Invariant, PTL DEF IInv

-----------------------------------------------------------------------------
\* Only a store ends a load that has begun to arrive.
LEMMA StoreEnds ==
    ASSUME IInv, [Next]_vars, NEW s \in Tracks, load[s] = "draining", load'[s] = "idle"
    PROVE  Store /\ at = s
<1>1. CASE Store
  <2>1. at \in Tracks /\ \A t \in Tracks \ {at} : load'[t] = load[t]
    BY <1>1 DEF Store, IInv, Inv, TypeOK
  <2> QED
    BY <1>1, <2>1
<1>2. CASE Pull
  BY <1>2 DEF Pull, IInv, Inv, TypeOK
<1>3. CASE Prime
  BY <1>3 DEF Prime, IInv, Inv, TypeOK
<1>4. CASE Select
  BY <1>4 DEF Select, Request, tape, IInv, Inv, TypeOK
<1>5. CASE Preload
  BY <1>5 DEF Preload, Request, tape, IInv, Inv, TypeOK
<1>6. CASE Service \/ Skip \/ SwapFocus \/ RecordPad \/ (\E t \in Tracks : RecordBlock(t))
           \/ UNCHANGED vars
  BY <1>6 DEF Service, Skip, SwapFocus, RecordPad, RecordBlock, vars, tape
<1> QED
  BY <1>1, <1>2, <1>3, <1>4, <1>5, <1>6 DEF Next, Pass

LEMMA StepLoadsWhole ==
    ASSUME IInv, [Next]_vars, NEW s \in Tracks,
           clean[s], load[s] = "draining", load'[s] = "idle"
    PROVE  len'[s] = IF Playing(deck) THEN LeastOf({FileLen[open], Cap}) ELSE supply
<1>1. Store /\ at = s
  BY StoreEnds
<1>2. /\ pc = "pulled" /\ wpos' = [wpos EXCEPT ![s] = @ + taken.got]
      /\ wpos'[s] >= taken.target \/ wpos'[s] >= Cap
      /\ len' = [len EXCEPT ![s] = wpos'[s]]
  BY <1>1 DEF Store
<1>3. wpos'[s] = pulled /\ len'[s] = pulled /\ pulled <= Cap
  BY <1>1, <1>2 DEF IInv, Inv, TypeOK, LoadInStep
<1>4. taken.target = Target
  BY <1>2 DEF IInv, Steady, PullStands
<1>5. CASE ~Playing(deck)
  BY <1>3, <1>5 DEF IInv, Steady, RetiredEmpty, Loads
<1>6. CASE Playing(deck)
  <2>1. /\ Target = FileLen[open] /\ FileLen[open] \in Nat /\ Cap \in Nat
        /\ supply <= FileLen[open] /\ pulled \in 0..supply /\ supply \in Nat
    BY <1>6, ShuttleAssumption DEF Target, IInv, Inv, TypeOK, Steady, PlaysFile
  <2>2. /\ LeastOf({FileLen[open], Cap}) \in {FileLen[open], Cap}
        /\ LeastOf({FileLen[open], Cap}) <= FileLen[open]
        /\ LeastOf({FileLen[open], Cap}) <= Cap
    BY <2>1, LeastOfTwo
  <2>3. pulled >= FileLen[open] \/ pulled >= Cap
    BY <1>2, <1>3, <1>4, <2>1
  <2>4. pulled <= FileLen[open] /\ pulled <= Cap
    BY <1>3, <2>1
  <2> QED
    BY <1>3, <1>6, <2>1, <2>2, <2>3, <2>4
<1> QED
  BY <1>5, <1>6

\* A load that nothing crossed ends with the whole file, as much of it as fits, or
\* what the card gave of it (shuttle_engine.cpp:118-131).
THEOREM LoadsAreWhole == Spec => LoadsWhole
<1>1. IInv /\ [Next]_vars =>
        [\A s \in Tracks :
            clean[s] /\ load[s] = "draining" /\ load'[s] = "idle" =>
                len'[s] = IF Playing(deck) THEN LeastOf({FileLen[open], Cap}) ELSE supply]_vars
  BY StepLoadsWhole
<1> QED
  BY <1>1, Invariant, PTL DEF Spec, LoadsWhole

-----------------------------------------------------------------------------
(* The calls of the deck. *)

Contract == INSTANCE DeckService

LEMMA RequestCalls ==
    ASSUME NEW s, NEW to, Request(s, to)
    PROVE  deck' = deck \/ (Free(deck) /\ deck' = Started(deck, "play"))
BY DEF Request, stream

\* Every step of the engine leaves the deck alone or makes one of its calls.
LEMMA DeckStep ==
    ASSUME [Next]_vars
    PROVE  \/ deck' = deck
           \/ Playing(deck) /\ deck' = RanOut(deck)
           \/ deck' = Halted(deck)
           \/ Free(deck) /\ deck' = Started(deck, "play")
<1>1. CASE Select \/ Preload
  BY <1>1, RequestCalls, Zenon DEF Select, Preload, stream
<1>2. CASE Service \/ Store
  BY <1>2 DEF Service, Store
<1>3. CASE Prime \/ Skip \/ Pull \/ SwapFocus \/ RecordPad \/ UNCHANGED vars
  BY <1>3 DEF Prime, Skip, Pull, SwapFocus, RecordPad, vars, stream
<1>4. CASE \E s \in Tracks : RecordBlock(s)
  BY <1>4 DEF RecordBlock, stream
<1> QED
  BY <1>1, <1>2, <1>3, <1>4 DEF Next, Pass

\* The shuttle keeps to the contract: over the loads of its two tracks and the stops
\* that end them it calls the one deck they share only as the service allows
\* (istreamdeck.h:68-74, shuttle_engine.cpp:63, 130).
THEOREM ShuttleKeepsToContract == Spec => Contract!Init /\ [][Contract!Next]_deck
<1>1. Init => Contract!Init
  BY DEF Init, Contract!Init, Contract!IdleDeck, IdleDeck
<1>2. IInv /\ [Next]_vars => [Contract!Next]_deck
  <2> SUFFICES ASSUME IInv, [Next]_vars, deck' # deck PROVE Contract!Next
    OBVIOUS
  <2>1. CASE Playing(deck) /\ deck' = RanOut(deck)
    BY <2>1 DEF Contract!Next, Contract!RunOut, Contract!Playing, Contract!RanOut, Playing, RanOut
  <2>2. CASE deck' = Halted(deck)
    <3>1. deck.mode # "idle"
      <4> SUFFICES ASSUME deck.mode = "idle" PROVE Halted(deck) = deck
        BY <2>2
      <4>1. deck \in Deck
        BY DEF IInv, Inv, TypeOK
      <4> QED
        BY <4>1 DEF Deck, Halted
    <3> QED
      BY <2>2, <3>1 DEF Contract!Next, Contract!Stop, Contract!Halted, Halted
  <2>3. CASE Free(deck) /\ deck' = Started(deck, "play")
    BY <2>3 DEF Contract!Next, Contract!Start, Contract!Free, Contract!Started, Free, Started
  <2> QED
    BY <2>1, <2>2, <2>3, DeckStep
<1> QED
  BY <1>1, <1>2, Invariant, PTL DEF Spec
=============================================================================

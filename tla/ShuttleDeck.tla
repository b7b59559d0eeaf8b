----------------------------- MODULE ShuttleDeck -----------------------------
(***************************************************************************)
(* One deck of the shuttle engine (src/engine/shuttle/shuttle_engine): two *)
(* tracks in RAM that record the input or are loaded from the card through *)
(* the deck's one stream, at boot and by the tape selector. The other deck *)
(* is a copy. Playback (the Play pad, the loop window, pan, FX) is left out. *)
(*                                                                         *)
(* The pass of the main loop is process(), pads, selector, prepare();      *)
(* prepare() looks at the tracks in turn, each in two steps, since the     *)
(* write head is read before play_consume() and stored after it. The audio *)
(* interrupt (RecordBlock) comes between any two steps.                    *)
(***************************************************************************)
EXTENDS DeckContract, Naturals

CONSTANTS Cap,      \* _cap: frames a track holds
          Chunk,    \* kLoadChunk: frames one pass moves
          Slots,    \* tape slots of the deck
          FileLen,  \* frames in the file of each slot that is on the card
          BootSlot  \* the slot the boot preload gives each track

Tracks == {0, 1}

ASSUME ShuttleAssumption ==
    /\ Cap \in Nat \ {0} /\ Chunk \in Nat \ {0}
    /\ DOMAIN FileLen \subseteq Slots /\ FileLen \in [DOMAIN FileLen -> Nat]
    /\ BootSlot \in [Tracks -> Slots]

VARIABLES
    deck,       \* the streaming deck
    open,       \* the slot of the file it plays
    supply,     \* frames of it the card will deliver: fewer if the file is cut
    pulled,     \* frames pulled out of the stream so far
    pc, at,     \* where the main loop is: its place, and prepare()'s track
    taken,      \* prepare(): target and frames got by the pull under way
    focus,      \* _active
    slot,       \* _tape_slot
    load,       \* _load
    wpos, len,  \* _wpos, _len
    recording,
    preload,    \* _preload_next: tracks below it have had their boot load
    clean       \* history: nothing has touched the load of a track

stream == <<deck, open, supply, pulled>>
place  == <<pc, at, taken>>
panel  == <<focus, slot>>
tape   == <<load, wpos, len, recording>>
vars   == <<stream, place, panel, tape, preload, clean>>

NoPull == [target |-> 0, got |-> 0]

Init ==
    /\ deck = IdleDeck /\ open \in Slots /\ open = BootSlot[0] /\ supply = 0 /\ pulled = 0
    /\ pc = "service" /\ at = 0 /\ taken = NoPull
    /\ focus = 0 /\ slot = [s \in Tracks |-> BootSlot[0]]
    /\ load = [s \in Tracks |-> "idle"]
    /\ wpos = [s \in Tracks |-> 0] /\ len = [s \in Tracks |-> 0]
    /\ recording = [s \in Tracks |-> FALSE]
    /\ preload = 0
    /\ clean = [s \in Tracks |-> TRUE]

LeastOf(S) == CHOOSE n \in S : \A m \in S : n <= m

-----------------------------------------------------------------------------
\* stream.process(): a player that has delivered everything is retired; its last
\* frames may still be in the ring, so this is not at once.
Service ==
    /\ pc = "service" /\ pc' = "pads"
    /\ \/ UNCHANGED deck
       \/ Playing(deck) /\ pulled = supply /\ deck' = RanOut(deck)
    /\ UNCHANGED <<open, supply, pulled, at, taken, panel, tape, preload, clean>>

\* mutant: a refused load is taken for a started one
RequestBlind(s, to) ==
    /\ IF Free(deck) /\ to \in DOMAIN FileLen
       THEN /\ deck' = Started(deck, "play")
            /\ open' = to /\ supply' \in 0..FileLen[to] /\ pulled' = 0
       ELSE UNCHANGED stream
    /\ load' = [load EXCEPT ![s] = "priming"]
    /\ wpos' = [wpos EXCEPT ![s] = 0] /\ len' = [len EXCEPT ![s] = 0]
    /\ recording' = [recording EXCEPT ![s] = FALSE]
    /\ clean' = [t \in Tracks |-> IF t = s THEN load[1 - s] = "idle"
                                  ELSE clean[t] /\ load[t] = "idle"]

\* _request_load(): the track is given up for the new file if the deck starts on
\* it, and left alone if the deck refuses.
Request(s, to) ==
    \/ /\ Free(deck) /\ to \in DOMAIN FileLen
       /\ deck' = Started(deck, "play")
       /\ open' = to /\ supply' \in 0..FileLen[to] /\ pulled' = 0
       /\ load' = [load EXCEPT ![s] = "priming"]
       /\ wpos' = [wpos EXCEPT ![s] = 0] /\ len' = [len EXCEPT ![s] = 0]
       /\ recording' = [recording EXCEPT ![s] = FALSE]
       /\ clean' = [t \in Tracks |-> IF t = s THEN load[1 - s] = "idle"
                                     ELSE clean[t] /\ load[t] = "idle"]
    \/ /\ ~(Free(deck) /\ to \in DOMAIN FileLen)
       /\ UNCHANGED <<stream, tape, clean>>

-----------------------------------------------------------------------------
(* Pads: they act on the focused track; debounced by kDebounceMs, so a press *)
(* more or less in one pass makes no difference here.                        *)

\* on_play_pad, its reverse flavour
SwapFocus ==
    /\ pc = "pads" /\ focus' = 1 - focus
    /\ UNCHANGED <<stream, place, slot, tape, preload, clean>>

\* on_record_pad: stopping keeps what the head has written, starting begins at
\* the first frame, whatever the track is doing.
RecordPad ==
    /\ pc = "pads"
    /\ recording' = [recording EXCEPT ![focus] = ~@]
    /\ IF recording[focus]
       THEN len' = [len EXCEPT ![focus] = wpos[focus]] /\ UNCHANGED <<wpos, clean>>
       ELSE /\ wpos' = [wpos EXCEPT ![focus] = 0] /\ len' = [len EXCEPT ![focus] = 0]
            /\ clean' = [clean EXCEPT ![focus] = load[focus] = "idle"]
    /\ UNCHANGED <<stream, place, panel, load, preload>>

\* set_param(Aux): the selector reaches another slot, and asks for its file.
Select ==
    /\ pc = "pads" /\ pc' = "prepare" /\ at' = 0
    /\ \E to \in Slots :
          /\ slot' = [slot EXCEPT ![focus] = to]
          /\ IF to = slot[focus] THEN UNCHANGED <<stream, tape, clean>>
                                 ELSE Request(focus, to)
    /\ UNCHANGED <<taken, focus, preload>>

-----------------------------------------------------------------------------
(* prepare(). *)

\* The boot preload: once the card is mounted, one track at a time, and only an
\* empty one.
Preload ==
    /\ pc = "prepare" /\ pc' = "track"
    /\ \/ /\ preload \in Tracks /\ \A s \in Tracks : load[s] = "idle"
          /\ preload' = preload + 1
          /\ IF len[preload] = 0 /\ BootSlot[preload] \in DOMAIN FileLen
             THEN /\ slot' = [slot EXCEPT ![preload] = BootSlot[preload]]
                  /\ Request(preload, BootSlot[preload])
             ELSE UNCHANGED <<stream, slot, tape, clean>>
       \/ UNCHANGED <<stream, slot, tape, preload, clean>>
    /\ UNCHANGED <<at, taken, focus>>

\* loop_frames(): the file's length, if the deck plays.
Target == IF Playing(deck) THEN FileLen[open] ELSE 0

\* What one pass wants; unsigned, so a target behind the head bounds nothing.
Want(s) ==
    LeastOf({Chunk, IF Cap > wpos[s] THEN Cap - wpos[s] ELSE 0}
            \cup (IF Target >= wpos[s] THEN {Target - wpos[s]} ELSE {}))

NextTrack == IF at = 0 THEN at' = 1 /\ pc' = "track" ELSE at' = 0 /\ pc' = "service"

\* A track without a load, or one whose stream has no length: given up once the
\* stream is over.
Prime ==
    /\ pc = "track" /\ load[at] = "priming" /\ Target = 0
    /\ load' = IF Playing(deck) THEN load ELSE [load EXCEPT ![at] = "idle"]
    /\ NextTrack
    /\ UNCHANGED <<stream, taken, panel, wpos, len, recording, preload, clean>>

Skip ==
    /\ pc = "track" /\ load[at] = "idle"
    /\ NextTrack
    /\ UNCHANGED <<stream, taken, panel, tape, preload, clean>>

\* play_consume() into the buffer behind the write head: what the ring holds.
Pull ==
    /\ pc = "track" /\ pc' = "pulled"
    /\ load[at] = "draining" \/ (load[at] = "priming" /\ Target > 0)
    /\ load' = [load EXCEPT ![at] = "draining"]
    /\ \E got \in 0..(IF Playing(deck) THEN LeastOf({Want(at), supply - pulled}) ELSE 0) :
          /\ pulled' = pulled + got
          /\ taken' = [target |-> Target, got |-> got]
    /\ UNCHANGED <<deck, open, supply, at, panel, wpos, len, recording, preload, clean>>

\* mutant: a load that fills the buffer waits for the rest of the file
StoreUnbounded ==
    /\ pc = "pulled"
    /\ wpos' = [wpos EXCEPT ![at] = @ + taken.got]
    /\ IF wpos'[at] >= taken.target
       THEN /\ len' = [len EXCEPT ![at] = wpos'[at]]
            /\ deck' = Halted(deck)
            /\ load' = [load EXCEPT ![at] = "idle"]
       ELSE UNCHANGED <<len, deck, load>>
    /\ taken' = NoPull
    /\ NextTrack
    /\ UNCHANGED <<open, supply, pulled, panel, recording, preload, clean>>

\* mutant: a finished load leaves its stream running
StoreRunsOn ==
    /\ pc = "pulled"
    /\ wpos' = [wpos EXCEPT ![at] = @ + taken.got]
    /\ IF wpos'[at] >= taken.target \/ wpos'[at] >= Cap
       THEN /\ len' = [len EXCEPT ![at] = wpos'[at]]
            /\ load' = [load EXCEPT ![at] = "idle"]
            /\ UNCHANGED deck
       ELSE UNCHANGED <<len, deck, load>>
    /\ taken' = NoPull
    /\ NextTrack
    /\ UNCHANGED <<open, supply, pulled, panel, recording, preload, clean>>

\* The head moves on; a load that has it all, or all that fits, is over, and
\* stops its stream.
Store ==
    /\ pc = "pulled"
    /\ wpos' = [wpos EXCEPT ![at] = @ + taken.got]
    /\ IF wpos'[at] >= taken.target \/ wpos'[at] >= Cap
       THEN /\ len' = [len EXCEPT ![at] = wpos'[at]]
            /\ deck' = Halted(deck)
            /\ load' = [load EXCEPT ![at] = "idle"]
       ELSE UNCHANGED <<len, deck, load>>
    /\ taken' = NoPull
    /\ NextTrack
    /\ UNCHANGED <<open, supply, pulled, panel, recording, preload, clean>>

-----------------------------------------------------------------------------
\* The audio interrupt captures the input on a track that records.
RecordBlock(s) ==
    /\ recording[s] /\ wpos[s] < Cap
    /\ wpos' = [wpos EXCEPT ![s] = @ + 1]
    /\ len' = [len EXCEPT ![s] = wpos'[s]]
    /\ UNCHANGED <<stream, place, panel, load, recording, preload, clean>>

Pass == Service \/ Select \/ Preload \/ Prime \/ Skip \/ Pull \/ Store

Next == Pass \/ SwapFocus \/ RecordPad \/ \E s \in Tracks : RecordBlock(s)

Spec == Init /\ [][Next]_vars

Retire   == Service /\ ~Playing(deck')  /\ Playing(deck)
PullSome == Pull /\ taken'.got > 0

\* The main loop goes round; a drained stream is retired in the end, and the ring
\* does not stay empty while the card has more.
FairSpec == Spec /\ WF_vars(Pass) /\ SF_vars(Retire) /\ SF_vars(PullSome)

-----------------------------------------------------------------------------
TypeOK ==
    /\ deck \in Deck /\ open \in Slots /\ supply \in Nat /\ pulled \in 0..supply
    /\ pc \in {"service", "pads", "prepare", "track", "pulled"} /\ at \in Tracks
    /\ taken.got \in 0..Chunk
    /\ focus \in Tracks /\ slot \in [Tracks -> Slots]
    /\ load \in [Tracks -> {"idle", "priming", "draining"}]
    /\ wpos \in [Tracks -> 0..(Cap + Chunk)] /\ len \in [Tracks -> 0..(Cap + Chunk)]
    /\ recording \in [Tracks -> BOOLEAN]
    /\ preload \in 0..2
    /\ clean \in [Tracks -> BOOLEAN]

\* The stream plays only for a load that still wants it: a stream left running
\* would refuse every later load of the deck (shuttle_engine.cpp:71-73, 130).
StreamHasLoad == Playing(deck) => \E s \in Tracks : load[s] # "idle"

\* A load that no recording and no other load has crossed keeps in step with its
\* stream, so it places each frame once, behind the one before, inside the buffer.
LoadInStep ==
    \A s \in Tracks :
        clean[s] /\ load[s] # "idle" =>
            /\ wpos[s] + (IF pc = "pulled" /\ at = s THEN taken.got ELSE 0) = pulled
            /\ pulled <= Cap /\ ~recording[s]

\* It ends with the whole file, as much of it as fits, or with what a card that
\* stopped delivering had given.
LoadsWhole ==
    [][\A s \in Tracks :
          clean[s] /\ load[s] = "draining" /\ load'[s] = "idle" =>
              len'[s] = IF Playing(deck) THEN LeastOf({FileLen[open], Cap}) ELSE supply]_vars

\* Once the selector is left alone every load comes to an end, whatever else is
\* pressed and however little the card delivers: no track stays silent and
\* reserved, and no deck busy.
LoadEnds ==
    <>[][slot' = slot]_vars =>
        \A s \in Tracks : load[s] # "idle" ~> load[s] = "idle"

\* The load of a track and the deck's one stream agree, over pads, records and
\* changes of the selector (shuttle_engine.cpp:102-150).
Inv == TypeOK /\ StreamHasLoad /\ LoadInStep
=============================================================================

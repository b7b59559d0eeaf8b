# TLA+ models of daisy-apps

TLA+ specifications of the control logic of daisy-apps, the TLC configurations
that check them on small instances, and TLAPS proofs of their main theorems.
Everything here is written from the C++ sources under `src/`; the comments of
the definitions name the lines they stand for, and `PROJECT.json` maps every
definition to its source.

## 1. The system

The firmware runs on one core. Two contexts share memory:

- the **audio interrupt** calls the engine once per block of samples. The engine
  reads and writes audio, and, through the stream service, byte rings;
- the **main loop** (`app/harness.cpp`) polls the panel, MIDI and gates, drives
  the musical clock, calls the engine's `prepare()`, pumps the SD card and draws.

The interrupt may come between any two instructions of the main loop and runs to
its end. The two communicate through `std::atomic` scalars and through
`SpscRing`; nothing is locked and nothing waits. What makes the system hard is
therefore not mutual exclusion but *protocol*: which side may touch what, in
which mode, and what a request that is served a pass later finds. The panel adds
a second kind of difficulty: few knobs stand for many parameters, and a knob's
position says nothing about the parameter it is given next. The card adds the
third: it is slow, fills up, fails, and loses power.

## 2. Inventory

One row per component. *State* is what the component keeps between calls.

### Streaming

| Component | State | Operations | Hard part | Correct when |
|---|---|---|---|---|
| `SpscRing` (`memory/spsc_ring.h`) | buffer, capacity, two free-running counters | `init`, `reset`, `write`, `read`, `readable`, `writable` | two contexts inside `write` and `read` at once; counters that wrap; sizes that are no power of two | a bounded FIFO: every byte once, in order, intact |
| `StreamDeck` (`hw/stream_deck.*`) with `PlayStream`, `RecordStream` (`memory/audio_stream.h`) | per deck: mode, seek generation, file, finalizing flag, reader or writer; ring; scratch | starts, `stop`, `seek_play`, `set_loop`, `process` (main loop); `play_consume`, `record_produce` (interrupt) | a seek or a restart under a running interrupt; end of file against frames still in the ring; a recorder that is stopped but not finished | what is heard is the live stream; nothing is retired early; a take is complete; the file is always closed |
| WAV writer and FatFs file (`memory/wav_stream.h`, `hw/fat_file.cpp`) | body size, header, offset | `begin`, `write`, `checkpoint`, `finalize` | power loss and failure between any two file operations | what is on the card is a playable prefix, never less than the last checkpoint |
| Readers (`memory/raw_stream.h`, `WavStreamReader`) | bytes remaining | `begin`, `read`, `rewind`, `seek` | foreign chunk lists; short reads | positions stay inside the data |

### Panel and clock

| Component | State | Operations | Hard part | Correct when |
|---|---|---|---|---|
| `HarnessTransport` (`app/harness_clock.h`) | tempo, pulse count, budget, accumulator, grid position | `on_external_clock_edge`, `poll`, `set_tempo`, `set_ext_ppq` | pulses that come early, late, too fast, too slow, or stop | the grid has no hole; each pulse owns its share; ticks never cease |
| `ParamUI` (`app/param_ui.h`) | page, deck, per knob: parameter, catch, last reading, reference | page turn, deck switch, `poll_knobs`, `suspend`/`resume`, re-seed | long sequences of re-targeting between two polls | nothing makes a value jump to a knob; no knob is dead |
| Action screen (`app/param_ui.h`, `app/engine_pads.h`) | list, cursor, timeout | click, turn, fire, idle close | rows built for a state that changes under the open list | a click does what the row said |
| Main loop (`app/harness.cpp`) | encoder hold, CV deadband, gate-out pulse, stream status | one pass | order of the calls within a pass | see the components |
| Displays, boards, terminal, diag | what they show | drawing, debouncing, formatting | none | not modelled |

### Engines

| Component | State | Operations | Hard part | Correct when |
|---|---|---|---|---|
| `tape` | two decks, loop mode, place in the loop and gain, `_want_stop` | play and record pads, ENV, `prepare`, `process` | a stop requested by the interrupt and served a pass later | the stop hits the stream it was meant for |
| `shuttle`, `softcut` | two tracks in RAM per deck, a load machine each (Idle, Priming, Draining), slots | record, select a slot, boot preload, `prepare` | one stream serves two tracks; recording into what is being loaded | a load ends, and is whole unless something crossed it; no write behind the tape's end |
| `radio`, `pstretch` | bank, station list, dial with hysteresis, reset flag | turn, bank, RESET, `prepare` | stations that do not open; a rescan in between; jitter | the station shown is the one heard; a panel left alone is served |
| `bard` | shelf and book of each deck, one table of positions, one file for it | play, shelf, book, jumps, `prepare`, save | two decks share the table; the card comes up late; power loss in the save | positions survive |
| `edrums` | per deck two drums: knobs, pattern, place; the grid's tick; the kit in flash | tick, knobs, focus, play, reset, save | edits between ticks; a save that waits for a pause | patterns stay in step with the grid, the kit gets to flash |
| `granular`, `graincloud` | recorders, grain schedulers | record, play, quantise | mostly sample arithmetic | not modelled |
| `csound`, `chuck` | the compiled patch | reload | a patch swapped under the interrupt | not modelled |
| effects, `mosc`, `reso`, DSP library | parameters, filters | process | floating point only | not modelled |

`PROJECT.json` lists every component, the ones that are not modelled with the
reason, and under `hazards` what is hard to test, each at its line.

## 3. The modules

    RingCounters ── SpscRing ── MCSpscRing             BoundedFifo
         │             └── (Fifo: refinement) ───────────┘
         └───────── StreamDeck ── MCStreamDeck         DeckService
                       └── (Service: refinement) ────────┤
                                                       DeckContract
                                                         │
           TapeEngine, ShuttleDeck, RadioDeck  ── MC... ─┘
    WavTake            ── MCWavTake
    HarnessTransport   ── MCHarnessTransport
    ParamPickup        ── MCParamPickup
    ActionScreen       ── MCActionScreen
    BardResume         ── MCBardResume
    CPattern ── Edrums ── MCEdrums

    proofs:  ModularArithmetic ─┬─ SpscRingProofs       (of SpscRing)
                                ├─ StreamDeckProofs     (of StreamDeck)
                                ├─ HarnessProofs        (of HarnessTransport, ParamPickup,
                                │                        ActionScreen)
                                └─ EngineProofs         (of TapeEngine, Edrums)
             CardProofs (of WavTake, BardResume), ShuttleDeckProofs, RadioDeckProofs

**RingCounters** has the arithmetic of `spsc_ring.h` as operators: counters
modulo `CounterModulus` (2^32 in the code), occupancy, masking, the two-part
`memcpy`, and `floor_pow2` as a recursive function.

**SpscRing** splits `write` and `read` into the loads of the counters
(`WriteBegin`, `ReadBegin`), one step per byte, and the publishing store
(`WriteEnd`, `ReadEnd`). Both sides interleave at every step, which is more than
the device allows and what the threads of `host/test_spsc_ring.cpp` do. A byte
is its position in the producer's stream, so loss, repetition and staleness show
in the value. `Reset` may happen whenever both sides are outside the ring, as
`PlayStream::start` and `RecordStream::start` arrange. A call that transfers
nothing changes nothing and is a stutter.

**BoundedFifo** is what the ring promises: put, get, flush on a bounded queue.
`SpscRing!ImplementsFifo` maps a write to its store of the head and a read to
its store of the tail.

**StreamDeck** is one deck at the grain of accesses to shared memory: `main` and
`isr` say where each context is. Control calls (`StartPlay`, `StartRecord`,
`Stop`, `SetLoop`, `SeekBegin` ...) begin in the main loop; starts and seeks go
through the two stores of the ring's reset (`Reset`) and the store that arms the
mode (`Arm`); `process()` is `PumpPlay` to `FinishPlay` and `PumpRecord` to
`Drained`; the interrupt is `ConsumeEnter` to `ConsumeRecheck` and `ProduceMode`
to `ProduceEnd`. With `IsrAtomic` the main loop takes no step while an interrupt
is active. A frame carries the stream (`epoch`) it belongs to. The second deck
is a copy: it shares only the scratch buffer, which the main loop uses for one
deck at a time.

**DeckContract** is a deck as an engine sees it: three fields and what each call
makes of them. **DeckService** turns it into a specification, with fairness for
what the service completes by itself. `StreamDeck!ImplementsService` shows, with
`SeenDeck` as the mapping, that the deck implements it: a start is granted only
to a deck that does nothing and owes no take, a stopped take is finished and a
parked seek resumed without another call. The engines' modules use the contract
in place of the deck, so they are two-level models of the same system: what they
assume of the deck is what StreamDeck is shown to do, and what it assumes of its
callers is what they are shown to do (`TapeKeepsToContract` and its fellows,
section 5).

**TapeEngine**, **ShuttleDeck** and **RadioDeck** are one deck of their engine
each, in the order of a pass of `app/harness.cpp`: `process()`, pads, knobs,
`prepare()`; `pc` says where the main loop is, and the interrupt (`Block`,
`RecordBlock`) comes between any two steps. `TapeEngine` splits `prepare()`
between the clearing of `_want_stop` and the stop itself; a loop's gain is the
number of passes it still sounds. `ShuttleDeck` splits `prepare()` between the
read of a track's write head and the store after `play_consume()`; frames carry
no content, a load is in step when as many were written as pulled. `RadioDeck`
has no interrupt (it renders only); the dial and the jack are one number, since
only their sum is read, and places are in eighths of a station's width.

**BardResume** is the main loop alone: a pass sees the panel, then `prepare()`
of deck A, of deck B and the save. A position is abstracted to the key it is
noted under and to how long the listener has gone on since the table and the
file held it (`tableLag`, `fileLag`, history); a write that drops a position the file
had puts it at `Lost`, beyond what a cut may cost. `Load` is the read at the head of
`prepare()`, which may fail on a card that is up; `Mount` comes at any step, between
the read and a scan too, and between the decks. (The harness here mounts once, before
its loop, `harness.cpp:207`; the engine is written for a card that comes up later,
`bard_engine.cpp:79-96`, and is modelled with one.) A write that fails (`Saves`)
leaves the old file or any prefix of the new one, since `write_text` closes the file
after a short write; one whose `f_close` fails leaves it empty, and nobody is told.
`PowerCut` may come at any step; a write that was under way may have emptied the file.
`missed` and `spoilt` are history: the last read tried failed, the last write failed.

**ActionScreen** has one action for what a pass makes of the encoder, and rows
that follow from what the engine of the build declares. `real` is the engine's
switches and `heldFx` the effect pads it takes for held, `cfg` and `fx` what the screen
remembers of them. A lock row latches an effect in the engine: what is heard is pad or
lock (`bard_engine.cpp:504-505`), but the list shows the pad's row by the pad alone, so
a lock changes nothing the screen speaks of (`FireOther`).
`MCActionScreen` states four builds from their headers. The builds that declare no
switches (chorus, filter, voice, gigaverb, csound, chuck) are left out: their list
has all six, and a click on one reaches nothing (`iengine.h:224`).

**CPattern** has `_build()` of `dsp/cpattern.cpp`, the Christoffel word, as a
recursive function, and `Even`, a definition of evenness that does not mention
how a word is built. **Edrums** runs two drums on it: every knob goes through
`_rebuild_slot()` or the call the code makes, a tick of the transport comes
between any two operations, and the flash is written after a pause. The kit is
the knobs, the focus and the route; a knob that is written marks it dirty whether its
setting changed or not, the route's switch only when it changed, as in the code.

**WavTake** follows a take to the card. `checkpoint()` and `finalize()` are one
step per file operation (`CheckSeek`, `CheckHeader`, `CheckReturn`, `CheckSync`,
`FinalSeek`, `FinalHeader`, `Close`), each of which may fail. FatFs is external
and modelled from its use: an operation that fails inside a read, write or seek
gives the file up (`FIL.err`), one that fails in `f_sync` does not. `disk` is
what the medium may hold; `Leaves` is the set of takes a loss of power would
leave *in this state*, so every state is a possible crash.

**HarnessTransport** measures in ages instead of time stamps, tempi as the
milliseconds of a quarter, and the accumulator in milliseconds times PPQN, so
that a sub-tick is due every `beat` of it without rounding. One action per entry
point; `on_external_clock_edge` splits into its outcomes `Acquire`, `Pulse` and
`OtherEdge`. `Wait` is a millisecond between two passes. `given` counts what is fanned
out for a pulse, tick by tick (history), and `ShareExact` compares it with the share
that pulse was given when the next one lands.

**ParamPickup** is the takeover of the knobs: `KnobPass` is one `poll_knobs()`
together with the re-seed request read behind it, the other actions what can
happen between two passes. `Kept` is what an engine keeps of a setting, since it may
quantise it: tape and bard read back the middle of a slot or a shelf
(`tape_engine.cpp:160`, `bard_engine.cpp:637-638`). `prev`, the readings of the last
poll, and `sides`, the sides of its parameter's value on which a waiting knob was
read, are history. The harness drives the transport,
the knobs and the action screen in the same pass and HarnessProofs extends the
three modules, so what they would all call `Init`, `Next`, `Spec`, `TypeOK` and
`vars` is `PickupInit` and so on here, and `ScreenInit` and so on in ActionScreen. In the same way TapeEngine, which EngineProofs extends together with
Edrums, has `TapeInit` and `tapeVars`.

`MC*` modules give the constants their small values and nothing else, except
that `MCStreamDeck` has one more specification (section 7) and that two
assumptions about pure functions, which TLC evaluates, stand in them:
`FloorPow2IsLargest` (`MCSpscRing`: `floor_pow2` returns the largest power of two
not above its argument, for 0 to 64) and `EvenlySpread` (`MCEdrums`: the words
`_build()` makes are even at each length up to 16, which is all the firmware's
patterns have, and each density). Section 5 has both as theorems, for every
argument.

## 4. The runs

Where a module has an invariant `Inv`, it is the conjunction of its `TypeOK` and
the parts named in the table.

| Run | Instance | States | What it shows |
|---|---|---|---|
| `spsc_ring` | counters modulo 8, sizes 0..5, 9 bytes, chunks up to 3 | 53,126 | occupancy exact through wrap-around, no write over an unread byte, reads in order, refinement of the FIFO, every byte is eventually read |
| `stream_deck` | ring of 2, files of 0 or 2 frames, 2 streams | 366,820 | only the live stream is heard, in order; `Inv`: retired after the last frame (`RetiredAfterLastFrame`), the handle open exactly while needed (`HandleDiscipline`); a take is complete; playing ends; refinement of `DeckService` |
| `wav_take` | ring of 3, transfers of 2, checkpoint every 2, take of 6, card with 0, 2 or 8 frames of room | 89,547 | `Inv`: whenever power is lost the file reads as this take in order (`Recoverable`), and is complete in the end (`TakeComplete`); never shorter than a checkpoint before; at most an interval behind while the card is sound; finalizing ends on any card |
| `harness_transport` | 4 sub-ticks, 1, 2 or 4 pulses, tempi 3..9, timeout 5, a pass every 0..2 ms | 284,590 | each pulse's share is fanned out when the next lands, the grid has no hole or repetition, ticks resume when the clock stops |
| `harness_transport_stall` | the same | – | *violation*, see section 7 |
| `param_pickup` | one knob, two decks, two pages of one parameter and the engine's page, scale 0..3, one parameter quantised to halves, Aux, engine switches, re-seeds; symmetric decks | 1,441,792 | nothing makes a parameter jump to the knob; a knob read on both sides of its value is in catch; `Inv`: a caught knob measures from the engine's value (`ReferenceIsValue`), slots match the page (`SlotsMatchPage`) |
| `tape` | a file of 4 frames, a fade of 3 passes | 11,612 | the interrupt's stop ends neither a take nor a loop that sounds; a fading loop frees its deck |
| `shuttle` | tracks of 2 frames, one frame a pass, a file of 3 that the card may cut anywhere and an empty one | 913,310 | `Inv`: the stream plays only for a load (`StreamHasLoad`), an uncrossed load is in step with it and inside the buffer (`LoadInStep`); it ends whole; every load ends |
| `radio` | banks of 3 and of 1 station, a dial of 9 places, settling in one tick | 196,596 | the station shown is the one that sounds; a jittering dial changes nothing; a panel left alone is tuned in, and a reset is served |
| `bard` | shelves of two books and of one, of the same name as one of them; a table of 3, a checkpoint every 2 ticks; mounts, failed reads and short writes anywhere | 3,778,508 | `ResumeInv`: a cut between two writes costs at most a checkpoint (`CutCostsACheckpoint`); no book leaves the file but for want of room, in a write that failed, or after a read that failed |
| `action_screen` | four builds (reso, reverb, bard, mosc), two clock choices, idle after one tick | 663,651 | `ScreenInv`: what the list shows of a switch is where the engine is (`ShownIsReal`); a first visit changes nothing; a gesture is no click; an open list closes |
| `edrums` | patterns of up to 4 steps, knobs of 5 places, up to 4 ticks between two resets of the grid, two routes | 143,778 | `Inv`: patterns are the ones the knobs ask for (`PatternCurrent`); drums are in phase with the bar; unsaved edits are known to be; the kit gets to flash |

`TypeOK` of SpscRing, HarnessTransport and TapeEngine is not in a run: it is
proved. RadioDeck's is stated for the reader, and what of it the proofs need is
proved (`Types`).

Every property of a passing run has a mutant in `PROJECT.json`: a plausible bug
in one mapped definition, written next to it, that TLC finds to violate it.

### Bounds, and why they are enough

- *Ring*: capacities 0, 1, 2 and 4 with counters modulo 8 wrap the counters and
  the index several times within nine bytes; sizes 3 and 5 are rounded. The
  algorithm depends on the counters only through differences, so larger
  capacities add no new order of steps; the proofs cover them all.
- *Deck*: two frames in the ring with transfers of two and blocks of one make
  the ring full, empty, partly drained and wrapped within a file; `MaxEpoch = 2`
  puts a second stream behind a first by restart or seek, which is what leaking
  frames takes; a third would only repeat this. `Names` is larger than the ring
  and the scratch together, so two live frames never have one name.
- *Take*: six frames are three transfers and three checkpoints, one of which can
  be cut short between two good ones; a ring of three overflows.
- *Transport*: the shortest quarter is below the timeout and the longest above
  it, so a pulse can be too fast, too slow but no timeout, or a new take, as in
  the code (240 ms and 3000 ms against 1000 ms). `MaxLag` lets a pass come late
  by more than one sub-tick. The grid itself is proved for every size.
- *Knobs*: with four places a value can be at an end, where the window is wide,
  or inside, where it is not, and a knob can be at it, pass over it or miss it, and a
  half of the scale has two places of which the engine reads back one. The decks are
  symmetric: no action tells one from the other.
  Every property is about one slot; two pages, two decks and the engine's page
  are what a slot can be pointed at. What a second knob adds, a parameter that the
  selector moves behind its back, is in the theorems, which have no bound on the
  knobs.
- *Tape*: a fade of three passes over a loop of four frames spans several loops
  and passes of the main loop. The proofs cover every length and fade.
- *Shuttle*: a buffer of two is full before a file of three has ended, ends with
  it when the card cuts it to two, and outlasts it when cut to less. The proofs
  cover every size.
- *Radio*: four places of the dial to a station, more than the hysteresis; a bank
  of one station has no edges at all. Larger banks are covered by the proofs.
- *Bard*: a deck whose shelf is turned notes its book under the new shelf, so
  that three books make four keys, and four keys for a table of three push each
  other out. One name on two shelves is what a wrong key would confuse. Both decks
  can read the same book. Three is the least depth for which the properties hold
  (`Depth >= 3` in `BardResumeAssumption`; the code has 64): in a table of two, the
  open book of a deck that waits is pushed out when the other deck leaves one book
  for another, since both are noted in front of it.
- *Action screen*: a build that reports its switches, one with switches only, one
  that reports none, and one that tells fewer positions apart than the platform.
- *Edrums*: of the first drum every knob moves, with the combinations in
  `MCSettings`; the second stays at its factory setting, at half the pace, and is
  what an edit of the first must not disturb. Four ticks are a
  whole pattern and the wrap of it; the proof of `InPhase` has no bound.

### Fairness

- `spsc_ring`: a transfer that was begun ends, and the consumer comes back while
  there is something to read: the interrupt is periodic and the main loop calls
  the pump in every pass.
- `stream_deck`: weak fairness of the interrupt. Strong fairness of the pump,
  because an interrupt disables the main loop each time it is active, and
  returns before the next is due. Strong fairness of a read that brings
  something: a card that answers every read with nothing forever is excluded.
  Without that last assumption a raw stream with bytes remaining plays silence
  forever, which is what the code does (`memory/raw_stream.h:80`).
- `harness_transport`: weak fairness of `Poll` (every pass) and of `Wait` (time).
- `wav_take`: weak fairness of the pump; it holds whatever the card answers.
- `tape`: weak fairness of the pass and of the block, which both never cease.
- `shuttle`: weak fairness of the pass; strong fairness of the service retiring a
  stream that has run out, and of a pull that brings something while the card
  has more. Each pass may find the ring empty, but not every one: this is what
  `stream_deck` shows as `PlayEnds`, under the fairness of its reads.
- `radio`: weak fairness of the pass, strong of the clock at its head, and strong
  of `Opened` and `Restarted`: a station that is tried again in every pass opens
  in the end. One that never opens keeps the deck silent, and is tried for ever.
- `edrums`: weak fairness of time and of the save.
- `action_screen`: weak fairness of the pass and of time.
- `bard`: none; its properties are safety.

`CHECK_DEADLOCK FALSE` is said where the model really may stop: the ring when
the producer has offered its last byte, the take when it is closed.

## 5. The proofs

**ModularArithmetic** has lemmas about remainders and quotients the provers do
not find by themselves: uniqueness of the remainder, counting on from a
remainder, distinctness of nearby cells, equal parts of a whole. It also has
induction in the form the provers take, over a set of numbers instead of an
operator (`LeastExists`, `AllNaturals`): with it what the recursive functions of
`floor_pow2` and `_build()` return is proved for every input.

**SpscRingProofs** proves, for every modulus, every set of sizes whose rounded
capacities divide it (`RingAssumption`), and every interleaving:

- `TypeCorrect`, `Occupancy` (`OccupancyExact`), `NoOverwrite` (`UnreadIntact`),
  `InOrder` (`ReadsInOrder`);
- `Refinement`: `Spec => Fifo!Spec`.

The inductive invariant `IInv` adds to these what the code relies on without
saying it: the counters are the published and consumed totals modulo 2^32
(`CountersCount`), a transfer in progress stays within the room there was when
it began, although the other side has moved on (`TransfersFit`), and what a
write has copied lies right behind the published bytes (`CopiedInPlace`).
Without `TransfersFit`, `UnreadIntact` is not preserved by a byte copy. The key
arithmetic step is that two positions less than a capacity apart have different
cells.

`RingAssumption` is not taken for granted either. `FloorPow2Largest` says that the
loop of `floor_pow2` returns the largest power of two not above its argument: it
stops at a number it has only ever doubled (`LoopStops`), and between two powers of
two next to each other there is none (`DoublesApart`). `CapacitiesDivide` says
that, the counters' modulus being a power of two as 2^32 is, every capacity this
rounding makes of a smaller size divides it.

**StreamDeckProofs** proves, for every size of the ring, the transfers and the
blocks and for every file (`DeckAssumption`), on the device, that is under the
hypothesis `IsrAtomic`:

- `DeckInStep` (`Inv`), `ListenerHearsTheStream` (`HeardInOrder`), `TakesAreWhole`
  (`TakeComplete`);
- `KeepsContract`: the deck starts as an idle deck of DeckService and takes only
  its steps, which is the safety half of `ImplementsService`.

The hypothesis is what the device does and is needed: without it `HeardInOrder`
is false (section 7). The inductive invariant has three parts. `Steady` is about
control: where the main loop may be in which mode, the generation odd exactly
inside a seek (`MainInMode`); the file open exactly for a stream, a take that is
owed or a call under way (`FileInUse`); an interrupt past its first test finds
mode and generation as they were there (`IsrInMode`); and a stream begins with an
empty ring (`BeginsEmpty`). `PlayRun` is about contents: what is heard, the block
in the interrupt's hands, the ring and the transfer under way are one run of
frames of the live stream, end to end. `TakeRun` is the same for a take: what the
file took, the transfer, the ring and the block. `HeardInOrder` and `TakeComplete`
are the two ends of these runs. That a byte copied into the ring does not touch
the run is `DifferenceMeasures` and `CellsDistinct` of ModularArithmetic, as in
SpscRing.

**HarnessProofs** has three parts. For the transport, for every grid, every set of
rates that divide it, every range of tempi and every timing of edges and passes
(`ClockAssumption`):

- `TypeCorrect`; `PulsesOwnTheirShare` (`ShareExact`): by the invariant
  `ShareCounted`, what was fanned out and what is left are the share, so that the
  flush of the remainder by the next pulse makes it whole;
- `GridGoesOn` (`GridContinuous`): each tick follows the one before it or carries
  the reset flag, unless the count of pulses was restarted under way.

`IInv` is `TypeOK`, `ShareCounted`, `Chained` (the grid stands behind the tick fanned
out last) and `Aligned` (what is left of the share of a pulse leads exactly to the position of
the next). `Aligned` is what makes the flush of an early pulse meet the position
that pulse is set to: it needs that the rate divides the grid, because the pulse
count is reduced modulo the rate and the position modulo the grid. It is false
after `set_ext_ppq` or a gap that restarts the count, which is the exception in
`GridContinuous`.

For the knobs, for every number of knobs, parameters and decks, every scale and
every window (`PickupAssumption`), and every engine that keeps what it read back
(`KeptAssumption`: to set a parameter to what it reads changes nothing): `SlotsAgree`
(`Inv`), `NothingJumps` (`NoJump`) and `SweepsCatch` (`SweepCatches`). `PickupInv`
adds to `Inv` that the knobs have
the parameters of one page, so that no two have the same (`OfOnePage`: without it
a write through one knob would move the value under another), that the knobs have
a reading exactly when there was a poll (`PrimedByPoll`), and that the last poll
left a caught knob within the deadband of its reference (`LeftAtReference`), which
is where the next move sets out and what bounds a write in `NoJump`, and that a
waiting knob's last reading lies on the one side it was seen on (`OneSide`, `Search`):
a reading on the other side would have crossed the value, and a crossing catches.

For the action screen, for every set of builds, every number of clock choices and
every timeout (`ActionScreenAssumption`: an engine that tells fewer positions of a
switch apart than the list offers, as mosc does of Mode, reports that switch):
`ScreenTellsTheTruth` (`ScreenInv`), `GesturesAreNoClicks` (`GestureIsNoClick`) and
`FirstVisitsAreHarmless` (`FirstVisitHarmless`). `ScreenIInv` adds that a position
last sent is where an engine that reports nothing is, and that one that reports has
a position from then on (`Remembered`); that both decks are on one Route
(`RouteIsGlobal`), without which a first visit might write a Route that the deck in
focus does not have and the other has; and that what changed the selector turned
(`WroteTurned`). The first visit needs that its cursor stays on a row a click may be
spent on (`VirginHarmless`), and one hypothesis on the builds: that one which
reports a switch of its list reports them all (`Tells`). Granular and graincloud do
not, and the theorem is false of them (section 7). That the cursor is in the list at
all follows from `RowsFacts`, which holds of every list `build_actions()` can make.

**EngineProofs** has three parts: the tape, the drums, and the words of the drums. For the tape, for every length of loop and every fade
(`TapeAssumption`): `TapeTypeCorrect`; `TakesSurvive` (`TakeSurvives`);
`SoundingLoopsSurvive` (`StoppedOnlyFaded`). The two action properties speak of
the step that serves a request; the invariant follows the request from the block
that makes it (`Asked`): meanwhile nothing records but a stream started in this
pass (`NoTakeAsked`), and a stream that plays stays faded out, because its gain
is restored only by priming, which a playing deck does once (`AskedOfSilence`).

`TapeKeepsToContract`, and in the modules below `ShuttleKeepsToContract` and
`RadioKeepsToContract`, are the other half of StreamDeck's `KeepsContract`: the
engine's deck, seen alone, behaves as DeckService lets it, so the states the
service has to answer for are those its own specification has. The radio stops and
starts its deck in one step of the model; that this is one step of the contract, or
none, needs that its deck owes no take and is never parked (`OnlyPlays`).

For the drums, for every size of the patterns, every grain of the knobs and any
bound on the ticks (`SizeAssumption`, `EdrumsAssumption`): `DrumsInPhase`
(`InPhase`), `NothingUnsaved` (`UnsavedIsDirty`) and `PatternsFollowKnobs` (`Inv`).
`InPhase` relates a drum's place to the number of ticks it took, a quotient; the
lemmas `Taken*` say how it grows with a tick for the divisions 1, 2 and 4, and
`WrapIsRemainder` that the code's wrap is the remainder of the count. For `Inv`
every call of `CPattern` is shown to keep a pattern well-formed and to give the
one the knobs ask for, from whatever pattern it is made on: length within the
grid, onsets, rotation and place within the length, the word that of the length
and the density (`Built`, `Fits`).

What those words are is proved for every length and density, beyond the 16 steps
TLC enumerates. The number of onsets in the first `i` of `n` steps is `k * i / n`
rounded up (`Due`); the two sums of `_build()`'s race are a function of it (`RunIs`,
`SumsStep`), so they meet one step before the last if not sooner
(`BuildStaysInside`: the loop writes no step outside the pattern), and the cell that
is repeated from there on is a period of `Due` (`DuePeriod`, `BuildHits`). Then the number of onsets in any
window is a difference of two values of `Due` (`OnsetsAre`), which varies by one at
most: `EvenlyBuilt`. With `Inv` it follows that the sequencer never plays another
than an even pattern (`DrumsEven`).

**CardProofs** proves, for every size of the ring, the transfers and the checkpoint
interval, every length of a take and every card, whatever fails (`TakeAssumption`):
`TakeRecoverable` (`Inv`), `LossIsBounded` (`LossWhileSound`) and
`CheckpointsAreKept` (`KeepsCheckpoint`). The invariant follows the frames and the
headers. The file holds the frames the writer counts, before those in the ring, in
order (`AtEnd`, `Ordered`), and all of them while nothing was dropped
(`NoneDropped`). The header written last is one of those the medium may have, and
is the writer's count when it is synced (`Headers`); while the card is sound each
of them gives at least what was last synced (`SyncedGiven`), so that it does not
matter which of them a power cut leaves.

For the resume file, for every library, every checkpoint and every depth of the
table from three on (`BardResumeAssumption`): `PositionsSurvive` (`ResumeInv`) and
`BooksAreKept` (`NothingForgotten`), with the card coming up at any step, reads that
fail and writes cut short. That a lag is bounded (`Behind`: the table's
by a tick, the file's by the time since it was written and a tick) is kept by a
save only if every open book is in the table that is written. That is `Covered`,
the hard part: a book is `Fresh`, opened in this pass and noted at its end, or
`Shared` with deck A, or `Near` the front of the table, so near that what the
other deck may still note before the next save of its own cannot push it out;
`SetFacts` says how far `ResumeTable::set()` moves an entry. `FileInTable` says
that what the file has the table has, or the table is full, once the file has been read,
but for a session whose read failed (`missed`) or that has given up writing, and
`Scanning` that no book is open before the file has been read or taken for absent.

**ShuttleDeckProofs** proves, for every size of buffer, chunk and file
(`ShuttleAssumption`): `LoadsKeepStep` (`Inv`) and `LoadsAreWhole`
(`LoadsWhole`). `Inv` is not inductive: the invariant adds that an untouched load
is alone on the stream (`OneLoad`), that the stream is of a file on the card
(`PlaysFile`), that between its halves `prepare()` finds the write head as it
read it (`PullStands`: the interrupt moves the head of a recording track only),
and that the service retires only a drained stream under a load
(`RetiredEmpty`, the theorem's link to `Finished` of the contract).

**RadioDeckProofs** proves, for every number of banks and stations, every dial
and settling time (`RadioAssumption`): `ShownSounds` (`ShownStationPlays`) and
`JitterTunesNothing` (`NoChatter`). The invariant adds that a list that is not
the selected bank's is scanned again before it is used (`ListOfBank`), that the
open station is in the list (`OpenOfList`), and that it was the nearest one when
it was tuned to (`NearestWhenTuned`), from which the hysteresis follows by the
triangle inequality: it needs the dial at that moment, which is why `dialAt` is
kept.

Every safety property and action property of a passing run is a theorem. Liveness
and everything else that needs ENABLED is only model-checked: `EventuallyRead`,
`PlayEnds`, `FinalizeEnds`, `TicksAfterClockStops`, `FadeEnds`, `LoadEnds`, `Tunes`,
`ResetPlays`, `HandsBack`, `KitKept`, and the fairness half of `ImplementsService`.

## 6. What the models leave out

- 2^32 wrap of the millisecond clock and the stamp 0 that stands for "none"
  (`harness_clock.h:119`): ages are used instead. The pulse count is modulo PPQN
  instead of 2^32; for rates that do not divide 2^32 the code slips once in 2^32
  pulses.
- Sample formats, cue chunks, the chunk walk of `WavStreamReader::begin`, and
  the text files of the deck but for the one BardResume saves.
- Rounding of floating point (tempo, accumulator, knob values): beats are whole
  milliseconds and knob values steps.
- Underrun and overrun counters, drawing, names, and in the engines what
  `PROJECT.json` notes at each component: sound, pan, mix, varispeed, file names.
- The second deck of tape, shuttle, radio and edrums, which is a copy and shares
  with the first the pass of the main loop only. In bard and in the action
  screen the decks share state, and both are there.

### Not modelled

Most of the lines under `src/` are vendored (`plaits`, `rings`, `grainflow`,
`softcut`, `stmlib`), generated (gen~ and Faust kernels, wavetables, speech
words) or signal processing in floating point: parameters in, samples out, with
no state that two contexts or two steps could bring into disorder, and out of a
model checker's reach. Of what is the program's own:

- `granular`: a recorder with control state worth a module; most of the engine
  is grain scheduling on sample positions. It is first in the plan.
- `graincloud`: the surface of granular over a vendored library.
- `csound`, `chuck`: the hosts. What a reload leaves of a running virtual machine
  is decided outside this repository.
- `softcut`: the load machine is shuttle's; the voices are vendored.
- `pstretch`: clip selection like radio's over the same contract.
- `pod/`, `display_adapter`, `diag`, boards, terminal, SD card: straight-line
  programs around the library, without a protocol.

## 7. Findings

A run that expects a violation, the code against a sentence of the repository:

- `harness_transport_stall`: an edge whose tempo is rejected still refreshes
  `_last_edge_ms`, so a clock that leaves 20 to 250 BPM without a gap of a second
  keeps the transport locked, and silent once the budget is used up.

Seen while modelling, without a run. Clock and knobs:

- `set_ext_ppq` under a running clock, or an edge exactly at the timeout,
  restarts the pulse count; the next pulse moves the grid without the reset flag
  (`harness_clock.h:101` against `itransport.h:24`). `GridContinuous` excuses it.
- A slot without a parameter does not take its knob's reading, so a knob moved on
  a partly filled page seems to cross its value when the page is turned back, and
  the parameter jumps (`param_ui.h:151`).
- The knobs are polled before the engine's re-seed request is read; a caught knob
  that moves in that pass writes the new target (`harness.cpp:430` against
  `iengine.h:65-66`). `NoJump` excuses that pass.
- A deck or engine switch on the engine's page seeds the knobs with a page behind
  the last parameter, and they are dead until the page is turned
  (`param_ui.h:129` against 122-125).
- Hold-and-turn writes the selector from knob 1 and lends that knob only. On the
  engines whose selector is on another slot of a page too (bard, edrums, glitch,
  mosc, radio, reso, shuttle, softcut, tape), that slot's knob may be in catch; it
  keeps the old reference, and its next small move takes the selector back to where
  the knob is (`harness.cpp:360`, 370-374). With two knobs `NoJump` and
  `ReferenceIsValue` are false for it, and `Behind` leaves it out of both. The run
  has one knob; the proof for any number came upon it.

Streaming:

- The pump takes a checkpoint whose sync failed for done; power loss then costs
  up to two intervals (`stream_deck.cpp:262` against `stream_deck.h:88-89`).
- Were the contexts real threads (`IsrAtomic = FALSE`, specification `SeekSpec`
  of `MCStreamDeck`), the tail store of a consume that straddles a seek could
  land after the ring's reset, and `HeardInOrder` fails although the generation
  discards the block. On the device the interrupt runs to its end, so it cannot.
- `raw_stream.h:80`: see the fairness of `stream_deck`.

Engines:

- tape: `_src_pos` counts only in two of the modes, so after a change of ENV the
  seam's envelope is misaligned (`tape_engine.cpp:388-396`). A request that is set
  between its clearing and the stop, or left by a stream that a failing card
  retired, stops a stream started in that same pass: the exception `young`.
- shuttle: a refused load leaves the slot changed (`shuttle_engine.cpp:275`); a
  recording during a drain mixes with the file's frames, and can push the
  length past the buffer by up to a block; it can push the write head past the
  target, whose difference is unsigned and then no bound (121): the chunk and the
  room left still are; two tracks can drain one stream. The
  properties speak of loads that none of this crossed (`clean`).
- radio: a new bank that is empty leaves the old station playing
  (`radio_engine.cpp:54` against `radio_engine.h:50-52`); a deck whose station
  died is silent until RESET; the 64-bit clock, which is not modelled, is read by
  the main loop while the interrupt advances it (`radio_engine.cpp:93`, 275).
- bard: a save between a turn of the shelf knob and the rescan notes the position
  under a book of the new shelf (`bard_engine.cpp:907-918`); power lost while the
  file is rewritten can leave it empty (168; `resume_table.h:59-61`); one write
  that fails is the session's last, and leaves as much of the table as the card took,
  since a short write still closes the file; the result of `f_close()` is not looked at
  (`fat_file.cpp:38-40`). "A successful scan proves the card is mounted, so a
  still-missing ... resume.txt is simply absent" (93-95) does not hold when the card
  comes up between the read and the scan of one pass, or when the read alone failed:
  the table that was never read is then written over the file. `NothingForgotten`
  excuses that session (`missed`). In the other direction the code means what it does:
  while both decks are in one book deck B's position is not noted (172-174), so that
  when deck A leaves the book deck B's is as old as deck A's; its lag is taken from there.
- action screen: the first visit of granular and graincloud lands on a switch they do
  not report, and the two clicks change it (`granular_engine.cpp:147-149`,
  `param_ui.h:656-660`), so neither is in `MCEngines`; mosc has two positions of Mode where the
  screen counts three, so a click on Drone asks for a third, gets Drone again, and
  never comes back to Gate (`mosc_engine.cpp:230-250`, `param_ui.h:509-512`,
  `iengine.h:95-97`).
- edrums: `set_length` keeps a rotation in steps that the ENV knob asks for in
  proportion, so a kit that is loaded again may sound rotated differently
  (`cpattern.cpp:22`); a knob that never rests defers the save for ever; power
  lost between erase and write of the flash costs the kit.

## 8. Plan

What remains, in order of importance:

1. **The recorder of granular**: recording, quantised start and end, overdub.
2. **Edrums on HarnessTransport**: the two modules composed through the tick
   record, so that `InPhase` speaks of the clock's grid.
3. **WavChunks**: the chunk walk of the reader as an operator checked against a
   reference over bounded chunk lists; the second half of a take's life.
4. The reload of `csound` and `chuck`, as far as the hosts decide it.
5. The jumps and segments of bard, over StreamDeck's contract with seeks.

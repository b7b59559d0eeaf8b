----------------------------- MODULE StreamDeck -----------------------------
(***************************************************************************)
(* One deck of the SD streaming service: StreamDeck (src/hw/stream_deck)   *)
(* with the PlayStream and RecordStream pumps (src/memory/audio_stream.h), *)
(* the file readers behind them and the ring between the main loop and the *)
(* audio interrupt. The second deck is a copy: the two share only the      *)
(* scratch buffer, which one thread, the main loop, uses for one deck at a *)
(* time.                                                                   *)
(*                                                                         *)
(* A step is one access to memory the other context sees. With IsrAtomic   *)
(* the model is the device: an interrupt finds the main loop between any   *)
(* two accesses, and runs to its end before the main loop goes on. Without *)
(* it the two contexts are threads.                                        *)
(*                                                                         *)
(* The unit of data is a frame. A frame is named by the stream (epoch) it  *)
(* belongs to and its place in it, so that audio of an earlier stream, or  *)
(* out of order, is visible in the values the interrupt hears.             *)
(***************************************************************************)
EXTENDS RingCounters, Sequences

CONSTANTS Cap,        \* frames the ring holds
          Scratch,    \* frames one SD transfer moves
          Block,      \* frames one audio interrupt asks for or brings
          Lengths,    \* body lengths of the files on the card
          MaxEpoch,   \* bound: streams started, and seeks tried
          MaxTake,    \* bound: frames recorded in one take
          Names,      \* names for frames: the n-th of a stream is n modulo Names
          IsrAtomic   \* the interrupt runs to its end

ASSUME DeckAssumption ==
    /\ Cap \in Nat \ {0} /\ Scratch \in Nat \ {0} /\ Block \in Nat \ {0}
    /\ CounterModulus \in Nat /\ Cap < CounterModulus /\ Divides(Cap, CounterModulus)
    /\ Lengths \subseteq Nat
    /\ MaxEpoch \in Nat /\ MaxTake \in Nat
    /\ Names \in Nat /\ Names > Cap + Scratch /\ Names > MaxTake
    /\ IsrAtomic \in BOOLEAN

VARIABLES
    \* shared by the main loop and the interrupt
    mode,        \* Deck::mode
    gen,         \* Deck::gen
    head, tail,  \* the ring's counters
    buf,         \* the ring's cells
    eof,         \* PlayStream::_eof
    \* main loop only
    main,        \* where the main loop is
    finalizing,  \* Deck::finalizing
    file,        \* the deck's FatFile: open or not
    rawSrc,      \* Deck::raw_src: the source is the raw reader
    loop,        \* PlayStream::_loop
    len,         \* body length of the file that is played
    remaining,   \* the reader's _remaining
    rewinds,     \* rewinds of this pump() without a byte in between
    chunk,       \* scratch: frames read and not yet in the ring
    stopping,    \* RecordStream::_stopping
    take,        \* frames in the file that is recorded
    \* the audio interrupt
    isr,         \* where the interrupt is
    gen0,        \* play_consume(): gen at its entry
    tail0,       \* SpscRing::read(): the tail it loaded
    blk,         \* the caller's buffer: frames copied out
    \* history
    epoch,       \* the stream the ring was reset for last
    fed,         \* the next frame the source delivers, modulo Names
    heard,       \* the next frame the listener should hear, modulo Names
    accepted     \* frames record_produce() has taken in this take

shared == <<mode, gen, head, tail, buf, eof>>
ring   == <<head, tail, buf>>
source == <<file, rawSrc, loop, len, remaining>>
pump   == <<rewinds, chunk>>
record == <<finalizing, stopping, take>>
isrv   == <<isr, gen0, tail0, blk>>
hist   == <<epoch, fed, heard, accepted>>
vars   == <<shared, main, source, pump, record, isrv, hist>>

Nothing == [epoch |-> 0, pos |-> 0]

Frame(p) == [epoch |-> epoch, pos |-> p % Names]

\* The ring's cells after frames are copied in at the head.
Filled(frames) ==
    [c \in 0..Cap-1 |->
        LET i == Minus(c, Masked(head, Cap)) % Cap
        IN  IF i < Len(frames) THEN frames[i + 1] ELSE buf[c]]

\* The first n frames in the ring.
Copied(n) == [i \in 1..n |-> buf[Offset(tail, i - 1, Cap)]]

Init ==
    /\ mode = "idle" /\ gen = 0
    /\ head = 0 /\ tail = 0 /\ buf = [i \in 0..Cap-1 |-> Nothing] /\ eof = FALSE
    /\ main = "idle" /\ finalizing = FALSE /\ file = "closed"
    /\ rawSrc = FALSE /\ loop = FALSE /\ len = 0 /\ remaining = 0
    /\ rewinds = 0 /\ chunk = <<>>
    /\ stopping = FALSE /\ take = <<>>
    /\ isr = "idle" /\ gen0 = 0 /\ tail0 = 0 /\ blk = <<>>
    /\ epoch = 0 /\ fed = 0 /\ heard = 0 /\ accepted = 0

\* On the device the main loop makes a step only when no interrupt is active.
MainRuns == IsrAtomic => isr = "idle"

MainAt(pc) == MainRuns /\ main = pc

\* Places of the main loop inside the operation op.
ResetHead(op) == CASE op = "play" -> "reset_play" [] op = "record" -> "reset_record"
                   [] op = "seek" -> "reset_seek"
ResetTail(op) == CASE op = "play" -> "tail_play" [] op = "record" -> "tail_record"
                   [] op = "seek" -> "tail_seek"
ArmFor(op)    == CASE op = "play" -> "arm_play" [] op = "record" -> "arm_record"
                   [] op = "seek" -> "arm_seek"

-----------------------------------------------------------------------------
(* Control operations, called by the engine from the main loop. *)

\* mutant: a start does not wait for the take to be finished
StartPlayBusy ==
    /\ MainAt("idle") /\ mode = "idle"
    /\ epoch < MaxEpoch
    /\ \/ /\ rawSrc' = FALSE /\ loop' = loop
          /\ len' \in Lengths /\ remaining' = len'
       \/ /\ rawSrc' = TRUE /\ loop' \in BOOLEAN
          /\ len' \in Lengths \ {0}               \* an empty raw file is refused
          /\ remaining' \in 0..len'
    /\ file' = "open"
    /\ eof' = FALSE
    /\ epoch' = epoch + 1 /\ fed' = 0 /\ heard' = 0
    /\ main' = "reset_play"
    /\ UNCHANGED <<mode, gen, ring, pump, record, isrv, accepted>>

\* start_play, start_play_raw and start_play_wav up to PlayStream::start: open
\* the file, parse it, seek (the raw reader only), clear the end-of-file latch.
\* start_play leaves the sticky loop mode as it is; the raw starts set it.
StartPlay ==
    /\ MainAt("idle") /\ mode = "idle" /\ ~finalizing
    /\ epoch < MaxEpoch
    /\ \/ /\ rawSrc' = FALSE /\ loop' = loop
          /\ len' \in Lengths /\ remaining' = len'
       \/ /\ rawSrc' = TRUE /\ loop' \in BOOLEAN
          /\ len' \in Lengths \ {0}               \* an empty raw file is refused
          /\ remaining' \in 0..len'
    /\ file' = "open"
    /\ eof' = FALSE
    /\ epoch' = epoch + 1 /\ fed' = 0 /\ heard' = 0
    /\ main' = "reset_play"
    /\ UNCHANGED <<mode, gen, ring, pump, record, isrv, accepted>>

\* start_record up to RecordStream::start: create the file, write the
\* placeholder header.
StartRecord ==
    /\ MainAt("idle") /\ mode = "idle" /\ ~finalizing
    /\ epoch < MaxEpoch
    /\ file' = "open"
    /\ stopping' = FALSE /\ take' = <<>>
    /\ epoch' = epoch + 1 /\ accepted' = 0
    /\ main' = "reset_record"
    /\ UNCHANGED <<shared, rawSrc, loop, len, remaining, pump, finalizing, isrv,
                   fed, heard>>

\* A start whose file opens but cannot be parsed or headed closes it again.
StartRefused ==
    /\ MainAt("idle") /\ mode = "idle" /\ ~finalizing
    /\ file' = "closed"
    /\ UNCHANGED <<shared, main, rawSrc, loop, len, remaining, pump, record, isrv, hist>>

\* SpscRing::reset(), two plain stores, the last step of every stream start.
Reset ==
    /\ MainRuns
    /\ \E op \in {"play", "record", "seek"} :
          \/ /\ main = ResetHead(op) /\ main' = ResetTail(op)
             /\ head' = 0 /\ UNCHANGED tail
          \/ /\ main = ResetTail(op) /\ main' = ArmFor(op)
             /\ tail' = 0 /\ UNCHANGED head
    /\ UNCHANGED <<mode, gen, buf, eof, source, pump, record, isrv, hist>>

\* The release store that lets the interrupt in.
Arm ==
    /\ MainRuns
    /\ \/ main = "arm_play"   /\ mode' = "play"   /\ main' = "idle"
       \/ main = "arm_record" /\ mode' = "record" /\ main' = "idle"
       \/ main = "arm_seek"   /\ mode' = "play"   /\ main' = "seek_end"
    /\ UNCHANGED <<gen, ring, eof, source, pump, record, isrv, hist>>

\* stop(): a player is closed, a recorder is left to the pump to finish.
Stop ==
    /\ MainAt("idle") /\ mode # "idle"
    /\ mode' = "idle"
    /\ IF mode = "play"
       THEN /\ file' = "closed"
            /\ UNCHANGED record
       ELSE /\ stopping' = TRUE /\ finalizing' = TRUE
            /\ UNCHANGED <<file, take>>
    /\ UNCHANGED <<gen, ring, eof, main, rawSrc, loop, len, remaining, pump, isrv, hist>>

SetLoop ==
    /\ MainAt("idle")
    /\ loop' = ~loop
    /\ UNCHANGED <<shared, main, file, rawSrc, len, remaining, pump, record, isrv, hist>>

-----------------------------------------------------------------------------
(* seek_play: gen to odd, idle, seek, restart the stream, play, gen to even. *)

SeekBegin ==
    /\ MainAt("idle") /\ mode = "play" /\ ~finalizing /\ rawSrc /\ file = "open"
    /\ epoch < MaxEpoch /\ gen < 2 * MaxEpoch
    /\ gen' = gen + 1
    /\ main' = "seek_park"
    /\ UNCHANGED <<mode, ring, eof, source, pump, record, isrv, hist>>

SeekPark ==
    /\ MainAt("seek_park")
    /\ mode' = "idle"
    /\ main' = "seek_file"
    /\ UNCHANGED <<gen, ring, eof, source, pump, record, isrv, hist>>

\* mutant: a seek does not flush the ring
SeekFileUnflushed ==
    /\ MainAt("seek_file")
    /\ \/ /\ remaining' \in 0..len
          /\ eof' = FALSE
          /\ epoch' = epoch + 1 /\ fed' = 0 /\ heard' = 0
          /\ main' = "arm_seek"
       \/ /\ main' = "arm_seek"
          /\ UNCHANGED <<eof, remaining, epoch, fed, heard>>
    /\ UNCHANGED <<mode, gen, ring, file, rawSrc, loop, len, pump, record, isrv, accepted>>

\* f_lseek, then PlayStream::start; a failed seek leaves the stream as it was.
SeekFile ==
    /\ MainAt("seek_file")
    /\ \/ /\ remaining' \in 0..len
          /\ eof' = FALSE
          /\ epoch' = epoch + 1 /\ fed' = 0 /\ heard' = 0
          /\ main' = "reset_seek"
       \/ /\ main' = "arm_seek"
          /\ UNCHANGED <<eof, remaining, epoch, fed, heard>>
    /\ UNCHANGED <<mode, gen, ring, file, rawSrc, loop, len, pump, record, isrv, accepted>>

SeekEnd ==
    /\ MainAt("seek_end")
    /\ gen' = gen + 1
    /\ main' = "idle"
    /\ UNCHANGED <<mode, ring, eof, source, pump, record, isrv, hist>>

-----------------------------------------------------------------------------
(* process(): the main loop services the deck. Playing: read ahead. *)

PumpPlay ==
    /\ MainAt("idle") /\ mode = "play"
    /\ main' = IF eof THEN "played" ELSE "pump"
    /\ rewinds' = 0
    /\ UNCHANGED <<shared, source, chunk, record, isrv, hist>>

\* One turn of PlayStream::pump's loop, up to the ring write. Room in the ring
\* and a read that brings something: on to the write.
PumpRead ==
    /\ MainAt("pump")
    /\ \E got \in 1..Least(Least(Writable(Cap, head, tail), Scratch), remaining) :
          /\ chunk' = [i \in 1..got |-> Frame(fed + i - 1)]
          /\ remaining' = remaining - got
          /\ fed' = (fed + got) % Names
    /\ main' = "fill"
    /\ UNCHANGED <<shared, file, rawSrc, loop, len, rewinds, record, isrv,
                   epoch, heard, accepted>>

\* mutant: the end of a WAV is not latched
PumpDryUnlatched ==
    /\ MainAt("pump") /\ Writable(Cap, head, tail) # 0
    /\ LET left == IF rawSrc THEN remaining ELSE 0
       IN  IF left = 0 /\ loop /\ rewinds < 2
           THEN /\ remaining' \in {left, len}
                /\ rewinds' = rewinds + 1
                /\ UNCHANGED <<eof, main>>
           ELSE /\ remaining' = left
                /\ eof' = (rawSrc /\ left = 0)
                /\ main' = "played"
                /\ UNCHANGED rewinds
    /\ UNCHANGED <<mode, gen, ring, file, rawSrc, loop, len, chunk, record, isrv, hist>>

\* A read that brings nothing. The WAV reader gives its body up, the raw one
\* only has nothing for now; at the end of the body a loop rewinds (which may
\* fail, leaving the reader at its end), anything else ends the stream.
PumpDry ==
    /\ MainAt("pump") /\ Writable(Cap, head, tail) # 0
    /\ LET left == IF rawSrc THEN remaining ELSE 0
       IN  IF left = 0 /\ loop /\ rewinds < 2
           THEN /\ remaining' \in {left, len}
                /\ rewinds' = rewinds + 1
                /\ UNCHANGED <<eof, main>>
           ELSE /\ remaining' = left
                /\ eof' = (left = 0)
                /\ main' = "played"
                /\ UNCHANGED rewinds
    /\ UNCHANGED <<mode, gen, ring, file, rawSrc, loop, len, chunk, record, isrv, hist>>

PumpFull ==
    /\ MainAt("pump") /\ Writable(Cap, head, tail) = 0
    /\ main' = "played"
    /\ UNCHANGED <<shared, source, pump, record, isrv, hist>>

\* The copy of SpscRing::write, then its release store.
PumpFill ==
    /\ MainAt("fill")
    /\ chunk' = SubSeq(chunk, 1, Least(Writable(Cap, head, tail), Len(chunk)))
    /\ buf' = Filled(chunk')
    /\ main' = "publish"
    /\ UNCHANGED <<mode, gen, head, tail, eof, source, rewinds, record, isrv, hist>>

PumpPublish ==
    /\ MainAt("publish")
    /\ head' = Plus(head, Len(chunk))
    /\ chunk' = <<>> /\ rewinds' = 0
    /\ main' = "pump"
    /\ UNCHANGED <<mode, gen, tail, buf, eof, source, record, isrv, hist>>

\* mutant: the end of the file is the end of the stream
PumpPlayedEarly ==
    /\ MainAt("played")
    /\ main' = IF eof THEN "finish" ELSE "idle"
    /\ UNCHANGED <<shared, source, pump, record, isrv, hist>>

\* After the pump: a stream at its end and drained leaves the deck idle.
PumpPlayed ==
    /\ MainAt("played")
    /\ main' = IF eof /\ Readable(head, tail) = 0 THEN "finish" ELSE "idle"
    /\ UNCHANGED <<shared, source, pump, record, isrv, hist>>

FinishPlay ==
    /\ MainAt("finish")
    /\ mode' = "idle"
    /\ file' = "closed"
    /\ main' = "idle"
    /\ UNCHANGED <<gen, ring, eof, rawSrc, loop, len, remaining, pump, record, isrv, hist>>

-----------------------------------------------------------------------------
(* process(): recording, and finishing a record that was stopped. *)

PumpRecord ==
    /\ MainAt("idle") /\ (mode = "record" \/ finalizing)
    /\ main' = "drain"
    /\ UNCHANGED <<shared, source, pump, record, isrv, hist>>

\* SpscRing::read into the scratch: the copy, then the tail store with the
\* sink's write, which only the main loop sees.
DrainRead ==
    /\ MainAt("drain") /\ Readable(head, tail) # 0
    /\ chunk' = Copied(Least(Readable(head, tail), Scratch))
    /\ main' = "sink"
    /\ UNCHANGED <<shared, source, rewinds, record, isrv, hist>>

DrainSink ==
    /\ MainAt("sink")
    /\ tail' = Plus(tail, Len(chunk))
    /\ take' = take \o chunk
    /\ chunk' = <<>>
    /\ main' = "drain"
    /\ UNCHANGED <<mode, gen, head, buf, eof, source, rewinds, finalizing, stopping,
                   isrv, hist>>

\* mutant: a stopped record is finalized as it is
DrainedUnchecked ==
    /\ MainAt("drain")
    /\ main' = "idle"
    /\ IF finalizing /\ stopping
       THEN finalizing' = FALSE /\ file' = "closed"
       ELSE UNCHANGED <<finalizing, file>>
    /\ UNCHANGED <<shared, rawSrc, loop, len, remaining, pump, stopping, take, isrv, hist>>

\* Drained: a stopped record is finalized and its file closed.
Drained ==
    /\ MainAt("drain") /\ Readable(head, tail) = 0
    /\ main' = "idle"
    /\ IF finalizing /\ stopping
       THEN finalizing' = FALSE /\ file' = "closed"
       ELSE UNCHANGED <<finalizing, file>>
    /\ UNCHANGED <<shared, rawSrc, loop, len, remaining, pump, stopping, take, isrv, hist>>

-----------------------------------------------------------------------------
(* The audio interrupt: play_consume. *)

\* The callback returns: nothing of it is left.
Return == isr' = "idle" /\ gen0' = 0 /\ tail0' = 0 /\ blk' = <<>>

ConsumeEnter ==
    /\ isr = "idle" /\ gen % 2 = 0
    /\ gen0' = gen
    /\ isr' = "mode"
    /\ UNCHANGED <<shared, main, source, pump, record, tail0, blk, hist>>

ConsumeMode ==
    /\ isr = "mode"
    /\ IF mode = "play" THEN isr' = "copy" /\ UNCHANGED <<gen0, tail0, blk>> ELSE Return
    /\ UNCHANGED <<shared, main, source, pump, record, hist>>

\* SpscRing::read: load the counters and copy.
ConsumeCopy ==
    /\ isr = "copy"
    /\ blk' = Copied(Least(Readable(head, tail), Block))
    /\ tail0' = tail
    /\ isr' = IF blk' = <<>> THEN "recheck" ELSE "take"
    /\ UNCHANGED <<shared, main, source, pump, record, gen0, hist>>

ConsumeTake ==
    /\ isr = "take"
    /\ tail' = Plus(tail0, Len(blk))
    /\ isr' = "recheck"
    /\ UNCHANGED <<mode, gen, head, buf, eof, main, source, pump, record, gen0, tail0, blk,
                   hist>>

\* A generation that moved means the copy may straddle a seek: silence.
\* Otherwise the block goes to the engine, and is heard.
ConsumeRecheck ==
    /\ isr = "recheck"
    /\ heard' = IF gen = gen0 THEN (heard + Len(blk)) % Names ELSE heard
    /\ Return
    /\ UNCHANGED <<shared, main, source, pump, record, epoch, fed, accepted>>

(* The audio interrupt: record_produce. *)

ProduceMode ==
    /\ isr = "idle" /\ mode = "record"
    /\ accepted + Block <= MaxTake
    /\ isr' = "put"
    /\ UNCHANGED <<shared, main, source, pump, record, gen0, tail0, blk, hist>>

\* SpscRing::write: what does not fit is dropped.
ProducePut ==
    /\ isr = "put"
    /\ blk' = [i \in 1..Least(Writable(Cap, head, tail), Block) |-> Frame(accepted + i - 1)]
    /\ buf' = Filled(blk')
    /\ isr' = "put_end"
    /\ UNCHANGED <<mode, gen, head, tail, eof, main, source, pump, record, gen0, tail0, hist>>

ProduceEnd ==
    /\ isr = "put_end"
    /\ head' = Plus(head, Len(blk))
    /\ accepted' = accepted + Len(blk)
    /\ Return
    /\ UNCHANGED <<mode, gen, tail, buf, eof, main, source, pump, record,
                   epoch, fed, heard>>

-----------------------------------------------------------------------------
Control == \/ StartPlay \/ StartRecord \/ StartRefused \/ Stop \/ SetLoop \/ SeekBegin

\* What the main loop does without being asked: process(), and the rest of a
\* control operation once it has begun.
Pump == \/ Reset \/ Arm \/ SeekPark \/ SeekFile \/ SeekEnd
        \/ PumpPlay \/ PumpRead \/ PumpDry \/ PumpFull \/ PumpFill \/ PumpPublish
        \/ PumpPlayed \/ FinishPlay
        \/ PumpRecord \/ DrainRead \/ DrainSink \/ Drained

Interrupt == \/ ConsumeEnter \/ ConsumeMode \/ ConsumeCopy \/ ConsumeTake \/ ConsumeRecheck
             \/ ProduceMode \/ ProducePut \/ ProduceEnd

Next == Control \/ Pump \/ Interrupt

Spec == Init /\ [][Next]_vars

\* The interrupt keeps coming and returns before the next one is due, so the
\* main loop always runs again between two; and a card in its socket does not
\* answer every read with nothing.
Fairness == WF_vars(Interrupt) /\ SF_vars(Pump) /\ SF_vars(PumpRead)

FairSpec == Spec /\ Fairness

-----------------------------------------------------------------------------
Frames == {Nothing} \cup [epoch : 1..MaxEpoch, pos : 0..Names-1]

MainPlaces == {"idle", "reset_play", "tail_play", "arm_play", "reset_record", "tail_record",
               "arm_record", "reset_seek", "tail_seek", "arm_seek", "seek_park", "seek_file",
               "seek_end", "pump", "fill", "publish", "played", "finish", "drain", "sink"}

TypeOK ==
    /\ mode \in {"idle", "play", "record"} /\ gen \in 0..(2 * MaxEpoch)
    /\ head \in 0..CounterModulus-1 /\ tail \in 0..CounterModulus-1 /\ buf \in [0..Cap-1 -> Frames]
    /\ eof \in BOOLEAN /\ loop \in BOOLEAN /\ rawSrc \in BOOLEAN
    /\ finalizing \in BOOLEAN /\ stopping \in BOOLEAN /\ file \in {"open", "closed"}
    /\ main \in MainPlaces
    /\ len \in Lengths \cup {0} /\ remaining \in 0..len /\ rewinds \in 0..2
    /\ chunk \in Seq(Frames) /\ Len(chunk) <= Scratch
    /\ take \in Seq(Frames) /\ Len(take) <= MaxTake
    /\ isr \in {"idle", "mode", "copy", "take", "recheck", "put", "put_end"}
    /\ gen0 \in 0..(2 * MaxEpoch) /\ tail0 \in 0..CounterModulus-1
    /\ blk \in Seq(Frames) /\ Len(blk) <= Block
    /\ epoch \in 0..MaxEpoch /\ fed \in 0..Names-1 /\ heard \in 0..Names-1 /\ accepted \in 0..MaxTake

\* What the engine hears is the stream that was started or sought last, from
\* its first frame on and with no frame missing, repeated or out of order: a
\* block that survives play_consume's recheck is the continuation of what was
\* heard before. Restarts, seeks and the wrapping ring must never leak frames
\* of an earlier stream (stream_deck.h:56-75).
HeardInOrder ==
    isr = "recheck" /\ gen = gen0 =>
        \A k \in 1..Len(blk) : blk[k] = Frame(heard + k - 1)

\* A player that process() retires has been heard to its last frame: the end of
\* the file alone, with frames still in the ring, never stops it.
RetiredAfterLastFrame == main = "finish" => heard = fed

\* The file that finalizing closes holds every frame the interrupt accepted, in
\* order: frames still in the ring when stop() is called are flushed first.
TakeComplete ==
    [][finalizing /\ ~finalizing' => take = [i \in 1..accepted |-> Frame(i - 1)]]_vars

\* Between two calls the deck's only file is open exactly while it plays,
\* records or finalizes, and a deck that finalizes is idle: no handle leaks, and
\* no start takes the file from under the take that is being finished.
HandleDiscipline ==
    /\ main = "idle" => (file = "open" <=> mode # "idle" \/ finalizing)
    /\ finalizing => mode = "idle"

\* A deck's file and its player stay in step with what process() and the control
\* calls have done so far (stream_deck.cpp:40-63, 104-137).
Inv == TypeOK /\ HandleDiscipline /\ RetiredAfterLastFrame

\* A deck that plays and does not loop stops by itself, closing its file, even
\* if seeks send it back first.
PlayEnds == []((mode = "play" /\ []~loop) => <>(file = "closed"))

-----------------------------------------------------------------------------
\* The deck as the engines see it: a seek parks it until the stream is re-armed.
SeenDeck == [mode |-> mode, finalizing |-> finalizing,
             seeking |-> main \in {"seek_file", "reset_seek", "tail_seek", "arm_seek"}]

Service == INSTANCE DeckService WITH deck <- SeenDeck

\* The deck keeps its contract with the engines (istreamdeck.h): a start is
\* granted only when it does nothing and owes no take, stop() leaves a take to
\* process(), and takes and seeks are completed without being asked again.
ImplementsService == Service!Spec
=============================================================================

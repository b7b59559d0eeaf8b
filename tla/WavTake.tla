------------------------------ MODULE WavTake -------------------------------
(***************************************************************************)
(* A take on its way to the card: the ring the audio interrupt fills,      *)
(* RecordStream's pump (memory/audio_stream.h), the WAV writer with its    *)
(* checkpoints (memory/wav_stream.h) as StreamDeck drives them             *)
(* (hw/stream_deck.cpp), and the file under them (hw/fat_file.cpp over     *)
(* FatFs), which may fail, fill up or lose power at any step.              *)
(*                                                                         *)
(* A frame is named by its number in the take. A file is the size its      *)
(* header states and the frames behind the header; an offset is counted in *)
(* frames from there, with -1 for the start of the file.                   *)
(*                                                                         *)
(* Power may be lost in every state, so what it would leave (Leaves) is a  *)
(* function of the state and not a step of its own.                        *)
(***************************************************************************)
EXTENDS Integers, Sequences, FiniteSets

CONSTANTS Cap,         \* frames the ring holds
          Scratch,     \* frames one write moves
          SyncFrames,  \* kSyncBytes
          MaxTake,     \* bound: frames the interrupt brings
          Spaces       \* frames the card may have room for

ASSUME TakeAssumption ==
    /\ Cap \in Nat \ {0} /\ Scratch \in Nat \ {0} /\ SyncFrames \in Nat \ {0}
    /\ MaxTake \in Nat /\ Spaces \subseteq Nat

VARIABLES
    mode,       \* Deck::mode
    finalizing, \* Deck::finalizing
    main,       \* where the main loop is
    ring,       \* frames between the interrupt and the pump
    body,       \* WavStreamWriter::_body
    synced,     \* Deck::synced_body
    \* the open file
    pos,        \* its offset
    hdr,        \* the size its header states
    cells,      \* the frames behind the header
    err,        \* FatFs has given the file up: every read, write and seek fails
    space,      \* frames the card has room for
    disk,       \* the medium: the headers it may have, and the length in the directory
    \* history
    clock,      \* frames the interrupt has brought
    faults      \* what has gone wrong

deck    == <<mode, finalizing>>
writer  == <<body, synced>>
fatFile == <<pos, hdr, cells, err, space, disk>>
vars    == <<deck, main, ring, writer, fatFile, clock, faults>>

Least(a, b)    == IF a < b THEN a ELSE b
Greatest(a, b) == IF a < b THEN b ELSE a

Init ==
    /\ mode = "idle" /\ finalizing = FALSE /\ main = "idle" /\ ring = <<>>
    /\ body = 0 /\ synced = 0
    /\ pos = -1 /\ hdr = -1 /\ cells = <<>> /\ err = FALSE /\ space \in Spaces
    /\ disk = [hdrs |-> {-1}, len |-> 0]
    /\ clock = 0 /\ faults = {}

-----------------------------------------------------------------------------
(* The file. *)

\* An operation on a file FatFs has given up fails and changes nothing; another
\* may fail and give the file up.
Fails(fault) ==
    /\ err' = TRUE
    /\ faults' = faults \cup {fault}

\* f_lseek() to offset p.
SeekOk(p) == ~err /\ pos' = p /\ UNCHANGED <<hdr, cells, err, space, disk, faults>>
SeekFails == Fails("device") /\ UNCHANGED <<pos, hdr, cells, space, disk>>

\* f_write() of a header that states n, at the start of the file. It may reach
\* the medium at any time from now on.
HeaderOk(n) ==
    /\ ~err
    /\ hdr' = n /\ pos' = 0
    /\ disk' = [disk EXCEPT !.hdrs = @ \cup {n}]
    /\ UNCHANGED <<cells, err, space, faults>>
HeaderFails == Fails("device") /\ UNCHANGED <<pos, hdr, cells, space, disk>>

\* The frames of the file after frames are put at the offset.
Overlaid(frames) ==
    [i \in 1..Greatest(Len(cells), pos + Len(frames)) |->
        IF pos < i /\ i <= pos + Len(frames) THEN frames[i - pos] ELSE cells[i]]

\* f_write() of the first n of these frames; new ones take room on the card.
Puts(frames, n) ==
    /\ cells' = Overlaid(SubSeq(frames, 1, n))
    /\ pos' = pos + n
    /\ space' = space - (Len(cells') - Len(cells))
    /\ UNCHANGED <<hdr, disk>>

Room == space + Len(cells) - pos

\* f_sync(): the directory gets the length, the medium the buffered sectors. One
\* that fails may have done part of it, and the file stays in use.
SyncOk    == /\ disk' = [hdrs |-> {hdr}, len |-> Len(cells)]
             /\ UNCHANGED <<pos, hdr, cells, err, space, faults>>
SyncFails == /\ disk' \in {disk, [disk EXCEPT !.len = Len(cells)]}
             /\ faults' = faults \cup {"sync"}
             /\ UNCHANGED <<pos, hdr, cells, err, space>>

-----------------------------------------------------------------------------
(* Control, from the main loop, and the audio interrupt. *)

\* start_record(), once: create the file, write the placeholder header.
StartRecord ==
    /\ main = "idle" /\ mode = "idle" /\ ~finalizing /\ hdr = -1
    /\ mode' = "record" /\ body' = 0 /\ synced' = 0
    /\ HeaderOk(0)
    /\ UNCHANGED <<finalizing, main, ring, clock>>

\* stop() of a take.
Stop ==
    /\ main = "idle" /\ mode = "record"
    /\ mode' = "idle" /\ finalizing' = TRUE
    /\ UNCHANGED <<main, ring, writer, fatFile, clock, faults>>

\* record_produce(): a frame that does not fit is dropped.
Produce ==
    /\ mode = "record" /\ clock < MaxTake
    /\ clock' = clock + 1
    /\ IF Len(ring) < Cap THEN ring' = Append(ring, clock') /\ UNCHANGED faults
                          ELSE faults' = faults \cup {"overrun"} /\ UNCHANGED ring
    /\ UNCHANGED <<deck, main, writer, fatFile>>

\* The other deck truncates a file, and the full card has room again.
OtherDeckFrees ==
    /\ space = 0 /\ space' \in Spaces \ {0}
    /\ UNCHANGED <<deck, main, ring, writer, pos, hdr, cells, err, disk, clock, faults>>

-----------------------------------------------------------------------------
(* A pass of the main loop over the deck: _pump(). *)

PumpEnter ==
    /\ main = "idle" /\ (mode = "record" \/ finalizing)
    /\ main' = "pump"
    /\ UNCHANGED <<deck, ring, writer, fatFile, clock, faults>>

\* mutant: what the file did not take goes back into the ring.
DrainRetry ==
    LET n == Least(Len(ring), Scratch)
    IN  /\ main = "pump" /\ n > 0
        /\ \/ /\ ~err
              /\ LET w == Least(n, Room)
                 IN  /\ Puts(SubSeq(ring, 1, n), w)
                     /\ body' = body + w
                     /\ ring' = SubSeq(ring, w + 1, Len(ring))
              /\ UNCHANGED <<err, faults>>
           \/ err /\ UNCHANGED <<ring, fatFile, body, faults>>
        /\ UNCHANGED <<deck, main, synced, clock>>

\* RecordStream::pump(): one transfer from the ring to the writer, which counts
\* the bytes the file took. What it did not take is gone with the scratch.
Drain ==
    LET n == Least(Len(ring), Scratch)
        frames == SubSeq(ring, 1, n)
    IN  /\ main = "pump" /\ n > 0
        /\ ring' = SubSeq(ring, n + 1, Len(ring))
        /\ \/ /\ ~err
              /\ LET w == Least(n, Room)
                 IN  /\ Puts(frames, w)
                     /\ body' = body + w
                     /\ faults' = IF w < n THEN faults \cup {"full"} ELSE faults
              /\ UNCHANGED err
           \/ /\ ~err                      \* fails half-way: FatFile::write returns 0
              /\ \E w \in 0..Least(n, Room) : Puts(frames, w)
              /\ Fails("device") /\ UNCHANGED body
           \/ err /\ UNCHANGED <<fatFile, body, faults>>
        /\ UNCHANGED <<deck, main, synced, clock>>

\* The ring is seen empty: a checkpoint is due, or the take ends, or the pass
\* does.
Drained ==
    /\ main = "pump" /\ ring = <<>>
    /\ main' = IF finalizing THEN "final_seek"
               ELSE IF body - synced >= SyncFrames THEN "check_seek" ELSE "idle"
    /\ UNCHANGED <<deck, ring, writer, fatFile, clock, faults>>

\* checkpoint(), one file operation at a time. The pump does not look at what it
\* returns.
CheckpointEnds == main' = "idle" /\ synced' = body

CheckSeek ==
    /\ main = "check_seek"
    /\ \/ SeekOk(-1) /\ main' = "check_header" /\ UNCHANGED synced
       \/ SeekFails /\ CheckpointEnds
    /\ UNCHANGED <<deck, ring, body, clock>>

\* mutant: the checkpoint does not go back to the end of the body.
CheckHeaderStays ==
    /\ main = "check_header"
    /\ \/ HeaderOk(body) /\ main' = "check_sync" /\ UNCHANGED synced
       \/ HeaderFails /\ CheckpointEnds
    /\ UNCHANGED <<deck, ring, body, clock>>

\* mutant: the checkpoint writes the size since the last one.
CheckHeaderSinceLast ==
    /\ main = "check_header"
    /\ \/ HeaderOk(body - synced) /\ main' = "check_return" /\ UNCHANGED synced
       \/ HeaderFails /\ CheckpointEnds
    /\ UNCHANGED <<deck, ring, body, clock>>

CheckHeader ==
    /\ main = "check_header"
    /\ \/ HeaderOk(body) /\ main' = "check_return" /\ UNCHANGED synced
       \/ HeaderFails /\ CheckpointEnds
    /\ UNCHANGED <<deck, ring, body, clock>>

\* mutant: the checkpoint is not synced.
CheckReturnUnsynced ==
    /\ main = "check_return"
    /\ SeekOk(body) \/ SeekFails
    /\ CheckpointEnds
    /\ UNCHANGED <<deck, ring, body, clock>>

CheckReturn ==
    /\ main = "check_return"
    /\ \/ SeekOk(body) /\ main' = "check_sync" /\ UNCHANGED synced
       \/ SeekFails /\ CheckpointEnds
    /\ UNCHANGED <<deck, ring, body, clock>>

CheckSync ==
    /\ main = "check_sync"
    /\ SyncOk \/ SyncFails
    /\ CheckpointEnds
    /\ UNCHANGED <<deck, ring, body, clock>>

\* finalize(): seek to the start and rewrite the header, if the seek works.
FinalSeek ==
    /\ main = "final_seek"
    /\ \/ SeekOk(-1) /\ main' = "final_header"
       \/ SeekFails /\ main' = "close"
    /\ UNCHANGED <<deck, ring, writer, clock>>

FinalHeader ==
    /\ main = "final_header" /\ main' = "close"
    /\ HeaderOk(body) \/ HeaderFails
    /\ UNCHANGED <<deck, ring, writer, clock>>

\* FatFile::close(), which syncs.
Close ==
    /\ main = "close" /\ main' = "idle"
    /\ finalizing' = FALSE
    /\ SyncOk \/ SyncFails
    /\ UNCHANGED <<mode, ring, writer, clock>>

-----------------------------------------------------------------------------
CheckpointStep == CheckSeek \/ CheckHeader \/ CheckReturn \/ CheckSync
Finish         == FinalSeek \/ FinalHeader \/ Close
Pump           == PumpEnter \/ Drain \/ Drained \/ CheckpointStep \/ Finish

Next == StartRecord \/ Stop \/ Produce \/ OtherDeckFrees \/ Pump

Spec == Init /\ [][Next]_vars

\* The main loop comes round again and again.
FairSpec == Spec /\ WF_vars(Pump)

-----------------------------------------------------------------------------
Frames == 1..MaxTake

TypeOK ==
    /\ mode \in {"idle", "record"} /\ finalizing \in BOOLEAN
    /\ main \in {"idle", "pump", "check_seek", "check_header", "check_return", "check_sync",
                 "final_seek", "final_header", "close"}
    /\ ring \in Seq(Frames) /\ Len(ring) <= Cap
    /\ body \in 0..MaxTake /\ synced \in 0..body
    /\ pos \in -1..Len(cells) /\ hdr \in -1..body
    /\ cells \in Seq(Frames) /\ err \in BOOLEAN /\ space \in Nat
    /\ disk.hdrs \subseteq -1..body /\ disk.hdrs # {} /\ disk.len \in 0..Len(cells)
    /\ clock \in 0..MaxTake /\ faults \subseteq {"device", "sync", "full", "overrun"}

\* What WavStreamReader::begin() makes of the file if power is lost now: the
\* size in the header, but no more than the file is long.
Recovered(h) == SubSeq(cells, 1, Least(h, disk.len))
Leaves == {Recovered(h) : h \in disk.hdrs}

Increasing(take) == \A i, j \in DOMAIN take : i < j => take[i] < take[j]
Whole(take)      == \A i \in DOMAIN take : take[i] = i

\* Whenever power is lost, the file reads as audio of this take in order and
\* none twice, and without a hole unless frames were dropped on a full ring or a
\* full card.
Recoverable ==
    \A take \in Leaves : Increasing(take) /\ (faults \cap {"full", "overrun"} = {} => Whole(take))

\* What a loss of power would leave never gets shorter: a checkpoint that is cut
\* short, or fails, costs nothing of the one before (wav_stream.h:140-141).
SafeLength == CHOOSE n \in 0..MaxTake :
    /\ \E take \in Leaves : Len(take) = n
    /\ \A take \in Leaves : Len(take) >= n

KeepsCheckpoint == [][SafeLength' >= SafeLength]_vars

\* "Record checkpoint interval ... power loss loses at most this much of a take"
\* (stream_deck.h:88-89): between two passes the file has all but less than an
\* interval of what was written, as long as the card does what it is asked.
LossWhileSound ==
    main = "idle" /\ mode = "record" /\ ~err /\ "sync" \notin faults
        => body - SafeLength < SyncFrames

\* A take that ends without a fault has every frame the interrupt brought.
TakeComplete ==
    hdr # -1 /\ mode = "idle" /\ ~finalizing /\ faults = {} =>
        \A take \in Leaves : Len(take) = clock

\* A stopped take is closed, whatever the card does: the deck is free again.
FinalizeEnds == finalizing ~> ~finalizing

\* The take on the card: what a loss of power leaves of it, and what a stop does.
Inv == TypeOK /\ Recoverable /\ TakeComplete
=============================================================================

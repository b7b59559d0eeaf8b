-------------------------- MODULE StreamDeckProofs --------------------------
(***************************************************************************)
(* StreamDeck on the device, where the audio interrupt runs to its end:    *)
(* for every size of the ring, the transfers and the blocks, and for every *)
(* file. What is heard is the live stream, in order; a player is retired   *)
(* after its last frame; a finished take is whole; the deck's one file is  *)
(* open exactly while it is needed.                                        *)
(***************************************************************************)
EXTENDS StreamDeck, ModularArithmetic

\* Places of the main loop inside a control operation.
PlayStarts   == {"reset_play", "tail_play", "arm_play"}
RecordStarts == {"reset_record", "tail_record", "arm_record"}
Parked       == {"seek_file", "reset_seek", "tail_seek", "arm_seek"}
Seeks        == {"seek_park", "seek_end"} \cup Parked
Pumps        == {"pump", "fill", "publish", "played", "finish"}
Drains       == {"drain", "sink"}

\* What TypeOK says but for the length of a take, which is a matter of what the
\* ring holds.
Types ==
    /\ mode \in {"idle", "play", "record"} /\ gen \in 0..(2 * MaxEpoch)
    /\ head \in 0..CounterModulus-1 /\ tail \in 0..CounterModulus-1 /\ buf \in [0..Cap-1 -> Frames]
    /\ eof \in BOOLEAN /\ loop \in BOOLEAN /\ rawSrc \in BOOLEAN
    /\ finalizing \in BOOLEAN /\ stopping \in BOOLEAN /\ file \in {"open", "closed"}
    /\ main \in MainPlaces
    /\ len \in Lengths \cup {0} /\ remaining \in 0..len /\ rewinds \in 0..2
    /\ chunk \in Seq(Frames) /\ Len(chunk) <= Scratch
    /\ take \in Seq(Frames)
    /\ isr \in {"idle", "mode", "copy", "take", "recheck", "put", "put_end"}
    /\ gen0 \in 0..(2 * MaxEpoch) /\ tail0 \in 0..CounterModulus-1
    /\ blk \in Seq(Frames) /\ Len(blk) <= Block
    /\ epoch \in 0..MaxEpoch /\ fed \in 0..Names-1 /\ heard \in 0..Names-1 /\ accepted \in 0..MaxTake

\* The main loop is where the mode says it may be, the generation is odd exactly
\* inside a seek, and there is a stream before anything is done with one.
MainInMode ==
    /\ finalizing => mode = "idle" /\ stopping
    /\ main \in Pumps \cup {"seek_park", "seek_end"} => mode = "play"
    /\ main \in Drains => mode = "record" \/ finalizing
    /\ main \in PlayStarts \cup RecordStarts \cup Parked => mode = "idle" /\ ~finalizing
    /\ gen % 2 = (IF main \in Seeks THEN 1 ELSE 0)
    /\ main \in {"seek_park", "seek_file"} => epoch < MaxEpoch
    /\ mode # "idle" \/ finalizing \/ main # "idle" => epoch # 0

\* The file is open for a stream, for a take that is owed, and inside a call.
FileInUse == file = "open" <=> mode # "idle" \/ finalizing \/ main # "idle"

\* An interrupt that got past its first test finds the mode and the generation it
\* found there, because the main loop stands still; and neither context leaves
\* frames behind in its buffer.
IsrInMode ==
    /\ isr \in {"copy", "take", "recheck"} => mode = "play"
    /\ isr \in {"mode", "copy", "take", "recheck"} => gen0 = gen
    /\ isr \in {"put", "put_end"} => mode = "record" /\ accepted + Block <= MaxTake
    /\ isr \notin {"take", "recheck", "put_end"} => blk = <<>>
    /\ main \notin {"fill", "publish", "sink"} => chunk = <<>>

\* A stream that begins has heard, fed and taken nothing, and finds an empty ring.
BeginsEmpty ==
    /\ main \in {"reset_play", "tail_play", "reset_seek", "tail_seek"} => heard = 0 /\ fed = 0
    /\ main \in {"reset_record", "tail_record"} => accepted = 0 /\ take = <<>>
    /\ main \in {"tail_play", "tail_seek", "tail_record"} => head = 0

Steady == Types /\ MainInMode /\ FileInUse /\ IsrInMode /\ BeginsEmpty

Occupied == Readable(head, tail)

\* Frames taken out of the ring that are not yet heard.
Lag == IF isr = "recheck" THEN Len(blk) ELSE 0

\* The p-th frame of stream e.
FrameOf(e, p) == [epoch |-> e, pos |-> p % Names]

\* The ring with cells b and counters h and t holds a run of stream e from its p-th
\* frame on, and so does a sequence of frames.
Held(e, b, h, t, p) == \A i \in 0..Readable(h, t)-1 : b[Offset(t, i, Cap)] = FrameOf(e, p + i)
Run(e, frames, p)   == \A i \in 1..Len(frames) : frames[i] = FrameOf(e, p + i - 1)

\* Frames are copied in behind the head and not yet published.
CopiedIn(b, h, frames) == \A i \in 1..Len(frames) : b[Offset(h, i - 1, Cap)] = frames[i]

Playing == mode = "play" \/ main \in {"arm_play", "seek_file", "arm_seek"}

\* While a stream plays, what the interrupt holds, the ring and the scratch are one
\* run of frames from the next to be heard to the next to be fed.
PlayRun ==
    Playing =>
        /\ Occupied + Len(chunk) <= Cap
        /\ Held(epoch, buf, head, tail, heard + Lag)
        /\ isr \in {"take", "recheck"} => Run(epoch, blk, heard)
        /\ isr = "take" => tail0 = tail /\ Len(blk) <= Occupied
        /\ Run(epoch, chunk, heard + Lag + Occupied)
        /\ fed = (heard + Lag + Occupied + Len(chunk)) % Names
        /\ main = "publish" => CopiedIn(buf, head, chunk)
        /\ main = "finish" => Occupied = 0 /\ blk = <<>>

Taking == mode = "record" \/ finalizing \/ main = "arm_record"

\* While a take is recorded or owed, the file and the ring are one run of frames from
\* the first to the last accepted.
TakeRun ==
    Taking =>
        /\ Occupied <= Cap
        /\ Run(epoch, take, 0)
        /\ Held(epoch, buf, head, tail, Len(take))
        /\ accepted = Len(take) + Occupied
        /\ main = "sink" => Len(chunk) <= Occupied /\ Run(epoch, chunk, Len(take))
        /\ isr = "put_end" => /\ Occupied + Len(blk) <= Cap
                              /\ Run(epoch, blk, accepted) /\ CopiedIn(buf, head, blk)

IInv == Steady /\ PlayRun /\ TakeRun /\ Len(take) <= MaxTake

-----------------------------------------------------------------------------
(* The ring's counters, cells and frames. *)

\* What the constants are.
LEMMA Sizes ==
    /\ Cap \in Nat \ {0} /\ Scratch \in Nat \ {0} /\ Block \in Nat \ {0}
    /\ CounterModulus \in Nat \ {0} /\ Cap < CounterModulus
    /\ \E m \in Nat \ {0} : CounterModulus = m * Cap
    /\ MaxEpoch \in Nat /\ MaxTake \in Nat /\ Names \in Nat \ {0} /\ MaxTake < Names
<1>1. CounterModulus \in Nat \ {0}
  BY DeckAssumption
<1>2. PICK m \in 1..CounterModulus : CounterModulus = m * Cap
  BY <1>1, DeckAssumption DEF Divides
<1>3. m \in Nat \ {0}
  BY <1>1
<1> QED
  BY <1>1, <1>2, <1>3, DeckAssumption

\* A counter that is in range is its own remainder.
LEMMA InRange ==
    ASSUME NEW n \in Nat \ {0}, NEW a \in 0..n-1 PROVE a % n = a
<1>1. a = n * 0 + a
  OBVIOUS
<1> QED
  BY <1>1, RemainderUnique

\* Every offset is a cell.
LEMMA CellType ==
    ASSUME NEW t \in Int, NEW i \in Int PROVE Offset(t, i, Cap) \in 0..Cap-1
<1>1. Cap \in Nat \ {0}
  BY Sizes
<1>2. PICK r \in 0..Cap-1 : t % Cap = r
  BY <1>1, Euclid
<1>3. (r + i) % Cap \in 0..Cap-1
  <2>1. r + i \in Int
    BY <1>1, <1>2
  <2> QED
    BY <1>1, <2>1, Euclid
<1> QED
  BY <1>2, <1>3 DEF Offset, Masked

\* How much the ring holds, in terms of its counters, and where the head is.
LEMMA OccupancyIs ==
    ASSUME NEW h \in 0..CounterModulus-1, NEW t \in 0..CounterModulus-1
    PROVE  /\ Readable(h, t) \in 0..CounterModulus-1
           /\ (t + Readable(h, t)) % CounterModulus = h
<1> DEFINE W == CounterModulus
<1>1. W \in Nat \ {0}
  BY Sizes
<1>2. h - t \in Int /\ h \in Int /\ t \in Int
  BY <1>1
<1>3. PICK q \in Int, r \in 0..W-1 : h - t = W * q + r /\ (h - t) % W = r
  BY <1>1, <1>2, Euclid
<1>4. PICK k \in Int : k = -q
  OBVIOUS
<1>5. W * k = -(W * q)
  BY <1>1, <1>3, <1>4
<1>6. t + r = W * k + h
  BY <1>1, <1>2, <1>3, <1>5
<1>7. t + r \in Int
  BY <1>1, <1>2, <1>3
<1>8. (t + r) % W = h
  BY <1>1, <1>4, <1>6, <1>7, RemainderUnique
<1> QED
  BY <1>3, <1>8 DEF Readable, Minus

\* Occupancy is the only number in range that leads from the tail to the head.
LEMMA OccupancyUnique ==
    ASSUME NEW h \in 0..CounterModulus-1, NEW t \in 0..CounterModulus-1,
           NEW n \in 0..CounterModulus-1, (t + n) % CounterModulus = h
    PROVE  Readable(h, t) = n
<1> DEFINE W == CounterModulus
<1>1. W \in Nat \ {0}
  BY Sizes
<1>2. PICK q \in Int : t + n = W * q + h
  <2>1. t + n \in Int
    BY <1>1
  <2> QED
    BY <1>1, <2>1, Euclid
<1>3. PICK k \in Int : k = -q
  OBVIOUS
<1>4. W * k = -(W * q)
  BY <1>1, <1>2, <1>3
<1>5. h - t = W * k + n /\ h - t \in Int
  BY <1>1, <1>2, <1>4
<1>6. (h - t) % W = n
  BY <1>1, <1>3, <1>5, RemainderUnique
<1> QED
  BY <1>6 DEF Readable, Minus

\* Publishing moves the head, and adds to what the ring holds.
LEMMA Published ==
    ASSUME NEW h \in 0..CounterModulus-1, NEW t \in 0..CounterModulus-1,
           NEW k \in Nat, Readable(h, t) + k < CounterModulus
    PROVE  /\ Plus(h, k) \in 0..CounterModulus-1
           /\ Readable(Plus(h, k), t) = Readable(h, t) + k
<1> DEFINE W == CounterModulus
           n == Readable(h, t)
<1>1. W \in Nat \ {0} /\ n \in 0..W-1 /\ (t + n) % W = h
  BY Sizes, OccupancyIs
<1>2. Plus(h, k) \in 0..W-1
  <2>1. h + k \in Int
    BY <1>1
  <2> QED
    BY <1>1, <2>1, Euclid DEF Plus
<1>3. (t + (n + k)) % W = Plus(h, k)
  <2>1. PICK x \in Int : x = t + n
    BY <1>1
  <2>2. ((x % W) + k) % W = (x + k) % W
    <3>1. k \in Int /\ W \in Nat \ {0}
      BY <1>1
    <3> QED
      BY <3>1, RemainderCountsOn
  <2>3. x % W = h /\ t + (n + k) = x + k
    BY <1>1, <2>1
  <2> QED
    BY <2>2, <2>3 DEF Plus
<1>4. n + k \in 0..W-1
  BY <1>1
<1> QED
  BY <1>2, <1>3, <1>4, OccupancyUnique

\* Consuming moves the tail, and takes from what the ring holds.
LEMMA Consumed ==
    ASSUME NEW h \in 0..CounterModulus-1, NEW t \in 0..CounterModulus-1,
           NEW k \in Nat, k <= Readable(h, t)
    PROVE  /\ Plus(t, k) \in 0..CounterModulus-1
           /\ Readable(h, Plus(t, k)) = Readable(h, t) - k
<1> DEFINE W == CounterModulus
           n == Readable(h, t)
<1>1. W \in Nat \ {0} /\ n \in 0..W-1 /\ (t + n) % W = h
  BY Sizes, OccupancyIs
<1>2. Plus(t, k) \in 0..W-1
  <2>1. t + k \in Int
    BY <1>1
  <2> QED
    BY <1>1, <2>1, Euclid DEF Plus
<1>3. (Plus(t, k) + (n - k)) % W = h
  <2>1. PICK x \in Int, y \in Int : x = t + k /\ y = n - k
    BY <1>1
  <2>2. ((x % W) + y) % W = (x + y) % W
    BY <1>1, RemainderCountsOn
  <2>3. x + y = t + n /\ Plus(t, k) = x % W
    BY <1>1, <2>1 DEF Plus
  <2> QED
    BY <1>1, <2>1, <2>2, <2>3
<1>4. n - k \in 0..W-1
  BY <1>1
<1> QED
  BY <1>2, <1>3, <1>4, OccupancyUnique

\* A ring that was reset holds nothing.
LEMMA EmptyRing == Readable(0, 0) = 0
<1>1. CounterModulus \in Nat \ {0}
  BY Sizes
<1>2. 0 \in 0..CounterModulus-1
  BY <1>1
<1>3. (0 + 0) % CounterModulus = 0
  BY <1>1, <1>2, InRange
<1> QED
  BY <1>2, <1>3, OccupancyUnique

\* There is room for what is missing.
LEMMA RoomIs ==
    ASSUME NEW h \in 0..CounterModulus-1, NEW t \in 0..CounterModulus-1,
           Readable(h, t) <= Cap
    PROVE  Writable(Cap, h, t) = Cap - Readable(h, t)
<1>1. Cap - Readable(h, t) \in 0..CounterModulus-1
  <2>1. Readable(h, t) \in 0..CounterModulus-1
    BY OccupancyIs
  <2> QED
    BY <2>1, Sizes
<1>2. PICK room \in 0..CounterModulus-1 : room = Cap - Readable(h, t)
  BY <1>1
<1>3. room % CounterModulus = room
  BY Sizes, InRange
<1> QED
  BY <1>2, <1>3 DEF Writable, Readable, Minus

\* A wrapped counter has the cell of the position it counts, because the capacity
\* divides the modulus.
LEMMA CellCounts ==
    ASSUME NEW x \in Int, NEW i \in Int
    PROVE  Offset(x % CounterModulus, i, Cap) = (x + i) % Cap
<1>1. PICK m \in Nat \ {0} : CounterModulus = m * Cap
  BY Sizes
<1>2. CounterModulus \in Nat \ {0} /\ Cap \in Nat \ {0} /\ m * Cap = CounterModulus
  BY <1>1, Sizes
<1>3. (((x % CounterModulus) % Cap) + i) % Cap = (x + i) % Cap
  <2>1. (x % CounterModulus) % Cap = x % Cap
    <3>1. Cap * m = CounterModulus
      BY <1>2
    <3> QED
      BY <1>2, <3>1, RemainderOfRemainder, Zenon
  <2>2. ((x % Cap) + i) % Cap = (x + i) % Cap
    BY <1>2, RemainderCountsOn, Zenon
  <2> QED
    BY <2>1, <2>2, Zenon
<1> QED
  BY <1>3 DEF Offset, Masked

\* Cells behind a counter that has moved on by k are cells behind where it was.
LEMMA CellsMoveOn ==
    ASSUME NEW t \in Int, NEW k \in Int, NEW i \in Int
    PROVE  Offset(Plus(t, k), i, Cap) = Offset(t, k + i, Cap)
<1>1. PICK x \in Int : x = t + k
  OBVIOUS
<1>2. Offset(x % CounterModulus, i, Cap) = (x + i) % Cap
  BY CellCounts
<1>3. PICK j \in Int : j = k + i
  OBVIOUS
<1>4. ((t % Cap) + j) % Cap = (t + j) % Cap
  BY Sizes, RemainderCountsOn
<1>5. x + i = t + j
  BY <1>1, <1>3
<1> QED
  BY <1>1, <1>2, <1>3, <1>4, <1>5 DEF Offset, Masked, Plus

\* The cells at the head come behind the ones that are held.
LEMMA CellsAtHead ==
    ASSUME NEW h \in 0..CounterModulus-1, NEW t \in 0..CounterModulus-1, NEW i \in Int
    PROVE  Offset(h, i, Cap) = Offset(t, Readable(h, t) + i, Cap)
<1>1. Plus(t, Readable(h, t)) = h /\ Readable(h, t) \in Int /\ t \in Int
  BY OccupancyIs, Sizes DEF Plus
<1> QED
  BY <1>1, CellsMoveOn

\* A round of the ring on is the same cell.
LEMMA CellsRound ==
    ASSUME NEW t \in Int, NEW i \in Int
    PROVE  Offset(t, Cap + i, Cap) = Offset(t, i, Cap)
<1>1. Cap \in Nat \ {0}
  BY Sizes
<1>2. PICK r \in 0..Cap-1 : t % Cap = r
  BY <1>1, Euclid
<1>3. PICK x \in Int, y \in Int : x = r + (Cap + i) /\ y = r + i
  BY <1>1
<1>4. Congruent(x, y, Cap)
  <2>1. x = y + Cap * 1
    BY <1>1, <1>3
  <2> QED
    BY <2>1 DEF Congruent
<1>5. x % Cap = y % Cap
  BY <1>1, <1>4, CongruentRemainders
<1> QED
  BY <1>2, <1>3, <1>5 DEF Offset, Masked

\* The copy of a write finds out of a cell how far behind the head it is.
LEMMA CellsSince ==
    ASSUME NEW h \in Int, NEW j \in 0..Cap-1
    PROVE  Minus(Offset(h, j, Cap), Masked(h, Cap)) % Cap = j
<1>1. Cap \in Nat \ {0} /\ CounterModulus \in Nat \ {0} /\ Cap < CounterModulus
  BY Sizes
<1>2. PICK r \in 0..Cap-1 : h % Cap = r
  BY <1>1, Euclid
<1>3. PICK c \in 0..Cap-1 : c = (r + j) % Cap
  BY <1>2, CellType DEF Offset, Masked
<1>4. PICK d \in Int : d = c - r
  BY <1>1
<1>5. PICK m \in Nat \ {0} : Cap * m = CounterModulus
  <2>1. PICK m \in Nat \ {0} : CounterModulus = m * Cap
    BY Sizes
  <2>2. Cap * m = m * Cap
    BY <1>1
  <2> QED
    BY <2>1, <2>2
<1>6. (d % CounterModulus) % Cap = d % Cap
  BY <1>1, <1>5, RemainderOfRemainder
<1>7. d % Cap = j
  <2>1. CASE r + j < Cap
    <3>1. PICK s \in 0..Cap-1 : s = r + j
      BY <1>1, <2>1
    <3>2. c = s
      BY <1>1, <1>3, <3>1, InRange
    <3>3. d = j
      BY <1>1, <1>4, <3>1, <3>2
    <3> QED
      BY <1>1, <3>3, InRange
  <2>2. CASE r + j >= Cap
    <3>1. PICK s \in 0..Cap-1 : r + j = Cap * 1 + s
      BY <1>1, <2>2
    <3>2. c = s
      BY <1>1, <1>3, <3>1, RemainderUnique
    <3>3. d = Cap * (-1) + j
      BY <1>1, <1>4, <3>1, <3>2
    <3> QED
      BY <1>1, <3>3, RemainderUnique
  <2> QED
    BY <1>1, <2>1, <2>2
<1> QED
  BY <1>2, <1>3, <1>4, <1>6, <1>7 DEF Offset, Masked, Minus

\* A frame of the stream the ring was reset for last.
LEMMA FrameIs == \A p : Frame(p) = FrameOf(epoch, p)
BY DEF Frame, FrameOf

\* Frames of a stream are frames.
LEMMA FrameType ==
    ASSUME NEW e \in 1..MaxEpoch, NEW p \in Int
    PROVE  FrameOf(e, p) \in Frames
<1>1. p % Names \in 0..Names-1
  BY Sizes, Euclid
<1> QED
  BY <1>1 DEF FrameOf, Frames

\* Frames are counted modulo their names.
LEMMA FrameCounts ==
    ASSUME NEW e, NEW p \in Int, NEW i \in Int
    PROVE  FrameOf(e, (p % Names) + i) = FrameOf(e, p + i)
<1>1. Names \in Nat \ {0}
  BY Sizes
<1>2. ((p % Names) + i) % Names = (p + i) % Names
  BY <1>1, RemainderCountsOn
<1> QED
  BY <1>2 DEF FrameOf

\* So are runs of them, in a sequence and in the ring.
LEMMA RunCounts ==
    ASSUME NEW e, NEW frames \in Seq(Frames), NEW p \in Int, NEW k \in Int
    PROVE  Run(e, frames, (p % Names) + k) <=> Run(e, frames, p + k)
<1>1. \A i \in 1..Len(frames) :
          FrameOf(e, ((p % Names) + k) + i - 1) = FrameOf(e, (p + k) + i - 1)
  <2> SUFFICES ASSUME NEW i \in 1..Len(frames)
               PROVE  FrameOf(e, ((p % Names) + k) + i - 1) = FrameOf(e, (p + k) + i - 1)
    OBVIOUS
  <2>1. PICK j \in Int : j = k + i - 1
    OBVIOUS
  <2>2. PICK q \in Int : q = p % Names
    <3>1. Names \in Nat \ {0}
      BY Sizes
    <3> QED
      BY <3>1, Euclid
  <2>3. q + k + i - 1 = q + j /\ p + k + i - 1 = p + j
    BY <2>1
  <2>4. FrameOf(e, (p % Names) + j) = FrameOf(e, p + j)
    BY FrameCounts
  <2> QED
    BY <2>2, <2>3, <2>4
<1> QED
  BY <1>1 DEF Run

LEMMA HeldCounts ==
    ASSUME NEW e, NEW b, NEW h \in 0..CounterModulus-1, NEW t \in 0..CounterModulus-1,
           NEW p \in Int
    PROVE  Held(e, b, h, t, p % Names) <=> Held(e, b, h, t, p)
<1>1. Readable(h, t) \in Int
  BY OccupancyIs, Sizes
<1>2. \A i \in 0..Readable(h, t)-1 : FrameOf(e, (p % Names) + i) = FrameOf(e, p + i)
  BY <1>1, FrameCounts
<1> QED
  BY <1>2 DEF Held

-----------------------------------------------------------------------------
(* What the operations on the ring make of a run. *)

Counters == 0..CounterModulus-1
Cells    == [0..Cap-1 -> Frames]

\* What is left behind the frames that are consumed is the rest of the run.
LEMMA HeldConsumed ==
    ASSUME NEW e, NEW b, NEW h \in Counters, NEW t \in Counters, NEW p \in Int,
           NEW k \in Nat, k <= Readable(h, t), Held(e, b, h, t, p)
    PROVE  Held(e, b, h, Plus(t, k), p + k)
<1>1. Readable(h, t) \in Nat /\ t \in Int
  BY OccupancyIs, Sizes DEF Counters
<1>2. Readable(h, Plus(t, k)) = Readable(h, t) - k
  BY Consumed DEF Counters
<1> SUFFICES ASSUME NEW i \in 0..(Readable(h, t)-k)-1
             PROVE  b[Offset(Plus(t, k), i, Cap)] = FrameOf(e, (p + k) + i)
  BY <1>2 DEF Held
<1>3. Offset(Plus(t, k), i, Cap) = Offset(t, k + i, Cap)
  BY <1>1, CellsMoveOn
<1>4. PICK j \in 0..Readable(h, t)-1 : j = k + i
  BY <1>1
<1>5. b[Offset(t, j, Cap)] = FrameOf(e, p + j)
  BY DEF Held
<1>6. p + j = (p + k) + i
  BY <1>1, <1>4
<1> QED
  BY <1>3, <1>4, <1>5, <1>6

\* Frames that were copied in behind a run and continue it are in it once they are
\* published.
LEMMA HeldPublished ==
    ASSUME NEW e, NEW b, NEW h \in Counters, NEW t \in Counters, NEW p \in Int,
           NEW frames \in Seq(Frames), Readable(h, t) + Len(frames) <= Cap,
           Held(e, b, h, t, p), CopiedIn(b, h, frames), Run(e, frames, p + Readable(h, t))
    PROVE  Held(e, b, Plus(h, Len(frames)), t, p)
<1> DEFINE n == Readable(h, t)
           k == Len(frames)
<1>1. n \in Nat /\ k \in Nat /\ n + k < CounterModulus
  <2>1. n \in 0..CounterModulus-1
    BY OccupancyIs DEF Counters
  <2> QED
    BY <2>1, Sizes
<1>2. Readable(Plus(h, k), t) = n + k
  BY <1>1, Published DEF Counters
<1> SUFFICES ASSUME NEW i \in 0..(n+k)-1
             PROVE  b[Offset(t, i, Cap)] = FrameOf(e, p + i)
  BY <1>2 DEF Held
<1>3. CASE i < n
  BY <1>1, <1>3 DEF Held
<1>4. CASE i >= n
  <2>1. PICK j \in 1..k : j = i - n + 1
    BY <1>1, <1>4
  <2>2. PICK l \in Int : l = j - 1
    BY <2>1
  <2>3. Offset(h, l, Cap) = Offset(t, n + l, Cap)
    BY CellsAtHead DEF Counters
  <2>4. n + l = i /\ (p + n) + j - 1 = p + i
    BY <1>1, <2>1, <2>2
  <2>5. b[Offset(h, j - 1, Cap)] = frames[j]
    BY DEF CopiedIn
  <2>6. frames[j] = FrameOf(e, (p + n) + j - 1)
    BY DEF Run
  <2> QED
    BY <2>2, <2>3, <2>4, <2>5, <2>6
<1> QED
  BY <1>1, <1>3, <1>4

\* What the copy of a write makes of the cells.
LEMMA FilledCells ==
    ASSUME head \in Counters, NEW frames \in Seq(Frames), NEW j \in 0..Cap-1
    PROVE  Filled(frames)[Offset(head, j, Cap)] =
               IF j < Len(frames) THEN frames[j + 1] ELSE buf[Offset(head, j, Cap)]
<1>1. head \in Int /\ j \in Int
  BY Sizes DEF Counters
<1>2. Offset(head, j, Cap) \in 0..Cap-1
  BY <1>1, CellType
<1>3. Minus(Offset(head, j, Cap), Masked(head, Cap)) % Cap = j
  BY <1>1, CellsSince
<1> QED
  BY <1>2, <1>3 DEF Filled

\* Cells hold frames after the copy of a write.
LEMMA FilledType ==
    ASSUME head \in Counters, buf \in Cells, NEW frames \in Seq(Frames)
    PROVE  Filled(frames) \in Cells
<1> SUFFICES ASSUME NEW c \in 0..Cap-1
             PROVE  LET i == Minus(c, Masked(head, Cap)) % Cap
                    IN  (IF i < Len(frames) THEN frames[i + 1] ELSE buf[c]) \in Frames
  BY DEF Filled, Cells
<1>1. PICK i \in Nat : i = Minus(c, Masked(head, Cap)) % Cap
  <2>1. Cap \in Nat \ {0} /\ CounterModulus \in Nat \ {0}
    BY Sizes
  <2>2. PICK r \in Int : r = head % Cap
    BY <2>1, Euclid DEF Counters
  <2>3. PICK d \in Int : d = c - r
    OBVIOUS
  <2>4. PICK m \in Int : m = d % CounterModulus
    BY <2>1, Euclid
  <2>5. m % Cap \in 0..Cap-1
    BY <2>1, Euclid
  <2> QED
    BY <2>1, <2>2, <2>3, <2>4, <2>5 DEF Minus, Masked
<1>2. i < Len(frames) => frames[i + 1] \in Frames
  OBVIOUS
<1> QED
  BY <1>1, <1>2 DEF Cells

\* The copy of a write that fits puts its frames behind the head and touches nothing
\* that the ring holds.
LEMMA HeldFilled ==
    ASSUME head \in Counters, tail \in Counters, NEW frames \in Seq(Frames),
           Occupied + Len(frames) <= Cap
    PROVE  /\ CopiedIn(Filled(frames), head, frames)
           /\ \A e : \A p \in Int :
                 Held(e, buf, head, tail, p) => Held(e, Filled(frames), head, tail, p)
<1>1. Occupied \in Nat /\ Len(frames) \in Nat /\ Cap \in Nat \ {0}
  BY OccupancyIs, Sizes DEF Counters, Occupied
<1>2. CopiedIn(Filled(frames), head, frames)
  <2> SUFFICES ASSUME NEW i \in 1..Len(frames)
               PROVE  Filled(frames)[Offset(head, i - 1, Cap)] = frames[i]
    BY DEF CopiedIn
  <2>1. PICK j \in 0..Cap-1 : j = i - 1
    BY <1>1
  <2>2. j < Len(frames) /\ j + 1 = i
    BY <1>1, <2>1
  <2> QED
    BY <2>1, <2>2, FilledCells
<1>3. ASSUME NEW e, NEW p \in Int, Held(e, buf, head, tail, p)
      PROVE  Held(e, Filled(frames), head, tail, p)
  <2> SUFFICES ASSUME NEW i \in 0..Occupied-1
               PROVE  Filled(frames)[Offset(tail, i, Cap)] = FrameOf(e, p + i)
    BY DEF Held, Occupied
  <2>1. buf[Offset(tail, i, Cap)] = FrameOf(e, p + i)
    BY <1>3 DEF Held, Occupied
  <2>2. PICK j \in Int : j = Cap - Occupied + i
    BY <1>1
  <2>3. j \in 0..Cap-1 /\ j >= Len(frames)
    BY <1>1, <2>2
  <2>4. Offset(head, j, Cap) = Offset(tail, Occupied + j, Cap)
    BY CellsAtHead DEF Counters, Occupied
  <2>5. Occupied + j = Cap + i
    BY <1>1, <2>2
  <2>6. Offset(tail, Cap + i, Cap) = Offset(tail, i, Cap)
    BY <1>1, CellsRound DEF Counters
  <2>7. Filled(frames)[Offset(head, j, Cap)] = buf[Offset(head, j, Cap)]
    BY <1>1, <2>3, FilledCells
  <2> QED
    BY <2>1, <2>4, <2>5, <2>6, <2>7
<1> QED
  BY <1>2, <1>3

\* The first frames of what the ring holds, in sequence.
LEMMA CopiedRun ==
    ASSUME buf \in Cells, head \in Counters, tail \in Counters,
           NEW n \in Nat
    PROVE  /\ Copied(n) \in Seq(Frames) /\ Len(Copied(n)) = n
           /\ \A e : \A p \in Int :
                 n <= Occupied /\ Held(e, buf, head, tail, p) => Run(e, Copied(n), p)
<1>1. Occupied \in Nat /\ tail \in Int
  BY OccupancyIs, Sizes DEF Counters, Occupied
<1>2. ASSUME NEW i \in 1..n PROVE buf[Offset(tail, i - 1, Cap)] \in Frames
  <2>1. PICK j \in Int : j = i - 1
    OBVIOUS
  <2>2. Offset(tail, j, Cap) \in 0..Cap-1
    BY <1>1, CellType
  <2> QED
    BY <2>1, <2>2 DEF Cells
<1>3. Copied(n) \in [1..n -> Frames]
  BY <1>2 DEF Copied
<1>4. Copied(n) \in Seq(Frames) /\ Len(Copied(n)) = n
  BY <1>3
<1>5. ASSUME NEW e, NEW p \in Int, n <= Occupied, Held(e, buf, head, tail, p)
      PROVE  Run(e, Copied(n), p)
  <2> SUFFICES ASSUME NEW i \in 1..n PROVE Copied(n)[i] = FrameOf(e, p + i - 1)
    BY <1>4 DEF Run
  <2>1. PICK j \in 0..Occupied-1 : j = i - 1
    BY <1>1, <1>5
  <2>2. buf[Offset(tail, j, Cap)] = FrameOf(e, p + j)
    BY <1>5 DEF Held, Occupied
  <2>3. Copied(n)[i] = buf[Offset(tail, i - 1, Cap)]
    BY DEF Copied
  <2>4. p + j = p + i - 1
    BY <2>1
  <2> QED
    BY <2>1, <2>2, <2>3, <2>4
<1> QED
  BY <1>4, <1>5

\* Nothing is a run of any stream, from anywhere.
LEMMA HeldEmpty == \A e, b, p : Held(e, b, 0, 0, p)
BY EmptyRing DEF Held

LEMMA RunEmpty == \A e, p : Run(e, <<>>, p)
BY DEF Run

\* Two runs one behind the other are one run.
LEMMA RunAppended ==
    ASSUME NEW e, NEW f \in Seq(Frames), NEW g \in Seq(Frames),
           Run(e, f, 0), Run(e, g, Len(f))
    PROVE  Run(e, f \o g, 0)
<1>1. f \o g \in Seq(Frames) /\ Len(f \o g) = Len(f) + Len(g) /\ Len(f) \in Nat /\ Len(g) \in Nat
  OBVIOUS
<1> SUFFICES ASSUME NEW i \in 1..(Len(f) + Len(g)) PROVE (f \o g)[i] = FrameOf(e, 0 + i - 1)
  BY <1>1 DEF Run
<1>2. CASE i <= Len(f)
  <2>1. (f \o g)[i] = f[i]
    BY <1>2
  <2> QED
    BY <1>1, <1>2, <2>1 DEF Run
<1>3. CASE i > Len(f)
  <2>1. PICK j \in 1..Len(g) : j = i - Len(f)
    BY <1>1, <1>3
  <2>2. (f \o g)[i] = g[j]
    BY <1>1, <1>3, <2>1
  <2>3. g[j] = FrameOf(e, Len(f) + j - 1)
    BY DEF Run
  <2>4. Len(f) + j - 1 = 0 + i - 1
    BY <1>1, <2>1
  <2> QED
    BY <2>2, <2>3, <2>4
<1> QED
  BY <1>1, <1>2, <1>3

-----------------------------------------------------------------------------
(* What holds between the places of the two contexts. *)

\* Counters stay in range.
LEMMA CounterType ==
    ASSUME NEW c \in Counters, NEW k \in Nat PROVE Plus(c, k) \in 0..CounterModulus-1
<1>1. CounterModulus \in Nat \ {0}
  BY Sizes
<1>2. c + k \in Int
  BY <1>1 DEF Counters
<1> QED
  BY <1>1, <1>2, Euclid DEF Plus

\* Room is a number, whatever the counters are.
LEMMA RoomType ==
    ASSUME NEW h \in Counters, NEW t \in Counters PROVE Writable(Cap, h, t) \in Nat
<1>1. CounterModulus \in Nat \ {0} /\ Cap \in Nat
  BY Sizes
<1>2. Readable(h, t) \in Int
  BY OccupancyIs, Sizes DEF Counters
<1>3. PICK room \in Int : room = Cap - Readable(h, t)
  BY <1>1, <1>2
<1>4. room % CounterModulus \in 0..CounterModulus-1
  BY <1>1, Euclid
<1> QED
  BY <1>1, <1>3, <1>4 DEF Writable, Readable, Minus

\* Frames that are read or brought in, one after the other.
LEMMA FramesRead ==
    ASSUME epoch \in 1..MaxEpoch, NEW p \in Nat, NEW n \in Nat
    PROVE  LET frames == [i \in 1..n |-> Frame(p + i - 1)]
           IN  frames \in Seq(Frames) /\ Len(frames) = n /\ Run(epoch, frames, p)
<1> DEFINE frames == [i \in 1..n |-> Frame(p + i - 1)]
<1>1. ASSUME NEW i \in 1..n
      PROVE  Frame(p + i - 1) \in Frames /\ Frame(p + i - 1) = FrameOf(epoch, p + i - 1)
  <2>1. PICK q \in Int : q = p + i - 1
    OBVIOUS
  <2> QED
    BY <2>1, FrameType, FrameIs
<1>2. frames \in [1..n -> Frames]
  BY <1>1
<1>3. frames \in Seq(Frames) /\ Len(frames) = n
  BY <1>2
<1> QED
  BY <1>1, <1>3 DEF Run

\* The mode, the file, and the places of the two contexts move together.
LEMMA SteadyStep ==
    ASSUME IsrAtomic, Steady, [Next]_vars
    PROVE  Steady'
<1> USE DEF Steady, Types, MainInMode, FileInUse, IsrInMode, BeginsEmpty, PlayStarts, RecordStarts,
            Parked, Seeks, Pumps, Drains, MainPlaces, MainAt, MainRuns, Return,
            shared, ring, source, pump, record, isrv, hist, vars
<1> USE Sizes
<1>1. ASSUME StartPlay PROVE Steady'
  BY <1>1 DEF StartPlay
<1>2. ASSUME StartRecord PROVE Steady'
  <2>1. <<>> \in Seq(Frames) /\ Len(<<>>) = 0
    OBVIOUS
  <2>2. Types'
    <3>1. take' \in Seq(Frames) /\ epoch' \in 0..MaxEpoch /\ accepted' \in 0..MaxTake
      BY <1>2, <2>1 DEF StartRecord
    <3>2. main' \in MainPlaces /\ file' \in {"open", "closed"} /\ stopping' \in BOOLEAN
      BY <1>2 DEF StartRecord
    <3>3. UNCHANGED <<shared, rawSrc, loop, len, remaining, pump, finalizing, isrv, fed, heard>>
      BY <1>2 DEF StartRecord
    <3> QED
      BY <3>1, <3>2, <3>3
  <2>3. MainInMode'
    BY <1>2, <2>1 DEF StartRecord
  <2>4. FileInUse'
    BY <1>2, <2>1 DEF StartRecord
  <2>5. IsrInMode'
    BY <1>2, <2>1 DEF StartRecord
  <2>6. BeginsEmpty'
    BY <1>2, <2>1 DEF StartRecord
  <2> HIDE DEF Types, MainInMode, FileInUse, IsrInMode, BeginsEmpty
  <2> QED
    BY <2>2, <2>3, <2>4, <2>5, <2>6
<1>3. ASSUME StartRefused PROVE Steady'
  BY <1>3 DEF StartRefused
<1>4. ASSUME Stop PROVE Steady'
  <2>1. Types'
    BY <1>4 DEF Stop
  <2>2. MainInMode' /\ FileInUse'
    BY <1>4 DEF Stop
  <2>3. IsrInMode' /\ BeginsEmpty'
    BY <1>4 DEF Stop
  <2> HIDE DEF Types, MainInMode, FileInUse, IsrInMode, BeginsEmpty
  <2> QED
    BY <2>1, <2>2, <2>3
<1>5. ASSUME SetLoop PROVE Steady'
  BY <1>5 DEF SetLoop
<1>6. ASSUME SeekBegin PROVE Steady'
  BY <1>6 DEF SeekBegin
<1>7. ASSUME Reset PROVE Steady'
  <2>1. 0 \in Counters
    BY DEF Counters
  <2>2. PICK op \in {"play", "record", "seek"} :
            \/ /\ main = ResetHead(op) /\ main' = ResetTail(op)
               /\ head' = 0 /\ UNCHANGED tail
            \/ /\ main = ResetTail(op) /\ main' = ArmFor(op)
               /\ tail' = 0 /\ UNCHANGED head
    BY <1>7 DEF Reset
  <2>3. isr = "idle" /\ UNCHANGED <<mode, gen, buf, eof, source, pump, record, isrv, hist>>
    BY <1>7 DEF Reset
  <2>4. CASE op = "play"
    <3>1. \/ main = "reset_play" /\ main' = "tail_play" /\ head' = 0 /\ UNCHANGED tail
          \/ main = "tail_play" /\ main' = "arm_play" /\ tail' = 0 /\ UNCHANGED head
      BY <2>2, <2>4 DEF ResetHead, ResetTail, ArmFor
    <3>2. Types'
      BY <2>1, <2>3, <3>1 DEF Counters
    <3>3. MainInMode' /\ FileInUse' /\ IsrInMode' /\ BeginsEmpty'
      BY <2>3, <3>1
    <3> QED
      BY <3>2, <3>3
  <2>5. CASE op = "record"
    <3>1. \/ main = "reset_record" /\ main' = "tail_record" /\ head' = 0 /\ UNCHANGED tail
          \/ main = "tail_record" /\ main' = "arm_record" /\ tail' = 0 /\ UNCHANGED head
      BY <2>2, <2>5 DEF ResetHead, ResetTail, ArmFor
    <3>2. Types'
      BY <2>1, <2>3, <3>1 DEF Counters
    <3>3. MainInMode' /\ FileInUse' /\ IsrInMode' /\ BeginsEmpty'
      BY <2>3, <3>1
    <3> QED
      BY <3>2, <3>3
  <2>6. CASE op = "seek"
    <3>1. \/ main = "reset_seek" /\ main' = "tail_seek" /\ head' = 0 /\ UNCHANGED tail
          \/ main = "tail_seek" /\ main' = "arm_seek" /\ tail' = 0 /\ UNCHANGED head
      BY <2>2, <2>6 DEF ResetHead, ResetTail, ArmFor
    <3>2. Types'
      BY <2>1, <2>3, <3>1 DEF Counters
    <3>3. MainInMode' /\ FileInUse' /\ IsrInMode' /\ BeginsEmpty'
      BY <2>3, <3>1
    <3> QED
      BY <3>2, <3>3
  <2> QED
    BY <2>2, <2>4, <2>5, <2>6
<1>8. ASSUME Arm PROVE Steady'
  BY <1>8 DEF Arm
<1>9. ASSUME SeekPark PROVE Steady'
  BY <1>9 DEF SeekPark
<1>10. ASSUME SeekFile PROVE Steady'
  <2>1. Types'
    <3>1. /\ remaining' \in 0..len /\ eof' \in BOOLEAN /\ main' \in MainPlaces
          /\ file' \in {"open", "closed"} /\ epoch' \in 0..MaxEpoch
          /\ fed' \in 0..Names-1 /\ heard' \in 0..Names-1
      <4>1. /\ remaining \in 0..len /\ eof \in BOOLEAN /\ file \in {"open", "closed"}
            /\ epoch \in 0..MaxEpoch /\ fed \in 0..Names-1 /\ heard \in 0..Names-1
        OBVIOUS
      <4>2. epoch < MaxEpoch
        BY <1>10 DEF SeekFile
      <4>3. epoch + 1 \in 0..MaxEpoch /\ 0 \in 0..Names-1
        BY <4>1, <4>2
      <4> HIDE DEF Steady, Types, MainInMode, FileInUse, IsrInMode, BeginsEmpty
      <4> QED
        BY <1>10, <4>1, <4>3 DEF SeekFile
    <3>2. UNCHANGED <<mode, gen, ring, rawSrc, loop, len, rewinds, chunk, record, isrv, accepted>>
      <4> HIDE DEF Steady, Types, MainInMode, FileInUse, IsrInMode, BeginsEmpty
      <4> QED
        BY <1>10 DEF SeekFile
    <3> QED
      BY <3>1, <3>2
  <2>2. MainInMode' /\ FileInUse'
    BY <1>10 DEF SeekFile
  <2>3. IsrInMode' /\ BeginsEmpty'
    BY <1>10 DEF SeekFile
  <2> HIDE DEF Types, MainInMode, FileInUse, IsrInMode, BeginsEmpty
  <2> QED
    BY <2>1, <2>2, <2>3
<1>11. ASSUME SeekEnd PROVE Steady'
  BY <1>11 DEF SeekEnd
<1>12. ASSUME PumpPlay PROVE Steady'
  BY <1>12 DEF PumpPlay
<1>13. ASSUME PumpRead PROVE Steady'
  <2>1. PICK got \in Nat : /\ got <= Scratch /\ got <= remaining
                          /\ chunk' = [i \in 1..got |-> Frame(fed + i - 1)]
                          /\ remaining' = remaining - got
                          /\ fed' = (fed + got) % Names
    BY <1>13, RoomType DEF PumpRead, Least, Counters
  <2>2. chunk' \in Seq(Frames) /\ Len(chunk') = got
    <3>1. epoch \in 1..MaxEpoch /\ fed \in Nat /\ got \in Nat
      BY <1>13, <2>1 DEF PumpRead
    <3> HIDE DEF Steady, Types, MainInMode, FileInUse, IsrInMode, BeginsEmpty
    <3> QED
      BY <2>1, <3>1, FramesRead
  <2>3. fed' \in 0..Names-1
    BY <2>1, Euclid
  <2>4. Types'
    <3>1. len \in Nat /\ remaining \in 0..len
      BY DeckAssumption
    <3>2. remaining' \in 0..len /\ Len(chunk') <= Scratch
      <4> HIDE DEF Steady, Types, MainInMode, FileInUse, IsrInMode, BeginsEmpty
      <4> QED
        BY <2>1, <2>2, <3>1
    <3>3. main' \in MainPlaces /\ UNCHANGED <<shared, file, rawSrc, loop, len, rewinds, record, isrv,
                                             epoch, heard, accepted>>
      BY <1>13 DEF PumpRead
    <3> QED
      BY <2>2, <2>3, <3>1, <3>2, <3>3
  <2>5. MainInMode'
    BY <1>13, <2>1, <2>2, <2>3 DEF PumpRead
  <2>6. FileInUse'
    BY <1>13, <2>1, <2>2, <2>3 DEF PumpRead
  <2>7. IsrInMode'
    BY <1>13, <2>1, <2>2, <2>3 DEF PumpRead
  <2>8. BeginsEmpty'
    BY <1>13, <2>1, <2>2, <2>3 DEF PumpRead
  <2> HIDE DEF Types, MainInMode, FileInUse, IsrInMode, BeginsEmpty
  <2> QED
    BY <2>4, <2>5, <2>6, <2>7, <2>8
<1>14. ASSUME PumpDry PROVE Steady'
  <2>1. Types'
    <3>1. /\ remaining' \in 0..len /\ eof' \in BOOLEAN /\ main' \in MainPlaces
          /\ rewinds' \in 0..2
      BY <1>14 DEF PumpDry
    <3>2. UNCHANGED <<mode, gen, ring, file, rawSrc, loop, len, chunk, record, isrv, hist>>
      BY <1>14 DEF PumpDry
    <3> QED
      BY <3>1, <3>2
  <2>2. MainInMode' /\ FileInUse'
    BY <1>14 DEF PumpDry
  <2>3. IsrInMode' /\ BeginsEmpty'
    BY <1>14 DEF PumpDry
  <2> HIDE DEF Types, MainInMode, FileInUse, IsrInMode, BeginsEmpty
  <2> QED
    BY <2>1, <2>2, <2>3
<1>15. ASSUME PumpFull PROVE Steady'
  BY <1>15 DEF PumpFull
<1>16. ASSUME PumpFill PROVE Steady'
  <2>1. chunk' \in Seq(Frames) /\ Len(chunk') <= Scratch
    BY <1>16, RoomType DEF PumpFill, Least, Counters
  <2>2. buf' \in Cells
    BY <1>16, <2>1, FilledType DEF PumpFill, Counters, Cells
  <2> QED
    BY <1>16, <2>1, <2>2 DEF PumpFill, Cells
<1>17. ASSUME PumpPublish PROVE Steady'
  <2>1. head' \in 0..CounterModulus-1
    BY <1>17, CounterType DEF PumpPublish, Counters
  <2>2. chunk' \in Seq(Frames) /\ Len(chunk') = 0 /\ chunk' = <<>>
    BY <1>17 DEF PumpPublish
  <2> QED
    BY <1>17, <2>1, <2>2 DEF PumpPublish
<1>18. ASSUME PumpPlayed PROVE Steady'
  BY <1>18 DEF PumpPlayed
<1>19. ASSUME FinishPlay PROVE Steady'
  BY <1>19 DEF FinishPlay
<1>20. ASSUME PumpRecord PROVE Steady'
  BY <1>20 DEF PumpRecord
<1>21. ASSUME DrainRead PROVE Steady'
  BY <1>21 DEF DrainRead
<1>22. ASSUME DrainSink PROVE Steady'
  <2>1. tail' \in 0..CounterModulus-1
    BY <1>22, CounterType DEF DrainSink, Counters
  <2>2. chunk' \in Seq(Frames) /\ Len(chunk') = 0 /\ chunk' = <<>> /\ take' \in Seq(Frames)
    BY <1>22 DEF DrainSink
  <2> QED
    BY <1>22, <2>1, <2>2 DEF DrainSink
<1>23. ASSUME Drained PROVE Steady'
  BY <1>23 DEF Drained
<1>24. ASSUME ConsumeEnter PROVE Steady'
  BY <1>24 DEF ConsumeEnter
<1>25. ASSUME ConsumeMode PROVE Steady'
  <2>1. <<>> \in Seq(Frames) /\ Len(<<>>) = 0
    OBVIOUS
  <2>2. CASE mode = "play"
    BY <1>25, <2>2 DEF ConsumeMode
  <2>3. CASE mode # "play"
    BY <1>25, <2>1, <2>3 DEF ConsumeMode
  <2> QED
    BY <2>2, <2>3
<1>26. ASSUME ConsumeCopy PROVE Steady'
  <2>1. PICK n \in Nat : n <= Block /\ n = Least(Readable(head, tail), Block)
    BY OccupancyIs DEF Least
  <2>2. blk' = Copied(n) /\ Copied(n) \in Seq(Frames) /\ Len(Copied(n)) = n
    BY <1>26, <2>1, CopiedRun DEF ConsumeCopy, Counters, Cells
  <2>3. blk' \in Seq(Frames) /\ Len(blk') <= Block
    BY <2>1, <2>2
  <2> QED
    BY <1>26, <2>3 DEF ConsumeCopy
<1>27. ASSUME ConsumeTake PROVE Steady'
  <2>1. tail' \in 0..CounterModulus-1
    BY <1>27, CounterType DEF ConsumeTake, Counters
  <2> QED
    BY <1>27, <2>1 DEF ConsumeTake
<1>28. ASSUME ConsumeRecheck PROVE Steady'
  BY <1>28 DEF ConsumeRecheck
<1>29. ASSUME ProduceMode PROVE Steady'
  BY <1>29 DEF ProduceMode
<1>30. ASSUME ProducePut PROVE Steady'
  <2>1. PICK n \in Nat : n <= Block /\ n = Least(Writable(Cap, head, tail), Block)
    BY RoomType DEF Least, Counters
  <2>2. blk' \in Seq(Frames) /\ Len(blk') = n
    <3>1. epoch \in 1..MaxEpoch /\ accepted \in Nat /\ n \in Nat
      BY <1>30, <2>1 DEF ProducePut
    <3>2. blk' = [i \in 1..n |-> Frame(accepted + i - 1)]
      BY <1>30, <2>1 DEF ProducePut
    <3> HIDE DEF Steady, Types, MainInMode, FileInUse, IsrInMode, BeginsEmpty
    <3> QED
      BY <3>1, <3>2, FramesRead
  <2>3. buf' \in Cells
    BY <1>30, <2>2, FilledType DEF ProducePut, Counters, Cells
  <2> QED
    BY <1>30, <2>1, <2>2, <2>3 DEF ProducePut, Cells
<1>31. ASSUME ProduceEnd PROVE Steady'
  <2>1. head' \in 0..CounterModulus-1
    BY <1>31, CounterType DEF ProduceEnd, Counters
  <2>2. accepted' \in 0..MaxTake
    BY <1>31 DEF ProduceEnd
  <2>3. blk' \in Seq(Frames) /\ Len(blk') = 0 /\ blk' = <<>>
    BY <1>31 DEF ProduceEnd
  <2> QED
    BY <1>31, <2>1, <2>2, <2>3 DEF ProduceEnd
<1>32. ASSUME UNCHANGED vars PROVE Steady'
  BY <1>32
<1> QED
  BY <1>1, <1>2, <1>3, <1>4, <1>5, <1>6, <1>7, <1>8, <1>9, <1>10, <1>11, <1>12, <1>13, <1>14,
     <1>15, <1>16, <1>17, <1>18, <1>19, <1>20, <1>21, <1>22, <1>23, <1>24, <1>25, <1>26,
     <1>27, <1>28, <1>29, <1>30, <1>31, <1>32 DEF Next, Control, Pump, Interrupt

\* What the ring holds is a number below the modulus.
LEMMA OccupancyType ==
    ASSUME head \in Counters, tail \in Counters
    PROVE  Occupied \in Nat /\ Occupied < CounterModulus
BY OccupancyIs, Sizes DEF Counters, Occupied

\* No step breaks the run that is played: the pump continues it where it ends, the
\* interrupt takes from where it begins, and a start or a seek begins an empty one.
LEMMA PlayRunStep ==
    ASSUME IsrAtomic, Steady, PlayRun, [Next]_vars
    PROVE  PlayRun'
<1> USE DEF PlayRun, Playing, Occupied, Lag, Steady, MainInMode, IsrInMode, PlayStarts,
            RecordStarts, Parked, Seeks,
            Pumps, Drains, MainAt, MainRuns, Return, shared, ring, source, pump, record, isrv,
            hist, vars
<1>1. ASSUME StartPlay PROVE PlayRun'
  BY <1>1 DEF StartPlay
<1>2. ASSUME StartRecord PROVE PlayRun'
  BY <1>2 DEF StartRecord
<1>3. ASSUME StartRefused PROVE PlayRun'
  BY <1>3 DEF StartRefused
<1>4. ASSUME Stop PROVE PlayRun'
  BY <1>4 DEF Stop
<1>5. ASSUME SetLoop PROVE PlayRun'
  BY <1>5 DEF SetLoop
<1>6. ASSUME SeekBegin PROVE PlayRun'
  BY <1>6 DEF SeekBegin
<1>7. ASSUME Reset PROVE PlayRun'
  <2>1. PICK op \in {"play", "record", "seek"} :
            \/ main' = ResetTail(op) /\ main = ResetHead(op)
            \/ main = ResetTail(op) /\ main' = ArmFor(op) /\ tail' = 0 /\ UNCHANGED head
    BY <1>7 DEF Reset
  <2>2. isr = "idle" /\ UNCHANGED <<mode, gen, buf, eof, source, pump, record, isrv, hist>>
    BY <1>7 DEF Reset
  <2> SUFFICES ASSUME Playing' PROVE PlayRun'
    OBVIOUS
  <2>3. main \in {"tail_play", "tail_seek"} /\ tail' = 0 /\ head' = 0
    <3>1. main' \in {"arm_play", "arm_seek"}
      BY <2>1, <2>2 DEF ResetHead, ResetTail, ArmFor
    <3> QED
      BY <2>1, <3>1 DEF ResetHead, ResetTail, ArmFor, BeginsEmpty
  <2>4. main' \in {"arm_play", "arm_seek"}
    BY <2>1, <2>3 DEF ResetHead, ResetTail, ArmFor
  <2>5. heard = 0 /\ fed = 0 /\ chunk = <<>> /\ blk = <<>>
    BY <2>2, <2>3 DEF BeginsEmpty
  <2>6. Readable(0, 0) = 0 /\ 0 % Names = 0 /\ Cap \in Nat
    <3>1. 0 \in 0..Names-1
      BY Sizes
    <3> QED
      BY <3>1, EmptyRing, InRange, Sizes
  <2> QED
    BY <2>2, <2>3, <2>4, <2>5, <2>6, HeldEmpty, RunEmpty
<1>8. ASSUME Arm PROVE PlayRun'
  BY <1>8 DEF Arm
<1>9. ASSUME SeekPark PROVE PlayRun'
  BY <1>9 DEF SeekPark
<1>10. ASSUME SeekFile PROVE PlayRun'
  BY <1>10 DEF SeekFile
<1>11. ASSUME SeekEnd PROVE PlayRun'
  BY <1>11 DEF SeekEnd
<1>12. ASSUME PumpPlay PROVE PlayRun'
  BY <1>12 DEF PumpPlay
<1>13. ASSUME PumpRead PROVE PlayRun'
  <2>1. PICK n \in Nat, room \in Nat : n = Occupied /\ room = Writable(Cap, head, tail)
                                     /\ n <= Cap /\ room = Cap - n
    <3>1. Occupied \in Nat /\ Len(chunk) = 0 /\ Occupied <= Cap
      BY <1>13, OccupancyIs, Sizes DEF PumpRead, Types
    <3> QED
      BY <1>13, <3>1, RoomIs, Sizes DEF PumpRead, Types
  <2>2. PICK got \in Nat : /\ got <= room
                          /\ chunk' = [i \in 1..got |-> Frame(fed + i - 1)]
                          /\ fed' = (fed + got) % Names
    <3>1. Scratch \in Nat /\ remaining \in Nat
      BY Sizes, DeckAssumption DEF Types
    <3>2. PICK got \in 1..Least(Least(room, Scratch), remaining) :
              chunk' = [i \in 1..got |-> Frame(fed + i - 1)] /\ fed' = (fed + got) % Names
      BY <1>13, <2>1 DEF PumpRead
    <3>3. got \in Nat /\ got <= room
      BY <2>1, <3>1 DEF Least
    <3> QED
      BY <3>2, <3>3
  <2>3. chunk' \in Seq(Frames) /\ Len(chunk') = got /\ Run(epoch, chunk', fed)
    <3>1. epoch \in 1..MaxEpoch /\ fed \in Nat /\ got \in Nat
      BY <1>13, <2>2, Sizes DEF PumpRead, Types
    <3> HIDE DEF Steady, PlayRun, MainInMode, IsrInMode
    <3> QED
      BY <2>2, <3>1, FramesRead
  <2>4. PICK p \in Nat : p = heard + Lag + n
    BY <1>13, <2>1 DEF PumpRead, Types
  <2>5. fed = p % Names
    BY <1>13, <2>1, <2>4 DEF PumpRead
  <2>6. Run(epoch, chunk', p)
    <3>1. Run(epoch, chunk', (p % Names) + 0) <=> Run(epoch, chunk', p + 0)
      <4>1. chunk' \in Seq(Frames) /\ p \in Int
        BY <2>3
      <4> HIDE DEF Steady, PlayRun, MainInMode, IsrInMode
      <4> QED
        BY <4>1, RunCounts
    <3>2. fed + 0 = fed /\ p + 0 = p
      BY DEF Types
    <3> QED
      BY <2>3, <2>5, <3>1, <3>2
  <2>7. fed' = (p + got) % Names
    <3>1. Names \in Nat \ {0} /\ p \in Int /\ got \in Int
      BY Sizes
    <3>2. ((p % Names) + got) % Names = (p + got) % Names
      <4> HIDE DEF Steady, PlayRun, MainInMode, IsrInMode
      <4> QED
        BY <3>1, RemainderCountsOn
    <3> QED
      BY <2>2, <2>5, <3>2
  <2>8. /\ mode = "play" /\ main' = "fill" /\ isr = "idle" /\ n + got <= Cap /\ Len(chunk') = got
        /\ UNCHANGED <<shared, isrv, epoch, heard>>
        /\ Held(epoch, buf, head, tail, heard + Lag)
    BY <1>13, <2>1, <2>2, <2>3, Sizes DEF PumpRead
  <2> HIDE DEF Steady, MainInMode, IsrInMode
  <2> QED
    BY <2>1, <2>4, <2>6, <2>7, <2>8
<1>14. ASSUME PumpDry PROVE PlayRun'
  BY <1>14 DEF PumpDry
<1>15. ASSUME PumpFull PROVE PlayRun'
  BY <1>15 DEF PumpFull
<1>16. ASSUME PumpFill PROVE PlayRun'
  <2>1. head \in Counters /\ tail \in Counters /\ buf \in Cells /\ chunk \in Seq(Frames)
    BY DEF Types, Counters, Cells
  <2>2. Playing /\ Occupied + Len(chunk) <= Cap /\ Occupied \in Nat
    BY <1>16, <2>1, OccupancyIs, Sizes DEF PumpFill, Counters
  <2>3. chunk' = chunk
    <3>1. Writable(Cap, head, tail) = Cap - Occupied
      BY <2>1, <2>2, RoomIs, Sizes DEF Counters
    <3>2. Least(Writable(Cap, head, tail), Len(chunk)) = Len(chunk)
      BY <2>1, <2>2, <3>1, Sizes DEF Least
    <3> QED
      BY <1>16, <2>1, <3>2 DEF PumpFill
  <2>4. CopiedIn(buf', head, chunk)
    BY <1>16, <2>1, <2>2, <2>3, HeldFilled DEF PumpFill
  <2>5. Held(epoch, buf', head, tail, heard + Lag)
    <3>1. PICK p \in Int : p = heard + Lag
      BY <1>16 DEF PumpFill, Types
    <3> QED
      BY <1>16, <2>1, <2>2, <2>3, <3>1, HeldFilled DEF PumpFill
  <2> QED
    BY <1>16, <2>3, <2>4, <2>5 DEF PumpFill
<1>17. ASSUME PumpPublish PROVE PlayRun'
  <2>1. head \in Counters /\ tail \in Counters /\ chunk \in Seq(Frames) /\ heard \in Nat
        /\ Lag = 0
    BY <1>17 DEF PumpPublish, Types, Counters
  <2>2. /\ Occupied \in Nat /\ Occupied + Len(chunk) <= Cap /\ Occupied + Len(chunk) < CounterModulus
        /\ CopiedIn(buf, head, chunk)
        /\ Held(epoch, buf, head, tail, heard) /\ Run(epoch, chunk, heard + Occupied)
        /\ fed = (heard + Occupied + Len(chunk)) % Names
    <3>1. Occupied \in Nat /\ Cap < CounterModulus /\ Cap \in Nat /\ CounterModulus \in Nat
          /\ Len(chunk) \in Nat
      BY <2>1, OccupancyType, Sizes
    <3>2. /\ Occupied + Len(chunk) <= Cap /\ CopiedIn(buf, head, chunk)
          /\ Held(epoch, buf, head, tail, heard + 0) /\ Run(epoch, chunk, heard + 0 + Occupied)
          /\ fed = (heard + 0 + Occupied + Len(chunk)) % Names
      BY <1>17, <2>1 DEF PumpPublish
    <3>3. heard + 0 = heard
      BY <2>1
    <3> HIDE DEF Steady, PlayRun, MainInMode, IsrInMode, Occupied
    <3> QED
      BY <3>1, <3>2, <3>3
  <2>3. Readable(Plus(head, Len(chunk)), tail) = Occupied + Len(chunk)
    BY <2>1, <2>2, Published DEF Counters
  <2>4. Held(epoch, buf, Plus(head, Len(chunk)), tail, heard)
    <3>1. heard \in Int
      BY <2>1
    <3> QED
      BY <2>1, <2>2, <3>1, HeldPublished
  <2>5. /\ head' = Plus(head, Len(chunk)) /\ chunk' = <<>> /\ Len(chunk') = 0 /\ main' = "pump"
        /\ isr = "idle" /\ UNCHANGED <<tail, buf, isrv, hist, mode>>
    BY <1>17 DEF PumpPublish
  <2> QED
    BY <2>1, <2>2, <2>3, <2>4, <2>5, RunEmpty
<1>18. ASSUME PumpPlayed PROVE PlayRun'
  BY <1>18 DEF PumpPlayed
<1>19. ASSUME FinishPlay PROVE PlayRun'
  BY <1>19 DEF FinishPlay
<1>20. ASSUME PumpRecord PROVE PlayRun'
  BY <1>20 DEF PumpRecord
<1>21. ASSUME DrainRead PROVE PlayRun'
  BY <1>21 DEF DrainRead
<1>22. ASSUME DrainSink PROVE PlayRun'
  BY <1>22 DEF DrainSink
<1>23. ASSUME Drained PROVE PlayRun'
  BY <1>23 DEF Drained
<1>24. ASSUME ConsumeEnter PROVE PlayRun'
  BY <1>24 DEF ConsumeEnter
<1>25. ASSUME ConsumeMode PROVE PlayRun'
  BY <1>25 DEF ConsumeMode
<1>26. ASSUME ConsumeCopy PROVE PlayRun'
  <2>1. /\ head \in Counters /\ tail \in Counters /\ buf \in Cells /\ heard \in Int
        /\ mode = "play" /\ Lag = 0
    BY <1>26 DEF ConsumeCopy, Types, Counters, Cells
  <2>2. PICK n \in Nat : n <= Occupied /\ n = Least(Readable(head, tail), Block)
    <3>1. Occupied \in Nat /\ Block \in Nat
      BY <2>1, OccupancyType, Sizes
    <3> QED
      BY <3>1 DEF Least
  <2>3. blk' = Copied(n) /\ Len(blk') = n
    BY <1>26, <2>1, <2>2, CopiedRun DEF ConsumeCopy
  <2>4. Run(epoch, blk', heard)
    <3>1. Held(epoch, buf, head, tail, heard)
      BY <2>1
    <3> QED
      BY <2>1, <2>2, <2>3, <3>1, CopiedRun
  <2>5. n = 0 <=> blk' = <<>>
    BY <2>1, <2>2, <2>3, CopiedRun
  <2>6. Lag' = 0
    BY <1>26, <2>3, <2>5 DEF ConsumeCopy
  <2>7. isr' \in {"take", "recheck"} /\ tail0' = tail
        /\ UNCHANGED <<shared, main, source, pump, record, gen0, hist>>
    BY <1>26 DEF ConsumeCopy
  <2> QED
    BY <2>1, <2>2, <2>3, <2>4, <2>5, <2>6, <2>7
<1>27. ASSUME ConsumeTake PROVE PlayRun'
  <2>1. /\ head \in Counters /\ tail \in Counters /\ blk \in Seq(Frames) /\ heard \in Nat
        /\ mode = "play" /\ Lag = 0 /\ isr = "take" /\ tail0 = tail /\ Len(blk) <= Occupied
        /\ Held(epoch, buf, head, tail, heard)
    BY <1>27 DEF ConsumeTake, Types, Counters
  <2>2. Occupied \in Nat /\ Len(blk) \in Nat
    BY <2>1, OccupancyIs, Sizes DEF Counters
  <2>3. Readable(head, Plus(tail, Len(blk))) = Occupied - Len(blk)
    BY <2>1, <2>2, Consumed DEF Counters
  <2>4. Held(epoch, buf, head, Plus(tail, Len(blk)), heard + Len(blk))
    <3>1. PICK k \in Nat : k = Len(blk)
      BY <2>2
    <3>2. heard \in Int
      BY <2>1
    <3> QED
      BY <2>1, <3>1, <3>2, HeldConsumed
  <2>5. /\ tail' = Plus(tail, Len(blk)) /\ isr' = "recheck"
        /\ UNCHANGED <<mode, gen, head, buf, eof, main, source, pump, record, gen0, tail0, blk, hist>>
    BY <1>27, <2>1 DEF ConsumeTake
  <2>6. Lag' = Len(blk) /\ Occupied' = Occupied - Len(blk)
    BY <2>3, <2>5
  <2>7. (heard + Lag + Occupied)' = heard + Lag + Occupied
    BY <2>1, <2>2, <2>5, <2>6
  <2>8. Occupied' + Len(chunk) <= Cap /\ (main = "finish" => Occupied' = 0 /\ blk = <<>>)
    <3>1. Occupied + Len(chunk) <= Cap /\ Len(chunk) \in Nat /\ Cap \in Nat
          /\ (main = "finish" => Occupied = 0 /\ blk = <<>> /\ Len(blk) = 0)
      BY <2>1, Sizes DEF Types
    <3> HIDE DEF Steady, PlayRun, MainInMode, IsrInMode, Occupied
    <3> QED
      BY <2>2, <2>6, <3>1
  <2>9. Run(epoch, chunk, heard + Lag + Occupied) /\ Run(epoch, blk, heard)
        /\ fed = (heard + Lag + Occupied + Len(chunk)) % Names
        /\ (main = "publish" => CopiedIn(buf, head, chunk))
    BY <2>1
  <2> HIDE DEF Steady, Occupied, Lag, MainInMode, IsrInMode
  <2> QED
    BY <2>1, <2>4, <2>5, <2>6, <2>7, <2>8, <2>9
<1>28. ASSUME ConsumeRecheck PROVE PlayRun'
  <2>1. /\ head \in Counters /\ tail \in Counters /\ heard \in Nat /\ blk \in Seq(Frames)
        /\ mode = "play" /\ gen = gen0 /\ chunk \in Seq(Frames)
    BY <1>28 DEF ConsumeRecheck, Types, Counters
  <2>2. PICK p \in Nat, n \in Nat, k \in Nat :
            p = heard + Len(blk) /\ n = Occupied /\ k = Len(chunk)
    <3>1. Occupied \in Nat
      BY <2>1, OccupancyType
    <3> HIDE DEF Steady, PlayRun, MainInMode, IsrInMode, Occupied
    <3> QED
      BY <2>1, <3>1
  <2>3. /\ isr = "recheck" /\ heard' = p % Names /\ isr' = "idle" /\ blk' = <<>>
        /\ UNCHANGED <<shared, main, source, pump, record, epoch, fed, accepted>>
    BY <1>28, <2>1, <2>2 DEF ConsumeRecheck
  <2>4. Held(epoch, buf, head, tail, p) /\ Run(epoch, chunk, p + n) /\ fed = (p + n + k) % Names
    BY <2>1, <2>2, <2>3
  <2>5. Held(epoch, buf, head, tail, heard')
    BY <2>1, <2>2, <2>3, <2>4, HeldCounts DEF Counters
  <2>6. Run(epoch, chunk, heard' + n)
    BY <2>1, <2>2, <2>3, <2>4, RunCounts
  <2>7. fed = (heard' + n + k) % Names
    <3>1. PICK j \in Int : j = n + k
      OBVIOUS
    <3>2. ((p % Names) + j) % Names = (p + j) % Names
      <4>1. Names \in Nat \ {0} /\ p \in Int /\ j \in Int
        BY Sizes
      <4> HIDE DEF Steady, PlayRun, MainInMode, IsrInMode
      <4> QED
        BY <4>1, RemainderCountsOn
    <3>3. PICK q \in Int : q = p % Names
      BY Sizes, Euclid
    <3> QED
      BY <2>3, <2>4, <3>1, <3>2, <3>3
  <2>8. heard' \in Int
    BY <2>3, Sizes, Euclid
  <2>9. /\ Occupied + Len(chunk) <= Cap
        /\ (main = "publish" => CopiedIn(buf, head, chunk))
        /\ (main = "finish" => Occupied = 0)
    BY <2>1, <2>3
  <2>10. \A q \in Int : q + 0 = q
    OBVIOUS
  <2>11. PICK q \in Int : q = heard'
    BY <2>8
  <2>12. q + 0 = q
    BY <2>10
  <2> HIDE DEF Steady, MainInMode, IsrInMode
  <2> QED
    BY <2>2, <2>3, <2>5, <2>6, <2>7, <2>9, <2>11, <2>12
<1>29. ASSUME ProduceMode PROVE PlayRun'
  BY <1>29 DEF ProduceMode
<1>30. ASSUME ProducePut PROVE PlayRun'
  BY <1>30 DEF ProducePut
<1>31. ASSUME ProduceEnd PROVE PlayRun'
  BY <1>31 DEF ProduceEnd
<1>32. ASSUME UNCHANGED vars PROVE PlayRun'
  BY <1>32
<1> QED
  BY <1>1, <1>2, <1>3, <1>4, <1>5, <1>6, <1>7, <1>8, <1>9, <1>10, <1>11, <1>12, <1>13, <1>14,
     <1>15, <1>16, <1>17, <1>18, <1>19, <1>20, <1>21, <1>22, <1>23, <1>24, <1>25, <1>26,
     <1>27, <1>28, <1>29, <1>30, <1>31, <1>32 DEF Next, Control, Pump, Interrupt

\* Nor the run that is recorded: the interrupt continues it where it ends, and the
\* pump moves its beginning from the ring to the file.
LEMMA TakeRunStep ==
    ASSUME IsrAtomic, Steady, TakeRun, [Next]_vars
    PROVE  TakeRun'
<1> USE DEF TakeRun, Taking, Occupied, Steady, MainInMode, IsrInMode, PlayStarts, RecordStarts,
            Parked, Seeks,
            Pumps, Drains, MainAt, MainRuns, Return, shared, ring, source, pump, record, isrv,
            hist, vars
<1>1. ASSUME StartPlay PROVE TakeRun'
  BY <1>1 DEF StartPlay
<1>2. ASSUME StartRecord PROVE TakeRun'
  BY <1>2 DEF StartRecord
<1>3. ASSUME StartRefused PROVE TakeRun'
  BY <1>3 DEF StartRefused
<1>4. ASSUME Stop PROVE TakeRun'
  <2>1. CASE mode = "play"
    BY <1>4, <2>1 DEF Stop
  <2>2. CASE mode # "play"
    <3>1. mode = "record"
      BY <1>4, <2>2 DEF Stop, Types
    <3> QED
      BY <1>4, <3>1 DEF Stop
  <2> QED
    BY <2>1, <2>2
<1>5. ASSUME SetLoop PROVE TakeRun'
  BY <1>5 DEF SetLoop
<1>6. ASSUME SeekBegin PROVE TakeRun'
  BY <1>6 DEF SeekBegin
<1>7. ASSUME Reset PROVE TakeRun'
  <2>1. PICK op \in {"play", "record", "seek"} :
            \/ main' = ResetTail(op) /\ main = ResetHead(op)
            \/ main = ResetTail(op) /\ main' = ArmFor(op) /\ tail' = 0 /\ UNCHANGED head
    BY <1>7 DEF Reset
  <2>2. isr = "idle" /\ UNCHANGED <<mode, gen, buf, eof, source, pump, record, isrv, hist>>
    BY <1>7 DEF Reset
  <2> SUFFICES ASSUME Taking' PROVE TakeRun'
    OBVIOUS
  <2>3. main = "tail_record" /\ main' = "arm_record"
    BY <2>1, <2>2 DEF ResetHead, ResetTail, ArmFor
  <2>4. head' = 0 /\ tail' = 0 /\ accepted = 0 /\ take = <<>>
    BY <2>1, <2>3 DEF ResetHead, ResetTail, ArmFor, BeginsEmpty
  <2>5. Readable(0, 0) = 0 /\ Cap \in Nat
    BY EmptyRing, Sizes
  <2> QED
    BY <2>2, <2>3, <2>4, <2>5, HeldEmpty, RunEmpty
<1>8. ASSUME Arm PROVE TakeRun'
  BY <1>8 DEF Arm
<1>9. ASSUME SeekPark PROVE TakeRun'
  BY <1>9 DEF SeekPark
<1>10. ASSUME SeekFile PROVE TakeRun'
  BY <1>10 DEF SeekFile
<1>11. ASSUME SeekEnd PROVE TakeRun'
  BY <1>11 DEF SeekEnd
<1>12. ASSUME PumpPlay PROVE TakeRun'
  BY <1>12 DEF PumpPlay
<1>13. ASSUME PumpRead PROVE TakeRun'
  BY <1>13 DEF PumpRead
<1>14. ASSUME PumpDry PROVE TakeRun'
  BY <1>14 DEF PumpDry
<1>15. ASSUME PumpFull PROVE TakeRun'
  BY <1>15 DEF PumpFull
<1>16. ASSUME PumpFill PROVE TakeRun'
  BY <1>16 DEF PumpFill
<1>17. ASSUME PumpPublish PROVE TakeRun'
  BY <1>17 DEF PumpPublish
<1>18. ASSUME PumpPlayed PROVE TakeRun'
  BY <1>18 DEF PumpPlayed
<1>19. ASSUME FinishPlay PROVE TakeRun'
  BY <1>19 DEF FinishPlay
<1>20. ASSUME PumpRecord PROVE TakeRun'
  BY <1>20 DEF PumpRecord
<1>21. ASSUME DrainRead PROVE TakeRun'
  <2>1. head \in Counters /\ tail \in Counters /\ buf \in Cells /\ take \in Seq(Frames) /\ Taking
    BY <1>21 DEF DrainRead, Types, Counters, Cells
  <2>2. PICK n \in Nat : n <= Occupied /\ n = Least(Readable(head, tail), Scratch)
    <3>1. Occupied \in Nat /\ Scratch \in Nat
      BY <2>1, OccupancyType, Sizes
    <3> QED
      BY <3>1 DEF Least
  <2>3. chunk' = Copied(n) /\ Len(chunk') = n
    BY <1>21, <2>1, <2>2, CopiedRun DEF DrainRead
  <2>4. Run(epoch, chunk', Len(take))
    <3>1. PICK p \in Int : p = Len(take)
      BY <2>1
    <3>2. Held(epoch, buf, head, tail, p)
      BY <2>1, <3>1
    <3> QED
      BY <2>1, <2>2, <2>3, <3>1, <3>2, CopiedRun
  <2> QED
    BY <1>21, <2>1, <2>2, <2>3, <2>4 DEF DrainRead
<1>22. ASSUME DrainSink PROVE TakeRun'
  <2>1. /\ head \in Counters /\ tail \in Counters /\ take \in Seq(Frames) /\ chunk \in Seq(Frames)
        /\ Taking /\ accepted \in Nat
    BY <1>22 DEF DrainSink, Types, Counters
  <2>2. PICK p \in Nat, k \in Nat, n \in Nat : p = Len(take) /\ k = Len(chunk) /\ n = Occupied
    BY <2>1, OccupancyIs, Sizes DEF Counters
  <2>3. /\ n <= Cap /\ k <= n /\ accepted = p + n
        /\ Run(epoch, take, 0) /\ Run(epoch, chunk, p) /\ Held(epoch, buf, head, tail, p)
    BY <1>22, <2>1, <2>2 DEF DrainSink
  <2>4. /\ tail' = Plus(tail, k) /\ take' = take \o chunk /\ chunk' = <<>> /\ main' = "drain"
        /\ isr = "idle" /\ UNCHANGED <<mode, head, buf, finalizing, isrv, hist>>
    BY <1>22, <2>2 DEF DrainSink
  <2>5. Readable(head, tail') = n - k
    BY <2>1, <2>2, <2>3, <2>4, Consumed DEF Counters
  <2>6. Len(take') = p + k
    BY <2>1, <2>2, <2>4
  <2>7. Run(epoch, take', 0)
    BY <2>1, <2>2, <2>3, <2>4, RunAppended
  <2>8. Held(epoch, buf, head, tail', p + k)
    <3>1. p \in Int /\ k <= Readable(head, tail)
      BY <2>2, <2>3
    <3> QED
      BY <2>1, <2>3, <2>4, <3>1, HeldConsumed
  <2>9. n - k <= Cap /\ accepted = (p + k) + (n - k)
    BY <2>2, <2>3, Sizes
  <2> HIDE DEF Steady, MainInMode, IsrInMode
  <2> QED
    BY <2>4, <2>5, <2>6, <2>7, <2>8, <2>9
<1>23. ASSUME Drained PROVE TakeRun'
  BY <1>23 DEF Drained
<1>24. ASSUME ConsumeEnter PROVE TakeRun'
  BY <1>24 DEF ConsumeEnter
<1>25. ASSUME ConsumeMode PROVE TakeRun'
  BY <1>25 DEF ConsumeMode
<1>26. ASSUME ConsumeCopy PROVE TakeRun'
  BY <1>26 DEF ConsumeCopy
<1>27. ASSUME ConsumeTake PROVE TakeRun'
  BY <1>27 DEF ConsumeTake
<1>28. ASSUME ConsumeRecheck PROVE TakeRun'
  BY <1>28 DEF ConsumeRecheck
<1>29. ASSUME ProduceMode PROVE TakeRun'
  BY <1>29 DEF ProduceMode
<1>30. ASSUME ProducePut PROVE TakeRun'
  <2>1. /\ head \in Counters /\ tail \in Counters /\ buf \in Cells /\ take \in Seq(Frames)
        /\ mode = "record" /\ accepted \in Nat
    BY <1>30 DEF ProducePut, Types, Counters, Cells
  <2>2. Occupied \in Nat /\ Occupied <= Cap
    BY <2>1, OccupancyIs, Sizes DEF Counters
  <2>3. PICK n \in Nat : /\ n = Least(Writable(Cap, head, tail), Block) /\ Occupied + n <= Cap
    <3>1. Writable(Cap, head, tail) = Cap - Occupied
      BY <2>1, <2>2, RoomIs DEF Counters
    <3> QED
      BY <2>2, <3>1, Sizes DEF Least
  <2>4. blk' \in Seq(Frames) /\ Len(blk') = n /\ Run(epoch, blk', accepted)
    <3>1. epoch \in 1..MaxEpoch
      BY <1>30, Sizes DEF ProducePut, Types
    <3>2. blk' = [i \in 1..n |-> Frame(accepted + i - 1)]
      BY <1>30, <2>3 DEF ProducePut
    <3> HIDE DEF Steady, TakeRun, MainInMode, IsrInMode
    <3> QED
      BY <2>1, <3>1, <3>2, FramesRead
  <2>5. CopiedIn(buf', head, blk')
    BY <1>30, <2>1, <2>3, <2>4, HeldFilled DEF ProducePut
  <2>6. Held(epoch, buf', head, tail, Len(take))
    <3>1. PICK p \in Int : p = Len(take)
      BY <2>1
    <3> QED
      BY <1>30, <2>1, <2>3, <2>4, <3>1, HeldFilled DEF ProducePut
  <2> QED
    BY <1>30, <2>1, <2>3, <2>4, <2>5, <2>6 DEF ProducePut
<1>31. ASSUME ProduceEnd PROVE TakeRun'
  <2>1. /\ head \in Counters /\ tail \in Counters /\ take \in Seq(Frames) /\ blk \in Seq(Frames)
        /\ mode = "record" /\ accepted \in Nat /\ chunk \in Seq(Frames)
    BY <1>31 DEF ProduceEnd, Types, Counters
  <2>2. PICK p \in Nat, k \in Nat, n \in Nat : p = Len(take) /\ k = Len(blk) /\ n = Occupied
    BY <2>1, OccupancyIs, Sizes DEF Counters
  <2>3. /\ n + k <= Cap /\ accepted = p + n /\ Run(epoch, take, 0)
        /\ Held(epoch, buf, head, tail, p) /\ Run(epoch, blk, p + n) /\ CopiedIn(buf, head, blk)
        /\ (main = "sink" => Len(chunk) <= n /\ Run(epoch, chunk, p))
    BY <1>31, <2>1, <2>2 DEF ProduceEnd
  <2>4. /\ head' = Plus(head, k) /\ accepted' = accepted + k /\ isr' = "idle" /\ blk' = <<>>
        /\ UNCHANGED <<mode, tail, buf, main, pump, record, epoch>>
    BY <1>31, <2>2 DEF ProduceEnd
  <2>5. Readable(head', tail) = n + k
    <3>1. n + k < CounterModulus
      <4> HIDE DEF TakeRun, Steady, MainInMode, IsrInMode
      <4>1. Cap \in Nat /\ CounterModulus \in Nat /\ Cap < CounterModulus
        BY Sizes
      <4> QED
        BY <2>2, <2>3, <4>1
    <3> QED
      BY <2>1, <2>2, <2>4, <3>1, Published DEF Counters
  <2>6. Held(epoch, buf, head', tail, p)
    <3>1. p \in Int /\ Readable(head, tail) + Len(blk) <= Cap /\ Run(epoch, blk, p + Readable(head, tail))
      BY <2>2, <2>3
    <3> QED
      BY <2>1, <2>2, <2>3, <2>4, <3>1, HeldPublished
  <2>7. accepted + k = p + (n + k)
    BY <2>2, <2>3
  <2>8. main = "sink" => Len(chunk) <= n + k
    BY <2>1, <2>2, <2>3
  <2> HIDE DEF Steady, MainInMode, IsrInMode
  <2> QED
    BY <2>2, <2>3, <2>4, <2>5, <2>6, <2>7, <2>8
<1>32. ASSUME UNCHANGED vars PROVE TakeRun'
  BY <1>32
<1> QED
  BY <1>1, <1>2, <1>3, <1>4, <1>5, <1>6, <1>7, <1>8, <1>9, <1>10, <1>11, <1>12, <1>13, <1>14,
     <1>15, <1>16, <1>17, <1>18, <1>19, <1>20, <1>21, <1>22, <1>23, <1>24, <1>25, <1>26,
     <1>27, <1>28, <1>29, <1>30, <1>31, <1>32 DEF Next, Control, Pump, Interrupt

\* A take grows by what the ring holds, which was accepted before.
LEMMA TakeBoundStep ==
    ASSUME Steady, TakeRun, Len(take) <= MaxTake, [Next]_vars
    PROVE  Len(take') <= MaxTake
<1>1. CASE DrainSink
  <2>1. /\ Taking /\ main = "sink" /\ take \in Seq(Frames) /\ chunk \in Seq(Frames)
        /\ accepted \in 0..MaxTake /\ MaxTake \in Nat /\ head \in Counters /\ tail \in Counters
    BY <1>1, Sizes DEF DrainSink, MainAt, Steady, Types, MainInMode, Drains, Taking, Counters
  <2>2. accepted = Len(take) + Occupied /\ Len(chunk) <= Occupied /\ Occupied \in Nat
    BY <2>1, OccupancyType DEF TakeRun
  <2>3. Len(take') = Len(take) + Len(chunk)
    BY <1>1, <2>1 DEF DrainSink
  <2> QED
    BY <2>1, <2>2, <2>3
<1>2. CASE StartRecord
  <2>1. take' = <<>>
    BY <1>2 DEF StartRecord
  <2> QED
    BY <2>1, Sizes
<1>3. CASE ~DrainSink /\ ~StartRecord
  <2>1. UNCHANGED take
    BY <1>3 DEF Next, Control, Pump, Interrupt, StartPlay, StartRefused, Stop, SetLoop, SeekBegin,
                Reset, Arm, SeekPark, SeekFile, SeekEnd, PumpPlay, PumpRead, PumpDry, PumpFull,
                PumpFill, PumpPublish, PumpPlayed, FinishPlay, PumpRecord, DrainRead, Drained,
                ConsumeEnter, ConsumeMode, ConsumeCopy, ConsumeTake, ConsumeRecheck,
                ProduceMode, ProducePut, ProduceEnd, record, vars
  <2> QED
    BY <2>1
<1> QED
  BY <1>1, <1>2, <1>3

-----------------------------------------------------------------------------
(* The theorems. *)

\* The deck starts steady, with no stream.
LEMMA Starts == Init => IInv
<1> SUFFICES ASSUME Init PROVE IInv
  OBVIOUS
<1> USE Sizes DEF Init
<1>1. Types
  <2>1. buf \in [0..Cap-1 -> Frames]
    BY DEF Frames, Nothing
  <2>2. chunk \in Seq(Frames) /\ take \in Seq(Frames) /\ blk \in Seq(Frames)
        /\ Len(chunk) = 0 /\ Len(blk) = 0
    OBVIOUS
  <2> QED
    BY <2>1, <2>2 DEF Types, MainPlaces
<1>2. MainInMode /\ FileInUse /\ IsrInMode /\ BeginsEmpty
  BY DEF MainInMode, FileInUse, IsrInMode, BeginsEmpty, PlayStarts, RecordStarts, Parked, Seeks,
         Pumps, Drains
<1>3. PlayRun /\ TakeRun /\ Len(take) <= MaxTake
  BY DEF PlayRun, Playing, TakeRun, Taking
<1> QED
  BY <1>1, <1>2, <1>3 DEF IInv, Steady

\* On the device every step keeps it so.
LEMMA Preserved == ASSUME IsrAtomic, IInv, [Next]_vars PROVE IInv'
BY SteadyStep, PlayRunStep, TakeRunStep, TakeBoundStep DEF IInv

\* So it is in every state the device can reach.
LEMMA Invariant == ASSUME IsrAtomic PROVE Spec => []IInv
<1>1. IInv /\ [Next]_vars => IInv'
  BY Preserved
<1> QED
  BY <1>1, Starts, PTL DEF Spec

\* On the device the deck's file and its player stay in step with process() and the
\* control calls, and a player is retired only when all that was fed is heard
\* (stream_deck.cpp:40-63, 104-137).
THEOREM DeckInStep == ASSUME IsrAtomic PROVE Spec => []Inv
<1>1. ASSUME IInv PROVE Inv
  <2> USE <1>1 DEF IInv
  <2>1. TypeOK
    BY DEF TypeOK, Steady, Types
  <2>2. HandleDiscipline
    BY DEF HandleDiscipline, Steady, FileInUse, MainInMode
  <2>3. RetiredAfterLastFrame
    <3> SUFFICES ASSUME main = "finish" PROVE heard = fed
      BY DEF RetiredAfterLastFrame
    <3>1. /\ Playing /\ chunk = <<>> /\ heard \in 0..Names-1
      BY DEF Steady, Types, MainInMode, IsrInMode, Pumps, Playing
    <3>2. Occupied = 0 /\ Lag = 0 /\ fed = (heard + 0 + 0 + 0) % Names
      BY <3>1 DEF PlayRun, Lag
    <3>3. heard % Names = heard /\ heard + 0 + 0 + 0 = heard
      BY <3>1, Sizes, InRange
    <3> QED
      BY <3>2, <3>3
  <2> QED
    BY <2>1, <2>2, <2>3 DEF Inv
<1> QED
  BY <1>1, Invariant, PTL

\* On the device a block that survives the recheck is the continuation of what was
\* heard before: restarts, seeks and the wrapping ring leak no frame of an earlier
\* stream and lose none of this one (stream_deck.h:56-75).
THEOREM ListenerHearsTheStream == ASSUME IsrAtomic PROVE Spec => []HeardInOrder
<1>1. ASSUME IInv PROVE HeardInOrder
  <2> SUFFICES ASSUME isr = "recheck"
               PROVE  \A k \in 1..Len(blk) : blk[k] = Frame(heard + k - 1)
    BY DEF HeardInOrder
  <2>1. Run(epoch, blk, heard)
    BY <1>1 DEF IInv, Steady, IsrInMode, PlayRun, Playing
  <2> QED
    BY <2>1, FrameIs DEF Run
<1> QED
  BY <1>1, Invariant, PTL

\* On the device the file that finalizing closes holds every frame the interrupt
\* accepted, in order (audio_stream.h RecordStream::pump, stream_deck.cpp process).
LEMMA FinishedWhole ==
    ASSUME IInv, [Next]_vars, finalizing, ~finalizing'
    PROVE  take = [i \in 1..accepted |-> Frame(i - 1)]
<1>1. Drained
  BY DEF Next, Control, Pump, Interrupt, StartPlay, StartRecord, StartRefused, Stop, SetLoop,
         SeekBegin, Reset, Arm, SeekPark, SeekFile, SeekEnd, PumpPlay, PumpRead, PumpDry, PumpFull,
         PumpFill, PumpPublish, PumpPlayed, FinishPlay, PumpRecord, DrainRead, DrainSink,
         ConsumeEnter, ConsumeMode, ConsumeCopy, ConsumeTake, ConsumeRecheck,
         ProduceMode, ProducePut, ProduceEnd, record, vars
<1>2. Occupied = 0 /\ take \in Seq(Frames)
  BY <1>1 DEF Drained, Occupied, IInv, Steady, Types
<1>3. Run(epoch, take, 0) /\ accepted = Len(take) + 0
  BY <1>2 DEF IInv, TakeRun, Taking
<1>4. ASSUME NEW i \in 1..Len(take) PROVE take[i] = Frame(i - 1)
  <2>1. 0 + i - 1 = i - 1
    BY <1>2
  <2>2. take[i] = FrameOf(epoch, 0 + i - 1)
    BY <1>3 DEF Run
  <2> QED
    BY <2>1, <2>2, FrameIs
<1>5. take = [i \in 1..Len(take) |-> take[i]] /\ Len(take) + 0 = Len(take)
  BY <1>2
<1> QED
  BY <1>3, <1>4, <1>5

THEOREM TakesAreWhole == ASSUME IsrAtomic PROVE Spec => TakeComplete
<1>1. IInv /\ [Next]_vars =>
        [finalizing /\ ~finalizing' => take = [i \in 1..accepted |-> Frame(i - 1)]]_vars
  BY FinishedWhole
<1> QED
  BY <1>1, Invariant, PTL DEF Spec, TakeComplete

\* A deck as an engine sees it.
Seen(m, f, s) == [mode |-> m, finalizing |-> f, seeking |-> s]

\* What the service's calls make of a deck.
LEMMA FinishedCall == \A m, f, s : Service!Finished(Seen(m, f, s)) = Seen(m, FALSE, s)
<1> SUFFICES ASSUME NEW m, NEW f, NEW s
             PROVE  Service!Finished(Seen(m, f, s)) = Seen(m, FALSE, s)
  BY Zenon
<1>1. ASSUME NEW w PROVE [Seen(m, f, s) EXCEPT !.finalizing = w] = Seen(m, w, s)
  BY DEF Seen
<1> QED
  BY <1>1, Zenon DEF Service!Finished

LEMMA SeekCalls ==
    \A m, f, s : /\ Service!Parked(Seen(m, f, s)) = Seen("idle", f, TRUE)
                 /\ Service!Resumed(Seen(m, f, s)) = Seen("play", f, FALSE)
<1> SUFFICES ASSUME NEW m, NEW f, NEW s
             PROVE  /\ Service!Parked(Seen(m, f, s)) = Seen("idle", f, TRUE)
                    /\ Service!Resumed(Seen(m, f, s)) = Seen("play", f, FALSE)
  BY Zenon
<1>1. ASSUME NEW x, NEW w
      PROVE  [Seen(m, f, s) EXCEPT !.mode = x, !.seeking = w] = Seen(x, f, w)
  <2>1. [Seen(m, f, s) EXCEPT !.mode = x, !.seeking = w] =
            [[Seen(m, f, s) EXCEPT !.mode = x] EXCEPT !.seeking = w]
    OBVIOUS
  <2>2. [Seen(m, f, s) EXCEPT !.mode = x] = Seen(x, f, s)
    BY DEF Seen
  <2>3. [Seen(x, f, s) EXCEPT !.seeking = w] = Seen(x, f, w)
    BY DEF Seen
  <2> QED
    BY <2>1, <2>2, <2>3
<1>2. Service!Parked(Seen(m, f, s)) = Seen("idle", f, TRUE)
  BY <1>1, Zenon DEF Service!Parked
<1>3. Service!Resumed(Seen(m, f, s)) = Seen("play", f, FALSE)
  BY <1>1, Zenon DEF Service!Resumed
<1> QED
  BY <1>2, <1>3, Zenon

LEMMA HaltedCall ==
    \A s : /\ Service!Halted(Seen("play", FALSE, s)) = Seen("idle", FALSE, s)
          /\ Service!Halted(Seen("record", FALSE, s)) = Seen("idle", TRUE, s)
<1> SUFFICES ASSUME NEW s
             PROVE  /\ Service!Halted(Seen("play", FALSE, s)) = Seen("idle", FALSE, s)
                    /\ Service!Halted(Seen("record", FALSE, s)) = Seen("idle", TRUE, s)
  BY Zenon
<1>1. ASSUME NEW m, NEW x, NEW w
      PROVE  [Seen(m, FALSE, s) EXCEPT !.mode = x, !.finalizing = w] = Seen(x, w, s)
  <2>1. [Seen(m, FALSE, s) EXCEPT !.mode = x, !.finalizing = w] =
            [[Seen(m, FALSE, s) EXCEPT !.mode = x] EXCEPT !.finalizing = w]
    OBVIOUS
  <2>2. \A f : [Seen(m, f, s) EXCEPT !.mode = x] = Seen(x, f, s)
    BY DEF Seen
  <2>3. \A f : [Seen(x, f, s) EXCEPT !.finalizing = w] = Seen(x, w, s)
    BY DEF Seen
  <2> QED
    BY <2>1, <2>2, <2>3, Zenon
<1>2. \A m : Seen(m, FALSE, s).mode = m /\ Seen(m, FALSE, s).finalizing = FALSE
  BY Zenon DEF Seen
<1>3. Service!Halted(Seen("play", FALSE, s)) = Seen("idle", FALSE, s)
  <2>1. PICK owed : owed = (Seen("play", FALSE, s).finalizing \/ Seen("play", FALSE, s).mode = "record")
    BY Zenon
  <2>2. owed = FALSE
    BY <1>2, <2>1
  <2>3. Service!Halted(Seen("play", FALSE, s)) =
            [Seen("play", FALSE, s) EXCEPT !.mode = "idle", !.finalizing = owed]
    BY <2>1 DEF Service!Halted
  <2> QED
    BY <1>1, <2>2, <2>3, Zenon
<1>4. Service!Halted(Seen("record", FALSE, s)) = Seen("idle", TRUE, s)
  <2>1. (Seen("record", FALSE, s).finalizing \/ Seen("record", FALSE, s).mode = "record") = TRUE
    BY <1>2
  <2> QED
    BY <1>1, <2>1, Zenon DEF Service!Halted
<1> QED
  BY <1>3, <1>4, Zenon

AwayInSeek == main \in {"seek_file", "reset_seek", "tail_seek", "arm_seek"}

LEMMA SeenIs ==
    /\ SeenDeck = Seen(mode, finalizing, AwayInSeek)
    /\ SeenDeck' = Seen(mode', finalizing', AwayInSeek')
BY Zenon DEF SeenDeck, AwayInSeek, Seen

LEMMA SeenMode == SeenDeck.mode = mode
BY Zenon DEF SeenDeck

LEMMA SeenFinalizing == SeenDeck.finalizing = finalizing
BY Zenon DEF SeenDeck

\* Every step is one the contract allows, or none that an engine sees.
LEMMA ServiceStep ==
    ASSUME Steady, [Next]_vars
    PROVE  [Service!Next]_SeenDeck
<1> USE DEF MainAt, vars, shared, source, ring, record
<1>1. CASE Stop
  <2>1. Service!Stop
    <3>1. /\ mode' = "idle" /\ UNCHANGED main /\ finalizing = FALSE
          /\ \/ mode = "play" /\ finalizing' = FALSE
             \/ mode = "record" /\ finalizing' = TRUE
      BY <1>1 DEF Stop, Steady, Types, MainInMode
    <3>2. AwayInSeek' = AwayInSeek
      BY <3>1 DEF AwayInSeek
    <3>3. SeenDeck' = Seen("idle", finalizing', AwayInSeek)
      BY <3>1, <3>2, SeenIs, Zenon
    <3>4. Service!Halted(SeenDeck) = Seen("idle", finalizing', AwayInSeek)
      BY <3>1, SeenIs, HaltedCall, Zenon
    <3>5. SeenDeck.mode = mode
      BY SeenMode
    <3> QED
      BY <3>1, <3>3, <3>4, <3>5 DEF Service!Stop
  <2> QED
    BY <2>1 DEF Service!Next
<1>2. CASE Arm
  <2>1. CASE main = "arm_seek"
    <3>1. mode' = "play" /\ UNCHANGED finalizing /\ AwayInSeek = TRUE /\ AwayInSeek' = FALSE
      BY <1>2, <2>1 DEF Arm, AwayInSeek
    <3>2. SeenDeck' = Seen("play", finalizing, FALSE)
      BY <3>1, SeenIs, Zenon
    <3>3. Service!Resumed(SeenDeck) = Seen("play", finalizing, FALSE)
      BY SeenIs, SeekCalls, Zenon
    <3>4. SeenDeck.seeking
      BY <2>1 DEF SeenDeck
    <3> QED
      BY <3>1, <3>2, <3>3, <3>4 DEF Service!Next, Service!Resume
  <2>2. CASE main # "arm_seek"
    <3>1. Service!Free(SeenDeck)
      BY <1>2, <2>2 DEF SeenDeck, Arm, Service!Free, Steady, MainInMode, PlayStarts,
         RecordStarts, Parked
    <3>2. \E what \in {"play", "record"} : SeenDeck' = Service!Started(SeenDeck, what)
      BY <1>2, <2>2 DEF SeenDeck, Arm, Service!Started
    <3> QED
      BY <3>1, <3>2 DEF Service!Next, Service!Start
  <2> QED
    BY <2>1, <2>2
<1>3. CASE SeekPark
  <2>1. mode = "play" /\ mode' = "idle" /\ UNCHANGED finalizing /\ AwayInSeek' = TRUE
    BY <1>3 DEF SeekPark, Steady, MainInMode, AwayInSeek
  <2>2. SeenDeck' = Seen("idle", finalizing, TRUE)
    BY <2>1, SeenIs, Zenon
  <2>3. Service!Parked(SeenDeck) = Seen("idle", finalizing, TRUE)
    BY SeenIs, SeekCalls, Zenon
  <2>4. SeenDeck.mode = mode
    BY SeenMode
  <2> QED
    BY <2>1, <2>2, <2>3, <2>4 DEF Service!Next, Service!Park, Service!Playing
<1>4. CASE FinishPlay
  BY <1>4 DEF SeenDeck, FinishPlay, Service!Next, Service!RunOut, Service!Playing,
     Service!RanOut, Steady,
              MainInMode, Pumps
<1>5. CASE Drained
  <2>1. CASE finalizing /\ stopping
    <3>1. finalizing' = FALSE /\ UNCHANGED mode /\ main = "drain" /\ main' = "idle"
      BY <1>5, <2>1 DEF Drained
    <3>2. AwayInSeek' = AwayInSeek
      BY <3>1 DEF AwayInSeek
    <3>3. SeenDeck' = Seen(mode, FALSE, AwayInSeek)
      BY <3>1, <3>2, SeenIs, Zenon
    <3>4. Service!Finished(SeenDeck) = Seen(mode, FALSE, AwayInSeek)
      BY SeenIs, FinishedCall, Zenon
    <3>5. SeenDeck.finalizing = finalizing
      BY SeenFinalizing
    <3> QED
      BY <2>1, <3>3, <3>4, <3>5 DEF Service!Next, Service!Finish
  <2>2. CASE ~(finalizing /\ stopping)
    BY <1>5, <2>2 DEF SeenDeck, Drained
  <2> QED
    BY <2>1, <2>2
<1>6. CASE Reset
  BY <1>6 DEF SeenDeck, Reset, ResetHead, ResetTail, ArmFor
<1>7. CASE ~Stop /\ ~Arm /\ ~SeekPark /\ ~FinishPlay /\ ~Drained /\ ~Reset
  BY <1>7 DEF SeenDeck, Next, Control, Pump, Interrupt, StartPlay, StartRecord, StartRefused,
     SetLoop,
              SeekBegin, SeekFile, SeekEnd, PumpPlay, PumpRead, PumpDry, PumpFull,
              PumpFill, PumpPublish, PumpPlayed, PumpRecord, DrainRead, DrainSink,
              ConsumeEnter, ConsumeMode, ConsumeCopy, ConsumeTake, ConsumeRecheck,
              ProduceMode, ProducePut, ProduceEnd
<1> QED
  BY <1>1, <1>2, <1>3, <1>4, <1>5, <1>6, <1>7

\* On the device the deck keeps the safety part of its contract with the engines
\* (istreamdeck.h): it starts as an idle one and takes no step the contract does not
\* allow. That the contract's own steps come in the end is left to the runs.
THEOREM KeepsContract ==
    ASSUME IsrAtomic PROVE Spec => Service!Init /\ [][Service!Next]_SeenDeck
<1>1. Init => Service!Init
  <2> SUFFICES ASSUME Init PROVE SeenDeck = Service!IdleDeck
    BY DEF Service!Init
  <2>1. mode = "idle" /\ finalizing = FALSE
    BY DEF Init
  <2>2. (main \in {"seek_file", "reset_seek", "tail_seek", "arm_seek"}) = FALSE
    BY DEF Init
  <2> QED
    BY <2>1, <2>2, Zenon DEF SeenDeck, Service!IdleDeck
<1>2. IInv /\ [Next]_vars => [Service!Next]_SeenDeck
  BY ServiceStep DEF IInv
<1> QED
  BY <1>1, <1>2, Invariant, PTL DEF Spec
=============================================================================

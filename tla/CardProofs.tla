----------------------------- MODULE CardProofs -----------------------------
(***************************************************************************)
(* What is on the card survives the power going.                           *)
(*                                                                         *)
(* WavTake, for every size of the ring, the transfers and the checkpoint   *)
(* interval, every length of a take and every card.                        *)
(*                                                                         *)
(* BardResume, for every library, every depth of the table from three on   *)
(* and every checkpoint: the decks' positions survive a power cut up to a  *)
(* checkpoint, and no book is forgotten but for want of room.              *)
(***************************************************************************)
EXTENDS WavTake, BardResume, TLAPS

-----------------------------------------------------------------------------
(* A take. *)

Finals == {"final_seek", "final_header", "close"}

\* The main loop is where the deck's state lets it be, and before the only take
\* nothing has come.
InPlace ==
    /\ finalizing => mode = "idle"
    /\ mode = "idle" /\ ~finalizing => main = "idle"
    /\ main \in {"check_seek", "check_header", "check_return", "check_sync"} => mode = "record"
    /\ main \in Finals => finalizing /\ ring = <<>>
    /\ hdr = -1 => /\ mode = "idle" /\ ~finalizing
                   /\ body = 0 /\ cells = <<>> /\ ring = <<>> /\ clock = 0

\* Until the file is given up it holds what the writer counts, and a transfer finds
\* the offset behind it.
AtEnd ==
    /\ body <= Len(cells) /\ Len(cells) + Len(ring) <= clock
    /\ ~err => body = Len(cells)
    /\ ~err /\ (mode = "record" \/ finalizing)
            /\ main \in {"idle", "pump", "check_seek", "check_sync", "final_seek"} => pos = Len(cells)
    /\ err => "device" \in faults

\* The frames of the file come before those of the ring, in order, and without a
\* hole unless some were dropped.
Ordered ==
    /\ \A i, j \in 1..Len(cells) : i < j => cells[i] < cells[j]
    /\ \A i, j \in 1..Len(ring) : i < j => ring[i] < ring[j]
    /\ \A i \in 1..Len(cells), j \in 1..Len(ring) : cells[i] < ring[j]
    /\ \A i \in 1..Len(cells) : cells[i] <= clock
    /\ \A j \in 1..Len(ring) : ring[j] <= clock

NoneDropped ==
    faults \cap {"full", "overrun"} = {} =>
        /\ \A i \in 1..Len(cells) : cells[i] = i
        /\ ~err => /\ Len(cells) + Len(ring) = clock
                   /\ \A j \in 1..Len(ring) : ring[j] = Len(cells) + j

\* The medium may have the header written last, and the headers it may have were
\* written in ascending order; a header is the writer's count when it is synced.
Headers ==
    /\ disk = [hdrs |-> disk.hdrs, len |-> disk.len] /\ hdr \in disk.hdrs
    /\ \E m \in disk.hdrs : \A h \in disk.hdrs : m <= h
    /\ main \in {"check_header", "check_return", "check_sync"} => ~err
    /\ main \in {"check_return", "check_sync"} => hdr = body
    /\ main = "close" /\ ~err => hdr = body

\* What a header gives of the take, in frames.
Given(h) == Greatest(0, Least(h, disk.len))

\* While the card is sound, whatever header it has gives what was last synced.
SyncedGiven ==
    mode = "record" /\ ~err /\ "sync" \notin faults =>
        /\ \A h \in disk.hdrs : synced <= Given(h)
        /\ main = "idle" => body - synced < SyncFrames

\* A take that ended without a fault is on the medium.
Completed ==
    hdr # -1 /\ mode = "idle" /\ ~finalizing /\ faults = {} =>
        disk.hdrs = {clock} /\ disk.len = clock

IInv == /\ TypeOK /\ InPlace /\ AtEnd /\ Ordered /\ NoneDropped /\ Headers
        /\ SyncedGiven /\ Completed

-----------------------------------------------------------------------------
(* What a power cut would leave. *)

\* A cut leaves what the header states, but no more than the directory gives.
LEMMA CutGives ==
    ASSUME TypeOK, NEW h \in disk.hdrs
    PROVE  /\ Given(h) \in 0..Len(cells)
           /\ Recovered(h) = [i \in 1..Given(h) |-> cells[i]]
           /\ Len(Recovered(h)) = Given(h)
<1>1. /\ h \in Int /\ disk.len \in 0..Len(cells) /\ cells \in Seq(Frames) /\ Len(cells) \in Nat
  BY DEF TypeOK
<1>2. PICK k \in Int : k = Least(h, disk.len) /\ k <= Len(cells) /\ Given(h) = Greatest(0, k)
  BY <1>1 DEF Least, Given
<1>3. Given(h) \in 0..Len(cells)
  BY <1>1, <1>2 DEF Greatest
<1>4. Recovered(h) = SubSeq(cells, 1, k)
  BY <1>2 DEF Recovered
<1>5. 1..k = 1..Given(h)
  BY <1>2 DEF Greatest
<1>6. SubSeq(cells, 1, k) = [i \in 1..Given(h) |-> cells[i]]
  <2>1. SubSeq(cells, 1, k) = [i \in 1..(1 + k - 1) |-> cells[1 + i - 1]]
    BY <1>1, <1>2
  <2>2. \A i \in 1..k : cells[1 + i - 1] = cells[i]
    OBVIOUS
  <2>3. 1..(1 + k - 1) = 1..k
    BY <1>2
  <2> QED
    BY <2>1, <2>2, <2>3, <1>5
<1>7. Len(Recovered(h)) = Given(h)
  BY <1>3, <1>4, <1>6
<1> QED
  BY <1>3, <1>4, <1>6, <1>7

\* SafeLength is what the least of the headers gives.
LEMMA SafeLengthGiven ==
    ASSUME TypeOK, Headers
    PROVE  /\ SafeLength \in 0..MaxTake
           /\ \A h \in disk.hdrs : SafeLength <= Given(h)
           /\ \E h \in disk.hdrs : SafeLength = Given(h)
<1>1. PICK m \in disk.hdrs : \A h \in disk.hdrs : m <= h
  BY DEF Headers
<1>2. \A h \in disk.hdrs : h \in Int /\ Given(m) <= Given(h)
  BY <1>1 DEF TypeOK, Given, Greatest, Least
<1> DEFINE Safe(n) == /\ \E t \in Leaves : Len(t) = n
                      /\ \A t \in Leaves : Len(t) >= n
<1>3. Given(m) \in 0..MaxTake /\ Safe(Given(m))
  <2>1. Given(m) \in 0..body
    BY DEF TypeOK, Given, Greatest, Least
  <2>2. Given(m) \in 0..MaxTake
    BY <2>1, TakeAssumption DEF TypeOK
  <2>3. Recovered(m) \in Leaves /\ Len(Recovered(m)) = Given(m)
    BY CutGives DEF Leaves
  <2>4. ASSUME NEW t \in Leaves PROVE Len(t) >= Given(m)
    <3>1. PICK h \in disk.hdrs : t = Recovered(h)
      BY DEF Leaves
    <3>2. Len(t) = Given(h) /\ Given(h) \in Int
      BY <3>1, CutGives
    <3> QED
      BY <1>2, <2>2, <3>2
  <2> QED
    BY <2>2, <2>3, <2>4
<1>4. SafeLength \in 0..MaxTake /\ Safe(SafeLength)
  BY <1>3 DEF SafeLength
<1>5. PICK h \in disk.hdrs : Len(Recovered(h)) = SafeLength
  BY <1>4 DEF Leaves
<1>6. SafeLength = Given(h)
  BY <1>5, CutGives
<1>7. \A k \in disk.hdrs : SafeLength <= Given(k)
  BY <1>4, CutGives DEF Leaves
<1> QED
  BY <1>4, <1>6, <1>7

-----------------------------------------------------------------------------
(* Calls and the interrupt. *)

LEMMA StepType ==
    ASSUME TypeOK
    PROVE  /\ Cap \in Nat \ {0} /\ Scratch \in Nat \ {0} /\ SyncFrames \in Nat \ {0}
           /\ Len(cells) \in Nat /\ Len(ring) \in Nat
           /\ MaxTake \in Nat /\ body \in Nat /\ synced \in Nat /\ clock \in Nat
           /\ hdr \in Int /\ pos \in Int /\ space \in Nat /\ disk.len \in Nat
           /\ \A i \in 1..Len(cells) : cells[i] \in Nat
           /\ \A i \in 1..Len(ring) : ring[i] \in Nat
           /\ \A h \in disk.hdrs : h \in Int
<1>1. /\ Cap \in Nat \ {0} /\ Scratch \in Nat \ {0} /\ SyncFrames \in Nat \ {0} /\ MaxTake \in Nat
  BY TakeAssumption
<1>2. /\ ring \in Seq(Frames) /\ cells \in Seq(Frames) /\ body \in 0..MaxTake /\ synced \in 0..body
      /\ clock \in 0..MaxTake /\ hdr \in -1..body /\ pos \in -1..Len(cells) /\ space \in Nat
      /\ disk.len \in 0..Len(cells) /\ disk.hdrs \subseteq -1..body
  BY DEF TypeOK
<1>3. Len(cells) \in Nat /\ Len(ring) \in Nat /\ body \in Nat
  BY <1>1, <1>2
<1>4. synced \in Nat /\ clock \in Nat /\ hdr \in Int /\ pos \in Int /\ disk.len \in Nat
  BY <1>1, <1>2, <1>3
<1>5. ASSUME NEW s \in Seq(Frames), NEW i \in 1..Len(s) PROVE s[i] \in Nat
  <2>1. s[i] \in Frames
    OBVIOUS
  <2> QED
    BY <2>1 DEF Frames
<1>6. /\ \A i \in 1..Len(cells) : cells[i] \in Nat
      /\ \A i \in 1..Len(ring) : ring[i] \in Nat
  BY <1>2, <1>5
<1>7. \A h \in disk.hdrs : h \in Int
  BY <1>2, <1>3
<1> QED
  BY <1>1, <1>2, <1>3, <1>4, <1>5, <1>6, <1>7

LEMMA InvInit == Init => IInv
<1> SUFFICES ASSUME Init PROVE IInv
  OBVIOUS
<1> USE DEF Init
<1>1. TypeOK
  <2>1. <<>> \in Seq(Frames) /\ Len(<<>>) = 0
    OBVIOUS
  <2>2. ring \in Seq(Frames) /\ Len(ring) <= Cap /\ cells \in Seq(Frames) /\ Len(cells) = 0
    BY <2>1, TakeAssumption
  <2>3. disk.hdrs = {-1} /\ disk.len = 0
    OBVIOUS
  <2>4. /\ pos \in -1..Len(cells) /\ hdr \in -1..body /\ disk.hdrs \subseteq -1..body
        /\ disk.hdrs # {} /\ disk.len \in 0..Len(cells)
    BY <2>2, <2>3
  <2>5. body \in 0..MaxTake /\ synced \in 0..body /\ clock \in 0..MaxTake /\ space \in Nat
    BY TakeAssumption
  <2> QED
    BY <2>2, <2>4, <2>5 DEF TypeOK
<1>2. InPlace /\ AtEnd /\ Ordered /\ NoneDropped
  BY DEF InPlace, AtEnd, Ordered, NoneDropped, Finals
<1>3. Headers /\ SyncedGiven /\ Completed
  BY DEF Headers, SyncedGiven, Completed
<1> QED
  BY <1>1, <1>2, <1>3 DEF IInv

LEMMA StartRecordKeeps == ASSUME IInv, StartRecord PROVE IInv'
<1> USE StepType DEF IInv, StartRecord, HeaderOk
<1>1. TypeOK'
  BY DEF TypeOK, InPlace
<1>2. InPlace'
  BY DEF InPlace, Finals
<1>3. AtEnd'
  BY DEF InPlace, AtEnd
<1>4. Ordered' /\ NoneDropped'
  BY DEF InPlace, AtEnd, Ordered, NoneDropped
<1>5. Headers'
  <2>1. disk = [hdrs |-> disk.hdrs, len |-> disk.len] /\ main = "idle"
    BY DEF Headers
  <2>2. disk' = [hdrs |-> disk.hdrs \cup {0}, len |-> disk.len] /\ hdr' = 0 /\ main' = "idle"
    BY <2>1
  <2>3. PICK m \in disk.hdrs : \A h \in disk.hdrs : m <= h
    BY DEF Headers
  <2>4. \A h \in disk.hdrs : h <= 0
    BY DEF InPlace, TypeOK
  <2>5. m \in disk'.hdrs /\ \A h \in disk'.hdrs : m <= h
    BY <2>2, <2>3, <2>4
  <2> QED
    BY <2>2, <2>5 DEF Headers
<1>6. SyncedGiven' /\ Completed'
  BY DEF SyncedGiven, Completed, TypeOK, Given, Greatest, Least
<1> QED
  BY <1>1, <1>2, <1>3, <1>4, <1>5, <1>6

LEMMA StopKeeps == ASSUME IInv, Stop PROVE IInv'
<1> USE StepType DEF IInv, Stop, writer, fatFile
<1>1. TypeOK'
  BY DEF TypeOK
<1>2. InPlace' /\ AtEnd'
  BY DEF InPlace, Finals, AtEnd
<1>3. Ordered' /\ NoneDropped' /\ Headers'
  BY DEF Ordered, NoneDropped, Headers
<1>4. SyncedGiven' /\ Completed'
  BY DEF SyncedGiven, Completed
<1> QED
  BY <1>1, <1>2, <1>3, <1>4

LEMMA OtherDeckFreesKeeps == ASSUME IInv, OtherDeckFrees PROVE IInv'
<1> USE StepType DEF IInv, OtherDeckFrees, deck, writer
<1>1. TypeOK'
  BY TakeAssumption DEF TypeOK
<1>2. InPlace' /\ AtEnd'
  BY DEF InPlace, AtEnd
<1>3. Ordered' /\ NoneDropped' /\ Headers'
  BY DEF Ordered, NoneDropped, Headers
<1>4. SyncedGiven' /\ Completed'
  BY DEF SyncedGiven, Completed, Given
<1> QED
  BY <1>1, <1>2, <1>3, <1>4

LEMMA PumpEnterKeeps == ASSUME IInv, PumpEnter PROVE IInv'
<1> USE StepType DEF IInv, PumpEnter, deck, writer, fatFile
<1>1. TypeOK'
  BY DEF TypeOK
<1>2. InPlace' /\ AtEnd'
  BY DEF InPlace, AtEnd, Finals
<1>3. Ordered' /\ NoneDropped' /\ Headers'
  BY DEF Ordered, NoneDropped, Headers
<1>4. SyncedGiven' /\ Completed'
  BY DEF SyncedGiven, Completed, Given
<1> QED
  BY <1>1, <1>2, <1>3, <1>4

\* A frame of the interrupt is behind all others.
LEMMA ProduceKeeps == ASSUME IInv, Produce PROVE IInv'
<1>0. /\ TypeOK /\ InPlace /\ AtEnd /\ Ordered /\ NoneDropped /\ Headers /\ SyncedGiven
      /\ Completed
  BY DEF IInv
<1>p. /\ mode = "record" /\ clock < MaxTake /\ clock' = clock + 1
      /\ mode' = mode /\ finalizing' = finalizing /\ main' = main
      /\ body' = body /\ synced' = synced /\ pos' = pos /\ hdr' = hdr /\ cells' = cells
      /\ err' = err /\ space' = space /\ disk' = disk
  BY DEF Produce, deck, writer, fatFile
<1>t. /\ Len(cells) \in Nat /\ Len(ring) \in Nat /\ clock \in Nat /\ MaxTake \in Nat
      /\ \A i \in 1..Len(cells) : cells[i] \in Nat
      /\ \A i \in 1..Len(ring) : ring[i] \in Nat
  BY <1>0, StepType
<1>1. CASE Len(ring) < Cap
  <2>1. ring' = Append(ring, clock + 1) /\ faults' = faults
    BY <1>1 DEF Produce
  <2>2. ring' \in Seq(Frames) /\ clock + 1 \in Frames
    BY <1>0, <1>p, <1>t, <2>1 DEF TypeOK, Frames
  <2>3. /\ Len(ring') = Len(ring) + 1 /\ ring'[Len(ring) + 1] = clock + 1
        /\ \A i \in 1..Len(ring) : ring'[i] = ring[i]
    BY <1>0, <2>1, <2>2 DEF TypeOK
  <2>4. \A i \in 1..Len(ring') : i \in 1..Len(ring) \/ i = Len(ring) + 1
    BY <1>t, <2>3
  <2>5. TypeOK'
    <3>1. clock' \in 0..MaxTake /\ Len(ring') <= Cap
      BY <1>p, <1>t, <1>1, <2>3, TakeAssumption
    <3> QED
      BY <1>0, <1>p, <2>1, <2>2, <3>1 DEF TypeOK
  <2>6. InPlace' /\ AtEnd'
    BY <1>0, <1>p, <1>t, <2>1, <2>3 DEF InPlace, AtEnd, Finals
  <2>7. Ordered'
    <3>1. /\ \A i \in 1..Len(ring) : ring[i] <= clock
          /\ \A i \in 1..Len(cells) : cells[i] <= clock
      BY <1>0 DEF Ordered
    <3>2. ASSUME NEW i \in 1..Len(ring'), NEW j \in 1..Len(ring'), i < j
          PROVE  ring'[i] < ring'[j]
      <4>1. i \in 1..Len(ring) /\ ring'[i] = ring[i] /\ ring[i] \in Nat
        BY <1>t, <2>3, <3>2
      <4>2. CASE j \in 1..Len(ring)
        BY <1>0, <2>3, <3>2, <4>1, <4>2 DEF Ordered
      <4>3. CASE j = Len(ring) + 1
        BY <1>t, <2>3, <3>1, <4>1, <4>3
      <4> QED
        BY <2>4, <4>2, <4>3
    <3>3. ASSUME NEW i \in 1..Len(cells), NEW j \in 1..Len(ring')
          PROVE  cells[i] < ring'[j]
      <4>1. CASE j \in 1..Len(ring)
        BY <1>0, <2>3, <4>1 DEF Ordered
      <4>2. CASE j = Len(ring) + 1
        BY <1>t, <2>3, <3>1, <4>2
      <4> QED
        BY <2>4, <4>1, <4>2
    <3>4. ASSUME NEW j \in 1..Len(ring')
          PROVE  ring'[j] <= clock + 1
      BY <1>t, <2>3, <2>4, <3>1
    <3>5. ASSUME NEW i \in 1..Len(cells), NEW j \in 1..Len(cells), i < j
          PROVE  cells[i] < cells[j]
      BY <1>0, <3>5 DEF Ordered
    <3>6. \A i \in 1..Len(cells) : cells[i] <= clock + 1
      BY <1>t, <3>1
    <3> QED
      BY <1>p, <3>2, <3>3, <3>4, <3>5, <3>6 DEF Ordered
  <2>8. NoneDropped'
    <3>1. SUFFICES ASSUME faults \cap {"full", "overrun"} = {}
                   PROVE  /\ \A i \in 1..Len(cells) : cells[i] = i
                          /\ ~err => /\ Len(cells) + Len(ring') = clock + 1
                                     /\ \A j \in 1..Len(ring') : ring'[j] = Len(cells) + j
      BY <1>p, <2>1 DEF NoneDropped
    <3>2. /\ \A i \in 1..Len(cells) : cells[i] = i
          /\ ~err => /\ Len(cells) + Len(ring) = clock
                     /\ \A j \in 1..Len(ring) : ring[j] = Len(cells) + j
      BY <1>0, <3>1 DEF NoneDropped
    <3>3. ASSUME ~err
          PROVE  /\ Len(cells) + Len(ring') = clock + 1
                 /\ \A j \in 1..Len(ring') : ring'[j] = Len(cells) + j
      <4>1. Len(cells) + Len(ring') = clock + 1 /\ ring'[Len(ring) + 1] = Len(cells) + (Len(ring) + 1)
        BY <1>t, <2>3, <3>2, <3>3
      <4>2. \A j \in 1..Len(ring) : ring'[j] = Len(cells) + j
        BY <2>3, <3>2, <3>3
      <4> QED
        BY <2>4, <4>1, <4>2
    <3> QED
      BY <3>2, <3>3
  <2>9. Headers' /\ SyncedGiven' /\ Completed'
    BY <1>0, <1>p, <2>1 DEF Headers, SyncedGiven, Completed, Given
  <2> QED
    BY <2>5, <2>6, <2>7, <2>8, <2>9 DEF IInv
<1>2. CASE ~(Len(ring) < Cap)
  <2>1. ring' = ring /\ faults' = faults \cup {"overrun"}
    BY <1>2 DEF Produce
  <2>2. TypeOK'
    BY <1>0, <1>p, <1>t, <2>1 DEF TypeOK
  <2>3. InPlace' /\ AtEnd'
    BY <1>0, <1>p, <1>t, <2>1 DEF InPlace, AtEnd, Finals
  <2>4. Ordered' /\ NoneDropped'
    BY <1>0, <1>p, <1>t, <2>1 DEF Ordered, NoneDropped
  <2>5. Headers' /\ SyncedGiven' /\ Completed'
    BY <1>0, <1>p, <2>1 DEF Headers, SyncedGiven, Completed, Given
  <2> QED
    BY <2>2, <2>3, <2>4, <2>5 DEF IInv
<1> QED
  BY <1>1, <1>2

-----------------------------------------------------------------------------
(* A transfer to the file. *)

\* What is written at the end of the file is appended to it.
LEMMA PutsAppends ==
    ASSUME TypeOK, pos = Len(cells), NEW m \in 0..Len(ring), NEW n \in 0..m, n <= space,
           Puts(SubSeq(ring, 1, m), n)
    PROVE  /\ cells' \in Seq(Frames) /\ Len(cells') = Len(cells) + n
           /\ \A i \in 1..Len(cells) : cells'[i] = cells[i]
           /\ \A i \in 1..n : cells'[Len(cells) + i] = ring[i]
           /\ pos' = Len(cells) + n /\ space' \in Nat
           /\ hdr' = hdr /\ disk' = disk
<1>1. /\ Len(cells) \in Nat /\ Len(ring) \in Nat /\ space \in Nat /\ n \in Nat
      /\ \A i \in 1..Len(cells) : cells[i] \in Frames
      /\ \A i \in 1..Len(ring) : ring[i] \in Frames
  BY DEF TypeOK
<1> DEFINE f == SubSeq(SubSeq(ring, 1, m), 1, n)
           top == Len(cells) + n
<1>2. Len(f) = n /\ \A i \in 1..n : f[i] = ring[i]
  <2>1. ring \in Seq(Frames) /\ SubSeq(ring, 1, m) \in Seq(Frames) /\ Len(SubSeq(ring, 1, m)) = m
    BY <1>1 DEF TypeOK
  <2>2. \A i \in 1..m : SubSeq(ring, 1, m)[i] = ring[i]
    BY <1>1, <2>1
  <2>3. Len(f) = n /\ \A i \in 1..n : f[i] = SubSeq(ring, 1, m)[i]
    BY <2>1
  <2> QED
    BY <2>2, <2>3
<1>3. cells' = [i \in 1..top |-> IF Len(cells) < i /\ i <= top THEN f[i - Len(cells)] ELSE cells[i]]
  <2>1. cells' = Overlaid(f)
    BY DEF Puts
  <2>2. Greatest(Len(cells), pos + Len(f)) = top
    BY <1>1, <1>2 DEF Greatest
  <2> HIDE DEF f, top
  <2>3. pos + Len(f) = top
    BY <1>2 DEF top
  <2> QED
    BY <2>1, <2>2, <2>3 DEF Overlaid
<1>4. top \in Nat
  BY <1>1
<1> HIDE DEF f
<1>5. \A i \in 1..Len(cells) : cells'[i] = cells[i]
  BY <1>1, <1>3
<1>6. ASSUME NEW i \in 1..n PROVE cells'[Len(cells) + i] = ring[i]
  <2>1. Len(cells) + i \in 1..top /\ Len(cells) < Len(cells) + i /\ Len(cells) + i - Len(cells) = i
    BY <1>1
  <2> QED
    BY <1>2, <1>3, <2>1
<1>7. cells' \in Seq(Frames) /\ Len(cells') = top
  <2>1. ASSUME NEW i \in 1..top PROVE cells'[i] \in Frames
    <3>1. CASE i \in 1..Len(cells)
      BY <1>1, <1>5, <3>1
    <3>2. CASE i \notin 1..Len(cells)
      <4>1. i - Len(cells) \in 1..n /\ i = Len(cells) + (i - Len(cells))
        BY <1>1, <3>2
      <4>2. cells'[i] = ring[i - Len(cells)]
        BY <1>6, <4>1
      <4> QED
        BY <1>1, <4>1, <4>2
    <3> QED
      BY <3>1, <3>2
  <2> HIDE DEF top
  <2>2. DOMAIN cells' = 1..top
    BY <1>3
  <2>3. cells' = [i \in 1..top |-> cells'[i]]
    BY <1>3
  <2> QED
    BY <1>4, <2>1, <2>3
<1>8. space' = space - n
  BY <1>1, <1>7 DEF Puts
<1> QED
  BY <1>1, <1>2, <1>5, <1>6, <1>7, <1>8 DEF Puts, f

\* The ring after n frames are taken out.
LEMMA TakenOut ==
    ASSUME TypeOK, NEW n \in 0..Len(ring), ring' = SubSeq(ring, n + 1, Len(ring))
    PROVE  /\ ring' \in Seq(Frames) /\ Len(ring') = Len(ring) - n
           /\ \A j \in 1..Len(ring) - n : ring'[j] = ring[n + j]
<1>1. ring \in Seq(Frames) /\ Len(ring) \in Nat
  BY DEF TypeOK
<1>2. ring' \in Seq(Frames) /\ Len(ring') = Len(ring) - n
  BY <1>1
<1>3. \A j \in 1..Len(ring) - n : ring'[j] = ring[n + 1 + j - 1] /\ n + 1 + j - 1 = n + j
  BY <1>1
<1> QED
  BY <1>2, <1>3

\* A transfer of n frames out of the ring, of which the file takes w.
LEMMA MovedKeeps ==
    ASSUME TypeOK, Ordered, NoneDropped, AtEnd, NEW n \in 0..Len(ring), NEW w \in 0..n, clock' = clock,
           ring' \in Seq(Frames), Len(ring') = Len(ring) - n,
           \A j \in 1..Len(ring) - n : ring'[j] = ring[n + j],
           cells' \in Seq(Frames), Len(cells') = Len(cells) + w,
           \A i \in 1..Len(cells) : cells'[i] = cells[i],
           \A i \in 1..w : cells'[Len(cells) + i] = ring[i],
           w # 0 => ~err,
           faults \subseteq faults', err => err',
           ~err' /\ faults' \cap {"full", "overrun"} = {} => w = n
    PROVE  Ordered' /\ NoneDropped' /\ Len(cells') + Len(ring') <= clock'
<1>1. /\ Len(cells) \in Nat /\ Len(ring) \in Nat /\ clock \in Nat
      /\ \A i \in 1..Len(cells) : cells[i] \in Nat
      /\ \A i \in 1..Len(ring) : ring[i] \in Nat
  BY StepType
<1>2. ASSUME NEW i \in 1..Len(cells')
      PROVE  i \in 1..Len(cells) \/ \E k \in 1..w : i = Len(cells) + k
  <2>1. CASE i <= Len(cells)
    BY <1>1, <2>1
  <2>2. CASE i > Len(cells)
    <3>1. i - Len(cells) \in 1..w /\ i = Len(cells) + (i - Len(cells))
      BY <1>1, <2>2
    <3> QED
      BY <3>1
  <2> QED
    BY <1>1, <2>1, <2>2
<1>3. ASSUME NEW j \in 1..Len(ring')
      PROVE  n + j \in 1..Len(ring) /\ ring'[j] = ring[n + j]
  BY <1>1
<1>4. Ordered'
  <2>1. ASSUME NEW i \in 1..Len(cells'), NEW j \in 1..Len(cells'), i < j
        PROVE  cells'[i] < cells'[j]
    <3>1. CASE i \in 1..Len(cells) /\ j \in 1..Len(cells)
      BY <2>1, <3>1 DEF Ordered
    <3>2. CASE i \in 1..Len(cells) /\ \E k \in 1..w : j = Len(cells) + k
      <4>1. PICK k \in 1..w : j = Len(cells) + k
        BY <3>2
      <4>2. cells'[j] = ring[k] /\ k \in 1..Len(ring) /\ cells'[i] = cells[i]
        BY <1>1, <3>2, <4>1
      <4>3. cells[i] < ring[k]
        BY <3>2, <4>2 DEF Ordered
      <4> QED
        BY <4>2, <4>3
    <3>3. CASE \E k \in 1..w : i = Len(cells) + k
      <4>1. PICK k \in 1..w : i = Len(cells) + k
        BY <3>3
      <4>2. PICK l \in 1..w : j = Len(cells) + l
        <5>1. ~(j <= Len(cells))
          BY <1>1, <2>1, <4>1
        <5>2. j \in 1..Len(cells) \/ \E l \in 1..w : j = Len(cells) + l
          BY <1>2
        <5>3. j \notin 1..Len(cells)
          BY <5>1
        <5> QED
          BY <5>2, <5>3
      <4>3. k < l /\ k \in 1..Len(ring) /\ l \in 1..Len(ring)
        BY <1>1, <2>1, <4>1, <4>2
      <4>4. ring[k] < ring[l]
        BY <4>3 DEF Ordered
      <4> QED
        BY <4>1, <4>2, <4>4
    <3> QED
      BY <1>2, <3>1, <3>2, <3>3
  <2>2. ASSUME NEW i \in 1..Len(ring'), NEW j \in 1..Len(ring'), i < j
        PROVE  ring'[i] < ring'[j]
    <3>1. n + i \in 1..Len(ring) /\ n + j \in 1..Len(ring) /\ n + i < n + j
      BY <1>3, <2>2
    <3>2. ring[n + i] < ring[n + j]
      BY <3>1 DEF Ordered
    <3> QED
      BY <1>3, <3>2
  <2>3. ASSUME NEW i \in 1..Len(cells'), NEW j \in 1..Len(ring')
        PROVE  cells'[i] < ring'[j]
    <3>1. CASE i \in 1..Len(cells)
      BY <1>3, <3>1 DEF Ordered
    <3>2. CASE \E k \in 1..w : i = Len(cells) + k
      <4>1. PICK k \in 1..w : i = Len(cells) + k
        BY <3>2
      <4>2. k \in 1..Len(ring) /\ n + j \in 1..Len(ring) /\ k < n + j
        BY <1>1, <1>3, <4>1
      <4>3. ring[k] < ring[n + j]
        BY <4>2 DEF Ordered
      <4> QED
        BY <1>3, <4>1, <4>3
    <3> QED
      BY <1>2, <3>1, <3>2
  <2>4. ASSUME NEW i \in 1..Len(cells') PROVE cells'[i] <= clock
    <3>1. CASE i \in 1..Len(cells)
      BY <3>1 DEF Ordered
    <3>2. CASE \E k \in 1..w : i = Len(cells) + k
      <4>1. PICK k \in 1..w : i = Len(cells) + k
        BY <3>2
      <4>2. k \in 1..Len(ring)
        BY <1>1, <4>1
      <4> QED
        BY <4>1, <4>2 DEF Ordered
    <3> QED
      BY <1>2, <3>1, <3>2
  <2>5. ASSUME NEW j \in 1..Len(ring') PROVE ring'[j] <= clock
    BY <1>3 DEF Ordered
  <2> QED
    BY <2>1, <2>2, <2>3, <2>4, <2>5 DEF Ordered
<1>5. NoneDropped'
  <2>1. SUFFICES ASSUME faults' \cap {"full", "overrun"} = {}
                 PROVE  /\ \A i \in 1..Len(cells') : cells'[i] = i
                        /\ ~err' => /\ Len(cells') + Len(ring') = clock
                                    /\ \A j \in 1..Len(ring') : ring'[j] = Len(cells') + j
    BY DEF NoneDropped
  <2>2. faults \cap {"full", "overrun"} = {}
    BY <2>1
  <2>3. /\ \A i \in 1..Len(cells) : cells[i] = i
        /\ ~err => /\ Len(cells) + Len(ring) = clock
                   /\ \A j \in 1..Len(ring) : ring[j] = Len(cells) + j
    BY <2>2 DEF NoneDropped
  <2>4. ASSUME NEW i \in 1..Len(cells') PROVE cells'[i] = i
    <3>1. CASE i \in 1..Len(cells)
      BY <2>3, <3>1
    <3>2. CASE \E k \in 1..w : i = Len(cells) + k
      <4>1. PICK k \in 1..w : i = Len(cells) + k
        BY <3>2
      <4>2. k \in 1..Len(ring) /\ w # 0
        BY <1>1, <4>1
      <4>3. ring[k] = Len(cells) + k
        BY <2>3, <4>2
      <4> QED
        BY <4>1, <4>3
    <3> QED
      BY <1>2, <3>1, <3>2
  <2>5. ASSUME ~err'
        PROVE  /\ Len(cells') + Len(ring') = clock
               /\ \A j \in 1..Len(ring') : ring'[j] = Len(cells') + j
    <3>1. w = n /\ ~err
      BY <2>1, <2>5
    <3>2. Len(cells') + Len(ring') = clock
      <4>1. Len(cells) + Len(ring) = clock
        BY <2>3, <3>1
      <4>2. Len(cells') = Len(cells) + n /\ Len(ring') = Len(ring) - n
        BY <3>1
      <4>3. PICK c \in Nat, r \in Nat, v \in Nat : c = Len(cells) /\ r = Len(ring) /\ v = n
        BY <1>1
      <4>4. (c + v) + (r - v) = c + r
        BY <4>3
      <4> QED
        BY <4>1, <4>2, <4>3, <4>4
    <3>3. ASSUME NEW j \in 1..Len(ring') PROVE ring'[j] = Len(cells') + j
      <4>1. ring[n + j] = Len(cells) + (n + j)
        BY <1>3, <2>3, <3>1
      <4> QED
        BY <1>1, <1>3, <3>1, <4>1
    <3> QED
      BY <3>2, <3>3
  <2> QED
    BY <2>4, <2>5
<1>6. Len(cells') + Len(ring') <= clock'
  BY <1>1 DEF AtEnd
<1> QED
  BY <1>4, <1>5, <1>6

LEMMA DrainKeeps == ASSUME IInv, Drain PROVE IInv'
<1> DEFINE n == Least(Len(ring), Scratch)
<1>0. /\ TypeOK /\ InPlace /\ AtEnd /\ Ordered /\ NoneDropped /\ Headers /\ SyncedGiven
      /\ Completed
  BY DEF IInv
<1>1. /\ main = "pump" /\ main' = "pump" /\ mode' = mode /\ finalizing' = finalizing
      /\ synced' = synced /\ clock' = clock /\ n > 0
      /\ mode = "record" \/ finalizing
  <2>1. mode \in {"idle", "record"} /\ finalizing \in BOOLEAN
    BY <1>0 DEF TypeOK
  <2>2. main = "pump" /\ n > 0 /\ UNCHANGED <<deck, main, synced, clock>>
    BY DEF Drain
  <2>3. mode = "record" \/ finalizing
    BY <1>0, <2>1, <2>2 DEF InPlace
  <2> QED
    BY <2>2, <2>3 DEF deck
<1>2. n \in 1..Len(ring) /\ Len(ring) \in Nat /\ Len(cells) \in Nat /\ space \in Nat
  BY <1>0, <1>1, StepType DEF Least
<1>3. /\ ring' \in Seq(Frames) /\ Len(ring') = Len(ring) - n
      /\ \A j \in 1..Len(ring) - n : ring'[j] = ring[n + j]
  <2>1. ring' = SubSeq(ring, n + 1, Len(ring))
    BY DEF Drain
  <2> HIDE DEF n
  <2> QED
    BY <1>0, <1>2, <2>1, TakenOut
<1>4. ~err => pos = Len(cells) /\ body = Len(cells) /\ Room = space
  <2>1. ~err => pos = Len(cells) /\ body = Len(cells)
    BY <1>0, <1>1 DEF AtEnd
  <2> QED
    BY <1>2, <2>1 DEF Room
<1>5. \E w \in 0..n :
        /\ cells' \in Seq(Frames) /\ Len(cells') = Len(cells) + w
        /\ \A i \in 1..Len(cells) : cells'[i] = cells[i]
        /\ \A i \in 1..w : cells'[Len(cells) + i] = ring[i]
        /\ w # 0 => ~err
        /\ faults \subseteq faults' /\ faults' \subseteq faults \cup {"full", "device"}
        /\ err => err'
        /\ err' \in BOOLEAN
        /\ ~err' /\ faults' \cap {"full", "overrun"} = {} => w = n
        /\ err' => "device" \in faults'
        /\ ~err' => pos' = Len(cells')
        /\ pos' \in -1..Len(cells')
        /\ space' \in Nat
        /\ body' = IF err' THEN body ELSE body + w
        /\ hdr' = hdr /\ disk' = disk
  <2>1. CASE ~err /\ err' = err
    <3>1. PICK w \in 0..n : w = Least(n, space) /\ w <= space
      BY <1>2 DEF Least
    <3>2. w \in Nat /\ w <= n /\ w <= space
      BY <1>2, <3>1
    <3>3. /\ Puts(SubSeq(ring, 1, n), w) /\ body' = body + w
          /\ faults' = IF w < n THEN faults \cup {"full"} ELSE faults
      BY <1>4, <2>1, <3>1 DEF Drain, Fails
    <3>n. n \in 0..Len(ring)
      BY <1>2
    <3> HIDE DEF n
    <3>4. /\ cells' \in Seq(Frames) /\ Len(cells') = Len(cells) + w
          /\ \A i \in 1..Len(cells) : cells'[i] = cells[i]
          /\ \A i \in 1..w : cells'[Len(cells) + i] = ring[i]
          /\ pos' = Len(cells) + w /\ space' \in Nat
          /\ hdr' = hdr /\ disk' = disk
      BY <1>0, <1>2, <1>4, <2>1, <3>1, <3>3, <3>n, PutsAppends
    <3>5. pos' \in -1..Len(cells')
      BY <1>2, <3>2, <3>4
    <3>6. w < n \/ w = n
      BY <1>2, <3>2
    <3>7. faults \subseteq faults' /\ faults' \subseteq faults \cup {"full", "device"}
      BY <3>3
    <3>8. faults' \cap {"full", "overrun"} = {} => w = n
      BY <3>3, <3>6
    <3>9. err' = FALSE /\ err' \in BOOLEAN
      BY <1>0, <2>1 DEF TypeOK
    <3> QED
      BY <2>1, <3>2, <3>3, <3>4, <3>5, <3>7, <3>8, <3>9
  <2>2. CASE ~err /\ err'
    <3>1. PICK w \in 0..n : w <= space /\ Puts(SubSeq(ring, 1, n), w)
      <4>1. PICK v \in 0..Least(n, space) : Puts(SubSeq(ring, 1, n), v)
        BY <1>4, <2>2 DEF Drain
      <4>2. v \in 0..n /\ v <= space
        BY <1>2, <4>1 DEF Least
      <4> QED
        BY <4>1, <4>2
    <3>2. w \in Nat /\ w <= n /\ w <= space
      BY <1>2, <3>1
    <3>3. err' = TRUE /\ faults' = faults \cup {"device"} /\ body' = body
      BY <2>2 DEF Drain, Fails
    <3>n. n \in 0..Len(ring)
      BY <1>2
    <3> HIDE DEF n
    <3>4. /\ cells' \in Seq(Frames) /\ Len(cells') = Len(cells) + w
          /\ \A i \in 1..Len(cells) : cells'[i] = cells[i]
          /\ \A i \in 1..w : cells'[Len(cells) + i] = ring[i]
          /\ pos' = Len(cells) + w /\ space' \in Nat
          /\ hdr' = hdr /\ disk' = disk
      BY <1>0, <1>2, <1>4, <2>2, <3>1, <3>n, PutsAppends
    <3>5. pos' \in -1..Len(cells')
      BY <1>2, <3>2, <3>4
    <3> QED
      BY <2>2, <3>2, <3>3, <3>4, <3>5
  <2>3. CASE err
    <3>1. UNCHANGED <<pos, hdr, cells, err, space, disk, body, faults>>
      BY <2>3 DEF Drain, fatFile
    <3>2. 0 \in 0..n
      BY <1>2
    <3>3. /\ cells' \in Seq(Frames) /\ Len(cells') = Len(cells) + 0 /\ pos' \in -1..Len(cells')
          /\ space' \in Nat /\ err' \in BOOLEAN
      BY <1>0, <1>2, <3>1 DEF TypeOK
    <3>5. \A i \in 1..0 : cells'[Len(cells) + i] = ring[i]
      OBVIOUS
    <3>4. "device" \in faults
      BY <1>0, <2>3 DEF AtEnd
    <3> HIDE DEF n
    <3> QED
      BY <2>3, <3>1, <3>2, <3>3, <3>4, <3>5
  <2> QED
    BY <1>0, <2>1, <2>2, <2>3 DEF Drain, TypeOK, Fails
<1> HIDE DEF n
<1>6. PICK w \in 0..n :
        /\ cells' \in Seq(Frames) /\ Len(cells') = Len(cells) + w
        /\ \A i \in 1..Len(cells) : cells'[i] = cells[i]
        /\ \A i \in 1..w : cells'[Len(cells) + i] = ring[i]
        /\ w # 0 => ~err
        /\ faults \subseteq faults' /\ faults' \subseteq faults \cup {"full", "device"}
        /\ err => err'
        /\ err' \in BOOLEAN
        /\ ~err' /\ faults' \cap {"full", "overrun"} = {} => w = n
        /\ err' => "device" \in faults'
        /\ ~err' => pos' = Len(cells')
        /\ pos' \in -1..Len(cells')
        /\ space' \in Nat
        /\ body' = IF err' THEN body ELSE body + w
        /\ hdr' = hdr /\ disk' = disk
  BY <1>5
<1>7. Ordered' /\ NoneDropped' /\ Len(cells') + Len(ring') <= clock'
  <2>1. n \in 0..Len(ring)
    BY <1>2
  <2> QED
    BY <1>0, <1>1, <1>3, <1>6, <2>1, MovedKeeps
<1>8. body \in Nat /\ body' \in Nat /\ body <= body' /\ body' <= Len(cells') /\ body' <= MaxTake
  <2>1. body \in Nat /\ body <= Len(cells) /\ MaxTake \in Nat /\ clock <= MaxTake /\ clock \in Nat
    BY <1>0, StepType DEF AtEnd, TypeOK
  <2>2. ~err' => body = Len(cells)
    BY <1>0, <1>6 DEF AtEnd
  <2>3. Len(cells') \in Nat /\ Len(ring') \in Nat
    BY <1>2, <1>3, <1>6
  <2>4. body' \in Nat /\ body <= body' /\ body' <= Len(cells')
    BY <1>2, <1>6, <2>1, <2>2
  <2> QED
    BY <1>1, <1>7, <2>1, <2>3, <2>4
<1>9. TypeOK'
  <2>1. synced' \in 0..body' /\ hdr' \in -1..body' /\ disk'.hdrs \subseteq -1..body'
    BY <1>0, <1>1, <1>6, <1>8 DEF TypeOK
  <2>2. Len(ring') <= Cap /\ disk'.len \in 0..Len(cells')
    <3>1. Len(ring) <= Cap /\ Cap \in Nat /\ disk.len \in 0..Len(cells) /\ disk' = disk
      BY <1>0, <1>6, StepType DEF TypeOK
    <3>2. n \in Nat /\ w \in Nat /\ Len(ring') = Len(ring) - n
          /\ Len(cells') = Len(cells) + w
      BY <1>2, <1>3, <1>6
    <3> QED
      BY <1>2, <3>1, <3>2
  <2>3. faults' \subseteq {"device", "sync", "full", "overrun"}
    BY <1>0, <1>6 DEF TypeOK
  <2>4. body' \in 0..MaxTake
    BY <1>0, <1>8, StepType
  <2> QED
    BY <1>0, <1>1, <1>3, <1>6, <2>1, <2>2, <2>3, <2>4 DEF TypeOK
<1>10. InPlace'
  <2>1. hdr # -1
    BY <1>0, <1>1 DEF InPlace
  <2> QED
    BY <1>0, <1>1, <1>6, <2>1 DEF InPlace, Finals
<1>11. AtEnd'
  <2>1. ~err' => body' = Len(cells')
    BY <1>0, <1>6 DEF AtEnd
  <2> QED
    BY <1>6, <1>7, <1>8, <2>1 DEF AtEnd
<1>12. Headers' /\ SyncedGiven' /\ Completed'
  BY <1>0, <1>1, <1>6 DEF Headers, SyncedGiven, Completed, Given
<1> QED
  BY <1>7, <1>9, <1>10, <1>11, <1>12 DEF IInv

-----------------------------------------------------------------------------
(* Checkpoints and the end of a take. *)

Parts == /\ TypeOK /\ InPlace /\ AtEnd /\ Ordered /\ NoneDropped /\ Headers /\ SyncedGiven
         /\ Completed

\* What moves no frames leaves them in order.
LEMMA StillOrdered ==
    ASSUME Ordered, NoneDropped, cells' = cells, ring' = ring, clock' = clock,
           faults \subseteq faults', err => err'
    PROVE  Ordered' /\ NoneDropped'
BY DEF Ordered, NoneDropped

LEMMA DrainedKeeps == ASSUME IInv, Drained PROVE IInv'
<1>0. Parts
  BY DEF IInv, Parts
<1>1. /\ main = "pump" /\ ring = <<>>
      /\ main' = IF finalizing THEN "final_seek"
                 ELSE IF body - synced >= SyncFrames THEN "check_seek" ELSE "idle"
      /\ mode' = mode /\ finalizing' = finalizing /\ ring' = ring /\ body' = body /\ synced' = synced
      /\ pos' = pos /\ hdr' = hdr /\ cells' = cells /\ err' = err /\ space' = space /\ disk' = disk
      /\ clock' = clock /\ faults' = faults
  BY DEF Drained, deck, writer, fatFile
<1>2. TypeOK'
  BY <1>0, <1>1 DEF Parts, TypeOK
<1>3. mode = "record" \/ finalizing
  BY <1>0, <1>1 DEF Parts, InPlace, TypeOK
<1>4. InPlace'
  BY <1>0, <1>1, <1>3 DEF Parts, InPlace, Finals
<1>5. AtEnd'
  BY <1>0, <1>1 DEF Parts, AtEnd
<1>6. Ordered' /\ NoneDropped'
  BY <1>0, <1>1, StillOrdered DEF Parts
<1>7. Headers' /\ Completed'
  BY <1>0, <1>1, <1>3 DEF Parts, Headers, Completed
<1>8. SyncedGiven'
  <2>1. body \in Int /\ synced \in Int /\ SyncFrames \in Int
    BY <1>0, StepType DEF Parts
  <2>2. mode = "record" => ~finalizing
    BY <1>0 DEF Parts, InPlace
  <2> QED
    BY <1>0, <1>1, <2>1, <2>2 DEF Parts, SyncedGiven, Given
<1> QED
  BY <1>2, <1>4, <1>5, <1>6, <1>7, <1>8 DEF IInv

\* The steps of a checkpoint are in a recording, and those of an end are not.
LEMMA CheckSeekKeeps == ASSUME IInv, CheckSeek PROVE IInv'
<1>0. Parts
  BY DEF IInv, Parts
<1>1. /\ main = "check_seek" /\ mode' = mode /\ finalizing' = finalizing /\ ring' = ring
      /\ body' = body /\ clock' = clock
      /\ hdr' = hdr /\ cells' = cells /\ space' = space /\ disk' = disk
  BY DEF CheckSeek, SeekOk, SeekFails, deck
<1>2. /\ mode = "record" /\ ~finalizing /\ mode # "idle"
      /\ body \in Nat /\ synced \in 0..body
  BY <1>0, <1>1 DEF Parts, InPlace, TypeOK
<1>3. CASE SeekOk(-1) /\ main' = "check_header" /\ UNCHANGED synced
  <2>1. pos' = -1 /\ err' = err /\ faults' = faults /\ main' = "check_header" /\ synced' = synced
        /\ ~err
    BY <1>3 DEF SeekOk
  <2>2. TypeOK'
    BY <1>0, <1>1, <2>1, StepType DEF Parts, TypeOK
  <2>3. InPlace' /\ AtEnd'
    BY <1>0, <1>1, <1>2, <2>1 DEF Parts, InPlace, AtEnd, Finals
  <2>4. Ordered' /\ NoneDropped'
    BY <1>0, <1>1, <2>1, StillOrdered DEF Parts
  <2>5. Headers' /\ SyncedGiven' /\ Completed'
    BY <1>0, <1>1, <1>2, <2>1 DEF Parts, Headers, SyncedGiven, Completed, Given
  <2> QED
    BY <2>2, <2>3, <2>4, <2>5 DEF IInv
<1>4. CASE SeekFails /\ CheckpointEnds
  <2>1. pos' = pos /\ err' = TRUE /\ faults' = faults \cup {"device"} /\ main' = "idle"
        /\ synced' = body
    BY <1>4 DEF SeekFails, Fails, CheckpointEnds
  <2>2. TypeOK'
    BY <1>0, <1>1, <1>2, <2>1 DEF Parts, TypeOK
  <2>3. InPlace' /\ AtEnd'
    BY <1>0, <1>1, <1>2, <2>1 DEF Parts, InPlace, AtEnd, Finals
  <2>4. Ordered' /\ NoneDropped'
    BY <1>0, <1>1, <2>1, StillOrdered DEF Parts
  <2>5. Headers' /\ SyncedGiven' /\ Completed'
    BY <1>0, <1>1, <1>2, <2>1 DEF Parts, Headers, SyncedGiven, Completed, Given
  <2> QED
    BY <2>2, <2>3, <2>4, <2>5 DEF IInv
<1> QED
  BY <1>3, <1>4 DEF CheckSeek

\* A header written to the medium states all the file has, which is no less than any
\* other it may have.
LEMMA HeaderGiven ==
    ASSUME TypeOK, Headers, AtEnd, ~err, disk' = [disk EXCEPT !.hdrs = @ \cup {body}],
           hdr' = body, body' = body, cells' = cells
    PROVE  /\ disk'.hdrs = disk.hdrs \cup {body} /\ disk'.len = disk.len
           /\ disk'.hdrs \subseteq -1..body' /\ disk'.hdrs # {} /\ disk'.len \in 0..Len(cells')
           /\ hdr' \in disk'.hdrs
           /\ \E m \in disk'.hdrs : \A h \in disk'.hdrs : m <= h
           /\ \A h \in disk'.hdrs : \E g \in disk.hdrs : Given(g) <= Given(h)'
<1>0. body \in Nat /\ Len(cells) \in Nat /\ disk.hdrs \subseteq -1..body /\ disk.len \in 0..Len(cells)
  BY StepType DEF TypeOK
<1>1. disk'.hdrs = disk.hdrs \cup {body} /\ disk'.len = disk.len
  <2>1. disk = [hdrs |-> disk.hdrs, len |-> disk.len]
    BY DEF Headers
  <2> QED
    BY <2>1
<1>2. PICK m \in disk.hdrs : \A h \in disk.hdrs : m <= h
  BY DEF Headers
<1>3. \A h \in disk'.hdrs : m <= h
  BY <1>0, <1>1, <1>2
<1>4. ASSUME NEW h \in disk'.hdrs PROVE \E g \in disk.hdrs : Given(g) <= Given(h)'
  <2>1. m <= h /\ m \in Int /\ h \in Int
    BY <1>0, <1>1, <1>3
  <2>2. Given(m) <= Given(h)'
    BY <1>0, <1>1, <2>1 DEF Given, Greatest, Least
  <2> QED
    BY <2>2
<1> QED
  BY <1>0, <1>1, <1>2, <1>3, <1>4

\* A header on the medium, the last one written or the length of the file: a sync puts
\* nothing less in place of what was there.
LEMMA SyncGives ==
    ASSUME TypeOK, Headers, SyncOk \/ SyncFails, body' = body
    PROVE  /\ disk' = [hdrs |-> disk'.hdrs, len |-> disk'.len]
           /\ disk'.hdrs \subseteq -1..body' /\ disk'.hdrs # {} /\ disk'.len \in 0..Len(cells')
           /\ hdr' \in disk'.hdrs
           /\ \E m \in disk'.hdrs : \A h \in disk'.hdrs : m <= h
           /\ \A h \in disk'.hdrs : \E g \in disk.hdrs : Given(g) <= Given(h)'
           /\ cells' = cells /\ hdr' = hdr /\ pos' = pos /\ err' = err /\ space' = space
           /\ faults' \in {faults, faults \cup {"sync"}}
           /\ "sync" \notin faults' => disk'.hdrs = {hdr} /\ disk'.len = Len(cells)
<1>0. /\ body \in Nat /\ Len(cells) \in Nat /\ disk.hdrs \subseteq -1..body
      /\ disk.len \in 0..Len(cells) /\ hdr \in disk.hdrs
      /\ disk = [hdrs |-> disk.hdrs, len |-> disk.len]
  BY StepType DEF TypeOK, Headers
<1>1. PICK m \in disk.hdrs : \A h \in disk.hdrs : m <= h
  BY DEF Headers
<1>2. \A h \in disk.hdrs : disk.len <= disk'.len /\ disk'.len \in Nat => Given(h) <= Given(h)'
  BY <1>0 DEF Given, Greatest, Least
<1>3. CASE SyncOk
  <2>1. disk'.hdrs = {hdr} /\ disk'.len = Len(cells) /\ disk' = [hdrs |-> {hdr}, len |-> Len(cells)]
    BY <1>3 DEF SyncOk
  <2>2. ASSUME NEW h, h = hdr PROVE Given(h) <= Given(h)'
    BY <1>0, <1>2, <2>1, <2>2
  <2>3. /\ cells' = cells /\ hdr' = hdr /\ pos' = pos /\ err' = err /\ space' = space
        /\ faults' = faults
    BY <1>3 DEF SyncOk
  <2>4. \A h \in {hdr} : hdr <= h
    BY <1>0
  <2>5. \A h \in disk'.hdrs : h \in disk.hdrs /\ Given(h) <= Given(h)'
    BY <1>0, <2>1, <2>2
  <2> QED
    BY <1>0, <2>1, <2>3, <2>4, <2>5
<1>4. CASE SyncFails
  <2>1. /\ cells' = cells /\ hdr' = hdr /\ pos' = pos /\ err' = err /\ space' = space
        /\ faults' = faults \cup {"sync"}
    BY <1>4 DEF SyncFails
  <2>2. disk'.hdrs = disk.hdrs /\ disk' = [hdrs |-> disk'.hdrs, len |-> disk'.len]
        /\ disk'.len \in {disk.len, Len(cells)}
    <3>1. disk' \in {disk, [hdrs |-> disk.hdrs, len |-> Len(cells)]}
      BY <1>0, <1>4 DEF SyncFails
    <3> QED
      BY <1>0, <3>1
  <2>3. \A h \in disk'.hdrs : Given(h) <= Given(h)'
    BY <1>0, <1>2, <2>2
  <2> QED
    BY <1>0, <1>1, <2>1, <2>2, <2>3
<1> QED
  BY <1>3, <1>4

LEMMA CheckHeaderKeeps == ASSUME IInv, CheckHeader PROVE IInv'
<1>0. Parts
  BY DEF IInv, Parts
<1>1. /\ main = "check_header" /\ mode' = mode /\ finalizing' = finalizing /\ ring' = ring
      /\ body' = body /\ clock' = clock /\ cells' = cells /\ space' = space
  BY DEF CheckHeader, HeaderOk, HeaderFails, deck
<1>2. /\ mode = "record" /\ ~finalizing /\ mode # "idle"
      /\ body \in Nat /\ synced \in 0..body /\ hdr # -1 /\ Len(cells) \in Nat
  BY <1>0, <1>1, StepType DEF Parts, InPlace, TypeOK
<1>3. CASE HeaderOk(body) /\ main' = "check_return" /\ UNCHANGED synced
  <2>1. pos' = 0 /\ hdr' = body /\ err' = err /\ faults' = faults /\ main' = "check_return"
        /\ synced' = synced /\ ~err /\ disk' = [disk EXCEPT !.hdrs = @ \cup {body}]
    BY <1>3 DEF HeaderOk
  <2>2. /\ disk'.hdrs = disk.hdrs \cup {body} /\ disk'.len = disk.len
        /\ disk'.hdrs \subseteq -1..body' /\ disk'.hdrs # {} /\ disk'.len \in 0..Len(cells')
        /\ hdr' \in disk'.hdrs
        /\ \E m \in disk'.hdrs : \A h \in disk'.hdrs : m <= h
        /\ \A h \in disk'.hdrs : \E g \in disk.hdrs : Given(g) <= Given(h)'
    BY <1>0, <1>1, <2>1, HeaderGiven DEF Parts
  <2>3. disk' = [hdrs |-> disk'.hdrs, len |-> disk'.len]
    BY <1>0, <2>1 DEF Parts, Headers
  <2>4. TypeOK'
    <3>1. pos' \in -1..Len(cells') /\ hdr' \in -1..body' /\ body' \in 0..MaxTake
          /\ synced' \in 0..body'
      BY <1>0, <1>1, <1>2, <2>1 DEF Parts, TypeOK
    <3> QED
      BY <1>0, <1>1, <2>1, <2>2, <3>1 DEF Parts, TypeOK
  <2>5. InPlace' /\ AtEnd'
    BY <1>0, <1>1, <1>2, <2>1 DEF Parts, InPlace, AtEnd, Finals
  <2>6. Ordered' /\ NoneDropped'
    BY <1>0, <1>1, <2>1, StillOrdered DEF Parts
  <2>7. Headers'
    BY <1>1, <2>1, <2>2, <2>3 DEF Headers
  <2>8. SyncedGiven'
    <3>1. SUFFICES ASSUME "sync" \notin faults, NEW h \in disk'.hdrs
                   PROVE  synced <= Given(h)'
      BY <1>1, <2>1 DEF SyncedGiven
    <3>2. PICK g \in disk.hdrs : Given(g) <= Given(h)'
      BY <2>2
    <3>3. synced <= Given(g)
      BY <1>0, <1>2, <2>1, <3>1 DEF Parts, SyncedGiven
    <3>4. Given(g) \in Int /\ Given(h)' \in Int
      <4>0. (\A x \in disk.hdrs : x \in Int) /\ disk.len \in Nat
        BY <1>0, StepType DEF Parts
      <4>2. g \in Int /\ disk.len \in Int /\ disk'.len = disk.len
        BY <2>2, <4>0
      <4>3. h \in disk.hdrs \cup {body}
        BY <2>2
      <4>4. h \in Int
        BY <1>2, <4>0, <4>3
      <4>1. g \in Int /\ h \in Int /\ disk.len \in Int /\ disk'.len \in Int
        BY <4>2, <4>4
      <4> QED
        BY <4>1 DEF Given, Greatest, Least
    <3> QED
      BY <1>2, <3>2, <3>3, <3>4
  <2>9. Completed'
    BY <1>1, <1>2 DEF Completed
  <2> QED
    BY <2>4, <2>5, <2>6, <2>7, <2>8, <2>9 DEF IInv
<1>4. CASE HeaderFails /\ CheckpointEnds
  <2>1. pos' = pos /\ hdr' = hdr /\ disk' = disk /\ err' = TRUE
        /\ faults' = faults \cup {"device"} /\ main' = "idle" /\ synced' = body
    BY <1>4 DEF HeaderFails, Fails, CheckpointEnds
  <2>2. TypeOK'
    BY <1>0, <1>1, <1>2, <2>1 DEF Parts, TypeOK
  <2>3. InPlace' /\ AtEnd'
    BY <1>0, <1>1, <1>2, <2>1 DEF Parts, InPlace, AtEnd, Finals
  <2>4. Ordered' /\ NoneDropped'
    BY <1>0, <1>1, <2>1, StillOrdered DEF Parts
  <2>5. Headers' /\ SyncedGiven' /\ Completed'
    BY <1>0, <1>1, <1>2, <2>1 DEF Parts, Headers, SyncedGiven, Completed, Given
  <2> QED
    BY <2>2, <2>3, <2>4, <2>5 DEF IInv
<1> QED
  BY <1>3, <1>4 DEF CheckHeader

LEMMA CheckReturnKeeps == ASSUME IInv, CheckReturn PROVE IInv'
<1>0. Parts
  BY DEF IInv, Parts
<1>1. /\ main = "check_return" /\ mode' = mode /\ finalizing' = finalizing /\ ring' = ring
      /\ body' = body /\ clock' = clock
      /\ hdr' = hdr /\ cells' = cells /\ space' = space /\ disk' = disk
  BY DEF CheckReturn, SeekOk, SeekFails, deck
<1>2. /\ mode = "record" /\ ~finalizing /\ mode # "idle"
      /\ body \in Nat /\ synced \in 0..body /\ Len(cells) \in Nat
  BY <1>0, <1>1, StepType DEF Parts, InPlace, TypeOK
<1>3. CASE SeekOk(body) /\ main' = "check_sync" /\ UNCHANGED synced
  <2>1. pos' = body /\ err' = err /\ faults' = faults /\ main' = "check_sync" /\ synced' = synced
        /\ ~err
    BY <1>3 DEF SeekOk
  <2>2. body = Len(cells)
    BY <1>0, <2>1 DEF Parts, AtEnd
  <2>3. TypeOK'
    BY <1>0, <1>1, <1>2, <2>1, <2>2 DEF Parts, TypeOK
  <2>4. InPlace' /\ AtEnd'
    BY <1>0, <1>1, <1>2, <2>1, <2>2 DEF Parts, InPlace, AtEnd, Finals
  <2>5. Ordered' /\ NoneDropped'
    BY <1>0, <1>1, <2>1, StillOrdered DEF Parts
  <2>6. Headers' /\ SyncedGiven' /\ Completed'
    BY <1>0, <1>1, <1>2, <2>1 DEF Parts, Headers, SyncedGiven, Completed, Given
  <2> QED
    BY <2>3, <2>4, <2>5, <2>6 DEF IInv
<1>4. CASE SeekFails /\ CheckpointEnds
  <2>1. pos' = pos /\ err' = TRUE /\ faults' = faults \cup {"device"} /\ main' = "idle"
        /\ synced' = body
    BY <1>4 DEF SeekFails, Fails, CheckpointEnds
  <2>2. TypeOK'
    BY <1>0, <1>1, <1>2, <2>1 DEF Parts, TypeOK
  <2>3. InPlace' /\ AtEnd'
    BY <1>0, <1>1, <1>2, <2>1 DEF Parts, InPlace, AtEnd, Finals
  <2>4. Ordered' /\ NoneDropped'
    BY <1>0, <1>1, <2>1, StillOrdered DEF Parts
  <2>5. Headers' /\ SyncedGiven' /\ Completed'
    BY <1>0, <1>1, <1>2, <2>1 DEF Parts, Headers, SyncedGiven, Completed, Given
  <2> QED
    BY <2>2, <2>3, <2>4, <2>5 DEF IInv
<1> QED
  BY <1>3, <1>4 DEF CheckReturn

\* A sync that works leaves one header, of all that was written.
LEMMA CheckSyncKeeps == ASSUME IInv, CheckSync PROVE IInv'
<1>0. Parts
  BY DEF IInv, Parts
<1>1. /\ main = "check_sync" /\ mode' = mode /\ finalizing' = finalizing /\ ring' = ring
      /\ body' = body /\ clock' = clock /\ main' = "idle" /\ synced' = body
      /\ SyncOk \/ SyncFails
  BY DEF CheckSync, CheckpointEnds, deck
<1>2. /\ mode = "record" /\ ~finalizing /\ mode # "idle" /\ ~err /\ hdr = body
      /\ body \in Nat /\ Len(cells) \in Nat /\ body = Len(cells) /\ SyncFrames \in Nat \ {0}
  BY <1>0, <1>1, StepType DEF Parts, InPlace, TypeOK, Headers, AtEnd
<1>3. /\ disk' = [hdrs |-> disk'.hdrs, len |-> disk'.len]
      /\ disk'.hdrs \subseteq -1..body' /\ disk'.hdrs # {} /\ disk'.len \in 0..Len(cells')
      /\ hdr' \in disk'.hdrs
      /\ \E m \in disk'.hdrs : \A h \in disk'.hdrs : m <= h
      /\ cells' = cells /\ hdr' = hdr /\ pos' = pos /\ err' = err /\ space' = space
      /\ faults' \in {faults, faults \cup {"sync"}}
      /\ "sync" \notin faults' => disk'.hdrs = {hdr} /\ disk'.len = Len(cells)
  BY <1>0, <1>1, SyncGives DEF Parts
<1>4. TypeOK'
  BY <1>0, <1>1, <1>2, <1>3 DEF Parts, TypeOK
<1>5. InPlace' /\ AtEnd'
  BY <1>0, <1>1, <1>2, <1>3 DEF Parts, InPlace, AtEnd, Finals
<1>6. Ordered' /\ NoneDropped'
  BY <1>0, <1>1, <1>3, StillOrdered DEF Parts
<1>7. Headers' /\ Completed'
  BY <1>1, <1>2, <1>3 DEF Headers, Completed
<1>8. SyncedGiven'
  BY <1>1, <1>2, <1>3 DEF SyncedGiven, Given, Greatest, Least
<1> QED
  BY <1>4, <1>5, <1>6, <1>7, <1>8 DEF IInv

LEMMA FinalSeekKeeps == ASSUME IInv, FinalSeek PROVE IInv'
<1>0. Parts
  BY DEF IInv, Parts
<1>1. /\ main = "final_seek" /\ mode' = mode /\ finalizing' = finalizing /\ ring' = ring
      /\ body' = body /\ synced' = synced /\ clock' = clock
      /\ hdr' = hdr /\ cells' = cells /\ space' = space /\ disk' = disk
  BY DEF FinalSeek, SeekOk, SeekFails, deck, writer
<1>2. finalizing /\ mode = "idle" /\ mode # "record" /\ ring = <<>>
  BY <1>0, <1>1 DEF Parts, InPlace, Finals
<1>3. CASE SeekOk(-1) /\ main' = "final_header"
  <2>1. pos' = -1 /\ err' = err /\ faults' = faults /\ main' = "final_header"
    BY <1>3 DEF SeekOk
  <2>2. TypeOK'
    BY <1>0, <1>1, <2>1, StepType DEF Parts, TypeOK
  <2>3. InPlace' /\ AtEnd'
    BY <1>0, <1>1, <1>2, <2>1 DEF Parts, InPlace, AtEnd, Finals
  <2>4. Ordered' /\ NoneDropped'
    BY <1>0, <1>1, <2>1, StillOrdered DEF Parts
  <2>5. Headers' /\ SyncedGiven' /\ Completed'
    BY <1>0, <1>1, <1>2, <2>1 DEF Parts, Headers, SyncedGiven, Completed
  <2> QED
    BY <2>2, <2>3, <2>4, <2>5 DEF IInv
<1>4. CASE SeekFails /\ main' = "close"
  <2>1. pos' = pos /\ err' = TRUE /\ faults' = faults \cup {"device"} /\ main' = "close"
    BY <1>4 DEF SeekFails, Fails
  <2>2. TypeOK'
    BY <1>0, <1>1, <2>1 DEF Parts, TypeOK
  <2>3. InPlace' /\ AtEnd'
    BY <1>0, <1>1, <1>2, <2>1 DEF Parts, InPlace, AtEnd, Finals
  <2>4. Ordered' /\ NoneDropped'
    BY <1>0, <1>1, <2>1, StillOrdered DEF Parts
  <2>5. Headers' /\ SyncedGiven' /\ Completed'
    BY <1>0, <1>1, <1>2, <2>1 DEF Parts, Headers, SyncedGiven, Completed
  <2> QED
    BY <2>2, <2>3, <2>4, <2>5 DEF IInv
<1> QED
  BY <1>3, <1>4 DEF FinalSeek

LEMMA FinalHeaderKeeps == ASSUME IInv, FinalHeader PROVE IInv'
<1>0. Parts
  BY DEF IInv, Parts
<1>1. /\ main = "final_header" /\ main' = "close" /\ mode' = mode /\ finalizing' = finalizing
      /\ ring' = ring /\ body' = body /\ synced' = synced /\ clock' = clock
      /\ cells' = cells /\ space' = space
  BY DEF FinalHeader, HeaderOk, HeaderFails, deck, writer
<1>2. /\ finalizing /\ mode = "idle" /\ mode # "record" /\ ring = <<>> /\ hdr # -1
      /\ body \in Nat /\ synced \in 0..body /\ Len(cells) \in Nat
  BY <1>0, <1>1, StepType DEF Parts, InPlace, Finals, TypeOK
<1>3. CASE HeaderOk(body)
  <2>1. pos' = 0 /\ hdr' = body /\ err' = err /\ faults' = faults /\ ~err
        /\ disk' = [disk EXCEPT !.hdrs = @ \cup {body}]
    BY <1>3 DEF HeaderOk
  <2>2. /\ disk'.hdrs = disk.hdrs \cup {body} /\ disk'.len = disk.len
        /\ disk'.hdrs \subseteq -1..body' /\ disk'.hdrs # {} /\ disk'.len \in 0..Len(cells')
        /\ hdr' \in disk'.hdrs
        /\ \E m \in disk'.hdrs : \A h \in disk'.hdrs : m <= h
    BY <1>0, <1>1, <2>1, HeaderGiven DEF Parts
  <2>3. disk' = [hdrs |-> disk'.hdrs, len |-> disk'.len]
    BY <1>0, <2>1 DEF Parts, Headers
  <2>4. TypeOK'
    <3>1. pos' \in -1..Len(cells') /\ hdr' \in -1..body' /\ body' \in 0..MaxTake
          /\ synced' \in 0..body'
      BY <1>0, <1>1, <1>2, <2>1 DEF Parts, TypeOK
    <3> QED
      BY <1>0, <1>1, <2>1, <2>2, <3>1 DEF Parts, TypeOK
  <2>5. InPlace' /\ AtEnd'
    BY <1>0, <1>1, <1>2, <2>1 DEF Parts, InPlace, AtEnd, Finals
  <2>6. Ordered' /\ NoneDropped'
    BY <1>0, <1>1, <2>1, StillOrdered DEF Parts
  <2>7. Headers' /\ SyncedGiven' /\ Completed'
    BY <1>1, <1>2, <2>1, <2>2, <2>3 DEF Headers, SyncedGiven, Completed
  <2> QED
    BY <2>4, <2>5, <2>6, <2>7 DEF IInv
<1>4. CASE HeaderFails
  <2>1. pos' = pos /\ hdr' = hdr /\ disk' = disk /\ err' = TRUE
        /\ faults' = faults \cup {"device"}
    BY <1>4 DEF HeaderFails, Fails
  <2>2. TypeOK'
    BY <1>0, <1>1, <1>2, <2>1 DEF Parts, TypeOK
  <2>3. InPlace' /\ AtEnd'
    BY <1>0, <1>1, <1>2, <2>1 DEF Parts, InPlace, AtEnd, Finals
  <2>4. Ordered' /\ NoneDropped'
    BY <1>0, <1>1, <2>1, StillOrdered DEF Parts
  <2>5. Headers' /\ SyncedGiven' /\ Completed'
    BY <1>0, <1>1, <1>2, <2>1 DEF Parts, Headers, SyncedGiven, Completed
  <2> QED
    BY <2>2, <2>3, <2>4, <2>5 DEF IInv
<1> QED
  BY <1>3, <1>4 DEF FinalHeader

LEMMA CloseKeeps == ASSUME IInv, Close PROVE IInv'
<1>0. Parts
  BY DEF IInv, Parts
<1>1. /\ main = "close" /\ main' = "idle" /\ mode' = mode /\ finalizing' = FALSE /\ ring' = ring
      /\ body' = body /\ synced' = synced /\ clock' = clock
      /\ SyncOk \/ SyncFails
  BY DEF Close, writer
<1>2. /\ finalizing /\ mode = "idle" /\ mode # "record" /\ ring = <<>> /\ hdr # -1
      /\ body \in Nat /\ Len(cells) \in Nat /\ Len(ring) = 0
  BY <1>0, <1>1, StepType DEF Parts, InPlace, Finals, TypeOK
<1>3. /\ disk' = [hdrs |-> disk'.hdrs, len |-> disk'.len]
      /\ disk'.hdrs \subseteq -1..body' /\ disk'.hdrs # {} /\ disk'.len \in 0..Len(cells')
      /\ hdr' \in disk'.hdrs
      /\ \E m \in disk'.hdrs : \A h \in disk'.hdrs : m <= h
      /\ cells' = cells /\ hdr' = hdr /\ pos' = pos /\ err' = err /\ space' = space
      /\ faults' \in {faults, faults \cup {"sync"}}
      /\ "sync" \notin faults' => disk'.hdrs = {hdr} /\ disk'.len = Len(cells)
  BY <1>0, <1>1, SyncGives DEF Parts
<1>4. TypeOK'
  BY <1>0, <1>1, <1>2, <1>3 DEF Parts, TypeOK
<1>5. InPlace' /\ AtEnd'
  BY <1>0, <1>1, <1>2, <1>3 DEF Parts, InPlace, AtEnd, Finals
<1>6. Ordered' /\ NoneDropped'
  BY <1>0, <1>1, <1>3, StillOrdered DEF Parts
<1>7. Headers' /\ SyncedGiven'
  BY <1>1, <1>2, <1>3 DEF Headers, SyncedGiven
<1>8. Completed'
  <2>1. SUFFICES ASSUME faults' = {} PROVE disk'.hdrs = {clock} /\ disk'.len = clock
    BY <1>1 DEF Completed
  <2>2. faults = {} /\ "sync" \notin faults'
    BY <1>3, <2>1
  <2>3. ~err
    BY <1>0, <2>2 DEF Parts, AtEnd
  <2>4. hdr = body /\ body = Len(cells)
    BY <1>0, <1>1, <2>3 DEF Parts, Headers, AtEnd
  <2>5. Len(cells) + Len(ring) = clock
    BY <1>0, <2>2, <2>3 DEF Parts, NoneDropped
  <2> QED
    BY <1>2, <1>3, <2>2, <2>4, <2>5
<1> QED
  BY <1>4, <1>5, <1>6, <1>7, <1>8 DEF IInv

-----------------------------------------------------------------------------
(* The theorems. *)

LEMMA InvStep == IInv /\ [Next]_vars => IInv'
<1> SUFFICES ASSUME IInv, [Next]_vars PROVE IInv'
  OBVIOUS
<1>1. CASE StartRecord
  BY <1>1, StartRecordKeeps
<1>2. CASE Stop
  BY <1>2, StopKeeps
<1>3. CASE Produce
  BY <1>3, ProduceKeeps
<1>4. CASE OtherDeckFrees
  BY <1>4, OtherDeckFreesKeeps
<1>5. CASE PumpEnter
  BY <1>5, PumpEnterKeeps
<1>6. CASE Drain
  BY <1>6, DrainKeeps
<1>7. CASE Drained
  BY <1>7, DrainedKeeps
<1>8. CASE CheckpointStep
  BY <1>8, CheckSeekKeeps, CheckHeaderKeeps, CheckReturnKeeps, CheckSyncKeeps DEF CheckpointStep
<1>9. CASE Finish
  BY <1>9, FinalSeekKeeps, FinalHeaderKeeps, CloseKeeps DEF Finish
<1>10. CASE UNCHANGED vars
  <2> USE <1>10 DEF vars, deck, writer, fatFile
  <2>1. TypeOK' /\ InPlace' /\ AtEnd'
    BY DEF IInv, TypeOK, InPlace, AtEnd
  <2>2. Ordered' /\ NoneDropped' /\ Headers' /\ SyncedGiven' /\ Completed'
    BY DEF IInv, Ordered, NoneDropped, Headers, SyncedGiven, Completed, Given
  <2> QED
    BY <2>1, <2>2 DEF IInv
<1> QED
  BY <1>1, <1>2, <1>3, <1>4, <1>5, <1>6, <1>7, <1>8, <1>9, <1>10 DEF Next, Pump

LEMMA Invariant == Spec => []IInv
BY InvInit, InvStep, PTL DEF Spec

\* Whenever power is lost the file reads as audio of this take, in order and none
\* twice, without a hole unless frames were dropped; and a take that ends without a
\* fault is all there (wav_stream.h:140-158, audio_stream.h).
THEOREM TakeRecoverable == Spec => []Inv
<1>1. ASSUME IInv PROVE Inv
  <2>0. TypeOK /\ Ordered /\ NoneDropped /\ Headers /\ Completed
    BY <1>1 DEF IInv
  <2>1. Recoverable
    <3>1. SUFFICES ASSUME NEW h \in disk.hdrs
                   PROVE  /\ Increasing(Recovered(h))
                          /\ faults \cap {"full", "overrun"} = {} => Whole(Recovered(h))
      BY DEF Recoverable, Leaves
    <3>2. /\ Given(h) \in 0..Len(cells) /\ Len(cells) \in Nat
          /\ Recovered(h) = [i \in 1..Given(h) |-> cells[i]]
      BY <2>0, CutGives, StepType
    <3>3. Increasing(Recovered(h))
      BY <2>0, <3>2 DEF Increasing, Ordered
    <3>4. faults \cap {"full", "overrun"} = {} => Whole(Recovered(h))
      BY <2>0, <3>2 DEF Whole, NoneDropped
    <3> QED
      BY <3>3, <3>4
  <2>2. TakeComplete
    <3>1. SUFFICES ASSUME hdr # -1, mode = "idle", ~finalizing, faults = {}, NEW h \in disk.hdrs
                   PROVE  Len(Recovered(h)) = clock
      BY DEF TakeComplete, Leaves
    <3>2. h = clock /\ disk.len = clock
      BY <2>0, <3>1 DEF Completed
    <3>3. Len(Recovered(h)) = Given(h) /\ clock \in Nat
      BY <2>0, CutGives, StepType
    <3> QED
      BY <3>2, <3>3 DEF Given, Greatest, Least
  <2> QED
    BY <2>0, <2>1, <2>2 DEF Inv
<1> QED
  BY <1>1, Invariant, PTL

\* While the card does what it is asked, a power cut between two passes costs less than
\* a checkpoint interval (stream_deck.h:88-89).
THEOREM LossIsBounded == Spec => []LossWhileSound
<1>1. ASSUME IInv PROVE LossWhileSound
  <2>1. SUFFICES ASSUME main = "idle", mode = "record", ~err, "sync" \notin faults
                 PROVE  body - SafeLength < SyncFrames
    BY DEF LossWhileSound
  <2>2. TypeOK /\ Headers
    BY <1>1 DEF IInv
  <2>3. (\A h \in disk.hdrs : synced <= Given(h)) /\ body - synced < SyncFrames
    BY <1>1, <2>1 DEF IInv, SyncedGiven
  <2>4. PICK h \in disk.hdrs : SafeLength = Given(h)
    BY <2>2, SafeLengthGiven
  <2>5. synced <= SafeLength /\ SafeLength \in Int
    BY <2>2, <2>3, <2>4, SafeLengthGiven
  <2>6. body \in Int /\ synced \in Int /\ SyncFrames \in Int
    BY <2>2, StepType
  <2> QED
    BY <2>3, <2>5, <2>6
<1> QED
  BY <1>1, Invariant, PTL

\* What a header gives is given or bettered by each step, for every header the medium
\* may have after it.
LEMMA NeverLess ==
    ASSUME IInv, Next
    PROVE  \A h \in disk'.hdrs : \E g \in disk.hdrs : Given(g) <= Given(h)'
<1>0. TypeOK /\ InPlace /\ AtEnd /\ Headers
  BY DEF IInv
<1>1. \A h \in disk.hdrs : Given(h) \in Int
  BY <1>0, CutGives, StepType
<1>2. CASE disk' = disk
  BY <1>1, <1>2 DEF Given
<1>3. CASE StartRecord
  <2>1. /\ body = 0 /\ disk = [hdrs |-> disk.hdrs, len |-> disk.len] /\ hdr = -1
        /\ disk' = [disk EXCEPT !.hdrs = @ \cup {0}]
    BY <1>0, <1>3 DEF StartRecord, HeaderOk, InPlace, Headers
  <2>2. disk'.hdrs = disk.hdrs \cup {0} /\ disk'.len = disk.len
    BY <2>1
  <2>3. disk.hdrs \subseteq -1..0 /\ hdr \in disk.hdrs /\ disk.len \in Nat
    BY <1>0, <2>1, StepType DEF TypeOK, Headers
  <2> QED
    BY <2>1, <2>2, <2>3 DEF Given, Greatest, Least
<1>4. ASSUME HeaderOk(body), body' = body, CheckHeader \/ FinalHeader
      PROVE  \A h \in disk'.hdrs : \E g \in disk.hdrs : Given(g) <= Given(h)'
  BY <1>0, <1>4, HeaderGiven DEF HeaderOk
<1>5. ASSUME SyncOk \/ SyncFails, body' = body
      PROVE  \A h \in disk'.hdrs : \E g \in disk.hdrs : Given(g) <= Given(h)'
  BY <1>0, <1>5, SyncGives
<1>6. CASE CheckHeader
  BY <1>2, <1>4, <1>6 DEF CheckHeader, HeaderFails
<1>7. CASE CheckSync
  BY <1>5, <1>7 DEF CheckSync
<1>8. CASE FinalHeader
  BY <1>2, <1>4, <1>8 DEF FinalHeader, HeaderFails, writer
<1>9. CASE Close
  BY <1>5, <1>9 DEF Close, writer
<1>10. CASE Drain
  BY <1>2, <1>10 DEF Drain, Puts, fatFile
<1>11. CASE Stop \/ Produce \/ OtherDeckFrees \/ PumpEnter \/ Drained
  BY <1>2, <1>11 DEF Stop, Produce, OtherDeckFrees, PumpEnter, Drained, fatFile
<1>12. CASE CheckSeek \/ CheckReturn \/ FinalSeek
  BY <1>2, <1>12 DEF CheckSeek, CheckReturn, FinalSeek, SeekOk, SeekFails
<1> QED
  BY <1>3, <1>6, <1>7, <1>8, <1>9, <1>10, <1>11, <1>12 DEF Next, Pump, CheckpointStep, Finish

\* What a power cut would leave never gets shorter: a checkpoint that is cut short, or
\* fails, costs nothing of the one before (wav_stream.h:140-141).
THEOREM CheckpointsAreKept == Spec => KeepsCheckpoint
<1> DEFINE Safe == /\ SafeLength \in Int
                   /\ \A h \in disk.hdrs : Given(h) \in Int /\ SafeLength <= Given(h)
                   /\ \E h \in disk.hdrs : SafeLength = Given(h)
<1>1. IInv => Safe
  BY SafeLengthGiven, CutGives, StepType DEF IInv
<1>2. ASSUME IInv, Safe, Safe', Next PROVE SafeLength' >= SafeLength
  <2>1. PICK h \in disk'.hdrs : SafeLength' = Given(h)' /\ SafeLength' \in Int
    BY <1>2
  <2>2. PICK g \in disk.hdrs : Given(g) <= Given(h)'
    BY <1>2, NeverLess
  <2>3. SafeLength <= Given(g) /\ SafeLength \in Int /\ Given(g) \in Int
    BY <1>2
  <2> HIDE DEF Safe
  <2> QED
    BY <2>1, <2>2, <2>3
<1>3. IInv /\ Safe /\ Safe' /\ [Next]_vars => [SafeLength' >= SafeLength]_vars
  BY <1>2
<1> HIDE DEF Safe
<1> QED
  BY <1>1, <1>3, Invariant, PTL DEF Spec, KeepsCheckpoint

-----------------------------------------------------------------------------
(* The resume file. *)

Other(d) == IF d = "A" THEN "B" ELSE "A"

\* Key k is the i-th of table t.
IsAt(t, i, k) == i \in 1..Len(t) /\ t[i] = k

\* The card's books are there only with the card, and are played only when the file
\* has been read, or was taken to be absent: it is, unless the read was missed.
Scanning ==
    /\ \A d \in Decks : list[d] # NoShelf => mounted /\ loaded /\ Books(list[d]) # {}
    /\ pc \in {"A", "B", "save"} /\ ~loaded => missed \/ file = <<>>
    /\ ~loaded => table = <<>>
    /\ pc = "panel" => \A d \in Decks : rescan[d] => book[d] = NoBook
    /\ pc \in {"B", "save"} => ~rescan["A"]
    /\ pc = "save" => ~rescan["B"]

\* Until the engine gives up writing, what the file has the table has, or the table is
\* full, unless the file was never read.
FileInTable ==
    writable /\ loaded /\ ~missed => Range(file) \subseteq Range(table) \/ Len(table) = Depth

\* The key of deck d is near the front of the table, so far that the other deck's key
\* can be put before it.
Near(d) ==
    \E i \in 1..3 :
        /\ IsAt(table, i, ResumeKey(d))
        /\ \/ i <= 2
           \/ book[Other(d)] = NoBook \/ rescan[Other(d)]
           \/ ResumeKey(Other(d)) = ResumeKey(d)
           \/ \E j \in 1..i-1 : IsAt(table, j, ResumeKey(Other(d)))

\* A book opened in this pass, to be noted at the end of it.
Fresh(d) ==
    /\ pc = "save" \/ (pc = "B" /\ d = "A")
    /\ ~paused[d] /\ tableLag[d] = 0 /\ fileLag[d] = 0

\* Deck B is in the book of deck A, which is not about to be closed.
Shared(d) == d = "B" /\ book["A"] # NoBook /\ ~rescan["A"] /\ ResumeKey("A") = ResumeKey("B")

\* An open book is in the table or about to be.
Covered ==
    writable => \A d \in Decks :
        book[d] # NoBook /\ ~rescan[d] /\ ~Shared(d) => Fresh(d) \/ Near(d)

\* The table is a tick behind a deck at most, and none a deck that plays; the file
\* is behind by no more than the time since it was written, and that tick, unless the
\* last write failed.
Behind ==
    /\ ~writable => spoilt
    /\ writable => /\ pc = "panel" => since < Checkpoint
                   /\ \A d \in Decks : book[d] # NoBook =>
                         /\ tableLag[d] \in 0..1 /\ (~spoilt => fileLag[d] \in 0..since+1)
                         /\ pc = "panel" /\ ~paused[d] /\ ~Skipped(book, d) => tableLag[d] = 0

Lags == tableLag \in [Decks -> Int] /\ fileLag \in [Decks -> Int]

ResumeIInv == ResumeTypeOK /\ Lags /\ Scanning /\ FileInTable /\ Covered /\ Behind

-----------------------------------------------------------------------------
(* The table. *)

\* What set() makes of a table: the key comes to the front, from place n, and what was
\* before it moves down.
LEMMA SetIs ==
    ASSUME NEW t, IsTable(t), NEW key
    PROVE  \E n, l \in 1..Depth :
              /\ n <= l
              /\ Set(t, key) = [i \in 1..l |-> IF i = 1 THEN key ELSE IF i <= n THEN t[i-1] ELSE t[i]]
              /\ \/ l = Len(t) /\ t[n] = key
                 \/ key \notin Range(t) /\ l = Len(t) + 1 /\ n = l
                 \/ key \notin Range(t) /\ l = Len(t) /\ n = l /\ l = Depth
<1>1. Depth \in Nat /\ Depth >= 3
  BY BardResumeAssumption
<1>2. PICK m \in 0..Depth : m = Len(t) /\ DOMAIN t = 1..m
  BY <1>1 DEF IsTable
<1>3. PICK n : n = Freed(t, key)
  OBVIOUS
<1>4. CASE key \in Range(t)
  <2>1. n \in 1..m /\ t[n] = key
    BY <1>2, <1>3, <1>4 DEF Freed, Range
  <2>2. ~(n > Len(t)) /\ n \in 1..Depth /\ m \in 1..Depth /\ n <= m
    BY <1>1, <1>2, <2>1
  <2>3. Set(t, key) = [i \in 1..m |-> IF i = 1 THEN key ELSE IF i <= n THEN t[i-1] ELSE t[i]]
    BY <1>2, <1>3, <2>2 DEF Set
  <2> QED
    BY <1>2, <2>1, <2>2, <2>3
<1>5. CASE key \notin Range(t) /\ m < Depth
  <2>1. n = m + 1
    BY <1>2, <1>3, <1>5 DEF Freed
  <2>2. n > Len(t) /\ n \in 1..Depth
    BY <1>1, <1>2, <1>5, <2>1
  <2>3. Set(t, key) = [i \in 1..n |-> IF i = 1 THEN key ELSE IF i <= n THEN t[i-1] ELSE t[i]]
    BY <1>2, <1>3, <2>2 DEF Set
  <2> QED
    BY <1>2, <1>5, <2>1, <2>2, <2>3
<1>6. CASE key \notin Range(t) /\ m = Depth
  <2>1. n = m
    BY <1>2, <1>3, <1>6 DEF Freed
  <2>2. ~(n > Len(t)) /\ n \in 1..Depth
    BY <1>1, <1>2, <1>6, <2>1
  <2>3. Set(t, key) = [i \in 1..n |-> IF i = 1 THEN key ELSE IF i <= n THEN t[i-1] ELSE t[i]]
    BY <1>2, <1>3, <2>1, <2>2 DEF Set
  <2> QED
    BY <1>2, <1>6, <2>1, <2>2, <2>3
<1> QED
  BY <1>1, <1>2, <1>4, <1>5, <1>6

LEMMA SetFacts ==
    ASSUME NEW t, IsTable(t), NEW key \in KeySet
    PROVE  LET s == Set(t, key) IN
           /\ IsTable(s) /\ Len(s) >= Len(t) /\ IsAt(s, 1, key)
           /\ \A i, k : IsAt(t, i, k) /\ i < Depth =>
                 IsAt(s, i, k) \/ IsAt(s, i + 1, k) \/ k = key
           /\ \A i, j, k : IsAt(t, i, k) /\ IsAt(t, j, key) /\ j < i => IsAt(s, i, k)
           /\ Range(t) \subseteq Range(s) \/ Len(s) = Depth
<1>1. Depth \in Nat /\ Depth >= 3
  BY BardResumeAssumption
<1>2. PICK n \in 1..Depth, l \in 1..Depth :
        /\ n <= l
        /\ Set(t, key) = [i \in 1..l |-> IF i = 1 THEN key ELSE IF i <= n THEN t[i-1] ELSE t[i]]
        /\ \/ l = Len(t) /\ t[n] = key
           \/ key \notin Range(t) /\ l = Len(t) + 1 /\ n = l
           \/ key \notin Range(t) /\ l = Len(t) /\ n = l /\ l = Depth
  BY SetIs
<1>3. PICK s : s = Set(t, key)
  OBVIOUS
<1>4. PICK m \in 0..Depth : m = Len(t) /\ DOMAIN t = 1..m /\ m <= l
  BY <1>1, <1>2 DEF IsTable
<1>5. /\ \A i \in 1..m : t[i] \in KeySet
      /\ \A i, j \in 1..m : t[i] = t[j] => i = j
      /\ key \notin Range(t) => \A i \in 1..m : t[i] # key
  BY <1>4 DEF IsTable, IsInjective, Range
<1>6. /\ l \in 1..Depth /\ n \in 1..l
      /\ \/ l = m /\ t[n] = key
         \/ (\A i \in 1..m : t[i] # key) /\ l = m + 1 /\ n = l
         \/ (\A i \in 1..m : t[i] # key) /\ l = m /\ n = l /\ l = Depth
  BY <1>1, <1>2, <1>4, <1>5
<1>7. /\ DOMAIN s = 1..l /\ s[1] = key
      /\ \A i \in 2..n : s[i] = t[i-1]
      /\ \A i \in 1..l : i > n => s[i] = t[i]
  BY <1>1, <1>2, <1>3, <1>6
<1>8. s \in Seq(KeySet) /\ Len(s) = l
  <2>1. \A i \in 1..l : s[i] \in KeySet
    <3> SUFFICES ASSUME NEW i \in 1..l PROVE s[i] \in KeySet
      OBVIOUS
    <3>1. CASE i = 1
      BY <1>7, <3>1
    <3>2. CASE i \in 2..n
      <4>1. i - 1 \in 1..m
        BY <1>4, <1>6, <3>2
      <4> QED
        BY <1>5, <1>7, <3>2, <4>1
    <3>3. CASE i > n
      <4>1. i \in 1..m
        BY <1>4, <1>6, <3>3
      <4> QED
        BY <1>5, <1>7, <3>3, <4>1
    <3> QED
      BY <1>6, <3>1, <3>2, <3>3
  <2>2. s = [i \in 1..l |-> s[i]]
    BY <1>2, <1>3
  <2> QED
    BY <1>6, <2>1, <2>2
<1>9. ASSUME NEW i \in 1..l, NEW j \in 1..l, s[i] = s[j], i < j PROVE FALSE
  <2>1. CASE j <= n
    <3>1. s[j] = t[j-1] /\ j - 1 \in 1..m /\ j - 1 < n
      BY <1>4, <1>6, <1>7, <1>9, <2>1
    <3>2. CASE i = 1
      <4>1. t[j-1] = key
        BY <1>7, <1>9, <3>1, <3>2
      <4> QED
        BY <1>5, <1>6, <3>1, <4>1
    <3>3. CASE i # 1
      <4>1. s[i] = t[i-1] /\ i - 1 \in 1..m /\ i - 1 # j - 1
        BY <1>4, <1>6, <1>7, <1>9, <2>1, <3>3
      <4> QED
        BY <1>5, <1>9, <3>1, <4>1
    <3> QED
      BY <3>2, <3>3
  <2>2. CASE j > n
    <3>1. s[j] = t[j] /\ j \in 1..m /\ l = m /\ t[n] = key /\ n \in 1..m
      BY <1>4, <1>6, <1>7, <2>2
    <3>2. CASE i = 1
      <4>1. t[j] = key
        BY <1>7, <1>9, <3>1, <3>2
      <4> QED
        BY <1>5, <2>2, <3>1, <4>1
    <3>3. CASE i # 1 /\ i <= n
      <4>1. s[i] = t[i-1] /\ i - 1 \in 1..m /\ i - 1 # j
        BY <1>4, <1>6, <1>7, <1>9, <3>3
      <4> QED
        BY <1>5, <1>9, <3>1, <4>1
    <3>4. CASE i > n
      <4>1. s[i] = t[i] /\ i \in 1..m
        BY <1>7, <3>1, <3>4, <1>9
      <4> QED
        BY <1>5, <1>9, <3>1, <4>1
    <3> QED
      BY <3>2, <3>3, <3>4
  <2> QED
    BY <1>6, <2>1, <2>2
<1>10. IsTable(s)
  <2>1. \A i, j \in DOMAIN s : s[i] = s[j] => i = j
    BY <1>7, <1>9
  <2> QED
    BY <1>1, <1>6, <1>8, <2>1 DEF IsTable, IsInjective
<1>11. IsAt(s, 1, key)
  BY <1>6, <1>7, <1>8 DEF IsAt
<1>12. ASSUME NEW i, NEW k, IsAt(t, i, k), i < Depth
       PROVE  IsAt(s, i, k) \/ IsAt(s, i + 1, k) \/ k = key
  <2>1. i \in 1..m /\ t[i] = k
    BY <1>4, <1>12 DEF IsAt
  <2>2. CASE i > n
    BY <1>4, <1>6, <1>7, <1>8, <2>1, <2>2 DEF IsAt
  <2>3. CASE i = n
    <3>1. (l = m /\ t[n] = key) \/ l = Depth
      BY <1>6, <2>1, <2>3
    <3> QED
      BY <1>6, <1>12, <2>1, <2>3, <3>1
  <2>4. CASE i < n
    <3>1. i + 1 \in 2..n /\ i + 1 \in 1..l /\ s[i+1] = t[i+1-1] /\ i + 1 - 1 = i
      BY <1>6, <1>7, <2>1, <2>4
    <3> QED
      BY <1>8, <2>1, <3>1 DEF IsAt
  <2> QED
    BY <1>6, <2>1, <2>2, <2>3, <2>4
<1>13. ASSUME NEW i, NEW j, NEW k, IsAt(t, i, k), IsAt(t, j, key), j < i PROVE IsAt(s, i, k)
  <2>1. i \in 1..m /\ t[i] = k /\ j \in 1..m /\ t[j] = key
    BY <1>4, <1>13 DEF IsAt
  <2>2. l = m /\ n = j
    BY <1>5, <1>6, <2>1
  <2> QED
    BY <1>7, <1>8, <1>13, <2>1, <2>2 DEF IsAt
<1>14. Range(t) \subseteq Range(s) \/ Len(s) = Depth
  <2> SUFFICES ASSUME l # Depth, NEW k \in Range(t) PROVE k \in Range(s)
    BY <1>8
  <2>1. PICK i \in 1..m : t[i] = k
    BY <1>4 DEF Range
  <2>2. IsAt(t, i, k) /\ i < Depth
    BY <1>1, <1>4, <1>6, <2>1 DEF IsAt
  <2>3. PICK j : IsAt(s, j, k)
    BY <1>11, <1>12, <2>2
  <2> QED
    BY <1>7, <1>8, <2>3 DEF IsAt, Range
<1> QED
  BY <1>3, <1>4, <1>8, <1>10, <1>11, <1>12, <1>13, <1>14

-----------------------------------------------------------------------------
(* The save. *)

\* A book that is open has a key.
LEMMA OpenHasKey ==
    ASSUME ResumeTypeOK, NEW d \in Decks, book[d] # NoBook
    PROVE  ResumeKey(d) \in KeySet
<1>1. shelf[d] \in Shelves /\ list[d] \in Shelves \cup {NoShelf} /\ book[d] \in Books(list[d])
  BY DEF ResumeTypeOK
<1>2. list[d] \in Shelves /\ book[d] \in Library[list[d]]
  BY <1>1 DEF Books
<1> QED
  BY <1>1, <1>2 DEF ResumeKey, KeySet, AllBooks

\* Of the books bk every one that is open is open now.
Still(bk) == \A d \in Decks : bk[d] # NoBook => bk[d] = book[d]

\* What the save notes is at the head of the table, and the table forgets nothing but
\* for want of room.
LEMMA UpdatedFacts ==
    ASSUME ResumeTypeOK, NEW t, IsTable(t), NEW bk, Still(bk), NEW dy
    PROVE  LET u == Updated(t, bk, dy) IN
           /\ IsTable(u) /\ Len(u) >= Len(t)
           /\ \A d \in Decks : Noted(bk, dy, d) =>
                 IsAt(u, 1, ResumeKey(d)) \/ IsAt(u, 2, ResumeKey(d))
           /\ Range(t) \subseteq Range(u) \/ Len(u) = Depth
           /\ (\A d \in Decks : ~Noted(bk, dy, d)) => u = t
           /\ \A d, e \in Decks : d # e /\ Noted(bk, dy, d) /\ ~Noted(bk, dy, e) =>
                 u = Set(t, ResumeKey(d))
<1>1. PICK a : a = IF Noted(bk, dy, "A") THEN Set(t, ResumeKey("A")) ELSE t
  OBVIOUS
<1>2. PICK u : u = IF Noted(bk, dy, "B") THEN Set(a, ResumeKey("B")) ELSE a
  OBVIOUS
<1>3. u = Updated(t, bk, dy)
  BY <1>1, <1>2 DEF Updated
<1>4. ASSUME NEW d \in Decks, Noted(bk, dy, d) PROVE ResumeKey(d) \in KeySet
  BY <1>4, OpenHasKey DEF Noted, Still
<1>5. Depth \in Nat /\ Depth >= 3 /\ Decks = {"A", "B"}
  BY BardResumeAssumption DEF Decks
<1>6. /\ IsTable(a) /\ Len(a) >= Len(t) /\ Len(t) \in Nat /\ Len(a) \in Nat
      /\ Noted(bk, dy, "A") => IsAt(a, 1, ResumeKey("A"))
      /\ Range(t) \subseteq Range(a) \/ Len(a) = Depth
  BY <1>1, <1>4, <1>5, SetFacts DEF IsTable
<1>7. /\ IsTable(u) /\ Len(u) >= Len(a) /\ Len(u) \in Nat /\ Len(u) <= Depth
      /\ Noted(bk, dy, "B") => IsAt(u, 1, ResumeKey("B"))
      /\ Range(a) \subseteq Range(u) \/ Len(u) = Depth
  <2>1. CASE Noted(bk, dy, "B")
    <3>1. u = Set(a, ResumeKey("B")) /\ ResumeKey("B") \in KeySet /\ IsTable(a)
      BY <1>2, <1>4, <1>5, <1>6, <2>1
    <3>2. /\ IsTable(u) /\ Len(u) >= Len(a) /\ IsAt(u, 1, ResumeKey("B"))
          /\ Range(a) \subseteq Range(u) \/ Len(u) = Depth
      BY <3>1, SetFacts
    <3> QED
      BY <3>2 DEF IsTable
  <2>2. CASE ~Noted(bk, dy, "B")
    BY <1>2, <1>6, <2>2 DEF IsTable
  <2> QED
    BY <2>1, <2>2
<1>8. Noted(bk, dy, "A") => IsAt(u, 1, ResumeKey("A")) \/ IsAt(u, 2, ResumeKey("A"))
  <2> SUFFICES ASSUME Noted(bk, dy, "A"), Noted(bk, dy, "B"), ResumeKey("A") # ResumeKey("B")
               PROVE  IsAt(u, 1, ResumeKey("A")) \/ IsAt(u, 2, ResumeKey("A"))
    BY <1>2, <1>6, <1>7
  <2>1. u = Set(a, ResumeKey("B")) /\ ResumeKey("B") \in KeySet
    BY <1>2, <1>4, <1>5
  <2>2. 1 < Depth /\ 1 + 1 = 2
    BY <1>5
  <2> QED
    BY <1>6, <2>1, <2>2, SetFacts
<1>9. Range(t) \subseteq Range(u) \/ Len(u) = Depth
  <2>1. Len(a) = Depth => Len(u) = Depth
    BY <1>5, <1>7, <1>6
  <2> QED
    BY <1>6, <1>7, <2>1
<1>10. (\A d \in Decks : ~Noted(bk, dy, d)) => u = t
  BY <1>1, <1>2, <1>5
<1>11. ASSUME NEW d \in Decks, NEW e \in Decks, d # e, Noted(bk, dy, d), ~Noted(bk, dy, e)
       PROVE  u = Set(t, ResumeKey(d))
  BY <1>1, <1>2, <1>5, <1>11
<1> QED
  BY <1>3, <1>5, <1>6, <1>7, <1>8, <1>9, <1>10, <1>11

\* The lags after a save that was made with the books bk: of the table, and of the file
\* when `new` was written.
LagNoted(bk, dy) == [d \in Decks |-> IF Noted(bk, dy, d) THEN 0 ELSE tableLag[d]]

LagWritten(bk, dy, new) ==
    [d \in Decks |-> IF ResumeKey(d) \in Range(new) THEN LagNoted(bk, dy)[d]
                     ELSE IF ResumeKey(d) \in Range(file) THEN Lost ELSE fileLag[d]]

\* The outcomes of a save: nothing is noted once the engine has given up; nothing is
\* due, or there is nothing to write; it is written; nothing was written, and nobody was
\* told; or the write fails half-way.
Outcome(t, bk, dy, r) ==
    \/ /\ ~writable /\ r.table = t /\ r.file = file /\ r.writable = FALSE
       /\ r.tableLag = tableLag /\ r.fileLag = fileLag
       /\ r.since = since /\ r.dirty = dy /\ r.spoilt = spoilt
    \/ /\ writable /\ r.table = Updated(t, bk, dy) /\ r.file = file /\ r.writable = TRUE
       /\ r.tableLag = LagNoted(bk, dy) /\ r.fileLag = fileLag /\ r.dirty = FALSE
       /\ r.spoilt = spoilt
       /\ \/ ~Due(dy) /\ r.since = since
          \/ r.table = <<>> /\ r.since = 0
    \/ /\ writable /\ r.table = Updated(t, bk, dy) /\ r.file = r.table /\ r.writable = TRUE
       /\ r.tableLag = LagNoted(bk, dy) /\ r.fileLag = LagWritten(bk, dy, r.table)
       /\ r.table # <<>> /\ r.since = 0 /\ r.dirty = FALSE /\ r.spoilt = FALSE
    \/ /\ writable /\ r.table = Updated(t, bk, dy) /\ r.file = <<>> /\ r.writable = TRUE
       /\ r.tableLag = LagNoted(bk, dy) /\ r.fileLag \in [Decks -> Int]
       /\ r.table # <<>> /\ r.since = 0 /\ r.dirty = FALSE /\ r.spoilt = TRUE
    \/ /\ writable /\ r.table = Updated(t, bk, dy) /\ IsTable(r.file) /\ r.writable = FALSE
       /\ r.tableLag \in [Decks -> Int] /\ r.fileLag \in [Decks -> Int]
       /\ r.table # <<>> /\ r.since = 0 /\ r.dirty = FALSE /\ r.spoilt = TRUE

\* The head of a table is a table.
LEMMA HeadIsTable ==
    ASSUME NEW t, IsTable(t), NEW n \in 0..Len(t)
    PROVE  IsTable(SubSeq(t, 1, n))
<1>1. t \in Seq(KeySet) /\ Len(t) <= Depth /\ Len(t) \in Nat /\ Depth \in Nat
  BY BardResumeAssumption DEF IsTable
<1>2. /\ SubSeq(t, 1, n) \in Seq(KeySet) /\ Len(SubSeq(t, 1, n)) = n
      /\ DOMAIN SubSeq(t, 1, n) = 1..n
      /\ \A i \in 1..n : SubSeq(t, 1, n)[i] = t[i]
  BY <1>1
<1>3. \A i, j \in 1..n : t[i] = t[j] => i = j
  BY <1>1 DEF IsTable, IsInjective
<1> QED
  BY <1>1, <1>2, <1>3 DEF IsTable, IsInjective

LEMMA SavesFacts ==
    ASSUME ResumeTypeOK, Lags, NEW t, IsTable(t), NEW bk, Still(bk), NEW dy \in BOOLEAN,
           NEW r \in Saves(t, bk, dy)
    PROVE  Outcome(t, bk, dy, r)
<1> DEFINE new  == IF writable THEN Updated(t, bk, dy) ELSE t
           lag  == [d \in Decks |-> IF writable /\ Noted(bk, dy, d) THEN 0 ELSE tableLag[d]]
           left == [table |-> new, dirty |-> dy /\ ~writable, tableLag |-> lag,
                    since |-> IF writable /\ Due(dy) THEN 0 ELSE since, file |-> file,
                    writable |-> writable, fileLag |-> fileLag, spoilt |-> spoilt]
           kept == [d \in Decks |-> IF ResumeKey(d) \in Range(new) THEN lag[d]
                                    ELSE IF ResumeKey(d) \in Range(file) THEN Lost ELSE fileLag[d]]
           cut  == {file} \cup {SubSeq(new, 1, n) : n \in 0..Len(new)}
           fail == [left EXCEPT !.spoilt = TRUE, !.tableLag = PerDeck(0), !.fileLag = PerDeck(0)]
<1>1. r \in IF ~writable \/ ~Due(dy) \/ new = <<>>
            THEN {left}
            ELSE {[left EXCEPT !.file = new, !.fileLag = kept, !.spoilt = FALSE],
                  [left EXCEPT !.file = <<>>, !.fileLag = PerDeck(Lost), !.spoilt = TRUE]} \cup
                 {[fail EXCEPT !.file = f, !.writable = FALSE] : f \in cut}
  BY DEF Saves
<1>2. /\ left.table = new /\ left.file = file /\ left.writable = writable /\ left.tableLag = lag
      /\ left.since = IF writable /\ Due(dy) THEN 0 ELSE since
      /\ left.dirty = (dy /\ ~writable) /\ left.fileLag = fileLag /\ left.spoilt = spoilt
      /\ left = [table |-> left.table, dirty |-> left.dirty, tableLag |-> left.tableLag,
                 since |-> left.since, file |-> left.file, writable |-> left.writable,
                 fileLag |-> left.fileLag, spoilt |-> left.spoilt]
      /\ fail = [left EXCEPT !.spoilt = TRUE, !.tableLag = PerDeck(0), !.fileLag = PerDeck(0)]
  OBVIOUS
<1>3. writable => /\ new = Updated(t, bk, dy) /\ lag = LagNoted(bk, dy)
                  /\ kept = LagWritten(bk, dy, new)
  BY DEF LagNoted, LagWritten
<1>4. ~writable => new = t /\ lag = tableLag
  BY DEF Lags
<1>5. writable \in BOOLEAN
  BY DEF ResumeTypeOK
<1>6. PerDeck(0) \in [Decks -> Int] /\ PerDeck(Lost) \in [Decks -> Int]
  BY BardResumeAssumption DEF PerDeck, Lost
<1>7. ASSUME NEW f \in cut PROVE IsTable(f)
  <2>1. IsTable(new) /\ IsTable(file)
    BY UpdatedFacts DEF ResumeTypeOK
  <2> HIDE DEF new
  <2> QED
    BY <2>1, HeadIsTable
<1> HIDE DEF left, new, lag, kept, cut, fail
<1> USE DEF Outcome
<1>8. CASE r = left /\ (~writable \/ ~Due(dy) \/ new = <<>>)
  <2>1. CASE ~writable
    BY <1>2, <1>4, <1>8, <2>1
  <2>2. CASE writable
    BY <1>2, <1>3, <1>5, <1>8, <2>2
  <2> QED
    BY <1>5, <2>1, <2>2
<1>9. CASE /\ writable /\ Due(dy) /\ new # <<>>
           /\ r = [left EXCEPT !.file = new, !.fileLag = kept, !.spoilt = FALSE]
  <2>1. /\ r.table = new /\ r.file = new /\ r.writable = TRUE /\ r.tableLag = lag
        /\ r.since = 0 /\ r.dirty = FALSE /\ r.fileLag = kept /\ r.spoilt = FALSE
    BY <1>2, <1>5, <1>9
  <2> QED
    BY <1>3, <1>9, <2>1
<1>10. CASE /\ writable /\ Due(dy) /\ new # <<>>
            /\ r = [left EXCEPT !.file = <<>>, !.fileLag = PerDeck(Lost), !.spoilt = TRUE]
  <2>1. /\ r.table = new /\ r.file = <<>> /\ r.writable = TRUE /\ r.tableLag = lag
        /\ r.since = 0 /\ r.dirty = FALSE /\ r.fileLag = PerDeck(Lost) /\ r.spoilt = TRUE
    BY <1>2, <1>5, <1>10
  <2> QED
    BY <1>3, <1>6, <1>10, <2>1
<1>11. CASE /\ writable /\ Due(dy) /\ new # <<>>
            /\ r \in {[fail EXCEPT !.file = f, !.writable = FALSE] : f \in cut}
  <2>1. PICK f \in cut : r = [fail EXCEPT !.file = f, !.writable = FALSE]
    BY <1>11
  <2>2. /\ r.table = new /\ r.file = f /\ r.writable = FALSE /\ r.tableLag = PerDeck(0)
        /\ r.since = 0 /\ r.dirty = FALSE /\ r.fileLag = PerDeck(0) /\ r.spoilt = TRUE
    BY <1>2, <1>5, <1>11, <2>1
  <2>3. IsTable(f)
    BY <1>7
  <2> QED
    BY <1>3, <1>6, <1>11, <2>2, <2>3
<1> QED
  BY <1>1, <1>5, <1>8, <1>9, <1>10, <1>11

\* What is at a place of a table is in it.
LEMMA InTable ==
    ASSUME NEW t, NEW i, NEW k, IsTable(t), IsAt(t, i, k) PROVE k \in Range(t) /\ t # <<>>
<1>1. DOMAIN t = 1..Len(t)
  BY DEF IsTable
<1> QED
  BY <1>1 DEF IsAt, Range

LEMMA EmptyTable == IsTable(<<>>) /\ Range(<<>>) = {} /\ Len(<<>>) = 0
BY BardResumeAssumption DEF IsTable, IsInjective, Range

\* Whatever becomes of a save, the tables stay tables; and if it did not fail, what a
\* power cut would cost of a book that is in the table is counted from this save.
LEMMA SaveOutcome ==
    ASSUME ResumeTypeOK, Lags, ~writable => spoilt, NEW t, IsTable(t), NEW bk, Still(bk),
           NEW dy \in BOOLEAN, NEW r \in Saves(t, bk, dy)
    PROVE  /\ IsTable(r.table) /\ IsTable(r.file)
           /\ r.dirty \in BOOLEAN /\ r.writable \in BOOLEAN /\ r.since \in {0, since}
           /\ r.tableLag \in [Decks -> Int] /\ r.fileLag \in [Decks -> Int]
           /\ r.spoilt \in BOOLEAN /\ (~r.writable => r.spoilt)
           /\ writable => r.table = Updated(t, bk, dy)
           /\ ~writable => r.table = t /\ r.file = file
           /\ r.file = file \/ r.spoilt \/ r.file = r.table
           /\ r.table = <<>> => r.file = file
           /\ r.writable => /\ writable /\ r.since < Checkpoint
                            /\ r.file = file \/ r.file = r.table \/ r.file = <<>>
                            /\ \A d \in Decks :
                                  /\ Noted(bk, dy, d) => r.tableLag[d] = 0
                                  /\ ~Noted(bk, dy, d) => r.tableLag[d] = tableLag[d]
           /\ ~r.spoilt =>
                 \A d \in Decks : /\ ResumeKey(d) \in Range(r.table)
                                  /\ tableLag[d] \in 0..1
                                  /\ ~spoilt => fileLag[d] \in 0..since+1
                                  => r.fileLag[d] \in 0..r.since+1
<1> DEFINE new == Updated(t, bk, dy)
           lag == LagNoted(bk, dy)
           kept == LagWritten(bk, dy, new)
<1>1. Outcome(t, bk, dy, r)
  BY SavesFacts
<1>2. IsTable(new)
  BY UpdatedFacts
<1>3. IsTable(file) /\ IsTable(<<>>) /\ Range(<<>>) = {}
  BY EmptyTable DEF ResumeTypeOK
<1>4. /\ since \in 0..Checkpoint /\ Checkpoint \in Nat \ {0} /\ spoilt \in BOOLEAN
      /\ tableLag \in [Decks -> Int] /\ fileLag \in [Decks -> Int]
  BY BardResumeAssumption DEF ResumeTypeOK, Lags
<1>5. /\ lag \in [Decks -> Int]
      /\ \A d \in Decks : lag[d] = IF Noted(bk, dy, d) THEN 0 ELSE tableLag[d]
  BY <1>4 DEF LagNoted
<1>6. /\ kept \in [Decks -> Int]
      /\ \A d \in Decks : ResumeKey(d) \in Range(new) => kept[d] = lag[d]
  BY <1>4, <1>5, BardResumeAssumption DEF Lost, LagWritten
<1> USE DEF Outcome
<1>7. /\ IsTable(r.table) /\ IsTable(r.file)
      /\ writable => r.table = new
      /\ ~writable => r.table = t /\ r.file = file
      /\ r.file = file \/ r.spoilt \/ r.file = r.table
      /\ r.table = <<>> => r.file = file
  BY <1>1, <1>2, <1>3
<1>8. /\ r.dirty \in BOOLEAN /\ r.writable \in BOOLEAN
      /\ r.spoilt \in BOOLEAN /\ (~r.writable => r.spoilt)
      /\ r.tableLag \in [Decks -> Int] /\ r.fileLag \in [Decks -> Int]
  <2>1. r.tableLag \in [Decks -> Int] /\ r.fileLag \in [Decks -> Int]
    BY <1>1, <1>4, <1>5, <1>6
  <2>2. /\ r.dirty \in BOOLEAN /\ r.writable \in BOOLEAN
        /\ r.spoilt \in BOOLEAN /\ (~r.writable => r.spoilt)
    BY <1>1, <1>4, Zenon
  <2> QED
    BY <2>1, <2>2
<1>9. r.since \in {0, since}
  BY <1>1
<1>10. r.writable => /\ writable /\ r.since < Checkpoint
                     /\ r.file = file \/ r.file = r.table \/ r.file = <<>>
  BY <1>1, <1>4 DEF Due
<1>11. r.writable => \A d \in Decks : /\ Noted(bk, dy, d) => r.tableLag[d] = 0
                                      /\ ~Noted(bk, dy, d) => r.tableLag[d] = tableLag[d]
  BY <1>1, <1>5
<1>12. ASSUME ~r.spoilt, NEW d \in Decks, ResumeKey(d) \in Range(r.table),
              tableLag[d] \in 0..1, ~spoilt => fileLag[d] \in 0..since+1
       PROVE  r.fileLag[d] \in 0..r.since+1
  <2>1. CASE r.fileLag = fileLag /\ r.since = since /\ r.spoilt = spoilt
    BY <1>12, <2>1
  <2>2. CASE new = <<>> /\ r.table = new
    BY <1>3, <1>12, <2>2
  <2>3. CASE r.table = new /\ r.since = 0 /\ r.fileLag = kept
    BY <1>5, <1>6, <1>12, <2>3
  <2> QED
    BY <1>1, <1>12, <2>1, <2>2, <2>3
<1> QED
  BY <1>7, <1>8, <1>9, <1>10, <1>11, <1>12

-----------------------------------------------------------------------------
(* The pass of a deck over its book. *)

\* An open book is of the list scanned last, so the card is up and the file was read.
LEMMA OpenIsLoaded ==
    ASSUME ResumeTypeOK, Scanning, NEW d \in Decks, book[d] # NoBook
    PROVE  loaded /\ mounted /\ list[d] # NoShelf
BY DEF ResumeTypeOK, Scanning, Books

\* A deck stays in its book, or in none.
Stays(d, bk, near) ==
    /\ bk[d] # NoBook \/ near = {}
    /\ book' = bk
    /\ paused' \in {paused} \cup
          (IF bk[d] = NoBook THEN {} ELSE {[paused EXCEPT ![d] = p] : p \in BOOLEAN})
    /\ tableLag' = [tableLag EXCEPT ![d] = IF bk[d] = NoBook THEN 0 ELSE @]
    /\ fileLag' = [fileLag EXCEPT ![d] = IF bk[d] = NoBook THEN 0 ELSE @]
    /\ UNCHANGED <<table, file, dirty, writable, since, spoilt>>

\* A deck opens a book of the list.
Opens(d, bk, near) ==
    \E b \in near \ {bk[d]}, r \in Saves(table, bk, TRUE) :
        /\ Store(r)
        /\ book' \in {[bk EXCEPT ![d] = o] : o \in {b, NoBook}}
        /\ paused' = [paused EXCEPT ![d] = FALSE]
        /\ tableLag' = [r.tableLag EXCEPT ![d] = 0]
        /\ fileLag' = [r.fileLag EXCEPT ![d] = 0]

\* What the pass of a deck finds in table and list.
Finds(d, bk, near) ==
    /\ Still(bk)
    /\ bk = IF Scans(d) THEN [book EXCEPT ![d] = NoBook] ELSE book
    /\ near = Books(Scanned(d))
    /\ writable /\ loaded' /\ ~missed => Range(file) \subseteq Range(table) \/ Len(table) = Depth
    /\ near # {} => mounted /\ loaded'
    /\ pc = d /\ pc' = IF d = "A" THEN "B" ELSE "save"
    /\ list' = [list EXCEPT ![d] = Scanned(d)]
    /\ rescan' = [rescan EXCEPT ![d] = FALSE]
    /\ loaded' \in BOOLEAN /\ (loaded => loaded')
    /\ UNCHANGED <<world, shelf, missed>>

LEMMA PrepareFinds ==
    ASSUME ResumeIInv, NEW d \in Decks, Prepare(d)
    PROVE  \E bk, near : Finds(d, bk, near) /\ (Stays(d, bk, near) \/ Opens(d, bk, near))
<1>0. ResumeTypeOK /\ Scanning /\ FileInTable
  BY DEF ResumeIInv
<1> DEFINE bk == IF Scans(d) THEN [book EXCEPT ![d] = NoBook] ELSE book
           near == Books(Scanned(d))
<1>1. /\ pc = d /\ pc' = IF d = "A" THEN "B" ELSE "save"
      /\ list' = [list EXCEPT ![d] = Scanned(d)]
      /\ rescan' = [rescan EXCEPT ![d] = FALSE]
      /\ loaded' = (loaded \/ near # {})
      /\ UNCHANGED <<world, shelf, missed>>
  BY DEF Prepare
<1>2. Stays(d, bk, near) \/ Opens(d, bk, near)
  BY DEF Prepare, Stays, Opens
<1>3. Still(bk)
  BY <1>0 DEF Still, ResumeTypeOK
<1>4. near # {} => mounted
  <2>1. Scanned(d) # NoShelf => mounted
    BY <1>0 DEF Scanned, Scanning
  <2> QED
    BY <2>1 DEF Books
<1>5. d \in {"A", "B"}
  BY DEF Decks
<1>6. ASSUME writable, loaded', ~missed
      PROVE  Range(file) \subseteq Range(table) \/ Len(table) = Depth
  <2>1. CASE loaded
    BY <1>0, <1>6, <2>1 DEF FileInTable
  <2>2. CASE ~loaded
    <3>1. file = <<>>
      BY <1>0, <1>1, <1>5, <1>6, <2>2 DEF Scanning
    <3> QED
      BY <3>1, EmptyTable
  <2> QED
    BY <2>1, <2>2
<1>7. near # {} => loaded'
  BY <1>1
<1>8. loaded' \in BOOLEAN /\ (loaded => loaded')
  BY <1>0, <1>1 DEF ResumeTypeOK
<1> HIDE DEF near
<1>9. Finds(d, bk, near)
  BY <1>1, <1>3, <1>4, <1>6, <1>7, <1>8 DEF Finds, near
<1> QED
  BY <1>2, <1>9

\* A pass that opens a book saves.
LEMMA OpensSaves ==
    ASSUME ResumeIInv, NEW d \in Decks, NEW bk, NEW near,
           Finds(d, bk, near), Opens(d, bk, near)
    PROVE  /\ IsTable(table') /\ IsTable(file')
           /\ dirty' \in BOOLEAN /\ writable' \in BOOLEAN /\ since' \in 0..Checkpoint
           /\ tableLag' \in [Decks -> Int] /\ fileLag' \in [Decks -> Int]
           /\ tableLag'[d] = 0 /\ fileLag'[d] = 0
           /\ paused' = [paused EXCEPT ![d] = FALSE]
           /\ near # {} /\ loaded' /\ mounted
           /\ \E o \in near \cup {NoBook} : book' = [bk EXCEPT ![d] = o]
           /\ writable /\ ~missed => Range(file) \subseteq Range(table') \/ Len(table') = Depth
           /\ spoilt' \in BOOLEAN /\ (~writable' => spoilt')
           /\ ~writable => file' = file
           /\ file' = file \/ spoilt' \/ file' = table'
           /\ writable' =>
                 /\ writable /\ (file' = file \/ file' = table' \/ file' = <<>>)
                 /\ \A e \in Decks \ {d} : bk[e] # NoBook =>
                       /\ IsAt(table', 1, ResumeKey(e)) \/ IsAt(table', 2, ResumeKey(e))
                       /\ tableLag'[e] \in 0..1 /\ (~spoilt' => fileLag'[e] \in 0..since'+1)
<1>0. ResumeTypeOK /\ Lags /\ Behind
  BY DEF ResumeIInv
<1>1. PICK b \in near \ {bk[d]}, r \in Saves(table, bk, TRUE) :
        /\ Store(r)
        /\ book' \in {[bk EXCEPT ![d] = o] : o \in {b, NoBook}}
        /\ paused' = [paused EXCEPT ![d] = FALSE]
        /\ tableLag' = [r.tableLag EXCEPT ![d] = 0]
        /\ fileLag' = [r.fileLag EXCEPT ![d] = 0]
  BY DEF Opens
<1>2. IsTable(table) /\ Still(bk) /\ (~writable => spoilt)
  BY <1>0 DEF Finds, ResumeTypeOK, Behind
<1>12. PICK dy \in BOOLEAN : dy = TRUE
  OBVIOUS
<1>13. r \in Saves(table, bk, dy)
  BY <1>12
<1>3. /\ IsTable(r.table) /\ IsTable(r.file)
      /\ r.dirty \in BOOLEAN /\ r.writable \in BOOLEAN /\ r.since \in {0, since}
      /\ r.tableLag \in [Decks -> Int] /\ r.fileLag \in [Decks -> Int]
      /\ r.spoilt \in BOOLEAN /\ (~r.writable => r.spoilt)
      /\ writable => r.table = Updated(table, bk, dy)
      /\ ~writable => r.table = table /\ r.file = file
      /\ r.file = file \/ r.spoilt \/ r.file = r.table
  BY <1>0, <1>2, <1>13, SaveOutcome
<1>4. r.writable => /\ writable /\ r.since < Checkpoint
                    /\ r.file = file \/ r.file = r.table \/ r.file = <<>>
                    /\ \A e \in Decks :
                          /\ Noted(bk, dy, e) => r.tableLag[e] = 0
                          /\ ~Noted(bk, dy, e) => r.tableLag[e] = tableLag[e]
  BY <1>0, <1>2, <1>13, SaveOutcome
<1>5. ~r.spoilt =>
         \A e \in Decks : /\ ResumeKey(e) \in Range(r.table)
                          /\ tableLag[e] \in 0..1
                          /\ ~spoilt => fileLag[e] \in 0..since+1
                          => r.fileLag[e] \in 0..r.since+1
  BY <1>0, <1>2, <1>13, SaveOutcome
<1>6. /\ table' = r.table /\ dirty' = r.dirty /\ since' = r.since
      /\ file' = r.file /\ writable' = r.writable /\ spoilt' = r.spoilt
  BY <1>1 DEF Store
<1>7. since' \in 0..Checkpoint
  BY <1>0, <1>3, <1>6, BardResumeAssumption DEF ResumeTypeOK
<1>8. writable /\ ~missed => Range(file) \subseteq Range(table') \/ Len(table') = Depth
  <2> SUFFICES ASSUME writable, ~missed
               PROVE  Range(file) \subseteq Range(table') \/ Len(table') = Depth
    OBVIOUS
  <2>1. loaded' /\ (Range(file) \subseteq Range(table) \/ Len(table) = Depth)
    BY <1>1 DEF Finds
  <2>2. /\ Range(table) \subseteq Range(table') \/ Len(table') = Depth
        /\ Len(table') >= Len(table) /\ Len(table') <= Depth /\ Len(table') \in Nat
    BY <1>0, <1>2, <1>3, <1>6, UpdatedFacts DEF IsTable
  <2>3. Depth \in Nat
    BY BardResumeAssumption
  <2> QED
    BY <2>1, <2>2, <2>3
<1>9. ASSUME writable', NEW e \in Decks \ {d}, bk[e] # NoBook
      PROVE  /\ IsAt(table', 1, ResumeKey(e)) \/ IsAt(table', 2, ResumeKey(e))
             /\ tableLag'[e] \in 0..1 /\ (~spoilt' => fileLag'[e] \in 0..since'+1)
  <2>1. writable /\ book[e] # NoBook
    BY <1>2, <1>4, <1>6, <1>9 DEF Still
  <2>2. IsAt(table', 1, ResumeKey(e)) \/ IsAt(table', 2, ResumeKey(e))
    <3>1. PICK f \in Decks : Noted(bk, dy, f) /\ ResumeKey(f) = ResumeKey(e)
      BY <1>9, <1>12 DEF Noted, Skipped, Decks
    <3> QED
      BY <1>0, <1>2, <1>3, <1>6, <2>1, <3>1, UpdatedFacts
  <2>3. tableLag[e] \in 0..1 /\ (~spoilt => fileLag[e] \in 0..since+1)
    BY <1>0, <2>1 DEF Behind
  <2>4. tableLag'[e] = r.tableLag[e] /\ fileLag'[e] = r.fileLag[e]
    BY <1>1, <1>3
  <2>5. tableLag'[e] \in 0..1
    BY <1>4, <1>6, <1>9, <2>3, <2>4
  <2>6. ResumeKey(e) \in Range(table')
    BY <1>3, <1>6, <2>2, InTable
  <2>7. ~spoilt' => fileLag'[e] \in 0..since'+1
    BY <1>5, <1>6, <1>9, <2>3, <2>4, <2>6
  <2> QED
    BY <2>2, <2>5, <2>7
<1>10. tableLag' \in [Decks -> Int] /\ fileLag' \in [Decks -> Int]
       /\ tableLag'[d] = 0 /\ fileLag'[d] = 0
  BY <1>1, <1>3
<1>11. /\ near # {} /\ loaded' /\ mounted
       /\ \E o \in near \cup {NoBook} : book' = [bk EXCEPT ![d] = o]
  BY <1>1 DEF Finds
<1> QED
  BY <1>1, <1>3, <1>4, <1>6, <1>7, <1>8, <1>9, <1>10, <1>11

\* What is open after the pass of a deck.
LEMMA PrepareBooks ==
    ASSUME ResumeIInv, NEW d \in Decks, NEW bk, NEW near, Finds(d, bk, near),
           Stays(d, bk, near) \/ Opens(d, bk, near)
    PROVE  /\ list' \in [Decks -> Shelves \cup {NoShelf}] /\ list'[d] = Scanned(d)
           /\ \A e \in Decks \ {d} : list'[e] = list[e] /\ book'[e] = book[e] /\ bk[e] = book[e]
           /\ book' \in [Decks -> {NoBook} \cup AllBooks]
           /\ \A e \in Decks : book'[e] \in {NoBook} \cup Books(list'[e])
           /\ list'[d] # NoShelf => mounted /\ loaded' /\ Books(list'[d]) # {}
<1>0. ResumeTypeOK /\ Scanning
  BY DEF ResumeIInv
<1>1. /\ list' = [list EXCEPT ![d] = Scanned(d)] /\ near = Books(Scanned(d))
      /\ bk = IF Scans(d) THEN [book EXCEPT ![d] = NoBook] ELSE book
      /\ near # {} => mounted /\ loaded'
  BY DEF Finds
<1>2. Scanned(d) \in Shelves \cup {NoShelf}
  BY <1>0 DEF Scanned, ResumeTypeOK
<1>3. list' \in [Decks -> Shelves \cup {NoShelf}] /\ list'[d] = Scanned(d)
      /\ \A e \in Decks \ {d} : list'[e] = list[e]
  BY <1>0, <1>1, <1>2 DEF ResumeTypeOK
<1>4. bk \in [Decks -> {NoBook} \cup AllBooks] /\ book \in [Decks -> {NoBook} \cup AllBooks]
  BY <1>0, <1>1 DEF ResumeTypeOK
<1>5. \E o \in near \cup {NoBook, bk[d]} : book' = [bk EXCEPT ![d] = o]
  <2>1. CASE Stays(d, bk, near)
    <3>1. [bk EXCEPT ![d] = bk[d]] = bk
      BY <1>4
    <3> QED
      BY <2>1, <3>1 DEF Stays
  <2>2. CASE Opens(d, bk, near)
    <3>1. \E o \in near \cup {NoBook} : book' = [bk EXCEPT ![d] = o]
      BY <2>2, OpensSaves
    <3> QED
      BY <3>1
  <2> QED
    BY <2>1, <2>2
<1>6. \A e \in Decks \ {d} : bk[e] = book[e] /\ book'[e] = book[e]
  BY <1>1, <1>4, <1>5
<1>7. bk[d] \in {NoBook} \cup near
  BY <1>0, <1>1, <1>4 DEF ResumeTypeOK, Scanned
<1>8. book'[d] \in {NoBook} \cup near
  BY <1>4, <1>5, <1>7
<1>9. near \subseteq AllBooks
  BY <1>1, <1>2 DEF Books, AllBooks
<1>10. book' \in [Decks -> {NoBook} \cup AllBooks]
  BY <1>4, <1>5, <1>9
<1>11. Scanned(d) # NoShelf => Books(Scanned(d)) # {}
  BY <1>0 DEF Scanned, Scanning, Books
<1>12. \A e \in Decks : book'[e] \in {NoBook} \cup Books(list'[e])
  BY <1>0, <1>1, <1>3, <1>6, <1>8 DEF ResumeTypeOK
<1> QED
  BY <1>1, <1>3, <1>6, <1>10, <1>11, <1>12

LEMMA PrepareTypes ==
    ASSUME ResumeIInv, NEW d \in Decks, NEW bk, NEW near, Finds(d, bk, near),
           Stays(d, bk, near) \/ Opens(d, bk, near)
    PROVE  ResumeTypeOK' /\ Lags' /\ Scanning' /\ FileInTable'
<1>0. ResumeTypeOK /\ Lags /\ Scanning /\ FileInTable
  BY DEF ResumeIInv
<1>1. /\ pc = d /\ pc' = IF d = "A" THEN "B" ELSE "save"
      /\ rescan' = [rescan EXCEPT ![d] = FALSE]
      /\ writable /\ loaded' /\ ~missed =>
            Range(file) \subseteq Range(table) \/ Len(table) = Depth
      /\ loaded' \in BOOLEAN /\ (loaded => loaded')
      /\ mounted' = mounted /\ booting' = booting /\ shelf' = shelf /\ missed' = missed
  BY DEF Finds, world
<1>2. /\ list' \in [Decks -> Shelves \cup {NoShelf}]
      /\ \A e \in Decks \ {d} : list'[e] = list[e]
      /\ book' \in [Decks -> {NoBook} \cup AllBooks]
      /\ \A e \in Decks : book'[e] \in {NoBook} \cup Books(list'[e])
      /\ list'[d] # NoShelf => mounted /\ loaded' /\ Books(list'[d]) # {}
  BY PrepareBooks
<1>3. d \in {"A", "B"} /\ Decks = {"A", "B"}
  BY DEF Decks
<1>4. /\ IsTable(table') /\ IsTable(file') /\ dirty' \in BOOLEAN /\ writable' \in BOOLEAN
      /\ spoilt' \in BOOLEAN
      /\ since' \in 0..Checkpoint /\ paused' \in [Decks -> BOOLEAN]
      /\ tableLag' \in [Decks -> Int] /\ fileLag' \in [Decks -> Int]
  <2>1. CASE Stays(d, bk, near)
    <3>1. /\ table' = table /\ file' = file /\ dirty' = dirty /\ writable' = writable
          /\ since' = since /\ spoilt' = spoilt
          /\ paused' = paused \/ \E p \in BOOLEAN : paused' = [paused EXCEPT ![d] = p]
      BY <2>1 DEF Stays
    <3>2. tableLag' \in [Decks -> Int] /\ fileLag' \in [Decks -> Int]
      BY <1>0, <2>1 DEF Stays, Lags
    <3>3. paused' \in [Decks -> BOOLEAN]
      BY <1>0, <3>1 DEF ResumeTypeOK
    <3>4. /\ IsTable(table) /\ IsTable(file) /\ dirty \in BOOLEAN /\ writable \in BOOLEAN
          /\ spoilt \in BOOLEAN /\ since \in 0..Checkpoint
      BY <1>0 DEF ResumeTypeOK
    <3> QED
      BY <3>1, <3>2, <3>3, <3>4
  <2>2. CASE Opens(d, bk, near)
    <3>1. paused' \in [Decks -> BOOLEAN]
      BY <1>0, <2>2 DEF Opens, ResumeTypeOK
    <3> QED
      BY <2>2, <3>1, OpensSaves
  <2> QED
    BY <2>1, <2>2
<1>5. ResumeTypeOK'
  <2>1. pc' \in Decks \cup {"panel", "load", "save"} /\ rescan' \in [Decks -> BOOLEAN]
    BY <1>0, <1>1, <1>3 DEF ResumeTypeOK
  <2>2. mounted' \in BOOLEAN /\ booting' \in BOOLEAN /\ shelf' \in [Decks -> Shelves]
        /\ missed' \in BOOLEAN
    BY <1>0, <1>1 DEF ResumeTypeOK
  <2> QED
    BY <1>1, <1>2, <1>4, <2>1, <2>2 DEF ResumeTypeOK
<1>6. Lags'
  BY <1>4 DEF Lags
<1>7. ~loaded' => table' = <<>>
  <2>1. CASE Stays(d, bk, near)
    BY <1>0, <1>1, <2>1 DEF Stays, Scanning
  <2>2. CASE Opens(d, bk, near)
    BY <2>2, OpensSaves
  <2> QED
    BY <2>1, <2>2
<1>8. ~loaded' => missed' \/ file' = <<>>
  <2>1. CASE Stays(d, bk, near)
    <3>1. file' = file
      BY <2>1 DEF Stays
    <3> QED
      BY <1>0, <1>1, <1>3, <3>1 DEF Scanning
  <2>2. CASE Opens(d, bk, near)
    BY <2>2, OpensSaves
  <2> QED
    BY <2>1, <2>2
<1>9. Scanning'
  <2>1. \A e \in Decks : list'[e] # NoShelf => mounted' /\ loaded' /\ Books(list'[e]) # {}
    BY <1>0, <1>1, <1>2 DEF Scanning
  <2>2. pc' \in {"B", "save"} => ~rescan'["A"]
    BY <1>0, <1>1, <1>3 DEF Scanning, ResumeTypeOK
  <2>3. pc' = "save" => ~rescan'["B"]
    BY <1>0, <1>1, <1>3 DEF Scanning, ResumeTypeOK
  <2>4. pc' # "panel"
    BY <1>1
  <2> QED
    BY <1>7, <1>8, <2>1, <2>2, <2>3, <2>4 DEF Scanning
<1>10. FileInTable'
  <2> SUFFICES ASSUME writable', loaded', ~missed'
               PROVE  Range(file') \subseteq Range(table') \/ Len(table') = Depth
    BY DEF FileInTable
  <2>1. CASE Stays(d, bk, near)
    BY <1>1, <2>1 DEF Stays
  <2>2. CASE Opens(d, bk, near)
    <3>1. writable /\ (file' = file \/ file' = table' \/ file' = <<>>)
      BY <2>2, OpensSaves
    <3>2. Range(file) \subseteq Range(table') \/ Len(table') = Depth
      BY <1>1, <2>2, <3>1, OpensSaves
    <3> QED
      BY <3>1, <3>2, EmptyTable
  <2> QED
    BY <2>1, <2>2
<1> QED
  BY <1>5, <1>6, <1>9, <1>10

\* After a deck's pass its book has just been opened, or is noted as it was; the other
\* deck's book is noted as it was, or by the save.
LEMMA PrepareCovers ==
    ASSUME ResumeIInv, NEW d \in Decks, NEW bk, NEW near, Finds(d, bk, near),
           Stays(d, bk, near) \/ Opens(d, bk, near)
    PROVE  Covered'
<1>0. ResumeTypeOK /\ Lags /\ Scanning /\ Covered
  BY DEF ResumeIInv
<1>1. /\ bk = IF Scans(d) THEN [book EXCEPT ![d] = NoBook] ELSE book
      /\ pc = d /\ pc' = IF d = "A" THEN "B" ELSE "save"
      /\ rescan' = [rescan EXCEPT ![d] = FALSE] /\ shelf' = shelf
  BY DEF Finds
<1>2. /\ \A e \in Decks \ {d} : book'[e] = book[e] /\ bk[e] = book[e]
      /\ book' \in [Decks -> {NoBook} \cup AllBooks]
  BY PrepareBooks
<1>3. d \in {"A", "B"} /\ Decks = {"A", "B"}
  BY DEF Decks
<1>4. bk \in [Decks -> {NoBook} \cup AllBooks] /\ book \in [Decks -> {NoBook} \cup AllBooks]
      /\ rescan \in [Decks -> BOOLEAN]
  BY <1>0, <1>1 DEF ResumeTypeOK
<1>5. ASSUME Opens(d, bk, near), writable', NEW e \in Decks, book'[e] # NoBook
      PROVE  Fresh(e)' \/ Near(e)'
  <2>1. CASE e = d
    <3>1. tableLag'[d] = 0 /\ fileLag'[d] = 0 /\ paused'[d] = FALSE
      BY <1>0, <1>5, OpensSaves DEF ResumeTypeOK
    <3> QED
      BY <1>1, <1>3, <2>1, <3>1 DEF Fresh
  <2>2. CASE e # d
    <3>1. IsAt(table', 1, ResumeKey(e)) \/ IsAt(table', 2, ResumeKey(e))
      BY <1>2, <1>5, <2>2, OpensSaves
    <3>2. ResumeKey(e)' = ResumeKey(e)
      BY <1>1, <1>2, <2>2 DEF ResumeKey
    <3> QED
      BY <3>1, <3>2 DEF Near, IsAt
  <2> QED
    BY <2>1, <2>2
<1>6. ASSUME Stays(d, bk, near), writable', NEW e \in Decks,
             book'[e] # NoBook, ~rescan'[e], ~Shared(e)'
      PROVE  Fresh(e)' \/ Near(e)'
  <2>1. /\ book' = bk /\ table' = table /\ writable
        /\ \A x \in Decks \ {d} : /\ paused'[x] = paused[x] /\ tableLag'[x] = tableLag[x]
                                  /\ fileLag'[x] = fileLag[x]
    BY <1>0, <1>3, <1>6 DEF Stays, ResumeTypeOK, Lags
  <2>2. book[e] # NoBook /\ book'[e] = book[e] /\ table' = table
    BY <1>1, <1>2, <1>4, <1>6, <2>1
  <2>3. ~rescan[e]
    BY <1>1, <1>4, <1>6, <2>1, <2>2 DEF Scans
  <2>4. \A x \in Decks : book'[x] = book[x] \/ (x = d /\ book'[x] = NoBook)
    BY <1>1, <1>2, <1>4, <2>1
  <2>5. \A x \in Decks : rescan'[x] = rescan[x] \/ book'[x] = NoBook
    BY <1>1, <1>4, <2>1 DEF Scans
  <2>6. ~Shared(e)
    <3> SUFFICES ASSUME Shared(e) PROVE Shared(e)'
      BY <1>6
    <3>1. e = "B" /\ book["A"] # NoBook /\ ~rescan["A"] /\ ResumeKey("A") = ResumeKey("B")
      BY DEF Shared
    <3>2. list["A"] # NoShelf
      BY <1>0, <1>3, <3>1, OpenIsLoaded
    <3>3. book'["A"] = book["A"] /\ ~rescan'["A"]
      BY <1>1, <1>3, <1>4, <2>1, <2>4, <3>1, <3>2 DEF Scans
    <3> QED
      BY <1>1, <2>2, <3>1, <3>3 DEF Shared, ResumeKey
  <2>7. Fresh(e) \/ Near(e)
    BY <1>0, <2>1, <2>2, <2>3, <2>6 DEF Covered
  <2>8. CASE Fresh(e)
    <3>1. e # d /\ pc' = "save"
      BY <1>1, <1>3, <2>8 DEF Fresh
    <3> QED
      BY <2>1, <2>8, <3>1 DEF Fresh
  <2>9. CASE Near(e)
    <3>1. PICK i \in 1..3 :
            /\ IsAt(table, i, ResumeKey(e))
            /\ \/ i <= 2
               \/ book[Other(e)] = NoBook \/ rescan[Other(e)]
               \/ ResumeKey(Other(e)) = ResumeKey(e)
               \/ \E j \in 1..i-1 : IsAt(table, j, ResumeKey(Other(e)))
      BY <2>9 DEF Near
    <3>2. ResumeKey(e)' = ResumeKey(e) /\ IsAt(table, i, ResumeKey(e))'
      BY <1>1, <2>2, <3>1 DEF ResumeKey, IsAt
    <3>3. Other(e) \in Decks
      BY <1>3 DEF Other
    <3>4. CASE book'[Other(e)] = NoBook
      BY <3>2, <3>4 DEF Near
    <3>5. CASE book'[Other(e)] # NoBook
      <4>1. book'[Other(e)] = book[Other(e)] /\ rescan'[Other(e)] = rescan[Other(e)]
        BY <2>4, <2>5, <3>3, <3>5
      <4>2. ResumeKey(Other(e))' = ResumeKey(Other(e))
        BY <1>1, <4>1 DEF ResumeKey
      <4>3. \A j : IsAt(table, j, ResumeKey(Other(e))) => IsAt(table, j, ResumeKey(Other(e)))'
        BY <2>2, <4>2 DEF IsAt
      <4> QED
        BY <3>1, <3>2, <4>1, <4>2, <4>3 DEF Near
    <3> QED
      BY <3>4, <3>5
  <2> QED
    BY <2>7, <2>8, <2>9
<1> QED
  BY <1>5, <1>6 DEF Covered

\* Nor is anything further behind, and what was opened is not behind at all.
LEMMA PrepareBehind ==
    ASSUME ResumeIInv, NEW d \in Decks, NEW bk, NEW near, Finds(d, bk, near),
           Stays(d, bk, near) \/ Opens(d, bk, near)
    PROVE  Behind'
<1>0. ResumeTypeOK /\ Lags /\ Behind
  BY DEF ResumeIInv
<1>1. pc' # "panel"
  BY DEF Finds
<1>2. \A e \in Decks \ {d} : book'[e] = book[e] /\ bk[e] = book[e]
  BY PrepareBooks
<1>3. ASSUME writable', NEW e \in Decks, book'[e] # NoBook
      PROVE  tableLag'[e] \in 0..1 /\ (~spoilt' => fileLag'[e] \in 0..since'+1)
  <2>1. CASE Opens(d, bk, near)
    <3>1. tableLag'[d] = 0 /\ fileLag'[d] = 0 /\ since' \in 0..Checkpoint
      BY <2>1, OpensSaves
    <3>2. CASE e = d
      BY <3>1, <3>2, BardResumeAssumption
    <3>3. CASE e # d
      BY <1>2, <1>3, <2>1, <3>3, OpensSaves
    <3> QED
      BY <3>2, <3>3
  <2>2. CASE Stays(d, bk, near)
    <3>1. /\ writable /\ since' = since /\ book' = bk /\ spoilt' = spoilt
          /\ tableLag' = [tableLag EXCEPT ![d] = IF bk[d] = NoBook THEN 0 ELSE @]
          /\ fileLag' = [fileLag EXCEPT ![d] = IF bk[d] = NoBook THEN 0 ELSE @]
      BY <1>3, <2>2 DEF Stays
    <3>2. tableLag'[e] = tableLag[e] /\ fileLag'[e] = fileLag[e]
      BY <1>0, <1>3, <3>1 DEF Lags
    <3>3. book[e] # NoBook
      BY <1>0, <1>3, <3>1 DEF Finds, ResumeTypeOK
    <3> QED
      BY <1>0, <3>1, <3>2, <3>3 DEF Behind
  <2> QED
    BY <2>1, <2>2
<1>4. ~writable' => spoilt'
  <2>1. CASE Opens(d, bk, near)
    BY <2>1, OpensSaves
  <2>2. CASE Stays(d, bk, near)
    BY <1>0, <2>2 DEF Stays, Behind
  <2> QED
    BY <2>1, <2>2
<1> QED
  BY <1>1, <1>3, <1>4 DEF Behind

-----------------------------------------------------------------------------
(* The save that ends a pass, and the steps between two passes. *)

\* The save does not push a waiting deck's book out of the table: it was so near the
\* front that there is room for the other deck's.
LEMMA SaveCovers ==
    ASSUME ResumeIInv, pc = "save", NEW u, u = Updated(table, book, dirty),
           NEW d \in Decks, book[d] # NoBook, ~Shared(d), writable
    PROVE  \E i \in 1..3 :
              /\ IsAt(u, i, ResumeKey(d))
              /\ \/ i <= 2
                 \/ book[Other(d)] = NoBook
                 \/ ResumeKey(Other(d)) = ResumeKey(d)
                 \/ \E j \in 1..i-1 : IsAt(u, j, ResumeKey(Other(d)))
<1>0. ResumeTypeOK /\ Scanning /\ Covered
  BY DEF ResumeIInv
<1>1. Decks = {"A", "B"} /\ Other(d) \in Decks /\ Other(d) # d
  BY DEF Decks, Other
<1>2. ~rescan["A"] /\ ~rescan["B"]
  BY <1>0 DEF Scanning
<1>3. ~Skipped(book, d)
  BY <1>2 DEF Skipped, Shared
<1>4. IsTable(table) /\ Still(book)
  BY <1>0 DEF ResumeTypeOK, Still
<1>5. CASE Noted(book, dirty, d)
  <2>1. IsAt(u, 1, ResumeKey(d)) \/ IsAt(u, 2, ResumeKey(d))
    BY <1>0, <1>4, <1>5, UpdatedFacts
  <2> QED
    BY <2>1
<1>6. CASE ~Noted(book, dirty, d)
  <2>1. paused[d]
    BY <1>3, <1>6 DEF Noted
  <2>2. Near(d)
    BY <1>0, <1>1, <1>2, <2>1 DEF Covered, Fresh
  <2>3. PICK i \in 1..3 :
          /\ IsAt(table, i, ResumeKey(d))
          /\ \/ i <= 2
             \/ book[Other(d)] = NoBook
             \/ ResumeKey(Other(d)) = ResumeKey(d)
             \/ \E j \in 1..i-1 : IsAt(table, j, ResumeKey(Other(d)))
    BY <1>1, <1>2, <2>2 DEF Near
  <2>4. CASE ~Noted(book, dirty, Other(d))
    <3>1. \A e \in Decks : ~Noted(book, dirty, e)
      BY <1>1, <1>6, <2>4
    <3>2. u = table
      BY <1>0, <1>4, <3>1, UpdatedFacts
    <3> QED
      BY <2>3, <3>2
  <2>5. CASE Noted(book, dirty, Other(d))
    <3>1. PICK k \in KeySet : k = ResumeKey(Other(d))
      BY <1>0, <1>1, <2>5, OpenHasKey DEF Noted
    <3>2. u = Set(table, k)
      BY <1>0, <1>1, <1>4, <1>6, <2>5, <3>1, UpdatedFacts
    <3>3. Depth \in Nat /\ Depth >= 3
      BY BardResumeAssumption
    <3>4. IsAt(u, 1, k)
      BY <1>4, <3>2, SetFacts
    <3>5. CASE i <= 2
      <4>1. IsAt(u, i, ResumeKey(d)) \/ IsAt(u, i + 1, ResumeKey(d)) \/ ResumeKey(d) = k
        BY <1>4, <2>3, <3>2, <3>3, <3>5, SetFacts
      <4>2. CASE IsAt(u, i, ResumeKey(d))
        BY <3>5, <4>2
      <4>3. CASE IsAt(u, i + 1, ResumeKey(d))
        <5>1. i + 1 \in 1..3 /\ 1 \in 1..(i+1)-1
          BY <3>5
        <5> QED
          BY <3>1, <3>4, <4>3, <5>1
      <4>4. CASE ResumeKey(d) = k
        BY <3>4, <4>4
      <4> QED
        BY <4>1, <4>2, <4>3, <4>4
    <3>6. CASE ResumeKey(Other(d)) = ResumeKey(d)
      BY <3>1, <3>4, <3>6
    <3>7. CASE i = 3 /\ \E j \in 1..i-1 : IsAt(table, j, k)
      <4>1. PICK j \in 1..2 : IsAt(table, j, k)
        BY <3>7
      <4>2. j < i /\ 1 \in 1..i-1
        BY <3>7, <4>1
      <4>3. \A x, y, z : IsAt(table, x, z) /\ IsAt(table, y, k) /\ y < x => IsAt(u, x, z)
        BY <1>4, <3>2, SetFacts
      <4>4. IsAt(u, i, ResumeKey(d))
        BY <2>3, <4>1, <4>2, <4>3
      <4> QED
        BY <3>1, <3>4, <4>2, <4>4
    <3>8. book[Other(d)] # NoBook
      BY <2>5 DEF Noted
    <3>9. i <= 2 \/ i = 3
      OBVIOUS
    <3> QED
      BY <2>3, <3>1, <3>5, <3>6, <3>7, <3>8, <3>9
  <2> QED
    BY <2>4, <2>5
<1> QED
  BY <1>5, <1>6

\* The save writes the table it leaves, and that holds what the file held unless it is
\* full; a table that was never read is not written.
LEMMA SaveWrites ==
    ASSUME ResumeIInv, Save
    PROVE  /\ ~loaded => table' = <<>> /\ file' = file
           /\ writable /\ loaded /\ ~missed =>
                 Range(file) \subseteq Range(table') \/ Len(table') = Depth
           /\ ~writable => file' = file
           /\ file' = file \/ spoilt' \/ file' = table'
           /\ writable' => writable /\ (file' = file \/ file' = table' \/ file' = <<>>)
<1>0. ResumeTypeOK /\ Lags /\ Scanning /\ FileInTable /\ (~writable => spoilt)
  BY DEF ResumeIInv, Behind
<1>1. PICK r \in Saves(table, book, dirty) : Store(r)
  BY DEF Save
<1>2. IsTable(table) /\ Still(book) /\ dirty \in BOOLEAN /\ Depth \in Nat
  BY <1>0, BardResumeAssumption DEF ResumeTypeOK, Still
<1>3. /\ IsTable(r.table)
      /\ writable => r.table = Updated(table, book, dirty)
      /\ ~writable => r.table = table /\ r.file = file
      /\ r.file = file \/ r.spoilt \/ r.file = r.table
      /\ r.table = <<>> => r.file = file
      /\ r.writable => writable /\ (r.file = file \/ r.file = r.table \/ r.file = <<>>)
  BY <1>0, <1>2, SaveOutcome
<1>4. table' = r.table /\ file' = r.file /\ writable' = r.writable /\ spoilt' = r.spoilt
  BY <1>1 DEF Store
<1>5. ASSUME ~loaded PROVE table' = <<>> /\ file' = file
  <2>1. table = <<>> /\ \A d \in Decks : book[d] = NoBook
    BY <1>0, <1>5, OpenIsLoaded DEF Scanning
  <2>2. \A d \in Decks : ~Noted(book, dirty, d)
    BY <2>1 DEF Noted
  <2>3. Updated(table, book, dirty) = <<>>
    BY <1>0, <1>2, <2>1, <2>2, UpdatedFacts
  <2> QED
    BY <1>0, <1>3, <1>4, <2>1, <2>3 DEF ResumeTypeOK
<1>6. ASSUME writable, loaded, ~missed PROVE Range(file) \subseteq Range(table') \/ Len(table') = Depth
  <2>1. /\ Range(table) \subseteq Range(table') \/ Len(table') = Depth
        /\ Len(table') >= Len(table) /\ Len(table') <= Depth /\ Len(table') \in Nat
        /\ Len(table) \in Nat
    BY <1>0, <1>2, <1>3, <1>4, <1>6, UpdatedFacts DEF IsTable
  <2>2. Range(file) \subseteq Range(table) \/ Len(table) = Depth
    BY <1>0, <1>6 DEF FileInTable
  <2> QED
    BY <1>2, <2>1, <2>2
<1> QED
  BY <1>3, <1>4, <1>5, <1>6

LEMMA SaveKeeps == ASSUME ResumeIInv, Save PROVE ResumeIInv'
<1>0. ResumeTypeOK /\ Lags /\ Scanning /\ FileInTable /\ Covered /\ Behind
      /\ (~writable => spoilt)
  BY DEF ResumeIInv, Behind
<1>1. PICK r \in Saves(table, book, dirty) :
        Store(r) /\ tableLag' = r.tableLag /\ fileLag' = r.fileLag
  BY DEF Save
<1>2. pc = "save" /\ pc' = "panel" /\ UNCHANGED <<world, loaded, decks, missed>>
  BY DEF Save
<1>3. IsTable(table) /\ Still(book) /\ dirty \in BOOLEAN /\ Depth \in Nat
  BY <1>0, BardResumeAssumption DEF ResumeTypeOK, Still
<1>4. /\ IsTable(r.table) /\ IsTable(r.file)
      /\ r.dirty \in BOOLEAN /\ r.writable \in BOOLEAN /\ r.since \in {0, since}
      /\ r.tableLag \in [Decks -> Int] /\ r.fileLag \in [Decks -> Int]
      /\ r.spoilt \in BOOLEAN /\ (~r.writable => r.spoilt)
      /\ writable => r.table = Updated(table, book, dirty)
      /\ ~writable => r.table = table /\ r.file = file
  BY <1>0, <1>3, SaveOutcome
<1>5. r.writable => /\ writable /\ r.since < Checkpoint
                    /\ r.file = file \/ r.file = r.table \/ r.file = <<>>
                    /\ \A e \in Decks :
                          /\ Noted(book, dirty, e) => r.tableLag[e] = 0
                          /\ ~Noted(book, dirty, e) => r.tableLag[e] = tableLag[e]
  BY <1>0, <1>3, SaveOutcome
<1>6. ~r.spoilt =>
         \A e \in Decks : /\ ResumeKey(e) \in Range(r.table)
                          /\ tableLag[e] \in 0..1
                          /\ ~spoilt => fileLag[e] \in 0..since+1
                          => r.fileLag[e] \in 0..r.since+1
  BY <1>0, <1>3, SaveOutcome
<1>7. /\ table' = r.table /\ dirty' = r.dirty /\ since' = r.since
      /\ file' = r.file /\ writable' = r.writable /\ spoilt' = r.spoilt
  BY <1>1 DEF Store
<1>8. ResumeTypeOK' /\ Lags'
  <2>1. since' \in 0..Checkpoint
    BY <1>0, <1>4, <1>7, BardResumeAssumption DEF ResumeTypeOK
  <2> QED
    BY <1>0, <1>1, <1>2, <1>4, <1>7, <2>1 DEF ResumeTypeOK, Lags, world, decks
<1>9. Decks = {"A", "B"} /\ \A e \in Decks : ~rescan[e]
  BY <1>0, <1>2 DEF Scanning, Decks
<1>10. /\ ~loaded => table' = <<>> /\ file' = file
       /\ writable /\ loaded /\ ~missed => Range(file) \subseteq Range(table') \/ Len(table') = Depth
  BY SaveWrites
<1>11. Scanning'
  BY <1>0, <1>2, <1>9, <1>10 DEF Scanning, world, decks
<1>12. FileInTable'
  BY <1>2, <1>5, <1>7, <1>10, EmptyTable DEF FileInTable
<1>13. ASSUME writable', NEW d \in Decks, book[d] # NoBook, ~Shared(d)
       PROVE  \E i \in 1..3 :
                 /\ IsAt(table', i, ResumeKey(d))
                 /\ \/ i <= 2
                    \/ book[Other(d)] = NoBook
                    \/ ResumeKey(Other(d)) = ResumeKey(d)
                    \/ \E j \in 1..i-1 : IsAt(table', j, ResumeKey(Other(d)))
  <2>1. writable /\ table' = Updated(table, book, dirty)
    BY <1>4, <1>5, <1>7, <1>13
  <2> QED
    BY <1>2, <1>13, <2>1, SaveCovers
<1>14. /\ \A d \in Decks : Shared(d)' <=> Shared(d)
       /\ \A d : ResumeKey(d)' = ResumeKey(d)
  BY <1>2 DEF Shared, ResumeKey, decks
<1>15. Covered'
  <2> SUFFICES ASSUME writable', NEW d \in Decks, book'[d] # NoBook, ~Shared(d)'
               PROVE  Near(d)'
    BY DEF Covered
  <2>1. book' = book /\ ~Shared(d)
    BY <1>2, <1>14 DEF decks
  <2>2. PICK i \in 1..3 :
                 /\ IsAt(table', i, ResumeKey(d))
                 /\ \/ i <= 2
                    \/ book[Other(d)] = NoBook
                    \/ ResumeKey(Other(d)) = ResumeKey(d)
                    \/ \E j \in 1..i-1 : IsAt(table', j, ResumeKey(Other(d)))
    BY <1>13, <2>1
  <2> QED
    BY <1>14, <2>1, <2>2 DEF Near, IsAt
<1>16. ASSUME writable', NEW d \in Decks, book[d] # NoBook
       PROVE  ResumeKey(d) \in Range(table')
  <2>1. PICK e \in Decks : book[e] # NoBook /\ ~Shared(e) /\ ResumeKey(e) = ResumeKey(d)
    BY <1>9, <1>16 DEF Shared
  <2>2. PICK i : IsAt(table', i, ResumeKey(e))
    BY <1>13, <1>16, <2>1
  <2>3. IsTable(table')
    BY <1>4, <1>7
  <2> QED
    BY <2>1, <2>2, <2>3, InTable
<1>17. Behind'
  <2> SUFFICES ASSUME writable'
               PROVE  /\ since' < Checkpoint
                      /\ \A d \in Decks : book[d] # NoBook =>
                            /\ tableLag'[d] \in 0..1
                            /\ ~spoilt' => fileLag'[d] \in 0..since'+1
                            /\ ~paused[d] /\ ~Skipped(book, d) => tableLag'[d] = 0
    <3>1. \A d : Skipped(book, d)' <=> Skipped(book, d)
      BY <1>2 DEF Skipped, ResumeKey, decks
    <3> QED
      BY <1>2, <1>4, <1>7, <3>1 DEF Behind, decks
  <2>1. since' < Checkpoint
    BY <1>5, <1>7
  <2>2. ASSUME NEW d \in Decks, book[d] # NoBook
        PROVE  /\ tableLag'[d] \in 0..1 /\ (~spoilt' => fileLag'[d] \in 0..since'+1)
               /\ ~paused[d] /\ ~Skipped(book, d) => tableLag'[d] = 0
    <3>1. tableLag[d] \in 0..1 /\ (~spoilt => fileLag[d] \in 0..since+1)
      BY <1>0, <1>5, <1>7, <2>2 DEF Behind
    <3>2. tableLag'[d] \in {0, tableLag[d]}
      BY <1>1, <1>5, <1>7
    <3>3. ~spoilt' => fileLag'[d] \in 0..since'+1
      BY <1>1, <1>6, <1>7, <1>16, <2>2, <3>1
    <3>4. ~paused[d] /\ ~Skipped(book, d) => Noted(book, dirty, d)
      BY <2>2 DEF Noted
    <3>5. Noted(book, dirty, d) => tableLag'[d] = 0
      BY <1>1, <1>5, <1>7
    <3>6. tableLag'[d] \in 0..1
      BY <3>1, <3>2
    <3> QED
      BY <3>3, <3>4, <3>5, <3>6
  <2> QED
    BY <2>1, <2>2
<1> QED
  BY <1>8, <1>11, <1>12, <1>15, <1>17 DEF ResumeIInv

\* A turn of its shelf knob makes a deck scan again; nothing else changes a key.
Touched ==
    /\ UNCHANGED <<table, loaded, writable, since, list, book>> /\ dirty' \in BOOLEAN
    /\ paused' \in [Decks -> BOOLEAN] /\ shelf' \in [Decks -> Shelves]
    /\ rescan' \in [Decks -> BOOLEAN]
    /\ \A d \in Decks : (shelf'[d] = shelf[d] /\ rescan'[d] = rescan[d]) \/ rescan'[d] = TRUE

LEMMA PanelTouches == ASSUME ResumeTypeOK, Panel PROVE Touched
<1>1. CASE Nothing
  BY <1>1 DEF Nothing, store, decks, Touched, ResumeTypeOK
<1>2. ASSUME NEW d \in Decks, PlayPad(d) PROVE Touched
  BY <1>2 DEF PlayPad, Touched, ResumeTypeOK
<1>3. ASSUME NEW d \in Decks, Shelf(d) PROVE Touched
  BY <1>3 DEF Shelf, store, Touched, ResumeTypeOK
<1> QED
  BY <1>1, <1>2, <1>3 DEF Panel

\* Between two passes: a deck whose shelf is turned has no claim to its place in the
\* table, for it closes its book in the next pass.
LEMMA PanelKeeps == ASSUME ResumeIInv, Panel PROVE ResumeIInv'
<1>0. ResumeTypeOK /\ Lags /\ Scanning /\ FileInTable /\ Covered /\ Behind
  BY DEF ResumeIInv
<1>1. pc = "panel" /\ pc' = "load" /\ UNCHANGED <<world, file, lags, missed, spoilt>>
  BY DEF Panel
<1>2. Touched
  BY <1>0, PanelTouches
<1>3. ResumeTypeOK' /\ Lags'
  BY <1>0, <1>1, <1>2 DEF ResumeTypeOK, Lags, Touched, world, lags, Decks
<1>4. Scanning'
  BY <1>0, <1>1, <1>2 DEF Scanning, Touched, world
<1>5. FileInTable'
  BY <1>0, <1>1, <1>2 DEF FileInTable, Touched
<1>6. ASSUME writable', NEW d \in Decks, book'[d] # NoBook, ~rescan'[d], ~Shared(d)'
      PROVE  Near(d)'
  <2> DEFINE o == Other(d)
  <2>1. /\ writable /\ book[d] # NoBook /\ ~rescan[d] /\ ResumeKey(d)' = ResumeKey(d)
        /\ book' = book /\ table' = table
    BY <1>2, <1>6 DEF Touched, ResumeKey
  <2>2. o \in Decks /\ Decks = {"A", "B"}
    BY DEF Other, Decks
  <2>3. ASSUME NEW e \in Decks, book[e] # NoBook, ~rescan[e], ~Shared(e) PROVE Near(e)
    BY <1>0, <1>1, <2>1, <2>3 DEF Covered, Fresh
  <2>4. CASE book[o] = NoBook \/ rescan'[o]
    <3>1. PICK e \in Decks : Near(e) /\ ResumeKey(e) = ResumeKey(d)
      BY <2>1, <2>2, <2>3 DEF Shared
    <3>2. PICK i \in 1..3 : IsAt(table, i, ResumeKey(d))
      BY <3>1 DEF Near
    <3> HIDE DEF o
    <3> QED
      BY <2>1, <2>4, <3>2 DEF Near, IsAt, o
  <2>5. CASE book[o] # NoBook /\ ~rescan'[o]
    <3>1. ResumeKey(o)' = ResumeKey(o) /\ ~rescan[o] /\ rescan'[o] = rescan[o]
      BY <1>0, <1>2, <2>2, <2>5 DEF Touched, ResumeKey, ResumeTypeOK
    <3>2. ~Shared(d)
      <4> SUFFICES ASSUME Shared(d) PROVE Shared(d)'
        BY <1>6
      <4>1. d = "B" /\ o = "A"
        BY DEF Shared, Other
      <4> QED
        BY <2>1, <2>5, <3>1, <4>1 DEF Shared
    <3>3. Near(d)
      BY <2>1, <2>3, <3>2
    <3>4. \A j : /\ IsAt(table, j, ResumeKey(d)) => IsAt(table, j, ResumeKey(d))'
                 /\ IsAt(table, j, ResumeKey(o)) => IsAt(table, j, ResumeKey(o))'
      BY <2>1, <3>1 DEF IsAt
    <3> HIDE DEF o
    <3> QED
      BY <2>1, <2>5, <3>1, <3>3, <3>4 DEF Near, o
  <2> QED
    BY <2>4, <2>5
<1>7. Covered'
  BY <1>6 DEF Covered
<1>8. Behind'
  BY <1>0, <1>1, <1>2 DEF Behind, Touched, lags
<1> QED
  BY <1>3, <1>4, <1>5, <1>7, <1>8 DEF ResumeIInv

\* The places of the books in the table are what they were if the table, the books and
\* the shelves are.
LEMMA SamePlaces ==
    ASSUME UNCHANGED <<table, shelf, rescan, book>>, NEW d
    PROVE  /\ Near(d)' <=> Near(d)
           /\ Shared(d)' <=> Shared(d)
           /\ Skipped(book, d)' <=> Skipped(book, d)
BY DEF Near, IsAt, Shared, Skipped, ResumeKey

LEMMA TickKeeps == ASSUME ResumeIInv, Tick PROVE ResumeIInv'
<1>0. ResumeTypeOK /\ Lags /\ Scanning /\ FileInTable /\ Covered /\ Behind
  BY DEF ResumeIInv
<1> DEFINE Late(lag) == [d \in Decks |-> IF Skipped(book, d) THEN 0
                                         ELSE IF /\ book[d] # NoBook /\ ~paused[d] /\ writable
                                                 /\ lag[d] < Lost
                                         THEN lag[d] + 1
                                         ELSE lag[d]]
<1>1. /\ pc = "panel" /\ pc' = "load"
      /\ since' = IF writable /\ since < Checkpoint THEN since + 1 ELSE since
      /\ tableLag' = Late(tableLag) /\ fileLag' = Late(fileLag)
      /\ UNCHANGED <<world, file, table, loaded, dirty, writable, decks, missed, spoilt>>
  BY DEF Tick
<1>2. since \in 0..Checkpoint /\ Checkpoint \in Nat \ {0}
  BY <1>0, BardResumeAssumption DEF ResumeTypeOK
<1>3. ResumeTypeOK'
  BY <1>0, <1>1, <1>2 DEF ResumeTypeOK, world, decks, Decks
<1>4. Lags'
  BY <1>0, <1>1 DEF Lags
<1>5. Scanning' /\ FileInTable'
  BY <1>0, <1>1 DEF Scanning, FileInTable, world, decks
<1>6. Covered'
  <2> SUFFICES ASSUME writable', NEW d \in Decks, book'[d] # NoBook, ~rescan'[d], ~Shared(d)'
               PROVE  Near(d)'
    BY DEF Covered
  <2>1. UNCHANGED <<table, shelf, rescan, book, writable>>
    BY <1>1 DEF decks
  <2>2. ~Shared(d) /\ ~Fresh(d)
    BY <1>1, <2>1, SamePlaces DEF Fresh
  <2>3. Near(d)
    BY <1>0, <2>1, <2>2 DEF Covered
  <2> QED
    BY <2>1, <2>3, SamePlaces
<1>7. ASSUME writable', NEW d \in Decks, book'[d] # NoBook
      PROVE  tableLag'[d] \in 0..1 /\ (~spoilt' => fileLag'[d] \in 0..since'+1)
  <2>1. /\ writable /\ book[d] # NoBook /\ spoilt' = spoilt
        /\ tableLag[d] \in 0..1 /\ (~spoilt => fileLag[d] \in 0..since+1) /\ since < Checkpoint
        /\ ~paused[d] /\ ~Skipped(book, d) => tableLag[d] = 0
    BY <1>0, <1>1, <1>7 DEF Behind, decks
  <2>2. since' = since + 1
    BY <1>1, <2>1
  <2>3. /\ tableLag'[d] = IF Skipped(book, d) THEN 0
                          ELSE IF ~paused[d] /\ tableLag[d] < Lost THEN tableLag[d] + 1
                          ELSE tableLag[d]
        /\ fileLag'[d] = IF Skipped(book, d) THEN 0
                         ELSE IF ~paused[d] /\ fileLag[d] < Lost THEN fileLag[d] + 1
                         ELSE fileLag[d]
    BY <1>1, <2>1
  <2> QED
    BY <1>2, <2>1, <2>2, <2>3
<1>8. Behind'
  BY <1>0, <1>1, <1>7 DEF Behind
<1> QED
  BY <1>3, <1>4, <1>5, <1>6, <1>8 DEF ResumeIInv

\* The read: what it takes in is all that the file has.
LEMMA LoadKeeps == ASSUME ResumeIInv, Load PROVE ResumeIInv'
<1>0. ResumeTypeOK /\ Lags /\ Scanning /\ FileInTable /\ Covered /\ Behind
  BY DEF ResumeIInv
<1>1. PICK up \in {FALSE, mounted} :
          /\ loaded' = (loaded \/ Reads(up))
          /\ table' = IF Reads(up) THEN file ELSE table
          /\ missed' = IF loaded THEN missed ELSE ~up /\ file # <<>>
  BY DEF Load
<1>2. pc = "load" /\ pc' = "A"
      /\ UNCHANGED <<world, file, dirty, writable, since, decks, lags, spoilt>>
  BY DEF Load
<1>3. /\ loaded' \in BOOLEAN /\ missed' \in BOOLEAN /\ (loaded => loaded')
      /\ ~loaded' => table' = table /\ (missed' \/ file = <<>>)
      /\ loaded' /\ ~loaded => table' = file
      /\ loaded => table' = table /\ missed' = missed
  <2>1. loaded \in BOOLEAN /\ missed \in BOOLEAN /\ up \in BOOLEAN
    BY <1>0 DEF ResumeTypeOK
  <2>2. CASE loaded
    BY <1>1, <2>1, <2>2 DEF Reads
  <2>3. CASE ~loaded /\ Reads(up)
    BY <1>1, <2>1, <2>3 DEF Reads
  <2>4. CASE ~loaded /\ ~Reads(up)
    BY <1>1, <2>1, <2>4 DEF Reads
  <2> QED
    BY <2>2, <2>3, <2>4
<1>4. ResumeTypeOK' /\ Lags'
  <2>1. IsTable(table')
    <3>1. IsTable(table) /\ IsTable(file)
      BY <1>0 DEF ResumeTypeOK
    <3>2. table' = table \/ table' = file
      BY <1>1
    <3> QED
      BY <3>1, <3>2
  <2>2. UNCHANGED <<mounted, booting, file, dirty, writable, since, shelf, rescan, list, book,
                    paused, spoilt>>
    BY <1>2 DEF world, decks
  <2>3. pc' \in Decks \cup {"panel", "load", "save"}
    BY <1>2 DEF Decks
  <2>4. ResumeTypeOK'
    BY <1>0, <1>3, <2>1, <2>2, <2>3 DEF ResumeTypeOK
  <2> QED
    BY <1>0, <1>2, <2>4 DEF Lags, lags
<1>5. Scanning'
  BY <1>0, <1>2, <1>3 DEF Scanning, world, decks
<1>6. FileInTable'
  BY <1>0, <1>2, <1>3 DEF FileInTable
<1>7. ASSUME NEW d \in Decks, book[d] # NoBook PROVE table' = table
  BY <1>0, <1>3, <1>7, OpenIsLoaded
<1>8. UNCHANGED <<shelf, rescan, book, writable, paused, tableLag, fileLag, since, spoilt>>
  BY <1>2 DEF decks, lags
<1>9. Covered'
  <2> SUFFICES ASSUME writable', NEW d \in Decks, book'[d] # NoBook, ~rescan'[d], ~Shared(d)'
               PROVE  Near(d)'
    BY DEF Covered
  <2>1. UNCHANGED <<table, shelf, rescan, book, writable>>
    BY <1>7, <1>8
  <2>2. ~Shared(d) /\ ~Fresh(d)
    BY <1>2, <2>1, SamePlaces DEF Fresh
  <2>3. Near(d)
    BY <1>0, <2>1, <2>2 DEF Covered
  <2> QED
    BY <2>1, <2>3, SamePlaces
<1>10. Behind'
  BY <1>0, <1>2, <1>8 DEF Behind
<1> QED
  BY <1>4, <1>5, <1>6, <1>9, <1>10 DEF ResumeIInv

LEMMA CardKeeps == ASSUME ResumeIInv, Mount \/ BootEnd \/ UNCHANGED resumeVars PROVE ResumeIInv'
<1>0. ResumeTypeOK /\ Lags /\ Scanning /\ FileInTable /\ Covered /\ Behind
  BY DEF ResumeIInv
<1>1. /\ UNCHANGED <<pc, file, store, decks, lags, missed, spoilt>> /\ mounted' \in BOOLEAN /\ booting' \in BOOLEAN
      /\ mounted => mounted'
  BY <1>0 DEF Mount, BootEnd, resumeVars, world, ResumeTypeOK
<1>2. ResumeTypeOK' /\ Lags'
  BY <1>0, <1>1 DEF ResumeTypeOK, Lags, store, decks, lags
<1>3. Scanning' /\ FileInTable'
  BY <1>0, <1>1 DEF Scanning, FileInTable, store, decks
<1>4. UNCHANGED <<pc, table, shelf, rescan, book, writable, paused, tableLag, fileLag, since,
                  spoilt>>
  BY <1>1 DEF store, decks, lags
<1>5. Covered'
  <2>1. \A d \in Decks : Fresh(d)' <=> Fresh(d)
    BY <1>4 DEF Fresh
  <2> QED
    BY <1>0, <1>4, <2>1, SamePlaces DEF Covered
<1>6. Behind'
  BY <1>0, <1>4, SamePlaces DEF Behind
<1> QED
  BY <1>2, <1>3, <1>5, <1>6 DEF ResumeIInv

\* A power cut starts anew with the file, or with none.
LEMMA BootKeeps == ASSUME ResumeIInv, PowerCut PROVE ResumeIInv'
<1>0. ResumeTypeOK
  BY DEF ResumeIInv
<1>1. IsTable(<<>>) /\ IsTable(file')
  BY <1>0, EmptyTable DEF PowerCut, ResumeTypeOK
<1>2. /\ pc' = "panel" /\ mounted' = FALSE /\ booting' = TRUE
      /\ table' = <<>> /\ loaded' = FALSE /\ dirty' = FALSE /\ writable' = TRUE /\ since' = 0
      /\ shelf' \in [Decks -> Shelves] /\ rescan' = [d \in Decks |-> TRUE]
      /\ list' = [d \in Decks |-> NoShelf]
      /\ book' = [d \in Decks |-> NoBook] /\ paused' = [d \in Decks |-> FALSE]
      /\ tableLag' = [d \in Decks |-> 0] /\ fileLag' = [d \in Decks |-> 0]
      /\ missed' = FALSE /\ spoilt' = FALSE
  BY DEF PowerCut, PerDeck
<1>3. ResumeTypeOK' /\ Lags'
  <2>1. /\ list' \in [Decks -> Shelves \cup {NoShelf}]
        /\ book' \in [Decks -> {NoBook} \cup AllBooks]
    BY <1>2
  <2>2. rescan' \in [Decks -> BOOLEAN] /\ paused' \in [Decks -> BOOLEAN]
    BY <1>2
  <2>3. tableLag' \in [Decks -> Int] /\ fileLag' \in [Decks -> Int]
    BY <1>2
  <2>4. \A d \in Decks : book'[d] = NoBook
    BY <1>2
  <2>5. since' \in 0..Checkpoint
    BY <1>2, BardResumeAssumption
  <2> QED
    BY <1>1, <1>2, <2>1, <2>2, <2>3, <2>4, <2>5 DEF ResumeTypeOK, Lags
<1>4. \A d \in Decks : book'[d] = NoBook /\ list'[d] = NoShelf
  BY <1>2
<1> QED
  BY <1>2, <1>3, <1>4, BardResumeAssumption
  DEF ResumeIInv, Scanning, FileInTable, Covered, Behind

LEMMA ResumeInvInit == ResumeInit => ResumeIInv
<1> SUFFICES ASSUME ResumeInit PROVE ResumeIInv
  OBVIOUS
<1>1. /\ pc = "panel" /\ mounted = FALSE /\ booting = TRUE /\ file = <<>>
      /\ table = <<>> /\ loaded = FALSE /\ dirty = FALSE /\ writable = TRUE /\ since = 0
      /\ shelf \in [Decks -> Shelves] /\ rescan = [d \in Decks |-> TRUE]
      /\ list = [d \in Decks |-> NoShelf]
      /\ book = [d \in Decks |-> NoBook] /\ paused = [d \in Decks |-> FALSE]
      /\ tableLag = [d \in Decks |-> 0] /\ fileLag = [d \in Decks |-> 0]
      /\ missed = FALSE /\ spoilt = FALSE
  BY DEF ResumeInit, PerDeck
<1>2. ResumeTypeOK /\ Lags
  <2>1. /\ list \in [Decks -> Shelves \cup {NoShelf}]
        /\ book \in [Decks -> {NoBook} \cup AllBooks]
    BY <1>1
  <2>2. rescan \in [Decks -> BOOLEAN] /\ paused \in [Decks -> BOOLEAN]
    BY <1>1
  <2>3. tableLag \in [Decks -> Int] /\ fileLag \in [Decks -> Int]
    BY <1>1
  <2>4. \A d \in Decks : book[d] = NoBook
    BY <1>1
  <2>5. since \in 0..Checkpoint
    BY <1>1, BardResumeAssumption
  <2> QED
    BY <1>1, EmptyTable, <2>1, <2>2, <2>3, <2>4, <2>5 DEF ResumeTypeOK, Lags
<1>3. \A d \in Decks : book[d] = NoBook /\ list[d] = NoShelf
  BY <1>1
<1> QED
  BY <1>1, <1>2, <1>3, BardResumeAssumption
  DEF ResumeIInv, Scanning, FileInTable, Covered, Behind

LEMMA PrepareKeeps == ASSUME ResumeIInv, NEW d \in Decks, Prepare(d) PROVE ResumeIInv'
<1>1. PICK bk, near : Finds(d, bk, near) /\ (Stays(d, bk, near) \/ Opens(d, bk, near))
  BY PrepareFinds
<1>2. ResumeTypeOK' /\ Lags' /\ Scanning' /\ FileInTable'
  BY <1>1, PrepareTypes
<1>3. Covered' /\ Behind'
  BY <1>1, PrepareCovers, PrepareBehind
<1> QED
  BY <1>2, <1>3 DEF ResumeIInv

LEMMA ResumeInvStep == ResumeIInv /\ [ResumeNext]_resumeVars => ResumeIInv'
<1>1. "A" \in Decks /\ "B" \in Decks
  BY DEF Decks
<1> QED
  BY <1>1, PanelKeeps, TickKeeps, LoadKeeps, PrepareKeeps, SaveKeeps, CardKeeps, BootKeeps DEF ResumeNext

LEMMA ResumeInvariant == ResumeSpec => []ResumeIInv
BY ResumeInvInit, ResumeInvStep, PTL DEF ResumeSpec

\* The table and the file hold each book once, and unless the last write failed a power
\* cut between two of them costs a listener at most a checkpoint and a pass of any open
\* book (resume_table.h:13-16, bard_engine.cpp:165-168).
THEOREM PositionsSurvive == ResumeSpec => []ResumeInv
<1>1. ResumeIInv => ResumeInv
  <2> SUFFICES ASSUME ResumeIInv, ~spoilt, NEW d \in Decks, book[d] # NoBook
               PROVE  fileLag[d] <= Checkpoint + 1
    BY DEF ResumeIInv, ResumeInv, CutCostsACheckpoint
  <2>1. fileLag[d] \in 0..since+1 /\ since \in 0..Checkpoint
    BY DEF ResumeIInv, Behind, ResumeTypeOK
  <2> QED
    BY <2>1, BardResumeAssumption
<1> QED
  BY <1>1, ResumeInvariant, PTL

\* A book's entry leaves the file only when a full table has no room for it, where a write
\* failed or the power went, or where the read of the file failed before the scan that
\* took it for absent: else what is written holds all that was read, however late the
\* card came up (bard_engine.cpp:93-96, 158-163).
THEOREM BooksAreKept == ResumeSpec => NothingForgotten
<1>1. ASSUME ResumeIInv, [ResumeNext]_resumeVars, ~missed
      PROVE  \/ Range(file) \subseteq Range(file') \/ Len(file') = Depth
             \/ spoilt' \/ PowerCut
  <2>0. ResumeTypeOK /\ Lags /\ Scanning /\ FileInTable
    BY <1>1 DEF ResumeIInv
  <2>1. CASE file' = file
    BY <2>1
  <2>2. CASE \E d \in Decks : Prepare(d)
    <3> PICK d \in Decks : Prepare(d)
      BY <2>2
    <3>1. PICK bk, near : Finds(d, bk, near) /\ (Stays(d, bk, near) \/ Opens(d, bk, near))
      BY <1>1, PrepareFinds
    <3>2. CASE Stays(d, bk, near)
      BY <2>1, <3>2 DEF Stays
    <3>3. CASE Opens(d, bk, near)
      <4>1. /\ writable => Range(file) \subseteq Range(table') \/ Len(table') = Depth
            /\ ~writable => file' = file
            /\ file' = file \/ spoilt' \/ file' = table'
        BY <1>1, <3>1, <3>3, OpensSaves
      <4> QED
        BY <2>1, <4>1
    <3> QED
      BY <3>1, <3>2, <3>3
  <2>3. CASE Save
    <3>1. /\ loaded /\ writable => Range(file) \subseteq Range(table') \/ Len(table') = Depth
          /\ ~loaded => file' = file
          /\ ~writable => file' = file
          /\ file' = file \/ spoilt' \/ file' = table'
      BY <1>1, <2>3, SaveWrites
    <3> QED
      BY <2>1, <3>1
  <2>4. CASE Panel \/ Tick \/ Load \/ Mount \/ BootEnd \/ UNCHANGED resumeVars
    BY <2>1, <2>4 DEF Panel, Tick, Load, Mount, BootEnd, resumeVars
  <2> QED
    BY <1>1, <2>2, <2>3, <2>4 DEF ResumeNext, Decks
<1>2. ResumeIInv /\ [ResumeNext]_resumeVars => [KeepsBooks]_resumeVars
  BY <1>1 DEF KeepsBooks
<1> QED
  BY <1>2, ResumeInvariant, PTL DEF ResumeSpec, NothingForgotten
=============================================================================

--------------------------- MODULE SpscRingProofs ---------------------------
(***************************************************************************)
(* The ring hands every byte over once, in order and intact, for every     *)
(* capacity init() can choose and every interleaving of the two sides.     *)
(***************************************************************************)
EXTENDS SpscRing, ModularArithmetic

\* The difference of two counters is the difference of what they count, as
\* long as that is below the modulus.
LEMMA MinusMeasures ==
    ASSUME CounterModulus \in Nat \ {0}, NEW h \in Int, NEW t \in Int,
           h - t \in 0..CounterModulus-1
    PROVE  Minus(h % CounterModulus, t % CounterModulus) = h - t
  <1> SUFFICES ASSUME NEW w \in Nat \ {0}, h - t \in 0..w-1
               PROVE  ((h % w) - (t % w)) % w = h - t
    BY DEF Minus
  <1> QED
    BY DifferenceMeasures

\* Free-running counters count modulo CounterModulus.
LEMMA PlusCounts ==
    ASSUME CounterModulus \in Nat \ {0}, NEW t \in Int, NEW n \in Int
    PROVE  Plus(t % CounterModulus, n) = (t + n) % CounterModulus
  BY RemainderCountsOn DEF Plus

\* Masking a wrapped counter gives the cell of the position it counts, because
\* the capacity divides the modulus.
LEMMA MaskedCounts ==
    ASSUME CounterModulus \in Nat \ {0}, NEW c \in Nat \ {0},
           Divides(c, CounterModulus), NEW t \in Int, NEW i \in Int
    PROVE  Offset(t % CounterModulus, i, c) = (t + i) % c
  <1>1. PICK m \in 1..CounterModulus : CounterModulus = m * c
    BY DEF Divides
  <1>2. m \in Nat \ {0}
    OBVIOUS
  <1>3. (((t % CounterModulus) % c) + i) % c = (t + i) % c
    <2>1. (t % CounterModulus) % c = t % c
      <3>1. c * m = CounterModulus
        BY <1>1, <1>2
      <3> QED
        BY <1>2, <3>1, RemainderOfRemainder, Zenon
    <2>2. ((t % c) + i) % c = (t + i) % c
      BY RemainderCountsOn, Zenon
    <2> QED
      BY <2>1, <2>2, Zenon
  <1> QED
    BY <1>3 DEF Offset, Masked

LEMMA CapacityFacts ==
    ASSUME TypeOK
    PROVE  /\ CounterModulus \in Nat \ {0}
           /\ cap \in Nat
           /\ cap # 0 => cap < CounterModulus /\ Divides(cap, CounterModulus)
  BY RingAssumption DEF TypeOK

\* The linear part of the invariant, without the counters.
LEMMA OccupancyBounds ==
    ASSUME TypeOK, CountersCount
    PROVE  /\ cap \in Nat /\ base \in Nat
           /\ produced \in Nat /\ consumed \in Nat
           /\ consumed <= produced /\ produced - consumed <= cap
  BY CapacityFacts DEF TypeOK, CountersCount

LEMMA CellInRange ==
    ASSUME NEW k \in Int, NEW c \in Nat \ {0}
    PROVE  k % c \in 0..c-1
  BY Euclid

\* What the counters show is the exact number of unread bytes and of free ones.
LEMMA CountersExact ==
    ASSUME TypeOK, CountersCount
    PROVE  OccupancyExact
  <1>1. PICK u \in Int : u = produced - consumed
    BY DEF TypeOK
  <1>2. u \in 0..CounterModulus-1 /\ 0 <= u /\ u <= cap
    BY <1>1, CapacityFacts DEF TypeOK, CountersCount
  <1>3. Minus(head, tail) = u
    BY <1>1, <1>2, CapacityFacts, MinusMeasures DEF TypeOK, CountersCount
  <1>4. cap - u \in 0..CounterModulus-1
    BY <1>2, CapacityFacts
  <1>5. (cap - u) % CounterModulus = cap - u
    <2>1. PICK d \in 0..CounterModulus-1 : d = cap - u
      BY <1>4
    <2>2. d = CounterModulus * 0 + d
      BY CapacityFacts
    <2>3. d % CounterModulus = d
      BY <2>2, CapacityFacts, RemainderUnique
    <2>4. QED
      BY <2>1, <2>3
  <1>6. Writable(cap, head, tail) = cap - u
    BY <1>3, <1>5 DEF Writable, Minus
  <1>7. QED
    BY <1>1, <1>2, <1>3, <1>6 DEF OccupancyExact, Readable, CountersCount

\* The cell a write in progress fills next, and the one a read takes next.
LEMMA WriteCell ==
    ASSUME TypeOK, CountersCount, cap # 0
    PROVE  Offset(head, wi, cap) = (produced + wi) % cap
  <1>1. wi \in Int /\ produced \in Int
    BY DEF TypeOK
  <1>2. QED
    BY <1>1, CapacityFacts, MaskedCounts DEF CountersCount

LEMMA ReadCell ==
    ASSUME TypeOK, CountersCount, cap # 0
    PROVE  Offset(tail, Len(dst), cap) = (consumed + Len(dst)) % cap
  <1>1. Len(dst) \in Int /\ consumed \in Int
    BY DEF TypeOK
  <1>2. QED
    BY <1>1, CapacityFacts, MaskedCounts DEF CountersCount

LEMMA InitEstablishes == Init => IInv
  <1> SUFFICES ASSUME Init PROVE IInv
    OBVIOUS
  <1>1. cap \in Capacities
    BY DEF Init, Capacities
  <1>2. CounterModulus \in Nat \ {0} /\ cap \in Nat
    BY <1>1, RingAssumption
  <1>3. 0 % CounterModulus = 0
    <2>1. 0 = CounterModulus * 0 + 0 /\ 0 \in 0..CounterModulus-1
      BY <1>2
    <2>2. QED
      BY <2>1, <1>2, RemainderUnique
  <1>4. TypeOK
    BY <1>1, <1>2 DEF Init, TypeOK
  <1>5. CountersCount /\ TransfersFit
    BY <1>2, <1>3 DEF Init, CountersCount, TransfersFit
  <1>6. CopiedInPlace /\ UnreadIntact /\ ReadsInOrder
    BY DEF Init, CopiedInPlace, UnreadIntact, ReadsInOrder
  <1>7. QED
    BY <1>4, <1>5, <1>6 DEF IInv

-----------------------------------------------------------------------------
(* One lemma per action. *)

LEMMA WriteBeginStep == IInv /\ WriteBegin => IInv'
  <1> SUFFICES ASSUME IInv, WriteBegin PROVE IInv'
    OBVIOUS
  <1> USE DEF IInv
  <1>1. PICK n \in 1..MaxChunk : wn' = Least(n, Writable(cap, head, tail))
    BY DEF WriteBegin
  <1>2. Writable(cap, head, tail) = cap - (produced - consumed)
    BY CountersExact DEF OccupancyExact
  <1>3. wn' \in Nat /\ wn' >= 1 /\ wn' <= cap - (produced - consumed)
    <2>1. PICK f \in Nat : f = cap - (produced - consumed)
      BY OccupancyBounds
    <2>2. wn' = Least(n, f) /\ wn' # 0
      BY <1>1, <1>2, <2>1 DEF WriteBegin
    <2>3. n \in Nat
      BY RingAssumption
    <2>4. wn' \in Nat /\ wn' <= f
      BY <2>2, <2>3 DEF Least
    <2>5. QED
      BY <2>1, <2>2, <2>4
  <1>4. TypeOK'
    BY <1>3 DEF WriteBegin, TypeOK, ring, read, hist
  <1>5. CountersCount' /\ TransfersFit'
    <2>1. CountersCount'
      BY DEF WriteBegin, CountersCount, ring, hist
    <2>2. TransfersFit'
      <3>1. wn' >= 1 /\ produced + wn' - consumed <= cap
        BY <1>3, OccupancyBounds
      <3>2. QED
        BY <3>1 DEF WriteBegin, TransfersFit, ring, read, hist
    <2>3. QED
      BY <2>1, <2>2
  <1>6. CopiedInPlace'
    BY DEF WriteBegin, CopiedInPlace, TypeOK, ring, hist
  <1>7. UnreadIntact' /\ ReadsInOrder'
    BY DEF WriteBegin, UnreadIntact, ReadsInOrder, ring, read, hist
  <1>8. QED
    BY <1>4, <1>5, <1>6, <1>7

LEMMA WriteByteStep == IInv /\ WriteByte => IInv'
  <1> SUFFICES ASSUME IInv, WriteByte PROVE IInv'
    OBVIOUS
  <1> USE DEF IInv
  <1> DEFINE p == produced + wi
  <1>1. cap \in Nat \ {0} /\ p \in Nat /\ p < consumed + cap
    <2>1. wi \in Nat /\ wn \in Nat /\ wi < wn /\ produced + wn - consumed <= cap
      BY DEF WriteByte, TransfersFit, TypeOK
    <2>2. QED
      BY <2>1, OccupancyBounds
  <1>2. buf' = [buf EXCEPT ![p % cap] = base + p]
    <2>1. base + produced + wi = base + p
      BY DEF TypeOK
    <2>2. QED
      BY <1>1, <2>1, WriteCell DEF WriteByte
  <1> HIDE DEF p
  <1>3. p % cap \in 0..cap-1
    BY <1>1, CellInRange
  <1>4. ASSUME NEW k \in Nat, consumed <= k, k < p
        PROVE  buf'[k % cap] = buf[k % cap]
    <2>1. p - k < cap
      BY <1>1, <1>4 DEF TypeOK
    <2>2. k % cap # p % cap
      BY <1>1, <1>4, <2>1, CellsDistinct
    <2>3. QED
      BY <1>2, <1>3, <2>2, CellInRange, <1>1 DEF TypeOK
  <1>5. buf'[p % cap] = base + p
    BY <1>2, <1>3 DEF TypeOK
  <1>6. TypeOK'
    <2>1. buf' \in [0..cap-1 -> Nat \cup {Empty}]
      BY <1>1, <1>2, <1>3 DEF TypeOK
    <2>2. wi' \in 0..wn
      BY DEF WriteByte, TypeOK
    <2>3. QED
      BY <2>1, <2>2 DEF WriteByte, TypeOK, read, hist
  <1>7. CountersCount' /\ TransfersFit'
    BY DEF WriteByte, CountersCount, TransfersFit, read, hist
  <1>8. CopiedInPlace'
    <2>1. SUFFICES ASSUME NEW k \in produced..p PROVE buf'[k % cap] = base + k
      BY DEF CopiedInPlace, WriteByte, hist, TypeOK, p
    <2>2. CASE k = p
      BY <1>5, <2>2
    <2>3. CASE k # p
      <3>1. k \in Nat /\ consumed <= k /\ k < p
        BY <2>3 DEF TypeOK, CountersCount, p
      <3>2. k \in produced..produced+wi-1
        BY <3>1 DEF TypeOK, p
      <3>3. buf[k % cap] = base + k
        BY <3>2 DEF CopiedInPlace, WriteByte
      <3>4. QED
        BY <1>4, <3>1, <3>3
    <2>4. QED
      BY <2>2, <2>3
  <1>9. UnreadIntact'
    <2>1. SUFFICES ASSUME NEW k \in consumed..produced-1
                   PROVE  buf'[k % cap] = base + k
      BY DEF UnreadIntact, WriteByte, hist
    <2>2. k \in Nat /\ consumed <= k /\ k < p
      BY DEF TypeOK, p
    <2>3. QED
      BY <1>4, <2>2 DEF UnreadIntact
  <1>10. ReadsInOrder'
    BY DEF WriteByte, ReadsInOrder, read, hist
  <1>11. QED
    BY <1>6, <1>7, <1>8, <1>9, <1>10

LEMMA WriteEndStep == IInv /\ WriteEnd => IInv'
  <1> SUFFICES ASSUME IInv, WriteEnd PROVE IInv'
    OBVIOUS
  <1> USE DEF IInv
  <1>1. head' = (produced + wn) % CounterModulus
    BY CapacityFacts, PlusCounts DEF WriteEnd, TypeOK, CountersCount
  <1>2. produced + wn \in Nat /\ (produced + wn) % CounterModulus \in 0..CounterModulus-1
    <2>1. PICK x \in Nat : x = produced + wn
      BY DEF TypeOK
    <2>2. x % CounterModulus \in 0..CounterModulus-1
      BY CapacityFacts, CellInRange
    <2>3. QED
      BY <2>1, <2>2
  <1>3. TypeOK'
    BY <1>1, <1>2 DEF WriteEnd, TypeOK, read
  <1>4. CountersCount'
    BY <1>1, <1>2, CapacityFacts
       DEF WriteEnd, CountersCount, TransfersFit, TypeOK
  <1>5. TransfersFit'
    BY DEF WriteEnd, TransfersFit, TypeOK, read
  <1>6. CopiedInPlace'
    BY DEF WriteEnd, CopiedInPlace
  <1>7. UnreadIntact'
    <2>1. SUFFICES ASSUME NEW k \in consumed..produced'-1
                   PROVE  buf[k % cap] = base + k
      BY DEF WriteEnd, UnreadIntact
    <2> k \in Int /\ consumed <= k /\ k <= produced + wn - 1
      BY DEF WriteEnd, TypeOK
    <2>2. CASE k < produced
      BY <2>2 DEF UnreadIntact, TypeOK
    <2>3. CASE k >= produced
      BY <2>3 DEF CopiedInPlace, WriteEnd, TypeOK
    <2>4. QED
      BY <2>2, <2>3 DEF TypeOK
  <1>8. ReadsInOrder'
    BY DEF WriteEnd, ReadsInOrder, read
  <1>9. QED
    BY <1>3, <1>4, <1>5, <1>6, <1>7, <1>8

LEMMA ReadBeginStep == IInv /\ ReadBegin => IInv'
  <1> SUFFICES ASSUME IInv, ReadBegin PROVE IInv'
    OBVIOUS
  <1> USE DEF IInv
  <1>1. PICK n \in 1..MaxChunk : rn' = Least(n, Readable(head, tail))
    BY DEF ReadBegin
  <1>2. Readable(head, tail) = produced - consumed
    BY CountersExact DEF OccupancyExact
  <1>3. rn' \in Nat /\ rn' >= 1 /\ rn' <= produced - consumed
    BY <1>1, <1>2, RingAssumption DEF ReadBegin, Least, TypeOK, CountersCount
  <1>4. TypeOK'
    BY <1>3 DEF ReadBegin, TypeOK, ring, write, hist
  <1>5. CountersCount' /\ CopiedInPlace' /\ UnreadIntact' /\ ReadsInOrder'
    BY DEF ReadBegin, CountersCount, CopiedInPlace, UnreadIntact, ReadsInOrder,
           ring, write, hist
  <1>6. TransfersFit'
    BY <1>3 DEF ReadBegin, TransfersFit, TypeOK, ring, write, hist
  <1>7. QED
    BY <1>4, <1>5, <1>6

LEMMA ReadByteStep == IInv /\ ReadByte => IInv'
  <1> SUFFICES ASSUME IInv, ReadByte PROVE IInv'
    OBVIOUS
  <1> USE DEF IInv
  <1> DEFINE k == consumed + Len(dst)
  <1>1. cap \in Nat \ {0} /\ k \in consumed..produced-1 /\ k \in Nat
    <2>1. Len(dst) \in Nat /\ rn \in Nat /\ Len(dst) < rn /\ consumed + rn <= produced
      BY DEF ReadByte, TransfersFit, TypeOK
    <2>2. QED
      BY <2>1, OccupancyBounds
  <1>2. buf[k % cap] = base + k
    BY <1>1 DEF UnreadIntact
  <1>3. dst' = Append(dst, base + k)
    BY <1>1, <1>2, ReadCell DEF ReadByte
  <1>4. base + k \in Nat
    BY <1>1 DEF TypeOK
  <1>5. TypeOK'
    BY <1>3, <1>4 DEF ReadByte, TypeOK, ring, write, hist
  <1>6. CountersCount' /\ TransfersFit' /\ CopiedInPlace' /\ UnreadIntact'
    BY DEF ReadByte, CountersCount, TransfersFit, CopiedInPlace, UnreadIntact,
           ring, write, hist
  <1>7. ReadsInOrder'
    <2>1. Len(dst') = Len(dst) + 1
      BY <1>3 DEF TypeOK
    <2>2. \A i \in 1..Len(dst) : dst'[i] = base + consumed + i - 1
      BY <1>3 DEF ReadsInOrder, ReadByte, TypeOK
    <2>3. dst'[Len(dst) + 1] = base + consumed + (Len(dst) + 1) - 1
      BY <1>3 DEF TypeOK
    <2>4. QED
      <3>1. SUFFICES ASSUME NEW i \in 1..Len(dst')
                     PROVE  dst'[i] = base + consumed + i - 1
        BY DEF ReadsInOrder, ReadByte, hist
      <3>2. i \in 1..Len(dst) \/ i = Len(dst) + 1
        BY <2>1 DEF TypeOK
      <3>3. QED
        BY <2>2, <2>3, <3>2
  <1>8. QED
    BY <1>5, <1>6, <1>7

LEMMA ReadEndStep == IInv /\ ReadEnd => IInv'
  <1> SUFFICES ASSUME IInv, ReadEnd PROVE IInv'
    OBVIOUS
  <1> USE DEF IInv
  <1>1. tail' = (consumed + rn) % CounterModulus
    BY CapacityFacts, PlusCounts DEF ReadEnd, TypeOK, CountersCount
  <1>2. consumed + rn \in Nat /\ (consumed + rn) % CounterModulus \in 0..CounterModulus-1
    <2>1. PICK x \in Nat : x = consumed + rn
      BY DEF TypeOK
    <2>2. x % CounterModulus \in 0..CounterModulus-1
      BY CapacityFacts, CellInRange
    <2>3. QED
      BY <2>1, <2>2
  <1>3. TypeOK'
    BY <1>1, <1>2 DEF ReadEnd, TypeOK, write
  <1>4. CountersCount'
    BY <1>1, CapacityFacts DEF ReadEnd, CountersCount, TransfersFit, TypeOK
  <1>5. TransfersFit'
    BY CapacityFacts DEF ReadEnd, TransfersFit, TypeOK, write
  <1>6. CopiedInPlace' /\ ReadsInOrder'
    BY DEF ReadEnd, CopiedInPlace, ReadsInOrder, write
  <1>7. UnreadIntact'
    BY DEF ReadEnd, UnreadIntact, TypeOK
  <1>8. QED
    BY <1>3, <1>4, <1>5, <1>6, <1>7

LEMMA ResetStep == IInv /\ Reset => IInv'
  <1> SUFFICES ASSUME IInv, Reset PROVE IInv'
    OBVIOUS
  <1> USE DEF IInv
  <1>1. 0 % CounterModulus = 0 /\ 0 \in 0..CounterModulus-1
    <2>1. 0 = CounterModulus * 0 + 0 /\ 0 \in 0..CounterModulus-1
      BY CapacityFacts
    <2>2. QED
      BY <2>1, CapacityFacts, RemainderUnique
  <1>2. TypeOK'
    BY <1>1 DEF Reset, TypeOK, write, read
  <1>3. CountersCount' /\ TransfersFit'
    BY <1>1, CapacityFacts DEF Reset, CountersCount, TransfersFit, write, read
  <1>4. CopiedInPlace' /\ UnreadIntact' /\ ReadsInOrder'
    BY DEF Reset, CopiedInPlace, UnreadIntact, ReadsInOrder, write, read
  <1>5. QED
    BY <1>2, <1>3, <1>4

LEMMA StutterStep == IInv /\ UNCHANGED vars => IInv'
  BY DEF IInv, TypeOK, CountersCount, TransfersFit, CopiedInPlace, UnreadIntact,
         ReadsInOrder, vars, ring, write, read, hist

-----------------------------------------------------------------------------
\* The strengthened invariant holds in every reachable state.
THEOREM Invariance == Spec => []IInv
  <1>1. IInv /\ [Next]_vars => IInv'
    BY WriteBeginStep, WriteByteStep, WriteEndStep, ReadBeginStep, ReadByteStep,
       ReadEndStep, ResetStep, StutterStep DEF Next
  <1>2. QED
    BY InitEstablishes, <1>1, PTL DEF Spec

\* The variables of SpscRing and of the calls in flight keep their types:
\* counters stay below their modulus, copies inside the buffer.
THEOREM TypeCorrect == Spec => []TypeOK
  BY Invariance, PTL DEF IInv

\* What writable() and readable() report is exact at any moment, through any
\* number of wrap-arounds of the counters (spsc_ring.h:65-69, 89-93).
THEOREM Occupancy == Spec => []OccupancyExact
  <1>1. IInv => OccupancyExact
    BY CountersExact DEF IInv
  <1>2. QED
    BY Invariance, <1>1, PTL

\* No write ever touches a byte that was published and not yet consumed.
THEOREM NoOverwrite == Spec => []UnreadIntact
  BY Invariance, PTL DEF IInv

\* The consumer receives the producer's bytes once each, in order, whole.
THEOREM InOrder == Spec => []ReadsInOrder
  BY Invariance, PTL DEF IInv

-----------------------------------------------------------------------------
(* Refinement. *)

\* The unread bytes, as the queue of BoundedFifo sees them: the next stretch
\* of the stream, wherever in the buffer it lies.
Stretch == [i \in 1..(produced - consumed) |-> base + consumed + i - 1]

LEMMA UnreadIs == IInv => Unread = Stretch
  <1> USE DEF IInv
  <1> SUFFICES ASSUME IInv, NEW i \in 1..(produced - consumed)
               PROVE  buf[Offset(tail, i - 1, cap)] = base + consumed + i - 1
    BY DEF Unread, Stretch
  <1>1. PICK k \in Int : k = consumed + i - 1
    BY DEF TypeOK
  <1>2. k \in consumed..produced-1 /\ cap # 0
    BY <1>1, CapacityFacts DEF TypeOK, CountersCount
  <1>3. PICK j \in Int : j = i - 1
    OBVIOUS
  <1>4. consumed + j = k /\ consumed \in Int
    BY <1>1, <1>3 DEF TypeOK
  <1>5. Offset(tail, j, cap) = k % cap
    BY <1>2, <1>4, CapacityFacts, MaskedCounts DEF CountersCount
  <1>6. buf[k % cap] = base + k
    BY <1>2 DEF UnreadIntact
  <1>7. QED
    BY <1>1, <1>3, <1>5, <1>6 DEF TypeOK

LEMMA UnreadIsNext == (IInv => Unread = Stretch)'
  BY UnreadIs, PTL

LEMMA StretchIsSeq ==
    ASSUME IInv
    PROVE  Stretch \in Seq(Nat) /\ Len(Stretch) = produced - consumed
  BY DEF IInv, TypeOK, CountersCount, Stretch

\* Every step of the ring is a Put, Call, Get or Flush of the queue, or
\* leaves queue and result alone.
LEMMA StepRefines ==
    ASSUME IInv, IInv', [Next]_vars
    PROVE  [Fifo!Next]_<<cap, Unread, IF rpc = "idle" THEN dst ELSE <<>>>>
  <1> DEFINE out == IF rpc = "idle" THEN dst ELSE <<>>
  <1>0. Unread = Stretch /\ Unread' = Stretch'
    BY UnreadIs, UnreadIsNext
  <1>1. CASE WriteBegin \/ WriteByte
    <2>1. Stretch' = Stretch /\ cap' = cap /\ out' = out
      BY <1>1 DEF WriteBegin, WriteByte, Stretch, ring, read, hist
    <2>2. QED
      BY <1>0, <2>1
  <1>2. CASE WriteEnd
    <2>1. cap' = cap /\ out' = out
      BY <1>2 DEF WriteEnd, read
    <2>2. PICK m \in Nat : m = produced + wn - consumed
      BY DEF IInv, TypeOK, CountersCount
    <2>3. m <= cap /\ m >= produced - consumed + 1 /\ produced' - consumed' = m
      BY <1>2, <2>2 DEF WriteEnd, IInv, TransfersFit, TypeOK
    <2>4. Stretch' = [i \in 1..m |-> base + consumed + i - 1]
      BY <1>2, <2>3 DEF WriteEnd, Stretch
    <2>5. Stretch' \in Seq(Nat) /\ Len(Stretch') = m
      BY <2>4 DEF IInv, TypeOK
    <2>6. SubSeq(Stretch', 1, Len(Stretch)) = Stretch
      <3>1. PICK l \in Nat : l = produced - consumed
        BY DEF IInv, TypeOK, CountersCount
      <3>2. Stretch = [i \in 1..l |-> base + consumed + i - 1] /\ l <= m
        BY <2>3, <3>1 DEF Stretch
      <3>3. Len(Stretch) = l
        BY <3>1, StretchIsSeq
      <3>4. SubSeq(Stretch', 1, l) = [i \in 1..l |-> Stretch'[i]]
        BY <2>5, <3>2
      <3>5. \A i \in 1..l : Stretch'[i] = base + consumed + i - 1
        BY <2>4, <3>2
      <3>6. QED
        BY <3>2, <3>3, <3>4, <3>5
    <2>7. Fifo!Put
      <3>1. Len(Stretch') \in Len(Stretch)+1..cap
        <4>1. PICK l \in Nat : l = produced - consumed
          BY DEF IInv, TypeOK, CountersCount
        <4>2. Len(Stretch) = l /\ m >= l + 1
          BY <2>3, <4>1, StretchIsSeq
        <4>3. cap \in Nat
          BY CapacityFacts DEF IInv
        <4>4. QED
          BY <2>3, <2>5, <4>2, <4>3
      <3>2. QED
        BY <1>0, <2>1, <2>5, <2>6, <3>1 DEF Fifo!Put
    <2>8. QED
      BY <2>7 DEF Fifo!Next
  <1>3. CASE ReadBegin
    <2>1. Stretch' = Stretch /\ cap' = cap /\ out' = <<>>
      BY <1>3 DEF ReadBegin, Stretch, ring, hist
    <2>2. QED
      BY <1>0, <2>1 DEF Fifo!Next, Fifo!Call
  <1>4. CASE ReadByte
    <2>1. Stretch' = Stretch /\ cap' = cap /\ out' = out
      BY <1>4 DEF ReadByte, Stretch, ring, hist
    <2>2. QED
      BY <1>0, <2>1
  <1>5. CASE ReadEnd
    <2>1. cap' = cap /\ out = <<>> /\ out' = dst
      BY <1>5 DEF ReadEnd
    <2>2. rn \in 1..(produced - consumed) /\ Len(dst) = rn
      BY <1>5 DEF ReadEnd, IInv, TransfersFit, TypeOK
    <2>3. dst = SubSeq(Stretch, 1, rn)
      BY <1>5, <2>2 DEF ReadEnd, ReadsInOrder, Stretch, IInv, TypeOK
    <2>4. Stretch' = [i \in 1..(produced - (consumed + rn)) |-> base + (consumed + rn) + i - 1]
      BY <1>5 DEF ReadEnd, Stretch
    <2>5. Stretch' = SubSeq(Stretch, rn + 1, Len(Stretch))
      <3>1. PICK l \in Nat : l = produced - consumed
        BY DEF IInv, TypeOK, CountersCount
      <3>2. Stretch = [i \in 1..l |-> base + consumed + i - 1] /\ rn <= l
        BY <2>2, <3>1 DEF Stretch
      <3>3. Len(Stretch) = l /\ Stretch \in Seq(Nat)
        BY <3>1, StretchIsSeq
      <3>4. SubSeq(Stretch, rn + 1, l) = [i \in 1..(l - rn) |-> Stretch[rn + i]]
        BY <2>2, <3>2, <3>3
      <3>5. \A i \in 1..(l - rn) : Stretch[rn + i] = base + (consumed + rn) + i - 1
        BY <2>2, <3>2 DEF IInv, TypeOK
      <3>6. Stretch' = [i \in 1..(l - rn) |-> base + (consumed + rn) + i - 1]
        <4>1. produced - (consumed + rn) = l - rn
          BY <2>2, <3>1 DEF IInv, TypeOK
        <4>2. QED
          BY <2>4, <4>1
      <3>7. QED
        BY <3>3, <3>4, <3>5, <3>6
    <2>6. Fifo!Get
      BY <1>0, <2>1, <2>2, <2>3, <2>5, StretchIsSeq DEF Fifo!Get
    <2>7. QED
      BY <2>6 DEF Fifo!Next
  <1>6. CASE Reset
    <2>1. cap' = cap /\ out' = out
      BY <1>6 DEF Reset, read
    <2>2. Stretch' = <<>>
      BY <1>6 DEF Reset, Stretch
    <2>3. QED
      BY <1>0, <2>1, <2>2 DEF Fifo!Next, Fifo!Flush
  <1>7. CASE UNCHANGED vars
    <2>1. Stretch' = Stretch /\ cap' = cap /\ out' = out
      BY <1>7 DEF vars, Stretch, ring, read, hist
    <2>2. QED
      BY <1>0, <2>1
  <1>8. QED
    BY <1>1, <1>2, <1>3, <1>4, <1>5, <1>6, <1>7 DEF Next

\* The ring implements a bounded FIFO queue: for every capacity, whatever the
\* two sides interleave, the callers see bytes put at one end and taken, whole
\* and in order, from the other.
THEOREM Refinement == Spec => ImplementsFifo
  <1>1. Init => Fifo!Init
    <2>1. Init => Unread = <<>>
      BY DEF Init, Unread
    <2>2. QED
      BY <2>1, InitEstablishes, CapacityFacts DEF Init, IInv, Fifo!Init
  <1>2. IInv /\ IInv' /\ [Next]_vars
          => [Fifo!Next]_<<cap, Unread, IF rpc = "idle" THEN dst ELSE <<>>>>
    BY StepRefines
  <1>3. QED
    BY <1>1, <1>2, Invariance, PTL DEF Spec, ImplementsFifo, Fifo!Spec

-----------------------------------------------------------------------------
(* floor_pow2. *)

\* What doubling makes of p, any number of times.
Doubles(p) == {q \in Nat : \A S : p \in S /\ (\A r \in S : 2 * r \in S) => q \in S}

PowersOfTwo == Doubles(1)

LEMMA DoublesGrow ==
    ASSUME NEW p \in Nat \ {0}
    PROVE  /\ p \in Doubles(p) /\ \A q \in Doubles(p) : 2 * q \in Doubles(p)
           /\ Doubles(p) \subseteq Nat
<1>1. ASSUME NEW q \in Doubles(p) PROVE 2 * q \in Doubles(p)
  <2>1. q \in Nat /\ 2 * q \in Nat
    BY DEF Doubles
  <2>2. ASSUME NEW S, p \in S, \A r \in S : 2 * r \in S PROVE 2 * q \in S
    <3>1. q \in S
      BY <2>2, Zenon DEF Doubles
    <3> QED
      BY <2>2, <3>1
  <2> QED
    BY <2>1, <2>2, Zenon DEF Doubles
<1> QED
  BY <1>1 DEF Doubles

\* What p has and doubling keeps, all doubles of p have.
LEMMA DoublesInduction ==
    ASSUME NEW p \in Nat \ {0}, NEW S, p \in S, \A r \in S : 2 * r \in S
    PROVE  Doubles(p) \subseteq S
BY Zenon DEF Doubles

\* A double of p is p or twice a double of p; between one and the next there is none.
LEMMA DoublesApart ==
    ASSUME NEW p \in Nat \ {0}
    PROVE  /\ \A q \in Doubles(p) : p <= q
           /\ \A q \in Doubles(p) : q = p \/ \E r \in Doubles(p) : q = 2 * r
           /\ \A q, r \in Doubles(p) : r < q => 2 * r <= q
<1> USE DoublesGrow
<1> DEFINE D == Doubles(p)
           S == {q \in D : p <= q /\ (q = p \/ \E r \in D : q = 2 * r)}
           T == {q \in D : \A r \in D : r < q => 2 * r <= q}
<1>1. D \subseteq S
  <2>1. p \in S
    OBVIOUS
  <2>2. ASSUME NEW r \in S PROVE 2 * r \in S
    <3>1. r \in D /\ r \in Nat /\ p <= r /\ 2 * r \in D
      OBVIOUS
    <3>2. p <= 2 * r
      BY <3>1
    <3> QED
      BY <3>1, <3>2
  <2> HIDE DEF S
  <2> QED
    BY <2>1, <2>2, DoublesInduction
<1>2. D \subseteq T
  <2>1. p \in T
    BY <1>1
  <2>2. ASSUME NEW q \in T PROVE 2 * q \in T
    <3>1. q \in D /\ q \in Nat /\ 2 * q \in D /\ p <= q
      BY <1>1
    <3>2. ASSUME NEW r \in D, r < 2 * q PROVE 2 * r <= 2 * q
      <4>1. CASE r = p
        BY <3>1, <4>1
      <4>2. ASSUME NEW s \in D, r = 2 * s PROVE 2 * r <= 2 * q
        <5>1. s \in Nat /\ s < q
          BY <3>1, <3>2, <4>2
        <5>2. 2 * s <= q
          BY <5>1
        <5> QED
          BY <3>1, <4>2, <5>1, <5>2
      <4> QED
        BY <1>1, <4>1, <4>2
    <3> QED
      BY <3>1, <3>2
  <2> HIDE DEF T
  <2> QED
    BY <2>1, <2>2, DoublesInduction
<1> QED
  BY <1>1, <1>2

\* The doubles of 2p are doubles of p.
LEMMA DoublesOfDouble ==
    ASSUME NEW p \in Nat \ {0} PROVE Doubles(2 * p) \subseteq Doubles(p)
<1>1. 2 * p \in Nat \ {0} /\ 2 * p \in Doubles(p) /\ \A r \in Doubles(p) : 2 * r \in Doubles(p)
  BY DoublesGrow
<1> QED
  BY <1>1, DoublesInduction

\* q is where the doubling of p stops for n.
Last(n, q) == q <= n /\ n < 2 * q

\* It stops, and in one place.
LEMMA LastDouble ==
    ASSUME NEW n \in Nat, NEW p \in 1..n
    PROVE  /\ \E q \in Doubles(p) : Last(n, q)
           /\ \A q, r \in Doubles(p) : Last(n, q) /\ Last(n, r) => q = r
<1>0. p \in Nat \ {0}
  OBVIOUS
<1>1. /\ p \in Doubles(p) /\ \A q \in Doubles(p) : 2 * q \in Doubles(p)
      /\ Doubles(p) \subseteq Nat
  BY <1>0, DoublesGrow
<1>2. \A q, r \in Doubles(p) : r < q => 2 * r <= q
  BY <1>0, DoublesApart
<1>3. \A q \in Doubles(p) : p <= q
  BY <1>0, DoublesApart
<1>4. \E q \in Doubles(p) : Last(n, q)
  <2> DEFINE Left == {n - q : q \in {r \in Doubles(p) : r <= n}}
  <2>1. Left \subseteq Nat /\ n - p \in Left
    BY <1>1
  <2>2. PICK m \in Left : \A k \in Left : m <= k
    <3> HIDE DEF Left
    <3> QED
      BY <2>1, LeastExists
  <2>3. PICK q \in Doubles(p) : q <= n /\ m = n - q
    OBVIOUS
  <2>4. n < 2 * q
    <3> SUFFICES ASSUME 2 * q <= n PROVE FALSE
      BY <1>1
    <3>1. n - 2 * q \in Left
      BY <1>1
    <3>2. q \in Nat /\ q >= 1
      BY <1>1, <1>3
    <3>3. m <= n - 2 * q
      BY <2>2, <3>1
    <3> QED
      BY <2>3, <3>2, <3>3
  <2> QED
    BY <2>3, <2>4 DEF Last
<1>5. ASSUME NEW q \in Doubles(p), NEW r \in Doubles(p), Last(n, q), Last(n, r) PROVE q = r
  <2>1. q \in Nat /\ r \in Nat
    BY <1>1
  <2>2. ~(r < q) /\ ~(q < r)
    BY <1>2, <1>5, <2>1 DEF Last
  <2> QED
    BY <2>1, <2>2
<1> QED
  BY <1>4, <1>5

\* The loop of floor_pow2(), as a function of where it is: there is one that does as
\* its body says, and every one that does stops at the last double.
Looped(n, d) == d = [p \in 1..n |-> IF p <= n \div 2 THEN d[2 * p] ELSE p]

LEMMA HalfIs ==
    ASSUME NEW n \in Nat, NEW p \in Nat
    PROVE  p <= n \div 2 <=> 2 * p <= n
OBVIOUS

LEMMA LoopExists ==
    ASSUME NEW n \in Nat PROVE \E d : Looped(n, d)
<1> DEFINE Stop(p) == CHOOSE q \in Doubles(p) : Last(n, q)
           d == [p \in 1..n |-> Stop(p)]
<1>1. ASSUME NEW p \in 1..n PROVE Stop(p) \in Doubles(p) /\ Last(n, Stop(p))
  BY LastDouble
<1>2. ASSUME NEW p \in 1..n, p <= n \div 2 PROVE Stop(p) = Stop(2 * p) /\ 2 * p \in 1..n
  <2>1. 2 * p \in 1..n /\ p \in Nat \ {0}
    BY <1>2, HalfIs
  <2>2. Stop(2 * p) \in Doubles(p)
    BY <1>1, <2>1, DoublesOfDouble
  <2>3. /\ Stop(p) \in Doubles(p) /\ Last(n, Stop(p))
        /\ Last(n, Stop(2 * p))
    BY <1>1, <2>1
  <2> HIDE DEF Stop
  <2> QED
    BY <2>1, <2>2, <2>3, LastDouble
<1>3. ASSUME NEW p \in 1..n, ~(p <= n \div 2) PROVE Stop(p) = p
  <2>1. p \in Doubles(p) /\ Last(n, p)
    BY <1>3, HalfIs, DoublesGrow DEF Last
  <2>2. Stop(p) \in Doubles(p) /\ Last(n, Stop(p))
    BY <1>1
  <2> HIDE DEF Stop
  <2> QED
    BY <2>1, <2>2, LastDouble
<1>4. d = [p \in 1..n |-> IF p <= n \div 2 THEN d[2 * p] ELSE p]
  <2> HIDE DEF Stop
  <2>1. ASSUME NEW p \in 1..n PROVE Stop(p) = IF p <= n \div 2 THEN d[2 * p] ELSE p
    BY <1>2, <1>3
  <2> QED
    BY <2>1
<1> HIDE DEF d
<1> QED
  BY <1>4 DEF Looped

LEMMA LoopStops ==
    ASSUME NEW n \in Nat, NEW d, Looped(n, d), NEW p \in 1..n
    PROVE  d[p] \in Doubles(p) /\ Last(n, d[p])
<1> DEFINE Good(q) == d[q] \in Doubles(q) /\ Last(n, d[q])
           Bad == {n - q : q \in {r \in 1..n : ~Good(r)}}
<1>1. ASSUME NEW q \in 1..n PROVE d[q] = IF q <= n \div 2 THEN d[2 * q] ELSE q
  BY DEF Looped
<1>2. Bad = {}
  <2> SUFFICES ASSUME Bad # {} PROVE FALSE
    OBVIOUS
  <2>1. Bad \subseteq Nat
    OBVIOUS
  <2>2. PICK m \in Bad : \A k \in Bad : m <= k
    <3> HIDE DEF Bad
    <3> QED
      BY <2>1, LeastExists
  <2>3. PICK q \in 1..n : ~Good(q) /\ m = n - q
    OBVIOUS
  <2> HIDE DEF Good
  <2>4. CASE q <= n \div 2
    <3>1. 2 * q \in 1..n /\ q \in Nat \ {0} /\ n - 2 * q < n - q
      BY <2>4, HalfIs
    <3>2. Good(2 * q)
      <4> SUFFICES ASSUME ~Good(2 * q) PROVE FALSE
        OBVIOUS
      <4>1. n - 2 * q \in Bad
        BY <3>1
      <4>2. m <= n - 2 * q
        BY <2>2, <4>1
      <4> QED
        BY <2>3, <3>1, <4>2
    <3>3. d[q] = d[2 * q]
      BY <1>1, <2>4
    <3>4. Good(q)
      BY <3>1, <3>2, <3>3, DoublesOfDouble DEF Good
    <3> QED
      BY <2>3, <3>4
  <2>5. CASE ~(q <= n \div 2)
    <3>1. d[q] = q
      BY <1>1, <2>5
    <3>2. q \in Doubles(q) /\ Last(n, q)
      BY <2>5, HalfIs, DoublesGrow DEF Last
    <3> QED
      BY <2>3, <3>1, <3>2 DEF Good
  <2> QED
    BY <2>4, <2>5
<1> QED
  BY <1>2

\* init() rounds the size it is given down to the largest power of two there is
\* (spsc_ring.h:33-38), for every size.
THEOREM FloorPow2Largest ==
    /\ FloorPow2(0) = 0
    /\ \A n \in Nat \ {0} : /\ FloorPow2(n) \in PowersOfTwo /\ FloorPow2(n) <= n
                            /\ \A p \in PowersOfTwo : p <= n => p <= FloorPow2(n)
<1>1. FloorPow2(0) = 0
  BY DEF FloorPow2
<1>2. ASSUME NEW n \in Nat \ {0}
      PROVE  /\ FloorPow2(n) \in PowersOfTwo /\ FloorPow2(n) <= n
             /\ \A p \in PowersOfTwo : p <= n => p <= FloorPow2(n)
  <2>1. PICK d : d = CHOOSE e : Looped(n, e)
    OBVIOUS
  <2>2. Looped(n, d)
    BY <2>1, LoopExists
  <2>3. FloorPow2(n) = d[1]
    BY <2>1 DEF FloorPow2, Looped
  <2>4. d[1] \in PowersOfTwo /\ Last(n, d[1])
    BY <2>2, LoopStops DEF PowersOfTwo
  <2>5. PowersOfTwo \subseteq Nat /\ \A q, r \in PowersOfTwo : r < q => 2 * r <= q
    BY DoublesGrow, DoublesApart DEF PowersOfTwo
  <2>6. PICK f \in PowersOfTwo : f = FloorPow2(n) /\ f <= n /\ n < 2 * f
    BY <2>3, <2>4 DEF Last
  <2>7. ASSUME NEW p \in PowersOfTwo, p <= n PROVE p <= f
    BY <2>5, <2>6, <2>7
  <2> QED
    BY <2>6, <2>7
<1> QED
  BY <1>1, <1>2

\* A power of two divides every one that is not below it.
LEMMA PowersDivide ==
    ASSUME NEW p \in PowersOfTwo, NEW q \in PowersOfTwo, p <= q PROVE Divides(p, q)
<1> USE DEF PowersOfTwo
<1>0. /\ 1 \in PowersOfTwo /\ \A r \in PowersOfTwo : 2 * r \in PowersOfTwo /\ r \in Nat /\ 1 <= r
      /\ \A s, r \in PowersOfTwo : r < s => 2 * r <= s
  BY DoublesGrow, DoublesApart
<1> DEFINE S == {r \in PowersOfTwo : p <= r => \E m \in Nat \ {0} : r = m * p}
<1>1. 1 \in S
  BY <1>0
<1>2. ASSUME NEW r \in S PROVE 2 * r \in S
  <2>1. r \in PowersOfTwo /\ 2 * r \in PowersOfTwo /\ r \in Nat /\ p \in Nat
    BY <1>0
  <2>2. ASSUME p <= 2 * r PROVE \E m \in Nat \ {0} : 2 * r = m * p
    <3>1. CASE p = 2 * r
      BY <2>1, <3>1
    <3>2. CASE p < 2 * r
      <4>1. p <= r
        BY <1>0, <2>1, <3>2
      <4>2. PICK m \in Nat \ {0} : r = m * p
        BY <4>1
      <4>3. 2 * m \in Nat \ {0} /\ 2 * r = (2 * m) * p
        BY <2>1, <4>2
      <4> QED
        BY <4>3
    <3> QED
      BY <2>1, <2>2, <3>1, <3>2
  <2> QED
    BY <2>1, <2>2
<1>3. q \in S
  <2> HIDE DEF S
  <2> QED
    BY <1>1, <1>2, DoublesInduction
<1>4. PICK m \in Nat \ {0} : q = m * p
  BY <1>3
<1>5. m <= q
  <2>1. p \in Nat /\ q \in Nat /\ 1 <= p
    BY <1>0
  <2> QED
    BY <1>4, <2>1, Z3
<1> QED
  BY <1>0, <1>4, <1>5 DEF Divides

\* Counters of a power of two, as uint32_t are, wrap in step with every capacity that
\* init() can choose below it: what the module assumes of its sizes (RingAssumption)
\* the rounding provides.
THEOREM CapacitiesDivide ==
    ASSUME CounterModulus \in PowersOfTwo
    PROVE  \A n \in 0..CounterModulus-1 :
               LET c == FloorPow2(n)
               IN  c \in Nat /\ (c # 0 => c < CounterModulus /\ Divides(c, CounterModulus))
<1>1. CounterModulus \in Nat /\ \A p \in PowersOfTwo : p \in Nat
  BY DoublesGrow DEF PowersOfTwo
<1>2. ASSUME NEW n \in 1..CounterModulus-1
      PROVE  /\ FloorPow2(n) \in Nat /\ FloorPow2(n) < CounterModulus
             /\ Divides(FloorPow2(n), CounterModulus)
  <2>1. n \in Nat \ {0} /\ n < CounterModulus
    BY <1>1
  <2>2. PICK c \in PowersOfTwo : c = FloorPow2(n) /\ c <= n
    BY <2>1, FloorPow2Largest
  <2>3. c \in Nat /\ c < CounterModulus
    BY <1>1, <2>1, <2>2
  <2>4. Divides(c, CounterModulus)
    BY <1>1, <2>2, <2>3, PowersDivide
  <2> QED
    BY <2>2, <2>3, <2>4
<1>3. FloorPow2(0) = 0
  BY FloorPow2Largest
<1> QED
  <2> SUFFICES ASSUME NEW n \in 0..CounterModulus-1
               PROVE  /\ FloorPow2(n) \in Nat
                      /\ FloorPow2(n) # 0 => /\ FloorPow2(n) < CounterModulus
                                             /\ Divides(FloorPow2(n), CounterModulus)
    OBVIOUS
  <2>1. CASE n = 0
    BY <1>3, <2>1
  <2>2. CASE n \in 1..CounterModulus-1
    BY <1>2, <2>2
  <2> QED
    BY <1>1, <2>1, <2>2
=============================================================================

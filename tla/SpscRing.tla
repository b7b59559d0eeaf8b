------------------------------ MODULE SpscRing ------------------------------
(***************************************************************************)
(* SpscRing (src/memory/spsc_ring.h): the single-producer single-consumer  *)
(* byte ring between the audio interrupt and the main loop.                *)
(*                                                                         *)
(* A write is three kinds of step: WriteBegin loads both counters and      *)
(* fixes how many bytes go in, WriteByte copies one byte, WriteEnd stores  *)
(* the new head. A read mirrors it. The two sides interleave at every      *)
(* step, which is more than the device allows (an interrupt runs to its    *)
(* end) and exactly what the host tests' threads do.                       *)
(*                                                                         *)
(* A byte is its position in the producer's stream, so that a lost,        *)
(* repeated, stale or reordered byte is visible in the value that is read. *)
(* produced, consumed and base are history: the bytes published and        *)
(* consumed since the last reset, and the stream position of that reset.   *)
(***************************************************************************)
EXTENDS RingCounters, Sequences

CONSTANTS BufBytes,    \* buffer sizes init() may be given
          MaxChunk,    \* largest transfer a caller asks for
          MaxStream    \* bound: the producer offers positions below this one

Capacities == {FloorPow2(n) : n \in BufBytes}

(***************************************************************************)
(* Every capacity init() can choose divides the counters' modulus with     *)
(* room to spare: floor_pow2 of a uint32_t is at most 2^31, against 2^32.  *)
(***************************************************************************)
ASSUME RingAssumption ==
    /\ CounterModulus \in Nat \ {0}
    /\ BufBytes \subseteq Nat
    /\ MaxChunk \in Nat
    /\ MaxStream \in Nat
    /\ \A c \in Capacities :
          /\ c \in Nat
          /\ c # 0 => c < CounterModulus /\ Divides(c, CounterModulus)

VARIABLES
    bytes,      \* the capacity argument of init()
    cap,        \* _cap
    head,       \* _head, stored by the producer only
    tail,       \* _tail, stored by the consumer only
    buf,        \* _buf
    wpc,        \* where the producer is in write()
    wn,         \* write(): bytes this call puts in
    wi,         \* write(): bytes copied so far
    rpc,        \* where the consumer is in read()
    rn,         \* read(): bytes this call takes out
    dst,        \* read(): the caller's buffer, as far as it is filled
    produced, consumed, base

ring  == <<bytes, cap, head, tail, buf>>
write == <<wpc, wn, wi>>
read  == <<rpc, rn, dst>>
hist  == <<produced, consumed, base>>
vars  == <<ring, write, read, hist>>

Empty == -1    \* content of a cell nothing was written to yet

Init ==
    /\ bytes \in BufBytes
    /\ cap = FloorPow2(bytes)
    /\ head = 0 /\ tail = 0
    /\ buf = [i \in 0..cap-1 |-> Empty]
    /\ wpc = "idle" /\ wn = 0 /\ wi = 0
    /\ rpc = "idle" /\ rn = 0 /\ dst = <<>>
    /\ produced = 0 /\ consumed = 0 /\ base = 0

-----------------------------------------------------------------------------
(* The producer. *)

\* mutant: the transfer is not cut to the free space
WriteBeginUncut ==
    /\ wpc = "idle" /\ wpc' = "copy"
    /\ \E n \in 1..cap : wn' = n /\ base + produced + n <= MaxStream
    /\ wi' = 0
    /\ UNCHANGED <<ring, read, hist>>

\* Load head and tail; the transfer is cut to the space there is now. A call
\* that finds no room returns 0 and changes nothing.
WriteBegin ==
    /\ wpc = "idle"
    /\ \E n \in 1..MaxChunk :
          /\ wn' = Least(n, Writable(cap, head, tail))
          /\ base + produced + wn' <= MaxStream
    /\ wn' # 0
    /\ wpc' = "copy"
    /\ wi' = 0
    /\ UNCHANGED <<ring, read, hist>>

WriteByte ==
    /\ wpc = "copy"
    /\ wi < wn
    /\ buf' = [buf EXCEPT ![Offset(head, wi, cap)] = base + produced + wi]
    /\ wi' = wi + 1
    /\ UNCHANGED <<bytes, cap, head, tail, wpc, wn, read, hist>>

\* mutant: the head is stored before the bytes are in place
WriteEndEarly ==
    /\ wpc = "copy" /\ wpc' = "idle"
    /\ head' = Plus(head, wn)
    /\ produced' = produced + wn
    /\ UNCHANGED <<bytes, cap, tail, buf, wn, wi, read, consumed, base>>

\* _head.store(head + n, release)
WriteEnd ==
    /\ wpc = "copy"
    /\ wi = wn
    /\ head' = Plus(head, wn)
    /\ produced' = produced + wn
    /\ wpc' = "idle"
    /\ UNCHANGED <<bytes, cap, tail, buf, wn, wi, read, consumed, base>>

-----------------------------------------------------------------------------
(* The consumer. *)

\* mutant: the transfer is not cut to what is readable
ReadBeginUncut ==
    /\ rpc = "idle" /\ rpc' = "copy"
    /\ rn' \in 1..cap
    /\ dst' = <<>>
    /\ UNCHANGED <<ring, write, hist>>

ReadBegin ==
    /\ rpc = "idle"
    /\ \E n \in 1..MaxChunk : rn' = Least(n, Readable(head, tail))
    /\ rn' # 0
    /\ rpc' = "copy"
    /\ dst' = <<>>
    /\ UNCHANGED <<ring, write, hist>>

ReadByte ==
    /\ rpc = "copy"
    /\ Len(dst) < rn
    /\ dst' = Append(dst, buf[Offset(tail, Len(dst), cap)])
    /\ UNCHANGED <<ring, write, rpc, rn, hist>>

\* mutant: the tail is stored before the bytes are copied out
ReadEndEarly ==
    /\ rpc = "copy" /\ rpc' = "idle"
    /\ tail' = Plus(tail, rn)
    /\ consumed' = consumed + rn
    /\ UNCHANGED <<bytes, cap, head, buf, write, rn, dst, produced, base>>

\* _tail.store(tail + n, release)
ReadEnd ==
    /\ rpc = "copy"
    /\ Len(dst) = rn
    /\ tail' = Plus(tail, rn)
    /\ consumed' = consumed + rn
    /\ rpc' = "idle"
    /\ UNCHANGED <<bytes, cap, head, buf, write, rn, dst, produced, base>>

-----------------------------------------------------------------------------
\* reset(), as PlayStream::start and RecordStream::start call it: both sides
\* are outside the ring. Whatever was unread is forgotten.
Reset ==
    /\ wpc = "idle" /\ rpc = "idle"
    /\ head' = 0 /\ tail' = 0
    /\ base' = base + produced
    /\ produced' = 0 /\ consumed' = 0
    /\ UNCHANGED <<bytes, cap, buf, write, read>>

Next ==
    \/ WriteBegin \/ WriteByte \/ WriteEnd
    \/ ReadBegin \/ ReadByte \/ ReadEnd
    \/ Reset

(***************************************************************************)
(* Both contexts keep running: a transfer that was begun is completed, and *)
(* the consumer comes back as long as there is something to read (the      *)
(* audio interrupt is periodic; the main loop calls the pump every pass).  *)
(***************************************************************************)
Fairness ==
    /\ WF_vars(WriteByte \/ WriteEnd)
    /\ WF_vars(ReadBegin) /\ WF_vars(ReadByte \/ ReadEnd)

Spec == Init /\ [][Next]_vars /\ Fairness

-----------------------------------------------------------------------------
\* Types of the variables of spsc_ring.h and of the two calls in flight.
TypeOK ==
    /\ bytes \in BufBytes
    /\ cap \in Capacities
    /\ head \in 0..CounterModulus-1 /\ tail \in 0..CounterModulus-1
    /\ buf \in [0..cap-1 -> Nat \cup {Empty}]
    /\ wpc \in {"idle", "copy"} /\ wn \in Nat /\ wi \in 0..wn
    /\ rpc \in {"idle", "copy"} /\ rn \in Nat
    /\ dst \in Seq(Nat \cup {Empty}) /\ Len(dst) <= rn
    /\ produced \in Nat /\ consumed \in Nat /\ base \in Nat

\* The occupancy the counters show is the number of unread bytes, whatever
\* wrap-around they went through, and it never exceeds the capacity.
OccupancyExact ==
    /\ consumed <= produced
    /\ produced - consumed <= cap
    /\ Readable(head, tail) = produced - consumed
    /\ Writable(cap, head, tail) = cap - (produced - consumed)

\* Every published and unread byte is still in its cell: a write in progress,
\* at any point of its copy, overwrites only cells the consumer is done with.
UnreadIntact ==
    \A k \in consumed..produced-1 : buf[k % cap] = base + k

\* What a read has copied so far is the next stretch of the producer's
\* stream: no byte is lost, repeated, reordered, stale or half-written.
ReadsInOrder ==
    rpc = "copy" => \A i \in 1..Len(dst) : dst[i] = base + consumed + i - 1

\* The strengthening that makes the invariants above inductive: the
\* atomic counters count what was published and consumed, a transfer in
\* progress stays within the room (the data) there was when it began, and what
\* a write has copied so far lies right behind the published bytes.
CountersCount ==
    /\ head = produced % CounterModulus
    /\ tail = consumed % CounterModulus
    /\ consumed <= produced
    /\ produced - consumed <= cap

TransfersFit ==
    /\ wpc = "copy" => wn >= 1 /\ produced + wn - consumed <= cap
    /\ rpc = "copy" => rn >= 1 /\ consumed + rn <= produced

CopiedInPlace ==
    wpc = "copy" =>
        \A k \in produced..produced+wi-1 : buf[k % cap] = base + k

IInv == /\ TypeOK /\ CountersCount /\ TransfersFit
        /\ CopiedInPlace /\ UnreadIntact /\ ReadsInOrder

\* A published byte is eventually consumed, or dropped by a reset.
EventuallyRead ==
    \A p \in 0..MaxStream-1 :
        (base + produced > p) ~> (base + consumed > p \/ base > p)

-----------------------------------------------------------------------------
(* The ring implements a bounded FIFO: a write takes effect when it stores *)
(* the head, a read when it stores the tail.                               *)

Unread == [i \in 1..(produced - consumed) |->
              buf[Offset(tail, i - 1, cap)]]

Fifo == INSTANCE BoundedFifo WITH
            Byte <- Nat, bound <- cap, queue <- Unread,
            out <- IF rpc = "idle" THEN dst ELSE <<>>

\* Refinement: what the callers of write(), read() and reset() see is a FIFO.
ImplementsFifo == Fifo!Spec
=============================================================================

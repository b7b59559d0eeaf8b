---------------------------- MODULE RingCounters ----------------------------
(***************************************************************************)
(* The counter arithmetic of SpscRing (src/memory/spsc_ring.h): the head   *)
(* and tail are free-running uint32_t counters, so a difference is taken   *)
(* modulo 2^32 and a buffer index is the counter masked by the capacity.   *)
(* CounterModulus stands for 2^32; a small model uses a small multiple of  *)
(* the capacity so that the counters really wrap.                          *)
(***************************************************************************)
EXTENDS Integers

CONSTANT CounterModulus

Divides(c, n) == \E m \in 1..n : n = m * c

Plus(a, b)  == (a + b) % CounterModulus
Minus(a, b) == (a - b) % CounterModulus

\* mutant: one byte is always left behind
ReadableShort(head, tail) ==
    IF head = tail THEN 0 ELSE Minus(Minus(head, tail), 1)

\* readable(): head - tail on the free-running counters.
Readable(head, tail) == Minus(head, tail)

\* writable(): capacity minus the occupancy.
Writable(cap, head, tail) == Minus(cap, Minus(head, tail))

\* counter & (cap - 1), for a capacity that is a power of two.
Masked(counter, cap) == counter % cap

\* The offset of the i-th byte of a transfer that starts at counter: the first
\* memcpy runs up to the end of the buffer, the second continues at offset 0.
Offset(counter, i, cap) == (Masked(counter, cap) + i) % cap

\* The largest power of two that is at most n, by doubling; 0 for n = 0.
FloorPow2(n) ==
    LET double[p \in 1..n] == IF p <= n \div 2 THEN double[2 * p] ELSE p
    IN  IF n = 0 THEN 0 ELSE double[1]

Least(a, b) == IF a <= b THEN a ELSE b
=============================================================================

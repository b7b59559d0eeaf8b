----------------------------- MODULE MCSpscRing -----------------------------
(***************************************************************************)
(* SpscRing with counters modulo 8 and buffers of 0 to 4 bytes, sizes that *)
(* are no power of two included: the counters wrap several times within    *)
(* MaxStream bytes, and the ring is empty, full and wrapped mid-transfer.  *)
(***************************************************************************)
EXTENDS SpscRing

MCBufBytes == 0..5

\* init() rounds the size it is given down to the largest power of two there is
\* (spsc_ring.h:43-49): the doubling loop agrees with the definition.
ASSUME FloorPow2IsLargest ==
    /\ FloorPow2(0) = 0
    /\ \A n \in 1..64 : LET p == FloorPow2(n)
                        IN  p <= n /\ n < 2 * p /\ \E k \in 0..6 : p = 2^k
=============================================================================

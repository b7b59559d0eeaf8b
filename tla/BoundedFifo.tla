----------------------------- MODULE BoundedFifo -----------------------------
(***************************************************************************)
(* What a ring promises: a first-in first-out queue of at most bound       *)
(* bytes. A Put appends some bytes that fit, a Get takes some bytes from   *)
(* the front and hands them to the caller in order, a Flush forgets what   *)
(* is queued. out is the result of the last completed Get; Call begins the *)
(* next one.                                                               *)
(***************************************************************************)
EXTENDS Integers, Sequences

CONSTANT Byte

VARIABLES bound, queue, out

Init ==
    /\ bound \in Nat
    /\ queue = <<>> /\ out = <<>>

Put ==
    /\ Len(queue') \in Len(queue)+1..bound
    /\ queue' \in Seq(Byte)
    /\ SubSeq(queue', 1, Len(queue)) = queue
    /\ UNCHANGED <<bound, out>>

Call == out' = <<>> /\ UNCHANGED <<bound, queue>>

Get ==
    /\ out = <<>>
    /\ \E n \in 1..Len(queue) :
          /\ out' = SubSeq(queue, 1, n)
          /\ queue' = SubSeq(queue, n + 1, Len(queue))
    /\ UNCHANGED bound

Flush == queue' = <<>> /\ UNCHANGED <<bound, out>>

Next == Put \/ Call \/ Get \/ Flush

Spec == Init /\ [][Next]_<<bound, queue, out>>
=============================================================================

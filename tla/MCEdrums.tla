------------------------------ MODULE MCEdrums ------------------------------
\* The drum machine with patterns of up to four steps.
EXTENDS Edrums

MCFactory == [d \in Slots |-> [size |-> 4, pos |-> 0, env |-> 0, div |-> d + 1]]

\* Every knob of the first drum moves; the second, at half its pace, stays as it is.
MCSettings ==
    [d \in Slots |->
        IF d = 0 THEN {s \in [size : {2, 4}, pos : {0, 2}, env : {0, 3}, div : {1, 2}] :
                          (s.env = 3 => s.pos = 2) /\ (s.div = 2 => s.pos = 0 /\ s.size = 4)}
        ELSE {MCFactory[1]}]

\* The lengths and densities at which a pattern is not even.
Uneven == {p \in (1..16) \X (0..16) :
              p[2] <= p[1] /\ LET w == Build(p[1], p[2]) IN ~Even(w, p[1], p[2])}

\* The drum patterns the firmware can build are as even as can be, at each of its
\* lengths and densities (cpattern.cpp _build(): "distribute _onsets ones as evenly as
\* possible over the active _steps slots").
ASSUME EvenlySpread == Uneven = {}
=============================================================================

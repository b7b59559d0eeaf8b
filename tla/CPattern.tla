------------------------------ MODULE CPattern ------------------------------
(***************************************************************************)
(* The drum patterns of src/dsp/cpattern: k onsets spread over n steps,    *)
(* as a function from the steps, counted from 0, to 0 and 1.               *)
(***************************************************************************)
EXTENDS Integers, FiniteSetsExt

CONSTANT Size       \* kSize, the most steps a pattern has

ASSUME SizeAssumption == Size \in Nat \ {0, 1}

\* The two sums of _build() after each of its first n steps: the smaller grows.
Race(k, x, n) ==
    LET run[i \in 1..n] ==
            IF i = 1 THEN <<k, x>>
            ELSE LET r == run[i-1]
                 IN  IF r[1] > r[2] THEN <<r[1], r[2] + x>> ELSE <<r[1] + k, r[2]>>
    IN  run

\* _build(): the Christoffel word. Its cell begins with an onset, goes on by the
\* race of the two sums a and b until they meet, ends with a rest, and is repeated
\* when n and k have a common factor.
Build(n, k) ==
    LET x == n - k
        run == Race(k, x, n)
        stop == Min({i \in 1..n : run[i][1] = run[i][2]})
        cell == [i \in 0..stop |-> IF i = 0 \/ (i < stop /\ run[i][1] > run[i][2]) THEN 1 ELSE 0]
    IN  IF k = 0 THEN [i \in 0..n-1 |-> 0]
        ELSE IF k >= n THEN [i \in 0..n-1 |-> 1]
        ELSE [i \in 0..n-1 |-> cell[i % (stop + 1)]]

\* The onsets among the w steps from step i on, round the pattern.
Onsets(word, n, i, w) == Cardinality({j \in 0..w-1 : word[(i + j) % n] = 1})

\* As even as can be: nothing but onsets and rests, as many onsets as asked for, the
\* first step one of them, and any two stretches of the same length hold the same
\* number, give or take one.
Even(word, n, k) ==
    /\ word \in [0..n-1 -> {0, 1}]
    /\ Onsets(word, n, 0, n) = k
    /\ k > 0 => word[0] = 1
    /\ \A w \in 1..n, i \in 0..n-1 :
          Onsets(word, n, i, w) \in {Onsets(word, n, 0, w) + c : c \in {-1, 0, 1}}
=============================================================================

------------------------- MODULE ModularArithmetic --------------------------
(***************************************************************************)
(* Facts about remainders and divisors that the provers cannot see by      *)
(* themselves, because a product of two variables is in them, and          *)
(* induction over sets of natural numbers.                                 *)
(***************************************************************************)
EXTENDS Integers, WellFoundedInduction, TLAPS

\* The remainder is the only number below b that differs from a by a multiple
\* of b: what masking a counter relies on (spsc_ring.h:79, 103).
LEMMA RemainderUnique ==
    ASSUME NEW a \in Int, NEW b \in Nat \ {0}, NEW q \in Int, NEW r \in 0..b-1,
           a = b * q + r
    PROVE  a % b = r
  BY Z3

\* Every number is a multiple of b plus its remainder.
LEMMA Euclid ==
    ASSUME NEW a \in Int, NEW b \in Nat \ {0}
    PROVE  \E q \in Int, r \in 0..b-1 : a = b * q + r /\ a % b = r
  <1>1. a % b \in 0..b-1 /\ a \div b \in Int
    BY Z3
  <1>2. a = b * (a \div b) + (a % b)
    BY Z3
  <1>3. QED
    BY <1>1, <1>2

\* Two numbers less than b apart that leave the same remainder are equal.
LEMMA CellsDistinct ==
    ASSUME NEW c \in Nat \ {0}, NEW i \in Int, NEW j \in Int,
           i < j, j - i < c
    PROVE  i % c # j % c
  <1> SUFFICES ASSUME i % c = j % c PROVE FALSE
    OBVIOUS
  <1>1. PICK p \in Int, r \in 0..c-1 : i = c * p + r /\ i % c = r
    BY Euclid
  <1>2. PICK q \in Int, s \in 0..c-1 : j = c * q + s /\ j % c = s
    BY Euclid
  <1>3. j - i = c * (q - p)
    BY <1>1, <1>2
  <1>4. CASE q - p <= 0
    <2>1. c * (q - p) <= 0
      BY <1>4
    <2>2. QED
      BY <2>1, <1>3
  <1>5. CASE q - p >= 1
    <2>1. c * (q - p) >= c
      BY <1>5
    <2>2. QED
      BY <2>1, <1>3
  <1>6. QED
    BY <1>4, <1>5

\* x and y differ by a multiple of b.
Congruent(x, y, b) == \E k \in Int : x = y + b * k

LEMMA CongruentRemainders ==
    ASSUME NEW x \in Int, NEW y \in Int, NEW b \in Nat \ {0}, Congruent(x, y, b)
    PROVE  x % b = y % b
  <1>1. PICK q \in Int, r \in 0..b-1 : y = b * q + r /\ y % b = r
    BY Euclid
  <1>2. PICK k \in Int : x = y + b * k
    BY DEF Congruent
  <1>3. PICK u \in Int : u = q + k
    OBVIOUS
  <1>4. b * u = b * q + b * k
    BY <1>3
  <1>5. x = b * u + r
    BY <1>1, <1>2, <1>4
  <1>6. x % b = r
    BY <1>5, RemainderUnique
  <1>7. QED
    BY <1>1, <1>6

\* Counting on from a remainder is counting on from the number itself.
LEMMA RemainderCounts ==
    ASSUME NEW c \in Nat \ {0}, NEW r \in Int, NEW t \in Int, NEW i \in Int,
           Congruent(t, r, c)
    PROVE  ((r % c) + i) % c = (t + i) % c
  <1>1. PICK p \in Int, s \in 0..c-1 : r = c * p + s /\ r % c = s
    BY Euclid
  <1>2. PICK k \in Int : t = r + c * k
    BY DEF Congruent
  <1>3. PICK u \in Int : u = p + k
    OBVIOUS
  <1>4. c * u = c * p + c * k
    BY <1>3
  <1>5. t + i = (s + i) + c * u
    BY <1>1, <1>2, <1>4
  <1>6. Congruent(t + i, s + i, c)
    BY <1>5 DEF Congruent
  <1>7. PICK x \in Int, y \in Int : x = t + i /\ y = s + i
    OBVIOUS
  <1>8. x % c = y % c
    BY <1>6, <1>7, CongruentRemainders
  <1>9. QED
    BY <1>1, <1>7, <1>8

\* Counting on from a remainder, modulo what it is a remainder of.
LEMMA RemainderCountsOn ==
    ASSUME NEW c \in Nat \ {0}, NEW r \in Int, NEW i \in Int
    PROVE  ((r % c) + i) % c = (r + i) % c
  <1>1. r = r + c * 0
    OBVIOUS
  <1>2. Congruent(r, r, c)
    BY <1>1 DEF Congruent
  <1>3. QED
    BY <1>2, RemainderCounts

\* Where quotient and remainder of natural numbers lie.
LEMMA QuotientRange ==
    ASSUME NEW a \in Nat, NEW b \in Nat \ {0}
    PROVE  a \div b \in Nat /\ a % b \in 0..b-1
  <1>1. a \div b \in Int /\ a % b \in 0..b-1
    BY Z3
  <1>2. PICK q \in Int : q = a \div b
    BY <1>1
  <1>3. a = b * q + (a % b)
    BY <1>2, Z3
  <1>4. q >= 0
    <2> SUFFICES ASSUME q <= -1 PROVE FALSE
      OBVIOUS
    <2>1. b * q <= -b
      BY Z3
    <2>2. QED
      BY <1>1, <1>3, <2>1
  <1>5. QED
    BY <1>1, <1>2, <1>4

\* The share of one of p equal parts.
LEMMA PartOfWhole ==
    ASSUME NEW w \in Nat \ {0}, NEW p \in 1..w, w % p = 0
    PROVE  w \div p \in 1..w /\ p * (w \div p) = w
  <1>1. w \div p \in Nat
    BY QuotientRange
  <1>2. PICK q \in Nat : q = w \div p
    BY <1>1
  <1>3. w = p * q + (w % p)
    BY <1>2, Z3
  <1>4. p * q = w
    BY <1>3
  <1>5. q # 0
    BY <1>4
  <1>6. q <= p * q
    BY <1>5, Z3
  <1>7. QED
    BY <1>2, <1>4, <1>5, <1>6

\* A remainder by a multiple of p keeps the remainder by p.
LEMMA RemainderOfRemainder ==
    ASSUME NEW p \in Nat \ {0}, NEW s \in Nat \ {0}, NEW w \in Nat \ {0}, p * s = w,
           NEW a \in Int
    PROVE  (a % w) % p = a % p
  <1>1. PICK q \in Int, r \in 0..w-1 : a = w * q + r /\ a % w = r
    BY Euclid
  <1>2. PICK u \in Int : u = s * q
    OBVIOUS
  <1>3. w * q = p * u
    BY <1>2
  <1>4. a = r + p * u
    BY <1>1, <1>3
  <1>5. Congruent(a, r, p)
    BY <1>4 DEF Congruent
  <1>6. a % p = r % p
    BY <1>5, CongruentRemainders
  <1>7. QED
    BY <1>1, <1>6

\* p parts of s, counted round: the part behind part k.
LEMMA NextPart ==
    ASSUME NEW p \in Nat \ {0}, NEW s \in Nat \ {0}, NEW k \in Int
    PROVE  /\ (k % p) * s \in 0..p * s-1
           /\ ((k % p) * s + s) % (p * s) = ((k + 1) % p) * s
  <1>0. PICK w \in Nat \ {0} : p * s = w
    OBVIOUS
  <1> SUFFICES /\ (k % p) * s \in 0..w-1
               /\ ((k % p) * s + s) % w = ((k + 1) % p) * s
    BY <1>0, Zenon
  <1>1. PICK r \in 0..p-1 : k % p = r
    BY Euclid
  <1>2. (k + 1) % p = (r + 1) % p
    <2>1. PICK i \in Int : i = 1
      OBVIOUS
    <2>2. ((k % p) + i) % p = (k + i) % p
      BY RemainderCountsOn
    <2>3. QED
      BY <1>1, <2>1, <2>2
  <1>3. PICK m \in Int : m = r * s
    OBVIOUS
  <1>4. m >= 0
    BY <1>3, Z3
  <1>5. (r + 1) * s = m + s
    BY <1>3
  <1>6. CASE r + 1 < p
    <2>1. PICK d \in Nat \ {0} : p = r + 1 + d
      <3>1. p - (r + 1) \in Nat \ {0} /\ p = r + 1 + (p - (r + 1))
        BY <1>6
      <3>2. QED
        BY <3>1
    <2>2. w = (r + 1) * s + d * s
      BY <1>0, <2>1
    <2>3. d * s >= 1
      BY Z3
    <2>4. m + s < w
      BY <1>5, <2>2, <2>3
    <2>5. m + s = w * 0 + (m + s) /\ m + s \in 0..w-1
      BY <1>4, <2>4
    <2>6. (m + s) % w = m + s
      BY <2>5, RemainderUnique
    <2>7. r + 1 = p * 0 + (r + 1) /\ r + 1 \in 0..p-1
      BY <1>6
    <2>8. (r + 1) % p = r + 1
      BY <2>7, RemainderUnique
    <2>9. QED
      BY <1>1, <1>2, <1>3, <1>4, <1>5, <2>4, <2>6, <2>8
  <1>7. CASE r + 1 = p
    <2>1. m + s = w
      BY <1>0, <1>5, <1>7
    <2>2. m + s = w * 1 + 0 /\ 0 \in 0..w-1
      BY <2>1
    <2>3. (m + s) % w = 0
      BY <2>2, RemainderUnique
    <2>4. r + 1 = p * 1 + 0 /\ 0 \in 0..p-1
      BY <1>7
    <2>5. (r + 1) % p = 0
      BY <2>4, RemainderUnique
    <2>6. QED
      BY <1>1, <1>2, <1>3, <1>4, <2>1, <2>3, <2>5
  <1>8. QED
    BY <1>6, <1>7

\* The difference of two remainders is the difference of what they are remainders
\* of, if that is below the modulus: the wrap-around of a counter is harmless.
LEMMA DifferenceMeasures ==
    ASSUME NEW w \in Nat \ {0}, NEW h \in Int, NEW t \in Int, h - t \in 0..w-1
    PROVE  ((h % w) - (t % w)) % w = h - t
  <1>1. PICK p \in Int, r \in 0..w-1 : h = w * p + r /\ h % w = r
    BY Euclid
  <1>2. PICK q \in Int, s \in 0..w-1 : t = w * q + s /\ t % w = s
    BY Euclid
  <1>3. w * q - w * p = w * (q - p)
    OBVIOUS
  <1>4. r - s = w * (q - p) + (h - t)
    BY <1>1, <1>2, <1>3
  <1>5. (r - s) % w = h - t
    BY <1>4, RemainderUnique
  <1>6. QED
    BY <1>1, <1>2, <1>5

-----------------------------------------------------------------------------
(* Induction: over a set of numbers, which the provers take, instead of over an
   operator, which they do not. *)

\* A set of naturals has a least member.
LEMMA LeastExists ==
    ASSUME NEW S, S \subseteq Nat, S # {}
    PROVE  \E n \in S : \A m \in S : n <= m
<1> DEFINE R == OpToRel(<, Nat)
<1>1. IsWellFoundedOn(R, Nat)
  BY NatLessThanWellFounded
<1>2. \A x, y \in Nat : <<x, y>> \in R <=> x < y
  BY DEF OpToRel
<1> HIDE DEF R
<1>3. PICK n \in S : \A m \in S : ~ (<<m, n>> \in R)
  BY <1>1, WFMin
<1>4. ASSUME NEW m \in S PROVE n <= m
  <2>1. m \in Nat /\ n \in Nat
    OBVIOUS
  <2>2. <<m, n>> \in R <=> m < n
    BY <1>2, <2>1
  <2>3. ~ (<<m, n>> \in R)
    BY <1>3
  <2> QED
    BY <2>1, <2>2, <2>3
<1> QED
  BY <1>4

\* A set of naturals with 0 and the successor of each of its members has them all.
LEMMA AllNaturals ==
    ASSUME NEW S, 0 \in S, \A n \in S : n + 1 \in S
    PROVE  Nat \subseteq S
<1> SUFFICES ASSUME NEW T, T = Nat \ S, T # {} PROVE FALSE
  OBVIOUS
<1>1. PICK n \in T : \A m \in T : n <= m
  BY LeastExists
<1>2. n \in Nat /\ n \notin S /\ n # 0
  OBVIOUS
<1>3. n - 1 \in Nat /\ (n - 1) + 1 = n
  BY <1>2
<1>4. n - 1 \in S
  BY <1>1, <1>3
<1> QED
  BY <1>2, <1>3, <1>4
=============================================================================

---------------------------- MODULE HarnessProofs ----------------------------
(***************************************************************************)
(* The three parts of the harness that its main loop drives in every pass: *)
(* the transport, the knobs and the action screen.                         *)
(*                                                                         *)
(* HarnessTransport, for every grid, every clock rate that divides it and  *)
(* every range of tempi: a pulse owns exactly its share of sub-ticks, and  *)
(* the grid goes on without a hole or a repetition.                        *)
(*                                                                         *)
(* ParamPickup, for every number of knobs, parameters and decks and every  *)
(* scale and window: a caught knob measures its moves from the engine's    *)
(* value, no parameter jumps to where a knob happens to be, and no knob is *)
(* dead.                                                                   *)
(*                                                                         *)
(* ActionScreen, for every set of builds, every clock choice and timeout:  *)
(* what it shows of a switch is where the engine has it, a gesture is no   *)
(* click, and a first visit changes no setting.                            *)
(***************************************************************************)
EXTENDS HarnessTransport, ParamPickup, ActionScreen, ModularArithmetic, SequenceTheorems,
        WellFoundedInduction

-----------------------------------------------------------------------------
(* The transport. *)

\* The position of the tick fanned out last, in this step or before.
LastPos == IF out = <<>> THEN last ELSE out[Len(out)].pos

\* The grid stands behind the tick fanned out last.
Chained == LastPos = -1 \/ pos = (LastPos + 1) % PPQN

\* What is left of the share of a pulse leads to the position of the next one.
Aligned ==
    external /\ ~restarted => (pos + budget) % PPQN = ((pulse + 1) % ppq) * SubPerPulse

\* What a pulse has given so far and what is left to give make its share.
ShareCounted == external => given + budget = share

\* The inductive invariant.
IInv == TypeOK /\ ShareCounted /\ Chained /\ Aligned

-----------------------------------------------------------------------------
(* The arithmetic of the grid. *)

\* A clock of ppq pulses divides the quarter evenly.
LEMMA ShareFacts ==
    ASSUME ppq \in ExtPpqChoices
    PROVE  /\ ppq \in Nat \ {0} /\ SubPerPulse \in 1..PPQN
           /\ ppq * SubPerPulse = PPQN
  <1>1. PPQN \in Nat \ {0} /\ ppq \in 1..PPQN /\ PPQN % ppq = 0
    BY ClockAssumption
  <1>2. QED
    BY <1>1, PartOfWhole DEF SubPerPulse

\* A position is a remainder already.
LEMMA PositionReduced ==
    ASSUME NEW p \in Positions
    PROVE  p % PPQN = p
  <1>1. PPQN \in Nat \ {0} /\ p \in 0..PPQN-1 /\ p = PPQN * 0 + p
    BY ClockAssumption DEF Positions
  <1>2. QED
    BY <1>1, RemainderUnique

LEMMA RemainderPosition ==
    ASSUME NEW a \in Int
    PROVE  a % PPQN \in Positions
  <1>1. PICK q \in Int, r \in 0..PPQN-1 : a = PPQN * q + r /\ a % PPQN = r
    BY ClockAssumption, Euclid
  <1>2. QED
    BY <1>1 DEF Positions

\* Counting on from a position of the grid.
LEMMA CountOn ==
    ASSUME NEW a \in Int, NEW i \in Int
    PROVE  ((a % PPQN) + i) % PPQN = (a + i) % PPQN
  BY ClockAssumption, RemainderCountsOn

\* The quarter a tick falls into.
LEMMA BarRange ==
    ASSUME NEW b \in Nat, NEW a \in Nat
    PROVE  (b + (a \div PPQN)) % BeatsPerKey \in 0..BeatsPerKey-1
  <1>1. PICK q \in Nat : q = a \div PPQN
    BY ClockAssumption, QuotientRange
  <1>2. PICK c \in Nat : c = b + q
    OBVIOUS
  <1>3. c % BeatsPerKey \in 0..BeatsPerKey-1
    BY ClockAssumption, QuotientRange
  <1>4. QED
    BY <1>1, <1>2, <1>3

-----------------------------------------------------------------------------
(* What a step fans out. *)

LEMMA TickTyped ==
    ASSUME NEW p \in Positions, NEW b, NEW reset \in BOOLEAN
    PROVE  /\ Tick(p, b, reset) \in TickType
           /\ Tick(p, b, reset).pos = p /\ Tick(p, b, reset).reset = reset
  BY DEF Tick, TickType

\* n ticks in a row are n ticks, at successive positions.
LEMMA TicksRun ==
    ASSUME NEW n \in Nat, NEW p \in Positions, NEW b
    PROVE  /\ Ticks(n, p, b) \in Seq(TickType) /\ Len(Ticks(n, p, b)) = n
           /\ DOMAIN Ticks(n, p, b) = 1..n
           /\ \A i \in 1..n : Ticks(n, p, b)[i].pos = (p + i - 1) % PPQN
  <1> DEFINE T == Ticks(n, p, b)
  <1>1. T = [i \in 1..n |-> Tick((p + i - 1) % PPQN,
                                 (b + ((p + i - 1) \div PPQN)) % BeatsPerKey, FALSE)]
    BY DEF Ticks
  <1>2. ASSUME NEW i \in 1..n
        PROVE  T[i] \in TickType /\ T[i].pos = (p + i - 1) % PPQN
    <2>1. PICK a \in Int : a = p + i - 1
      BY DEF Positions
    <2>2. a % PPQN \in Positions
      BY RemainderPosition
    <2> DEFINE pp == a % PPQN
               bb == (b + (a \div PPQN)) % BeatsPerKey
    <2>3. T[i] = Tick(pp, bb, FALSE)
      BY <1>1, <2>1
    <2>4. pp \in Positions
      BY <2>2
    <2> HIDE DEF T, pp, bb
    <2>5. /\ Tick(pp, bb, FALSE) \in TickType
          /\ Tick(pp, bb, FALSE).pos = pp
      BY <2>4, TickTyped
    <2>6. pp = (p + i - 1) % PPQN
      BY <2>1 DEF pp
    <2>7. QED
      BY <2>3, <2>5, <2>6
  <1>3. T \in [1..n -> TickType]
    BY <1>1, <1>2
  <1>4. T \in Seq(TickType) /\ Len(T) = n /\ DOMAIN T = 1..n
    BY <1>3
  <1>5. QED
    BY <1>2, <1>4

LEMMA LastPosRange ==
    ASSUME TypeOK
    PROVE  LastPos \in -1..PPQN-1
  <1>1. CASE out = <<>>
    BY <1>1 DEF LastPos, TypeOK
  <1>2. CASE out # <<>>
    <2>1. out \in Seq(TickType) /\ Len(out) \in 1..Len(out)
      BY <1>2 DEF TypeOK
    <2>2. out[Len(out)] \in TickType
      BY <2>1
    <2>3. out[Len(out)].pos \in 0..PPQN-1
      BY <2>2 DEF TickType, Positions
    <2>4. QED
      BY <1>2, <2>3, ClockAssumption DEF LastPos
  <1>3. QED
    BY <1>1, <1>2

\* What emit_sub_tick() leaves behind when it runs n times.
LEMMA EmitLeaves ==
    ASSUME TypeOK, NEW n \in Nat, Emit(n)
    PROVE  /\ out' \in Seq(TickType) /\ Len(out') = n /\ DOMAIN out' = 1..n
           /\ \A i \in 1..n : out'[i].pos = (pos + i - 1) % PPQN
           /\ pos' = (pos + n) % PPQN /\ pos' \in Positions
           /\ bar' \in 0..BeatsPerKey-1
           /\ last' = LastPos /\ last' \in -1..PPQN-1
  <1>1. pos \in Positions /\ pos \in Nat /\ bar \in Nat
    BY ClockAssumption DEF TypeOK, Positions
  <1>2. /\ out' = Ticks(n, pos, bar)
        /\ pos' = (pos + n) % PPQN
        /\ bar' = (bar + ((pos + n) \div PPQN)) % BeatsPerKey
        /\ last' = LastPos
    BY DEF Emit, FanOut, LastPos
  <1>3. PICK a \in Nat : a = pos + n
    BY <1>1
  <1>4. a % PPQN \in Positions
    BY RemainderPosition
  <1>5. (bar + (a \div PPQN)) % BeatsPerKey \in 0..BeatsPerKey-1
    BY <1>1, BarRange
  <1>6. last' \in -1..PPQN-1
    BY <1>2, LastPosRange
  <1>7. /\ out' \in Seq(TickType) /\ Len(out') = n /\ DOMAIN out' = 1..n
        /\ \A i \in 1..n : out'[i].pos = (pos + i - 1) % PPQN
    BY <1>1, <1>2, TicksRun
  <1>8. QED
    BY <1>2, <1>3, <1>4, <1>5, <1>6, <1>7

\* Ticks in a row go on where the grid stands, one position each.
LEMMA RunContinues ==
    ASSUME TypeOK, Chained, NEW n \in Nat,
           NEW i \in 1..n, NEW x \in Int, NEW y \in Int,
           x = IF i = 1 THEN LastPos ELSE (pos + i - 2) % PPQN,
           y = (pos + i - 1) % PPQN
    PROVE  x = -1 \/ y = (x + 1) % PPQN
  <1>1. pos \in Positions /\ pos \in Int
    BY DEF TypeOK, Positions
  <1>2. CASE i = 1
    <2>1. y = pos % PPQN
      BY <1>1, <1>2
    <2>2. y = pos
      BY <1>1, <2>1, PositionReduced
    <2>3. QED
      BY <1>2, <2>2 DEF Chained
  <1>3. CASE i # 1
    <2>1. PICK a \in Int, j \in Int : a = pos + i - 2 /\ j = 1
      BY <1>1
    <2>2. ((a % PPQN) + j) % PPQN = (a + j) % PPQN
      BY CountOn
    <2>3. y = (a + j) % PPQN /\ x = a % PPQN
      BY <1>1, <1>3, <2>1
    <2>4. QED
      BY <2>1, <2>2, <2>3
  <1>4. QED
    BY <1>2, <1>3

\* Ticks fanned out in a row from where the grid stands continue it.
LEMMA RunFlagless ==
    ASSUME TypeOK, Chained, NEW n \in Nat, last' = LastPos,
           \A i \in 1..n : out'[i].pos = (pos + i - 1) % PPQN,
           NEW i \in 1..n
    PROVE  Continues(i)'
  <1>1. pos \in Positions /\ pos \in Int /\ LastPos \in Int
    BY LastPosRange, ClockAssumption DEF TypeOK, Positions
  <1>2. PICK x \in Int : x = IF i = 1 THEN LastPos ELSE (pos + i - 2) % PPQN
    <2>1. PICK a \in Int : a = pos + i - 2
      BY <1>1
    <2>2. a % PPQN \in Int
      BY RemainderPosition DEF Positions
    <2>3. QED
      BY <1>1, <2>1, <2>2
  <1>3. PICK y \in Int : y = (pos + i - 1) % PPQN
    <2>1. PICK a \in Int : a = pos + i - 1
      BY <1>1
    <2>2. a % PPQN \in Int
      BY RemainderPosition DEF Positions
    <2>3. QED
      BY <2>1, <2>2
  <1>4. x = -1 \/ y = (x + 1) % PPQN
    BY <1>2, <1>3, RunContinues
  <1>5. Before(i)' = x
    <2>1. CASE i = 1
      BY <1>2, <2>1 DEF Before
    <2>2. CASE i # 1
      <3>1. PICK k \in 1..n : k = i - 1
        BY <2>2
      <3>2. out'[k].pos = (pos + k - 1) % PPQN
        OBVIOUS
      <3>3. QED
        BY <1>1, <1>2, <2>2, <3>1, <3>2 DEF Before
    <2>3. QED
      BY <2>1, <2>2
  <1>6. QED
    BY <1>3, <1>4, <1>5 DEF Continues

\* A step that only runs the grid on leaves it chained, without a hole.
LEMMA EmitContinues ==
    ASSUME TypeOK, Chained, NEW n \in Nat, Emit(n)
    PROVE  Chained' /\ \A i \in DOMAIN out' : Continues(i)'
  <1>1. /\ out' \in Seq(TickType) /\ Len(out') = n /\ DOMAIN out' = 1..n
        /\ \A i \in 1..n : out'[i].pos = (pos + i - 1) % PPQN
        /\ pos' = (pos + n) % PPQN
        /\ last' = LastPos /\ last' \in Int
    BY EmitLeaves
  <1>2. pos \in Positions /\ pos \in Int
    BY DEF TypeOK, Positions
  <1>3. Chained'
    <2>1. CASE n = 0
      <3>1. out' = <<>>
        BY <1>1, <2>1
      <3>2. pos' = pos
        BY <1>1, <1>2, <2>1, PositionReduced
      <3>3. LastPos' = LastPos
        BY <1>1, <3>1 DEF LastPos
      <3>4. QED
        BY <3>2, <3>3 DEF Chained
    <2>2. CASE n # 0
      <3>1. PICK a \in Int, j \in Int : a = pos + n - 1 /\ j = 1
        BY <1>2
      <3>2. ((a % PPQN) + j) % PPQN = (a + j) % PPQN
        BY CountOn
      <3>3. LastPos' = a % PPQN
        BY <1>1, <1>2, <2>2, <3>1 DEF LastPos
      <3>4. pos' = (a + j) % PPQN
        BY <1>1, <1>2, <3>1
      <3>5. QED
        BY <3>1, <3>2, <3>3, <3>4 DEF Chained
    <2>3. QED
      BY <2>1, <2>2
  <1>4. \A i \in 1..n : Continues(i)'
    BY <1>1, RunFlagless
  <1>5. QED
    BY <1>1, <1>3, <1>4

\* What a pulse leaves behind that lands at a position of the grid: its tick
\* comes last, and the rest of its share is to be given.
LEMMA LandLeaves ==
    ASSUME TypeOK, NEW p \in Positions, NEW F \in Seq(TickType), NEW b \in Nat,
           NEW reset \in BOOLEAN, Accepted, Land(p, F, b, reset)
    PROVE  /\ out' \in Seq(TickType) /\ DOMAIN out' = 1..Len(F)+1
           /\ \A i \in 1..Len(F) : out'[i] = F[i]
           /\ out'[Len(F) + 1].pos = p /\ out'[Len(F) + 1].reset = reset
           /\ pos' = (p + 1) % PPQN /\ pos' \in Positions
           /\ bar' \in 0..BeatsPerKey-1
           /\ last' = LastPos /\ last' \in -1..PPQN-1
           /\ budget' = SubPerPulse - 1 /\ budget' \in Positions
           /\ external' = TRUE /\ beat' \in MinBeat..MaxBeat
           /\ acc' \in 0..MaxBeat /\ tickAge' \in -1..MaxLag
           /\ edgeAge' \in -1..ExtClockTimeout+1
           /\ driven' \in 0..ExtClockTimeout+MaxLag+1
           /\ given' \in 0..PPQN /\ share' \in 0..PPQN /\ restarted' = FALSE
           /\ internal' = internal /\ ppq' = ppq
           /\ ShareCounted' /\ Chained'
  <1> DEFINE t == Tick(p, b, reset)
  <1>1. t \in TickType /\ t.pos = p /\ t.reset = reset
    BY TickTyped
  <1>2. /\ out' = F \o <<t>>
        /\ pos' = (p + 1) % PPQN
        /\ bar' = (b + ((p + 1) \div PPQN)) % BeatsPerKey
        /\ last' = LastPos
        /\ external' = TRUE /\ beat' = edgeAge * ppq
        /\ budget' = SubPerPulse - 1
        /\ acc' = 0 /\ tickAge' = 0 /\ edgeAge' = 0
        /\ given' = 1 /\ share' = SubPerPulse /\ driven' = 0 /\ restarted' = FALSE
        /\ internal' = internal /\ ppq' = ppq
    BY DEF Land, FanOut, LastPos, setting
  <1> HIDE DEF t
  <1>3. SubPerPulse \in 1..PPQN /\ PPQN \in Nat \ {0}
    BY ShareFacts, ClockAssumption DEF TypeOK
  <1>4. /\ out' \in Seq(TickType) /\ Len(out') = Len(F) + 1 /\ DOMAIN out' = 1..Len(F)+1
        /\ \A i \in 1..Len(F) : out'[i] = F[i]
        /\ out'[Len(F) + 1] = t
    BY <1>1, <1>2
  <1>5. pos' \in Positions /\ bar' \in 0..BeatsPerKey-1
    <2>1. PICK a \in Nat : a = p + 1
      BY <1>3 DEF Positions
    <2>2. a % PPQN \in Positions
      BY RemainderPosition
    <2>3. (b + (a \div PPQN)) % BeatsPerKey \in 0..BeatsPerKey-1
      BY BarRange
    <2>4. QED
      BY <1>2, <2>1, <2>2, <2>3
  <1>6. last' \in -1..PPQN-1
    BY <1>2, LastPosRange
  <1>7. beat' \in MinBeat..MaxBeat
    BY <1>2 DEF Accepted
  <1>8. /\ acc' \in 0..MaxBeat /\ tickAge' \in -1..MaxLag
        /\ edgeAge' \in -1..ExtClockTimeout+1
        /\ driven' \in 0..ExtClockTimeout+MaxLag+1
    BY <1>2, ClockAssumption
  <1>9. budget' \in Positions /\ given' \in 0..PPQN /\ share' \in 0..PPQN
    BY <1>2, <1>3 DEF Positions
  <1>10. ShareCounted'
    BY <1>2, <1>3 DEF ShareCounted
  <1>11. Chained'
    <2>1. Len(F) \in Nat /\ Len(out') # 0
      BY <1>4
    <2>2. LastPos' = p
      BY <1>1, <1>4, <2>1 DEF LastPos
    <2>3. QED
      BY <1>2, <2>2 DEF Chained
  <1>12. QED
    BY <1>1, <1>2, <1>4, <1>5, <1>6, <1>7, <1>8, <1>9, <1>10, <1>11

-----------------------------------------------------------------------------
(* What each action preserves. *)

\* A step leaves the invariant behind and no hole in the grid.
GoodStep == IInv' /\ \A i \in DOMAIN out' : Continues(i)' \/ restarted

\* Settings, edges that are no pulses and the time between two polls emit
\* nothing.
LEMMA SilentGood ==
    ASSUME IInv, Emit(0),
           UNCHANGED <<external, budget, acc, given, share>>,
           beat' \in MinBeat..MaxBeat, internal' \in MinBeat..MaxBeat,
           ppq' \in ExtPpqChoices, pulse' \in Positions,
           edgeAge' \in -1..ExtClockTimeout+1, tickAge' \in -1..MaxLag,
           driven' \in 0..ExtClockTimeout+MaxLag+1,
           \/ restarted' = TRUE
           \/ UNCHANGED <<ppq, pulse, restarted>>
    PROVE  GoodStep
  <1>1. PICK n \in Nat : n = 0
    OBVIOUS
  <1>2. TypeOK /\ Chained /\ Emit(n)
    BY <1>1 DEF IInv
  <1>3. /\ out' \in Seq(TickType) /\ pos' = (pos + n) % PPQN /\ pos' \in Positions
        /\ bar' \in 0..BeatsPerKey-1 /\ last' \in -1..PPQN-1
    BY <1>2, EmitLeaves
  <1>4. Chained' /\ \A i \in DOMAIN out' : Continues(i)'
    BY <1>2, EmitContinues
  <1>5. pos' = pos
    BY <1>1, <1>2, <1>3, PositionReduced DEF TypeOK, Positions
  <1>6. restarted' \in BOOLEAN
    BY <1>2 DEF TypeOK
  <1>7. TypeOK'
    BY <1>2, <1>3, <1>6 DEF TypeOK
  <1>8. ShareCounted'
    BY DEF IInv, ShareCounted
  <1>9. Aligned'
    BY <1>5 DEF IInv, Aligned, SubPerPulse
  <1>10. QED
    BY <1>4, <1>7, <1>8, <1>9 DEF GoodStep, IInv

LEMMA SetTempoGood ==
    ASSUME IInv, NEW asked \in Asked, SetTempo(asked)
    PROVE  GoodStep
  <1>1. asked \in Int /\ MinBeat \in Nat /\ MaxBeat \in Nat /\ MinBeat <= MaxBeat
    BY ClockAssumption
  <1>2. internal' \in MinBeat..MaxBeat
    BY <1>1 DEF SetTempo
  <1>3. beat' \in MinBeat..MaxBeat
    BY <1>2 DEF SetTempo, IInv, TypeOK
  <1>4. QED
    BY <1>2, <1>3, SilentGood DEF SetTempo, IInv, TypeOK

LEMMA SetExtPpqGood ==
    ASSUME IInv, NEW choice \in ExtPpqChoices, SetExtPpq(choice)
    PROVE  GoodStep
  <1>1. pulse' \in Positions
    BY ClockAssumption DEF SetExtPpq, Positions
  <1>2. QED
    BY <1>1, SilentGood DEF SetExtPpq, IInv, TypeOK

LEMMA OtherEdgeGood ==
    ASSUME IInv, OtherEdge
    PROVE  GoodStep
  <1>1. pulse' \in Positions /\ edgeAge' \in -1..ExtClockTimeout+1
    BY ClockAssumption DEF OtherEdge, Positions, IInv, TypeOK
  <1>2. restarted' = TRUE \/ UNCHANGED <<ppq, pulse, restarted>>
    BY DEF OtherEdge, setting
  <1>3. QED
    BY <1>1, <1>2, SilentGood DEF OtherEdge, setting, IInv, TypeOK

LEMMA WaitGood ==
    ASSUME IInv, Wait
    PROVE  GoodStep
  <1>1. /\ edgeAge' \in -1..ExtClockTimeout+1 /\ tickAge' \in -1..MaxLag
        /\ driven' \in 0..ExtClockTimeout+MaxLag+1
    BY ClockAssumption DEF Wait, IInv, TypeOK
  <1>2. QED
    BY <1>1, SilentGood DEF Wait, setting, IInv, TypeOK

\* A pass of the main loop: the interpolator never gives more than is left of
\* the share of a pulse.
LEMMA PollGood ==
    ASSUME IInv, Poll
    PROVE  GoodStep
  <1>1. TypeOK /\ Chained
    BY DEF IInv
  <1>2. external' \in BOOLEAN /\ (external' => external)
    BY DEF Poll
  <1>3. beat' \in MinBeat..MaxBeat /\ beat' \in Nat \ {0}
    BY <1>1, ClockAssumption DEF Poll, TypeOK
  <1>4. UNCHANGED <<internal, ppq, pulse, edgeAge, share, driven, restarted>>
    BY DEF Poll, setting
  <1>5. ASSUME NEW n \in Nat, Emit(n), tickAge' \in -1..MaxLag, acc' \in 0..MaxBeat,
               budget' \in Positions, given' \in 0..PPQN,
               external' => /\ n \in 0..budget
                            /\ budget' = budget - n /\ given' = given + n
        PROVE  GoodStep
    <2>1. /\ out' \in Seq(TickType) /\ pos' = (pos + n) % PPQN /\ pos' \in Positions
          /\ bar' \in 0..BeatsPerKey-1 /\ last' \in -1..PPQN-1
      BY <1>1, <1>5, EmitLeaves
    <2>2. Chained' /\ \A i \in DOMAIN out' : Continues(i)'
      BY <1>1, <1>5, EmitContinues
    <2>3. TypeOK'
      BY <1>1, <1>2, <1>3, <1>4, <1>5, <2>1 DEF TypeOK
    <2>4. ShareCounted'
      <3>1. given \in Int /\ budget \in Int /\ n \in Int
        BY <1>1, ClockAssumption DEF TypeOK, Positions
      <3>2. QED
        BY <1>2, <1>4, <1>5, <3>1 DEF IInv, ShareCounted
    <2>5. Aligned'
      <3> SUFFICES ASSUME external', ~restarted'
                   PROVE  ((pos' + budget') % PPQN = ((pulse + 1) % ppq) * SubPerPulse)
        BY <1>4 DEF Aligned, SubPerPulse
      <3>1. pos \in Int /\ budget \in Int /\ external /\ ~restarted
        BY <1>1, <1>2, <1>4 DEF TypeOK, Positions
      <3>2. PICK a \in Int, i \in Int : a = pos + n /\ i = budget'
        BY <1>5, <3>1
      <3>3. ((a % PPQN) + i) % PPQN = (a + i) % PPQN
        BY CountOn
      <3>4. a + i = pos + budget
        BY <1>5, <3>1, <3>2
      <3>5. (pos + budget) % PPQN = ((pulse + 1) % ppq) * SubPerPulse
        BY <3>1 DEF IInv, Aligned
      <3>6. QED
        BY <2>1, <3>2, <3>3, <3>4, <3>5
    <2>6. QED
      BY <2>2, <2>3, <2>4, <2>5 DEF GoodStep, IInv
  <1>6. CASE tickAge = -1
    <2>1. PICK n \in Nat : n = 0
      OBVIOUS
    <2>2. Emit(n) /\ tickAge' = 0 /\ UNCHANGED <<acc, budget, given>>
      BY <1>6, <2>1 DEF Poll
    <2>3. n \in 0..budget /\ budget' = budget - n /\ given' = given + n
      BY <1>1, <2>1, <2>2, ClockAssumption DEF TypeOK, Positions
    <2>4. /\ tickAge' \in -1..MaxLag /\ acc' \in 0..MaxBeat
          /\ budget' \in Positions /\ given' \in 0..PPQN
      BY <1>1, <2>2, ClockAssumption DEF TypeOK
    <2>5. QED
      BY <1>5, <2>2, <2>3, <2>4
  <1>7. CASE tickAge # -1
    <2> DEFINE elapsed == acc + tickAge * PPQN
               due     == elapsed \div beat'
               n       == IF external' /\ due > budget THEN budget ELSE due
    <2>1. /\ Emit(n)
          /\ acc' = IF n < due THEN 0 ELSE elapsed % beat'
          /\ budget' = IF external' THEN budget - n ELSE budget
          /\ given' = IF external' THEN given + Len(out') ELSE 0
          /\ tickAge' = 0
      BY <1>7 DEF Poll, Interpolate
    <2>2. elapsed \in Nat
      <3>1. tickAge \in Nat /\ PPQN \in Nat /\ acc \in Nat
        BY <1>1, <1>7, ClockAssumption DEF TypeOK
      <3>2. QED
        BY <3>1, Z3
    <2>3. due \in Nat /\ elapsed % beat' \in 0..beat'-1
      <3> HIDE DEF elapsed
      <3>1. PICK e \in Nat, d \in Nat \ {0} : e = elapsed /\ d = beat'
        BY <1>3, <2>2
      <3>2. e \div d \in Nat /\ e % d \in 0..d-1
        BY QuotientRange
      <3>3. QED
        BY <3>1, <3>2
    <2> HIDE DEF elapsed, due
    <2>4. budget \in Nat /\ budget \in 0..PPQN-1 /\ given \in 0..PPQN /\ PPQN \in Nat
      BY <1>1, ClockAssumption DEF TypeOK, Positions
    <2>5. n \in Nat /\ (external' => n \in 0..budget)
      BY <2>3, <2>4
    <2> HIDE DEF n
    <2>6. external' => budget' = budget - n /\ given' = given + n
      BY <1>1, <2>1, <2>5, EmitLeaves
    <2>7. budget' \in Positions
      BY <2>1, <2>4, <2>5 DEF Positions
    <2>8. given' \in 0..PPQN
      <3>1. external => given + budget = share /\ share \in 0..PPQN
        BY <1>1 DEF IInv, ShareCounted, TypeOK
      <3>2. QED
        BY <1>2, <2>1, <2>4, <2>5, <2>6, <3>1
    <2>9. acc' \in 0..MaxBeat /\ tickAge' \in -1..MaxLag
      BY <1>3, <2>1, <2>3, ClockAssumption
    <2>10. QED
      BY <1>5, <2>1, <2>5, <2>6, <2>7, <2>8, <2>9
  <1>8. QED
    BY <1>6, <1>7

\* A pulse that lands on position (k % ppq) * SubPerPulse with nothing left to
\* give before it keeps the pulse count and the grid in step.
LEMMA LandAligned ==
    ASSUME TypeOK, NEW k \in Int, pulse' = k, ppq' = ppq, budget' = SubPerPulse - 1,
           pos' = ((k % ppq) * SubPerPulse + 1) % PPQN
    PROVE  Aligned'
  <1>1. /\ ppq \in Nat \ {0} /\ SubPerPulse \in Nat \ {0} /\ PPQN \in Nat \ {0}
        /\ ppq * SubPerPulse = PPQN
    BY ShareFacts, ClockAssumption DEF TypeOK
  <1>2. PICK s \in Nat \ {0} : s = SubPerPulse
    BY <1>1
  <1>3. PICK m \in Int : m = (k % ppq) * s
    <2>1. PICK q \in Int, r \in 0..ppq-1 : k = ppq * q + r /\ k % ppq = r
      BY <1>1, Euclid
    <2>2. QED
      BY <2>1
  <1>4. (m + s) % PPQN = ((k + 1) % ppq) * s
    <2>1. ppq * s = PPQN
      BY <1>1, <1>2
    <2>2. ((k % ppq) * s + s) % (ppq * s) = ((k + 1) % ppq) * s
      BY <1>1, NextPart, Zenon
    <2>3. QED
      BY <1>3, <2>1, <2>2, Zenon
  <1>5. PICK a \in Int, i \in Int : a = m + 1 /\ i = s - 1
    OBVIOUS
  <1>6. ((a % PPQN) + i) % PPQN = (a + i) % PPQN
    BY CountOn
  <1>7. a + i = m + s
    BY <1>5
  <1>8. pos' = a % PPQN /\ budget' = i
    BY <1>2, <1>3, <1>5
  <1>9. (pos' + budget') % PPQN = ((k + 1) % ppq) * s
    BY <1>4, <1>6, <1>7, <1>8
  <1>10. QED
    BY <1>2, <1>9 DEF Aligned, SubPerPulse

\* The first pulse starts the grid at the downbeat, and says so.
LEMMA AcquireGood ==
    ASSUME IInv, Acquire
    PROVE  GoodStep
  <1>1. TypeOK /\ Accepted /\ pulse' = 0
    BY DEF IInv, Acquire
  <1>2. PPQN \in Nat \ {0} /\ 0 \in Positions
    BY ClockAssumption DEF Positions
  <1>3. PICK F \in Seq(TickType) : F = <<>>
    <2>1. <<>> \in Seq(TickType)
      OBVIOUS
    <2>2. QED
      BY <2>1
  <1>4. PICK p \in Positions, b \in Nat : p = 0 /\ b = 0
    BY <1>2
  <1>5. Land(p, F, b, TRUE)
    BY <1>3, <1>4 DEF Acquire
  <1>6. /\ out' \in Seq(TickType) /\ DOMAIN out' = 1..Len(F)+1
        /\ out'[Len(F) + 1].reset = TRUE
        /\ pos' = (p + 1) % PPQN /\ pos' \in Positions
        /\ bar' \in 0..BeatsPerKey-1 /\ last' \in -1..PPQN-1
        /\ budget' = SubPerPulse - 1 /\ budget' \in Positions
        /\ external' = TRUE /\ beat' \in MinBeat..MaxBeat
        /\ acc' \in 0..MaxBeat /\ tickAge' \in -1..MaxLag
        /\ edgeAge' \in -1..ExtClockTimeout+1
        /\ driven' \in 0..ExtClockTimeout+MaxLag+1
        /\ given' \in 0..PPQN /\ share' \in 0..PPQN /\ restarted' = FALSE
        /\ internal' = internal /\ ppq' = ppq
        /\ ShareCounted' /\ Chained'
    BY <1>1, <1>5, LandLeaves
  <1>7. TypeOK'
    BY <1>1, <1>2, <1>6 DEF TypeOK
  <1>8. Aligned'
    <2>1. PICK k \in Int : k = 0
      OBVIOUS
    <2>2. (k % ppq) * SubPerPulse = 0
      <3>1. ppq \in Nat \ {0} /\ SubPerPulse \in Nat
        BY <1>1, ShareFacts DEF TypeOK
      <3>2. k = ppq * 0 + 0 /\ 0 \in 0..ppq-1
        BY <2>1, <3>1
      <3>3. k % ppq = 0
        BY <3>1, <3>2, RemainderUnique
      <3>4. QED
        BY <3>1, <3>3
    <2>3. pos' = ((k % ppq) * SubPerPulse + 1) % PPQN
      BY <1>4, <1>6, <2>2
    <2>4. QED
      BY <1>1, <1>6, <2>1, <2>3, LandAligned
  <1>9. \A i \in DOMAIN out' : Continues(i)'
    <2>1. DOMAIN out' = {1} /\ out'[1].reset = TRUE
      BY <1>3, <1>6
    <2>2. QED
      BY <2>1 DEF Continues
  <1>10. QED
    BY <1>6, <1>7, <1>8, <1>9 DEF GoodStep, IInv

\* Any later pulse is preceded by what is left of the share of the last one,
\* and so it lands on the position that follows.
LEMMA PulseGood ==
    ASSUME IInv, Pulse
    PROVE  GoodStep
  <1>1. TypeOK /\ Chained /\ Accepted /\ external /\ pulse' = (pulse + 1) % PPQN
    BY DEF IInv, Pulse
  <1>2. /\ PPQN \in Nat \ {0} /\ pos \in Positions /\ pos \in Nat /\ bar \in Nat
        /\ budget \in Nat /\ pulse \in Nat
    BY <1>1, ClockAssumption DEF TypeOK, Positions
  <1>3. /\ ppq \in Nat \ {0} /\ SubPerPulse \in Nat \ {0}
        /\ ppq * SubPerPulse = PPQN
    BY <1>1, ShareFacts DEF TypeOK
  <1>4. PICK k \in Positions : k = pulse' /\ k \in Int
    <2>1. PICK a \in Int : a = pulse + 1
      BY <1>2
    <2>2. a % PPQN \in Positions
      BY RemainderPosition
    <2>3. QED
      BY <1>1, <2>1, <2>2 DEF Positions
  <1>5. PICK p \in Positions : p = (k % ppq) * SubPerPulse
    <2>1. (k % ppq) * SubPerPulse \in 0..PPQN-1
      BY <1>3, <1>4, NextPart
    <2>2. QED
      BY <2>1 DEF Positions
  <1>6. PICK F \in Seq(TickType) :
            /\ F = Ticks(budget, pos, bar) /\ Len(F) = budget
            /\ \A i \in 1..budget : F[i].pos = (pos + i - 1) % PPQN
    BY <1>2, TicksRun
  <1>7. PICK b \in Nat : b = (bar + ((pos + budget) \div PPQN)) % BeatsPerKey
    <2>1. PICK a \in Nat : a = pos + budget
      BY <1>2
    <2>2. (bar + (a \div PPQN)) % BeatsPerKey \in 0..BeatsPerKey-1
      BY <1>2, BarRange
    <2>3. (bar + (a \div PPQN)) % BeatsPerKey \in Nat
      BY <2>2, ClockAssumption
    <2>4. QED
      BY <2>1, <2>3
  <1>8. Land(p, F, b, FALSE)
    BY <1>4, <1>5, <1>6, <1>7 DEF Pulse
  <1>9. /\ out' \in Seq(TickType) /\ DOMAIN out' = 1..Len(F)+1
        /\ \A i \in 1..Len(F) : out'[i] = F[i]
        /\ out'[Len(F) + 1].pos = p
        /\ pos' = (p + 1) % PPQN /\ pos' \in Positions
        /\ bar' \in 0..BeatsPerKey-1 /\ last' = LastPos /\ last' \in -1..PPQN-1
        /\ budget' = SubPerPulse - 1 /\ budget' \in Positions
        /\ external' = TRUE /\ beat' \in MinBeat..MaxBeat
        /\ acc' \in 0..MaxBeat /\ tickAge' \in -1..MaxLag
        /\ edgeAge' \in -1..ExtClockTimeout+1
        /\ driven' \in 0..ExtClockTimeout+MaxLag+1
        /\ given' \in 0..PPQN /\ share' \in 0..PPQN /\ restarted' = FALSE
        /\ internal' = internal /\ ppq' = ppq
        /\ ShareCounted' /\ Chained'
    BY <1>1, <1>8, LandLeaves
  <1>10. TypeOK'
    BY <1>1, <1>4, <1>9 DEF TypeOK
  <1>11. Aligned'
    BY <1>1, <1>4, <1>5, <1>9, LandAligned
  <1>12. \A i \in DOMAIN out' : Continues(i)' \/ restarted
    <2> SUFFICES ASSUME ~restarted, NEW i \in 1..budget+1
                 PROVE  Continues(i)'
      BY <1>6, <1>9
    <2> DEFINE n == budget + 1
    <2>1. p = (pos + n - 1) % PPQN
      <3>1. (pos + budget) % PPQN = ((pulse + 1) % ppq) * SubPerPulse
        BY <1>1 DEF IInv, Aligned
      <3>2. k % ppq = (pulse + 1) % ppq
        <4>1. PICK a \in Int, s \in Nat \ {0} : a = pulse + 1 /\ s = SubPerPulse
          BY <1>2, <1>3
        <4>2. (a % PPQN) % ppq = a % ppq
          BY <1>2, <1>3, <4>1, RemainderOfRemainder
        <4>3. QED
          BY <1>1, <1>4, <4>1, <4>2
      <3>3. pos + n - 1 = pos + budget
        BY <1>2
      <3>4. QED
        BY <1>5, <3>1, <3>2, <3>3
    <2>2. \A j \in 1..n : out'[j].pos = (pos + j - 1) % PPQN
      <3> SUFFICES ASSUME NEW j \in 1..n PROVE out'[j].pos = (pos + j - 1) % PPQN
        OBVIOUS
      <3>1. CASE j = n
        BY <1>2, <1>6, <1>9, <2>1, <3>1
      <3>2. CASE j # n
        <4>1. j \in 1..budget
          BY <1>2, <3>2
        <4>2. QED
          BY <1>6, <1>9, <4>1
      <3>3. QED
        BY <3>1, <3>2
    <2>3. n \in Nat /\ i \in 1..n /\ last' = LastPos
      <3>1. budget \in Nat
        BY <1>2
      <3>2. last' = LastPos
        BY <1>9
      <3>3. QED
        BY <3>1, <3>2
    <2> HIDE DEF n
    <2>4. Continues(i)'
      BY <1>1, <2>2, <2>3, RunFlagless
    <2>5. QED
      BY <2>4
  <1>13. QED
    BY <1>9, <1>10, <1>11, <1>12 DEF GoodStep, IInv

-----------------------------------------------------------------------------
(* Every behaviour. *)

LEMMA InitInvariant ==
    ASSUME Init
    PROVE  IInv
  <1>1. /\ PPQN \in Nat \ {0} /\ MinBeat \in Nat /\ MaxBeat \in Nat
        /\ DefaultBeat \in MinBeat..MaxBeat /\ 1 \in ExtPpqChoices
        /\ BeatsPerKey \in Nat \ {0} /\ ExtClockTimeout \in Nat /\ MaxLag \in Nat
    BY ClockAssumption
  <1>2. out \in Seq(TickType)
    <2>1. <<>> \in Seq(TickType)
      OBVIOUS
    <2>2. QED
      BY <2>1 DEF Init
  <1>3. TypeOK
    <2>1. /\ external \in BOOLEAN /\ restarted \in BOOLEAN
          /\ beat \in MinBeat..MaxBeat /\ internal \in MinBeat..MaxBeat
          /\ ppq \in ExtPpqChoices
      BY <1>1 DEF Init
    <2>2. /\ pulse \in Positions /\ budget \in Positions /\ pos \in Positions
          /\ bar \in 0..BeatsPerKey-1 /\ last \in -1..PPQN-1
          /\ given \in 0..PPQN /\ share \in 0..PPQN
      BY <1>1 DEF Init, Positions
    <2>3. /\ edgeAge \in -1..ExtClockTimeout+1 /\ tickAge \in -1..MaxLag
          /\ acc \in 0..MaxBeat /\ driven \in 0..ExtClockTimeout+MaxLag+1
      BY <1>1 DEF Init
    <2>4. QED
      BY <1>2, <2>1, <2>2, <2>3 DEF TypeOK
  <1>4. QED
    BY <1>3 DEF Init, IInv, ShareCounted, Chained, LastPos, Aligned

LEMMA StutterInvariant ==
    ASSUME IInv, UNCHANGED vars
    PROVE  IInv'
  <1>1. TypeOK'
    BY DEF IInv, TypeOK, vars, setting, grid
  <1>2. Chained'
    BY DEF IInv, Chained, LastPos, vars, grid
  <1>3. ShareCounted' /\ Aligned'
    BY DEF IInv, ShareCounted, Aligned, SubPerPulse, vars, setting, grid
  <1>4. QED
    BY <1>1, <1>2, <1>3 DEF IInv

\* Every action is a good step.
LEMMA NextGood ==
    ASSUME IInv, Next
    PROVE  GoodStep
  <1>1. CASE \E asked \in Asked : SetTempo(asked)
    BY <1>1, SetTempoGood
  <1>2. CASE \E choice \in ExtPpqChoices : SetExtPpq(choice)
    BY <1>2, SetExtPpqGood
  <1>3. CASE Acquire
    BY <1>3, AcquireGood
  <1>4. CASE Pulse
    BY <1>4, PulseGood
  <1>5. CASE OtherEdge
    BY <1>5, OtherEdgeGood
  <1>6. CASE Poll
    BY <1>6, PollGood
  <1>7. CASE Wait
    BY <1>7, WaitGood
  <1>8. QED
    BY <1>1, <1>2, <1>3, <1>4, <1>5, <1>6, <1>7 DEF Next

\* The inductive invariant holds in every state of the harness's clock
\* (harness_clock.h): the interpolator, the pulses and the settings keep the
\* count of pulses and the grid of sub-ticks in step.
THEOREM Invariance == Spec => []IInv
  <1>1. Init => IInv
    BY InitInvariant
  <1>2. IInv /\ [Next]_vars => IInv'
    BY NextGood, StutterInvariant DEF GoodStep
  <1>3. QED
    BY <1>1, <1>2, PTL DEF Spec

\* Every variable of the clock keeps its type: the tempo never leaves the range
\* the transport accepts, whatever the panel asks for and the clock input does
\* (harness_clock.h:81-86, 155-158).
THEOREM TypeCorrect == Spec => []TypeOK
  <1>1. IInv => TypeOK
    BY DEF IInv
  <1>2. QED
    BY <1>1, Invariance, PTL

\* Between the tick of a pulse and that of the next one the grid gets exactly the rest of
\* the pulse's share of sub-ticks, for every rate that divides the grid, every tempo and
\* every delay of the polls (harness_clock.h:135-149, 182-187).
THEOREM PulsesOwnTheirShare == Spec => ShareExact
  <1>1. IInv /\ Pulse => given + Len(out') - 1 = share
    <2> SUFFICES ASSUME IInv, Pulse
                 PROVE  given + Len(out') - 1 = share
      OBVIOUS
    <2>1. TypeOK /\ external /\ given + budget = share
      BY DEF IInv, Pulse, ShareCounted
    <2>2. budget \in Nat /\ given \in Nat /\ pos \in Positions
      BY <2>1, ClockAssumption DEF TypeOK, Positions
    <2>3. PICK F \in Seq(TickType) : F = Ticks(budget, pos, bar) /\ Len(F) = budget
      BY <2>2, TicksRun
    <2>4. PICK t : out' = F \o <<t>>
      BY <2>3 DEF Pulse, Land, FanOut
    <2>5. Len(out') = budget + 1
      BY <2>3, <2>4
    <2>6. QED
      BY <2>1, <2>2, <2>5
  <1>2. IInv /\ [Next]_vars => [Pulse => given + Len(out') - 1 = share]_vars
    BY <1>1
  <1>3. QED
    BY <1>2, Invariance, PTL DEF Spec, ShareExact

\* The grid the sequencers count has no hole and no repetition between two
\* realignments (harness_clock.h:135-149, 182-187).
THEOREM GridGoesOn == Spec => GridContinuous
  <1>1. IInv /\ [Next]_vars => [\A i \in DOMAIN out' : Continues(i)' \/ restarted]_vars
    BY NextGood DEF GoodStep
  <1>2. QED
    BY <1>1, Invariance, PTL DEF Spec, GridContinuous

-----------------------------------------------------------------------------
(* The knobs. *)

\* The knobs have the parameters of one page, so no parameter has two knobs.
OfOnePage == \E pg \in Nat : \A k \in Slots : id[k] = ParamAt(pg, k)

\* The knobs have a reading of a poll once there was one, and not before.
PrimedByPoll == \A k \in Slots : primed <=> prev[k] # -1

\* A caught knob in nobody else's hands was left by the last poll within the deadband
\* of what it wrote: that is where a move that writes sets out.
LeftAtReference ==
    \A k \in Slots \ (suspended \cup resume) :
        id[k] # 0 /\ caught[k] => prev[k] # -1 /\ Distance(prev[k], written[k]) <= Deadband

\* A waiting knob was read on one side of its value only, the one where it was read last.
Search(k) == IF primed /\ id[k] # 0 /\ ~caught[k] THEN SideOf(lastKnob[k], Current(k)) ELSE {}

OneSide == \A k \in Slots : sides[k] \subseteq Search(k)

PickupInv == Inv /\ OfOnePage /\ PrimedByPoll /\ LeftAtReference /\ OneSide

\* The parts of TypeOK, to be put together again after a seeding.
PageType   == page = 0 \/ page \in 0..(TotalPages - 1)
ValueType  == value \in Settings
SlotTypes  == /\ id \in [Slots -> 0..Params] /\ caught \in [Slots -> BOOLEAN]
              /\ written \in [Slots -> Travel]
              /\ sides \in [Slots -> SUBSET {"below", "above"}]
OtherTypes == /\ lastKnob \in [Slots -> Travel] /\ primed \in BOOLEAN /\ reseed \subseteq Decks
              /\ suspended \subseteq {1} /\ resume \subseteq {1}
              /\ knob \in [Slots -> Travel] /\ prev \in [Slots -> -1..Top]

-----------------------------------------------------------------------------
(* Pages, slots and values. *)

\* A turn of the encoder ends on a page there is.
LEMMA PageTurns ==
    ASSUME TotalPages > 1, PageType, NEW inc \in {-1, 1}
    PROVE  (page + inc) % TotalPages \in 0..(TotalPages - 1)
<1>1. \A a \in Int, b \in Nat \ {0} : a \div b \in Int /\ a % b \in 0..b-1
  BY Z3
<1>2. Params + Knobs - 1 \in Int /\ Knobs \in Nat \ {0}
  BY PickupAssumption
<1>3. Pages \in Int
  BY <1>1, <1>2 DEF Pages
<1>4. TotalPages \in Nat \ {0}
  BY <1>3 DEF TotalPages
<1>5. page + inc \in Int
  BY <1>4 DEF PageType
<1> QED
  BY <1>1, <1>4, <1>5

LEMMA ParamAtType ==
    ASSUME NEW pg \in Nat, NEW k \in Slots PROVE ParamAt(pg, k) \in 0..Params
<1>1. PICK m \in Nat : m = pg * Knobs
  <2>1. pg * Knobs \in Nat
    BY PickupAssumption
  <2> QED
    BY <2>1
<1>2. m + k \in Nat \ {0} /\ Params \in Nat
  BY <1>1, PickupAssumption DEF Slots
<1> QED
  BY <1>1, <1>2 DEF ParamAt

\* No parameter has two knobs.
LEMMA OneKnob ==
    ASSUME OfOnePage, NEW j \in Slots, NEW k \in Slots, id[j] = id[k], id[k] # 0 PROVE j = k
<1>1. PICK pg \in Nat : \A i \in Slots : id[i] = ParamAt(pg, i)
  BY DEF OfOnePage
<1>2. PICK m \in Int : m = pg * Knobs
  BY PickupAssumption
<1>3. ParamAt(pg, j) = ParamAt(pg, k) /\ ParamAt(pg, k) # 0
  BY <1>1
<1> QED
  BY <1>2, <1>3 DEF ParamAt, Slots

\* A seeding gives every knob its parameter, out of catch.
LEMMA Seeded ==
    ASSUME NEW pg \in Nat, NEW d \in Decks, Seed(pg, d), ValueType'
    PROVE  SlotTypes' /\ OfOnePage' /\ \A k \in Slots : ~caught'[k] /\ id'[k] = ParamAt(pg, k)
<1>1. ASSUME NEW k \in Slots
      PROVE  /\ id'[k] = ParamAt(pg, k) /\ id'[k] \in 0..Params /\ caught'[k] = FALSE
             /\ written'[k] \in Travel /\ sides'[k] \subseteq {"below", "above"}
  <2>1. /\ id'[k] = ParamAt(pg, k) /\ ParamAt(pg, k) \in 0..Params /\ caught'[k] = FALSE
        /\ sides'[k] \subseteq {"below", "above"}
    BY ParamAtType DEF Seed, SideOf
  <2>2. CASE ParamAt(pg, k) = 0
    BY <2>1, <2>2, PickupAssumption DEF Seed, Travel
  <2>3. CASE ParamAt(pg, k) # 0
    <3>1. ParamAt(pg, k) \in 1..Params
      BY <2>1, <2>3, PickupAssumption
    <3> QED
      BY <2>1, <2>3, <3>1 DEF Seed, ValueType, Settings
  <2> QED
    BY <2>1, <2>2, <2>3
<1>2. SlotTypes'
  <2>1. sides' \in [Slots -> SUBSET {"below", "above"}]
    BY <1>1 DEF Seed
  <2> QED
    BY <1>1, <2>1 DEF Seed, SlotTypes
<1> QED
  BY <1>1, <1>2 DEF OfOnePage

LEMMA SeedKeeps ==
    ASSUME PageType', deck' \in Decks, ValueType', OtherTypes', PrimedByPoll',
           Seed(page', deck')
    PROVE  PickupInv'
<1>1. page' \in Nat
  BY DEF PageType
<1>2. SlotTypes' /\ OfOnePage' /\ \A k \in Slots : ~caught'[k] /\ id'[k] = ParamAt(page', k)
  BY <1>1, Seeded
<1>3. PickupTypeOK'
  BY <1>2 DEF PickupTypeOK, PageType, ValueType, Settings, SlotTypes, OtherTypes
<1>4. SlotsMatchPage' /\ ReferenceIsValue' /\ LeftAtReference'
  BY <1>2 DEF SlotsMatchPage, ReferenceIsValue, LeftAtReference
<1>5. OneSide'
  <2>1. ASSUME NEW k \in Slots PROVE sides'[k] \subseteq Search(k)'
    <3>1. sides'[k] = IF primed' /\ id'[k] # 0 THEN SideOf(lastKnob'[k], value'[deck'][id'[k]])
                                                ELSE {}
      BY <1>2 DEF Seed
    <3> QED
      BY <1>2, <3>1 DEF Search, Current, ValueAt
  <2> QED
    BY <2>1 DEF OneSide
<1> QED
  BY <1>2, <1>3, <1>4, <1>5 DEF PickupInv, Inv

LEMMA TypeParts ==
    ASSUME PickupInv PROVE PageType /\ deck \in Decks /\ ValueType /\ SlotTypes /\ OtherTypes
BY DEF PickupInv, Inv, PickupTypeOK, PageType, ValueType, Settings, SlotTypes, OtherTypes

-----------------------------------------------------------------------------
(* A pass over the knobs. *)

\* A pass leaves a parameter of the page at its knob if that writes, else alone.
LEMMA PassWrites ==
    ASSUME PickupInv, KnobPass, NEW k \in Slots, id[k] # 0
    PROVE  value'[deck][id[k]] = IF Writes(k) THEN Kept[id[k]][knob[k]] ELSE Current(k)
<1>1. deck \in Decks /\ value \in [Decks -> [1..Params -> Travel]] /\ id[k] \in 1..Params
  BY TypeParts, PickupAssumption DEF ValueType, Settings, SlotTypes
<1>2. value'[deck] = [p \in 1..Params |-> IF \E j \in Slots : Writes(j) /\ id[j] = p
                                          THEN Kept[p][knob[CHOOSE j \in Slots : id[j] = p]]
                                          ELSE value[deck][p]]
  BY <1>1 DEF KnobPass
<1>3. \A j \in Slots : id[j] = id[k] => j = k
  BY OneKnob DEF PickupInv
<1>4. (CHOOSE j \in Slots : id[j] = id[k]) = k
  BY <1>3
<1>5. (\E j \in Slots : Writes(j) /\ id[j] = id[k]) <=> Writes(k)
  BY <1>3
<1>6. Current(k) = value[deck][id[k]]
  BY DEF Current, ValueAt
<1>7. value'[deck][id[k]] = IF \E j \in Slots : Writes(j) /\ id[j] = id[k]
                            THEN Kept[id[k]][knob[CHOOSE j \in Slots : id[j] = id[k]]]
                            ELSE value[deck][id[k]]
  BY <1>1, <1>2
<1> QED
  BY <1>4, <1>5, <1>6, <1>7

LEMMA PassValueType == ASSUME PickupInv, KnobPass PROVE ValueType'
<1> DEFINE New == [p \in 1..Params |-> IF \E j \in Slots : Writes(j) /\ id[j] = p
                                       THEN Kept[p][knob[CHOOSE j \in Slots : id[j] = p]]
                                       ELSE value[deck][p]]
<1>1. deck \in Decks /\ value \in Settings /\ knob \in [Slots -> Travel]
  BY TypeParts DEF ValueType, Settings, OtherTypes
<1>2. value' = [value EXCEPT ![deck] = New]
  BY DEF KnobPass
<1>3. ASSUME NEW p \in 1..Params PROVE New[p] \in Travel /\ Kept[p][New[p]] = New[p]
  <2>1. CASE \E j \in Slots : Writes(j) /\ id[j] = p
    <3>1. (CHOOSE j \in Slots : id[j] = p) \in Slots
      BY <2>1
    <3> QED
      BY <1>1, <2>1, <3>1, KeptAssumption DEF Travel
  <2>2. CASE ~\E j \in Slots : Writes(j) /\ id[j] = p
    BY <1>1, <2>2 DEF Settings
  <2> QED
    BY <2>1, <2>2
<1>4. New \in [1..Params -> Travel] /\ \A p \in 1..Params : Kept[p][New[p]] = New[p]
  BY <1>3
<1> HIDE DEF New
<1> QED
  BY <1>1, <1>2, <1>4 DEF ValueType, Settings

LEMMA CurrentType == ASSUME PickupInv, NEW k \in Slots PROVE Current(k) \in Travel
<1>1. deck \in Decks /\ value \in [Decks -> [1..Params -> Travel]] /\ id[k] \in 0..Params
  BY TypeParts DEF ValueType, Settings, SlotTypes
<1> QED
  BY <1>1, PickupAssumption DEF Current, ValueAt, Travel

\* The engine reads back what it keeps of its own value.
LEMMA CurrentKept ==
    ASSUME PickupInv, NEW k \in Slots, id[k] # 0 PROVE Kept[id[k]][Current(k)] = Current(k)
<1>1. deck \in Decks /\ value \in Settings /\ id[k] \in 1..Params
  BY TypeParts, PickupAssumption DEF ValueType, SlotTypes
<1> QED
  BY <1>1 DEF Current, ValueAt, Settings

\* What is not the knobs' parameters, after a pass.
LEMMA PassOthers ==
    ASSUME PickupInv, KnobPass PROVE PageType' /\ deck' \in Decks /\ OtherTypes' /\ PrimedByPoll'
<1> USE TypeParts DEF KnobPass
<1>1. PageType' /\ deck' \in Decks
  BY DEF PageType, TotalPages, Pages
<1>2. OtherTypes'
  <2>1. lastKnob' \in [Slots -> Travel]
    BY DEF OtherTypes
  <2>2. prev' \in [Slots -> -1..Top] /\ knob' \in [Slots -> Travel]
    BY PickupAssumption DEF OtherTypes, Travel
  <2> QED
    BY <2>1, <2>2 DEF OtherTypes
<1>3. PrimedByPoll'
  BY PickupAssumption DEF PrimedByPoll, OtherTypes, Travel
<1> QED
  BY <1>1, <1>2, <1>3

\* A knob that is in catch after a pass was polled in it.
LEMMA PassCatches ==
    ASSUME KnobPass, deck \notin reseed, NEW k \in Slots, id[k] # 0,
           k \notin suspended' \cup resume', caught'[k]
    PROVE  Polled(k) /\ (caught[k] \/ Catches(k))
BY DEF KnobPass, Polled, Resuming, Active

\* It is within the deadband of what it wrote, and what it wrote is the engine's value
\* unless the selector moved that.
LEMMA PassSlots ==
    ASSUME PickupInv, KnobPass, deck \notin reseed, NEW k \in Slots, id[k] # 0,
           k \notin suspended' \cup resume', caught'[k]
    PROVE  /\ Distance(knob[k], written'[k]) <= Deadband
           /\ ~Behind(k) => Kept[id[k]][written'[k]] = value'[deck][id[k]]
<1>1. Polled(k) /\ (caught[k] \/ Catches(k))
  BY PassCatches
<1>2. written'[k] = IF Writes(k) THEN knob[k] ELSE Reference(k)
  BY DEF KnobPass
<1>3. Writes(k) <=> Distance(knob[k], Reference(k)) > Deadband
  BY <1>1 DEF Writes
<1>4. knob[k] \in Int /\ Reference(k) \in Int /\ Deadband \in Nat
  <2>1. knob[k] \in Travel /\ written[k] \in Travel /\ Current(k) \in Travel
    BY TypeParts, CurrentType DEF OtherTypes, SlotTypes
  <2> QED
    BY <2>1, PickupAssumption DEF Travel, Reference
<1>5. Distance(knob[k], written'[k]) <= Deadband
  BY <1>2, <1>3, <1>4 DEF Distance
<1>6. ASSUME ~Behind(k) PROVE Kept[id[k]][Reference(k)] = Current(k)
  <2>1. CASE Catches(k)
    BY <2>1, CurrentKept DEF Reference
  <2>2. CASE ~Catches(k)
    <3>1. k \notin suspended \cup resume
      BY <1>1 DEF Polled, Active
    <3>2. Kept[id[k]][written[k]] = Current(k)
      BY <1>1, <1>6, <2>2, <3>1 DEF PickupInv, Inv, ReferenceIsValue
    <3> QED
      BY <2>2, <3>2 DEF Reference
  <2> QED
    BY <2>1, <2>2
<1>7. value'[deck][id[k]] = IF Writes(k) THEN Kept[id[k]][knob[k]] ELSE Current(k)
  BY PassWrites
<1> QED
  BY <1>2, <1>5, <1>6, <1>7

\* A reading on the other side of the value is a crossing, and catches.
LEMMA PassSearches ==
    ASSUME PickupInv, KnobPass, deck \notin reseed, NEW k \in Slots
    PROVE  sides'[k] \subseteq Search(k)'
<1>1. /\ id' = id /\ deck' = deck /\ primed' = TRUE
      /\ caught'[k] = (~Resuming(k) /\ (caught[k] \/ Catches(k)))
      /\ lastKnob'[k] = IF Active(k) THEN knob[k] ELSE lastKnob[k]
      /\ sides'[k] = IF caught'[k] THEN {}
                     ELSE IF Resuming(k) THEN SideOf(knob[k], Current(k))
                     ELSE IF Polled(k) THEN sides[k] \cup SideOf(knob[k], Current(k))
                     ELSE sides[k]
  BY DEF KnobPass
<1>2. sides[k] \subseteq Search(k)
  BY DEF PickupInv, OneSide
<1>3. CASE caught'[k]
  BY <1>1, <1>3
<1>4. CASE id[k] = 0
  BY <1>1, <1>2, <1>4 DEF Search, Resuming, Polled, Active
<1>5. CASE ~caught'[k] /\ id[k] # 0
  <2>1. ~Writes(k)
    BY <1>1, <1>5 DEF Writes, Polled, Resuming
  <2>2. Current(k)' = Current(k)
    <3>1. value'[deck][id[k]] = Current(k)
      BY <1>5, <2>1, PassWrites
    <3> QED
      BY <1>1, <1>5, <3>1 DEF Current, ValueAt
  <2>3. Search(k)' = SideOf(lastKnob'[k], Current(k))
    BY <1>1, <1>5, <2>2 DEF Search
  <2>4. CASE Resuming(k)
    BY <1>1, <1>5, <2>3, <2>4 DEF Resuming
  <2>5. CASE Polled(k)
    <3>1. ~caught[k] /\ ~Catches(k) /\ ~Crossed(k) /\ lastKnob'[k] = knob[k]
      BY <1>1, <1>5, <2>5 DEF Polled, Resuming, Catches
    <3>2. knob[k] \in Int /\ lastKnob[k] \in Int /\ Current(k) \in Int
      BY TypeParts, CurrentType, PickupAssumption DEF OtherTypes, Travel
    <3>3. knob[k] # Current(k)
      <4>1. Distance(knob[k], Current(k)) > Window(Current(k))
        BY <2>5, <3>1, <3>2, PickupAssumption DEF Catches, Distance, Window
      <4> QED
        BY <3>2, <4>1, PickupAssumption DEF Distance, Window
    <3>4. sides[k] \subseteq SideOf(knob[k], Current(k))
      <4>1. CASE primed
        <5>1. sides[k] \subseteq SideOf(lastKnob[k], Current(k))
          BY <1>2, <1>5, <3>1, <4>1 DEF Search
        <5>2. lastKnob[k] < Current(k) => knob[k] < Current(k)
          BY <3>1, <3>2, <4>1 DEF Crossed
        <5>3. lastKnob[k] > Current(k) => knob[k] > Current(k)
          BY <3>1, <3>2, <4>1 DEF Crossed
        <5> QED
          BY <3>2, <5>1, <5>2, <5>3 DEF SideOf
      <4>2. CASE ~primed
        BY <1>2, <4>2 DEF Search
      <4> QED
        BY <4>1, <4>2
    <3> QED
      BY <1>1, <1>5, <2>3, <2>5, <3>1, <3>4 DEF Polled, Resuming
  <2>6. CASE ~Active(k)
    <3>1. ~caught[k] /\ lastKnob'[k] = lastKnob[k] /\ sides'[k] = sides[k]
      BY <1>1, <1>5, <2>6 DEF Polled, Resuming, Catches
    <3>2. sides[k] \subseteq SideOf(lastKnob[k], Current(k))
      BY <1>2, <1>5, <3>1 DEF Search
    <3> QED
      BY <2>3, <3>1, <3>2
  <2> QED
    BY <2>4, <2>5, <2>6 DEF Polled, Resuming
<1> QED
  BY <1>3, <1>4, <1>5

LEMMA PassKeeps == ASSUME PickupInv, KnobPass PROVE PickupInv'
<1>1. PageType' /\ deck' \in Decks /\ OtherTypes' /\ PrimedByPoll' /\ ValueType'
  BY PassOthers, PassValueType
<1>2. CASE deck \in reseed
  <2>1. Seed(page, deck) /\ page' = page /\ deck' = deck
    BY <1>2 DEF KnobPass
  <2>2. Seed(page', deck')
    BY <2>1
  <2> QED
    BY <1>1, <2>2, SeedKeeps
<1>3. CASE deck \notin reseed
  <2>0. OneSide'
    BY <1>3, PassSearches DEF OneSide
  <2>1. id' = id /\ deck' = deck /\ page' = page /\ suspended' = suspended /\ prev' = knob
        /\ caught' = [k \in Slots |-> ~Resuming(k) /\ (caught[k] \/ Catches(k))]
        /\ written' = [k \in Slots |-> IF Writes(k) THEN knob[k] ELSE Reference(k)]
    BY <1>3 DEF KnobPass
  <2>2. SlotTypes'
    <3>1. ASSUME NEW k \in Slots PROVE written'[k] \in Travel
      <4>1. knob[k] \in Travel /\ written[k] \in Travel /\ Current(k) \in Travel
        BY TypeParts, CurrentType DEF OtherTypes, SlotTypes
      <4> QED
        BY <2>1, <4>1 DEF Reference
    <3>2. written' \in [Slots -> Travel]
      BY <2>1, <3>1
    <3>3. caught' \in [Slots -> BOOLEAN]
      BY <2>1
    <3>4. sides' \in [Slots -> SUBSET {"below", "above"}]
      <4>1. DOMAIN sides' = Slots /\ sides' = [k \in Slots |-> sides'[k]]
        BY <1>3 DEF KnobPass
      <4>2. ASSUME NEW k \in Slots PROVE sides'[k] \subseteq {"below", "above"}
        BY <1>3, PassSearches DEF Search, SideOf
      <4> QED
        BY <4>1, <4>2
    <3> QED
      BY <2>1, <3>1, <3>2, <3>3, <3>4, TypeParts DEF SlotTypes
  <2>3. SlotsMatchPage'
    BY <2>1 DEF PickupInv, Inv, SlotsMatchPage, OnEnginePage, Pages
  <2>4. OfOnePage'
    BY <2>1 DEF PickupInv, OfOnePage
  <2>5. ReferenceIsValue'
    <3>1. ASSUME NEW k \in Slots, k \notin suspended' \cup resume', id'[k] # 0, caught'[k],
                 ~Behind(k)'
          PROVE  Kept[id'[k]][written'[k]] = Current(k)'
      <4>1. Kept[id[k]][written'[k]] = value'[deck][id[k]]
        BY <1>3, <2>1, <3>1, PassSlots DEF Behind
      <4> QED
        BY <2>1, <3>1, <4>1 DEF Current, ValueAt
    <3> QED
      BY <3>1 DEF ReferenceIsValue
  <2>6. LeftAtReference'
    <3>1. ASSUME NEW k \in Slots, k \notin suspended' \cup resume', id'[k] # 0, caught'[k]
          PROVE  prev'[k] # -1 /\ Distance(prev'[k], written'[k]) <= Deadband
      <4>1. Distance(knob[k], written'[k]) <= Deadband
        BY <1>3, <2>1, <3>1, PassSlots
      <4>2. knob[k] # -1
        BY TypeParts, PickupAssumption DEF OtherTypes, Travel
      <4> QED
        BY <2>1, <4>1, <4>2
    <3> QED
      BY <3>1 DEF LeftAtReference
  <2>7. PickupTypeOK'
    BY <1>1, <2>2 DEF PickupTypeOK, PageType, ValueType, Settings, SlotTypes, OtherTypes
  <2> QED
    BY <1>1, <2>0, <2>3, <2>4, <2>5, <2>6, <2>7 DEF PickupInv, Inv
<1> QED
  BY <1>2, <1>3

-----------------------------------------------------------------------------
(* Between two passes. *)

LEMMA PickupInvInit == PickupInit => PickupInv
<1> SUFFICES ASSUME PickupInit PROVE PickupInv
  OBVIOUS
<1>1. ASSUME NEW k \in Slots PROVE id[k] \in 0..Params /\ written[k] \in Travel
  <2>1. id[k] \in 0..Params
    BY ParamAtType DEF PickupInit
  <2> QED
    BY <2>1, PickupAssumption DEF PickupInit, ValueAt, Settings, Travel
<1>2. SlotTypes
  BY <1>1 DEF PickupInit, SlotTypes
<1>3. PickupTypeOK
  <2>1. lastKnob \in [Slots -> Travel] /\ prev \in [Slots -> -1..Top]
    <3>1. 0 \in Travel /\ -1 \in -1..Top
      BY PickupAssumption DEF Travel
    <3> QED
      BY <3>1 DEF PickupInit
  <2> QED
    BY <1>2, <2>1 DEF PickupInit, PickupTypeOK, SlotTypes
<1>4. SlotsMatchPage /\ ReferenceIsValue /\ LeftAtReference /\ OfOnePage /\ PrimedByPoll
      /\ OneSide
  BY DEF PickupInit, SlotsMatchPage, ReferenceIsValue, LeftAtReference, OfOnePage, PrimedByPoll,
         OneSide
<1> QED
  BY <1>3, <1>4 DEF PickupInv, Inv

LEMMA SetPageKeeps ==
    ASSUME PickupInv, NEW inc \in {-1, 1}, SetPage(inc) PROVE PickupInv'
<1> USE TypeParts DEF SetPage, lent
<1>1. PageType'
  <2>1. page' \in 0..(TotalPages - 1)
    BY PageTurns
  <2> QED
    BY <2>1 DEF PageType, TotalPages, Pages
<1>2. deck' \in Decks /\ ValueType' /\ OtherTypes' /\ PrimedByPoll'
  BY DEF ValueType, Settings, OtherTypes, PickupInv, PrimedByPoll
<1>3. CASE OnEnginePage(page')
  <2>1. UNCHANGED <<slots, sides>>
    BY <1>3
  <2>2. PickupTypeOK'
    BY <1>1, <1>2, <2>1 DEF PickupTypeOK, PageType, ValueType, Settings, OtherTypes, SlotTypes, slots
  <2>3. SlotsMatchPage'
    BY <1>3 DEF SlotsMatchPage, OnEnginePage, Pages
  <2>4. ReferenceIsValue' /\ OfOnePage' /\ LeftAtReference' /\ OneSide'
    BY <1>3, <2>1 DEF PickupInv, Inv, ReferenceIsValue, OfOnePage, LeftAtReference, Behind,
                      Current, ValueAt, OneSide, Search, slots
  <2> QED
    BY <1>2, <2>2, <2>3, <2>4 DEF PickupInv, Inv
<1>4. CASE ~OnEnginePage(page')
  <2>1. Seed(page', deck')
    BY <1>4 DEF Seed
  <2> QED
    BY <1>1, <1>2, <2>1, SeedKeeps
<1> QED
  BY <1>3, <1>4

LEMMA SetDeckKeeps == ASSUME PickupInv, NEW d \in Decks, SetDeck(d) PROVE PickupInv'
<1> USE TypeParts DEF SetDeck, lent
<1>1. PageType' /\ deck' \in Decks /\ ValueType' /\ OtherTypes' /\ PrimedByPoll'
  BY DEF PageType, TotalPages, Pages, ValueType, Settings, OtherTypes, PickupInv, PrimedByPoll
<1>2. Seed(page', deck')
  BY DEF Seed
<1> QED
  BY <1>1, <1>2, SeedKeeps

\* Another value of one parameter of the deck.
LEMMA OneValue ==
    ASSUME ValueType, deck \in Decks, NEW p \in 1..Params, NEW v \in Travel,
           value' = [value EXCEPT ![deck][p] = Kept[p][v]]
    PROVE  /\ ValueType'
           /\ \A q \in 1..Params : q # p => value'[deck][q] = value[deck][q]
<1>1. PICK w \in Travel : w = Kept[p][v] /\ Kept[p][w] = w
  BY KeptAssumption DEF Travel
<1> QED
  BY <1>1 DEF ValueType, Settings

\* Another value of parameter p leaves the search of every other knob as it is.
LEMMA ForgetKeeps ==
    ASSUME PickupInv, NEW p \in 0..Params, Forget(p), UNCHANGED <<deck, slots, lastKnob, primed>>,
           \A q \in 1..Params : q # p => value'[deck][q] = value[deck][q]
    PROVE  OneSide' /\ sides' \in [Slots -> SUBSET {"below", "above"}]
<1>1. ASSUME NEW k \in Slots
      PROVE  sides'[k] \subseteq Search(k)' /\ sides'[k] \subseteq {"below", "above"}
  <2>1. sides[k] \subseteq Search(k) /\ sides'[k] = IF id[k] = p THEN {} ELSE sides[k]
    BY DEF PickupInv, OneSide, Forget
  <2>2. CASE id[k] = p
    BY <2>1, <2>2
  <2>3. CASE id[k] # p
    <3>1. CASE id[k] = 0
      BY <2>1, <2>3, <3>1 DEF Search
    <3>2. CASE id[k] # 0
      <4>1. id[k] \in 1..Params
        BY <3>2, TypeParts, PickupAssumption DEF SlotTypes
      <4>2. Search(k)' = Search(k)
        BY <2>3, <4>1 DEF Search, Current, ValueAt, slots
      <4> QED
        BY <2>1, <2>3, <4>2 DEF Search, SideOf
    <3> QED
      BY <3>1, <3>2
  <2> QED
    BY <2>2, <2>3
<1> QED
  BY <1>1 DEF OneSide, Forget

LEMMA FireConfigKeeps ==
    ASSUME PickupInv, NEW p \in 1..Params, NEW v \in Travel, FireConfig(p, v) PROVE PickupInv'
<1> USE TypeParts DEF FireConfig, lent
<1>1. ValueType'
  BY OneValue
<1>2. PageType' /\ deck' \in Decks /\ OtherTypes' /\ PrimedByPoll'
  BY DEF PageType, TotalPages, Pages, OtherTypes, PickupInv, PrimedByPoll
<1>3. Seed(page', deck')
  BY DEF Seed
<1> QED
  BY <1>1, <1>2, <1>3, SeedKeeps

\* While a re-seed is asked for, the knobs are promised nothing.
LEMMA RepointKeeps ==
    ASSUME PickupInv, NEW p \in 1..Params, NEW v \in Travel, Repoint(p, v) PROVE PickupInv'
<1> USE TypeParts DEF Repoint, lent, slots
<1>1. ValueType'
  BY OneValue
<1>2. PickupTypeOK'
  <2>1. sides' \in [Slots -> SUBSET {"below", "above"}]
    BY OneValue, ForgetKeeps
  <2> QED
    BY <1>1, <2>1 DEF PickupTypeOK, ValueType, PageType, TotalPages, Pages, SlotTypes, OtherTypes
<1>3. SlotsMatchPage' /\ ReferenceIsValue'
  BY DEF PickupInv, Inv, SlotsMatchPage, ReferenceIsValue, OnEnginePage, Pages
<1>4. OfOnePage' /\ PrimedByPoll' /\ LeftAtReference'
  BY DEF PickupInv, OfOnePage, PrimedByPoll, LeftAtReference
<1>5. OneSide'
  BY OneValue, ForgetKeeps
<1> QED
  BY <1>2, <1>3, <1>4, <1>5 DEF PickupInv, Inv

\* The selector moves only its parameter, which no knob has but the lent one and those
\* it may move behind.
LEMMA TurnAuxKeeps == ASSUME PickupInv, NEW v \in Travel, TurnAux(v) PROVE PickupInv'
<1> USE TypeParts DEF TurnAux, lent, slots
<1>1. ValueType' /\ \A q \in 1..Params : q # AuxParam => value'[deck][q] = value[deck][q]
  <2>1. CASE AuxParam \in 1..Params
    BY <2>1, OneValue
  <2>2. CASE AuxParam \notin 1..Params
    <3>1. [value[deck] EXCEPT ![AuxParam] = Kept[AuxParam][v]] = value[deck]
      BY <2>2 DEF ValueType, Settings
    <3>2. value' = [value EXCEPT ![deck] = [value[deck] EXCEPT ![AuxParam] = Kept[AuxParam][v]]]
      OBVIOUS
    <3>3. value' = value
      BY <3>1, <3>2 DEF ValueType, Settings
    <3> QED
      BY <3>3 DEF ValueType, Settings
  <2> QED
    BY <2>1, <2>2
<1>2. PickupTypeOK'
  <2>1. sides' \in [Slots -> SUBSET {"below", "above"}]
    BY <1>1, ForgetKeeps, PickupAssumption
  <2> QED
    BY <1>1, <2>1 DEF PickupTypeOK, ValueType, PageType, TotalPages, Pages, SlotTypes, OtherTypes
<1>3. ReferenceIsValue'
  <2>1. ASSUME deck \notin reseed, NEW k \in Slots, k \notin suspended \cup resume,
               id[k] # 0, caught[k], ~Behind(k)
        PROVE  Kept[id'[k]][written'[k]] = Current(k)'
    <3>1. suspended = {1}
      BY DEF OtherTypes
    <3>2. id[k] \in 1..Params /\ id[k] # AuxParam
      BY <2>1, <3>1 DEF Behind, SlotTypes
    <3>3. value'[deck][id[k]] = value[deck][id[k]]
      BY <1>1, <3>2
    <3>4. Kept[id[k]][written[k]] = Current(k)
      BY <2>1 DEF PickupInv, Inv, ReferenceIsValue
    <3> QED
      BY <3>3, <3>4 DEF Current, ValueAt
  <2> QED
    BY <2>1 DEF ReferenceIsValue, Behind
<1>4. SlotsMatchPage' /\ OfOnePage' /\ PrimedByPoll' /\ LeftAtReference'
  BY DEF PickupInv, Inv, SlotsMatchPage, OnEnginePage, Pages, OfOnePage, PrimedByPoll, LeftAtReference
<1>5. OneSide'
  BY <1>1, ForgetKeeps, PickupAssumption
<1> QED
  BY <1>2, <1>3, <1>4, <1>5 DEF PickupInv, Inv

\* A turn of a knob, and the loan of one, leave the values and the slots alone.
LEMMA QuietKeeps ==
    ASSUME PickupInv, UNCHANGED <<value, page, deck, slots, lastKnob, primed, prev, sides>>,
           OtherTypes',
           suspended \cup resume \subseteq suspended' \cup resume', reseed' = reseed
    PROVE  PickupInv'
<1> USE TypeParts DEF slots
<1>1. PickupTypeOK'
  BY DEF PickupTypeOK, ValueType, Settings, PageType, TotalPages, Pages, SlotTypes, OtherTypes
<1>2. SlotsMatchPage' /\ OfOnePage' /\ PrimedByPoll'
  BY DEF PickupInv, Inv, SlotsMatchPage, OnEnginePage, Pages, OfOnePage, PrimedByPoll
<1>3. ReferenceIsValue' /\ LeftAtReference'
  BY DEF PickupInv, Inv, ReferenceIsValue, LeftAtReference, Current, ValueAt, Behind
<1>4. OneSide'
  BY DEF PickupInv, OneSide, Search, Current, ValueAt
<1> QED
  BY <1>1, <1>2, <1>3, <1>4 DEF PickupInv, Inv

LEMMA PickupInvStep == PickupInv /\ [PickupNext]_pickupVars => PickupInv'
<1> SUFFICES ASSUME PickupInv, [PickupNext]_pickupVars PROVE PickupInv'
  OBVIOUS
<1>1. ASSUME NEW k \in Slots, NEW position \in Travel, Turn(k, position) PROVE PickupInv'
  BY <1>1, QuietKeeps, TypeParts DEF Turn, OtherTypes, lent
<1>2. ASSUME NEW inc \in {-1, 1}, SetPage(inc) PROVE PickupInv'
  BY <1>2, SetPageKeeps
<1>3. ASSUME NEW d \in Decks, SetDeck(d) PROVE PickupInv'
  BY <1>3, SetDeckKeeps
<1>4. ASSUME NEW p \in 1..Params, NEW v \in Travel, FireConfig(p, v) PROVE PickupInv'
  BY <1>4, FireConfigKeeps
<1>5. ASSUME NEW p \in 1..Params, NEW v \in Travel, Repoint(p, v) PROVE PickupInv'
  BY <1>5, RepointKeeps
<1>6. CASE Hold
  BY <1>6, QuietKeeps, TypeParts DEF Hold, OtherTypes, lent
<1>7. ASSUME NEW v \in Travel, TurnAux(v) PROVE PickupInv'
  BY <1>7, TurnAuxKeeps
<1>8. CASE Release
  BY <1>8, QuietKeeps, TypeParts DEF Release, OtherTypes, lent
<1>9. CASE KnobPass
  BY <1>9, PassKeeps
<1>10. CASE UNCHANGED pickupVars
  BY <1>10, QuietKeeps, TypeParts DEF pickupVars, OtherTypes, lent
<1> QED
  BY <1>1, <1>2, <1>3, <1>4, <1>5, <1>6, <1>7, <1>8, <1>9, <1>10 DEF PickupNext

LEMMA PickupInvariant == PickupSpec => []PickupInv
BY PickupInvInit, PickupInvStep, PTL DEF PickupSpec

\* The pickup's slots agree with the page and with the engine's own values, over page
\* turns, deck switches, loans and re-seeds (param_ui.h:110-155).
THEOREM SlotsAgree == PickupSpec => []Inv
BY PickupInvariant, PTL DEF PickupInv

-----------------------------------------------------------------------------
(* What a pass does to the parameters. *)

\* A knob that comes into catch is at its value or has passed over it.
LEMMA CatchEarns ==
    ASSUME PickupInv, NEW k \in Slots, Fresh(k), Catches(k) PROVE Earned(k)
<1>1. knob[k] \in Travel /\ lastKnob[k] \in Travel /\ prev[k] \in -1..Top /\ Deadband \in Nat
      /\ Current(k) \in Travel
  BY TypeParts, CurrentType, PickupAssumption DEF OtherTypes
<1>2. primed => prev[k] # -1
  BY DEF PickupInv, PrimedByPoll
<1>3. ASSUME Crossed(k) PROVE Passed(k, Current(k))
  <2>1. prev[k] # -1 /\ lastKnob[k] = prev[k]
    BY <1>2, <1>3 DEF Crossed, Fresh
  <2>2. PICK v \in Int : v = Current(k)
    BY <1>1 DEF Travel
  <2> QED
    BY <1>1, <1>3, <2>1, <2>2, PickupAssumption DEF Crossed, Passed, Travel
<1>4. ASSUME ~Crossed(k) PROVE Passed(k, Current(k))
  BY <1>4 DEF Catches, Passed
<1>5. Kept[id[k]][Current(k)] = Current(k)
  BY CurrentKept DEF Catches, Polled, Active
<1> QED
  BY <1>1, <1>3, <1>4, <1>5 DEF Earned

\* A knob in catch sets out from a position the engine keeps as its value.
LEMMA MoveEarns ==
    ASSUME PickupInv, deck \notin reseed, NEW k \in Slots, caught[k], Writes(k), ~Behind(k)
    PROVE  Earned(k)
<1>1. knob[k] \in Travel /\ prev[k] \in -1..Top /\ Deadband \in Nat /\ written[k] \in Travel
  BY TypeParts, PickupAssumption DEF OtherTypes, SlotTypes
<1>2. Polled(k) /\ ~Catches(k)
  BY DEF Writes, Catches
<1>3. k \notin suspended \cup resume /\ id[k] # 0
  BY <1>2 DEF Polled, Active
<1>4. Kept[id[k]][written[k]] = Current(k)
  BY <1>3 DEF PickupInv, Inv, ReferenceIsValue
<1>5. prev[k] # -1 /\ Distance(prev[k], written[k]) <= Deadband
  BY <1>3 DEF PickupInv, LeftAtReference
<1>6. Distance(knob[k], written[k]) > Deadband
  BY <1>2 DEF Writes, Reference
<1>7. Passed(k, written[k])
  <2>1. PICK v \in Int : v = written[k]
    BY <1>1 DEF Travel
  <2> QED
    BY <1>1, <1>5, <1>6, <2>1, PickupAssumption DEF Passed, Distance, Travel
<1> QED
  BY <1>1, <1>4, <1>7 DEF Earned

\* A parameter is only ever carried along by a knob that is at its value or passes over
\* it (param_ui.h:69-95, 147-190; host/test_param_ui.cpp:104).
THEOREM NothingJumps == PickupSpec => NoJump
<1>1. PickupInv /\ [PickupNext]_pickupVars =>
        [KnobPass /\ deck \notin reseed =>
            \A k \in Slots : Fresh(k) /\ ~Behind(k) => Earnest(k)]_pickupVars
  <2> SUFFICES ASSUME PickupInv, KnobPass, deck \notin reseed, NEW k \in Slots, Fresh(k), ~Behind(k),
                      id[k] # 0, value'[deck][id[k]] # value[deck][id[k]]
               PROVE  Earned(k)
    BY DEF Earnest
  <2>1. Writes(k)
    BY PassWrites DEF Current, ValueAt
  <2>2. caught[k] \/ Catches(k)
    BY <2>1 DEF Writes
  <2> QED
    BY <2>1, <2>2, CatchEarns, MoveEarns
<1> QED
  BY <1>1, PickupInvariant, PTL DEF PickupSpec, NoJump

\* A knob is never dead: one read below its parameter's value at one poll and above it
\* at another, with anything in between that leaves it waiting, is in catch
\* (param_ui.h:69-81, 147-178).
THEOREM SweepsCatch == PickupSpec => []SweepCatches
<1>1. PickupInv => SweepCatches
  <2> SUFFICES ASSUME PickupInv, NEW k \in Slots PROVE sides[k] # {"below", "above"}
    BY DEF SweepCatches
  <2>1. sides[k] \subseteq Search(k)
    BY DEF PickupInv, OneSide
  <2>2. Search(k) # {"below", "above"} /\ ~({"below", "above"} \subseteq Search(k))
    BY DEF Search, SideOf
  <2> QED
    BY <2>1, <2>2
<1> QED
  BY <1>1, PickupInvariant, PTL

-----------------------------------------------------------------------------
(* The action screen. *)

\* Where a switch was last sent is where it is; an engine that reports it has a
\* position to report from then on.
Remembered ==
    /\ \A c \in engine.live, d \in BothDecks : cfg[c][d] # Unset =>
          real[c][d] # Unset /\ (c \in engine.reports \/ real[c][d] = cfg[c][d])
    /\ \A f \in Effects, d \in BothDecks : fx[f][d] # Unset => fx[f][d] = heldFx[f][d]

\* Both decks are on one Route.
RouteIsGlobal == real["Route"]["A"] = real["Route"]["B"]

\* What changed the selector or the tempo turned.
WroteTurned == wrote => turned

ScreenIInv == ScreenTypeOK /\ Remembered /\ RouteIsGlobal /\ WroteTurned

-----------------------------------------------------------------------------
(* The list. *)

\* The rows of a list that are no switch and no pad, and all rows it may have.
Fixed == {"back", "deck", "clk in"}
RowsOf(e) == Fixed \cup Pads \cup e.live

\* A list of these rows that starts with "back".
Starts(s, S) == s \in Seq(S) /\ Len(s) \in Nat \ {0} /\ s[1] = "back"

\* The list is never empty, and has the engine's own rows only.
LEMMA RowsFacts ==
    ASSUME NEW e \in Engines
    PROVE  Rows(e) \in Seq(RowsOf(e)) /\ Len(Rows(e)) \in Nat \ {0} /\ Rows(e)[1] = "back"
<1>1. e \in Engine
  BY ActionScreenAssumption
<1>2. e.pads \in Seq(Pads) /\ e.live \subseteq Ids
  BY <1>1 DEF Engine
<1> DEFINE S == RowsOf(e)
<1>3. e.pads \in Seq(S) /\ <<"back">> \in Seq(S) /\ <<"clk in">> \in Seq(S)
  <2>1. Pads \subseteq S /\ "back" \in S /\ "clk in" \in S
    BY DEF RowsOf, Fixed
  <2> HIDE DEF S
  <2>2. e.pads \in Seq(S)
    BY <1>2, <2>1, SeqMonotonic
  <2>3. \A x \in S : <<x>> \in Seq(S)
    OBVIOUS
  <2> QED
    BY <2>1, <2>2, <2>3
<1>4. \A c, b : (b => c \in S) => Listed(c, b) \in Seq(S)
  BY DEF Listed
<1>5. PICK s1, s2, s3, s4, s5, s6, s7 :
        /\ s1 = Listed("deck", e.dual)
        /\ s2 = Listed("Route", "Route" \in e.live) /\ s3 = Listed("ModType", "ModType" \in e.live)
        /\ s4 = Listed("LfoShape", "LfoShape" \in e.live) /\ s5 = Listed("Mode", "Mode" \in e.live)
        /\ s6 = Listed("StartModOn", "StartModOn" \in e.live)
        /\ s7 = Listed("SizeModOn", "SizeModOn" \in e.live)
  OBVIOUS
<1>6. /\ s1 \in Seq(S) /\ s2 \in Seq(S) /\ s3 \in Seq(S) /\ s4 \in Seq(S)
      /\ s5 \in Seq(S) /\ s6 \in Seq(S) /\ s7 \in Seq(S)
  <2>1. "deck" \in S /\ \A c \in e.live : c \in S
    BY DEF RowsOf, Fixed
  <2> QED
    BY <1>4, <1>5, <2>1
<1>7. Rows(e) = <<"back">> \o e.pads \o s1 \o s2 \o s3 \o s4 \o s5 \o s6 \o s7 \o <<"clk in">>
  BY <1>5 DEF Rows
<1> HIDE DEF S
<1>8. Starts(<<"back">>, S)
  <2>1. PICK s : s = <<"back">>
    OBVIOUS
  <2>2. Len(s) = 1 /\ s[1] = "back"
    BY <2>1
  <2>3. s \in Seq(S)
    BY <1>3, <2>1, Zenon
  <2>4. Starts(s, S)
    BY <2>2, <2>3 DEF Starts
  <2> QED
    BY <2>1, <2>4, Zenon
<1>9. ASSUME NEW s, NEW t, Starts(s, S), t \in Seq(S) PROVE Starts(s \o t, S)
  <2>1. s \in Seq(S) /\ Len(s) \in Nat \ {0} /\ s[1] = "back"
    BY <1>9 DEF Starts
  <2>2. /\ s \o t \in Seq(S) /\ Len(s \o t) = Len(s) + Len(t)
        /\ \A n \in 1..Len(s) + Len(t) :
              (s \o t)[n] = IF n <= Len(s) THEN s[n] ELSE t[n - Len(s)]
    BY <1>9, <2>1, ConcatProperties
  <2>3. Len(t) \in Nat
    BY <1>9
  <2>4. 1 \in 1..Len(s) + Len(t) /\ 1 <= Len(s) /\ Len(s) + Len(t) \in Nat \ {0}
    BY <2>1, <2>3
  <2>5. (s \o t)[1] = "back"
    BY <2>1, <2>2, <2>4
  <2> QED
    BY <2>2, <2>4, <2>5 DEF Starts
<1>10. Starts(Rows(e), S)
  BY <1>3, <1>6, <1>7, <1>8, <1>9
<1> QED
  BY <1>10 DEF S, Starts

\* Where the list has such a row, the first such place is one.
LEMMA FirstFacts ==
    ASSUME NEW e \in Engines, NEW S, Places(Rows(e), S) # {}
    PROVE  First(Rows(e), S) \in DOMAIN Rows(e) /\ Rows(e)[First(Rows(e), S)] \in S
<1> DEFINE P == Places(Rows(e), S)
<1>1. P \subseteq DOMAIN Rows(e) /\ \A n \in P : Rows(e)[n] \in S
  BY DEF Places
<1>2. P \subseteq Nat
  <2>1. DOMAIN Rows(e) = 1..Len(Rows(e)) /\ Len(Rows(e)) \in Nat
    BY RowsFacts
  <2> QED
    BY <1>1, <2>1
<1>3. \E n \in P : \A m \in P : n <= m
  <2>1. P # {}
    OBVIOUS
  <2> HIDE DEF P
  <2> QED
    BY <1>2, <2>1, LeastExists
<1>4. First(Rows(e), S) \in P
  BY <1>3 DEF First
<1> QED
  BY <1>1, <1>4

\* The cursor moves within the list.
LEMMA WrapFacts ==
    ASSUME engine \in Engines, NEW n \in Int
    PROVE  /\ Wrap(n) \in DOMAIN Rows(engine)
           /\ n \in DOMAIN Rows(engine) => Wrap(n) = n
<1>1. PICK l \in Nat \ {0} : l = Len(Rows(engine)) /\ DOMAIN Rows(engine) = 1..l
  BY RowsFacts
<1>2. Wrap(n) = ((n - 1) % l) + 1
  BY <1>1 DEF Wrap
<1>3. (n - 1) % l \in 0..l-1 /\ (n \in 1..l => (n - 1) % l = n - 1)
  OBVIOUS
<1> QED
  BY <1>1, <1>2, <1>3

\* A row that a click may be spent on: it changes no setting that there is.
Harmless(row) ==
    \/ row = "back" \/ row \in Pads
    \/ row \in Ids /\ \A d \in BothDecks : d \in ForDecks(row) => real[row][d] = Unset

\* A build that reports a switch of its list reports them all.
Tells(e) == e.live \cap e.reports # {} => e.live \subseteq e.reports

LEMMA FirstRowFacts ==
    ASSUME ScreenIInv
    PROVE  /\ FirstUsefulRow(Rows(engine)) \in DOMAIN Rows(engine)
           /\ Tells(engine) => Harmless(Rows(engine)[FirstUsefulRow(Rows(engine))])
<1> DEFINE says   == {c \in Ids : Reported(c, focus) # Unset}
           silent == Ids \ says
           rows   == Rows(engine)
<1>1. engine \in Engines /\ engine \in Engine /\ focus \in BothDecks
  BY ActionScreenAssumption DEF ScreenIInv, ScreenTypeOK
<1>2. /\ rows \in Seq(RowsOf(engine)) /\ Len(rows) \in Nat \ {0} /\ DOMAIN rows = 1..Len(rows)
      /\ rows[1] = "back"
  BY <1>1, RowsFacts
<1>3. engine.live \subseteq Ids /\ engine.pads \in Seq(Pads) /\ Momentary \subseteq Pads
  BY <1>1 DEF Engine, Momentary, Range
<1>4. CASE Places(rows, says) # {} /\ Places(rows, silent) # {}
  <2>1. PICK n : n = First(rows, silent)
    OBVIOUS
  <2>2. n \in DOMAIN rows /\ rows[n] \in silent
    BY <1>1, <1>4, <2>1, FirstFacts
  <2>3. PICK m \in DOMAIN rows : rows[m] \in says
    BY <1>4 DEF Places
  <2>4. rows[n] \in engine.live /\ rows[m] \in engine.live
    <3>1. rows[n] \in RowsOf(engine) /\ rows[m] \in RowsOf(engine)
      BY <1>2, <2>2, <2>3
    <3>2. rows[n] \in Ids /\ rows[m] \in Ids
      BY <2>2, <2>3
    <3> QED
      BY <3>1, <3>2 DEF RowsOf, Fixed, Pads, Effects, Ids
  <2>5. rows[m] \in engine.reports
    BY <2>3 DEF Reported
  <2>6. Tells(engine) => real[rows[n]][focus] = Unset
    BY <2>2, <2>4, <2>5 DEF Tells, Reported
  <2>7. real[rows[n]][focus] = Unset => Harmless(rows[n])
    BY <1>1, <2>2 DEF Harmless, ForDecks, ScreenIInv, RouteIsGlobal, BothDecks
  <2>8. FirstUsefulRow(rows) = n
    BY <1>4, <2>1 DEF FirstUsefulRow
  <2> QED
    BY <2>2, <2>6, <2>7, <2>8
<1>5. CASE ~(Places(rows, says) # {} /\ Places(rows, silent) # {})
  <2>1. PICK n : n = FirstUsefulRow(rows)
    OBVIOUS
  <2>2. CASE Places(rows, {"play"}) # {}
    <3>1. n = First(rows, {"play"})
      BY <1>5, <2>1, <2>2 DEF FirstUsefulRow
    <3>2. n \in DOMAIN rows /\ rows[n] \in {"play"}
      BY <1>1, <2>2, <3>1, FirstFacts
    <3> QED
      BY <2>1, <3>2 DEF Harmless, Pads
  <2>3. CASE Places(rows, {"play"}) = {} /\ Places(rows, Momentary) # {}
    <3>1. n = First(rows, Momentary)
      BY <1>5, <2>1, <2>3 DEF FirstUsefulRow
    <3>2. n \in DOMAIN rows /\ rows[n] \in Momentary
      BY <1>1, <2>3, <3>1, FirstFacts
    <3> QED
      BY <1>3, <2>1, <3>2 DEF Harmless
  <2>4. CASE Places(rows, {"play"}) = {} /\ Places(rows, Momentary) = {}
    <3>1. n = 1
      BY <1>5, <2>1, <2>4 DEF FirstUsefulRow
    <3> QED
      BY <1>2, <2>1, <3>1 DEF Harmless
  <2> QED
    BY <2>2, <2>3, <2>4
<1> QED
  BY <1>4, <1>5

-----------------------------------------------------------------------------
(* The switches and the effects: what a click does to them. *)

\* Part of the invariant: where the switches and the effects are, and what is remembered of them.
StateIInv ==
    /\ real \in [Ids -> [BothDecks -> -1..2]] /\ heldFx \in [Effects -> [BothDecks -> {0, 1}]]
    /\ focus \in BothDecks /\ cfg \in [Ids -> [BothDecks -> -1..2]]
    /\ \A c \in Ids, d \in BothDecks : cfg[c][d] < Span(c)
    /\ fx \in [Effects -> [BothDecks -> {Unset, 0, 1}]] /\ clockIn \in 0..ClockChoices-1
    /\ Remembered /\ RouteIsGlobal

\* Part of the invariant: the encoder and the list.
ListIInv ==
    /\ held \in BOOLEAN /\ turned \in BOOLEAN /\ wrote \in BOOLEAN
    /\ open \in BOOLEAN /\ seen \in BOOLEAN /\ virgin \in BOOLEAN
    /\ cursor \in DOMAIN Rows(engine) /\ idle \in 0..Idle /\ WroteTurned

LEMMA IInvParts == ScreenIInv <=> engine \in Engines /\ StateIInv /\ ListIInv
BY DEF ScreenIInv, ScreenTypeOK, StateIInv, ListIInv

\* A write is for one switch on some decks.
LEMMA PutFacts ==
    ASSUME NEW I, NEW T, NEW f, NEW c, NEW S, NEW v,
           f \in [I -> [BothDecks -> T]], c \in I, v \in T
    PROVE  /\ Put(f, c, S, v) \in [I -> [BothDecks -> T]]
           /\ \A x \in I, d \in BothDecks :
                 Put(f, c, S, v)[x][d] = IF x = c /\ d \in S THEN v ELSE f[x][d]
<1>1. PICK g : g = [d \in BothDecks |-> IF d \in S THEN v ELSE f[c][d]]
  OBVIOUS
<1>2. g \in [BothDecks -> T]
  BY <1>1
<1>3. Put(f, c, S, v) = [f EXCEPT ![c] = g]
  BY <1>1 DEF Put
<1>4. Put(f, c, S, v) \in [I -> [BothDecks -> T]]
  BY <1>2, <1>3
<1>5. \A x \in I : Put(f, c, S, v)[x] = IF x = c THEN g ELSE f[x]
  BY <1>3
<1> QED
  BY <1>1, <1>4, <1>5

\* A click takes a switch to a position of its span, and the engine to one it tells apart.
LEMMA NextFacts ==
    ASSUME engine \in Engines, StateIInv, NEW c \in Ids
    PROVE  /\ NextPosition(c) \in 0..2 /\ NextPosition(c) < Span(c)
           /\ Taken(c, NextPosition(c)) \in 0..2
           /\ c \in engine.live \ engine.reports => Taken(c, NextPosition(c)) = NextPosition(c)
<1>1. /\ engine.kept[c] \in 1..3 /\ engine.kept[c] <= Span(c)
      /\ c \in engine.live \ engine.reports => engine.kept[c] = Span(c)
  BY ActionScreenAssumption DEF Engine
<1>2. Span(c) \in {2, 3}
  BY DEF Span
<1>3. Shown(c, focus) \in -1..2
  BY DEF StateIInv, Shown, Reported, Unset
<1>4. PICK k \in {2, 3} : k = Span(c)
  BY <1>2
<1>5. PICK n : n = NextPosition(c)
  OBVIOUS
<1>6. n \in 0..2 /\ n < k
  <2>1. CASE Shown(c, focus) = Unset
    BY <1>4, <1>5, <2>1 DEF NextPosition
  <2>2. CASE Shown(c, focus) # Unset
    <3>1. PICK m \in 0..2 : m = Shown(c, focus)
      BY <1>3, <2>2 DEF Unset
    <3>2. n = (m + 1) % k
      BY <1>4, <1>5, <2>2, <3>1 DEF NextPosition
    <3> QED
      BY <3>2
  <2> QED
    BY <2>1, <2>2
<1> QED
  BY <1>1, <1>4, <1>5, <1>6 DEF Taken

\* A click on a switch.
LEMMA SwitchFacts ==
    ASSUME engine \in Engines, StateIInv, NEW c \in Ids, FireSwitch(c), engine' = engine
    PROVE  /\ StateIInv'
           /\ \A x \in Ids, d \in BothDecks :
                 real'[x][d] # real[x][d] => x = c /\ d \in ForDecks(c)
<1> DEFINE n == NextPosition(c)
           t == Taken(c, n)
           D == ForDecks(c)
<1>1. n \in -1..2 /\ n < Span(c) /\ t \in -1..2 /\ t # Unset
  BY NextFacts DEF Unset
<1>2. c \in engine.live \ engine.reports => t = n
  BY NextFacts
<1>3. cfg' = Put(cfg, c, D, n) /\ real' = Put(real, c, D, t)
  BY DEF FireSwitch, ForDecks
<1>4. UNCHANGED <<heldFx, focus, fx, clockIn>>
  BY DEF FireSwitch
<1>5. real \in [Ids -> [BothDecks -> -1..2]] /\ cfg \in [Ids -> [BothDecks -> -1..2]]
  BY DEF StateIInv
<1> HIDE DEF n, t, D
<1>6. /\ real' \in [Ids -> [BothDecks -> -1..2]] /\ cfg' \in [Ids -> [BothDecks -> -1..2]]
      /\ \A x \in Ids, d \in BothDecks :
            /\ real'[x][d] = IF x = c /\ d \in D THEN t ELSE real[x][d]
            /\ cfg'[x][d] = IF x = c /\ d \in D THEN n ELSE cfg[x][d]
  <2>1. PICK T : T = -1..2
    OBVIOUS
  <2>2. /\ real \in [Ids -> [BothDecks -> T]] /\ cfg \in [Ids -> [BothDecks -> T]]
        /\ n \in T /\ t \in T
    BY <1>1, <1>5, <2>1
  <2>3. PICK E : E = D
    OBVIOUS
  <2>4. Put(real, c, E, t) \in [Ids -> [BothDecks -> T]]
    BY <2>2, PutFacts
  <2>5. \A x \in Ids, d \in BothDecks :
           Put(real, c, E, t)[x][d] = IF x = c /\ d \in E THEN t ELSE real[x][d]
    BY <2>2, PutFacts
  <2>6. Put(cfg, c, E, n) \in [Ids -> [BothDecks -> T]]
    BY <2>2, PutFacts
  <2>7. \A x \in Ids, d \in BothDecks :
           Put(cfg, c, E, n)[x][d] = IF x = c /\ d \in E THEN n ELSE cfg[x][d]
    BY <2>2, PutFacts
  <2> QED
    BY <1>3, <2>1, <2>3, <2>4, <2>5, <2>6, <2>7
<1>7. \A x \in Ids, d \in BothDecks : cfg'[x][d] < Span(x)
  BY <1>1, <1>6 DEF StateIInv
<1>8. Remembered'
  <2>1. ASSUME NEW x \in engine.live, NEW d \in BothDecks, cfg'[x][d] # Unset
        PROVE  real'[x][d] # Unset /\ (x \in engine.reports \/ real'[x][d] = cfg'[x][d])
    <3>1. x \in Ids
      BY ActionScreenAssumption DEF Engine
    <3>2. CASE x = c /\ d \in D
      BY <1>1, <1>2, <1>6, <3>1, <3>2
    <3>3. CASE ~(x = c /\ d \in D)
      BY <1>6, <2>1, <3>1, <3>3 DEF StateIInv, Remembered
    <3> QED
      BY <3>2, <3>3
  <2>2. \A f \in Effects, d \in BothDecks : fx'[f][d] # Unset => fx'[f][d] = heldFx'[f][d]
    BY <1>4 DEF StateIInv, Remembered
  <2> QED
    BY <2>1, <2>2 DEF Remembered
<1>9. RouteIsGlobal'
  <2>1. "Route" \in Ids /\ "A" \in BothDecks /\ "B" \in BothDecks
    BY DEF Ids, BothDecks
  <2>2. c = "Route" => "A" \in D /\ "B" \in D
    BY DEF D, ForDecks, BothDecks
  <2>3. real["Route"]["A"] = real["Route"]["B"]
    BY DEF StateIInv, RouteIsGlobal
  <2> QED
    BY <1>6, <2>1, <2>2, <2>3 DEF RouteIsGlobal
<1> QED
  BY <1>4, <1>6, <1>7, <1>8, <1>9 DEF StateIInv, D

\* A click on an effect.
LEMMA EffectFacts ==
    ASSUME engine \in Engines, StateIInv, NEW f \in Effects, FireEffect(f), engine' = engine
    PROVE  StateIInv' /\ UNCHANGED <<real, focus, clockIn>>
<1>1. PICK on : on = IF fx[f][focus] = Unset THEN 1 ELSE 1 - fx[f][focus]
  OBVIOUS
<1>2. /\ heldFx \in [Effects -> [BothDecks -> {0, 1}]]
      /\ fx \in [Effects -> [BothDecks -> {Unset, 0, 1}]] /\ focus \in BothDecks
  BY DEF StateIInv
<1>3. on \in {0, 1} /\ on \in {Unset, 0, 1}
  <2>1. fx[f][focus] \in {Unset, 0, 1}
    BY <1>2
  <2> QED
    BY <1>1, <2>1 DEF Unset
<1>4. fx' = Put(fx, f, {focus}, on) /\ heldFx' = Put(heldFx, f, {focus}, on)
  BY <1>1 DEF FireEffect
<1>5. UNCHANGED <<real, focus, cfg, clockIn>>
  BY DEF FireEffect
<1>6. /\ fx' \in [Effects -> [BothDecks -> {Unset, 0, 1}]]
      /\ \A x \in Effects, d \in BothDecks :
            fx'[x][d] = IF x = f /\ d \in {focus} THEN on ELSE fx[x][d]
  <2>1. PICK T, D : T = {Unset, 0, 1} /\ D = {focus}
    OBVIOUS
  <2>2. fx \in [Effects -> [BothDecks -> T]] /\ on \in T
    BY <1>2, <1>3, <2>1
  <2>3. Put(fx, f, D, on) \in [Effects -> [BothDecks -> T]]
    BY <2>2, PutFacts
  <2>4. \A x \in Effects, d \in BothDecks :
           Put(fx, f, D, on)[x][d] = IF x = f /\ d \in D THEN on ELSE fx[x][d]
    BY <2>2, PutFacts
  <2> QED
    BY <1>4, <2>1, <2>3, <2>4
<1>7. /\ heldFx' \in [Effects -> [BothDecks -> {0, 1}]]
      /\ \A x \in Effects, d \in BothDecks :
            heldFx'[x][d] = IF x = f /\ d \in {focus} THEN on ELSE heldFx[x][d]
  <2>1. PICK T, D : T = {0, 1} /\ D = {focus}
    OBVIOUS
  <2>2. heldFx \in [Effects -> [BothDecks -> T]] /\ on \in T
    BY <1>2, <1>3, <2>1
  <2>3. Put(heldFx, f, D, on) \in [Effects -> [BothDecks -> T]]
    BY <2>2, PutFacts
  <2>4. \A x \in Effects, d \in BothDecks :
           Put(heldFx, f, D, on)[x][d] = IF x = f /\ d \in D THEN on ELSE heldFx[x][d]
    BY <2>2, PutFacts
  <2> QED
    BY <1>4, <2>1, <2>3, <2>4
<1>8. ASSUME NEW x \in Effects, NEW d \in BothDecks, fx'[x][d] # Unset
      PROVE  fx'[x][d] = heldFx'[x][d]
  <2>1. CASE x = f /\ d \in {focus}
    BY <1>6, <1>7, <2>1
  <2>2. CASE ~(x = f /\ d \in {focus})
    <3>1. fx'[x][d] = fx[x][d] /\ heldFx'[x][d] = heldFx[x][d]
      BY <1>6, <1>7, <2>2
    <3> QED
      BY <1>8, <3>1 DEF StateIInv, Remembered
  <2> QED
    BY <2>1, <2>2
<1>9. Remembered' /\ RouteIsGlobal'
  BY <1>5, <1>8 DEF StateIInv, Remembered, RouteIsGlobal
<1> QED
  BY <1>5, <1>6, <1>7, <1>9 DEF StateIInv

\* A click on any other row.
LEMMA OtherFacts ==
    ASSUME engine \in Engines, StateIInv, NEW row, FireOther(row), engine' = engine
    PROVE  /\ StateIInv' /\ open' \in BOOLEAN /\ real' = real
           /\ row \notin {"deck", "clk in"} => UNCHANGED <<focus, clockIn>>
<1>1. UNCHANGED <<real, heldFx, cfg, fx>>
  BY DEF FireOther
<1>2. open' \in BOOLEAN
  BY DEF FireOther
<1>3. focus' \in BothDecks
  <2>1. \E d \in BothDecks : d # focus
    BY DEF BothDecks
  <2>2. (CHOOSE d \in BothDecks : d # focus) \in BothDecks
    BY <2>1
  <2> QED
    BY <2>2 DEF FireOther, StateIInv
<1>4. clockIn' \in 0..ClockChoices-1
  <2>1. clockIn \in 0..ClockChoices-1 /\ ClockChoices \in Nat \ {0}
    BY ActionScreenAssumption DEF StateIInv
  <2>2. (clockIn + 1) % ClockChoices \in 0..ClockChoices-1
    BY <2>1
  <2> QED
    BY <2>1, <2>2 DEF FireOther
<1>5. Remembered' /\ RouteIsGlobal'
  BY <1>1 DEF StateIInv, Remembered, RouteIsGlobal
<1>6. row \notin {"deck", "clk in"} => UNCHANGED <<focus, clockIn>>
  BY DEF FireOther
<1> QED
  BY <1>1, <1>2, <1>3, <1>4, <1>5, <1>6 DEF StateIInv

\* A click keeps the memory true, and a harmless one changes no setting.
LEMMA FireFacts ==
    ASSUME engine \in Engines, StateIInv, open \in BOOLEAN, NEW row \in RowsOf(engine), Fire(row),
           engine' = engine
    PROVE  /\ StateIInv' /\ open' \in BOOLEAN
           /\ Harmless(row) =>
                 /\ \A c \in Ids, d \in BothDecks : real[c][d] # Unset => real'[c][d] = real[c][d]
                 /\ UNCHANGED <<focus, clockIn>>
<1>1. CASE row \in Ids /\ FireSwitch(row)
  <2>1. row # "back" /\ row \notin Pads
    BY <1>1 DEF Ids, Pads, Effects
  <2>2. UNCHANGED <<open, focus, clockIn>>
    BY <1>1 DEF FireSwitch
  <2>3. /\ StateIInv'
        /\ \A x \in Ids, d \in BothDecks :
              real'[x][d] # real[x][d] => x = row /\ d \in ForDecks(row)
    BY <1>1, SwitchFacts
  <2> QED
    BY <2>1, <2>2, <2>3 DEF Harmless
<1>2. CASE row \in Effects /\ FireEffect(row)
  <2>1. StateIInv' /\ UNCHANGED <<real, focus, clockIn>>
    BY <1>2, EffectFacts
  <2>2. open' = open
    BY <1>2 DEF FireEffect
  <2> QED
    BY <2>1, <2>2
<1>3. CASE row \notin Ids \cup Effects /\ FireOther(row)
  <2>1. Harmless(row) => row \notin {"deck", "clk in"}
    BY <1>3 DEF Harmless, Pads, Effects
  <2> QED
    BY <1>3, <2>1, OtherFacts
<1> QED
  BY <1>1, <1>2, <1>3 DEF Fire

-----------------------------------------------------------------------------
(* The steps. *)

\* A turn keeps the cursor in the list, and without one it stays.
LEMMA TurnFacts ==
    ASSUME engine \in Engines, NEW from \in DOMAIN Rows(engine), NEW inc \in Moves,
           TurnCursor(from, inc)
    PROVE  cursor' \in DOMAIN Rows(engine) /\ (inc = 0 => cursor' = from)
<1>1. from \in Int /\ inc \in Int /\ from + inc \in Int
  <2>1. DOMAIN Rows(engine) = 1..Len(Rows(engine)) /\ Len(Rows(engine)) \in Nat
    BY RowsFacts
  <2> QED
    BY <2>1 DEF Moves
<1>2. /\ Wrap(from + inc) \in DOMAIN Rows(engine)
      /\ from + inc \in DOMAIN Rows(engine) => Wrap(from + inc) = from + inc
  BY <1>1, WrapFacts
<1>3. inc = 0 => from + inc = from
  BY <1>1
<1> QED
  BY <1>2, <1>3 DEF TurnCursor

LEMMA CursorRow ==
    ASSUME engine \in Engines, cursor \in DOMAIN Rows(engine)
    PROVE  Rows(engine)[cursor] \in RowsOf(engine)
<1>1. Rows(engine) \in Seq(RowsOf(engine))
  BY RowsFacts
<1> QED
  BY <1>1

\* The cursor of a first visit is on a row that a click may be spent on.
VirginHarmless == virgin => Harmless(Rows(engine)[cursor])

\* The invariant of the first visit goes on where no switch and no row changes.
LEMMA VirginKept ==
    ASSUME VirginHarmless, virgin' => virgin /\ cursor' = cursor,
           UNCHANGED <<engine, state>>
    PROVE  VirginHarmless'
<1>1. UNCHANGED <<engine, real, focus>>
  BY DEF state
<1>2. ASSUME virgin' PROVE Harmless(Rows(engine)[cursor])'
  <2>1. virgin /\ cursor' = cursor
    BY <1>2
  <2>2. Harmless(Rows(engine)[cursor])
    BY <2>1 DEF VirginHarmless
  <2>3. Rows(engine)' = Rows(engine)
    BY <1>1
  <2> QED
    BY <1>1, <2>1, <2>2, <2>3 DEF Harmless, ForDecks
<1> QED
  BY <1>2 DEF VirginHarmless

LEMMA StateKept ==
    ASSUME StateIInv, UNCHANGED <<engine, state>>
    PROVE  StateIInv'
BY DEF StateIInv, state, Remembered, RouteIsGlobal

\* The start: nothing is remembered yet.
LEMMA ScreenStarts ==
    ASSUME ScreenInit
    PROVE  ScreenIInv /\ VirginHarmless
<1>1. engine \in Engines
  BY DEF ScreenInit
<1>2. /\ cfg \in [Ids -> [BothDecks -> -1..2]]
      /\ \A c \in Ids, d \in BothDecks : cfg[c][d] = Unset /\ cfg[c][d] < Span(c)
  BY DEF ScreenInit, PerDeck, Unset, Span
<1>3. /\ fx \in [Effects -> [BothDecks -> {Unset, 0, 1}]]
      /\ \A f \in Effects, d \in BothDecks : fx[f][d] = Unset
  BY DEF ScreenInit, PerDeck
<1>4. heldFx \in [Effects -> [BothDecks -> {0, 1}]]
  BY DEF ScreenInit, PerDeck
<1>5. real \in [Ids -> [BothDecks -> -1..2]] /\ RouteIsGlobal
  <2> DEFINE set == engine.live \ engine.unset
  <2>1. PICK p \in [set -> [BothDecks -> 0..2]] :
          /\ "Route" \in set => p["Route"]["A"] = p["Route"]["B"]
          /\ real = [c \in Ids |-> IF c \in set THEN p[c] ELSE [d \in BothDecks |-> Unset]]
    BY DEF ScreenInit, SwitchPositions
  <2>2. \A c \in Ids : real[c] \in [BothDecks -> -1..2]
    BY <2>1 DEF Unset
  <2>3. real \in [Ids -> [BothDecks -> -1..2]]
    BY <2>1, <2>2
  <2>4. RouteIsGlobal
    BY <2>1 DEF RouteIsGlobal, Ids, BothDecks
  <2> QED
    BY <2>3, <2>4
<1>6. StateIInv
  <2>1. engine.live \subseteq Ids
    BY <1>1, ActionScreenAssumption DEF Engine
  <2>2. Remembered
    BY <1>2, <1>3, <2>1 DEF Remembered
  <2>3. focus \in BothDecks /\ clockIn \in 0..ClockChoices-1
    BY ActionScreenAssumption DEF ScreenInit, BothDecks
  <2> QED
    BY <1>2, <1>3, <1>4, <1>5, <2>2, <2>3 DEF StateIInv
<1>7. ListIInv
  <2>1. 1 \in DOMAIN Rows(engine)
    <3>1. DOMAIN Rows(engine) = 1..Len(Rows(engine)) /\ Len(Rows(engine)) \in Nat \ {0}
      BY <1>1, RowsFacts
    <3> QED
      BY <3>1
  <2>2. 0 \in 0..Idle
    BY ActionScreenAssumption
  <2> QED
    BY <2>1, <2>2 DEF ListIInv, ScreenInit, WroteTurned
<1> QED
  BY <1>1, <1>6, <1>7, IInvParts DEF ScreenInit, VirginHarmless

\* With the encoder held the list only ever closes.
LEMMA HeldKeeps ==
    ASSUME ScreenIInv, NEW inc \in Moves, NEW aside \in BOOLEAN, HeldPass(inc, aside)
    PROVE  ScreenIInv' /\ (VirginHarmless => VirginHarmless')
<1>1. engine \in Engines /\ StateIInv /\ ListIInv
  BY IInvParts
<1>2. UNCHANGED <<engine, state, seen, cursor, idle>> /\ (virgin' => virgin)
  BY DEF HeldPass
<1>3. StateIInv'
  BY <1>1, <1>2, StateKept
<1>4. ListIInv'
  <2>1. turned' \in BOOLEAN /\ wrote' \in BOOLEAN /\ (wrote' => turned')
    BY <1>1 DEF HeldPass, ListIInv, WroteTurned
  <2>2. held' \in BOOLEAN /\ open' \in BOOLEAN /\ virgin' \in BOOLEAN
    BY <1>1 DEF HeldPass, ListIInv, LeftOpen
  <2>3. seen' \in BOOLEAN /\ cursor' \in DOMAIN Rows(engine') /\ idle' \in 0..Idle
    BY <1>1, <1>2 DEF ListIInv
  <2> QED
    BY <2>1, <2>2, <2>3 DEF ListIInv, WroteTurned
<1>5. ScreenIInv'
  BY <1>1, <1>2, <1>3, <1>4 DEF ScreenIInv, ScreenTypeOK, StateIInv, ListIInv
<1> QED
  BY <1>2, <1>5, VirginKept

\* What a release and a turn leave of the encoder, the cursor and the clock of the list.
LEMMA UpList ==
    ASSUME engine \in Engines, ListIInv, NEW inc \in Moves, UpPass(inc), open' \in BOOLEAN,
           seen' \in BOOLEAN, virgin' \in BOOLEAN, cursor' \in DOMAIN Rows(engine)
    PROVE  ListIInv'
<1>1. held' = FALSE /\ turned' = FALSE /\ wrote' = FALSE /\ engine' = engine
  BY DEF UpPass
<1>2. idle' \in 0..Idle
  BY ActionScreenAssumption DEF UpPass, ListIInv
<1> QED
  BY <1>1, <1>2 DEF ListIInv, WroteTurned

\* A release opens the list, fires its row or does nothing.
LEMMA UpKeeps ==
    ASSUME ScreenIInv, NEW inc \in Moves, UpPass(inc)
    PROVE  ScreenIInv' /\ (VirginHarmless /\ Tells(engine) => VirginHarmless')
<1>1. engine \in Engines /\ StateIInv /\ ListIInv /\ engine' = engine
  BY IInvParts DEF UpPass
<1>2. /\ open \in BOOLEAN /\ seen \in BOOLEAN /\ virgin \in BOOLEAN /\ inc \in Moves
      /\ cursor \in DOMAIN Rows(engine)
  BY <1>1 DEF ListIInv
<1>3. CASE Clicks /\ ~LeftOpen
  <2>1. PICK from : from = IF seen THEN cursor ELSE FirstUsefulRow(Rows(engine))
    OBVIOUS
  <2>2. from \in DOMAIN Rows(engine)
    BY <1>2, <2>1, FirstRowFacts
  <2>3. /\ open' = TRUE /\ seen' = TRUE /\ TurnCursor(from, inc)
        /\ virgin' = (~seen /\ inc = 0) /\ UNCHANGED state
    BY <1>3, <2>1 DEF UpPass
  <2>4. cursor' \in DOMAIN Rows(engine) /\ (inc = 0 => cursor' = from)
    BY <1>1, <2>2, <2>3, TurnFacts
  <2>5. StateIInv' /\ ListIInv'
    <3>1. StateIInv'
      BY <1>1, <2>3, StateKept
    <3>2. open' \in BOOLEAN /\ seen' \in BOOLEAN /\ virgin' \in BOOLEAN
      BY <1>2, <2>3
    <3> QED
      BY <1>1, <2>4, <3>1, <3>2, UpList
  <2>6. ASSUME Tells(engine) PROVE VirginHarmless'
    <3>1. ASSUME virgin' PROVE Harmless(Rows(engine)[cursor])'
      <4>1. cursor' = FirstUsefulRow(Rows(engine))
        BY <2>1, <2>3, <2>4, <3>1
      <4>2. Harmless(Rows(engine)[FirstUsefulRow(Rows(engine))])
        BY <2>6, FirstRowFacts
      <4>3. Rows(engine)' = Rows(engine) /\ UNCHANGED <<real, focus>>
        BY <1>1, <2>3 DEF state
      <4>4. PICK row : row = Rows(engine)[cursor]'
        OBVIOUS
      <4>5. row = Rows(engine)[FirstUsefulRow(Rows(engine))]
        BY <4>1, <4>3, <4>4
      <4> QED
        BY <4>2, <4>3, <4>4, <4>5 DEF Harmless, ForDecks
    <3> QED
      BY <3>1 DEF VirginHarmless
  <2> QED
    BY <1>1, <2>5, <2>6 DEF ScreenIInv, ScreenTypeOK, StateIInv, ListIInv
<1>4. CASE Clicks /\ LeftOpen
  <2>1. /\ Fire(Rows(engine)[cursor]) /\ TurnCursor(cursor, inc)
        /\ virgin' = FALSE /\ seen' = seen
    BY <1>4 DEF UpPass
  <2>2. StateIInv' /\ open' \in BOOLEAN
    <3>1. PICK row : row = Rows(engine)[cursor]
      OBVIOUS
    <3>2. row \in RowsOf(engine) /\ Fire(row)
      BY <1>1, <1>2, <2>1, <3>1, CursorRow
    <3> QED
      BY <1>1, <1>2, <3>2, FireFacts
  <2>3. cursor' \in DOMAIN Rows(engine)
    BY <1>1, <1>2, <2>1, TurnFacts
  <2>4. ListIInv'
    BY <1>1, <1>2, <2>1, <2>2, <2>3, UpList
  <2>5. VirginHarmless'
    BY <2>1 DEF VirginHarmless
  <2> QED
    BY <1>1, <2>2, <2>4, <2>5 DEF ScreenIInv, ScreenTypeOK, StateIInv, ListIInv
<1>5. CASE ~Clicks
  <2>1. /\ open' = LeftOpen /\ TurnCursor(cursor, inc)
        /\ virgin' = (virgin /\ open' /\ inc = 0) /\ UNCHANGED <<seen, state>>
    BY <1>5 DEF UpPass
  <2>2. cursor' \in DOMAIN Rows(engine) /\ (inc = 0 => cursor' = cursor)
    BY <1>1, <1>2, <2>1, TurnFacts
  <2>3. open' \in BOOLEAN /\ seen' \in BOOLEAN /\ virgin' \in BOOLEAN
    BY <1>2, <2>1 DEF LeftOpen
  <2>4. StateIInv'
    BY <1>1, <2>1, StateKept
  <2>5. ListIInv'
    BY <1>1, <2>2, <2>3, UpList
  <2>6. VirginHarmless => VirginHarmless'
    <3>1. virgin' => virgin /\ cursor' = cursor
      BY <2>1, <2>2
    <3> QED
      BY <1>1, <2>1, <3>1, VirginKept
  <2> QED
    BY <1>1, <2>4, <2>5, <2>6 DEF ScreenIInv, ScreenTypeOK, StateIInv, ListIInv
<1> QED
  BY <1>3, <1>4, <1>5

\* Time passes.
LEMMA TickKeeps ==
    ASSUME ScreenIInv, IdleTick
    PROVE  ScreenIInv' /\ (VirginHarmless => VirginHarmless')
<1>1. engine \in Engines /\ StateIInv /\ ListIInv
  BY IInvParts
<1>2. UNCHANGED <<engine, panel, open, seen, virgin, cursor, state>>
  BY DEF IdleTick
<1>3. StateIInv'
  BY <1>1, <1>2, StateKept
<1>4. idle' \in 0..Idle
  BY <1>1, ActionScreenAssumption DEF IdleTick, ListIInv
<1>5. ListIInv'
  BY <1>1, <1>2, <1>4 DEF ListIInv, WroteTurned, panel
<1>6. ScreenIInv'
  BY <1>1, <1>2, <1>3, <1>5 DEF ScreenIInv, ScreenTypeOK, StateIInv, ListIInv
<1> QED
  BY <1>2, <1>6, VirginKept

\* Every step keeps the invariants.
LEMMA ScreenStep ==
    ASSUME ScreenIInv, [ScreenNext]_screenVars
    PROVE  /\ ScreenIInv' /\ engine' = engine
           /\ VirginHarmless /\ Tells(engine) => VirginHarmless'
<1>1. ASSUME NEW inc \in Moves, NEW aside \in BOOLEAN, HeldPass(inc, aside)
      PROVE  ScreenIInv' /\ engine' = engine /\ (VirginHarmless => VirginHarmless')
  <2>1. engine' = engine
    BY <1>1 DEF HeldPass
  <2> QED
    BY <1>1, <2>1, HeldKeeps
<1>2. ASSUME NEW inc \in Moves, UpPass(inc)
      PROVE  /\ ScreenIInv' /\ engine' = engine
             /\ VirginHarmless /\ Tells(engine) => VirginHarmless'
  <2>1. engine' = engine
    BY <1>2 DEF UpPass
  <2> QED
    BY <1>2, <2>1, UpKeeps
<1>3. CASE IdleTick
  <2>1. engine' = engine
    BY <1>3 DEF IdleTick
  <2> QED
    BY <1>3, <2>1, TickKeeps
<1>4. CASE UNCHANGED screenVars
  <2>1. UNCHANGED <<engine, panel, list, state>>
    BY <1>4 DEF screenVars
  <2>2. engine \in Engines /\ StateIInv /\ ListIInv
    BY IInvParts
  <2>3. StateIInv'
    BY <2>1, <2>2, StateKept
  <2>4. ListIInv' /\ (virgin' => virgin /\ cursor' = cursor)
    BY <2>1, <2>2 DEF ListIInv, WroteTurned, panel, list
  <2>5. ScreenIInv'
    BY <2>1, <2>2, <2>3, <2>4 DEF ScreenIInv, ScreenTypeOK, StateIInv, ListIInv
  <2> QED
    BY <2>1, <2>4, <2>5, VirginKept
<1> QED
  BY <1>1, <1>2, <1>3, <1>4 DEF ScreenNext, Pass

LEMMA ScreenInvariant == ScreenSpec => []ScreenIInv
<1>1. ScreenInit => ScreenIInv
  BY ScreenStarts
<1>2. ScreenIInv /\ [ScreenNext]_screenVars => ScreenIInv'
  BY ScreenStep
<1> QED
  BY <1>1, <1>2, PTL DEF ScreenSpec

\* The engine of a build is the one it boots with, and the first visit's cursor stays
\* on a row that a click may be spent on.
LEMMA FirstVisitInvariant ==
    ASSUME \A e \in Engines : Tells(e)
    PROVE  ScreenSpec => [](ScreenIInv /\ VirginHarmless)
<1>1. ScreenInit => ScreenIInv /\ VirginHarmless
  BY ScreenStarts
<1>2. ScreenIInv /\ VirginHarmless /\ [ScreenNext]_screenVars => (ScreenIInv /\ VirginHarmless)'
  <2>1. ScreenIInv => Tells(engine)
    BY IInvParts
  <2> QED
    BY <2>1, ScreenStep
<1> QED
  BY <1>1, <1>2, PTL DEF ScreenSpec

-----------------------------------------------------------------------------
(* The theorems. *)

\* What the action screen shows of a switch or an effect is where the engine has it, on
\* either deck, for any builds (param_ui.h:334-356, 633-643).
THEOREM ScreenTellsTheTruth == ScreenSpec => []ScreenInv
<1>1. ScreenIInv => ScreenInv
  <2>1. ASSUME ScreenIInv, NEW c \in engine.live, NEW d \in BothDecks, Shown(c, d) # Unset
        PROVE  Shown(c, d) = real[c][d]
    BY <2>1 DEF ScreenIInv, Remembered, Shown, Reported
  <2>2. ASSUME ScreenIInv, NEW f \in Effects, NEW d \in BothDecks, fx[f][d] # Unset
        PROVE  fx[f][d] = heldFx[f][d]
    BY <2>2 DEF ScreenIInv, Remembered
  <2> QED
    BY <2>1, <2>2 DEF ScreenInv, ShownIsReal, ScreenIInv
<1> QED
  BY <1>1, ScreenInvariant, PTL

\* The release of a hold that changed the selector or the tempo is no click, however
\* many passes the hold lasted (harness.cpp:400-402).
THEOREM GesturesAreNoClicks == ScreenSpec => GestureIsNoClick
<1> DEFINE Unfired == wrote /\ held => UNCHANGED state /\ (open' => open)
<1>1. ScreenIInv /\ [ScreenNext]_screenVars => Unfired
  <2> SUFFICES ASSUME ScreenIInv, [ScreenNext]_screenVars, wrote, held
               PROVE  UNCHANGED state /\ (open' => open)
    OBVIOUS
  <2>1. ~Clicks
    BY DEF Clicks, ScreenIInv, WroteTurned
  <2>2. ASSUME NEW inc \in Moves, NEW aside \in BOOLEAN, HeldPass(inc, aside)
        PROVE  UNCHANGED state /\ (open' => open)
    BY <2>2 DEF HeldPass, LeftOpen
  <2>3. ASSUME NEW inc \in Moves, UpPass(inc)
        PROVE  UNCHANGED state /\ (open' => open)
    BY <2>1, <2>3 DEF UpPass, LeftOpen
  <2>4. CASE IdleTick
    BY <2>4 DEF IdleTick
  <2>5. CASE UNCHANGED screenVars
    BY <2>5 DEF screenVars, list
  <2> QED
    BY <2>2, <2>3, <2>4, <2>5 DEF ScreenNext, Pass
<1>2. ScreenSpec => []ScreenIInv
  BY ScreenInvariant
<1>3. Unfired => [wrote /\ held => UNCHANGED state /\ (open' => open)]_screenVars
  OBVIOUS
<1> HIDE DEF Unfired
<1> QED
  BY <1>1, <1>2, <1>3, PTL DEF ScreenSpec, GestureIsNoClick

\* The two clicks of a first visit change no setting that there is, for any builds that
\* report all the switches of their lists or none (param_ui.h:656-660).
THEOREM FirstVisitsAreHarmless ==
    ASSUME \A e \in Engines : Tells(e)
    PROVE  ScreenSpec => FirstVisitHarmless
<1> DEFINE Same == /\ \A c \in Ids, d \in BothDecks : real[c][d] # Unset => real'[c][d] = real[c][d]
                   /\ focus' = focus /\ clockIn' = clockIn
           Careful == virgin => Same
<1>1. UNCHANGED state => Same
  BY DEF state
<1>2. ScreenIInv /\ VirginHarmless /\ [ScreenNext]_screenVars => Careful
  <2> SUFFICES ASSUME ScreenIInv, VirginHarmless, [ScreenNext]_screenVars, virgin
               PROVE  Same
    OBVIOUS
  <2>1. engine \in Engines /\ StateIInv /\ open \in BOOLEAN /\ cursor \in DOMAIN Rows(engine)
    BY IInvParts DEF ListIInv
  <2>2. PICK row \in RowsOf(engine) : row = Rows(engine)[cursor]
    BY <2>1, CursorRow
  <2>3. Harmless(row)
    BY <2>2 DEF VirginHarmless
  <2>4. ASSUME NEW inc \in Moves, NEW aside \in BOOLEAN, HeldPass(inc, aside) PROVE UNCHANGED state
    BY <2>4 DEF HeldPass
  <2>5. ASSUME NEW inc \in Moves, UpPass(inc) PROVE UNCHANGED state \/ Same
    <3>1. UNCHANGED state \/ Fire(row)
      BY <2>2, <2>5 DEF UpPass
    <3>2. engine' = engine
      BY <2>5 DEF UpPass
    <3>3. Fire(row) => Same
      BY <2>1, <2>3, <3>2, FireFacts
    <3> QED
      BY <3>1, <3>3
  <2>6. IdleTick => UNCHANGED state
    BY DEF IdleTick
  <2>7. UNCHANGED screenVars => UNCHANGED state
    BY DEF screenVars
  <2> HIDE DEF Same
  <2> QED
    BY <1>1, <2>4, <2>5, <2>6, <2>7 DEF ScreenNext, Pass
<1>3. ScreenSpec => [](ScreenIInv /\ VirginHarmless)
  BY FirstVisitInvariant
<1>4. Careful =>
        [virgin => /\ \A c \in Ids, d \in BothDecks : real[c][d] # Unset => real'[c][d] = real[c][d]
                   /\ focus' = focus /\ clockIn' = clockIn]_screenVars
  OBVIOUS
<1> HIDE DEF Careful
<1> QED
  BY <1>2, <1>3, <1>4, PTL DEF ScreenSpec, FirstVisitHarmless
=============================================================================

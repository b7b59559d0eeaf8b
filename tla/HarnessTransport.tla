-------------------------- MODULE HarnessTransport --------------------------
(***************************************************************************)
(* The musical clock of the harness: HarnessTransport                      *)
(* (app/harness_clock.h), a free-running grid of PPQN sub-ticks to the     *)
(* quarter that locks to the pulses of an external clock. Everything runs  *)
(* on the main loop; what is not under its control is when it gets to      *)
(* poll(), and when the edges come.                                        *)
(*                                                                         *)
(* A tempo is the length of its quarter in milliseconds (60000 / BPM), so  *)
(* the slowest tempo is the longest beat. Time stamps are ages, counted    *)
(* from the edge and the tick they belong to; -1 stands for none yet. The  *)
(* accumulator counts milliseconds times PPQN, so that a sub-tick is due   *)
(* every `beat' of it, without rounding.                                   *)
(***************************************************************************)
EXTENDS Integers, Sequences

CONSTANTS PPQN,            \* kPPQN: sub-ticks in a quarter
          SubPerCommon,    \* kSubPerCommon: sub-ticks in a common tick
          ExtPpqChoices,   \* kExtPpqChoices: pulses in a quarter
          ExtClockTimeout, \* kExtClockTimeout
          MinBeat,         \* the quarter at kMaxBpm
          MaxBeat,         \* the quarter at kMinBpm
          DefaultBeat,     \* the quarter at 120 BPM
          BeatsPerKey,     \* quarters from one key boundary to the next
          Asked,           \* beats the encoder asks for, in range or not
          MaxLag           \* bound: milliseconds between two passes of the main loop

ASSUME ClockAssumption ==
    /\ PPQN \in Nat \ {0} /\ SubPerCommon \in 1..PPQN
    /\ ExtPpqChoices \subseteq {p \in 1..PPQN : PPQN % p = 0} /\ 1 \in ExtPpqChoices
    /\ ExtClockTimeout \in Nat \ {0}
    /\ MinBeat \in Nat \ {0} /\ MaxBeat \in Nat /\ MinBeat <= MaxBeat
    /\ DefaultBeat \in MinBeat..MaxBeat
    /\ BeatsPerKey \in Nat \ {0}
    /\ Asked \subseteq Int
    /\ MaxLag \in Nat \ {0}

VARIABLES
    external,     \* _external: locked to the clock input
    beat,         \* _tempo
    internal,     \* _internal_bpm
    ppq,          \* _ext_ppq
    pulse,        \* _pulse_index, modulo PPQN (of which ppq is a divisor)
    budget,       \* _ext_budget
    edgeAge,      \* now - _last_edge_ms, up to ExtClockTimeout + 1
    tickAge,      \* now - _last_tick_ms
    acc,          \* _tick_acc_ms
    pos,          \* _tick_in_beat
    bar,          \* _beat_index, modulo BeatsPerKey
    \* history
    out,          \* the ticks the last step fanned out
    last,         \* the position of the tick before those, -1 before any
    given,        \* ticks since the last pulse that was accepted, its own included
    share,        \* the ticks that pulse stands for
    driven,       \* age of that pulse, up to ExtClockTimeout + MaxLag + 1
    restarted     \* _pulse_index was restarted since that pulse

grid    == <<acc, pos, bar>>
setting == <<internal, ppq>>
vars    == <<external, beat, setting, pulse, budget, edgeAge, tickAge, grid, out, last,
             given, share, driven, restarted>>

SubPerPulse == PPQN \div ppq

Init ==
    /\ external = FALSE /\ beat = DefaultBeat /\ internal = DefaultBeat
    /\ ppq = 1 /\ pulse = 0 /\ budget = 0
    /\ edgeAge = -1 /\ tickAge = -1
    /\ acc = 0 /\ pos = 0 /\ bar = 0
    /\ out = <<>> /\ last = -1 /\ given = 0 /\ share = 0 /\ driven = 0 /\ restarted = FALSE

-----------------------------------------------------------------------------
(* emit_sub_tick() *)

\* The tick at position p of quarter b.
Tick(p, b, reset) ==
    [pos     |-> p,
     tick    |-> p % SubPerCommon = 0,
     quarter |-> p = 0,
     key     |-> p = 0 /\ b % BeatsPerKey = 0,
     reset   |-> reset]

\* n ticks in a row from position p of quarter b.
Ticks(n, p, b) ==
    [i \in 1..n |-> Tick((p + i - 1) % PPQN, (b + ((p + i - 1) \div PPQN)) % BeatsPerKey, FALSE)]

\* The step fans out ticks; the grid moves on to the position behind them.
FanOut(ticks, nextPos, nextBar) ==
    /\ out' = ticks
    /\ pos' = nextPos /\ bar' = nextBar
    /\ last' = IF out = <<>> THEN last ELSE out[Len(out)].pos

Emit(n) == FanOut(Ticks(n, pos, bar), (pos + n) % PPQN, (bar + ((pos + n) \div PPQN)) % BeatsPerKey)

-----------------------------------------------------------------------------
(* Settings from the panel. *)

SetTempo(asked) ==
    /\ internal' = IF asked < MinBeat THEN MinBeat ELSE IF asked > MaxBeat THEN MaxBeat ELSE asked
    /\ beat' = IF external THEN beat ELSE internal'
    /\ Emit(0)
    /\ UNCHANGED <<external, ppq, pulse, budget, edgeAge, tickAge, acc, given, share, driven,
                   restarted>>

SetExtPpq(choice) ==
    /\ ppq' = choice /\ pulse' = 0
    /\ restarted' = TRUE
    /\ Emit(0)
    /\ UNCHANGED <<external, beat, internal, budget, edgeAge, tickAge, acc, given, share, driven>>

-----------------------------------------------------------------------------
(* on_external_clock_edge() *)

\* The interval since the last edge is a tempo the transport accepts.
Accepted == /\ edgeAge > 0 /\ edgeAge < ExtClockTimeout
            /\ edgeAge * ppq \in MinBeat..MaxBeat

\* mutant: the pulse's own tick is not counted in its share
LandOneMore(position, flushed, b, reset) ==
    /\ FanOut(flushed \o <<Tick(position, b, reset)>>, (position + 1) % PPQN,
              (b + ((position + 1) \div PPQN)) % BeatsPerKey)
    /\ external' = TRUE /\ beat' = edgeAge * ppq
    /\ budget' = SubPerPulse
    /\ acc' = 0 /\ tickAge' = 0 /\ edgeAge' = 0
    /\ given' = 1 /\ share' = SubPerPulse /\ driven' = 0 /\ restarted' = FALSE
    /\ UNCHANGED setting

\* The pulse is a position of the grid: its tick is emitted here and now, and
\* the interpolator may emit the rest of its share.
Land(position, flushed, b, reset) ==
    /\ FanOut(flushed \o <<Tick(position, b, reset)>>, (position + 1) % PPQN,
              (b + ((position + 1) \div PPQN)) % BeatsPerKey)
    /\ external' = TRUE /\ beat' = edgeAge * ppq
    /\ budget' = SubPerPulse - 1
    /\ acc' = 0 /\ tickAge' = 0 /\ edgeAge' = 0
    /\ given' = 1 /\ share' = SubPerPulse /\ driven' = 0 /\ restarted' = FALSE
    /\ UNCHANGED setting

\* The first interval acquires sync: the pulse becomes the downbeat, and its
\* tick takes the _reset_pending that was set for it with it.
Acquire ==
    /\ Accepted /\ ~external
    /\ pulse' = 0
    /\ Land(0, <<>>, 0, TRUE)

\* mutant: a pulse that comes early drops what is left of the last one
PulseUnflushed ==
    /\ Accepted /\ external
    /\ pulse' = (pulse + 1) % PPQN
    /\ Land((pulse' % ppq) * SubPerPulse, <<>>, bar, FALSE)

\* A pulse of a clock that runs: what the interpolator had not reached yet is
\* emitted first.
Pulse ==
    /\ Accepted /\ external
    /\ pulse' = (pulse + 1) % PPQN
    /\ Land((pulse' % ppq) * SubPerPulse, Ticks(budget, pos, bar),
            (bar + ((pos + budget) \div PPQN)) % BeatsPerKey, FALSE)

\* Any other edge only restarts the measurement; after a long gap it starts
\* a new take.
OtherEdge ==
    /\ ~Accepted
    /\ IF edgeAge >= ExtClockTimeout THEN pulse' = 0 /\ restarted' = TRUE
                                     ELSE UNCHANGED <<pulse, restarted>>
    /\ edgeAge' = 0
    /\ Emit(0)
    /\ UNCHANGED <<external, beat, setting, budget, tickAge, acc, given, share, driven>>

Edge == Acquire \/ Pulse \/ OtherEdge

-----------------------------------------------------------------------------
(* poll() *)

\* mutant: the timeout is measured, but not while a clock is locked
QuietNever == ~external /\ edgeAge > ExtClockTimeout

\* An external clock that has gone quiet gives way to the internal tempo.
Quiet == external /\ edgeAge > ExtClockTimeout

\* The interpolator. Under external sync it stops short of the position of the
\* next pulse.
Interpolate(locked, b) ==
    LET elapsed == acc + tickAge * PPQN
        due     == elapsed \div b
        n       == IF locked /\ due > budget THEN budget ELSE due
    IN  /\ Emit(n)
        /\ acc' = IF n < due THEN 0 ELSE elapsed % b
        /\ budget' = IF locked THEN budget - n ELSE budget
        /\ given' = IF locked THEN given + Len(out') ELSE 0
        /\ tickAge' = 0

Poll ==
    /\ external' = (external /\ ~Quiet)
    /\ beat' = IF Quiet THEN internal ELSE beat
    /\ IF tickAge = -1
       THEN tickAge' = 0 /\ Emit(0) /\ UNCHANGED <<acc, budget, given>>
       ELSE Interpolate(external', beat')
    /\ UNCHANGED <<setting, pulse, edgeAge, share, driven, restarted>>

\* A millisecond goes by between two passes of the main loop.
Wait ==
    /\ tickAge < MaxLag
    /\ tickAge' = IF tickAge = -1 THEN -1 ELSE tickAge + 1
    /\ edgeAge' = IF edgeAge \in {-1, ExtClockTimeout + 1} THEN edgeAge ELSE edgeAge + 1
    /\ driven' = IF driven > ExtClockTimeout + MaxLag THEN driven ELSE driven + 1
    /\ Emit(0)
    /\ UNCHANGED <<external, beat, setting, pulse, budget, acc, given, share, restarted>>

Next ==
    \/ \E asked \in Asked : SetTempo(asked)
    \/ \E choice \in ExtPpqChoices : SetExtPpq(choice)
    \/ Acquire \/ Pulse \/ OtherEdge
    \/ Poll \/ Wait

Spec == Init /\ [][Next]_vars

\* The main loop polls on every pass, and time passes.
FairSpec == Spec /\ WF_vars(Poll) /\ WF_vars(Wait)

-----------------------------------------------------------------------------
Positions == 0..PPQN-1

TickType == [pos : Positions, tick : BOOLEAN, quarter : BOOLEAN, key : BOOLEAN, reset : BOOLEAN]

TypeOK ==
    /\ external \in BOOLEAN /\ beat \in MinBeat..MaxBeat /\ internal \in MinBeat..MaxBeat
    /\ ppq \in ExtPpqChoices /\ pulse \in Positions /\ budget \in Positions
    /\ edgeAge \in -1..ExtClockTimeout+1 /\ tickAge \in -1..MaxLag
    /\ acc \in 0..MaxBeat /\ pos \in Positions /\ bar \in 0..BeatsPerKey-1
    /\ last \in -1..PPQN-1 /\ given \in 0..PPQN /\ share \in 0..PPQN
    /\ driven \in 0..ExtClockTimeout+MaxLag+1 /\ restarted \in BOOLEAN
    /\ out \in Seq(TickType)

\* Every pulse of a running clock yields exactly its share of ticks, its own and those
\* fanned out up to the tick of the next pulse, wherever the polls fell in between, however
\* early or late the next pulse comes, and whatever ppq is chosen meanwhile
\* (harness_clock.h:135-149, 182-187).
ShareExact == [][Pulse => given + Len(out') - 1 = share]_vars

\* The tick fanned out before the i-th of this step.
Before(i) == IF i = 1 THEN last ELSE out[i - 1].pos

\* The i-th tick of this step is the one that follows on the grid, or carries
\* the reset that tells a sequencer the grid was realigned.
Continues(i) ==
    \/ Before(i) = -1 \/ out[i].reset
    \/ out[i].pos = (Before(i) + 1) % PPQN

\* The grid has no hole and no repetition: a tick follows the one before it or
\* is flagged as a realignment, across early and late pulses, gaps, the loss of
\* the clock and changes of tempo, as long as the count of pulses was not
\* restarted under way (harness_clock.h:135-149, 182-187).
GridContinuous == [][\A i \in DOMAIN out' : Continues(i)' \/ restarted]_vars

\* The tempo is locked to the input only while pulses of an accepted tempo
\* arrive: a transport is never left locked to a tempo nothing is driving
\* (host/test_transport.cpp:279).
LockedOnlyWhileDriven == external => driven <= ExtClockTimeout + MaxLag

\* A clock that stops for good gives way to the internal tempo, and the grid
\* goes on: ticks never cease.
TicksAfterClockStops == <>[][~Edge]_vars => []<>(out # <<>>)
=============================================================================

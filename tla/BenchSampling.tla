---------------------------- MODULE BenchSampling ----------------------------
(***************************************************************************)
(* The weights that a benchmark draws its voters' aggregators with, for    *)
(* the skewed assignment (aggregator_weights of benchmark.rs).  The weight *)
(* of aggregator i, from 3 on, is 5 / (1 << (i - 2)), where the shift is   *)
(* one of an i32: with the checks of a debug build a shift by 32 or more   *)
(* panics, without them it is taken modulo 32, and 1 << 31 is negative.    *)
(*                                                                         *)
(* A weight is the number it was divided from and its halvings, since      *)
(* 2^31 is out of TLC's reach; normalization changes no order and is left  *)
(* out.                                                                    *)
(***************************************************************************)
EXTENDS Integers, Sequences

CONSTANT MaxAggregators  \* the most the form of the user interface takes

VARIABLES
    aggregators,      \* config.aggregators
    overflow_checks,  \* how the program was built
    pc,
    weights           \* the weights so far; aggregator i has position i + 1

vars == <<aggregators, overflow_checks, pc, weights>>

Width == 32  \* of i32

Weight(number, halvings) == [number |-> number, halvings |-> halvings]

base == <<Weight(80, 0), Weight(15, 0), Weight(5, 0)>>

\* 5.0 / (1 << by) as f64; the highest bit is the sign.
OverShifted(by) ==
    LET bit == by % Width
    IN  Weight(IF bit = Width - 1 THEN -5 ELSE 5, bit)

Init ==
    /\ aggregators \in 1..MaxAggregators
    /\ overflow_checks \in BOOLEAN
    /\ pc = "weights"
    /\ weights = <<>>

aggregator_weights ==
    LET i == Len(weights) IN
    /\ pc = "weights" /\ i < aggregators
    /\ IF i < 3
       THEN weights' = Append(weights, base[i + 1]) /\ UNCHANGED pc
       ELSE IF overflow_checks /\ i - 2 >= Width
       THEN pc' = "panic" /\ UNCHANGED weights
       ELSE weights' = Append(weights, OverShifted(i - 2)) /\ UNCHANGED pc
    /\ UNCHANGED <<aggregators, overflow_checks>>

Spec == Init /\ [][aggregator_weights]_vars

-----------------------------------------------------------------------------

\* "any further aggregators share the tail of a geometric decay": each of them is drawn,
\* and less often than the one before it.
Less(w, v) ==
    \/ w.number < v.number /\ w.halvings >= v.halvings
    \/ w.number = v.number /\ w.halvings > v.halvings

WeightsDecay ==
    /\ pc # "panic"
    /\ \A i \in DOMAIN weights : weights[i].number > 0
    /\ \A i \in DOMAIN weights \ {1} : Less(weights[i], weights[i - 1])
=============================================================================

--------------------------- MODULE RiskProjection ---------------------------
(***************************************************************************)
(* The arithmetic of risk: a measurement is an element of a lattice (one   *)
(* number per component), the measurements of several commits are joined   *)
(* coordinate by coordinate, and a policy projects the result to one       *)
(* score.  The policy is the raw sum of the coordinates, a legacy policy   *)
(* of four weights, or one calibrated from a sample of earlier             *)
(* measurements.                                                           *)
(*                                                                         *)
(* Sources: src/src/measure/risk_lattice.cpp, risk_value.cpp,              *)
(* risk_projection.cpp, calibration.cpp.                                   *)
(*                                                                         *)
(* The state is what a calibration and two projections read: the sample,   *)
(* the policy and two lattice elements that grow by joins.  Numbers are    *)
(* 64 bits wide in the code; here Top is their maximum.                    *)
(***************************************************************************)
EXTENDS Integers, Sequences, FiniteSets, SequencesExt, FiniteSetsExt

CONSTANTS
    Components,    \* <<namespace, component>> pairs a measurement may have
    Sampled,       \* those the measurements of the baseline have
    Values,        \* the values a coordinate takes
    Samples,       \* the values of the calibration sample
    Weights,       \* the weights of legacy policies
    Top,           \* the largest number of the machine
    MicroLog,      \* natural logarithm of a number, in millionths
    MaxSample      \* bound on the sample of a component

RiskAssumption ==
    /\ Top \in Nat \ {0}
    /\ IsFiniteSet(Components)
    /\ Sampled \subseteq Components
    /\ Values \subseteq 0..Top
    /\ Samples \subseteq 0..Top
    /\ Weights \subseteq 0..Top
    /\ MicroLog \in [1..2 * Top -> Nat]
    /\ \A n \in 1..2 * Top - 1 : MicroLog[n] <= MicroLog[n + 1]
    /\ MaxSample \in Nat

VARIABLES
    left, right,   \* two elements of the risk lattice
    sample,        \* per component, the values calibration has seen
    policy,        \* the policy in force: a set of terms
    legacy         \* the four weights it was made from, << >> if none

riskVars == <<left, right, sample, policy, legacy>>

-----------------------------------------------------------------------------
(* Saturating arithmetic.                                                  *)

\* Mutant: the sum wraps around at the width of the machine.
WrappingAdd(a, b) == (a + b) % (Top + 1)
SatAdd(a, b) == IF a + b > Top THEN Top ELSE a + b

SatMul(a, b) == IF a * b > Top THEN Top ELSE a * b

MulDiv(v, num, den) ==
    IF den = 0 \/ (v * num) \div den > Top THEN Top ELSE (v * num) \div den

SatSum(f) == FoldFunction(SatAdd, 0, f)

-----------------------------------------------------------------------------
(* The lattice: partial functions from components to numbers, an absent    *)
(* component counting as zero.                                             *)

Coordinates(l) == {<<k, l[k]>> : k \in DOMAIN l}

Canonical(cs) ==
    [k \in {q[1] : q \in cs} |-> Max({q[2] : q \in {p \in cs : p[1] = k}})]

Join(l, r) == Canonical(Coordinates(l) \cup Coordinates(r))

Value(l, k) == IF k \in DOMAIN l THEN l[k] ELSE 0

LessEqual(l, r) == \A k \in DOMAIN l : l[k] <= Value(r, k)

Namespaces == {"structural", "law", "repair", "surprise"}

\* The older vector of four numbers: one saturating sum per namespace.
Of(l, n) == Restrict(l, {k \in DOMAIN l : k[1] = n})
Vector(l) == [n \in Namespaces |-> SatSum(Of(l, n))]

-----------------------------------------------------------------------------
(* Calibration: the statistics of a component over its sample.             *)

CeilDiv(a, b) == (a + b - 1) \div b

\* The value at rank ceil(p * (n - 1)) of the sorted sample, counted from 0,
\* p in hundredths: the least with more values than that up to it.
Upto(s, v) == {i \in DOMAIN s : s[i] <= v}
Percentile(s, p) ==
    LET rank == CeilDiv(p * (Len(s) - 1), 100)
    IN  IF s = << >> THEN 0
        ELSE Min({v \in Range(s) : Cardinality(Upto(s, v)) > rank})

Abs(a) == IF a < 0 THEN -a ELSE a

StatsFor(s) ==
    LET median == Percentile(s, 50)
    IN  [median |-> median,
         mad    |-> Max({1, Percentile([i \in DOMAIN s |-> Abs(s[i] - median)], 50)}),
         q80    |-> Percentile(s, 80),
         q95    |-> Percentile(s, 95),
         q99    |-> Percentile(s, 99)]

\* A coordinate as its term reads it.
Calibrated(v, t) ==
    CASE t.mode = "quantile" ->
            IF v < t.stats.q80 THEN 0
            ELSE IF v < t.stats.q95 THEN 1000
            ELSE IF v < t.stats.q99 THEN 2000 ELSE 3000
      [] t.mode = "robust_z" ->
            IF v <= t.stats.median THEN 0
            ELSE CeilDiv(MicroLog[t.stats.mad + v - t.stats.median]
                         - MicroLog[t.stats.mad], 1000)
      [] OTHER -> v

-----------------------------------------------------------------------------
(* Policies.                                                               *)

NoStats == [median |-> 0, mad |-> 1, q80 |-> 0, q95 |-> 0, q99 |-> 0]

DefaultTerms ==
    {<<"law", "total_magnitude">>, <<"repair", "distance">>,
     <<"structural", "forward_cone_mass">>,
     <<"structural", "reverse_dependency_mass">>,
     <<"structural", "cut_vertex_impact">>, <<"structural", "boundary_expansion">>,
     <<"structural", "path_multiplicity">>, <<"structural", "propagated_mass">>,
     <<"surprise", "history_distance">>}

DefaultPolicy ==
    {[key |-> k, num |-> 1, den |-> 1, mode |-> "raw", stats |-> NoStats] :
        k \in DefaultTerms}

LegacyPolicy(w) ==
    {[t EXCEPT !.num = SatMul(@, w[t.key[1]])] : t \in DefaultPolicy}

\* A calibrated policy has a term for the components of its sample only.
CalibratedPolicy(mode) ==
    {[key |-> k, num |-> 1, den |-> 1, mode |-> mode, stats |-> StatsFor(sample[k])] :
        k \in {c \in Components : sample[c] # << >>}}

\* The score of a lattice element.
Project(l, terms) ==
    SatSum([t \in terms |->
        MulDiv(Calibrated(Value(l, t.key), t), t.num, t.den)])

\* The score of a vector under four weights.
ProjectVector(v, w) == SatSum([n \in Namespaces |-> SatMul(v[n], w[n])])

-----------------------------------------------------------------------------

RiskInit ==
    /\ left = << >> /\ right = << >>
    /\ sample = [k \in Components |-> << >>]
    /\ policy = DefaultPolicy /\ legacy = << >>

\* calibration_profile_from_baseline: a value of the baseline's sample.
Observe(k, v) ==
    /\ left = << >> /\ right = << >> /\ policy = DefaultPolicy /\ legacy = << >>
    /\ Len(sample[k]) < MaxSample
    /\ sample' = [sample EXCEPT ![k] = Append(@, v)]
    /\ UNCHANGED <<left, right, policy, legacy>>

\* calibrated_projection_policy over the profile of the sample.
Calibrate(mode) ==
    /\ left = << >> /\ right = << >> /\ policy = DefaultPolicy /\ legacy = << >>
    /\ \E k \in Components : sample[k] # << >>
    /\ policy' = CalibratedPolicy(mode)
    /\ UNCHANGED <<left, right, sample, legacy>>

\* A specification written with four weights is decoded.
DecodeLegacy(w) ==
    /\ left = << >> /\ right = << >> /\ policy = DefaultPolicy
    /\ \A k \in Components : sample[k] = << >>
    /\ policy' = LegacyPolicy(w)
    /\ legacy' = <<w>>
    /\ UNCHANGED <<left, right, sample>>

\* joined_lattice: one more measured coordinate is joined in.
Measure(k, v) ==
    /\ \/ /\ left' = Join(left, [c \in {k} |-> v])
          /\ UNCHANGED right
       \/ /\ right' = Join(right, [c \in {k} |-> v])
          /\ UNCHANGED left
    /\ UNCHANGED <<sample, policy, legacy>>

RiskNext ==
    \/ \E k \in Sampled, v \in Samples : Observe(k, v)
    \/ \E mode \in {"quantile", "robust_z", "raw"} : Calibrate(mode)
    \/ \E w \in [Namespaces -> Weights] : DecodeLegacy(w)
    \/ \E k \in Components, v \in Values : Measure(k, v)

RiskSpec == RiskInit /\ [][RiskNext]_riskVars

-----------------------------------------------------------------------------
(* Properties.                                                             *)

(* More risk in every coordinate is never a lower score, whatever the      *)
(* policy, its calibration and its overflow: project() over the lattice    *)
(* order of less_equal().                                                  *)
ProjectionIsMonotone ==
    LessEqual(left, right) => Project(left, policy) <= Project(right, policy)

(* The score of two joined measurements (what the guard reports for its    *)
(* commits) is at least that of each, and at most the two together.        *)
JoinedScoreIsBounded ==
    LET joined == Project(Join(left, right), policy)
        l == Project(left, policy)
        r == Project(right, policy)
    IN  Max({l, r}) <= joined /\ joined <= Min({Top, l + r})

(* The vector of joined measurements, which joined_risk() reports and the   *)
(* guard compares with the vectors of single commits, covers the vector of *)
(* each, and is never more than their sum.                                 *)
VectorFollowsJoin ==
    LET joined == Vector(Join(left, right))
        total(l, n) == Min({Top, SumFunction(Of(l, n))})
    IN  \A n \in Namespaces :
            /\ Max({total(left, n), total(right, n)}) <= joined[n]
            /\ joined[n] <= Min({Top, total(left, n) + total(right, n)})

(* A quantile of a calibration covers its share of the sample, and the     *)
(* quantiles are ordered, so that the steps of a calibrated coordinate     *)
(* are met in order.                                                       *)
QuantilesCover ==
    \A k \in Components : sample[k] # << >> =>
        LET covers(p, q) ==
                100 * Cardinality({i \in DOMAIN sample[k] : sample[k][i] <= q})
                    >= p * Len(sample[k])
            s == StatsFor(sample[k])
        IN  /\ covers(50, s.median) /\ covers(80, s.q80)
            /\ covers(95, s.q95) /\ covers(99, s.q99)
            /\ s.median <= s.q80 /\ s.q80 <= s.q95 /\ s.q95 <= s.q99

(* A policy decoded from four weights scores a measurement of the default  *)
(* components as the four weights score its vector: what an old            *)
(* specification said stays said.                                          *)
LegacyScoresAgree ==
    legacy # << >> =>
        \A l \in {left, right} : DOMAIN l \subseteq DefaultTerms =>
            Project(l, policy) = ProjectVector(Vector(l), legacy[1])

=============================================================================

------------------------ MODULE InterventionSearches ------------------------
(***************************************************************************)
(* What a search makes of its replays: dyadic scales                       *)
(* (intervention/scale_value.cpp), the programs it tries (build_programs), *)
(* the summary of its samples (summarize_search), the order of programs    *)
(* (intervention/intervention_lattice.cpp), the filtration over scales     *)
(* (measure/counterfactual_measure.cpp) and the severity that follows      *)
(* (measure/breakpoint_measure.cpp).                                       *)
(*                                                                         *)
(* The outcome of a replay is any the replay can have.  Lengths are in     *)
(* units of 2^-MaxExponent instead of doubles: they are exact.             *)
(***************************************************************************)
EXTENDS Integers, Sequences, FiniteSets, SequencesExt, FiniteSetsExt, TLC

CONSTANTS Families,              \* operator families, in the order of their ids
          MaxExponent,           \* the largest exponent of a scale
          Depth, Composition,    \* InterventionSearchOptions
          Intervals,             \* CounterfactualFiltrationOptions
          Cost,                  \* of the script of a family: its words
          Evidence,              \* evidence ids
          MaxSamples             \* bound on the programs sampled

VARIABLES samples,               \* of the search, in the order of the programs
          filtration,            \* its samples, in the order of the scales
          trio                   \* << >>, or three programs to compare
vars == <<samples, filtration, trio>>

-----------------------------------------------------------------------------
(* Scales *)

RECURSIVE Normalize(_, _)
\* ScaleValue::dyadic; << >> stands for the exception.
Normalize(numerator, exponent) ==
  IF exponent > MaxExponent \/ numerator > 2^exponent THEN << >>
  ELSE IF numerator = 0 THEN <<0, 0>>
  ELSE IF exponent > 0 /\ numerator % 2 = 0
       THEN Normalize(numerator \div 2, exponent - 1)
       ELSE <<numerator, exponent>>
Dyadic(numerator, exponent) == Normalize(numerator, exponent)
Zero == <<0, 0>>
Whole == <<1, 0>>
Less(left, right) == left[1] * 2^right[2] < right[1] * 2^left[2]
Units(scale) == scale[1] * 2^(MaxExponent - scale[2])

\* dyadic_refinement_scales
Refinement(depth) ==
  SetToSortSeq({Dyadic(n, depth) : n \in 0..(2^depth)}, Less)

-----------------------------------------------------------------------------
(* Programs: sequences of operators [family, scale] *)

\* refine_family leaves the scale 0 to the identity.
OperatorsOf(depth) ==
  {[family |-> f, scale |-> s] :
     f \in Range(Families), s \in Range(Refinement(depth)) \ {Zero}}

Identity == << >>
BuildPrograms(depth, composition) ==
  LET ops == OperatorsOf(depth)
  IN {Identity} \cup {<<op>> : op \in ops}
       \cup IF composition < 2 THEN {}
            ELSE {<<l, r>> : l, r \in ops} \ {<<op, op>> : op \in ops}

\* program_scale
ScaleOf(program) ==
  LET scales == {program[n].scale : n \in DOMAIN program} \cup {Zero}
  IN CHOOSE s \in scales : \A t \in scales : ~Less(s, t)

CostOf(program) == FoldLeft(LAMBDA sum, op : sum + Cost[op.family], 0, program)

SameShape(left, right) ==
  /\ Len(left) = Len(right)
  /\ \A n \in DOMAIN left : left[n].family = right[n].family

\* compare_interventions
Order(left, right) ==
  LET Weaker == \E n \in DOMAIN left : Less(left[n].scale, right[n].scale)
      Stronger == \E n \in DOMAIN left : Less(right[n].scale, left[n].scale)
  IN IF left = right THEN "Equivalent"
     ELSE IF ~SameShape(left, right) THEN "Incomparable"
     ELSE IF Weaker /\ ~Stronger THEN "Weaker"
     ELSE IF Stronger /\ ~Weaker THEN "Stronger" ELSE "Incomparable"

-----------------------------------------------------------------------------
(* Samples *)

\* What a replay leaves: a failed one counts as survived.
Failed == [replayed |-> FALSE, transformed |-> FALSE, survives |-> TRUE,
           evidence |-> {}]
Outcomes ==
  {Failed}
    \cup [replayed : {TRUE}, transformed : BOOLEAN, survives : {TRUE},
          evidence : SUBSET Evidence]
    \cup [replayed : {TRUE}, transformed : BOOLEAN, survives : {FALSE},
          evidence : {{}}]

Sample(program, scale, outcome) ==
  [program |-> program, scale |-> scale, cost |-> CostOf(program)] @@ outcome

\* carried_evidence: what every replayed survivor still has.
Carried(set) ==
  LET alive == {s \in set : s.replayed /\ s.survives}
  IN IF alive = {} THEN {}
     ELSE {e \in UNION {s.evidence : s \in alive} :
             \A s \in alive : e \in s.evidence}

\* The regions of a summary: a step per sample in the order of the scales.
NoRegion == << >>
Close(st, death) ==
  [st EXCEPT !.regions = Append(@, [birth |-> st.open[1], last |-> st.open[2],
                                    death |-> death]),
             !.open = NoRegion]

SummaryStep(st, s) ==
  IF s.survives
  THEN [st EXCEPT !.open = IF @ = NoRegion THEN <<s.scale, s.scale>>
                           ELSE <<@[1], s.scale>>]
  ELSE LET killed == IF st.kill = << >> THEN [st EXCEPT !.kill = <<s.scale>>] ELSE st
       IN IF st.open = NoRegion THEN killed ELSE Close(killed, s.scale)

\* summarize_filtration: the samples come in the order of their scales.
Summary(ordered) ==
  LET st == FoldLeft(SummaryStep, [regions |-> << >>, open |-> NoRegion,
                                   kill |-> << >>], ordered)
      top == IF ordered = << >> THEN Zero ELSE Last(ordered).scale
      closed == IF st.open = NoRegion THEN st ELSE Close(st, top)
      Length(r) == Units(r.death) - Units(r.birth)
  IN [regions |-> closed.regions, kill |-> st.kill,
      persistence |-> FoldLeft(LAMBDA sum, r : sum + Length(r), 0,
                               closed.regions),
      carried |-> Carried(Range(ordered))]

\* The hash of a program orders those of one scale: an order of the
\* programs that has nothing to do with what they do.
Rank(program) ==
  LET fine == 2^MaxExponent + 1
  IN FoldLeft(LAMBDA n, op :
                (Len(Families) + 1) * fine * n + Units(op.scale)
                  + fine * (CHOOSE i \in DOMAIN Families : Families[i] = op.family),
              0, program)

\* Mutant: the samples are summarized in the order they were taken in.
SearchSummaryUnsorted(sequence) == Summary(sequence)
\* summarize_search
SearchSummary(sequence) ==
  Summary(SortSeq(sequence,
                  LAMBDA l, r : \/ Less(l.scale, r.scale)
                                \/ /\ l.scale = r.scale
                                   /\ Rank(l.program) < Rank(r.program)))

\* InterventionSearch::search keeps the cheapest program that kills.
Killers(set) == {s \in set : s.transformed /\ ~s.survives}
Cheapest(set) ==
  IF set = {} THEN << >>
  ELSE <<CHOOSE s \in set :
           \A t \in set : \/ s.cost < t.cost
                          \/ s.cost = t.cost /\ Rank(s.program) <= Rank(t.program)>>

-----------------------------------------------------------------------------
(* The filtration: one family per scale *)

Ladder == <<"Constrain", "Delay", "Replace", "Remove">>

\* depth_for_intervals
DepthFor(intervals) ==
  CHOOSE d \in 0..16 : 2^d >= intervals /\ \A e \in 0..(d - 1) : 2^e < intervals

\* intervention_for_scale
InterventionFor(scale) ==
  IF scale = Zero THEN "Identity"
  ELSE Ladder[Min({Len(Ladder),
                   (scale[1] * Len(Ladder) + 2^scale[2] - 1) \div 2^scale[2]})]

ScaleSamples == Refinement(DepthFor(Intervals))

\* repair_measure_from_trace: a repair is one that edited the history.
Repaired(set) == {s \in set : s.program # Identity /\ s.transformed}

\* BreakpointMeasure::measure; << >> is no eliminating repair.
Severity(search, steps) ==
  LET killer == Cheapest(Killers(Range(search)))
      repairs == {s \in Repaired(Range(steps)) : ~s.survives}
      costs == {s.cost : s \in repairs} \cup {s.cost : s \in Range(killer)}
  IN IF costs = {} THEN << >> ELSE <<Min(costs)>>

-----------------------------------------------------------------------------

Init == samples = << >> /\ filtration = << >> /\ trio = << >>

\* The programs of a search, in the order of their costs and hashes.
TakeSample ==
  /\ Len(samples) < MaxSamples /\ filtration = << >> /\ trio = << >>
  /\ \E program \in BuildPrograms(Depth, Composition), outcome \in Outcomes :
       /\ \A s \in Range(samples) :
            \/ s.cost < CostOf(program)
            \/ s.cost = CostOf(program) /\ Rank(s.program) < Rank(program)
       /\ outcome.transformed => program # Identity
       /\ samples' = Append(samples, Sample(program, ScaleOf(program), outcome))
  /\ UNCHANGED <<filtration, trio>>

\* The next scale of the filtration.
TakeStep ==
  /\ Len(samples) <= 1 /\ Len(filtration) < Len(ScaleSamples) /\ trio = << >>
  /\ LET scale == ScaleSamples[Len(filtration) + 1]
         family == InterventionFor(scale)
         program == IF family \in Range(Families)
                    THEN <<[family |-> family, scale |-> scale]>> ELSE Identity
     IN \E outcome \in Outcomes :
          /\ outcome.transformed => program # Identity
          \* no family for this scale
          /\ family \notin Range(Families) \cup {"Identity"} => outcome = Failed
          /\ filtration' = Append(filtration, Sample(program, scale, outcome))
  /\ UNCHANGED <<samples, trio>>

Compare ==
  /\ samples = << >> /\ filtration = << >> /\ trio = << >>
  /\ \E programs \in [1..3 -> BuildPrograms(1, 2)] : trio' = programs
  /\ UNCHANGED <<samples, filtration>>

Next == TakeSample \/ TakeStep \/ Compare
Spec == Init /\ [][Next]_vars

-----------------------------------------------------------------------------
(* Properties *)

Dead(sequence) == {n \in DOMAIN sequence : ~sequence[n].survives}

\* Scales are exact: each has one representation, the refinement of a depth
\* holds that of the depth before it, in increasing order and without gaps.
ScalesAreExact ==
  LET fine == ScaleSamples
      units == [n \in DOMAIN fine |-> Units(fine[n])]
  IN /\ \A n \in 1..(Len(fine) - 1) : units[n] < units[n + 1]
     /\ Head(fine) = Zero /\ Last(fine) = Whole
     /\ \A n \in 0..(2^MaxExponent) :
          Dyadic(n, MaxExponent) \in Range(fine)
            => Units(Dyadic(n, MaxExponent)) = n
     /\ \A d \in 0..(MaxExponent - 1) :
          Range(Refinement(d)) \subseteq Range(Refinement(d + 1))

\* The interventions of a filtration grow with the scale and, from four
\* intervals on, all of them are tried, the removal at scale 1.
LadderIsClimbed ==
  LET fine == ScaleSamples
      rung == [n \in DOMAIN fine |->
                 IF InterventionFor(fine[n]) = "Identity" THEN 0
                 ELSE CHOOSE r \in DOMAIN Ladder :
                        Ladder[r] = InterventionFor(fine[n])]
  IN /\ \A m, n \in DOMAIN rung : m <= n => rung[m] <= rung[n]
     /\ Intervals >= 4 => Range(rung) = 0..4
     /\ rung[Len(rung)] = 4

\* Persistence is the time between a surviving sample and the next one,
\* however the samples fall into regions.
PersistenceIsTime ==
  LET s == Summary(filtration)
      n == Len(filtration)
      Gap(i) == Units(filtration[i + 1].scale) - Units(filtration[i].scale)
  IN s.persistence =
       FoldLeft(LAMBDA sum, i : sum + IF i < n /\ filtration[i].survives
                                      THEN Gap(i) ELSE 0,
                0, [i \in 1..n |-> i])

\* Every surviving sample of a search lies in a region of its summary, and
\* the kill scale is the least at which a program did not survive.
RegionsHoldSurvivors ==
  LET s == SearchSummary(samples)
  IN /\ \A n \in DOMAIN samples \ Dead(samples) :
          \E r \in Range(s.regions) :
            /\ ~Less(samples[n].scale, r.birth) /\ ~Less(r.last, samples[n].scale)
            /\ ~Less(r.death, r.last)
     /\ IF Dead(samples) = {} THEN s.kill = << >>
        ELSE /\ s.kill # << >>
             /\ \E n \in Dead(samples) : samples[n].scale = s.kill[1]
             /\ \A n \in Dead(samples) : ~Less(samples[n].scale, s.kill[1])

\* What a search says does not depend on the order its programs ran in.
OrderDoesNotMatter == SearchSummary(Reverse(samples)) = SearchSummary(samples)

\* Evidence is carried when every replay that survived still has it; a
\* replay that failed says nothing of it.
FailuresCarryEvidence ==
  LET alive == {n \in DOMAIN samples : samples[n].replayed /\ samples[n].survives}
      carried == SearchSummary(samples).carried
  IN /\ \A e \in carried : \A n \in alive : e \in samples[n].evidence
     /\ \A e \in Evidence :
          alive # {} /\ (\A n \in alive : e \in samples[n].evidence)
            => e \in carried

\* A severity is the cost of some program that edited the history and after
\* which the breakpoint was gone, and no such program was cheaper.
SeverityIsLeastEdit ==
  LET all == Range(samples) \cup Range(filtration)
      killers == {s \in all : s.replayed /\ s.transformed /\ ~s.survives}
      severity == Severity(samples, filtration)
  IN /\ (severity = << >>) = (killers = {})
     /\ \A s \in killers : severity[1] <= s.cost
     /\ severity # << >> => \E s \in killers : s.cost = severity[1]

\* Weaker is a strict partial order whose converse is stronger.
OrderIsPartial ==
  trio # << >> =>
    LET l == trio[1]  m == trio[2]  r == trio[3]
    IN /\ (Order(l, m) = "Weaker") = (Order(m, l) = "Stronger")
       /\ (Order(l, m) = "Equivalent") = (l = m)
       /\ Order(l, m) = "Weaker" /\ Order(m, r) = "Weaker"
            => Order(l, r) = "Weaker"
=============================================================================

--------------------------- MODULE MCInterventions ---------------------------
(* What is computed over the history of a branch, in one run: replays of   *)
(* edited histories, the searches that sum them up, comparisons of two     *)
(* branches and the search for repairs.                                    *)
EXTENDS Machines, WorldSnapshots

VARIABLES
  source, history, search, replica, next, delayed, transformed,
  outcome,                                          \* InterventionReplay
  samples, filtration, trio,                        \* InterventionSearches
  log, refs, session, answer,                       \* MergeAnalysis
  problem, queue, turn, seen, expansions, result    \* RepairSearch

replayVars == <<source, history, search, replica, next, delayed, transformed, outcome>>
searchVars == <<samples, filtration, trio>>
mergeVars == <<log, refs, session, answer>>
repairVars == <<problem, queue, turn, seen, expansions, result>>
vars == <<machine, replayVars, searchVars, mergeVars, repairVars>>

-----------------------------------------------------------------------------
(* Replays: three commits between three objects, of links of two relations *)
(* and scripts that link twice, expire or weigh too much; a program is     *)
(* the identity or one operator.                                           *)

Replayed == INSTANCE InterventionReplay WITH
  MinEvents <- 3, ShareNum <- 1, ShareDen <- 2, Entities <- {"a", "b", "c"},
  Ends <- {<<"a", "b">>, <<"a", "c">>}, RelationNames <- {"r", "s"}, Weights <- {8},
  One <- 4, Scales <- {2}, MaxCommits <- 3, MaxOperators <- 1

-----------------------------------------------------------------------------
(* Searches: two families, a refinement of one level, scales in quarters.  *)

Searched == INSTANCE InterventionSearches WITH
  Families <- <<"Constrain", "Remove">>, MaxExponent <- 2, Depth <- 1, Composition <- 2,
  Intervals <- 4, Cost <- [Constrain |-> 2, Remove |-> 1], Evidence <- {"e1"},
  MaxSamples <- 3

-----------------------------------------------------------------------------
(* Comparisons: three branches and a checkpoint at every second commit; or *)
(* two branches, long enough for the commit they were forked at to lie     *)
(* before the last checkpoints.                                            *)

Compared == INSTANCE MergeAnalysis WITH
  Names <- {"main", "a", "b"}, LawSets <- {"strict"}, CheckpointEvery <- 2, MaxCommits <- 3
Restored == INSTANCE MergeAnalysis WITH
  Names <- {"main", "a"}, LawSets <- {"strict"}, CheckpointEvery <- 2, MaxCommits <- 4

-----------------------------------------------------------------------------
(* Repairs: an agent and a file, links of two relations, weights over the  *)
(* bound, and rules about what came before or is there.                    *)

Object(name, type) ==
  [name |-> name, type |-> type, existence |-> "Alive", attrs |-> {<<"k", 1>>}]
Pointer(relation, weight) ==
  [from |-> 1, to |-> 2, relation |-> relation, weight |-> weight, born |-> 1,
   expires |-> Never, domain |-> "d", attrs |-> {}]
AgentAndFile(pointers) ==
  [epoch |-> 1, types |-> <<"Agent", "File">>, relations |-> <<"reads", "writes">>,
   objects |-> <<Object("a", 1), Object("f", 2)>>, pointers |-> pointers]

Link(relation, weight) ==
  [kind |-> "CreatePointer", from |-> IdRef(1), to |-> IdRef(2),
   relation |-> relation, weight |-> weight, domain |-> "d",
   attrs |-> <<<<"k", 1>>>>]
Weigh(n, weight) == [kind |-> "SetPointerWeight", id |-> n, weight |-> weight]
Unlink(n) == [kind |-> "ExpirePointer", id |-> n]

Broken == {AgentAndFile(<< >>), AgentAndFile(<<Pointer(1, 100)>>),
           AgentAndFile(<<Pointer(1, 100), Pointer(2, 150)>>)}
Breaking ==
  {<<Link(1, w)>> : w \in {100, 150}} \cup {<<Link(2, w)>> : w \in {100, 150}}
    \cup {<<Link(1, 150), Link(2, 150)>>, <<Link(2, 100), Link(2, 100)>>,
          <<Weigh(1, -50)>>, <<Weigh(1, 150), Weigh(2, 150)>>,
          <<Unlink(1), Link(2, 100)>>,
          <<[kind |-> "SetObjectAttribute", object |-> IdRef(1), key |-> "k",
             value |-> 2], Link(1, 150)>>}

Writes == [from_type |-> "Agent", relation |-> "writes", to_type |-> "File"]
Requirement(kind, forbidden) ==
  [pattern |-> [from_type |-> "Agent", relation |-> "reads", to_type |-> "File"],
   from_binding |-> "from", to_binding |-> "to", search |-> kind,
   forbidden |-> forbidden]
Rule(kind, forbidden) ==
  [name |-> "rule", trigger |-> Writes, severity |-> "error",
   requirements |-> <<Requirement(kind, forbidden)>>]
Verifier(laws, rules) ==
  [mode |-> "observe", laws |-> laws, rules |-> rules, tolerance |-> 0]

LawsAndRules ==
  {Verifier({"bounded_weight"}, {})}
    \cup {Verifier({}, {Rule(k, f)}) :
            k \in {"before", "after", "exists"}, f \in BOOLEAN}
    \cup {Verifier({"bounded_weight"}, {Rule("before", FALSE)})}

Repaired == INSTANCE RepairSearch WITH
  Befores <- Broken, Deltas <- Breaking, Verifiers <- LawsAndRules,
  MaxDepth <- 2, MaxCandidates <- 16

-----------------------------------------------------------------------------

NoReplay ==
  /\ source = Unused /\ history = Unused /\ search = Unused /\ replica = Unused
  /\ next = Unused /\ delayed = Unused /\ transformed = Unused /\ outcome = Unused
NoSearch == samples = Unused /\ filtration = Unused /\ trio = Unused
NoMerge == log = Unused /\ refs = Unused /\ session = Unused /\ answer = Unused
NoRepair ==
  /\ problem = Unused /\ queue = Unused /\ turn = Unused
  /\ seen = Unused /\ expansions = Unused /\ result = Unused

Init ==
  \/ machine = "replay" /\ Replayed!Init /\ NoSearch /\ NoMerge /\ NoRepair
  \/ machine = "search" /\ Searched!Init /\ NoReplay /\ NoMerge /\ NoRepair
  \/ machine = "compare" /\ Compared!Init /\ NoReplay /\ NoSearch /\ NoRepair
  \/ machine = "repair" /\ Repaired!Init /\ NoReplay /\ NoSearch /\ NoMerge

StepReplay ==
  machine = "replay" /\ Replayed!Next /\ UNCHANGED <<machine, searchVars, mergeVars, repairVars>>
StepSearch ==
  machine = "search" /\ Searched!Next /\ UNCHANGED <<machine, replayVars, mergeVars, repairVars>>
StepCompare ==
  machine = "compare" /\ Compared!Next /\ UNCHANGED <<machine, replayVars, searchVars, repairVars>>
StepRepair ==
  machine = "repair" /\ Repaired!Next /\ UNCHANGED <<machine, replayVars, searchVars, mergeVars>>

Next == StepReplay \/ StepSearch \/ StepCompare \/ StepRepair
Spec == Init /\ [][Next]_vars

\* The comparisons of two branches, by themselves.
StepRestored ==
  machine = "restored" /\ Restored!Next
    /\ UNCHANGED <<machine, replayVars, searchVars, repairVars>>
RestoredSpec ==
  /\ machine = "restored" /\ Restored!Init /\ NoReplay /\ NoSearch /\ NoRepair
  /\ [][StepRestored]_vars

-----------------------------------------------------------------------------
(* Properties *)

\* A replay edits what its program names and nothing else: without operators
\* it gives the branch back, the links a program is not about are there once,
\* a delay loses none, a program that only constrains never fails, and
\* whether a repeated relation dies can be counted in the source.
ReplaysEditTheirTrigger ==
  machine = "replay" =>
    /\ Replayed!IdentityReproduces
    /\ Replayed!OtherLinksAreKept
    /\ Replayed!DelayLosesNothing
    /\ Replayed!DeathIsCounted
    /\ Replayed!ConstrainReplays
    /\ Replayed!RepeatedMeansTwoLinks

\* A search sums its samples up as they are: exact scales, every rung tried,
\* persistence as time, regions that hold the survivors, carried evidence,
\* the least edit as severity, whatever order the programs ran in.
SearchesSumUp ==
  machine = "search" =>
    /\ Searched!ScalesAreExact
    /\ Searched!LadderIsClimbed
    /\ Searched!PersistenceIsTime
    /\ Searched!RegionsHoldSurvivors
    /\ Searched!OrderDoesNotMatter
    /\ Searched!FailuresCarryEvidence
    /\ Searched!SeverityIsLeastEdit
    /\ Searched!OrderIsPartial

\* Two branches are compared from the last commit they share, each side from
\* its first own commit, with the same answer from either side and from any
\* process that answers.
ComparisonsAreExact ==
  machine = "compare" =>
    /\ Compared!AncestorIsLatest
    /\ Compared!DivergenceIsFirst
    /\ Compared!AnswersAgree
    /\ Compared!ForwardKeepsPointers
    /\ Compared!ComparisonIsSymmetric
    /\ Compared!FinderNamesDivergences

\* A witness leads to a legal world, no shorter one does, and a search that
\* tried everything missed none.
RepairsAreLeast ==
  machine = "repair" =>
    /\ Repaired!WitnessRepairs
    /\ Repaired!DepthIsLeast
    /\ Repaired!TriedMeansNone

\* The breakpoints of a branch stay where they are while the branch grows.
BreakpointsStay == [][machine = "replay" => Replayed!BreakpointsHold]_vars

\* README.md:182 offers to compare two branches: a process that has just
\* opened the repository can do so too.
ComparisonsAnswer == machine = "restored" => Restored!CompareAnswers
=============================================================================

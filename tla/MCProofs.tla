------------------------------- MODULE MCProofs -------------------------------
(***************************************************************************)
(* The theorems about the components, brought to the properties of the     *)
(* runs: of the machines of MCWorld, MCKernel, MCIngestion and MCStorage.  *)
(***************************************************************************)
EXTENDS MCWorld, MCKernel, MCIngestion, MCStorage, TLAPS

-----------------------------------------------------------------------------
(* MCWorld: one caller with every kind of delta, and two who, with         *)
(* evolution, race over one world.                                         *)

PrepareInv == machine = "prepare" => Prepare!TransactionInv

LEMMA PrepareInit ==
  ASSUME WorldInit
  PROVE  PrepareInv
<1>1. CASE machine = "prepare" /\ Prepare!Init
  BY <1>1, PrepareAssumption, Prepare!InitTransactionInv DEF PrepareInv
<1>2. CASE machine \in {"race", "trace", "merge", "morph"}
  BY <1>2 DEF PrepareInv
<1> QED BY <1>1, <1>2 DEF WorldInit

(* A step of the run is a step of the machine it is about.                 *)
LEMMA PrepareSteps ==
  ASSUME [WorldNext]_worldVars, machine = "prepare"
  PROVE  machine' = machine /\ (Prepare!Next \/ UNCHANGED txVars)
<1>1. CASE WorldNext
  BY <1>1 DEF WorldNext, StepPrepare, StepRace, StepTrace, StepMerge, StepMorph
<1>2. CASE UNCHANGED worldVars
  BY <1>2 DEF worldVars, txVars
<1> QED BY <1>1, <1>2

LEMMA PrepareNext ==
  ASSUME PrepareInv, [WorldNext]_worldVars
  PROVE  PrepareInv'
<1>1. CASE machine = "prepare"
  <2>1. machine' = machine /\ [Prepare!Next]_(Prepare!vars)
    BY <1>1, PrepareSteps DEF txVars, Prepare!vars
  <2>2. 2 \in Nat
    OBVIOUS
  <2>3. Prepare!TransactionInv'
    BY <1>1, <2>1, <2>2, PrepareAssumption, Prepare!NextTransactionInv DEF PrepareInv
  <2> QED BY <2>3 DEF PrepareInv
<1>2. CASE machine # "prepare"
  BY <1>2 DEF PrepareInv, WorldNext, worldVars, StepPrepare, StepRace, StepTrace, StepMerge, StepMorph
<1> QED BY <1>1, <1>2

(* What a commit does to the world is what its preparation proved: the     *)
(* overlay and apply_delta agree, the preview leaves no delta half done,   *)
(* and the write set of the plan holds every fact the commit brings.       *)
THEOREM ProofsHold == WorldSpec => []ProofsAreExact
<1>1. PrepareInv => ProofsAreExact
  <2> SUFFICES ASSUME machine = "prepare", Prepare!TransactionInv
               PROVE  /\ Prepare!ProofMatchesWorld /\ Prepare!NoHalfAppliedDelta
                      /\ Prepare!WriteSetCovers
    BY DEF PrepareInv, ProofsAreExact
  <2>1. Prepare!ProofsTell /\ Prepare!NoHalfAppliedDelta
    BY DEF Prepare!TransactionInv
  <2> QED BY <2>1, Prepare!ProofsSay
<1> QED BY <1>1, PrepareInit, PrepareNext, PTL DEF WorldSpec

-----------------------------------------------------------------------------
(* The race.                                                               *)

RaceInv == machine = "race" => Race!EvolutionInv

LEMMA RaceInit ==
  ASSUME WorldInit
  PROVE  RaceInv
<1>1. CASE machine = "race" /\ Race!Init
  BY <1>1, RaceAssumption, Race!InitEvolutionInv DEF RaceInv
<1>2. CASE machine \in {"prepare", "trace", "merge", "morph"}
  BY <1>2 DEF RaceInv
<1> QED BY <1>1, <1>2 DEF WorldInit

LEMMA RaceSteps ==
  ASSUME [WorldNext]_worldVars, machine = "race"
  PROVE  machine' = machine /\ (Race!Next \/ UNCHANGED txVars)
<1>1. CASE WorldNext
  BY <1>1 DEF WorldNext, StepPrepare, StepRace, StepTrace, StepMerge, StepMorph
<1>2. CASE UNCHANGED worldVars
  BY <1>2 DEF worldVars, txVars
<1> QED BY <1>1, <1>2

LEMMA RaceNext ==
  ASSUME RaceInv, [WorldNext]_worldVars
  PROVE  RaceInv'
<1>1. CASE machine = "race"
  <2>1. machine' = machine /\ [Race!Next]_(Race!vars)
    BY <1>1, RaceSteps DEF txVars, Race!vars
  <2>2. 3 \in Nat
    OBVIOUS
  <2>3. Race!EvolutionInv'
    BY <1>1, <2>1, <2>2, RaceAssumption, Race!NextEvolutionInv DEF RaceInv
  <2> QED BY <2>3 DEF RaceInv
<1>2. CASE machine # "race"
  BY <1>2 DEF RaceInv, WorldNext, worldVars, StepPrepare, StepRace, StepTrace, StepMerge, StepMorph
<1> QED BY <1>1, <1>2

(* However two callers and evolution interleave, an accepted commit stands *)
(* on the world the one before it left (commit_prepared compares the       *)
(* snapshots), and an object has one live evolves_to edge.                 *)
THEOREM NoUpdateIsLost == WorldSpec => []NoLostUpdate
<1>1. RaceInv => NoLostUpdate
  <2> SUFFICES ASSUME machine = "race", Race!EvolutionInv
               PROVE  Race!TypeOK /\ Race!NoLostUpdate /\ Race!OneEvolutionEdge
    BY DEF RaceInv, NoLostUpdate
  <2>1. Race!TransactionInv /\ Race!OneLoopEach(world)
    BY DEF Race!EvolutionInv
  <2>2. Race!TypeOK
    BY <2>1, Race!TransactionTypes
  <2>3. Race!NoLostUpdate
    BY <2>1 DEF Race!TransactionInv
  <2>4. Race!OneEvolutionEdge
    BY <2>1 DEF Race!OneLoopEach, Race!LiveLoop, Race!OneEvolutionEdge
  <2> QED BY <2>2, <2>3, <2>4
<1> QED BY <1>1, RaceInit, RaceNext, PTL DEF WorldSpec

(* A pointer that has expired stays so, whatever is committed later:       *)
(* apply_delta sets an expiry to the epoch it leads to.                    *)
THEOREM ExpiriesAreFinal == WorldSpec => ExpiryIsFinal
<1>1. RaceInv /\ [WorldNext]_worldVars => [machine = "race" => Race!ExpiredStays]_worldVars
  <2> SUFFICES ASSUME RaceInv, WorldNext, machine = "race"
               PROVE  Race!ExpiredStays
    OBVIOUS
  <2>1. [Race!Next]_(Race!vars)
    BY RaceSteps DEF txVars, Race!vars
  <2>2. Race!TransactionInv
    BY DEF RaceInv, Race!EvolutionInv
  <2> QED BY <2>1, <2>2, RaceAssumption, Race!ExpiredStep
<1> QED BY <1>1, RaceInit, RaceNext, PTL DEF WorldSpec, ExpiryIsFinal

-----------------------------------------------------------------------------
(* MCKernel: the audited world, and the evolution of reachability.         *)

(* The rules of the run are the ones the theorems ask for.                 *)
LEMMA AuditHasRules == {Lawful!ReadRule, Lawful!SealRule} \subseteq AuditRules
<1>1. Lawful!ReadRule \in AuditRules
  BY DEF AuditRules, RuleOf, Writes, PatternOf, Lawful!ReadRule, Lawful!ReadBefore, Lawful!AgentOnFile
<1>2. Lawful!SealRule \in AuditRules
  BY DEF AuditRules, RuleOf, Writes, PatternOf, Lawful!SealRule, Lawful!NoSeal, Lawful!AgentOnFile
<1> QED BY <1>1, <1>2

(* Its derivations bind what their heads name, and name two relations.     *)
LEMMA ReachabilityAsSet ==
  Range(Reachability) =
    {[body |-> <<Atom("X", "cites", "Y")>>, head |-> Atom("X", "reaches", "Y")],
     [body |-> <<Atom("X", "reaches", "Y"), Atom("Y", "cites", "Z")>>,
      head |-> Atom("X", "reaches", "Z")],
     [body |-> <<Atom("X", "reaches", "Y"), Atom("Y", "reaches", "X")>>,
      head |-> Atom("X", "circular", "X")]}
<1>1. DOMAIN Reachability = {1, 2, 3}
  BY DEF Reachability
<1> QED BY <1>1 DEF Reachability, Range

LEMMA SameRange ==
  ASSUME NEW s
  PROVE  Lawful!Range(s) = Range(s)
BY DEF Range, Lawful!Range

LEMMA ReachabilityBinds == Lawful!HeadsBound
<1>1. ASSUME NEW d \in Range(Reachability)
      PROVE  \A atom \in Range(d.body) : {atom.from, atom.to} \subseteq Lawful!Vars(d)
  BY SameRange DEF Lawful!Vars
<1>2. ASSUME NEW d \in Range(Reachability)
      PROVE  {d.head.from, d.head.to} \subseteq Lawful!Vars(d)
  <2>1. CASE d = [body |-> <<Atom("X", "cites", "Y")>>, head |-> Atom("X", "reaches", "Y")]
    <3>1. Atom("X", "cites", "Y") \in Range(d.body)
      BY <2>1 DEF Range
    <3>2. {"X", "Y"} \subseteq Lawful!Vars(d)
      BY <1>1, <3>1 DEF Atom
    <3> QED BY <2>1, <3>2 DEF Atom
  <2>2. CASE d = [body |-> <<Atom("X", "reaches", "Y"), Atom("Y", "cites", "Z")>>,
                  head |-> Atom("X", "reaches", "Z")]
    <3>1. {Atom("X", "reaches", "Y"), Atom("Y", "cites", "Z")} \subseteq Range(d.body)
      BY <2>2 DEF Range
    <3>2. {"X", "Z"} \subseteq Lawful!Vars(d)
      BY <1>1, <3>1 DEF Atom
    <3> QED BY <2>2, <3>2 DEF Atom
  <2>3. CASE d = [body |-> <<Atom("X", "reaches", "Y"), Atom("Y", "reaches", "X")>>,
                  head |-> Atom("X", "circular", "X")]
    <3>1. Atom("X", "reaches", "Y") \in Range(d.body)
      BY <2>3 DEF Range
    <3>2. "X" \in Lawful!Vars(d)
      BY <1>1, <3>1 DEF Atom
    <3> QED BY <2>3, <3>2 DEF Atom
  <2> QED BY <2>1, <2>2, <2>3, ReachabilityAsSet
<1> QED BY <1>2, SameRange DEF Lawful!HeadsBound

LEMMA ReachabilityEnds == Lawful!RoundsSuffice
<1> DEFINE O == {"a", "b", "c"}
           H == Lawful!HeadRelations
<1>1. Lawful!IsFiniteSet(O) /\ Lawful!Cardinality(O) = 3
  <2>1. Lawful!Cardinality({"a"}) = 1 /\ Lawful!IsFiniteSet({"a"})
    BY Lawful!FS_Singleton
  <2>2. /\ Lawful!IsFiniteSet({"a"} \cup {"b"})
        /\ Lawful!Cardinality({"a"} \cup {"b"}) = 2
    BY <2>1, Lawful!FS_AddElement
  <2>3. /\ Lawful!IsFiniteSet(({"a"} \cup {"b"}) \cup {"c"})
        /\ Lawful!Cardinality(({"a"} \cup {"b"}) \cup {"c"}) = 3
    BY <2>2, Lawful!FS_AddElement
  <2>4. O = ({"a"} \cup {"b"}) \cup {"c"}
    OBVIOUS
  <2> QED BY <2>3, <2>4
<1>2. H \subseteq {"reaches", "circular"}
  <2>1. \A d \in Range(Reachability) : d.head.relation \in {"reaches", "circular"}
    BY ReachabilityAsSet DEF Atom
  <2> QED BY <2>1, SameRange DEF Lawful!HeadRelations
<1>3. Lawful!IsFiniteSet(H) /\ Lawful!Cardinality(H) \in Nat /\ Lawful!Cardinality(H) <= 2
  <2>1. Lawful!Cardinality({"reaches"}) = 1 /\ Lawful!IsFiniteSet({"reaches"})
    BY Lawful!FS_Singleton
  <2>2. /\ Lawful!IsFiniteSet({"reaches"} \cup {"circular"})
        /\ Lawful!Cardinality({"reaches"} \cup {"circular"}) = 2
    BY <2>1, Lawful!FS_AddElement
  <2>3. H \subseteq {"reaches"} \cup {"circular"}
    BY <1>2
  <2>4. Lawful!IsFiniteSet(H) /\ Lawful!Cardinality(H) <= 2
    BY <2>2, <2>3, Lawful!FS_Subset
  <2> QED BY <2>4, Lawful!FS_CardinalityType
<1> HIDE DEF H
<1>4. (Lawful!Cardinality(O) * Lawful!Cardinality(O)) * Lawful!Cardinality(H) <= 67
  BY <1>1, <1>3
<1>5. Lawful!ObjectsAssumption /\ Lawful!HeadsBound
  BY LawfulAssumption, ReachabilityBinds
<1>6. /\ Lawful!IsFiniteSet({"a", "b", "c"}) /\ Lawful!IsFiniteSet(Lawful!HeadRelations)
      /\ (Lawful!Cardinality({"a", "b", "c"}) * Lawful!Cardinality({"a", "b", "c"}))
           * Lawful!Cardinality(Lawful!HeadRelations) <= 67
  BY <1>1, <1>3, <1>4 DEF H
<1> QED BY <1>5, <1>6, Lawful!OneRoundAnEdge

-----------------------------------------------------------------------------

KernelInv ==
  /\ machine = "audit" => Lawful!ReadsInv /\ Lawful!SealsInv
  /\ machine = "closing" => Lawful!DerivedInv

LEMMA KernelStartsSo ==
  ASSUME KernelInit
  PROVE  KernelInv
<1>1. CASE machine = "audit" /\ Lawful!Init
  <2>1. Lawful!ReadsInv /\ Lawful!SealsInv
    BY <1>1, Lawful!LawfulInit
  <2> QED BY <1>1, <2>1 DEF KernelInv
<1>2. CASE machine = "closing" /\ Lawful!DerivationInit
  <2>1. Lawful!DerivedInv
    BY <1>2, Lawful!DerivedInitial
  <2> QED BY <1>2, <2>1 DEF KernelInv
<1>3. CASE machine \in {"compiled", "stale", "package"}
  BY <1>3 DEF KernelInv
<1> QED BY <1>1, <1>2, <1>3 DEF KernelInit

(* A step of the run is a step of the machine it is about.                 *)
LEMMA KernelSteps ==
  ASSUME [KernelNext]_kernelVars
  PROVE  /\ machine' = machine
         /\ machine = "audit" => Lawful!Next \/ UNCHANGED lawVars
         /\ machine = "closing" => Lawful!DerivationNext \/ UNCHANGED factVars
BY DEF KernelNext, StepCompiled, StepStale, StepAudit, StepPackage, StepClosing, kernelVars

LEMMA AuditStep ==
  ASSUME Lawful!ReadsInv, Lawful!SealsInv, Lawful!Next \/ UNCHANGED lawVars
  PROVE  Lawful!ReadsInv' /\ Lawful!SealsInv' /\ Lawful!StrictStepBounded
<1>1. Lawful!Next \/ UNCHANGED Lawful!vars
  BY DEF lawVars, Lawful!vars
<1>2. Lawful!ReadsInv'
  BY <1>1, LawfulAssumption, AuditHasRules, Lawful!ReadsStep
<1>3. Lawful!SealsInv'
  BY <1>1, LawfulAssumption, AuditHasRules, Lawful!SealsStep
<1>4. Lawful!WorldInv
  BY DEF Lawful!ReadsInv
<1>5. Lawful!StrictStepBounded
  BY <1>1, <1>4, LawfulAssumption, Lawful!BoundedStep
<1> QED BY <1>2, <1>3, <1>5

LEMMA ClosingStep ==
  ASSUME Lawful!DerivedInv, Lawful!DerivationNext \/ UNCHANGED factVars
  PROVE  Lawful!DerivedInv'
<1>1. Lawful!DerivationNext \/ UNCHANGED Lawful!derivationVars
  BY DEF factVars, Lawful!derivationVars
<1> QED BY <1>1, Lawful!DerivedStep

LEMMA KernelStaysSo ==
  ASSUME KernelInv, [KernelNext]_kernelVars
  PROVE  KernelInv' /\ (machine = "audit" => Lawful!StrictStepBounded)
<1>1. UNCHANGED machine
  BY KernelSteps
<1>2. CASE machine = "audit"
  <2>1. Lawful!ReadsInv' /\ Lawful!SealsInv' /\ Lawful!StrictStepBounded
    BY <1>2, KernelSteps, AuditStep DEF KernelInv
  <2> QED BY <1>1, <1>2, <2>1 DEF KernelInv
<1>3. CASE machine = "closing"
  <2>1. Lawful!DerivedInv'
    BY <1>3, KernelSteps, ClosingStep DEF KernelInv
  <2> QED BY <1>1, <1>3, <2>1 DEF KernelInv
<1>4. CASE machine \notin {"audit", "closing"}
  BY <1>1, <1>4 DEF KernelInv
<1> QED BY <1>2, <1>3, <1>4

(* The audited world of the run: no strict write without a read before it  *)
(* or on a sealed file, and what observe mode let through is on record.    *)
THEOREM AuditsHold == KernelSpec => []AuditHolds
<1>1. KernelInv => AuditHolds
  BY Lawful!ReadsSay, Lawful!SealsSay DEF KernelInv, AuditHolds
<1>2. KernelInit => KernelInv
  BY KernelStartsSo
<1>3. KernelInv /\ [KernelNext]_kernelVars => KernelInv'
  BY KernelStaysSo
<1> QED BY <1>1, <1>2, <1>3, PTL DEF KernelSpec

(* A strict transition of the run is accepted only into a world whose       *)
(* weights are all in bounds, those of expired pointers included.          *)
THEOREM StrictStepsWeigh == KernelSpec => StrictStepsAreBounded
<1>1. KernelInv /\ [KernelNext]_kernelVars => (machine = "audit" => Lawful!StrictStepBounded)
  BY KernelStaysSo
<1>2. KernelInit => KernelInv
  BY KernelStartsSo
<1>3. KernelInv /\ [KernelNext]_kernelVars => KernelInv'
  BY KernelStaysSo
<1> QED BY <1>1, <1>2, <1>3, PTL DEF KernelSpec, StrictStepsAreBounded

(* The evolution of the run: in as many rounds as the code takes, a step   *)
(* derives the least closure of what was authored.                         *)
THEOREM EvolutionIsLeast == KernelSpec => []LeastClosure
<1>1. Lawful!DerivedInv => Lawful!LeastClosure
  <2>1. 67 \in Nat
    OBVIOUS
  <2> QED BY <2>1, ReachabilityEnds, Lawful!DerivedIsLeast
<1>2. KernelInv => LeastClosure
  BY <1>1 DEF KernelInv, LeastClosure
<1>3. KernelInit => KernelInv
  BY KernelStartsSo
<1>4. KernelInv /\ [KernelNext]_kernelVars => KernelInv'
  BY KernelStaysSo
<1> QED BY <1>2, <1>3, <1>4, PTL DEF KernelSpec

-----------------------------------------------------------------------------
(* MCIngestion: one process with faults, and two that share the            *)
(* repository.                                                             *)

IngestionInv ==
  /\ machine = "filed" => Filed!AloneInv(p1) /\ Filed!AllExplained
  /\ machine = "shared" => Shared!ProcessesOK /\ Shared!AllExplained

LEMMA FiledRule == Filed!ReadBeforeWrite \in NoWriteWithoutRead
BY DEF NoWriteWithoutRead, AgentPattern, Filed!ReadBeforeWrite, Filed!ReadBefore, Filed!AgentOnFile

LEMMA SharedRule == Shared!ReadBeforeWrite \in NoWriteWithoutRead
BY DEF NoWriteWithoutRead, AgentPattern, Shared!ReadBeforeWrite, Shared!ReadBefore, Shared!AgentOnFile

LEMMA IngestionStartsSo ==
  ASSUME IngestionInit
  PROVE  IngestionInv
<1>1. CASE machine = "filed" /\ Filed!Init
  <2>1. Filed!AloneInv(p1) /\ Filed!AllExplained
    BY <1>1, Filed!AloneInit, Filed!AllExplainedInit
  <2> QED BY <1>1, <2>1 DEF IngestionInv
<1>2. CASE machine = "shared" /\ Shared!Init
  <2>1. Shared!ProcessesOK /\ Shared!AllExplained
    BY <1>2, Shared!ProcessesInit, Shared!AllExplainedInit
  <2> QED BY <1>2, <2>1 DEF IngestionInv
<1>3. CASE machine \in {"retried", "lines"}
  BY <1>3 DEF IngestionInv
<1> QED BY <1>1, <1>2, <1>3 DEF IngestionInit

LEMMA FiledStep ==
  ASSUME Filed!AloneInv(p1), Filed!AllExplained, Filed!Next \/ UNCHANGED diskVars
  PROVE  Filed!AloneInv(p1)' /\ Filed!AllExplained'
<1>1. Filed!EventsAssumption /\ Filed!CutsAssumption
  BY FiledAssumption
<1>2. Filed!Next \/ UNCHANGED Filed!vars
  BY DEF diskVars, Filed!vars
<1>3. Filed!ProcessesOK
  BY DEF Filed!AloneInv
<1>4. Filed!AloneInv(p1)'
  BY <1>1, <1>2, Filed!AloneStep
<1>5. Filed!AllExplained'
  BY <1>1, <1>2, <1>3, FiledRule, Filed!AllExplainedStep
<1> QED BY <1>4, <1>5

LEMMA SharedStep ==
  ASSUME Shared!ProcessesOK, Shared!AllExplained, Shared!Next \/ UNCHANGED diskVars
  PROVE  Shared!ProcessesOK' /\ Shared!AllExplained'
<1>1. Shared!EventsAssumption
  BY SharedAssumption
<1>2. Shared!Next \/ UNCHANGED Shared!vars
  BY DEF diskVars, Shared!vars
<1>3. Shared!ProcessesOK'
  BY <1>2, Shared!ProcessesStep
<1>4. Shared!AllExplained'
  BY <1>1, <1>2, SharedRule, Shared!AllExplainedStep
<1> QED BY <1>3, <1>4

LEMMA IngestionStaysSo ==
  ASSUME IngestionInv, [IngestionNext]_ingestionVars
  PROVE  IngestionInv'
<1>1. UNCHANGED machine
  BY DEF IngestionNext, StepFiled, StepRetried, StepShared, StepLines, OnDisk, ingestionVars
<1>2. CASE machine = "filed"
  <2>1. Filed!Next \/ UNCHANGED diskVars
    BY <1>2 DEF IngestionNext, StepFiled, StepRetried, StepShared, StepLines, ingestionVars
  <2>2. Filed!AloneInv(p1)' /\ Filed!AllExplained'
    BY <1>2, <2>1, FiledStep DEF IngestionInv
  <2> QED BY <1>1, <1>2, <2>2 DEF IngestionInv
<1>3. CASE machine = "shared"
  <2>1. Shared!Next \/ UNCHANGED diskVars
    BY <1>3 DEF IngestionNext, StepFiled, StepRetried, StepShared, StepLines, ingestionVars
  <2>2. Shared!ProcessesOK' /\ Shared!AllExplained'
    BY <1>3, <2>1, SharedStep DEF IngestionInv
  <2> QED BY <1>1, <1>3, <2>2 DEF IngestionInv
<1>4. CASE machine \notin {"filed", "shared"}
  BY <1>1, <1>4 DEF IngestionInv
<1> QED BY <1>2, <1>3, <1>4

(* The machines of the run, and so its property: what the index says was   *)
(* seen is committed, reports add up, and repeats are accounted for.       *)
THEOREM SeenEventsAreStored == IngestionSpec => []SeenIsStored
<1>1. IngestionInv => SeenIsStored
  BY Filed!AloneSays, Filed!ReportAdds, Shared!ReportAdds DEF IngestionInv, SeenIsStored, Filed!AloneInv
<1>2. IngestionInit => IngestionInv
  BY IngestionStartsSo
<1>3. IngestionInv /\ [IngestionNext]_ingestionVars => IngestionInv'
  BY IngestionStaysSo
<1> QED BY <1>1, <1>2, <1>3, PTL DEF IngestionSpec

(* The machines of the run: strict writes follow reads.                    *)
THEOREM StrictWritesHaveReads == IngestionSpec => []StrictWritesFollowReads
<1>1. IngestionInv => StrictWritesFollowReads
  BY Filed!ExplainedSays, Shared!ExplainedSays DEF IngestionInv, StrictWritesFollowReads
<1>2. IngestionInit => IngestionInv
  BY IngestionStartsSo
<1>3. IngestionInv /\ [IngestionNext]_ingestionVars => IngestionInv'
  BY IngestionStaysSo
<1> QED BY <1>1, <1>2, <1>3, PTL DEF IngestionSpec

-----------------------------------------------------------------------------
(* MCIngestion: the lines of events.                                       *)

LinesInv == machine = "lines" => Filed!IsLine(line)

LEMMA LinesStaySo ==
  ASSUME LinesInv, [IngestionNext]_ingestionVars
  PROVE  LinesInv'
<1>1. UNCHANGED machine
  BY DEF IngestionNext, StepFiled, StepRetried, StepShared, StepLines, OnDisk, ingestionVars
<1>2. CASE machine # "lines"
  BY <1>1, <1>2 DEF LinesInv
<1>3. CASE machine = "lines"
  <2>1. Filed!IsLine(line)
    BY <1>3 DEF LinesInv
  <2>2. [Filed!AddField]_line
    BY <1>3 DEF IngestionNext, StepFiled, StepRetried, StepShared, StepLines, ingestionVars
  <2>3. Filed!IsLine(line)'
    BY <2>1, <2>2, LinesAssumption, Filed!LineStays
  <2> QED BY <2>3 DEF LinesInv
<1> QED BY <1>2, <1>3

(* A line means the same whichever way it takes, and nothing it says is    *)
(* lost.                                                                   *)
THEOREM RoutesDoAgree == IngestionSpec => []RoutesAgree
<1>1. LinesInv => RoutesAgree
  BY LinesAssumption, Filed!LinesMeanTheSame DEF LinesInv, RoutesAgree
<1>2. IngestionInit => LinesInv
  BY DEF IngestionInit, LinesInv, Filed!IsLine, Filed!LineInit
<1>3. LinesInv /\ [IngestionNext]_ingestionVars => LinesInv'
  BY LinesStaySo
<1> QED BY <1>1, <1>2, <1>3, PTL DEF IngestionSpec

-----------------------------------------------------------------------------
(* MCStorage: the log under one session, under a disk that fails, and      *)
(* under two sessions; files under one process and under two; measurements *)
(* of one process and of two; what calibrated and weighed risk is; and     *)
(* guard runs.                                                             *)

StorageInv ==
  /\ machine = "single" => Single!StoredInv /\ Single!AloneInv(s1)
  /\ machine = "faulty" => Faulty!LogInv
  /\ machine = "racing" => Racing!StoredInv
  /\ machine = "maintained" => Maintained!KeptInv
  /\ machine = "lockless" => Lockless!KeptInv
  /\ machine = "cached" => Cached!BudgetOK /\ Cached!AloneInv(s1)
  /\ machine = "measured" => Measured!GrownInv
  /\ machine = "calibrated" => Cached!RiskInv
  /\ machine = "weighed" => Measured!RiskInv
  /\ machine = "guarded" => Cached!GuardInv
  /\ machine = "repeated" => Measured!GuardInv

LEMMA StorageStartsSo ==
  ASSUME StorageInit
  PROVE  StorageInv
<1>1. CASE machine = "single" /\ Single!Init
  <2>1. Single!StoredInv /\ Single!AloneInv(s1)
    BY <1>1, Single!StoredInvInit, Single!AloneInvInit
  <2> QED BY <1>1, <2>1 DEF StorageInv
<1>2. CASE machine = "faulty" /\ Faulty!Init
  <2>1. Faulty!LogInv
    BY <1>2, Faulty!LogInvInit
  <2> QED BY <1>2, <2>1 DEF StorageInv
<1>3. CASE machine = "racing" /\ Racing!Init
  <2>1. Racing!StoredInv
    BY <1>3, Racing!StoredInvInit
  <2> QED BY <1>3, <2>1 DEF StorageInv
<1>4. CASE machine = "cached" /\ Cached!Init
  <2>1. Cached!BoundsAssumption
    BY CacheAssumption
  <2>2. Cached!BudgetOK
    BY <1>4, <2>1, Cached!GrownInit DEF Cached!GrownInv
  <2>3. Cached!AloneInv(s1)
    BY <1>4, <2>1, Cached!AloneInit
  <2> QED BY <1>4, <2>2, <2>3 DEF StorageInv
<1>5. CASE machine = "measured" /\ Measured!Init
  <2>1. Measured!GrownInv
    BY <1>5, CacheAssumption, Measured!GrownInit
  <2> QED BY <1>5, <2>1 DEF StorageInv
<1>6. CASE machine = "maintained" /\ Maintained!Init
  <2>1. Maintained!KeptInv
    BY <1>6, FilesAssumption, Maintained!KeptInit
  <2> QED BY <1>6, <2>1 DEF StorageInv
<1>7. CASE machine = "lockless" /\ Lockless!Init
  <2>1. Lockless!KeptInv
    BY <1>7, FilesAssumption, Lockless!KeptInit
  <2> QED BY <1>7, <2>1 DEF StorageInv
<1>8. CASE machine = "calibrated" /\ Cached!RiskInit
  <2>1. Cached!RiskInv
    BY <1>8, RiskAssumption, Cached!RiskStarts
  <2> QED BY <1>8, <2>1 DEF StorageInv
<1>9. CASE machine = "weighed" /\ Measured!RiskInit
  <2>1. Measured!RiskInv
    BY <1>9, RiskAssumption, Measured!RiskStarts
  <2> QED BY <1>9, <2>1 DEF StorageInv
<1>10. CASE machine = "guarded" /\ Cached!GuardInit
  <2>1. Cached!GuardInv
    BY <1>10, Cached!GuardStarts
  <2> QED BY <1>10, <2>1 DEF StorageInv
<1>11. CASE machine = "repeated" /\ Measured!GuardInit
  <2>1. Measured!GuardInv
    BY <1>11, Measured!GuardStarts
  <2> QED BY <1>11, <2>1 DEF StorageInv
<1> QED BY <1>1, <1>2, <1>3, <1>4, <1>5, <1>6, <1>7, <1>8, <1>9, <1>10, <1>11
    DEF StorageInit

LEMMA SingleStep ==
  ASSUME Single!StoredInv, Single!AloneInv(s1), Single!Next \/ UNCHANGED logVars
  PROVE  Single!StoredInv' /\ Single!AloneInv(s1)'
<1>1. Single!NobodyAssumption
  BY LogAssumption
<1>2. Single!Next \/ UNCHANGED Single!vars
  BY DEF logVars, Single!vars, Single!disk
<1>3. Single!StoredInv'
  BY <1>1, <1>2, Single!StoredInvStep
<1>4. Single!AloneInv(s1)'
  BY <1>1, <1>2, Single!AloneInvStep
<1> QED BY <1>3, <1>4

LEMMA FaultyStep ==
  ASSUME Faulty!LogInv, Faulty!Next \/ UNCHANGED logVars
  PROVE  Faulty!LogInv' /\ Faulty!UnreadableHolds
<1>1. Faulty!NobodyAssumption
  BY LogAssumption
<1>2. Faulty!Next \/ UNCHANGED Faulty!vars
  BY DEF logVars, Faulty!vars, Faulty!disk
<1>3. Faulty!LogInv'
  BY <1>1, <1>2, Faulty!LogInvStep
<1>4. Faulty!UnreadableHolds
  BY <1>2, Faulty!PublishingReads
<1> QED BY <1>3, <1>4

LEMMA RacingStep ==
  ASSUME Racing!StoredInv, Racing!Next \/ UNCHANGED logVars
  PROVE  Racing!StoredInv'
<1>1. Racing!NobodyAssumption
  BY LogAssumption
<1>2. Racing!Next \/ UNCHANGED Racing!vars
  BY DEF logVars, Racing!vars, Racing!disk
<1> QED BY <1>1, <1>2, Racing!StoredInvStep

LEMMA MaintainedStep ==
  ASSUME Maintained!KeptInv, Maintained!Next \/ UNCHANGED fileVars
  PROVE  Maintained!KeptInv'
<1>1. Maintained!MaintenanceAssumption
  BY FilesAssumption
<1>2. Maintained!Next \/ UNCHANGED Maintained!vars
  BY DEF fileVars, Maintained!vars, Maintained!files
<1>3. Maintained!Undisturbed
  BY DEF Maintained!Undisturbed
<1> QED BY <1>1, <1>2, <1>3, Maintained!KeptNext

LEMMA LocklessStep ==
  ASSUME Lockless!KeptInv, Lockless!Next \/ UNCHANGED fileVars
  PROVE  Lockless!KeptInv'
<1>1. Lockless!MaintenanceAssumption
  BY FilesAssumption
<1>2. Lockless!Next \/ UNCHANGED Lockless!vars
  BY DEF fileVars, Lockless!vars, Lockless!files
<1>3. Lockless!Undisturbed
  BY DEF Lockless!Undisturbed
<1> QED BY <1>1, <1>2, <1>3, Lockless!KeptNext

LEMMA CachedStep ==
  ASSUME Cached!BudgetOK, Cached!AloneInv(s1), Cached!Next \/ UNCHANGED cacheVars
  PROVE  /\ Cached!BudgetOK' /\ Cached!AloneInv(s1)'
         /\ Cached!HitIsFresh
<1>1. Cached!BoundsAssumption
  BY CacheAssumption
<1>2. Cached!Next \/ UNCHANGED Cached!vars
  BY DEF cacheVars, Cached!vars
<1>3. Cached!BudgetOK'
  BY <1>1, <1>2, Cached!BudgetStays
<1>4. Cached!AloneInv(s1)'
  BY <1>1, <1>2, Cached!AloneNext
<1>5. Cached!HitIsFresh
  BY <1>2, Cached!HitStep DEF Cached!AloneInv
<1> QED BY <1>3, <1>4, <1>5

LEMMA MeasuredStep ==
  ASSUME Measured!GrownInv, Measured!Next \/ UNCHANGED cacheVars
  PROVE  Measured!GrownInv'
<1>1. Measured!BoundsAssumption
  BY CacheAssumption
<1>2. Measured!Next \/ UNCHANGED Measured!vars
  BY DEF cacheVars, Measured!vars
<1> QED BY <1>1, <1>2, Measured!GrownStep

LEMMA CalibratedStep ==
  ASSUME Cached!RiskInv, Cached!RiskNext \/ UNCHANGED riskVars
  PROVE  Cached!RiskInv'
<1>1. Cached!RiskAssumption
  BY RiskAssumption
<1>2. Cached!RiskNext \/ UNCHANGED Cached!riskVars
  BY DEF riskVars, Cached!riskVars
<1> QED BY <1>1, <1>2, Cached!RiskStays

LEMMA WeighedStep ==
  ASSUME Measured!RiskInv, Measured!RiskNext \/ UNCHANGED riskVars
  PROVE  Measured!RiskInv'
<1>1. Measured!RiskAssumption
  BY RiskAssumption
<1>2. Measured!RiskNext \/ UNCHANGED Measured!riskVars
  BY DEF riskVars, Measured!riskVars
<1> QED BY <1>1, <1>2, Measured!RiskStays

LEMMA GuardedStep ==
  ASSUME Cached!GuardInv, Cached!GuardNext \/ UNCHANGED runVars
  PROVE  Cached!GuardInv'
<1>1. Cached!GuardAssumption
  BY GuardAssumption
<1>2. Cached!GuardNext \/ UNCHANGED Cached!guardVars
  BY DEF runVars, Cached!guardVars
<1> QED BY <1>1, <1>2, Cached!GuardStays

LEMMA RepeatedStep ==
  ASSUME Measured!GuardInv, Measured!GuardNext \/ UNCHANGED runVars
  PROVE  Measured!GuardInv'
<1>1. Measured!GuardAssumption
  BY GuardAssumption
<1>2. Measured!GuardNext \/ UNCHANGED Measured!guardVars
  BY DEF runVars, Measured!guardVars
<1> QED BY <1>1, <1>2, Measured!GuardStays

LEMMA StorageSteps ==
  ASSUME [StorageNext]_storageVars
  PROVE  /\ UNCHANGED machine
         /\ machine = "single" => Single!Next \/ UNCHANGED logVars
         /\ machine = "faulty" => Faulty!Next \/ UNCHANGED logVars
         /\ machine = "racing" => Racing!Next \/ UNCHANGED logVars
         /\ machine = "maintained" => Maintained!Next \/ UNCHANGED fileVars
         /\ machine = "lockless" => Lockless!Next \/ UNCHANGED fileVars
         /\ machine = "cached" => Cached!Next \/ UNCHANGED cacheVars
         /\ machine = "measured" => Measured!Next \/ UNCHANGED cacheVars
         /\ machine = "calibrated" => Cached!RiskNext \/ UNCHANGED riskVars
         /\ machine = "weighed" => Measured!RiskNext \/ UNCHANGED riskVars
         /\ machine = "guarded" => Cached!GuardNext \/ UNCHANGED runVars
         /\ machine = "repeated" => Measured!GuardNext \/ UNCHANGED runVars
BY DEF StorageNext, StepSingle, StepFaulty, StepRacing, StepMaintained, StepLockless,
       StepCached, StepMeasured, StepCalibrated, StepWeighed,
       StepGuarded, StepRepeated, OnLog, OnFiles, OnCache, OnRisk, OnRun, storageVars

LEMMA StorageStaysSo ==
  ASSUME StorageInv, [StorageNext]_storageVars
  PROVE  StorageInv'
<1>1. UNCHANGED machine
  BY StorageSteps
<1>2. CASE machine = "single"
  <2>1. Single!StoredInv' /\ Single!AloneInv(s1)'
    BY <1>2, StorageSteps, SingleStep DEF StorageInv
  <2> QED BY <1>1, <1>2, <2>1 DEF StorageInv
<1>3. CASE machine = "faulty"
  <2>1. Faulty!LogInv'
    BY <1>3, StorageSteps, FaultyStep DEF StorageInv
  <2> QED BY <1>1, <1>3, <2>1 DEF StorageInv
<1>4. CASE machine = "racing"
  <2>1. Racing!StoredInv'
    BY <1>4, StorageSteps, RacingStep DEF StorageInv
  <2> QED BY <1>1, <1>4, <2>1 DEF StorageInv
<1>5. CASE machine = "cached"
  <2>1. Cached!BudgetOK' /\ Cached!AloneInv(s1)'
    BY <1>5, StorageSteps, CachedStep DEF StorageInv
  <2> QED BY <1>1, <1>5, <2>1 DEF StorageInv
<1>6. CASE machine = "measured"
  <2>1. Measured!GrownInv'
    BY <1>6, StorageSteps, MeasuredStep DEF StorageInv
  <2> QED BY <1>1, <1>6, <2>1 DEF StorageInv
<1>7. CASE machine = "maintained"
  <2>1. Maintained!KeptInv'
    BY <1>7, StorageSteps, MaintainedStep DEF StorageInv
  <2> QED BY <1>1, <1>7, <2>1 DEF StorageInv
<1>8. CASE machine = "lockless"
  <2>1. Lockless!KeptInv'
    BY <1>8, StorageSteps, LocklessStep DEF StorageInv
  <2> QED BY <1>1, <1>8, <2>1 DEF StorageInv
<1>9. CASE machine = "calibrated"
  <2>1. Cached!RiskInv'
    BY <1>9, StorageSteps, CalibratedStep DEF StorageInv
  <2> QED BY <1>1, <1>9, <2>1 DEF StorageInv
<1>10. CASE machine = "weighed"
  <2>1. Measured!RiskInv'
    BY <1>10, StorageSteps, WeighedStep DEF StorageInv
  <2> QED BY <1>1, <1>10, <2>1 DEF StorageInv
<1>11. CASE machine = "guarded"
  <2>1. Cached!GuardInv'
    BY <1>11, StorageSteps, GuardedStep DEF StorageInv
  <2> QED BY <1>1, <1>11, <2>1 DEF StorageInv
<1>12. CASE machine = "repeated"
  <2>1. Measured!GuardInv'
    BY <1>12, StorageSteps, RepeatedStep DEF StorageInv
  <2> QED BY <1>1, <1>12, <2>1 DEF StorageInv
<1>13. CASE machine \notin {"single", "faulty", "racing", "maintained", "lockless",
                           "cached", "measured", "calibrated", "weighed",
                           "guarded", "repeated"}
  BY <1>1, <1>13 DEF StorageInv
<1> QED BY <1>2, <1>3, <1>4, <1>5, <1>6, <1>7, <1>8, <1>9, <1>10, <1>11, <1>12, <1>13

(* The machines of the run: the ref stands on stored commits, and what was *)
(* interrupted before the branch index is in the log.                      *)
THEOREM TheLogIsTrue == StorageSpec => []LogIsTrue
<1>1. StorageInv => LogIsTrue
  BY Single!StoredSays, Single!AloneSays, Racing!StoredSays DEF StorageInv, LogIsTrue
<1>2. StorageInit => StorageInv
  BY StorageStartsSo
<1>3. StorageInv /\ [StorageNext]_storageVars => StorageInv'
  BY StorageStaysSo
<1> QED BY <1>1, <1>2, <1>3, PTL DEF StorageSpec

(* The machines of the run: no call and no death in one loses an object of *)
(* an indexed commit, packs are whole, and fsck complains of damage only.  *)
THEOREM NothingIsLost == StorageSpec => []NothingIndexedLost
<1>1. StorageInv => NothingIndexedLost
  <2>1. Maintained!KeptInv => /\ Maintained!TypeOK
                              /\ Maintained!NothingIndexedLost
                              /\ Maintained!PackIndexWhole
                              /\ Maintained!FsckIsTruthful
                              /\ Maintained!FailedReadIsTransient
    BY FilesAssumption, Maintained!FilesSay, Maintained!KeptSays DEF Maintained!KeptInv
  <2>2. Lockless!KeptInv => Lockless!FailedReadIsTransient
    BY FilesAssumption, Lockless!KeptSays
  <2> QED BY <2>1, <2>2 DEF StorageInv, NothingIndexedLost
<1>2. StorageInit => StorageInv
  BY StorageStartsSo
<1>3. StorageInv /\ [StorageNext]_storageVars => StorageInv'
  BY StorageStaysSo
<1> QED BY <1>1, <1>2, <1>3, PTL DEF StorageSpec

(* The machines of the run: rows are what would be computed now, and what  *)
(* one process measured alone verifies.                                    *)
THEOREM TheCacheIsFresh == StorageSpec => []CacheIsFresh
<1>1. StorageInv => CacheIsFresh
  <2>1. Cached!AloneInv(s1) => Cached!RowsAreFresh
    BY Cached!FreshSays DEF Cached!AloneInv
  <2>2. Cached!AloneInv(s1) => Cached!IndexReadable /\ Cached!MeasuredIsVerified
    BY Cached!AloneVerifies
  <2>3. Measured!GrownInv => Measured!RowsAreFresh
    BY Measured!GrownSays
  <2> QED BY <2>1, <2>2, <2>3 DEF StorageInv, CacheIsFresh
<1>2. StorageInit => StorageInv
  BY StorageStartsSo
<1>3. StorageInv /\ [StorageNext]_storageVars => StorageInv'
  BY StorageStaysSo
<1> QED BY <1>1, <1>2, <1>3, PTL DEF StorageSpec

(* The machines of the run: what is measured above is never scored below,  *)
(* under a calibrated policy and under four weights.                       *)
THEOREM ScoresFollowRisk == StorageSpec => []RiskIsMonotone
<1>1. StorageInv => RiskIsMonotone
  <2>1. Cached!RiskInv => /\ Cached!ProjectionIsMonotone
                          /\ Cached!JoinedScoreIsBounded
                          /\ Cached!QuantilesCover
    BY RiskAssumption, Cached!RiskFollows DEF Cached!RiskOK
  <2>2. Measured!RiskInv => Measured!LegacyScoresAgree /\ Measured!VectorFollowsJoin
    BY RiskAssumption, Measured!RiskFollows DEF Measured!RiskOK
  <2> QED BY <2>1, <2>2 DEF StorageInv, RiskIsMonotone
<1>2. StorageInit => StorageInv
  BY StorageStartsSo
<1>3. StorageInv /\ [StorageNext]_storageVars => StorageInv'
  BY StorageStaysSo
<1> QED BY <1>1, <1>2, <1>3, PTL DEF StorageSpec

(* The machines of the run: a strict run passes what is calm by its        *)
(* baseline and is not judged by itself, a threshold covers its share, and *)
(* runs that die or are repeated measure every commit once.                *)
THEOREM StrictPassesAreCalm == StorageSpec => []StrictRunsAreSound
<1>1. StorageInv => StrictRunsAreSound
  <2>1. Cached!GuardInv => /\ Cached!StrictPassMeansCalm
                           /\ Cached!NotJudgedByItself
                           /\ Cached!ThresholdCovers
    BY GuardAssumption, Cached!GuardFollows DEF Cached!GuardOK
  <2>2. Measured!GuardInv => Measured!MeasuredOnce
    BY GuardAssumption, Measured!GuardFollows DEF Measured!GuardOK
  <2> QED BY <2>1, <2>2 DEF StorageInv, StrictRunsAreSound
<1>2. StorageInit => StorageInv
  BY StorageStartsSo
<1>3. StorageInv /\ [StorageNext]_storageVars => StorageInv'
  BY StorageStaysSo
<1> QED BY <1>1, <1>2, <1>3, PTL DEF StorageSpec

(* The machines of the run: nothing is published past an unreadable line   *)
(* of the log, and a measurement that is taken from the cache is the one   *)
(* that would be computed.                                                 *)
THEOREM NothingUnreadableIsUsed == StorageSpec => UnreadableIsNotUsed
<1> DEFINE Used == /\ machine = "faulty" => Faulty!UnreadableHolds
                   /\ machine = "cached" => Cached!HitIsFresh
<1>1. StorageInv /\ [StorageNext]_storageVars => Used
  BY StorageSteps, FaultyStep, CachedStep DEF StorageInv
<1>2. StorageInit => StorageInv
  BY StorageStartsSo
<1>3. StorageInv /\ [StorageNext]_storageVars => StorageInv'
  BY StorageStaysSo
<1>4. UnreadableIsNotUsed <=> [][Used]_storageVars
  BY DEF UnreadableIsNotUsed
<1> HIDE DEF Used
<1> QED BY <1>1, <1>2, <1>3, <1>4, PTL DEF StorageSpec
=============================================================================

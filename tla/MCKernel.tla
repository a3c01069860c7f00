------------------------------ MODULE MCKernel ------------------------------
(* The machines about programs, laws, rules and derivations in one run.  A *)
(* machine the theorems are about comes with the proofs of its module.     *)
EXTENDS Machines, WorldSnapshots

CONSTANT malformed

VARIABLES
  delta, between,               \* KernelProgram
  lawful, strictly, reported,   \* LawfulWorld
  text,                         \* RulePackages
  authored, derived, evolved    \* Derivations

lawVars == <<lawful, strictly, reported>>
factVars == <<authored, derived, evolved>>
kernelVars == <<machine, delta, between, lawVars, text, factVars>>

-----------------------------------------------------------------------------
(* Programs: a snapshot with a hole in its type table, two objects and one *)
(* pointer; three operations, or two and two commits made in between.      *)

Holed ==
  [epoch |-> 2, types |-> (1 :> "T" @@ 3 :> "U"), relations |-> <<"r">>,
   objects |-> <<[name |-> "a", type |-> 1, existence |-> "Alive",
                  attrs |-> {<<"k", 1>>}],
                 [name |-> "b", type |-> 3, existence |-> "Dormant",
                  attrs |-> {}]>>,
   pointers |-> <<[from |-> 1, to |-> 2, relation |-> 1, weight |-> 1,
                   born |-> 1, expires |-> Never, domain |-> "core",
                   attrs |-> {}]>>]

LinkOf(from, to, relation, attrs) ==
  [kind |-> "CreatePointer", from |-> from, to |-> to, relation |-> relation,
   weight |-> 1, domain |-> "core", attrs |-> attrs]
One == <<<<"k", 1>>>>

HoledOps ==
  {T("V", 4), T("V", 2), T("U", 0), R("s", 2), R("s", 5),
   New(1, "c", 4, << >>), New(2, "d", 3, One), New(1, "c", 1, << >>),
   Retype(IdRef(1), 3), Retype(TempRef(1), 4),
   LinkOf(IdRef(1), TempRef(1), 2, One), LinkOf(TempRef(2), IdRef(2), 1, One),
   [kind |-> "ExpirePointer", id |-> 1],
   [kind |-> "SetPointerWeight", id |-> 2, weight |-> 2],
   [kind |-> "SetPointerAttribute", id |-> 1, key |-> "k", value |-> 1],
   [kind |-> "SetObjectExistence", object |-> TempRef(1),
    existence |-> "Dormant"],
   [kind |-> "RemoveObjectAttribute", object |-> IdRef(1), key |-> "k"],
   [kind |-> "AssertObject", object |-> IdRef(3)],
   [kind |-> "AssertFact",
    fact |-> <<"ObjectFact", 2, "b", 3, "Dormant", Never>>],
   [kind |-> "EmitEvent", event |-> "note"]}

InBetween ==
  {T("W", 4), T("V", 5), T("V", 2), R("s", 3), R("q", 2), New(1, "c", 1, << >>),
   New(1, "e", 1, << >>), LinkOf(IdRef(1), IdRef(1), 1, << >>),
   [kind |-> "ExpirePointer", id |-> 1], Retype(IdRef(1), 3)}

Compiled == INSTANCE KernelProgram WITH
  Base <- Holed, ProgramOps <- HoledOps, BetweenOps <- InBetween, MaxOps <- 3, MaxBetween <- 0

Stale == INSTANCE KernelProgram WITH
  Base <- Holed, ProgramOps <- HoledOps, BetweenOps <- InBetween, MaxOps <- 2, MaxBetween <- 2

-----------------------------------------------------------------------------
(* Laws: agents that read, modify and seal a file.                         *)

AgentTypes == "bot" :> "Agent" @@ "eve" :> "Agent" @@ "src" :> "File" @@ "pr" :> "PullRequest"
             @@ "ci" :> "TestRun"

Links(links) == [types |-> << >>, links |-> links, unlinks |-> {}]
Wire(from, relation, to) == [from |-> from, to |-> to, relation |-> relation, weight |-> 100]
Heavy(from, relation, to) == [Wire(from, relation, to) EXCEPT !.weight = 120]
Unlink(i) == [types |-> << >>, links |-> << >>, unlinks |-> {i}]

Reads  == Wire("bot", "reads", "src")
Peek   == Wire("eve", "reads", "src")
Write  == Wire("bot", "modifies", "src")
Seal   == Wire("eve", "seals", "src")

AuditDeltas ==
  {Links(<<l>>) : l \in {Reads, Peek, Write, Seal, Heavy("eve", "seals", "pr")}}
  \cup {Links(<<Reads, Write>>), Links(<<Seal, Write>>), Unlink(1), Unlink(2),
        [types |-> "new" :> "File", links |-> << >>, unlinks |-> {}]}

RuleOf(name, trigger, requirements) ==
  [name |-> name, trigger |-> trigger, requirements |-> requirements, severity |-> "error"]
PatternOf(from, relation, to) == [from_type |-> from, relation |-> relation, to_type |-> to]

Writes == PatternOf("Agent", "modifies", "File")
AuditRules ==
  {RuleOf("no_write_without_read", Writes,
        <<[pattern |-> PatternOf("Agent", "reads", "File"), from_binding |-> "from",
           to_binding |-> "to", search |-> "before", forbidden |-> FALSE]>>),
   RuleOf("no_write_when_sealed", Writes,
        <<[pattern |-> PatternOf("*", "seals", "File"), from_binding |-> "any",
           to_binding |-> "to", search |-> "exists", forbidden |-> TRUE]>>)}

-----------------------------------------------------------------------------
(* Rule packages: a header line, two rules and a derivation, good and bad. *)

Line(kind, arg) == [kind |-> kind, arg |-> arg]
XY == [from |-> "X", to |-> "Y"]
XX == [from |-> "X", to |-> "X"]
ZX == [from |-> "Z", to |-> "X"]

SomeLines ==
  {Line("type", "t"), Line("rule", "r"), Line("when", "w"), Line("when", "v"), Line("require", "q"),
   Line("require", malformed), Line("rule", "s"), Line("deny", "no"), Line("derive", "d"), Line("from", XY), Line("make", XX), Line("make", ZX)}

Package == INSTANCE RulePackages WITH
  Lines <- SomeLines, MaxLines <- 7, Malformed <- malformed
ASSUME PackageAssumption == Package!LinesAssumption

-----------------------------------------------------------------------------
(* Derivations over three objects, in as many rounds as the code takes.    *)

Edge(from, relation, to) == [from |-> from, relation |-> relation, to |-> to]
Atom(from, relation, to) == [from |-> from, relation |-> relation, to |-> to]

(* Reachability, and a relation derived from it with a longer body.        *)
Reachability ==
  <<[body |-> <<Atom("X", "cites", "Y")>>, head |-> Atom("X", "reaches", "Y")],
    [body |-> <<Atom("X", "reaches", "Y"), Atom("Y", "cites", "Z")>>,
     head |-> Atom("X", "reaches", "Z")],
    [body |-> <<Atom("X", "reaches", "Y"), Atom("Y", "reaches", "X")>>,
     head |-> Atom("X", "circular", "X")]>>

Cites == {Edge("a", "cites", "b"), Edge("b", "cites", "c"), Edge("c", "cites", "a"),
               Edge("b", "reaches", "c")}

(* The laws and the derivations have one module of proofs.                 *)
Lawful == INSTANCE LawProofs WITH
  Deltas <- AuditDeltas, Rules <- AuditRules, Types <- AgentTypes, MaxEpoch <- 4,
  world <- lawful,
  Laws <- {"bounded_weight", "reject_dangling_pointer", "no_invalid_epoch_reference",
           "preserve_existing_identity"},
  Objects <- {"a", "b", "c"}, Authored <- Cites, Start <- {}, Program <- Reachability,
  MaxCopies <- 1, IterationCap <- 67
ASSUME LawfulAssumption == Lawful!DeltasAssumption /\ Lawful!ObjectsAssumption

-----------------------------------------------------------------------------

NoProgram == delta = Unused /\ between = Unused
NoLaws == lawful = Unused /\ strictly = Unused /\ reported = Unused
NoFacts == authored = Unused /\ derived = Unused /\ evolved = Unused

KernelInit ==
  \/ machine = "compiled" /\ Compiled!Init /\ NoLaws /\ text = Unused /\ NoFacts
  \/ machine = "stale" /\ Stale!Init /\ NoLaws /\ text = Unused /\ NoFacts
  \/ machine = "audit" /\ Lawful!Init /\ NoProgram /\ text = Unused /\ NoFacts
  \/ machine = "package" /\ Package!Init /\ NoProgram /\ NoLaws /\ NoFacts
  \/ machine = "closing" /\ Lawful!DerivationInit /\ NoProgram /\ NoLaws /\ text = Unused

StepCompiled ==
  machine = "compiled" /\ Compiled!Next /\ UNCHANGED <<machine, lawVars, text, factVars>>
StepStale ==
  machine = "stale" /\ Stale!Next /\ UNCHANGED <<machine, lawVars, text, factVars>>
StepAudit ==
  machine = "audit" /\ Lawful!Next /\ UNCHANGED <<machine, delta, between, text, factVars>>
StepPackage ==
  machine = "package" /\ Package!Next
    /\ UNCHANGED <<machine, delta, between, lawVars, factVars>>
StepClosing ==
  machine = "closing" /\ Lawful!DerivationNext /\ UNCHANGED <<machine, delta, between, lawVars, text>>

KernelNext == StepCompiled \/ StepStale \/ StepAudit \/ StepPackage \/ StepClosing
KernelSpec == KernelInit /\ [][KernelNext]_kernelVars

-----------------------------------------------------------------------------
(* Properties *)

\* The program compiled from a delta does what the delta does, can be
\* compiled and run again, and exists for every delta that can be applied.
ProgramsAreDeltas ==
  machine = "compiled" =>
    /\ Compiled!ProgramDoesWhatDeltaDoes
    /\ Compiled!ReplayIsStable
    /\ Compiled!CompilesWhatApplies

\* A program run after commits it was not compiled against is refused, or
\* adds what it would have added before them.
StaleProgramRefused == machine = "stale" => Stale!StaleProgramRefused

\* In strict mode no agent modifies a file it was not reading before, or one
\* that is sealed; what observe mode lets through is on record.
AuditHolds ==
  machine = "audit" =>
    /\ Lawful!WritesFollowReads
    /\ Lawful!SealedFilesAreLeftAlone
    /\ Lawful!ObservedIsRecorded

\* A strict transition is accepted only in a world whose weights are all in
\* bounds, those of unlinked pointers included.
StrictStepsAreBounded == [][machine = "audit" => Lawful!StrictStepBounded]_kernelVars

\* A package that parses holds the rules and derivations of its own blocks,
\* its header stays outside of them, and the last rule of a name wins.
PackagesAreTheirText ==
  machine = "package" =>
    /\ Package!RulesAreTheBlocks
    /\ Package!DerivationsBindTheirHeads
    /\ Package!HeaderStaysOutside
    /\ Package!LastRuleWins

\* After a step the derived edges are the least set that closes what was
\* authored, whatever was derived or unlinked before.
LeastClosure == machine = "closing" => Lawful!LeastClosure
=============================================================================

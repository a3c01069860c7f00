------------------------------- MODULE MCWorld -------------------------------
(* The machines about one world in memory, checked in one run.             *)
EXTENDS Machines, WorldSnapshots

CONSTANTS c1, c2

VARIABLES
  world, prepared, trace, commits,  \* WorldTransactions, TraceReplay
  first, second,                    \* DeltaMerge
  snapshot                          \* Morphisms

txVars == <<world, prepared, trace, commits>>
worldVars == <<machine, world, prepared, trace, commits, first, second, snapshot>>

-----------------------------------------------------------------------------
(* Transactions: a world of two objects and one pointer, deltas of one or  *)
(* two operations prepared by one caller, or six deltas two callers race   *)
(* with.                                                                   *)

Exist(ref, e) == [kind |-> "SetObjectExistence", object |-> ref, existence |-> e]
Link(from, to, weight) ==
  [kind |-> "CreatePointer", from |-> from, to |-> to, relation |-> 1,
   weight |-> weight, domain |-> "core", attrs |-> << >>]
Expire(n) == [kind |-> "ExpirePointer", id |-> n]
Fact(f) == [kind |-> "AssertFact", fact |-> f]

\* Two objects, a type, a relation and a pointer, as a first commit makes.
TwoObjects ==
  WorldOf([epoch |-> 1, types |-> <<"T">>, relations |-> <<"r">>,
           objects |-> <<[name |-> "a", type |-> 1, existence |-> "Alive",
                          attrs |-> {}],
                         [name |-> "b", type |-> 1, existence |-> "Tombstoned",
                          attrs |-> {<<"k", 1>>}]>>,
           pointers |-> <<[from |-> 1, to |-> 2, relation |-> 1, weight |-> 1,
                           born |-> 1, expires |-> Never, domain |-> "core",
                           attrs |-> {}]>>])

SomeOps ==
  {T("U", 0), T("T", 2), T("V", 3),
   New(1, "c", 1, << >>), New(1, "d", 2, <<<<"k", 1>>>>),
   New(1, "e", 1, <<<<"k", 1>>, <<"k", 2>>>>),
   Exist(IdRef(1), "Dormant"),
   [kind |-> "SetObjectType", object |-> IdRef(1), type |-> 2],
   [kind |-> "SetObjectAttribute", object |-> IdRef(2), key |-> "k",
    value |-> 2],
   [kind |-> "RemoveObjectAttribute", object |-> IdRef(2), key |-> "k"],
   Link(IdRef(1), TempRef(1), 1), Expire(1),
   [kind |-> "SetPointerWeight", id |-> 2, weight |-> 2],
   [kind |-> "SetPointerAttribute", id |-> 1, key |-> "k", value |-> 1],
   [kind |-> "RemovePointerAttribute", id |-> 1, key |-> "k"],
   [kind |-> "AssertObject", object |-> IdRef(3)],
   [kind |-> "AssertPointer", id |-> 1],
   Fact(<<"ObjectFact", 2, "b", 1, "Tombstoned", 1>>),
   [kind |-> "InternRelation", name |-> "s", id |-> 0],
   [kind |-> "EmitEvent", event |-> "note"]}

\* What a second operation may depend on comes first.
FirstOps ==
  {op \in SomeOps : op.kind \in {"InternType", "CreateObject", "CreatePointer",
                                 "SetObjectExistence", "ExpirePointer"}}
OneOrTwo == {<< >>} \cup {<<a>> : a \in SomeOps}
              \cup {<<a, b>> : a \in FirstOps, b \in SomeOps}

\* Six deltas two callers race with.
RacingDeltas == {<<Expire(1)>>, <<T("U", 0), New(1, "c", 2, << >>)>>,
           <<Link(IdRef(1), IdRef(2), 2)>>, <<Exist(IdRef(2), "Alive")>>,
           <<Exist(IdRef(1), "Tombstoned"), Expire(1)>>,
           <<T("T", 2)>>}

Prepare == INSTANCE WorldTransactionsProofs WITH
  Callers <- {c1}, InitialWorld <- TwoObjects, Deltas <- OneOrTwo,
  BoundedWeight <- TRUE, Strict <- TRUE, WeightOne <- 1, MaxCommits <- 2
ASSUME PrepareAssumption == Prepare!DeltasAssumption /\ Prepare!InitialAssumption

Race == INSTANCE WorldTransactionsProofs WITH
  Callers <- {c1, c2}, InitialWorld <- TwoObjects, Deltas <- RacingDeltas,
  BoundedWeight <- TRUE, Strict <- FALSE, WeightOne <- 1, MaxCommits <- 3
ASSUME RaceAssumption ==
  Race!DeltasAssumption /\ Race!EvolutionAssumption /\ Race!InitialAssumption

-----------------------------------------------------------------------------
(* Replay: a world that starts empty and takes deltas that create, change, *)
(* link and unlink two objects.                                            *)

NewWorld == WorldOf(EmptySnapshot)

Tag(ref) == [kind |-> "SetObjectAttribute", object |-> ref, key |-> "k",
             value |-> 1]

\* Deltas that leave a state event each, and one that leaves none.
Replayable ==
  {<<T("T", 0), New(1, "a", 1, << >>)>>,
   <<T("U", 0), New(1, "b", 1, << >>), Retype(TempRef(1), 2)>>,
   <<R("r", 0), Link(IdRef(1), IdRef(1), 1)>>,
   <<Exist(IdRef(1), "Tombstoned"), Retype(IdRef(1), 1)>>,
   <<New(2, "c", 2, << >>), Link(TempRef(2), IdRef(1), 1), Expire(1)>>,
   <<Expire(2)>>,
   <<Tag(IdRef(1))>>}

Trace == INSTANCE TraceReplay WITH
  Callers <- {c1}, InitialWorld <- NewWorld, Deltas <- Replayable,
  BoundedWeight <- TRUE, Strict <- TRUE, WeightOne <- 1, MaxCommits <- 4

-----------------------------------------------------------------------------
(* Merging: one object and one pointer to start from, up to two operations *)
(* in each delta.                                                          *)

MergeBase ==
  [epoch |-> 3, types |-> <<"T", "U">>, relations |-> <<"r">>,
   objects |-> <<[name |-> "a", type |-> 1, existence |-> "Alive",
                  attrs |-> {<<"k", 1>>}]>>,
   pointers |-> <<[from |-> 1, to |-> 1, relation |-> 1, weight |-> 1,
                   born |-> 2, expires |-> Never, domain |-> "core",
                   attrs |-> {}]>>]

Either ==
  {New(1, "b", 1, << >>), New(2, "c", 3, << >>), New(1, "c", 1, << >>),
   Retype(IdRef(1), 2), Link(IdRef(1), TempRef(1), 1),
   [kind |-> "InternType", name |-> "V", id |-> 0],
   [kind |-> "InternType", name |-> "W", id |-> 3],
   [kind |-> "ExpirePointer", id |-> 1],
   [kind |-> "SetPointerWeight", id |-> 2, weight |-> 2]}

InFirst == Either \cup {Retype(TempRef(1), 2),
  [kind |-> "RemoveObjectAttribute", object |-> IdRef(1), key |-> "k"]}

InSecond == Either \cup
  {Retype(IdRef(2), 1), Retype(IdRef(1), 1), Link(IdRef(2), IdRef(3), 1),
   Link(TempRef(2), IdRef(2), 1),
   [kind |-> "ExpirePointer", id |-> 2],
   [kind |-> "SetObjectAttribute", object |-> IdRef(2), key |-> "k",
    value |-> 2],
   [kind |-> "SetObjectExistence", object |-> TempRef(1),
    existence |-> "Dormant"],
   [kind |-> "AssertFact",
    fact |-> <<"ObjectFact", 1, "a", 1, "Alive", Never>>],
   [kind |-> "AssertFact",
    fact |-> <<"PointerFact", 2, 1, 2, 1, 1, "core", 4, Never>>]}

Merge == INSTANCE DeltaMerge WITH
  Base <- MergeBase, FirstOps <- InFirst, SecondOps <- InSecond, MaxOps <- 2

-----------------------------------------------------------------------------
(* Morphisms: three definitions over two types and two objects, with       *)
(* expressions, edges and a delta in between.                              *)

Person(name, type, age) ==
  [name |-> name, type |-> type, existence |-> "Alive",
   attrs |-> {<<"age", age>>}]
TwoPersons ==
  [epoch |-> 1, types |-> <<"T", "U">>, relations |-> <<"knows">>,
   objects |-> <<Person("a", 1, 1), Person("b", 2, 2)>>,
   pointers |-> << >>]
Both == <<1, 2>>

Lit(op, v) == [op |-> op, literal |-> TRUE, value |-> v]
Att(op, key) == [op |-> op, literal |-> FALSE, attribute |-> key]
Set(key, expr) == [kind |-> "set", key |-> key, expr |-> expr]
Emit1(target, relation, reverse) ==
  [kind |-> "emit", target |-> target, relation |-> relation,
   reverse |-> reverse, weight |-> 1]

Grow == [name |-> "grow", domain |-> 1, codomain |-> 1,
         actions |-> <<Set("age", <<Att("", "age"), Lit("+", 1)>>),
                       Emit1("b", "seen", FALSE), Emit1("c", "lost", FALSE)>>]
Turn == [name |-> "turn", domain |-> 1, codomain |-> 2,
         actions |-> <<Set("old", <<Att("", "age"), Lit("*", 2), Lit("-", 1)>>),
                       Set("bad", <<Lit("", 1), Att("/", "none")>>),
                       Emit1("a", "knows", TRUE)>>]
Back == [name |-> "back", domain |-> 2, codomain |-> 1,
         actions |-> <<Set("rate", <<Att("", "age"), Lit("/", 0)>>)>>]
Three == {Grow, Turn, Back}

Interleaved ==
  {<<[kind |-> "CreateObject", temp |-> 1, name |-> "c", type |-> 1,
      existence |-> "Dormant", attrs |-> << >>]>>,
   <<[kind |-> "ExpirePointer", id |-> 1],
     [kind |-> "InternRelation", name |-> "turn", id |-> 0]>>}

Morph == INSTANCE Morphisms WITH
  InitialSnapshot <- TwoPersons, Definitions <- Three, Selected <- Both,
  OtherDeltas <- Interleaved, MaxEpoch <- 4

-----------------------------------------------------------------------------

NoTransactions ==
  world = Unused /\ prepared = Unused /\ trace = Unused /\ commits = Unused
NoMerge == first = Unused /\ second = Unused

WorldInit ==
  \/ machine = "prepare" /\ Prepare!Init /\ NoMerge /\ snapshot = Unused
  \/ machine = "race" /\ Race!Init /\ NoMerge /\ snapshot = Unused
  \/ machine = "trace" /\ Trace!Init /\ NoMerge /\ snapshot = Unused
  \/ machine = "merge" /\ Merge!Init /\ NoTransactions /\ snapshot = Unused
  \/ machine = "morph" /\ Morph!Init /\ NoTransactions /\ NoMerge

StepPrepare ==
  machine = "prepare" /\ Prepare!Next /\ UNCHANGED <<machine, first, second, snapshot>>
StepRace ==
  machine = "race" /\ Race!Next /\ UNCHANGED <<machine, first, second, snapshot>>
StepTrace ==
  machine = "trace" /\ Trace!Next /\ UNCHANGED <<machine, first, second, snapshot>>
StepMerge ==
  machine = "merge" /\ Merge!Next /\ UNCHANGED <<machine, txVars, snapshot>>
StepMorph ==
  machine = "morph" /\ Morph!Next /\ UNCHANGED <<machine, txVars, first, second>>

WorldNext == StepPrepare \/ StepRace \/ StepTrace \/ StepMerge \/ StepMorph
WorldSpec == WorldInit /\ [][WorldNext]_worldVars

-----------------------------------------------------------------------------
(* Properties *)

\* What a commit does to the world is what its preparation proved: the root
\* sealed in the proof (unless a key is given twice), no delta thrown out of
\* half-way, and no fact changed that the write set does not hold.
ProofsAreExact ==
  machine = "prepare" =>
    /\ Prepare!ProofMatchesWorld
    /\ Prepare!NoHalfAppliedDelta
    /\ Prepare!WriteSetCovers

\* However two callers interleave preparations and commits, an accepted
\* commit stands on the world the one before it left, and evolutions between
\* them leave an object one active evolves_to edge.
NoLostUpdate ==
  machine = "race" => Race!TypeOK /\ Race!NoLostUpdate /\ Race!OneEvolutionEdge

\* A pointer that has expired stays expired, whatever commits come later.
ExpiryIsFinal == [][machine = "race" => Race!ExpiredStays]_worldVars

\* Both replayers rebuild the world from its trace, or say that they cannot.
ReplayRebuildsWorld == machine = "trace" => Trace!ReplayRebuildsWorld

\* A merged delta does what its two deltas do one after the other, and two
\* deltas that apply one after the other can be merged.
MergingIsExact ==
  machine = "merge" => Merge!MergedDoesBoth /\ Merge!MergesWhatApplies

\* A composed morphism does what its parts do in turn, composition is
\* associative, and a morphism applied again leaves one edge that says so.
MorphismsCompose ==
  machine = "morph" =>
    /\ Morph!CompositionIsSequential
    /\ Morph!CompositionIsAssociative
    /\ Morph!OneMorphismEdge
=============================================================================

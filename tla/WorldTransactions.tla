-------------------------- MODULE WorldTransactions --------------------------
(***************************************************************************)
(* One world in memory: callers prepare transactions against it and commit *)
(* them later, in any order (runtime/transaction.cpp), the world evolves   *)
(* (World::evolve), and the verifier checks the built-in laws in between.  *)
(***************************************************************************)
EXTENDS ExecutionPlans

CONSTANTS
  Callers,      \* code holding a prepared transaction
  InitialWorld, \* the world the run starts from
  Deltas,       \* the deltas a caller may propose
  BoundedWeight,\* is the law bounded_weight registered
  Strict,       \* VerificationMode::Strict, else Observe
  WeightOne,    \* the integer that stands for weight 1.0
  MaxCommits    \* bound on the calls to commit

VARIABLES
  world,     \* the World
  prepared,  \* per caller: the prepared transaction, or Nothing
  trace,     \* World::trace_
  commits    \* what each call to commit did, in order

vars == <<world, prepared, trace, commits>>

Nothing == [none |-> TRUE]
AnyEpoch == -1

\* An operation as the types of delta.hpp allow it.
OpOK(op) ==
  /\ op.kind \in {"InternType", "InternRelation", "CreateObject", "CreatePointer",
                  "AssertFact", "EmitEvent"} \cup ObjectOps \cup PointerOps
  /\ op.kind \in {"InternType", "InternRelation"} => op.id \in Nat
  /\ op.kind \in {"CreateObject", "SetObjectExistence"} => op.existence \in Existence
  /\ op.kind \in {"CreateObject", "CreatePointer"} => op.attrs \in Seq(Range(op.attrs))
  /\ op.kind \in ObjectOps => op.object.tag \in {"id", "temp"}

DeltasAssumption ==
  \A delta \in Deltas :
    delta \in Seq(Range(delta)) /\ \A op \in Range(delta) : OpOK(op)

\* The law domain of the evolution's edges is left to it.
EvolutionAssumption ==
  \A delta \in Deltas : \A op \in Range(delta) :
    op.kind = "CreatePointer" => op.domain # "evolution"

\* A registry: a vector whose names, the empty one aside, occur once.
IsRegistry(slots) ==
  /\ slots \in Seq(Range(slots))
  /\ \A m, n \in DOMAIN slots : slots[m] = slots[n] => m = n \/ slots[m] = Unnamed

IsObject(o, w) ==
  /\ o = [name |-> o.name, type |-> o.type, existence |-> o.existence, attrs |-> o.attrs]
  /\ o.type \in DOMAIN w.types /\ o.existence \in Existence
IsPointer(p, w) ==
  /\ p = [from |-> p.from, to |-> p.to, relation |-> p.relation, weight |-> p.weight,
          born |-> p.born, expires |-> p.expires, domain |-> p.domain, attrs |-> p.attrs]
  /\ {p.from, p.to} \subseteq DOMAIN w.objects /\ p.relation \in DOMAIN w.relations
  /\ p.born \in Nat /\ p.expires \in Nat

IsWorld(w) ==
  /\ w = SnapshotOf(w)
  /\ w.epoch \in Nat /\ IsRegistry(w.types) /\ IsRegistry(w.relations)
  /\ w.objects \in Seq(Range(w.objects)) /\ w.pointers \in Seq(Range(w.pointers))
  /\ \A n \in DOMAIN w.objects : IsObject(w.objects[n], w)
  /\ \A n \in DOMAIN w.pointers : IsPointer(w.pointers[n], w)

\* A world to start from: nothing in it is of a later epoch, and it has not
\* evolved.
InitialAssumption ==
  /\ IsWorld(InitialWorld) /\ MaxCommits \in Nat
  /\ \A p \in Range(InitialWorld.pointers) :
       p.born <= InitialWorld.epoch /\ p.domain # "evolution"

-----------------------------------------------------------------------------
(* Laws (law/invariant.cpp, law/verifier.cpp) *)

DanglingPointers(before, after) ==
  {p \in Range(after.pointers) :
     ~({p.from, p.to} \subseteq DOMAIN after.objects)}
WeightsOutOfBounds(after) ==
  {p \in Range(after.pointers) : p.weight < 0 \/ p.weight > WeightOne}
UnknownRelations(after) ==
  {p \in Range(after.pointers) : p.relation \notin DOMAIN after.relations}
BadEpochs(after) ==
  {p \in Range(after.pointers) :
     p.born > after.epoch \/ (p.expires # Never /\ p.expires < p.born)}
LostObjects(before, after) == DOMAIN before.objects \ DOMAIN after.objects

\* Verifier::check: a status per law; in strict mode every violation of
\* these laws, all of them errors, refuses the transition.
Statuses(before, after) ==
  <<DanglingPointers(before, after) = {}, UnknownRelations(after) = {},
    BadEpochs(after) = {}, LostObjects(before, after) = {},
    BoundedWeight => WeightsOutOfBounds(after) = {}>>
Admits(statuses) == ~Strict \/ \A n \in DOMAIN statuses : statuses[n]

-----------------------------------------------------------------------------
(* prepare_transaction *)

\* Mutant: the delta is not tried on a copy of the world first.
RefusalWithoutPreview(w, tx) ==
  LET before == SnapshotOf(w)
  IN IF tx.delta = << >> /\ ~tx.allow_empty THEN "empty"
     ELSE IF tx.base_epoch \notin {AnyEpoch, w.epoch} THEN "base epoch"
     ELSE IF ~OverlayAccepts(before, tx.delta) THEN "overlay"
     ELSE IF ~Admits(Statuses(before, After(before, tx.delta))) THEN "laws"
     ELSE "none"

\* The first reason that applies refuses the transaction.
RefusalOf(w, tx) ==
  LET before == SnapshotOf(w)
  IN IF tx.delta = << >> /\ ~tx.allow_empty THEN "empty"
     ELSE IF tx.base_epoch \notin {AnyEpoch, w.epoch} THEN "base epoch"
     ELSE IF ~OverlayAccepts(before, tx.delta) THEN "overlay"
     ELSE IF ~Admits(Statuses(before, After(before, tx.delta))) THEN "laws"
     ELSE IF ApplyDelta(w, tx.delta).thrown THEN "preview"
     ELSE "none"

Prepared(w, tx) ==
  LET before == SnapshotOf(w)
      refusal == RefusalOf(w, tx)
      after == After(before, tx.delta)
  IN [tx |-> tx, before |-> before, refusal |-> refusal,
      proof |-> IF refusal \in {"none", "preview", "laws"}
                THEN CommitProof(before, after, tx.delta,
                                 Statuses(before, after))
                ELSE Nothing]

\* commit_prepared: what the call does to a world w and to the trace.
Rejected(w, p, reason) ==
  [accepted |-> FALSE, thrown |-> FALSE, before |-> p.before,
   world |-> w, proof |-> Nothing,
   events |-> <<[event |-> "world.transition.rejected", epoch |-> w.epoch,
                 reason |-> reason]>>]

\* The events of the delta, then a law.check per registered law (all the
\* laws of Statuses are, so there is always one).
\* Mutant: the world is not compared with the one the plan was made for.
CommitUnchecked(w, p) ==
  LET st == ApplyDelta(w, p.tx.delta)
  IN IF p.refusal # "none" THEN Rejected(w, p, p.refusal)
     ELSE [accepted |-> ~st.thrown, thrown |-> st.thrown, before |-> p.before,
           world |-> st.world, proof |-> p.proof, events |-> << >>]

CommitTo(w, p) ==
  LET st == ApplyDelta(w, p.tx.delta)
      stamped == [n \in DOMAIN st.events |->
                    [epoch |-> p.before.epoch + 1] @@ st.events[n]]
  IN IF SnapshotOf(w) # p.before
     THEN Rejected(w, p, "prepared transaction does not match current world")
     ELSE IF p.refusal # "none" THEN Rejected(w, p, p.refusal)
     ELSE [accepted |-> ~st.thrown, thrown |-> st.thrown, before |-> p.before,
           world |-> st.world, proof |-> p.proof,
           events |-> IF st.thrown THEN << >>
                      ELSE stamped \o <<[event |-> "law.check",
                                         epoch |-> st.world.epoch]>>]

Finish(result) ==
  /\ world' = result.world
  /\ trace' = trace \o result.events
  /\ commits' = Append(commits, result)

-----------------------------------------------------------------------------
(* ForwardEvolution::step and World::evolve *)

Evolving(o) == o.existence \in {"Alive", "Dormant"}

\* The items at the places chosen, in order.
Picked(items, chosen) ==
  LET upTo[n \in 0..Len(items)] ==
        IF n = 0 THEN << >>
        ELSE IF n \in chosen THEN Append(upTo[n - 1], items[n])
        ELSE upTo[n - 1]
  IN upTo[Len(items)]

RelationNamed(s, name) == {n \in DOMAIN s.relations : s.relations[n] = name}

\* The weight of the new edge, a mean of weights clamped to 0..1, is kept
\* at its upper bound.
EvolutionDelta(s) ==
  LET known == RelationNamed(s, "evolves_to")
      relation == IF known # {} THEN CHOOSE n \in known : TRUE
                  ELSE NextSymbol(s.relations)
      intern == IF known # {} THEN << >>
                ELSE <<[kind |-> "InternRelation", name |-> "evolves_to",
                        id |-> relation]>>
      stale == {n \in DOMAIN s.pointers :
                  /\ s.pointers[n].relation = relation
                  /\ s.pointers[n].domain = "evolution"
                  /\ ActiveAt(s.pointers[n], s.epoch)}
      expire == [n \in 1..Len(s.pointers) |->
                   [kind |-> "ExpirePointer", id |-> n]]
      loop == [n \in 1..Len(s.objects) |->
                 [kind |-> "CreatePointer", from |-> IdRef(n), to |-> IdRef(n),
                  relation |-> relation, weight |-> WeightOne,
                  domain |-> "evolution", attrs |-> << >>]]
  IN intern
       \o Picked(expire, stale)
       \o Picked(loop, {n \in DOMAIN s.objects : Evolving(s.objects[n])})
       \o <<[kind |-> "EmitEvent", event |-> "world.evolve"],
            [kind |-> "EmitEvent", event |-> "evolution.step"]>>

-----------------------------------------------------------------------------

Init ==
  /\ world = InitialWorld
  /\ prepared = [c \in Callers |-> Nothing]
  /\ trace = << >>
  /\ commits = << >>

Prepare(c) ==
  /\ prepared[c] = Nothing
  /\ Len(commits) < MaxCommits
  /\ \E delta \in Deltas, base \in {AnyEpoch, world.epoch - 1, world.epoch} :
     \E empty_ok \in IF delta = << >> THEN BOOLEAN ELSE {FALSE} :
       prepared' = [prepared EXCEPT ![c] =
                      Prepared(world, [delta |-> delta, allow_empty |-> empty_ok,
                                       base_epoch |-> base])]
  /\ UNCHANGED <<world, trace, commits>>

Commit(c) ==
  /\ prepared[c] # Nothing
  /\ Len(commits) < MaxCommits
  /\ Finish(CommitTo(world, prepared[c]))
  /\ prepared' = [prepared EXCEPT ![c] = Nothing]

\* World::commit, the call evolve makes, prepares and commits at once.
Evolve ==
  /\ Len(commits) < MaxCommits
  /\ Finish(CommitTo(world, Prepared(world,
              [delta |-> EvolutionDelta(SnapshotOf(world)),
               allow_empty |-> TRUE, base_epoch |-> AnyEpoch])))
  /\ UNCHANGED prepared

Next == Evolve \/ \E c \in Callers : Prepare(c) \/ Commit(c)

Spec == Init /\ [][Next]_vars

-----------------------------------------------------------------------------
(* Properties *)

\* Every world reached is a well-formed snapshot whose pointers join objects
\* it holds.
TypeOK ==
  /\ IsSnapshot(SnapshotOf(world))
  /\ \A c \in Callers : prepared[c] = Nothing
                        \/ prepared[c].refusal \in {"none", "empty", "overlay",
                             "base epoch", "laws", "preview"}
  /\ Len(commits) <= MaxCommits

\* An object or a pointer with two values for a key, as the overlay leaves it
\* when a delta gives the key twice.
RepeatsKey(root) ==
  \E x \in Range(root.objects) \cup Range(root.pointers) :
    \E a, b \in x.attrs : a # b /\ a[1] = b[1]

\* What apply_delta_unchecked does to the world is what SnapshotOverlay
\* predicted when the transaction was prepared: the after_root sealed in the
\* proof is the root of the world the commit leaves, unless a delta gives a
\* key of an attribute list twice.
ProofMatchesWorld ==
  \A r \in Range(commits) :
    r.accepted => \/ r.proof.after_root = WorldRoot(SnapshotOf(r.world))
                  \/ RepeatsKey(r.proof.after_root)

\* commit_prepared never throws out of the middle of a delta: a delta the
\* world would refuse half-way was refused by the preview.
NoHalfAppliedDelta == \A r \in Range(commits) : ~r.thrown

\* No lost update: an accepted commit was prepared against exactly the world
\* the accepted commit before it left.
NoLostUpdate ==
  \A n \in DOMAIN commits :
    commits[n].accepted =>
      commits[n].before =
        IF n = 1 THEN SnapshotOf(InitialWorld)
        ELSE SnapshotOf(commits[n - 1].world)

\* The write set of a proof covers what the commit changed: every fact of
\* the new world is written by the plan or was true before, except that the
\* facts of objects already tombstoned carry the epoch of the snapshot.
WriteSetCovers ==
  \A r \in Range(commits) : r.accepted =>
    LET after == SnapshotOf(r.world)
        restamped == UNION {ObjectFacts(after, n) :
                       n \in {m \in DOMAIN r.before.objects :
                                r.before.objects[m].existence = "Tombstoned"}}
    IN Facts(after) \subseteq Facts(r.before) \cup r.proof.writes \cup restamped

\* A pointer that has expired stays expired: no later operation, not even a
\* second expiry, makes it active at the epoch of the world again.
ExpiredStays ==
  \A n \in DOMAIN world.pointers :
    LET p == world.pointers[n]
    IN (p.expires # Never /\ p.expires <= world.epoch)
         => ~ActiveAt(world'.pointers[n], world'.epoch)

\* However often the world evolves, in between whatever commits, an object
\* has at most one active evolves_to edge of the evolution.
OneEvolutionEdge ==
  \A p, q \in DOMAIN world.pointers :
    LET Loop(n) == /\ world.pointers[n].domain = "evolution"
                   /\ ActiveAt(world.pointers[n], world.epoch)
    IN (Loop(p) /\ Loop(q) /\ world.pointers[p].from = world.pointers[q].from)
         => p = q
=============================================================================

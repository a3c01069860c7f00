--------------------------- MODULE ExecutionPlans ---------------------------
(***************************************************************************)
(* make_execution_plan and make_commit_proof (kernel/execution_plan.cpp):  *)
(* which facts each operation of a delta reads in the snapshot before it   *)
(* and writes in the snapshot after it, and the roots a proof commits to.  *)
(* A hash is the value hashed.                                             *)
(***************************************************************************)
EXTENDS WorldSnapshots

\* The facts of an object or a pointer a snapshot need not hold.
ObjectFactsIn(s, n) == IF n \in DOMAIN s.objects THEN ObjectFacts(s, n) ELSE {}
PointerFactsIn(s, n) ==
  IF n \in DOMAIN s.pointers THEN PointerFacts(s, n) ELSE {}

\* The resolver knows the temps met so far and counts the links.
ResolveInEither(before, after, temps, ref) ==
  IF ref.tag = "temp" THEN Resolve(after.objects, temps, ref)
  ELSE IF ref.n \in DOMAIN before.objects \cup DOMAIN after.objects
       THEN ref.n ELSE NoId

Item(reads, writes) == [reads |-> reads, writes |-> writes]
NothingTouched == Item({}, {})

\* What one operation reads and writes, given the resolver's state r.
OperationFacts(before, after, r, op) ==
  LET object == ResolveInEither(before, after, r.temps, op.object)
      ends == {ResolveInEither(before, after, r.temps, op.from),
               ResolveInEither(before, after, r.temps, op.to)}
      created == ObjectsNamed(after, op.name)
  IN CASE op.kind \in {"InternType", "InternRelation", "AssertFact",
                       "EmitEvent"} -> NothingTouched
       [] op.kind = "CreateObject" ->
            Item({}, UNION {ObjectFacts(after, n) : n \in created})
       [] op.kind = "CreatePointer" ->
            Item(UNION {ObjectFactsIn(before, n) : n \in ends},
                 PointerFactsIn(after, r.next_pointer))
       [] op.kind \in ObjectOps ->
            Item(ObjectFactsIn(before, object),
                 IF op.kind = "AssertObject" THEN {}
                 ELSE ObjectFactsIn(after, object))
       [] op.kind \in PointerOps ->
            Item(PointerFactsIn(before, op.id),
                 IF op.kind = "AssertPointer" THEN {}
                 ELSE PointerFactsIn(after, op.id))

ResolveStep(before, after, r, op) ==
  LET item == OperationFacts(before, after, r, op)
      created == ObjectsNamed(after, op.name)
  IN [items |-> Append(r.items, item),
      temps |-> IF op.kind = "CreateObject" /\ created # {}
                THEN Bind(r.temps, op.temp, CHOOSE n \in created : TRUE)
                ELSE r.temps,
      next_pointer |-> IF op.kind = "CreatePointer" THEN r.next_pointer + 1
                       ELSE r.next_pointer]

ResolveOperations(before, after, delta) ==
  LET upTo[n \in 0..Len(delta)] ==
        IF n = 0
        THEN [items |-> << >>, temps |-> << >>, next_pointer |-> Len(before.pointers) + 1]
        ELSE ResolveStep(before, after, upTo[n - 1], delta[n])
  IN upTo[Len(delta)].items

ReadSet(items) == UNION {item.reads : item \in Range(items)}
WriteSet(items) == UNION {item.writes : item \in Range(items)}

\* seal_execution_plan: the proof is over the prediction, before anything
\* is applied.
CommitProof(before, after, delta, statuses) ==
  LET items == ResolveOperations(before, after, delta)
  IN [before_root |-> WorldRoot(before), operation_root |-> delta,
      reads |-> ReadSet(items), writes |-> WriteSet(items),
      law_output |-> statuses, after_root |-> WorldRoot(after)]
=============================================================================

---------------------------- MODULE RepairSearch ----------------------------
(***************************************************************************)
(* The repair distance of a commit the laws complained of                  *)
(* (measure/repair_measure.cpp): a breadth first search over worlds, each  *)
(* step one operator of a basis made from the violations, each world       *)
(* judged against the one before the commit.  A step of the specification  *)
(* is one turn of the search's loops.                                      *)
(*                                                                         *)
(* Laws and rules are those of LawChecks, deltas those of WorldSnapshots.  *)
(* Weights are hundredths.                                                 *)
(***************************************************************************)
EXTENDS WorldSnapshots

L == INSTANCE LawChecks
DM == INSTANCE DeltaMerge WITH Base <- EmptySnapshot, FirstOps <- {},
        SecondOps <- {}, MaxOps <- 0, first <- << >>, second <- << >>

CONSTANTS Befores,               \* worlds the commit starts from
          Deltas,                \* what it does to them
          Verifiers,             \* laws and rules, of the commit and the search
          MaxDepth, MaxCandidates \* RepairSearchOptions

VARIABLES problem,               \* of the commit, << >> before there is one
          queue,                 \* nodes [snap, delta, ops], first in first out
          turn,                  \* the operator to try on the first node
          seen,                  \* worlds the search has been in
          expansions,
          result                 \* << >> until the search ends
vars == <<problem, queue, turn, seen, expansions, result>>

-----------------------------------------------------------------------------
(* What the laws see *)

LawWorld(s) ==
  [epoch |-> s.epoch,
   types |-> [o \in DOMAIN s.objects |-> s.types[s.objects[o].type]],
   pointers |-> [n \in DOMAIN s.pointers |->
                   LET p == s.pointers[n]
                   IN [from |-> p.from, to |-> p.to, weight |-> p.weight,
                       relation |-> s.relations[p.relation],
                       born |-> p.born, expires |-> p.expires]]]
LawDelta(s, delta) ==
  LET links == SelectSeq(delta, LAMBDA op : op.kind = "CreatePointer")
  IN [types |-> << >>, unlinks |-> {},
      links |-> [n \in DOMAIN links |->
                   [from |-> links[n].from.n, to |-> links[n].to.n,
                    relation |-> s.relations[links[n].relation],
                    weight |-> links[n].weight]]]

Violations(verifier, before, delta, after) ==
  L!Violations(verifier, LawWorld(before), LawWorld(after),
               LawDelta(after, delta))

\* legal_state: nothing is said of how the world came about.
Legal(verifier, before, after) ==
  Violations(verifier, before, << >>, after) = {}

-----------------------------------------------------------------------------
(* The basis *)

\* A violation of a rule names objects, one of a law also the pointer.
FocusObjects(violations) == UNION {{v.from, v.to} : v \in violations}
FocusPointers(verifier, s, violations) ==
  LET named == IF \E v \in violations : v.law = "bounded_weight"
               THEN {n \in DOMAIN s.pointers :
                       \/ s.pointers[n].weight < 0
                       \/ s.pointers[n].weight > 100 + verifier.tolerance}
               ELSE {}
  IN IF named # {} THEN named
     ELSE {n \in DOMAIN s.pointers : ActiveAt(s.pointers[n], s.epoch)}

\* The operators for one pointer or object, in the order they are added.
ExpireOp(s, n) ==
  IF ActiveAt(s.pointers[n], s.epoch)
  THEN <<[kind |-> "ExpirePointer", id |-> n]>> ELSE << >>
LowerOp(s, n) ==
  IF s.pointers[n].weight > 100
  THEN <<[kind |-> "SetPointerWeight", id |-> n, weight |-> 100]>> ELSE << >>
\* An attribute is removed, or set back to the value it had before.
RemoveOps(attrs, target) ==
  LET keys == SetToSeq({a[1] : a \in attrs})
  IN [i \in DOMAIN keys |-> target @@ [key |-> keys[i]]]
RestoreOps(attrs, previous, target) ==
  LET changed == {b \in previous : \E a \in attrs : a[1] = b[1] /\ a[2] # b[2]}
      old == SetToSeq(changed)
  IN [i \in DOMAIN old |-> target @@ [key |-> old[i][1], value |-> old[i][2]]]

PointerOperators(before, s, n) ==
  LET attrs == s.pointers[n].attrs
      previous == IF n \in DOMAIN before.pointers
                  THEN before.pointers[n].attrs ELSE {}
  IN ExpireOp(s, n) \o LowerOp(s, n)
       \o RemoveOps(attrs, [kind |-> "RemovePointerAttribute", id |-> n])
       \o RestoreOps(attrs, previous, [kind |-> "SetPointerAttribute", id |-> n])
ObjectOperators(before, s, n) ==
  LET attrs == s.objects[n].attrs
      previous == IF n \in DOMAIN before.objects
                  THEN before.objects[n].attrs ELSE {}
  IN RemoveOps(attrs, [kind |-> "RemoveObjectAttribute", object |-> IdRef(n)])
       \o RestoreOps(attrs, previous,
                     [kind |-> "SetObjectAttribute", object |-> IdRef(n)])

OperatorKinds == <<"ExpirePointer", "SetPointerWeight", "RemoveObjectAttribute",
                   "RemovePointerAttribute", "SetObjectAttribute",
                   "SetPointerAttribute">>
\* operator_less: by the name of the operator; one on a pointer sorts after
\* those on objects, since the object it does not have is the last id.
Place(op) ==
  LET rank == CHOOSE i \in DOMAIN OperatorKinds : OperatorKinds[i] = op.kind
      name == CASE rank = 1 -> 1 [] rank = 2 -> 2 [] rank \in {3, 4} -> 3
                [] rank \in {5, 6} -> 4
  IN IF op.kind \in ObjectOps THEN <<name, 0, op.object.n>> ELSE <<name, 1, op.id>>
Before(l, r) ==
  \E i \in 1..3 : Place(l)[i] < Place(r)[i]
                  /\ \A j \in 1..(i - 1) : Place(l)[j] = Place(r)[j]

\* canonical_repair_basis: what does not fit is left out before the sort.
Basis(verifier, violations, before, s) ==
  LET pointers == SetToSortSeq(FocusPointers(verifier, s, violations), <)
      objects == SetToSortSeq(FocusObjects(violations), <)
      all == FlattenSeq([i \in DOMAIN pointers |->
                           PointerOperators(before, s, pointers[i])])
             \o FlattenSeq([i \in DOMAIN objects |->
                              ObjectOperators(before, s, objects[i])])
      kept == SubSeq(all, 1, IF Len(all) < MaxCandidates THEN Len(all)
                             ELSE MaxCandidates)
  IN SortSeq(kept, Before)

-----------------------------------------------------------------------------
(* The search *)

\* Mutant: the world the search starts from is counted.
EndedCounted(status, depth, delta) ==
  <<[status |-> status, depth |-> depth + 1, witness |-> delta]>>
Ended(status, depth, delta) ==
  <<[status |-> status, depth |-> depth, witness |-> delta]>>
Limit == (MaxDepth + 1) * MaxCandidates

Init == /\ problem = << >> /\ queue = << >> /\ turn = 1 /\ seen = {}
        /\ expansions = 0 /\ result = << >>

\* repair_problem_for, of a commit with violations: a rejected one is
\* judged by the world it would have led to.
Start(before, delta, verifier, supplied) ==
  LET target == After(before, delta)
      violations == Violations(verifier, before, delta, target)
  IN /\ problem = << >>
     /\ OverlayAccepts(before, delta)
     /\ problem' = <<[before |-> before, target |-> target,
                      verifier |-> verifier, violations |-> violations,
                      basis |-> Basis(verifier, violations, before, target)]>>
     /\ queue' = <<[snap |-> target, delta |-> << >>, depth |-> 0]>>
     /\ seen' = {target}
     /\ result' = IF violations = {} THEN Ended("Accepted", 0, << >>)
                  ELSE IF ~supplied
                  THEN Ended("VerifierUnavailable", MaxDepth + 1, << >>)
                  ELSE IF Legal(verifier, before, target)
                  THEN Ended("Accepted", 0, << >>) ELSE << >>
     /\ UNCHANGED <<turn, expansions>>

Searching == problem # << >> /\ result = << >> /\ queue # << >>

\* The first node is as deep as the search goes or has been tried with all.
Leave ==
  /\ Searching
  /\ Head(queue).depth >= MaxDepth \/ turn > Len(problem[1].basis)
  /\ queue' = Tail(queue) /\ turn' = 1
  /\ UNCHANGED <<problem, seen, expansions, result>>

Witness(target, delta, op) == DM!MergeSequential(target, delta, <<op>>)

Enqueue(nodes, node) == Append(nodes, node)

\* One operator applied to the first node.
Expand ==
  LET p == problem[1]
      node == Head(queue)
      op == p.basis[turn]
      next == After(node.snap, <<op>>)
      merged == Witness(p.target, node.delta, op)
      fresh == /\ OverlayAccepts(node.snap, <<op>>)
               /\ merged.accepted
               \* by the hash, of which the epoch is a part
               /\ next \notin seen
  IN /\ Searching /\ node.depth < MaxDepth /\ turn <= Len(p.basis)
     /\ expansions < Limit
     /\ expansions' = expansions + 1
     /\ turn' = turn + 1
     /\ seen' = seen \cup IF fresh THEN {next} ELSE {}
     /\ IF fresh /\ Legal(p.verifier, p.before, next)
        THEN /\ result' = Ended("Found", node.depth + 1, merged.delta)
             /\ UNCHANGED queue
        ELSE /\ queue' = IF ~fresh THEN queue
                         ELSE Enqueue(queue, [snap |-> next, delta |-> merged.delta,
                                              depth |-> node.depth + 1])
             /\ UNCHANGED result
     /\ UNCHANGED problem

\* The bound on operators tried ends the search like an empty queue.
GiveUp ==
  /\ Searching /\ Head(queue).depth < MaxDepth /\ turn <= Len(problem[1].basis)
  /\ expansions >= Limit /\ Limit > 0
  /\ result' = Ended("Exhausted", MaxDepth + 1, << >>)
  /\ UNCHANGED <<problem, queue, turn, seen, expansions>>

Exhaust ==
  /\ problem # << >> /\ result = << >> /\ queue = << >>
  /\ result' = Ended("Exhausted", MaxDepth + 1, << >>)
  /\ UNCHANGED <<problem, queue, turn, seen, expansions>>

Next ==
  \/ \E before \in Befores, delta \in Deltas, verifier \in Verifiers,
        supplied \in BOOLEAN : Start(before, delta, verifier, supplied)
  \/ Leave \/ Expand \/ GiveUp \/ Exhaust
Spec == Init /\ [][Next]_vars

-----------------------------------------------------------------------------
(* Properties *)

Done(status) == result # << >> /\ result[1].status = status

\* The worlds some operators of the basis lead to, one after the other.
Reached ==
  LET p == problem[1]
      reach[k \in 0..MaxDepth] ==
        IF k = 0 THEN {p.target}
        ELSE {After(s, <<op>>) :
                <<s, op>> \in {t \in reach[k - 1] \X Range(p.basis) :
                                 OverlayAccepts(t[1], <<t[2]>>)}}
  IN reach
LegalIn(worlds) ==
  {s \in worlds : Legal(problem[1].verifier, problem[1].before, s)}

\* The witness is one delta; committed on the world of the commit it leads
\* to a legal one.
WitnessRepairs ==
  Done("Found") =>
    LET p == problem[1]  w == result[1].witness
    IN /\ OverlayAccepts(p.target, w)
       /\ Legal(p.verifier, p.before, After(p.target, w))

\* No fewer operators of the basis repair the world.
DepthIsLeast ==
  Done("Found") =>
    \A k \in 0..(result[1].depth - 1) : LegalIn(Reached[k]) = {}

\* A search that tried every operator on every world it kept has not
\* missed a repair within its depth.
TriedMeansNone ==
  Done("Exhausted") /\ queue = << >> =>
    \A k \in 0..MaxDepth : LegalIn(Reached[k]) = {}
=============================================================================

----------------------------- MODULE Morphisms -----------------------------
(***************************************************************************)
(* Morphisms of a world (category/composition.cpp): a defined one retypes  *)
(* the selected objects of its domain, marks each with a self edge, sets   *)
(* attributes and emits edges; a composed one applies the second to the    *)
(* snapshot the first would leave and merges the two deltas into one.      *)
(***************************************************************************)
EXTENDS WorldSnapshots

CONSTANTS
  InitialSnapshot,
  Definitions,     \* the defined morphisms
  Selected,        \* Selection::objects, a sequence of object ids
  OtherDeltas,     \* what else is committed in between
  MaxEpoch         \* bound on the commits

VARIABLE snapshot

DM == INSTANCE DeltaMerge WITH
        Base <- InitialSnapshot, FirstOps <- {}, SecondOps <- {},
        MaxOps <- 0, first <- << >>, second <- << >>

Missing == << >>         \* std::nullopt; a number v is <<v>>

-----------------------------------------------------------------------------
(* evaluate_expr *)

AttributeNumber(o, key) ==
  IF \E a \in o.attrs : a[1] = key
  THEN <<(CHOOSE a \in o.attrs : a[1] = key)[2]>> ELSE Missing
Operand(term, o) ==
  IF term.literal THEN <<term.value>> ELSE AttributeNumber(o, term.attribute)

Arithmetic(op, x, y) ==
  CASE op = "+" -> <<x + y>>
    [] op = "-" -> <<x - y>>
    [] op = "*" -> <<x * y>>
    [] op = "/" -> IF y = 0 THEN Missing ELSE <<x \div y>>

EvaluateExpr(expr, o) ==
  FoldLeft(LAMBDA x, term :
             IF Missing \in {x, Operand(term, o)} THEN Missing
             ELSE Arithmetic(term.op, x[1], Operand(term, o)[1]),
           Operand(Head(expr), o), Tail(expr))

-----------------------------------------------------------------------------
(* DefinedMorphism::apply *)

\* RelationInterner: an id per new name, in the order they are met.
RelationIdIn(s, st, name) ==
  LET known == {n \in DOMAIN s.relations : s.relations[n] = name}
      cached == {n \in DOMAIN st.interned : st.interned[n] = name}
  IN IF known # {} THEN CHOOSE n \in known : TRUE
     ELSE NextSymbol(s.relations) - 1 + (CHOOSE n \in cached : TRUE)

Intern(s, st, name) ==
  IF name \in Range(s.relations) \/ name \in Range(st.interned) THEN st
  ELSE [interned |-> Append(st.interned, name),
        delta |-> Append(st.delta,
          [kind |-> "InternRelation", name |-> name,
           id |-> NextSymbol(s.relations) + Len(st.interned)])]

Extend(st, ops) == [st EXCEPT !.delta = @ \o ops]

EdgeOp(from, to, relation, weight) ==
  [kind |-> "CreatePointer", from |-> IdRef(from), to |-> IdRef(to),
   relation |-> relation, weight |-> weight, domain |-> "morphism", attrs |-> << >>]

\* Mutant: the edges of earlier applications stay.
KeepPriorEdges(s, object, relation) == << >>

\* expire_prior_morphism_edges.
ExpirePriorEdges(s, object, relation) ==
  LET prior == {n \in DOMAIN s.pointers :
                  /\ s.pointers[n].from = object /\ s.pointers[n].to = object
                  /\ s.pointers[n].relation = relation
                  /\ s.pointers[n].domain = "morphism"
                  /\ ActiveAt(s.pointers[n], s.epoch)}
  IN SelectSeq([n \in 1..Len(s.pointers) |->
                  [kind |-> "ExpirePointer", id |-> n]],
               LAMBDA op : op.id \in prior)

\* Every action reads the object as it was before the morphism.
RunAction(s, object, st, action) ==
  LET value == EvaluateExpr(action.expr, s.objects[object])
      targets == ObjectsNamed(s, action.target)
      target == CHOOSE n \in targets : TRUE
      interned == Intern(s, st, action.relation)
      relation == RelationIdIn(s, interned, action.relation)
  IN CASE action.kind = "set" ->
            IF value = Missing THEN st
            ELSE Extend(st, <<[kind |-> "SetObjectAttribute",
                               object |-> IdRef(object),
                               key |-> action.key, value |-> value[1]]>>)
       [] action.kind = "emit" ->
            IF targets = {} THEN st
            ELSE Extend(interned,
                   <<IF action.reverse
                     THEN EdgeOp(target, object, relation, action.weight)
                     ELSE EdgeOp(object, target, relation, action.weight)>>)

Transform(m, s, st, object) ==
  LET interned == Intern(s, st, m.name)
      self == RelationIdIn(s, interned, m.name)
      retype == IF m.domain = m.codomain THEN << >>
                ELSE <<[kind |-> "SetObjectType", object |-> IdRef(object),
                        type |-> m.codomain]>>
      marked == Extend(interned, ExpirePriorEdges(s, object, self) \o retype
                                   \o <<EdgeOp(object, object, self, 1)>>)
  IN IF s.objects[object].type # m.domain THEN st
     ELSE FoldLeft(LAMBDA acc, action : RunAction(s, object, acc, action),
                   marked, m.actions)

\* Objects of the selection the snapshot holds (project_selection).
Selection(s) == SelectSeq(Selected, LAMBDA n : n \in DOMAIN s.objects)

Emitted(name) == <<[kind |-> "EmitEvent", event |-> name]>>

ApplyDefined(m, s) ==
  FoldLeft(LAMBDA st, object : Transform(m, s, st, object),
           [delta |-> << >>, interned |-> << >>], Selection(s)).delta
    \o Emitted("morphism.apply")

-----------------------------------------------------------------------------
(* ComposedMorphism::apply, for what its children do to a snapshot *)

CompositionFailure == Emitted("morphism.compose.rejected")

ApplyComposed(First(_), Second(_), s) ==
  LET mid == Overlay(s, First(s))
      merged == DM!MergeSequential(s, First(s), Second(mid.snap))
  IN IF mid.error # "" THEN CompositionFailure
     ELSE IF ~merged.accepted THEN CompositionFailure
     ELSE merged.delta \o Emitted("morphism.compose")

\* compose: the codomain of the first is the domain of the second.
Composable(f, g) == f.codomain = g.domain

ApplyPair(f, g, s) ==
  ApplyComposed(LAMBDA t : ApplyDefined(f, t), LAMBDA t : ApplyDefined(g, t), s)

-----------------------------------------------------------------------------

Init == snapshot = InitialSnapshot

Commit(delta) ==
  /\ snapshot.epoch < MaxEpoch
  /\ OverlayAccepts(snapshot, delta)
  /\ snapshot' = After(snapshot, delta)

Apply == \E m \in Definitions : Commit(ApplyDefined(m, snapshot))
ApplyTwo == \E f, g \in Definitions :
              Composable(f, g) /\ Commit(ApplyPair(f, g, snapshot))
CommitOther == \E delta \in OtherDeltas : Commit(delta)

Next == Apply \/ ApplyTwo \/ CommitOther
Spec == Init /\ [][Next]_snapshot

-----------------------------------------------------------------------------

Same(s, t) == DM!Since(snapshot.epoch, s) = DM!Since(snapshot.epoch, t)

\* A composition never fails, and does to any reachable snapshot what its
\* two parts do one after the other.
CompositionIsSequential ==
  \A f, g \in Definitions : Composable(f, g) =>
    LET delta == ApplyPair(f, g, snapshot)
        mid == After(snapshot, ApplyDefined(f, snapshot))
    IN /\ delta # CompositionFailure
       /\ Same(After(snapshot, delta), After(mid, ApplyDefined(g, mid)))

\* Composition is associative: h after (g after f) is (h after g) after f.
CompositionIsAssociative ==
  \A f, g, h \in Definitions : (Composable(f, g) /\ Composable(g, h)) =>
    Same(After(snapshot, ApplyComposed(LAMBDA s : ApplyPair(f, g, s),
                                       LAMBDA s : ApplyDefined(h, s),
                                       snapshot)),
         After(snapshot, ApplyComposed(LAMBDA s : ApplyDefined(f, s),
                                       LAMBDA s : ApplyPair(g, h, s),
                                       snapshot)))

\* However often a morphism is applied, alone or composed, an object has at
\* most one active edge that says it was.
OneMorphismEdge ==
  \A m \in Definitions :
    LET Mark(n) == LET p == snapshot.pointers[n]
                   IN /\ p.from = p.to /\ p.domain = "morphism"
                      /\ snapshot.relations[p.relation] = m.name
                      /\ ActiveAt(p, snapshot.epoch)
    IN \A n, k \in DOMAIN snapshot.pointers :
         (Mark(n) /\ Mark(k)
            /\ snapshot.pointers[n].from = snapshot.pointers[k].from) => n = k
=============================================================================

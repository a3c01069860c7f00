----------------------------- MODULE DeltaMerge -----------------------------
(***************************************************************************)
(* merge_sequential (core/snapshot.cpp): one delta that does what two do   *)
(* one after the other.  Objects the first one creates have ids in the     *)
(* second and temps in the merged delta; temps both use are renamed.  The  *)
(* two deltas grow operation by operation; the merge is a function of them.*)
(***************************************************************************)
EXTENDS WorldSnapshots

CONSTANTS
  Base,       \* the snapshot both deltas start from
  FirstOps,   \* operations of the first delta
  SecondOps,  \* operations of the second
  MaxOps      \* bound on the length of each

VARIABLES first, second

Creates(delta) == SelectSeq(delta, LAMBDA op : op.kind = "CreateObject")
Temps(delta) == {op.temp : op \in Range(Creates(delta))}
TypesSet(delta) ==
  {<<op.object, op.type>> :
     op \in {o \in Range(delta) : o.kind = "SetObjectType"}}

\* reject_internal_type_conflicts: one delta gives a reference two types.
TypeConflict(delta) ==
  \E a, b \in TypesSet(delta) : a[1] = b[1] /\ a[2] # b[2]

NextTemp(a, b) == 1 + CHOOSE n \in Temps(a) \cup Temps(b) \cup {0} :
                        \A m \in Temps(a) \cup Temps(b) : m <= n

\* The temps of b, those a also uses renamed to fresh ones in order.
RenamedTemps(a, b) ==
  LET clashing == SelectSeq(Creates(b), LAMBDA op : op.temp \in Temps(a))
  IN [t \in Temps(b) |->
        IF t \in Temps(a)
        THEN NextTemp(a, b) - 1
               + CHOOSE n \in DOMAIN clashing : clashing[n].temp = t
        ELSE t]

\* A reference of b, as the merged delta names it, or NoRef.
NoRef == [tag |-> "none"]
NormalizeRef(base, a, b, ref) ==
  LET created == Creates(a)
      place == ref.n - Len(base.objects)
  IN IF ref.tag = "temp"
     THEN IF ref.n \in Temps(b) THEN TempRef(RenamedTemps(a, b)[ref.n])
          ELSE IF ref.n \in Temps(a) THEN ref ELSE NoRef
     ELSE IF ref.n \in DOMAIN base.objects THEN ref
          ELSE IF place \in DOMAIN created THEN TempRef(created[place].temp)
          ELSE NoRef

NormalizeOp(base, a, b, op) ==
  CASE op.kind = "CreateObject" ->
         [op EXCEPT !.temp = RenamedTemps(a, b)[@]]
    [] op.kind \in ObjectOps ->
         [op EXCEPT !.object = NormalizeRef(base, a, b, @)]
    [] op.kind = "CreatePointer" ->
         [op EXCEPT !.from = NormalizeRef(base, a, b, @),
                    !.to = NormalizeRef(base, a, b, @)]
    [] op.kind \notin ObjectOps \cup {"CreateObject", "CreatePointer"} -> op

HasNoRef(op) ==
  CASE op.kind \in ObjectOps -> op.object = NoRef
    [] op.kind = "CreatePointer" -> NoRef \in {op.from, op.to}
    [] op.kind \notin ObjectOps \cup {"CreatePointer"} -> FALSE

\* Mutant: of several types given to a reference the first one stays.
CompressToFirst(delta) ==
  LET Again(n) == /\ delta[n].kind = "SetObjectType"
                  /\ \E m \in 1..(n - 1) : delta[m].kind = "SetObjectType"
                                           /\ delta[m].object = delta[n].object
      kept == SelectSeq([n \in DOMAIN delta |-> n], LAMBDA n : ~Again(n))
  IN [n \in DOMAIN kept |-> delta[kept[n]]]

\* compress_updates: of several types given to a reference the last stays.
CompressUpdates(delta) ==
  LET Superseded(n) ==
        /\ delta[n].kind = "SetObjectType"
        /\ \E m \in (n + 1)..Len(delta) :
             delta[m].kind = "SetObjectType"
             /\ delta[m].object = delta[n].object
      kept == SelectSeq([n \in DOMAIN delta |-> n],
                        LAMBDA n : ~Superseded(n))
  IN [n \in DOMAIN kept |-> delta[kept[n]]]

Refused == [accepted |-> FALSE]

MergeSequential(base, a, b) ==
  LET mid == Overlay(base, a)
      normalized == [n \in DOMAIN b |-> NormalizeOp(base, a, b, b[n])]
      merged == CompressUpdates(a \o normalized)
  IN IF TypeConflict(a) \/ TypeConflict(b) THEN Refused
     ELSE IF mid.error # "" \/ ~OverlayAccepts(mid.snap, b) THEN Refused
     ELSE IF \E op \in Range(normalized) : HasNoRef(op) THEN Refused
     ELSE IF ~OverlayAccepts(base, merged) THEN Refused
     ELSE [accepted |-> TRUE, delta |-> merged]

-----------------------------------------------------------------------------

Init == first = << >> /\ second = << >>

AppendFirst ==
  /\ Len(first) < MaxOps /\ second = << >>
  /\ \E op \in FirstOps : first' = Append(first, op)
  /\ UNCHANGED second

AppendSecond ==
  /\ Len(second) < MaxOps
  /\ \E op \in SecondOps : second' = Append(second, op)
  /\ UNCHANGED first

Next == AppendFirst \/ AppendSecond
Spec == Init /\ [][Next]_<<first, second>>

-----------------------------------------------------------------------------

\* A snapshot with every epoch after e told apart from those before it only.
Since(e, s) ==
  LET Date(d) == IF d > e THEN e + 1 ELSE d
  IN [s EXCEPT !.epoch = Date(@),
               !.pointers = [n \in DOMAIN @ |->
                  [@[n] EXCEPT !.born = Date(@), !.expires = Date(@)]]]

Merged == MergeSequential(Base, first, second)
InTurn == After(After(Base, first), second)

\* The merged delta does in one commit what the two do in two: the same
\* objects, pointers and symbols under the same ids, but for the epochs.
MergedDoesBoth ==
  Merged.accepted =>
    Since(Base.epoch, After(Base, Merged.delta)) = Since(Base.epoch, InTurn)

\* A delta may name what it creates by the id it will get; the merge knows
\* such ids of the first delta only.
ForeignId(ref) ==
  ref.tag = "id" /\ ref.n > Len(Base.objects) + Len(Creates(first))
NamesOwnCreations(delta) ==
  \E op \in Range(delta) :
    \/ op.kind \in ObjectOps /\ ForeignId(op.object)
    \/ op.kind = "CreatePointer" /\ (ForeignId(op.from) \/ ForeignId(op.to))

\* Two deltas that can be applied in turn can be merged, unless one gives an
\* object two types or asserts a fact of a particular epoch, or the second
\* names by id what it creates itself.
MergesWhatApplies ==
  LET plain == \A op \in Range(first \o second) : op.kind # "AssertFact"
  IN (/\ plain /\ ~TypeConflict(first) /\ ~TypeConflict(second)
      /\ ~NamesOwnCreations(second)
      /\ OverlayAccepts(Base, first)
      /\ OverlayAccepts(After(Base, first), second))
        => Merged.accepted
=============================================================================

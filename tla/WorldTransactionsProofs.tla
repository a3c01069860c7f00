---------------------- MODULE WorldTransactionsProofs ----------------------
(***************************************************************************)
(* What transactions and evolution keep of a world, for every set of       *)
(* deltas and callers and any number of commits: the world stays one, what *)
(* a commit does was previewed, pointers that expired stay so, and an      *)
(* object evolves along one edge.                                          *)
(***************************************************************************)
EXTENDS WorldTransactions, WellFoundedInduction, TLAPS

LEMMA LeastNumber ==
  ASSUME NEW T, T \subseteq Nat, T # {}
  PROVE  \E x \in T : \A y \in T : x <= y
<1> DEFINE R == OpToRel(<, Nat)
<1>1. IsWellFoundedOn(R, Nat)
  BY NatLessThanWellFounded
<1>2. \A x, y \in Nat : y < x => <<y, x>> \in R
  BY DEF OpToRel
<1> HIDE DEF R
<1>3. PICK x \in T : \A y \in T : ~ (<<y, x>> \in R)
  BY <1>1, WFMin
<1> SUFFICES ASSUME NEW y \in T
             PROVE  x <= y
  BY <1>3
<1>4. ~(y < x)
  BY <1>2, <1>3
<1> QED BY <1>4

LEMMA ByInduction ==
  ASSUME NEW T, 0 \in T, \A n \in Nat : n \in T => n + 1 \in T
  PROVE  Nat \subseteq T
<1> SUFFICES ASSUME Nat \ T # {} PROVE FALSE
  OBVIOUS
<1>1. PICK x \in Nat \ T : \A y \in Nat \ T : x <= y
  <2>1. Nat \ T \subseteq Nat /\ Nat \ T # {}
    OBVIOUS
  <2> QED BY <2>1, LeastNumber
<1>2. x # 0 /\ x - 1 \in Nat /\ x - 1 \in T
  BY <1>1
<1> QED BY <1>1, <1>2

-----------------------------------------------------------------------------
(* Sequences.                                                              *)

LEMMA FunctionIsSequence ==
  ASSUME NEW R, NEW n \in Nat, NEW f \in [1..n -> R]
  PROVE  f \in Seq(R)
OBVIOUS

LEMMA SequenceShape ==
  ASSUME NEW s, s \in Seq(Range(s))
  PROVE  Len(s) \in Nat /\ DOMAIN s = 1..Len(s)
OBVIOUS

(* A function on an initial segment is a sequence of what it takes.        *)
LEMMA SegmentIsSequence ==
  ASSUME NEW n \in Nat, NEW f, f = [i \in 1..n |-> f[i]]
  PROVE  f \in Seq(Range(f)) /\ DOMAIN f = 1..n /\ Len(f) = n
<1>1. DOMAIN f = 1..n
  BY Zenon
<1>2. \A i \in 1..n : f[i] \in Range(f)
  BY <1>1 DEF Range
<1>3. f \in [1..n -> Range(f)]
  BY <1>2
<1>4. f \in Seq(Range(f))
  BY <1>3, FunctionIsSequence
<1> QED BY <1>1, <1>4, SequenceShape

LEMMA InItsRange ==
  ASSUME NEW R, NEW t \in Seq(R)
  PROVE  t \in Seq(Range(t))
<1>1. Len(t) \in Nat /\ DOMAIN t = 1..Len(t)
  OBVIOUS
<1>2. PICK n \in Nat : n = Len(t) /\ t = [i \in 1..n |-> t[i]]
  BY <1>1
<1> QED BY <1>2, SegmentIsSequence

(* A sequence with one more element.                                       *)
OneMore(s, x, t) ==
  /\ t \in Seq(Range(t)) /\ Len(t) = Len(s) + 1 /\ DOMAIN t = DOMAIN s \cup {Len(s) + 1}
  /\ Len(s) + 1 \notin DOMAIN s
  /\ t[Len(s) + 1] = x /\ \A i \in DOMAIN s : t[i] = s[i]

LEMMA Appended ==
  ASSUME NEW s, s \in Seq(Range(s)), NEW x
  PROVE  OneMore(s, x, Append(s, x))
<1> DEFINE t == Append(s, x)
<1>1. Len(s) \in Nat /\ DOMAIN s = 1..Len(s)
  BY SequenceShape
<1>2. PICK R : R = Range(s) \cup {x}
  OBVIOUS
<1>3. s \in Seq(R)
  <2>1. \A i \in 1..Len(s) : s[i] \in R
    BY <1>1, <1>2 DEF Range
  <2> QED BY <1>1, <2>1
<1>4. t \in Seq(R) /\ Len(t) = Len(s) + 1 /\ DOMAIN t = 1..(Len(s) + 1)
  BY <1>2, <1>3
<1>5. t[Len(s) + 1] = x /\ \A i \in 1..Len(s) : t[i] = s[i]
  BY <1>2, <1>3
<1>7. t \in Seq(Range(t))
  BY <1>4, InItsRange
<1> QED BY <1>1, <1>4, <1>5, <1>7 DEF OneMore

LEMMA Replaced ==
  ASSUME NEW s, s \in Seq(Range(s)), NEW k \in DOMAIN s, NEW x, NEW t, t = [s EXCEPT ![k] = x]
  PROVE  /\ t \in Seq(Range(t)) /\ DOMAIN t = DOMAIN s
         /\ t[k] = x /\ \A i \in DOMAIN s : i # k => t[i] = s[i]
<1>1. Len(s) \in Nat /\ DOMAIN s = 1..Len(s)
  BY SequenceShape
<1>2. t = [i \in 1..Len(s) |-> t[i]] /\ t[k] = x /\ \A i \in DOMAIN s : i # k => t[i] = s[i]
  BY <1>1
<1>3. t \in Seq(Range(t)) /\ DOMAIN t = 1..Len(s)
  BY <1>1, <1>2, SegmentIsSequence
<1> QED BY <1>1, <1>2, <1>3

-----------------------------------------------------------------------------
(* Registries.                                                             *)

Grows(slots, more) ==
  /\ DOMAIN slots \subseteq DOMAIN more
  /\ \A n \in DOMAIN slots : slots[n] # Unnamed => more[n] = slots[n]

(* A registry with one name more, as intern_at leaves it.                  *)
Named(slots, id, name) ==
  [n \in 1..(IF id > Len(slots) THEN id ELSE Len(slots)) |->
     IF n = id THEN name ELSE IF n \in DOMAIN slots THEN slots[n] ELSE Unnamed]

Vacant(slots, id, name) ==
  /\ \A n \in DOMAIN slots : slots[n] # name
  /\ id \in Nat /\ id # 0 /\ (id \in DOMAIN slots => slots[id] = Unnamed)

LEMMA InternGrows ==
  ASSUME NEW slots, IsRegistry(slots), NEW name, name # Unnamed, NEW id, Vacant(slots, id, name),
         NEW more, more = Named(slots, id, name)
  PROVE  IsRegistry(more) /\ Grows(slots, more) /\ id \in DOMAIN more /\ more[id] = name
<1>0. /\ \A n \in DOMAIN slots : slots[n] # name
      /\ id \in Nat /\ id # 0 /\ (id \in DOMAIN slots => slots[id] = Unnamed)
  BY DEF Vacant
<1>1. slots \in Seq(Range(slots)) /\ Len(slots) \in Nat /\ DOMAIN slots = 1..Len(slots)
  BY SequenceShape DEF IsRegistry
<1>2. PICK len : len = IF id > Len(slots) THEN id ELSE Len(slots)
  OBVIOUS
<1>3. len \in Nat /\ id <= len /\ Len(slots) <= len
  <2>1. CASE id > Len(slots)
    BY <1>0, <1>1, <1>2, <2>1
  <2>2. CASE ~(id > Len(slots))
    <3>1. len = Len(slots)
      BY <1>2, <2>2
    <3> QED BY <1>0, <1>1, <2>2, <3>1
  <2> QED BY <2>1, <2>2
<1>4. /\ more = [n \in 1..len |-> more[n]]
      /\ \A n \in 1..len : more[n] = IF n = id THEN name
                                     ELSE IF n \in DOMAIN slots THEN slots[n] ELSE Unnamed
  <2>1. more = [n \in 1..len |-> IF n = id THEN name
                                ELSE IF n \in DOMAIN slots THEN slots[n] ELSE Unnamed]
    BY <1>2 DEF Named
  <2> QED BY <2>1
<1>5. more \in Seq(Range(more)) /\ DOMAIN more = 1..len
  BY <1>0, <1>3, <1>4, SegmentIsSequence
<1>6. Grows(slots, more) /\ id \in DOMAIN more /\ more[id] = name
  <2>1. id \in 1..len /\ \A n \in DOMAIN slots : n \in 1..len
    BY <1>0, <1>1, <1>3
  <2>2. \A n \in DOMAIN slots : slots[n] # Unnamed => more[n] = slots[n]
    BY <1>0, <1>4, <2>1
  <2> QED BY <1>4, <1>5, <2>1, <2>2 DEF Grows
<1>7. \A m, n \in DOMAIN more : more[m] = more[n] => m = n \/ more[m] = Unnamed
  BY <1>0, <1>1, <1>4, <1>5 DEF IsRegistry
<1> QED BY <1>5, <1>6, <1>7 DEF IsRegistry

-----------------------------------------------------------------------------
(* One operation.  Of a step that did not throw: what becomes of the       *)
(* pointers and of the names of relations.                                 *)

Kept(p, q, epoch, expired) ==
  /\ q.from = p.from /\ q.to = p.to /\ q.relation = p.relation /\ q.domain = p.domain
  /\ q.born = p.born
  /\ q.expires = IF expired THEN epoch ELSE p.expires

Fresh(q, op, epoch) ==
  /\ q.relation = op.relation /\ q.domain = op.domain /\ q.born = epoch /\ q.expires = Never
  /\ op.from.tag = "id" => q.from = op.from.n

PointersStep(w, v, op) ==
  /\ DOMAIN w.pointers \subseteq DOMAIN v.pointers
  /\ \A n \in DOMAIN w.pointers :
       Kept(w.pointers[n], v.pointers[n], w.epoch + 1, op.kind = "ExpirePointer" /\ op.id = n)
  /\ \A n \in DOMAIN v.pointers \ DOMAIN w.pointers :
       /\ op.kind = "CreatePointer" /\ op.relation \in DOMAIN w.relations
       /\ Fresh(v.pointers[n], op, w.epoch + 1)
  /\ \A m, n \in DOMAIN v.pointers \ DOMAIN w.pointers : m = n

OperationStep(w, v, op) ==
  /\ v.epoch = w.epoch /\ Grows(w.relations, v.relations) /\ PointersStep(w, v, op)
  /\ (op.kind = "InternRelation" /\ op.id # NoId) =>
       op.id \in DOMAIN v.relations /\ v.relations[op.id] = op.name

StateOK(st) ==
  /\ st = [world |-> st.world, temps |-> st.temps, events |-> st.events, thrown |-> st.thrown]
  /\ st.thrown = FALSE
  /\ IsWorld(st.world)
  /\ \A t \in DOMAIN st.temps : st.temps[t] \in DOMAIN st.world.objects

(* What a world comes to consist of, and the temps that name its objects.  *)
WorldBecomes(st, u, ts, rs, os, ps, temps) ==
  /\ u.world.epoch = st.world.epoch /\ u.world.types = ts /\ u.world.relations = rs
  /\ u.world.objects = os /\ u.world.pointers = ps /\ u.temps = temps

Changed(s, k, x) == [s EXCEPT ![k] = x]

LEMMA Emits ==
  ASSUME NEW st, NEW event,
         st = [world |-> st.world, temps |-> st.temps, events |-> st.events, thrown |-> st.thrown]
  PROVE  Emit(st, event) = [world |-> st.world, temps |-> st.temps,
                            events |-> Append(st.events, event), thrown |-> st.thrown]
BY DEF Emit

LEMMA Throws ==
  ASSUME NEW st,
         st = [world |-> st.world, temps |-> st.temps, events |-> st.events, thrown |-> st.thrown]
  PROVE  Throw(st).thrown
BY DEF Throw

LEMMA ObjectStays ==
  ASSUME NEW o, NEW w, IsObject(o, w), NEW v, DOMAIN w.types \subseteq DOMAIN v.types
  PROVE  IsObject(o, v)
BY DEF IsObject

LEMMA PointerStays ==
  ASSUME NEW p, NEW w, IsPointer(p, w), NEW v,
         DOMAIN w.objects \subseteq DOMAIN v.objects, DOMAIN w.relations \subseteq DOMAIN v.relations
  PROVE  IsPointer(p, v)
BY DEF IsPointer

LEMMA GrowsItself ==
  ASSUME NEW slots
  PROVE  Grows(slots, slots)
BY DEF Grows

LEMMA PointersStand ==
  ASSUME NEW w, NEW v, NEW op, v.pointers = w.pointers, op.kind # "ExpirePointer"
  PROVE  PointersStep(w, v, op)
BY DEF PointersStep, Kept

(* A world with its pointers, and its objects left alone.                  *)
LEMMA WorldWithPointers ==
  ASSUME NEW w, IsWorld(w), NEW ps, ps \in Seq(Range(ps)), NEW v, v = [w EXCEPT !.pointers = ps],
         \A n \in DOMAIN ps : IsPointer(ps[n], w)
  PROVE  /\ IsWorld(v) /\ v.epoch = w.epoch /\ v.pointers = ps /\ v.relations = w.relations
         /\ v.objects = w.objects /\ v.types = w.types
<1>1. w = [epoch |-> w.epoch, types |-> w.types, relations |-> w.relations,
           objects |-> w.objects, pointers |-> w.pointers]
  BY DEF IsWorld, SnapshotOf
<1>2. /\ v = [epoch |-> v.epoch, types |-> v.types, relations |-> v.relations,
              objects |-> v.objects, pointers |-> v.pointers]
      /\ v.epoch = w.epoch /\ v.types = w.types /\ v.relations = w.relations
      /\ v.objects = w.objects /\ v.pointers = ps
  BY <1>1
<1>3. \A n \in DOMAIN v.objects : IsObject(v.objects[n], v)
  BY <1>2 DEF IsWorld, IsObject
<1>4. \A n \in DOMAIN v.pointers : IsPointer(v.pointers[n], v)
  BY <1>2 DEF IsPointer
<1> QED BY <1>2, <1>3, <1>4 DEF IsWorld, SnapshotOf

LEMMA Unchanged ==
  ASSUME NEW s, s \in Seq(Range(s)), NEW k
  PROVE  Changed(s, k, s[k]) = s
<1>1. Len(s) \in Nat /\ DOMAIN s = 1..Len(s)
  BY SequenceShape
<1>2. s = [i \in 1..Len(s) |-> s[i]]
  BY <1>1
<1> QED BY <1>2 DEF Changed

LEMMA PointerStep ==
  ASSUME NEW st, StateOK(st), NEW op, OpOK(op), op.kind \in PointerOps,
         NEW u, u = WorldPointer(st, op), ~u.thrown
  PROVE  /\ StateOK(u) /\ OperationStep(st.world, u.world, op)
         /\ WorldBecomes(st, u, st.world.types, st.world.relations, st.world.objects,
              Changed(st.world.pointers, op.id,
                ChangedPointer(st.world.pointers[op.id], op, st.world.epoch + 1)),
              st.temps)
<1>1. PICK w : w = st.world
  OBVIOUS
<1>2. IsWorld(w) /\ st.thrown = FALSE
  BY <1>1 DEF StateOK
<1>3. op.id \in DOMAIN w.pointers
  BY <1>1, Throws DEF WorldPointer, StateOK
<1>4. CASE op.kind = "AssertPointer"
  <2>1. u = st
    BY <1>1, <1>3, <1>4 DEF WorldPointer
  <2>2. ChangedPointer(w.pointers[op.id], op, w.epoch + 1) = w.pointers[op.id]
    BY <1>4 DEF ChangedPointer
  <2>3. Changed(w.pointers, op.id, w.pointers[op.id]) = w.pointers
    BY <1>2, Unchanged DEF IsWorld
  <2>4. WorldBecomes(st, u, w.types, w.relations, w.objects, w.pointers, st.temps)
    BY <1>1, <2>1 DEF WorldBecomes
  <2> QED BY <1>1, <1>4, <2>1, <2>2, <2>3, <2>4, GrowsItself, PointersStand DEF OperationStep
<1>5. CASE op.kind # "AssertPointer"
  <2>1. PICK p : p = w.pointers[op.id]
    OBVIOUS
  <2>2. PICK q : q = ChangedPointer(p, op, w.epoch + 1)
    OBVIOUS
  <2>3. IsPointer(p, w)
    BY <1>2, <1>3, <2>1 DEF IsWorld
  <2>4. w.epoch + 1 \in Nat
    BY <1>2 DEF IsWorld
  <2>5. Kept(p, q, w.epoch + 1, op.kind = "ExpirePointer") /\ IsPointer(q, w)
    <3>1. CASE op.kind = "ExpirePointer"
      <4>1. q = [p EXCEPT !.expires = w.epoch + 1]
        BY <2>2, <3>1 DEF ChangedPointer
      <4> QED BY <2>3, <2>4, <3>1, <4>1 DEF Kept, IsPointer
    <3>2. CASE op.kind = "SetPointerWeight"
      <4>1. q = [p EXCEPT !.weight = op.weight]
        BY <2>2, <3>2 DEF ChangedPointer
      <4> QED BY <2>3, <3>2, <4>1 DEF Kept, IsPointer
    <3>3. CASE op.kind = "SetPointerAttribute"
      <4>1. q = [p EXCEPT !.attrs = SetAttr(p.attrs, op.key, op.value)]
        BY <2>2, <3>3 DEF ChangedPointer
      <4> QED BY <2>3, <3>3, <4>1 DEF Kept, IsPointer
    <3>4. CASE op.kind = "RemovePointerAttribute"
      <4>1. q = [p EXCEPT !.attrs = RemoveAttr(p.attrs, op.key)]
        BY <2>2, <3>4 DEF ChangedPointer
      <4> QED BY <2>3, <3>4, <4>1 DEF Kept, IsPointer
    <3> QED BY <1>5, <3>1, <3>2, <3>3, <3>4 DEF PointerOps
  <2>6. PICK ps : ps = [w.pointers EXCEPT ![op.id] = q]
    OBVIOUS
  <2>7. /\ ps \in Seq(Range(ps)) /\ DOMAIN ps = DOMAIN w.pointers
        /\ ps[op.id] = q /\ \A n \in DOMAIN w.pointers : n # op.id => ps[n] = w.pointers[n]
    BY <1>2, <1>3, <2>6, Replaced DEF IsWorld
  <2>8. PICK v : v = [w EXCEPT !.pointers = ps]
    OBVIOUS
  <2>9. \A n \in DOMAIN ps : IsPointer(ps[n], w)
    BY <1>2, <2>5, <2>7 DEF IsWorld
  <2>10. /\ IsWorld(v) /\ v.epoch = w.epoch /\ v.pointers = ps /\ v.relations = w.relations
         /\ v.objects = w.objects /\ v.types = w.types
    BY <1>2, <2>7, <2>8, <2>9, WorldWithPointers
  <2>11. PICK r : r = [st EXCEPT !.world.pointers[op.id] = ChangedPointer(@, op, st.world.epoch + 1)]
    OBVIOUS
  <2>12. r = [world |-> v, temps |-> st.temps, events |-> st.events, thrown |-> FALSE]
    <3>1. r = [st EXCEPT !.world = v]
      BY <1>1, <2>1, <2>2, <2>6, <2>8, <2>11 DEF StateOK, IsWorld, SnapshotOf
    <3> QED BY <3>1 DEF StateOK
  <2>13. u = Emit(r, PointerEvent(op))
    BY <1>1, <1>3, <1>5, <2>11 DEF WorldPointer
  <2>14. u = [world |-> v, temps |-> st.temps, events |-> Append(st.events, PointerEvent(op)),
              thrown |-> FALSE]
    <3>1. /\ r = [world |-> r.world, temps |-> r.temps, events |-> r.events, thrown |-> r.thrown]
          /\ r.world = v /\ r.temps = st.temps /\ r.events = st.events /\ r.thrown = FALSE
      BY <2>12
    <3>2. \A event : Emit(r, event) = [world |-> r.world, temps |-> r.temps,
                                       events |-> Append(r.events, event), thrown |-> r.thrown]
      BY <3>1, Emits
    <3> QED BY <2>13, <3>1, <3>2
  <2>15. StateOK(u)
    BY <1>1, <2>10, <2>14 DEF StateOK
  <2>16. PointersStep(w, v, op)
    <3>1. ASSUME NEW n \in DOMAIN w.pointers
          PROVE  Kept(w.pointers[n], v.pointers[n], w.epoch + 1,
                      op.kind = "ExpirePointer" /\ op.id = n)
      BY <2>1, <2>5, <2>7, <2>10 DEF Kept
    <3> QED BY <2>7, <2>10, <3>1 DEF PointersStep
  <2>17. op.kind # "InternRelation"
    BY DEF PointerOps
  <2>18. ps = Changed(w.pointers, op.id, ChangedPointer(w.pointers[op.id], op, w.epoch + 1))
    BY <2>1, <2>2, <2>6 DEF Changed
  <2>19. WorldBecomes(st, u, w.types, w.relations, w.objects, ps, st.temps)
    BY <1>1, <2>10, <2>14 DEF WorldBecomes
  <2> QED BY <1>1, <2>10, <2>14, <2>15, <2>16, <2>17, <2>18, <2>19, GrowsItself DEF OperationStep
<1> QED BY <1>4, <1>5

(* A world with its objects, its pointers left alone.                      *)
LEMMA WorldWithObjects ==
  ASSUME NEW w, IsWorld(w), NEW os, os \in Seq(Range(os)), DOMAIN w.objects \subseteq DOMAIN os,
         NEW v, v = [w EXCEPT !.objects = os], \A n \in DOMAIN os : IsObject(os[n], w)
  PROVE  /\ IsWorld(v) /\ v.epoch = w.epoch /\ v.pointers = w.pointers /\ v.relations = w.relations
         /\ v.objects = os /\ v.types = w.types
<1>1. w = [epoch |-> w.epoch, types |-> w.types, relations |-> w.relations,
           objects |-> w.objects, pointers |-> w.pointers]
  BY DEF IsWorld, SnapshotOf
<1>2. /\ v = [epoch |-> v.epoch, types |-> v.types, relations |-> v.relations,
              objects |-> v.objects, pointers |-> v.pointers]
      /\ v.epoch = w.epoch /\ v.types = w.types /\ v.relations = w.relations
      /\ v.objects = os /\ v.pointers = w.pointers
  BY <1>1
<1>3. \A n \in DOMAIN v.objects : IsObject(v.objects[n], v)
  BY <1>2 DEF IsObject
<1>4. ASSUME NEW n \in DOMAIN v.pointers PROVE IsPointer(v.pointers[n], v)
  <2>1. PICK p : p = v.pointers[n]
    OBVIOUS
  <2>2. IsPointer(p, w)
    BY <1>2, <2>1 DEF IsWorld
  <2>3. DOMAIN w.objects \subseteq DOMAIN v.objects /\ DOMAIN w.relations \subseteq DOMAIN v.relations
    BY <1>2
  <2>4. IsPointer(p, v)
    BY <2>2, <2>3, PointerStays
  <2> QED BY <2>1, <2>4
<1> QED BY <1>2, <1>3, <1>4 DEF IsWorld, SnapshotOf

LEMMA ObjectStep ==
  ASSUME NEW st, StateOK(st), NEW op, OpOK(op), op.kind \in ObjectOps,
         NEW u, u = WorldObject(st, op), ~u.thrown,
         NEW id, id = Resolve(st.world.objects, st.temps, op.object)
  PROVE  /\ StateOK(u) /\ OperationStep(st.world, u.world, op)
         /\ id \in DOMAIN st.world.objects
         /\ WorldBecomes(st, u, st.world.types, st.world.relations,
              Changed(st.world.objects, id, ChangedObject(st.world.objects[id], op)),
              st.world.pointers, st.temps)
<1>1. PICK w : w = st.world
  OBVIOUS
<1>2. IsWorld(w) /\ st.thrown = FALSE
  BY <1>1 DEF StateOK
<1>3. id = Resolve(w.objects, st.temps, op.object)
  BY <1>1
<1>4. id # NoId /\ (op.kind = "SetObjectType" => op.type \in DOMAIN w.types)
  BY <1>1, <1>3, Throws DEF WorldObject, StateOK
<1>5. id \in DOMAIN w.objects
  BY <1>1, <1>3, <1>4 DEF Resolve, StateOK
<1>6. op.kind \notin {"ExpirePointer", "CreatePointer", "InternRelation"}
  BY DEF ObjectOps
<1>7. CASE op.kind = "AssertObject"
  <2>1. u = st
    BY <1>1, <1>3, <1>4, <1>7 DEF WorldObject
  <2>2. ChangedObject(w.objects[id], op) = w.objects[id]
    BY <1>7 DEF ChangedObject
  <2>3. Changed(w.objects, id, w.objects[id]) = w.objects
    BY <1>2, Unchanged DEF IsWorld
  <2>4. WorldBecomes(st, u, w.types, w.relations, w.objects, w.pointers, st.temps)
    BY <1>1, <2>1 DEF WorldBecomes
  <2> QED BY <1>1, <1>5, <1>6, <2>1, <2>2, <2>3, <2>4, GrowsItself, PointersStand DEF OperationStep
<1>8. CASE op.kind # "AssertObject"
  <2>1. PICK o : o = w.objects[id]
    OBVIOUS
  <2>2. PICK changed : changed = ChangedObject(o, op)
    OBVIOUS
  <2>3. IsObject(o, w)
    BY <1>2, <1>5, <2>1 DEF IsWorld
  <2>4. IsObject(changed, w)
    <3>1. CASE op.kind = "SetObjectType"
      <4>1. changed = [o EXCEPT !.type = op.type]
        BY <2>2, <3>1 DEF ChangedObject
      <4> QED BY <1>4, <2>3, <3>1, <4>1 DEF IsObject
    <3>2. CASE op.kind = "SetObjectExistence"
      <4>1. changed = [o EXCEPT !.existence = op.existence]
        BY <2>2, <3>2 DEF ChangedObject
      <4>2. op.existence \in Existence
        BY <3>2 DEF OpOK
      <4> QED BY <2>3, <4>1, <4>2 DEF IsObject
    <3>3. CASE op.kind = "SetObjectAttribute"
      <4>1. changed = [o EXCEPT !.attrs = SetAttr(o.attrs, op.key, op.value)]
        BY <2>2, <3>3 DEF ChangedObject
      <4> QED BY <2>3, <4>1 DEF IsObject
    <3>4. CASE op.kind = "RemoveObjectAttribute"
      <4>1. changed = [o EXCEPT !.attrs = RemoveAttr(o.attrs, op.key)]
        BY <2>2, <3>4 DEF ChangedObject
      <4> QED BY <2>3, <4>1 DEF IsObject
    <3> QED BY <1>8, <3>1, <3>2, <3>3, <3>4 DEF ObjectOps
  <2>5. PICK os : os = [w.objects EXCEPT ![id] = changed]
    OBVIOUS
  <2>6. /\ os \in Seq(Range(os)) /\ DOMAIN os = DOMAIN w.objects
        /\ os[id] = changed /\ \A n \in DOMAIN w.objects : n # id => os[n] = w.objects[n]
    BY <1>2, <1>5, <2>5, Replaced DEF IsWorld
  <2>7. PICK v : v = [w EXCEPT !.objects = os]
    OBVIOUS
  <2>8. \A n \in DOMAIN os : IsObject(os[n], w)
    BY <1>2, <2>4, <2>6 DEF IsWorld
  <2>9. /\ IsWorld(v) /\ v.epoch = w.epoch /\ v.pointers = w.pointers
        /\ v.relations = w.relations /\ v.objects = os /\ v.types = w.types
    BY <1>2, <2>6, <2>7, <2>8, WorldWithObjects
  <2>10. PICK r : r = [st EXCEPT !.world.objects[id] = changed]
    OBVIOUS
  <2>11. r = [world |-> v, temps |-> st.temps, events |-> st.events, thrown |-> FALSE]
    <3>1. r = [st EXCEPT !.world = v]
      BY <1>1, <2>5, <2>7, <2>10 DEF StateOK, IsWorld, SnapshotOf
    <3> QED BY <3>1 DEF StateOK
  <2>12. u = Emit(r, ObjectEvent(w, changed, op))
    BY <1>1, <1>3, <1>4, <1>8, <2>1, <2>2, <2>10 DEF WorldObject
  <2>13. /\ u = [world |-> u.world, temps |-> u.temps, events |-> u.events, thrown |-> u.thrown]
         /\ u.world = v /\ u.temps = st.temps /\ u.thrown = FALSE
    <3>1. /\ r = [world |-> r.world, temps |-> r.temps, events |-> r.events, thrown |-> r.thrown]
          /\ r.world = v /\ r.temps = st.temps /\ r.thrown = FALSE
      BY <2>11
    <3>2. \A event : Emit(r, event) = [world |-> r.world, temps |-> r.temps,
                                       events |-> Append(r.events, event), thrown |-> r.thrown]
      BY <3>1, Emits
    <3> QED BY <2>12, <3>1, <3>2
  <2>14. StateOK(u)
    BY <1>1, <2>6, <2>9, <2>13 DEF StateOK
  <2>15. os = Changed(w.objects, id, ChangedObject(w.objects[id], op))
    BY <2>1, <2>2, <2>5 DEF Changed
  <2>16. WorldBecomes(st, u, w.types, w.relations, os, w.pointers, st.temps)
    BY <1>1, <2>9, <2>13 DEF WorldBecomes
  <2> QED BY <1>1, <1>5, <1>6, <2>9, <2>13, <2>14, <2>15, <2>16, GrowsItself, PointersStand
          DEF OperationStep
<1> QED BY <1>7, <1>8

(* An object reference that resolves is to an object of the world.         *)
LEMMA ResolvesInside ==
  ASSUME NEW st, StateOK(st), NEW ref, NEW id, id = Resolve(st.world.objects, st.temps, ref), id # NoId
  PROVE  id \in DOMAIN st.world.objects /\ (ref.tag = "id" => id = ref.n)
BY DEF Resolve, StateOK

LEMMA CreateStep ==
  ASSUME NEW st, StateOK(st), NEW op, OpOK(op), op.kind = "CreateObject",
         NEW u, u = WorldCreate(st, op), ~u.thrown
  PROVE  /\ StateOK(u) /\ OperationStep(st.world, u.world, op)
         /\ WorldBecomes(st, u, st.world.types, st.world.relations,
              Append(st.world.objects, NewObject(op, LastOfEachKey(op.attrs))), st.world.pointers,
              Bind(st.temps, op.temp, Len(st.world.objects) + 1))
<1>1. PICK w : w = st.world
  OBVIOUS
<1>2. IsWorld(w) /\ st.thrown = FALSE
  BY <1>1 DEF StateOK
<1>3. ~ (\/ op.temp = NoId \/ op.temp \in DOMAIN st.temps
         \/ ObjectsNamed(w, op.name) # {} \/ op.name = Unnamed
         \/ op.type \notin DOMAIN w.types)
  BY <1>1, Throws DEF WorldCreate, StateOK
<1>4. PICK o : o = NewObject(op, LastOfEachKey(op.attrs))
  OBVIOUS
<1>5. IsObject(o, w)
  <2>1. op.existence \in Existence
    BY DEF OpOK
  <2> QED BY <1>3, <1>4, <2>1 DEF NewObject, IsObject
<1>6. PICK os : os = Append(w.objects, o)
  OBVIOUS
<1>7. /\ os \in Seq(Range(os)) /\ DOMAIN os = DOMAIN w.objects \cup {Len(w.objects) + 1}
      /\ os[Len(w.objects) + 1] = o /\ \A n \in DOMAIN w.objects : os[n] = w.objects[n]
  <2>1. PICK s : s = w.objects
    OBVIOUS
  <2>2. s \in Seq(Range(s))
    BY <1>2, <2>1 DEF IsWorld
  <2>3. os = Append(s, o)
    BY <1>6, <2>1
  <2>4. OneMore(s, o, os)
    BY <2>2, <2>3, Appended
  <2> QED BY <2>1, <2>4 DEF OneMore
<1>8. \A n \in DOMAIN os : IsObject(os[n], w)
  BY <1>2, <1>5, <1>7 DEF IsWorld
<1>9. PICK v : v = [w EXCEPT !.objects = os]
  OBVIOUS
<1>10. /\ IsWorld(v) /\ v.epoch = w.epoch /\ v.pointers = w.pointers
       /\ v.relations = w.relations /\ v.objects = os /\ v.types = w.types
  BY <1>2, <1>7, <1>8, <1>9, WorldWithObjects
<1>11. PICK temps : temps = Bind(st.temps, op.temp, Len(w.objects) + 1)
  OBVIOUS
<1>12. \A t \in DOMAIN temps : temps[t] \in DOMAIN v.objects
  <2>1. \A t \in DOMAIN st.temps : st.temps[t] \in DOMAIN w.objects
    BY <1>1 DEF StateOK
  <2> QED BY <1>7, <1>10, <1>11, <2>1 DEF Bind
<1>13. PICK r : r = [st EXCEPT !.world.objects = Append(@, NewObject(op, LastOfEachKey(op.attrs))),
                               !.temps = Bind(@, op.temp, Len(w.objects) + 1)]
  OBVIOUS
<1>14. r = [world |-> v, temps |-> temps, events |-> st.events, thrown |-> FALSE]
  <2>1. [st EXCEPT !.world.objects = Append(@, NewObject(op, LastOfEachKey(op.attrs)))]
          = [st EXCEPT !.world = v]
    BY <1>1, <1>4, <1>6, <1>9 DEF StateOK, IsWorld, SnapshotOf
  <2>2. r = [[st EXCEPT !.world = v] EXCEPT !.temps = Bind(st.temps, op.temp, Len(w.objects) + 1)]
    BY <1>13, <2>1 DEF StateOK
  <2>3. r = [[st EXCEPT !.world = v] EXCEPT !.temps = temps]
    BY <1>11, <2>2
  <2> QED BY <2>3 DEF StateOK
<1>15. PICK event : u = Emit(r, event)
  BY <1>1, <1>3, <1>13 DEF WorldCreate
<1>16. /\ u = [world |-> u.world, temps |-> u.temps, events |-> u.events, thrown |-> u.thrown]
       /\ u.world = v /\ u.temps = temps /\ u.thrown = FALSE
  <2>1. /\ r = [world |-> r.world, temps |-> r.temps, events |-> r.events, thrown |-> r.thrown]
        /\ r.world = v /\ r.temps = temps /\ r.thrown = FALSE
    BY <1>14
  <2>2. Emit(r, event) = [world |-> r.world, temps |-> r.temps,
                          events |-> Append(r.events, event), thrown |-> r.thrown]
    BY <2>1, Emits
  <2> QED BY <1>15, <2>1, <2>2
<1>17. StateOK(u)
  BY <1>10, <1>12, <1>16 DEF StateOK
<1>18. WorldBecomes(st, u, w.types, w.relations, os, w.pointers, temps)
  BY <1>1, <1>10, <1>16 DEF WorldBecomes
<1> QED BY <1>1, <1>4, <1>6, <1>10, <1>11, <1>16, <1>17, <1>18, GrowsItself, PointersStand
        DEF OperationStep

LEMMA LinkStep ==
  ASSUME NEW st, StateOK(st), NEW op, OpOK(op), op.kind = "CreatePointer",
         NEW u, u = WorldLink(st, op), ~u.thrown,
         NEW from, from = Resolve(st.world.objects, st.temps, op.from),
         NEW to, to = Resolve(st.world.objects, st.temps, op.to)
  PROVE  /\ StateOK(u) /\ OperationStep(st.world, u.world, op)
         /\ WorldBecomes(st, u, st.world.types, st.world.relations, st.world.objects,
              Append(st.world.pointers,
                NewPointer(op, from, to, st.world.epoch + 1, LastOfEachKey(op.attrs))),
              st.temps)
<1>1. PICK w : w = st.world
  OBVIOUS
<1>2. IsWorld(w) /\ st.thrown = FALSE
  BY <1>1 DEF StateOK
<1>3. /\ from = Resolve(w.objects, st.temps, op.from)
      /\ to = Resolve(w.objects, st.temps, op.to)
  BY <1>1
<1>4. from # NoId /\ to # NoId /\ op.relation \in DOMAIN w.relations
  BY <1>1, <1>3, Throws DEF WorldLink, StateOK
<1>5. /\ from \in DOMAIN w.objects /\ to \in DOMAIN w.objects
      /\ op.from.tag = "id" => from = op.from.n
  BY <1>1, <1>3, <1>4, ResolvesInside
<1>6. PICK p : p = NewPointer(op, from, to, w.epoch + 1, LastOfEachKey(op.attrs))
  OBVIOUS
<1>7. w.epoch \in Nat
  BY <1>2 DEF IsWorld
<1>8. IsPointer(p, w) /\ Fresh(p, op, w.epoch + 1)
  BY <1>4, <1>5, <1>6, <1>7 DEF NewPointer, IsPointer, Fresh, Never
<1>9. PICK ps : ps = Append(w.pointers, p)
  OBVIOUS
<1>10. /\ ps \in Seq(Range(ps)) /\ DOMAIN ps = DOMAIN w.pointers \cup {Len(w.pointers) + 1}
       /\ Len(w.pointers) + 1 \notin DOMAIN w.pointers
       /\ ps[Len(w.pointers) + 1] = p /\ \A n \in DOMAIN w.pointers : ps[n] = w.pointers[n]
  <2>1. PICK s : s = w.pointers
    OBVIOUS
  <2>2. s \in Seq(Range(s))
    BY <1>2, <2>1 DEF IsWorld
  <2>3. ps = Append(s, p)
    BY <1>9, <2>1
  <2>4. OneMore(s, p, ps)
    BY <2>2, <2>3, Appended
  <2> QED BY <2>1, <2>4 DEF OneMore
<1>11. \A n \in DOMAIN ps : IsPointer(ps[n], w)
  BY <1>2, <1>8, <1>10 DEF IsWorld
<1>12. PICK v : v = [w EXCEPT !.pointers = ps]
  OBVIOUS
<1>13. /\ IsWorld(v) /\ v.epoch = w.epoch /\ v.pointers = ps /\ v.relations = w.relations
       /\ v.objects = w.objects /\ v.types = w.types
  BY <1>2, <1>10, <1>11, <1>12, WorldWithPointers
<1>14. PICK r : r = [st EXCEPT !.world.pointers =
                       Append(@, NewPointer(op, from, to, w.epoch + 1, LastOfEachKey(op.attrs)))]
  OBVIOUS
<1>15. r = [world |-> v, temps |-> st.temps, events |-> st.events, thrown |-> FALSE]
  <2>1. r = [st EXCEPT !.world = v]
    BY <1>1, <1>6, <1>9, <1>12, <1>14 DEF StateOK, IsWorld, SnapshotOf
  <2> QED BY <2>1 DEF StateOK
<1>16. PICK event : u = Emit(r, event)
  BY <1>1, <1>3, <1>4, <1>14 DEF WorldLink
<1>17. /\ u = [world |-> u.world, temps |-> u.temps, events |-> u.events, thrown |-> u.thrown]
       /\ u.world = v /\ u.temps = st.temps /\ u.thrown = FALSE
  <2>1. /\ r = [world |-> r.world, temps |-> r.temps, events |-> r.events, thrown |-> r.thrown]
        /\ r.world = v /\ r.temps = st.temps /\ r.thrown = FALSE
    BY <1>15
  <2>2. Emit(r, event) = [world |-> r.world, temps |-> r.temps,
                          events |-> Append(r.events, event), thrown |-> r.thrown]
    BY <2>1, Emits
  <2> QED BY <1>16, <2>1, <2>2
<1>18. StateOK(u)
  BY <1>1, <1>13, <1>17 DEF StateOK
<1>19. PointersStep(w, v, op)
  <2>1. \A n \in DOMAIN w.pointers : Kept(w.pointers[n], v.pointers[n], w.epoch + 1, FALSE)
    BY <1>10, <1>13 DEF Kept
  <2>2. \A n \in DOMAIN v.pointers \ DOMAIN w.pointers : n = Len(w.pointers) + 1 /\ v.pointers[n] = p
    BY <1>10, <1>13
  <2> QED BY <1>4, <1>8, <1>10, <1>13, <2>1, <2>2 DEF PointersStep, Kept
<1>20. WorldBecomes(st, u, w.types, w.relations, w.objects, ps, st.temps)
  BY <1>1, <1>13, <1>17 DEF WorldBecomes
<1> QED BY <1>1, <1>6, <1>9, <1>13, <1>17, <1>18, <1>19, <1>20, GrowsItself DEF OperationStep

(* A world with more symbols, its objects and pointers left alone.         *)
LEMMA WorldWithSymbols ==
  ASSUME NEW w, IsWorld(w), NEW ts, IsRegistry(ts), Grows(w.types, ts),
         NEW rs, IsRegistry(rs), Grows(w.relations, rs),
         NEW v, v = [epoch |-> w.epoch, types |-> ts, relations |-> rs,
                     objects |-> w.objects, pointers |-> w.pointers]
  PROVE  IsWorld(v)
<1>1. ASSUME NEW n \in DOMAIN v.objects PROVE IsObject(v.objects[n], v)
  <2>1. PICK o : o = v.objects[n]
    OBVIOUS
  <2>2. IsObject(o, w)
    BY <2>1 DEF IsWorld
  <2>3. DOMAIN w.types \subseteq DOMAIN v.types
    BY DEF Grows
  <2>4. IsObject(o, v)
    BY <2>2, <2>3, ObjectStays
  <2> QED BY <2>1, <2>4
<1>2. ASSUME NEW n \in DOMAIN v.pointers PROVE IsPointer(v.pointers[n], v)
  <2>1. PICK p : p = v.pointers[n]
    OBVIOUS
  <2>2. IsPointer(p, w)
    BY <2>1 DEF IsWorld
  <2>3. DOMAIN w.objects \subseteq DOMAIN v.objects /\ DOMAIN w.relations \subseteq DOMAIN v.relations
    BY DEF Grows
  <2>4. IsPointer(p, v)
    BY <2>2, <2>3, PointerStays
  <2> QED BY <2>1, <2>4
<1>3. /\ v = SnapshotOf(v) /\ v.epoch \in Nat /\ v.types = ts /\ v.relations = rs
      /\ v.objects = w.objects /\ v.pointers = w.pointers
      /\ v.objects \in Seq(Range(v.objects)) /\ v.pointers \in Seq(Range(v.pointers))
  BY DEF IsWorld, SnapshotOf
<1> QED BY <1>1, <1>2, <1>3 DEF IsWorld

(* The table a name is interned in: as it was, or one name more.           *)
InternedIn(slots, op, more) ==
  /\ IsRegistry(more) /\ Grows(slots, more)
  /\ op.id # NoId => op.id \in DOMAIN more /\ more[op.id] = op.name

LEMMA Interns ==
  ASSUME NEW st, StateOK(st), NEW op, OpOK(op), NEW table,
         op.kind \in {"InternType", "InternRelation"}, IsRegistry(st.world[table]),
         NEW u, u = RegistryIntern(st, table, op), ~u.thrown
  PROVE  \E more : /\ InternedIn(st.world[table], op, more)
                   /\ \/ u = st /\ more = st.world[table]
                      \/ u = [st EXCEPT !.world[table] = more]
<1>1. PICK slots : slots = st.world[table]
  OBVIOUS
<1>2. PICK at : at = {n \in DOMAIN slots : slots[n] = op.name}
  OBVIOUS
<1>3. PICK id : id = IF op.id # NoId THEN op.id ELSE Len(slots) + 1
  OBVIOUS
<1>4. Throw(st).thrown
  BY Throws DEF StateOK
<1>5. ~(op.name = Unnamed \/ (at # {} /\ op.id # NoId /\ at # {op.id}))
  BY <1>1, <1>2, <1>3, <1>4 DEF RegistryIntern
<1>6. CASE at # {}
  <2>1. u = st
    BY <1>1, <1>2, <1>3, <1>5, <1>6 DEF RegistryIntern
  <2>2. op.id # NoId => op.id \in DOMAIN slots /\ slots[op.id] = op.name
    BY <1>2, <1>5, <1>6
  <2>3. InternedIn(slots, op, slots)
    BY <1>1, <2>2, GrowsItself DEF InternedIn
  <2> QED BY <1>1, <2>1, <2>3
<1>7. CASE at = {}
  <2>1. ~(id \in DOMAIN slots /\ slots[id] # Unnamed)
    BY <1>1, <1>2, <1>3, <1>4, <1>5, <1>7 DEF RegistryIntern
  <2>2. PICK more : more = Named(slots, id, op.name)
    OBVIOUS
  <2>3. u = [st EXCEPT !.world[table] = more]
    BY <1>1, <1>2, <1>3, <1>5, <1>7, <2>1, <2>2 DEF RegistryIntern, Named
  <2>4. id \in Nat /\ id # 0
    <3>1. op.id \in Nat /\ Len(slots) \in Nat
      BY <1>1, SequenceShape DEF OpOK, IsRegistry
    <3> QED BY <1>3, <3>1 DEF NoId
  <2>5. IsRegistry(more) /\ Grows(slots, more) /\ id \in DOMAIN more /\ more[id] = op.name
    <3>1. \A n \in DOMAIN slots : slots[n] # op.name
      BY <1>2, <1>7
    <3>2. op.name # Unnamed /\ IsRegistry(slots)
      BY <1>1, <1>5
    <3>3. Vacant(slots, id, op.name)
      BY <2>1, <2>4, <3>1 DEF Vacant
    <3> QED BY <2>2, <3>2, <3>3, InternGrows
  <2>6. InternedIn(slots, op, more)
    BY <1>3, <2>5 DEF InternedIn
  <2> QED BY <1>1, <2>3, <2>6
<1> QED BY <1>6, <1>7

LEMMA InternStep ==
  ASSUME NEW st, StateOK(st), NEW op, OpOK(op), op.kind \in {"InternType", "InternRelation"},
         NEW u, u = RegistryIntern(st, IF op.kind = "InternType" THEN "types" ELSE "relations", op),
         ~u.thrown
  PROVE  StateOK(u) /\ OperationStep(st.world, u.world, op)
<1>1. PICK w : w = st.world
  OBVIOUS
<1>2. IsWorld(w) /\ st.thrown = FALSE
  BY <1>1 DEF StateOK
<1>3. /\ IsRegistry(w.types) /\ IsRegistry(w.relations)
      /\ Grows(w.types, w.types) /\ Grows(w.relations, w.relations)
  BY <1>2, GrowsItself DEF IsWorld
<1>4. w = [epoch |-> w.epoch, types |-> w.types, relations |-> w.relations,
           objects |-> w.objects, pointers |-> w.pointers]
  BY <1>2 DEF IsWorld, SnapshotOf
<1>5. \E ts, rs :
        /\ IsRegistry(ts) /\ Grows(w.types, ts) /\ IsRegistry(rs) /\ Grows(w.relations, rs)
        /\ (op.kind = "InternRelation" /\ op.id # NoId) =>
             op.id \in DOMAIN rs /\ rs[op.id] = op.name
        /\ u = [world |-> [epoch |-> w.epoch, types |-> ts, relations |-> rs,
                           objects |-> w.objects, pointers |-> w.pointers],
                temps |-> st.temps, events |-> st.events, thrown |-> FALSE]
  <2>1. CASE op.kind = "InternType"
    <3>1. PICK more : /\ InternedIn(w.types, op, more)
                      /\ \/ u = st /\ more = w.types
                         \/ u = [st EXCEPT !.world["types"] = more]
      <4>1. IsRegistry(st.world["types"]) /\ u = RegistryIntern(st, "types", op)
        BY <1>1, <1>3, <2>1
      <4> QED BY <1>1, <4>1, Interns
    <3>2. u = [world |-> [epoch |-> w.epoch, types |-> more, relations |-> w.relations,
                          objects |-> w.objects, pointers |-> w.pointers],
               temps |-> st.temps, events |-> st.events, thrown |-> FALSE]
      <4>1. PICK v : v = [w EXCEPT !["types"] = more]
        OBVIOUS
      <4>2. v = [epoch |-> w.epoch, types |-> more, relations |-> w.relations,
                 objects |-> w.objects, pointers |-> w.pointers]
        BY <1>4, <4>1
      <4>3. st = [world |-> w, temps |-> st.temps, events |-> st.events, thrown |-> FALSE]
        BY <1>1, <1>2 DEF StateOK
      <4>4. CASE u = st /\ more = w.types
        BY <1>4, <4>3, <4>4
      <4>5. CASE u = [st EXCEPT !.world["types"] = more]
        <5>1. u = [st EXCEPT !.world = v]
          BY <1>1, <4>1, <4>5
        <5>2. PICK ids, told : ids = st.temps /\ told = st.events
          OBVIOUS
        <5>3. st = [world |-> w, temps |-> ids, events |-> told, thrown |-> FALSE]
          BY <4>3, <5>2
        <5>4. u = [world |-> v, temps |-> ids, events |-> told, thrown |-> FALSE]
          BY <5>1, <5>3
        <5> QED BY <4>2, <5>2, <5>4
      <4> QED BY <3>1, <4>4, <4>5
    <3> QED BY <1>3, <2>1, <3>1, <3>2 DEF InternedIn
  <2>2. CASE op.kind = "InternRelation"
    <3>1. PICK more : /\ InternedIn(w.relations, op, more)
                      /\ \/ u = st /\ more = w.relations
                         \/ u = [st EXCEPT !.world["relations"] = more]
      <4>1. IsRegistry(st.world["relations"]) /\ u = RegistryIntern(st, "relations", op)
        BY <1>1, <1>3, <2>2
      <4> QED BY <1>1, <4>1, Interns
    <3>2. u = [world |-> [epoch |-> w.epoch, types |-> w.types, relations |-> more,
                          objects |-> w.objects, pointers |-> w.pointers],
               temps |-> st.temps, events |-> st.events, thrown |-> FALSE]
      <4>1. PICK v : v = [w EXCEPT !["relations"] = more]
        OBVIOUS
      <4>2. v = [epoch |-> w.epoch, types |-> w.types, relations |-> more,
                 objects |-> w.objects, pointers |-> w.pointers]
        BY <1>4, <4>1
      <4>3. st = [world |-> w, temps |-> st.temps, events |-> st.events, thrown |-> FALSE]
        BY <1>1, <1>2 DEF StateOK
      <4>4. CASE u = st /\ more = w.relations
        BY <1>4, <4>3, <4>4
      <4>5. CASE u = [st EXCEPT !.world["relations"] = more]
        <5>1. u = [st EXCEPT !.world = v]
          BY <1>1, <4>1, <4>5
        <5>2. PICK ids, told : ids = st.temps /\ told = st.events
          OBVIOUS
        <5>3. st = [world |-> w, temps |-> ids, events |-> told, thrown |-> FALSE]
          BY <4>3, <5>2
        <5>4. u = [world |-> v, temps |-> ids, events |-> told, thrown |-> FALSE]
          BY <5>1, <5>3
        <5> QED BY <4>2, <5>2, <5>4
      <4> QED BY <3>1, <4>4, <4>5
    <3> QED BY <1>3, <3>1, <3>2 DEF InternedIn
  <2> QED BY <2>1, <2>2
<1>6. PICK ts, rs :
        /\ IsRegistry(ts) /\ Grows(w.types, ts) /\ IsRegistry(rs) /\ Grows(w.relations, rs)
        /\ (op.kind = "InternRelation" /\ op.id # NoId) =>
             op.id \in DOMAIN rs /\ rs[op.id] = op.name
        /\ u = [world |-> [epoch |-> w.epoch, types |-> ts, relations |-> rs,
                           objects |-> w.objects, pointers |-> w.pointers],
                temps |-> st.temps, events |-> st.events, thrown |-> FALSE]
  BY <1>5
<1>7. PICK v : v = [epoch |-> w.epoch, types |-> ts, relations |-> rs,
                    objects |-> w.objects, pointers |-> w.pointers]
  OBVIOUS
<1>8. IsWorld(v)
  BY <1>2, <1>6, <1>7, WorldWithSymbols
<1>9. /\ u = [world |-> u.world, temps |-> u.temps, events |-> u.events, thrown |-> u.thrown]
      /\ u.world = v /\ u.temps = st.temps /\ u.thrown = FALSE
  BY <1>6, <1>7
<1>10. StateOK(u)
  BY <1>1, <1>7, <1>8, <1>9 DEF StateOK
<1>11. v.pointers = w.pointers /\ v.relations = rs /\ v.epoch = w.epoch
  BY <1>7
<1> QED BY <1>1, <1>6, <1>9, <1>10, <1>11, PointersStand DEF OperationStep

(* One operation of a delta: an exception stays one; without one, the      *)
(* world stays a world, and nothing is changed but what the operation names. *)
LEMMA OneOperation ==
  ASSUME NEW st, NEW op, OpOK(op), NEW u, u = WorldStep(st, op), ~u.thrown,
         ~st.thrown => StateOK(st)
  PROVE  StateOK(st) /\ StateOK(u) /\ OperationStep(st.world, u.world, op)
<1>1. ~st.thrown
  BY DEF WorldStep
<1>2. StateOK(st)
  BY <1>1
<1>3. CASE op.kind \in {"InternType", "InternRelation"}
  <2>1. u = RegistryIntern(st, IF op.kind = "InternType" THEN "types" ELSE "relations", op)
    <3>1. CASE op.kind = "InternType"
      BY <1>1, <3>1 DEF WorldStep, ObjectOps, PointerOps
    <3>2. CASE op.kind = "InternRelation"
      BY <1>1, <3>2 DEF WorldStep, ObjectOps, PointerOps
    <3> QED BY <1>3, <3>1, <3>2
  <2> QED BY <1>2, <1>3, <2>1, InternStep
<1>4. CASE op.kind = "CreateObject"
  <2>1. u = WorldCreate(st, op)
    BY <1>1, <1>4 DEF WorldStep, ObjectOps, PointerOps
  <2> QED BY <1>2, <1>4, <2>1, CreateStep
<1>5. CASE op.kind = "CreatePointer"
  <2>1. u = WorldLink(st, op)
    BY <1>1, <1>5 DEF WorldStep, ObjectOps, PointerOps
  <2> QED BY <1>2, <1>5, <2>1, LinkStep
<1>6. CASE op.kind \in ObjectOps
  <2>1. u = WorldObject(st, op)
    BY <1>1, <1>6 DEF WorldStep, ObjectOps, PointerOps
  <2> QED BY <1>2, <1>6, <2>1, ObjectStep
<1>7. CASE op.kind \in PointerOps
  <2>1. u = WorldPointer(st, op)
    BY <1>1, <1>7 DEF WorldStep, ObjectOps, PointerOps
  <2> QED BY <1>2, <1>7, <2>1, PointerStep
<1>8. CASE op.kind \in {"EmitEvent", "AssertFact"}
  <2>1. /\ u = [world |-> u.world, temps |-> u.temps, events |-> u.events, thrown |-> u.thrown]
        /\ u.world = st.world /\ u.temps = st.temps /\ u.thrown = FALSE
    <3>1. CASE op.kind = "EmitEvent"
      <4>1. u = Emit(st, [event |-> op.event])
        BY <1>1, <3>1 DEF WorldStep, ObjectOps, PointerOps
      <4> QED BY <1>2, <4>1, Emits DEF StateOK
    <3>2. CASE op.kind = "AssertFact"
      <4>1. u = IF op.fact \in Facts(SnapshotOf(st.world)) THEN st ELSE Throw(st)
        BY <1>1, <3>2 DEF WorldStep, ObjectOps, PointerOps
      <4>2. Throw(st).thrown
        BY <1>2, Throws DEF StateOK
      <4>3. u = st
        BY <4>1, <4>2
      <4> QED BY <1>2, <4>3 DEF StateOK
    <3> QED BY <1>8, <3>1, <3>2
  <2> QED BY <1>2, <1>8, <2>1, GrowsItself, PointersStand DEF StateOK, OperationStep
<1> QED BY <1>3, <1>4, <1>5, <1>6, <1>7, <1>8 DEF OpOK

-----------------------------------------------------------------------------
(* A delta, operation by operation.                                        *)

Start(w) == [world |-> w, temps |-> << >>, events |-> << >>, thrown |-> FALSE]

IsRun(f, w, delta, n) ==
  f = [i \in 0..n |-> IF i = 0 THEN Start(w) ELSE WorldStep(f[i - 1], delta[i])]

LEMMA RunsExist ==
  ASSUME NEW w, NEW delta, NEW n \in Nat
  PROVE  \E f : IsRun(f, w, delta, n)
<1> DEFINE T == {m \in Nat : \E f : IsRun(f, w, delta, m)}
<1>1. 0 \in T
  <2> DEFINE f == [i \in 0..0 |-> Start(w)]
  <2>1. IsRun(f, w, delta, 0)
    BY DEF IsRun
  <2> QED BY <2>1
<1>2. ASSUME NEW m \in Nat, m \in T
      PROVE  m + 1 \in T
  <2>1. PICK f : IsRun(f, w, delta, m)
    BY <1>2
  <2> DEFINE g == [i \in 0..(m + 1) |-> IF i = 0 THEN Start(w) ELSE IF i <= m THEN f[i]
                                        ELSE WorldStep(f[m], delta[m + 1])]
  <2>2. \A i \in 0..m : g[i] = f[i]
    BY <2>1 DEF IsRun
  <2>3. \A i \in 0..(m + 1) : i # 0 => i - 1 \in 0..m /\ g[i] = WorldStep(f[i - 1], delta[i])
    <3> SUFFICES ASSUME NEW i \in 0..(m + 1), i # 0
                 PROVE  i - 1 \in 0..m /\ g[i] = WorldStep(f[i - 1], delta[i])
      OBVIOUS
    <3>1. CASE i <= m
      BY <2>1, <3>1 DEF IsRun
    <3>2. CASE i = m + 1
      BY <3>2
    <3> QED BY <3>1, <3>2
  <2>4. \A i \in 0..(m + 1) : g[i] = IF i = 0 THEN Start(w) ELSE WorldStep(g[i - 1], delta[i])
    BY <2>2, <2>3
  <2>5. g = [i \in 0..(m + 1) |-> g[i]]
    OBVIOUS
  <2> HIDE DEF g
  <2>6. IsRun(g, w, delta, m + 1)
    BY <2>4, <2>5 DEF IsRun
  <2> QED BY <2>6
<1>3. Nat \subseteq T
  <2> HIDE DEF T
  <2> QED BY <1>1, <1>2, ByInduction
<1> QED BY <1>3

LEMMA DeltaIsRun ==
  ASSUME NEW w, NEW delta, Len(delta) \in Nat
  PROVE  \E f : /\ IsRun(f, w, delta, Len(delta))
                /\ ApplyDelta(w, delta)
                     = IF f[Len(delta)].thrown THEN f[Len(delta)]
                       ELSE [f[Len(delta)] EXCEPT !.world.epoch = @ + 1]
<1> DEFINE after == CHOOSE f : f = [n \in 0..Len(delta) |->
                      IF n = 0
                      THEN [world |-> w, temps |-> << >>, events |-> << >>, thrown |-> FALSE]
                      ELSE WorldStep(f[n - 1], delta[n])]
<1>1. after = [n \in 0..Len(delta) |->
                 IF n = 0
                 THEN [world |-> w, temps |-> << >>, events |-> << >>, thrown |-> FALSE]
                 ELSE WorldStep(after[n - 1], delta[n])]
  <2>1. \E f : f = [n \in 0..Len(delta) |->
                      IF n = 0
                      THEN [world |-> w, temps |-> << >>, events |-> << >>, thrown |-> FALSE]
                      ELSE WorldStep(f[n - 1], delta[n])]
    <3>1. PICK f : IsRun(f, w, delta, Len(delta))
      BY RunsExist
    <3> QED BY <3>1 DEF IsRun, Start
  <2> QED BY <2>1
<1>2. ApplyDelta(w, delta) = IF after[Len(delta)].thrown THEN after[Len(delta)]
                             ELSE [after[Len(delta)] EXCEPT !.world.epoch = @ + 1]
  BY DEF ApplyDelta
<1> QED BY <1>1, <1>2 DEF IsRun, Start

(* The start of a run, its steps, and an operation that threw: no later    *)
(* one undoes it.                                                          *)
LEMMA RunsStep ==
  ASSUME NEW w, NEW delta, NEW n \in Nat, NEW f, IsRun(f, w, delta, n)
  PROVE  /\ f[0] = Start(w)
         /\ \A i \in 0..n : i # 0 => f[i] = WorldStep(f[i - 1], delta[i])
BY DEF IsRun

LEMMA ThrownStays ==
  ASSUME NEW st, NEW op, ~WorldStep(st, op).thrown
  PROVE  ~st.thrown
BY DEF WorldStep

-----------------------------------------------------------------------------
(* What the first k operations of a delta have done.                       *)

Expires(d, k, n) == \E i \in 1..k : d[i].kind = "ExpirePointer" /\ d[i].id = n

Linked(q, op, epoch) ==
  /\ op.kind = "CreatePointer"
  /\ q.relation = op.relation /\ q.domain = op.domain /\ q.born = epoch
  /\ q.expires \in {Never, epoch} /\ (op.from.tag = "id" => q.from = op.from.n)

(* Pointers that are new in v, each linked by an operation of its own.     *)
NewlyLinked(w, v, d, k, by) ==
  \A n \in DOMAIN v.pointers \ DOMAIN w.pointers :
    /\ by[n] \in 1..k /\ Linked(v.pointers[n], d[by[n]], w.epoch + 1)
    /\ \A m \in DOMAIN v.pointers \ DOMAIN w.pointers : by[m] = by[n] => m = n

NamesInterned(v, d, k) ==
  \A i \in 1..k :
    (d[i].kind = "InternRelation" /\ d[i].id # NoId /\ d[i].name # Unnamed) =>
      d[i].id \in DOMAIN v.relations /\ v.relations[d[i].id] = d[i].name

OldKept(w, v, d, k) ==
  /\ DOMAIN w.pointers \subseteq DOMAIN v.pointers
  /\ \A n \in DOMAIN w.pointers :
       Kept(w.pointers[n], v.pointers[n], w.epoch + 1, Expires(d, k, n))

Came(w, v, d, k) ==
  /\ v.epoch = w.epoch /\ Grows(w.relations, v.relations)
  /\ OldKept(w, v, d, k) /\ NamesInterned(v, d, k)
  /\ \E by : NewlyLinked(w, v, d, k, by)

LEMMA ExpiresMore ==
  ASSUME NEW d, NEW k \in Nat, NEW n
  PROVE  Expires(d, k + 1, n) <=>
           Expires(d, k, n) \/ (d[k + 1].kind = "ExpirePointer" /\ d[k + 1].id = n)
<1>1. 1..(k + 1) = 1..k \cup {k + 1}
  OBVIOUS
<1> QED BY <1>1 DEF Expires

LEMMA CameFirst ==
  ASSUME NEW w, NEW d
  PROVE  Came(w, w, d, 0)
<1>1. 1..0 = {}
  OBVIOUS
<1>2. \A n : ~Expires(d, 0, n)
  BY <1>1 DEF Expires
<1>3. OldKept(w, w, d, 0)
  BY <1>2 DEF OldKept, Kept
<1>4. NamesInterned(w, d, 0) /\ NewlyLinked(w, w, d, 0, << >>)
  BY <1>1 DEF NamesInterned, NewlyLinked
<1> QED BY <1>3, <1>4, GrowsItself DEF Came

LEMMA GrowsOn ==
  ASSUME NEW a, NEW b, NEW c, Grows(a, b), Grows(b, c)
  PROVE  Grows(a, c)
BY DEF Grows

LEMMA CameOn ==
  ASSUME NEW w, NEW v, NEW d, NEW k \in Nat, Came(w, v, d, k),
         NEW u, OperationStep(v, u, d[k + 1])
  PROVE  Came(w, u, d, k + 1)
<1>1. PICK op : op = d[k + 1]
  OBVIOUS
<1>2. PICK e : e = w.epoch + 1
  OBVIOUS
<1>3. /\ v.epoch = w.epoch /\ u.epoch = w.epoch
      /\ Grows(w.relations, v.relations) /\ Grows(v.relations, u.relations)
      /\ PointersStep(v, u, op)
      /\ (op.kind = "InternRelation" /\ op.id # NoId) =>
           op.id \in DOMAIN u.relations /\ u.relations[op.id] = op.name
  BY <1>1 DEF Came, OperationStep
<1>4. Grows(w.relations, u.relations)
  BY <1>3, GrowsOn
<1>5. PICK by : NewlyLinked(w, v, d, k, by)
  BY DEF Came
<1>6. DOMAIN w.pointers \subseteq DOMAIN v.pointers /\ DOMAIN v.pointers \subseteq DOMAIN u.pointers
  BY <1>3 DEF Came, OldKept, PointersStep
<1>7. \A n \in DOMAIN v.pointers :
        Kept(v.pointers[n], u.pointers[n], e, op.kind = "ExpirePointer" /\ op.id = n)
  BY <1>2, <1>3 DEF PointersStep
<1>8. OldKept(w, u, d, k + 1)
  <2> SUFFICES ASSUME NEW n \in DOMAIN w.pointers
               PROVE  Kept(w.pointers[n], u.pointers[n], e, Expires(d, k + 1, n))
    BY <1>2, <1>6 DEF OldKept
  <2>1. PICK p, q, r : p = w.pointers[n] /\ q = v.pointers[n] /\ r = u.pointers[n]
    OBVIOUS
  <2>2. Kept(p, q, e, Expires(d, k, n))
    BY <1>2, <2>1 DEF Came, OldKept
  <2>3. Kept(q, r, e, op.kind = "ExpirePointer" /\ op.id = n)
    BY <1>6, <1>7, <2>1
  <2>4. Expires(d, k + 1, n) <=>
          Expires(d, k, n) \/ (op.kind = "ExpirePointer" /\ op.id = n)
    BY <1>1, ExpiresMore
  <2>5. Kept(p, r, e, Expires(d, k + 1, n))
    BY <2>2, <2>3, <2>4 DEF Kept
  <2> QED BY <2>1, <2>5
<1>9. NamesInterned(u, d, k + 1)
  <2> SUFFICES ASSUME NEW i \in 1..(k + 1), d[i].kind = "InternRelation",
                      d[i].id # NoId, d[i].name # Unnamed
               PROVE  d[i].id \in DOMAIN u.relations /\ u.relations[d[i].id] = d[i].name
    BY DEF NamesInterned
  <2>1. CASE i = k + 1
    BY <1>1, <1>3, <2>1
  <2>2. CASE i # k + 1
    <3>1. i \in 1..k
      BY <2>2
    <3>2. d[i].id \in DOMAIN v.relations /\ v.relations[d[i].id] = d[i].name
      BY <3>1 DEF Came, NamesInterned
    <3> QED BY <1>3, <3>2 DEF Grows
  <2> QED BY <2>1, <2>2
<1>10. NewlyLinked(w, u, d, k + 1, [n \in DOMAIN u.pointers |->
                                     IF n \in DOMAIN v.pointers THEN by[n] ELSE k + 1])
  <2> DEFINE by2 == [n \in DOMAIN u.pointers |-> IF n \in DOMAIN v.pointers THEN by[n] ELSE k + 1]
  <2>1. \A n \in DOMAIN v.pointers : by2[n] = by[n]
    BY <1>6
  <2>2. \A n \in DOMAIN u.pointers \ DOMAIN v.pointers : by2[n] = k + 1
    OBVIOUS
  <2> HIDE DEF by2
  <2>3. ASSUME NEW n \in DOMAIN v.pointers \ DOMAIN w.pointers
        PROVE  by[n] \in 1..k /\ Linked(u.pointers[n], d[by[n]], e)
    <3>1. PICK q, r : q = v.pointers[n] /\ r = u.pointers[n]
      OBVIOUS
    <3>2. Linked(q, d[by[n]], e) /\ by[n] \in 1..k
      BY <1>2, <1>5, <3>1 DEF NewlyLinked
    <3>3. Kept(q, r, e, op.kind = "ExpirePointer" /\ op.id = n)
      BY <1>7, <3>1
    <3>4. Linked(r, d[by[n]], e)
      BY <3>2, <3>3 DEF Linked, Kept
    <3> QED BY <3>1, <3>2, <3>4
  <2>4. ASSUME NEW n \in DOMAIN u.pointers \ DOMAIN v.pointers
        PROVE  Linked(u.pointers[n], d[k + 1], e)
    BY <1>1, <1>2, <1>3 DEF PointersStep, Fresh, Linked
  <2>5. \A m, n \in DOMAIN u.pointers \ DOMAIN v.pointers : m = n
    BY <1>3 DEF PointersStep
  <2>6. \A m, n \in DOMAIN v.pointers \ DOMAIN w.pointers : by[m] = by[n] => m = n
    BY <1>5 DEF NewlyLinked
  <2>7. \A i \in 1..k : i \in 1..(k + 1) /\ i # k + 1
    OBVIOUS
  <2>8. k + 1 \in 1..(k + 1)
    OBVIOUS
  <2>9. ASSUME NEW n \in DOMAIN u.pointers \ DOMAIN w.pointers
        PROVE  by2[n] \in 1..(k + 1) /\ Linked(u.pointers[n], d[by2[n]], e)
    <3>1. CASE n \in DOMAIN v.pointers
      BY <2>1, <2>3, <2>7, <3>1
    <3>2. CASE n \notin DOMAIN v.pointers
      BY <2>2, <2>4, <2>8, <3>2
    <3> QED BY <3>1, <3>2
  <2>10. ASSUME NEW m \in DOMAIN u.pointers \ DOMAIN w.pointers,
                NEW n \in DOMAIN u.pointers \ DOMAIN w.pointers, by2[m] = by2[n]
         PROVE  m = n
    <3>1. CASE m \in DOMAIN v.pointers /\ n \in DOMAIN v.pointers
      BY <2>1, <2>6, <2>10, <3>1
    <3>2. CASE m \in DOMAIN v.pointers /\ n \notin DOMAIN v.pointers
      BY <2>1, <2>2, <2>3, <2>7, <2>10, <3>2
    <3>3. CASE m \notin DOMAIN v.pointers /\ n \in DOMAIN v.pointers
      BY <2>1, <2>2, <2>3, <2>7, <2>10, <3>3
    <3>4. CASE m \notin DOMAIN v.pointers /\ n \notin DOMAIN v.pointers
      BY <2>5, <3>4
    <3> QED BY <3>1, <3>2, <3>3, <3>4
  <2>11. NewlyLinked(w, u, d, k + 1, by2)
    BY <1>2, <2>9, <2>10 DEF NewlyLinked
  <2> QED BY <2>11 DEF by2
<1> QED BY <1>3, <1>4, <1>8, <1>9, <1>10 DEF Came

(* The whole of a delta: an exception is sticky, so that without one every *)
(* operation was done.                                                     *)
DeltaOK(d) == d \in Seq(Range(d)) /\ \A op \in Range(d) : OpOK(op)

LEMMA DeltaDone ==
  ASSUME NEW w, IsWorld(w), NEW d, DeltaOK(d), NEW st, st = ApplyDelta(w, d), ~st.thrown
  PROVE  \E v : /\ IsWorld(v) /\ Came(w, v, d, Len(d))
                /\ st.world = [v EXCEPT !.epoch = w.epoch + 1] /\ st.thrown = FALSE
<1>1. Len(d) \in Nat /\ DOMAIN d = 1..Len(d)
  BY SequenceShape DEF DeltaOK
<1>2. PICK len \in Nat : len = Len(d)
  BY <1>1
<1>3. PICK f : /\ IsRun(f, w, d, len)
               /\ st = IF f[len].thrown THEN f[len] ELSE [f[len] EXCEPT !.world.epoch = @ + 1]
  BY <1>1, <1>2, DeltaIsRun
<1>4. f[0] = Start(w) /\ \A i \in 0..len : i # 0 => f[i] = WorldStep(f[i - 1], d[i])
  BY <1>3, RunsStep
<1>5. \A i \in 1..len : OpOK(d[i])
  BY <1>1, <1>2 DEF DeltaOK, Range
<1> DEFINE T == {i \in Nat : i <= len => (~f[i].thrown => StateOK(f[i]) /\ Came(w, f[i].world, d, i))}
<1>6. 0 \in T
  <2>1. f[0] = [world |-> w, temps |-> << >>, events |-> << >>, thrown |-> FALSE]
    BY <1>4 DEF Start
  <2>2. StateOK(f[0]) /\ f[0].world = w
    BY <2>1 DEF StateOK
  <2> QED BY <2>2, CameFirst
<1>7. ASSUME NEW i \in Nat, i \in T
      PROVE  i + 1 \in T
  <2> SUFFICES ASSUME i + 1 <= len, ~f[i + 1].thrown
               PROVE  StateOK(f[i + 1]) /\ Came(w, f[i + 1].world, d, i + 1)
    OBVIOUS
  <2>1. PICK st1, u, op : st1 = f[i] /\ u = f[i + 1] /\ op = d[i + 1]
    OBVIOUS
  <2>2. u = WorldStep(st1, op) /\ OpOK(op)
    <3>1. i + 1 \in 0..len /\ i + 1 # 0 /\ i + 1 \in 1..len /\ (i + 1) - 1 = i
      OBVIOUS
    <3> QED BY <1>4, <1>5, <2>1, <3>1
  <2>3. ~st1.thrown
    BY <2>1, <2>2, ThrownStays
  <2>4. StateOK(st1) /\ Came(w, st1.world, d, i)
    BY <1>7, <2>1, <2>3
  <2>5. StateOK(u) /\ OperationStep(st1.world, u.world, op)
    BY <2>1, <2>2, <2>4, OneOperation
  <2>6. Came(w, u.world, d, i + 1)
    BY <2>1, <2>4, <2>5, CameOn
  <2> QED BY <2>1, <2>5, <2>6
<1>8. Nat \subseteq T
  <2> HIDE DEF T
  <2> QED BY <1>6, <1>7, ByInduction
<1>9. ~f[len].thrown
  BY <1>3
<1>10. PICK last : last = f[len] /\ StateOK(last) /\ Came(w, last.world, d, len)
  BY <1>8, <1>9
<1>11. st = [last EXCEPT !.world.epoch = last.world.epoch + 1]
  BY <1>3, <1>9, <1>10
<1>12. PICK v : v = last.world
  OBVIOUS
<1>13. IsWorld(v) /\ v.epoch = w.epoch
  BY <1>10, <1>12 DEF StateOK, Came
<1>14. st = [last EXCEPT !.world = [v EXCEPT !.epoch = w.epoch + 1]]
  BY <1>11, <1>12, <1>13, <1>10 DEF StateOK, IsWorld, SnapshotOf
<1>15. st.world = [v EXCEPT !.epoch = w.epoch + 1] /\ st.thrown = FALSE
  BY <1>10, <1>14 DEF StateOK
<1> QED BY <1>2, <1>10, <1>12, <1>13, <1>15

-----------------------------------------------------------------------------
(* The delta of an evolution.                                              *)

Injective(s) == \A i, j \in DOMAIN s : s[i] = s[j] => i = j

(* No two places of a sequence hold the same operation of a kind.          *)
Once(s, kind) == \A i, j \in DOMAIN s : (s[i] = s[j] /\ s[i].kind = kind) => i = j

None(s, kind) == \A i \in DOMAIN s : s[i].kind # kind

IsPick(f, items, chosen, n) ==
  f = [i \in 0..n |-> IF i = 0 THEN << >>
                      ELSE IF i \in chosen THEN Append(f[i - 1], items[i]) ELSE f[i - 1]]

LEMMA PicksExist ==
  ASSUME NEW items, NEW chosen, NEW n \in Nat
  PROVE  \E f : IsPick(f, items, chosen, n)
<1> DEFINE T == {m \in Nat : \E f : IsPick(f, items, chosen, m)}
<1>1. 0 \in T
  <2> DEFINE f == [i \in 0..0 |-> << >>]
  <2>1. IsPick(f, items, chosen, 0)
    BY DEF IsPick
  <2> QED BY <2>1
<1>2. ASSUME NEW m \in Nat, m \in T
      PROVE  m + 1 \in T
  <2>1. PICK f : IsPick(f, items, chosen, m)
    BY <1>2
  <2>2. PICK x : x = IF m + 1 \in chosen THEN Append(f[m], items[m + 1]) ELSE f[m]
    OBVIOUS
  <2> DEFINE g == [i \in 0..(m + 1) |-> IF i = m + 1 THEN x ELSE f[i]]
  <2>3. \A i \in 0..m : g[i] = f[i]
    OBVIOUS
  <2>4. g[m + 1] = x
    OBVIOUS
  <2>5. g = [i \in 0..(m + 1) |-> g[i]]
    OBVIOUS
  <2> HIDE DEF g
  <2>6. ASSUME NEW i \in 0..(m + 1)
        PROVE  g[i] = IF i = 0 THEN << >>
                      ELSE IF i \in chosen THEN Append(g[i - 1], items[i]) ELSE g[i - 1]
    <3>1. CASE i = m + 1
      <4>1. i # 0 /\ i - 1 = m /\ m \in 0..m
        BY <3>1
      <4> QED BY <2>2, <2>3, <2>4, <3>1, <4>1
    <3>2. CASE i # m + 1
      <4>1. i \in 0..m /\ (i # 0 => i - 1 \in 0..m)
        BY <3>2
      <4>2. f[i] = IF i = 0 THEN << >>
                   ELSE IF i \in chosen THEN Append(f[i - 1], items[i]) ELSE f[i - 1]
        BY <2>1, <4>1 DEF IsPick
      <4> QED BY <2>3, <4>1, <4>2
    <3> QED BY <3>1, <3>2
  <2>7. IsPick(g, items, chosen, m + 1)
    BY <2>5, <2>6 DEF IsPick
  <2> QED BY <2>7
<1>3. Nat \subseteq T
  <2> HIDE DEF T
  <2> QED BY <1>1, <1>2, ByInduction
<1> QED BY <1>3

LEMMA PickedIsPick ==
  ASSUME NEW items, Len(items) \in Nat, NEW chosen
  PROVE  \E f : /\ IsPick(f, items, chosen, Len(items))
                /\ Picked(items, chosen) = f[Len(items)]
<1> DEFINE upTo == CHOOSE f : f = [n \in 0..Len(items) |->
                     IF n = 0 THEN << >>
                     ELSE IF n \in chosen THEN Append(f[n - 1], items[n]) ELSE f[n - 1]]
<1>1. upTo = [n \in 0..Len(items) |->
                IF n = 0 THEN << >>
                ELSE IF n \in chosen THEN Append(upTo[n - 1], items[n]) ELSE upTo[n - 1]]
  <2>1. \E f : f = [n \in 0..Len(items) |->
                     IF n = 0 THEN << >>
                     ELSE IF n \in chosen THEN Append(f[n - 1], items[n]) ELSE f[n - 1]]
    <3>1. PICK f : IsPick(f, items, chosen, Len(items))
      BY PicksExist
    <3> QED BY <3>1 DEF IsPick
  <2> QED BY <2>1
<1>2. Picked(items, chosen) = upTo[Len(items)]
  BY DEF Picked
<1> QED BY <1>1, <1>2 DEF IsPick

(* What has been picked of the first k items.                              *)
PickedSo(t, items, chosen, k) ==
  /\ t \in Seq(Range(t)) /\ Injective(t)
  /\ \A x : x \in Range(t) <=> \E n \in 1..k : n \in chosen /\ x = items[n]

LEMMA PickedMore ==
  ASSUME NEW items, Injective(items), NEW chosen, NEW k \in Nat, 1..(k + 1) \subseteq DOMAIN items,
         NEW t, PickedSo(t, items, chosen, k),
         NEW u, u = IF k + 1 \in chosen THEN Append(t, items[k + 1]) ELSE t
  PROVE  PickedSo(u, items, chosen, k + 1)
<1>0. 1..(k + 1) = 1..k \cup {k + 1} /\ k + 1 \notin 1..k
  OBVIOUS
<1>1. CASE k + 1 \notin chosen
  BY <1>0, <1>1 DEF PickedSo
<1>2. CASE k + 1 \in chosen
  <2>1. PICK x : x = items[k + 1]
    OBVIOUS
  <2>2. u = Append(t, x)
    BY <1>2, <2>1
  <2>3. OneMore(t, x, u)
    BY <2>2, Appended DEF PickedSo
  <2>4. x \notin Range(t)
    BY <1>0, <2>1 DEF PickedSo, Injective
  <2>5. Range(u) = Range(t) \cup {x}
    BY <2>3 DEF OneMore, Range
  <2>6. Injective(u)
    <3> SUFFICES ASSUME NEW i \in DOMAIN u, NEW j \in DOMAIN u, u[i] = u[j]
                 PROVE  i = j
      BY DEF Injective
    <3>1. PICK last : last = Len(t) + 1
      OBVIOUS
    <3>2. DOMAIN u = DOMAIN t \cup {last} /\ u[last] = x /\ \A m \in DOMAIN t : u[m] = t[m]
      BY <2>3, <3>1 DEF OneMore
    <3>3. \A m \in DOMAIN t : u[m] # x
      BY <2>4, <3>2 DEF Range
    <3>4. \A m, n \in DOMAIN t : t[m] = t[n] => m = n
      BY DEF PickedSo, Injective
    <3> QED BY <3>2, <3>3, <3>4
  <2>7. \A y : y \in Range(u) <=> \E n \in 1..(k + 1) : n \in chosen /\ y = items[n]
    BY <1>0, <1>2, <2>1, <2>5 DEF PickedSo
  <2> QED BY <2>3, <2>6, <2>7 DEF PickedSo, OneMore
<1> QED BY <1>1, <1>2

LEMMA Picks ==
  ASSUME NEW items, Injective(items), NEW len \in Nat, Len(items) = len, DOMAIN items = 1..len,
         NEW chosen
  PROVE  PickedSo(Picked(items, chosen), items, chosen, len)
<1>1. PICK f : IsPick(f, items, chosen, len) /\ Picked(items, chosen) = f[len]
  BY PickedIsPick
<1>2. /\ f[0] = << >>
      /\ \A i \in 0..len : i # 0 =>
           f[i] = IF i \in chosen THEN Append(f[i - 1], items[i]) ELSE f[i - 1]
  <2>1. ASSUME NEW i \in 0..len
        PROVE  f[i] = IF i = 0 THEN << >>
                      ELSE IF i \in chosen THEN Append(f[i - 1], items[i]) ELSE f[i - 1]
    BY <1>1 DEF IsPick
  <2>2. 0 \in 0..len
    OBVIOUS
  <2> QED BY <2>1, <2>2
<1> DEFINE T == {i \in Nat : i <= len => PickedSo(f[i], items, chosen, i)}
<1>3. 0 \in T
  <2>1. f[0] \in Seq(Range(f[0])) /\ DOMAIN f[0] = {} /\ 1..0 = {}
    BY <1>2
  <2>2. PickedSo(f[0], items, chosen, 0)
    BY <2>1 DEF PickedSo, Injective, Range
  <2> QED BY <2>2
<1>4. ASSUME NEW i \in Nat, i \in T
      PROVE  i + 1 \in T
  <2> SUFFICES ASSUME i + 1 <= len
               PROVE  PickedSo(f[i + 1], items, chosen, i + 1)
    OBVIOUS
  <2>1. i + 1 \in 0..len /\ i + 1 # 0 /\ (i + 1) - 1 = i /\ 1..(i + 1) \subseteq DOMAIN items
    OBVIOUS
  <2>2. PickedSo(f[i], items, chosen, i)
    BY <1>4
  <2>3. f[i + 1] = IF i + 1 \in chosen THEN Append(f[i], items[i + 1]) ELSE f[i]
    BY <1>2, <2>1
  <2> QED BY <2>1, <2>2, <2>3, PickedMore
<1>5. Nat \subseteq T
  <2> HIDE DEF T
  <2> QED BY <1>3, <1>4, ByInduction
<1> QED BY <1>1, <1>5

(* Two sequences one after the other.                                      *)
LEMMA Joins ==
  ASSUME NEW s, s \in Seq(Range(s)), NEW t, t \in Seq(Range(t)), NEW u, u = s \o t
  PROVE  /\ u \in Seq(Range(u)) /\ Range(u) = Range(s) \cup Range(t)
         /\ \A kind : (Once(s, kind) /\ Once(t, kind) /\ (None(s, kind) \/ None(t, kind)))
                        => Once(u, kind)
<1>1. PICK m \in Nat, n \in Nat : m = Len(s) /\ n = Len(t) /\ DOMAIN s = 1..m /\ DOMAIN t = 1..n
  BY SequenceShape
<1>2. PICK R : R = Range(s) \cup Range(t)
  OBVIOUS
<1>3. s \in Seq(R) /\ t \in Seq(R)
  <2>1. (\A i \in 1..m : s[i] \in R) /\ (\A i \in 1..n : t[i] \in R)
    BY <1>1, <1>2 DEF Range
  <2> QED BY <1>1, <2>1
<1>4. u \in Seq(R) /\ Len(u) = m + n /\ DOMAIN u = 1..(m + n)
  BY <1>1, <1>3
<1>5. /\ \A i \in 1..m : u[i] = s[i]
      /\ \A i \in 1..(m + n) : i \notin 1..m => u[i] = t[i - m]
  BY <1>1, <1>3
<1>6. u \in Seq(Range(u))
  BY <1>4, InItsRange
<1>7. \A i \in 1..(m + n) : i \notin 1..m => i - m \in 1..n
  OBVIOUS
<1>8. \A i \in 1..n : i + m \in 1..(m + n) /\ i + m \notin 1..m /\ (i + m) - m = i
  OBVIOUS
<1>9. Range(u) = Range(s) \cup Range(t)
  <2>1. Range(u) \subseteq Range(s) \cup Range(t)
    BY <1>1, <1>4, <1>5, <1>7 DEF Range
  <2>2. Range(s) \subseteq Range(u)
    <3>1. \A i \in 1..m : i \in 1..(m + n)
      OBVIOUS
    <3> QED BY <1>1, <1>4, <1>5, <3>1 DEF Range
  <2>3. Range(t) \subseteq Range(u)
    <3> SUFFICES ASSUME NEW i \in 1..n PROVE t[i] \in Range(u)
      BY <1>1 DEF Range
    <3>1. u[i + m] = t[i] /\ i + m \in DOMAIN u
      BY <1>4, <1>5, <1>8
    <3> QED BY <3>1 DEF Range
  <2> QED BY <2>1, <2>2, <2>3
<1>10. ASSUME NEW kind, Once(s, kind), Once(t, kind), None(s, kind) \/ None(t, kind)
       PROVE  Once(u, kind)
  <2> SUFFICES ASSUME NEW i \in 1..(m + n), NEW j \in 1..(m + n), u[i] = u[j], u[i].kind = kind
               PROVE  i = j
    BY <1>4 DEF Once
  <2>1. CASE i \in 1..m /\ j \in 1..m
    BY <1>1, <1>5, <1>10, <2>1 DEF Once
  <2>2. CASE i \notin 1..m /\ j \notin 1..m
    <3>1. PICK a, b : a = i - m /\ b = j - m
      OBVIOUS
    <3>2. a \in 1..n /\ b \in 1..n /\ t[a] = t[b] /\ t[a].kind = kind
      BY <1>5, <1>7, <2>2, <3>1
    <3>3. a = b
      BY <1>1, <1>10, <3>2 DEF Once
    <3> QED BY <3>1, <3>3
  <2>3. CASE i \in 1..m /\ j \notin 1..m
    <3>1. s[i].kind = kind /\ j - m \in 1..n /\ t[j - m].kind = kind
      BY <1>5, <1>7, <2>3
    <3> QED BY <1>1, <1>10, <2>3, <3>1 DEF None
  <2>4. CASE i \notin 1..m /\ j \in 1..m
    <3>1. s[j].kind = kind /\ i - m \in 1..n /\ t[i - m].kind = kind
      BY <1>5, <1>7, <2>4
    <3> QED BY <1>1, <1>10, <2>4, <3>1 DEF None
  <2> QED BY <2>1, <2>2, <2>3, <2>4
<1> QED BY <1>6, <1>9, <1>10

(* The operations an evolution of s may ask for.                           *)
InternOp(r) == [kind |-> "InternRelation", name |-> "evolves_to", id |-> r]
ExpireOp(n) == [kind |-> "ExpirePointer", id |-> n]
LoopOp(n, r) ==
  [kind |-> "CreatePointer", from |-> IdRef(n), to |-> IdRef(n), relation |-> r,
   weight |-> WeightOne, domain |-> "evolution", attrs |-> << >>]

Stale(s, r) ==
  {n \in DOMAIN s.pointers : /\ s.pointers[n].relation = r
                             /\ s.pointers[n].domain = "evolution"
                             /\ ActiveAt(s.pointers[n], s.epoch)}

(* A relation to evolve along: the known one, or the next, to be interned. *)
Along(s, d, r) ==
  \/ r \in DOMAIN s.relations /\ s.relations[r] = "evolves_to"
  \/ r # NoId /\ RelationNamed(s, "evolves_to") = {} /\ InternOp(r) \in Range(d)

Evolves(s, d, r) ==
  /\ d \in Seq(Range(d)) /\ Along(s, d, r)
  /\ \A op \in Range(d) :
       \/ op = InternOp(r) /\ r \in Nat
       \/ \E n \in Stale(s, r) : op = ExpireOp(n)
       \/ \E n \in Nat : op = LoopOp(n, r)
       \/ op.kind = "EmitEvent"
  /\ \A n \in Stale(s, r) : ExpireOp(n) \in Range(d)
  /\ Once(d, "CreatePointer")

LEMMA NextSymbolIsNumber ==
  ASSUME NEW symbols, symbols \in Seq(Range(symbols))
  PROVE  NextSymbol(symbols) \in Nat \ {0}
<1>1. Len(symbols) \in Nat /\ DOMAIN symbols = 1..Len(symbols)
  BY SequenceShape
<1>2. \E n \in {0} \cup DOMAIN symbols : \A m \in DOMAIN symbols : m <= n
  <2>1. CASE Len(symbols) = 0
    BY <1>1, <2>1
  <2>2. CASE Len(symbols) # 0
    BY <1>1, <2>2
  <2> QED BY <2>1, <2>2
<1>3. PICK k : k = CHOOSE n \in {0} \cup DOMAIN symbols : \A m \in DOMAIN symbols : m <= n
  OBVIOUS
<1>4. k \in {0} \cup DOMAIN symbols
  BY <1>2, <1>3
<1> QED BY <1>1, <1>3, <1>4 DEF NextSymbol

LEMMA EvolutionEvolves ==
  ASSUME NEW s, IsWorld(s)
  PROVE  \E r : Evolves(s, EvolutionDelta(s), r)
<1>1. PICK known : known = RelationNamed(s, "evolves_to")
  OBVIOUS
<1>2. PICK r : r = IF known # {} THEN CHOOSE n \in known : TRUE ELSE NextSymbol(s.relations)
  OBVIOUS
<1>3. r \in Nat /\ r # 0 /\ (known # {} => r \in DOMAIN s.relations /\ s.relations[r] = "evolves_to")
  <2>1. /\ s.relations \in Seq(Range(s.relations)) /\ Len(s.relations) \in Nat
        /\ DOMAIN s.relations = 1..Len(s.relations)
    BY SequenceShape DEF IsWorld, IsRegistry
  <2>2. CASE known # {}
    <3>1. r \in known
      BY <1>2, <2>2
    <3> QED BY <1>1, <2>1, <3>1 DEF RelationNamed
  <2>3. CASE known = {}
    BY <1>2, <2>1, <2>3, NextSymbolIsNumber
  <2> QED BY <2>2, <2>3
<1>4. PICK intern : intern = IF known # {} THEN << >> ELSE <<InternOp(r)>>
  OBVIOUS
<1>5. PICK lp \in Nat, lo \in Nat : /\ lp = Len(s.pointers) /\ DOMAIN s.pointers = 1..lp
                                    /\ lo = Len(s.objects) /\ DOMAIN s.objects = 1..lo
  BY SequenceShape DEF IsWorld
<1>6. PICK expire : expire = [n \in 1..lp |-> ExpireOp(n)]
  OBVIOUS
<1>7. PICK loop : loop = [n \in 1..lo |-> LoopOp(n, r)]
  OBVIOUS
<1>8. PICK evolving : evolving = {n \in DOMAIN s.objects : Evolving(s.objects[n])}
  OBVIOUS
<1>9. PICK notes : notes = <<[kind |-> "EmitEvent", event |-> "world.evolve"],
                             [kind |-> "EmitEvent", event |-> "evolution.step"]>>
  OBVIOUS
<1>10. PICK a, b : a = Picked(expire, Stale(s, r)) /\ b = Picked(loop, evolving)
  OBVIOUS
<1>11. EvolutionDelta(s) = ((intern \o a) \o b) \o notes
  BY <1>1, <1>2, <1>4, <1>5, <1>6, <1>7, <1>8, <1>9, <1>10
     DEF EvolutionDelta, InternOp, ExpireOp, LoopOp, Stale
<1>12. PickedSo(a, expire, Stale(s, r), lp)
  <2>1. Injective(expire) /\ DOMAIN expire = 1..lp
    BY <1>6 DEF Injective, ExpireOp
  <2>2. Len(expire) = lp
    BY <1>6
  <2> QED BY <1>10, <2>1, <2>2, Picks
<1>13. PickedSo(b, loop, evolving, lo)
  <2>1. Injective(loop) /\ DOMAIN loop = 1..lo
    BY <1>7 DEF Injective, LoopOp, IdRef
  <2>2. Len(loop) = lo
    BY <1>7
  <2> QED BY <1>10, <2>1, <2>2, Picks
<1>14. /\ intern \in Seq(Range(intern)) /\ Range(intern) = IF known # {} THEN {} ELSE {InternOp(r)}
       /\ None(intern, "CreatePointer")
  <2>1. CASE known # {}
    BY <1>4, <2>1 DEF Range, None
  <2>2. CASE known = {}
    BY <1>4, <2>2 DEF Range, None, InternOp
  <2> QED BY <2>1, <2>2
<1>15. /\ notes \in Seq(Range(notes)) /\ \A op \in Range(notes) : op.kind = "EmitEvent"
  <2>1. Len(notes) = 2 /\ DOMAIN notes = 1..2 /\ notes = [i \in 1..2 |-> notes[i]]
    BY <1>9
  <2>2. notes \in Seq(Range(notes))
    BY <2>1, SegmentIsSequence
  <2> QED BY <1>9, <2>1, <2>2 DEF Range
<1>16. \A op : op \in Range(a) <=> \E n \in Stale(s, r) : op = ExpireOp(n)
  BY <1>5, <1>6, <1>12 DEF PickedSo, Stale
<1>17. \A op \in Range(b) : \E n \in Nat : op = LoopOp(n, r)
  BY <1>7, <1>13 DEF PickedSo
<1>18. /\ a \in Seq(Range(a)) /\ None(a, "CreatePointer")
       /\ b \in Seq(Range(b)) /\ Once(b, "CreatePointer") /\ None(notes, "CreatePointer")
  <2>1. a \in Seq(Range(a)) /\ b \in Seq(Range(b)) /\ Injective(b)
    BY <1>12, <1>13 DEF PickedSo
  <2>2. Once(b, "CreatePointer")
    BY <2>1 DEF Once, Injective
  <2>3. None(notes, "CreatePointer")
    BY <1>15 DEF None, Range
  <2>4. ASSUME NEW i \in DOMAIN a PROVE a[i].kind # "CreatePointer"
    <3>1. a[i] \in Range(a)
      BY DEF Range
    <3>2. PICK n : a[i] = ExpireOp(n)
      BY <1>16, <3>1
    <3> QED BY <3>2 DEF ExpireOp
  <2> QED BY <2>1, <2>2, <2>3, <2>4 DEF None
<1>19. \A t, kind : None(t, kind) => Once(t, kind)
  BY DEF None, Once
<1>20. PICK d1 : d1 = intern \o a
  OBVIOUS
<1>21. d1 \in Seq(Range(d1)) /\ Range(d1) = Range(intern) \cup Range(a) /\ None(d1, "CreatePointer")
  <2>1. d1 \in Seq(Range(d1)) /\ Range(d1) = Range(intern) \cup Range(a)
    BY <1>14, <1>18, <1>20, Joins
  <2>2. \A op \in Range(d1) : op.kind # "CreatePointer"
    BY <1>14, <1>18, <2>1 DEF None, Range
  <2> QED BY <2>1, <2>2 DEF None, Range
<1>22. PICK d2 : d2 = d1 \o b
  OBVIOUS
<1>23. d2 \in Seq(Range(d2)) /\ Range(d2) = Range(d1) \cup Range(b) /\ Once(d2, "CreatePointer")
  BY <1>18, <1>19, <1>21, <1>22, Joins
<1>24. PICK d : d = d2 \o notes
  OBVIOUS
<1>25. d \in Seq(Range(d)) /\ Range(d) = Range(d2) \cup Range(notes) /\ Once(d, "CreatePointer")
  BY <1>15, <1>18, <1>19, <1>23, <1>24, Joins
<1>26. d = EvolutionDelta(s)
  BY <1>11, <1>20, <1>22, <1>24
<1>27. Along(s, d, r)
  BY <1>1, <1>3, <1>14, <1>21, <1>23, <1>25 DEF Along, NoId
<1>28. \A op \in Range(d) : \/ op = InternOp(r) /\ r \in Nat
                            \/ \E n \in Stale(s, r) : op = ExpireOp(n)
                            \/ \E n \in Nat : op = LoopOp(n, r)
                            \/ op.kind = "EmitEvent"
  BY <1>3, <1>14, <1>15, <1>16, <1>17, <1>21, <1>23, <1>25
<1>29. \A n \in Stale(s, r) : ExpireOp(n) \in Range(d)
  BY <1>16, <1>21, <1>23, <1>25
<1>30. Evolves(s, d, r)
  BY <1>25, <1>27, <1>28, <1>29 DEF Evolves
<1> QED BY <1>26, <1>30

-----------------------------------------------------------------------------
(* The overlay and the world, operation by operation.  They agree but for  *)
(* a key of an attribute list that is given twice: the overlay keeps both  *)
(* values, the world the last.                                             *)

AttrsAgree(as, bs) == bs \subseteq as /\ \A a \in as : \E b \in bs : b[1] = a[1]

ObjectOf(n, t, e, as) == [name |-> n, type |-> t, existence |-> e, attrs |-> as]

PointerOf(from, to, r, m, b, e, d, as) ==
  [from |-> from, to |-> to, relation |-> r, weight |-> m, born |-> b, expires |-> e,
   domain |-> d, attrs |-> as]

(* An object and a pointer of the overlay, and their counterparts in the world. *)
SameObject(x, y) ==
  \E n, t, e, as, bs :
    x = ObjectOf(n, t, e, as) /\ y = ObjectOf(n, t, e, bs) /\ AttrsAgree(as, bs)

SamePointer(x, y) ==
  \E from, to, r, m, b, e, d, as, bs :
    /\ x = PointerOf(from, to, r, m, b, e, d, as) /\ y = PointerOf(from, to, r, m, b, e, d, bs)
    /\ AttrsAgree(as, bs)

(* Places without a name are missing in the overlay.                       *)
SymbolsAgree(symbols, slots) ==
  /\ DOMAIN symbols \subseteq DOMAIN slots
  /\ \A n \in DOMAIN slots : IF n \in DOMAIN symbols THEN symbols[n] = slots[n]
                             ELSE slots[n] = Unnamed
  /\ Len(slots) # 0 => Len(slots) \in DOMAIN symbols

AsLong(xs, ys) == DOMAIN xs = DOMAIN ys /\ Len(xs) = Len(ys)

ObjectsAgree(xs, ys) == AsLong(xs, ys) /\ \A n \in DOMAIN ys : SameObject(xs[n], ys[n])
PointersAgree(xs, ys) == AsLong(xs, ys) /\ \A n \in DOMAIN ys : SamePointer(xs[n], ys[n])

Fine == ""
NoError(h) == h.error = Fine

(* Items that use symbols there are.                                       *)
ItemsOK(ts, rs, os, ps) ==
  /\ os \in Seq(Range(os)) /\ \A n \in DOMAIN os : os[n].type \in DOMAIN ts
  /\ ps \in Seq(Range(ps)) /\ \A n \in DOMAIN ps : ps[n].relation \in DOMAIN rs

(* An overlay without an error, whose items use symbols it has.            *)
OverlayOK(g) ==
  /\ g = [snap |-> g.snap, temps |-> g.temps, error |-> Fine]
  /\ g.snap = SnapshotOf(g.snap)
  /\ ItemsOK(g.snap.types, g.snap.relations, g.snap.objects, g.snap.pointers)

Agrees(g, f) ==
  /\ g.temps = f.temps /\ g.snap.epoch = f.world.epoch + 1
  /\ SymbolsAgree(g.snap.types, f.world.types)
  /\ SymbolsAgree(g.snap.relations, f.world.relations)
  /\ ObjectsAgree(g.snap.objects, f.world.objects)
  /\ PointersAgree(g.snap.pointers, f.world.pointers)

LEMMA AttrsSet ==
  ASSUME NEW as, NEW bs, AttrsAgree(as, bs), NEW key, NEW value
  PROVE  /\ AttrsAgree(SetAttr(as, key, value), SetAttr(bs, key, value))
         /\ AttrsAgree(RemoveAttr(as, key), RemoveAttr(bs, key))
<1>1. AttrsAgree(RemoveAttr(as, key), RemoveAttr(bs, key))
  BY DEF AttrsAgree, RemoveAttr
<1>2. /\ SetAttr(as, key, value) = RemoveAttr(as, key) \cup {<<key, value>>}
      /\ SetAttr(bs, key, value) = RemoveAttr(bs, key) \cup {<<key, value>>}
  BY DEF SetAttr, RemoveAttr
<1>3. PICK a, b : a = RemoveAttr(as, key) /\ b = RemoveAttr(bs, key)
  OBVIOUS
<1>4. AttrsAgree(a \cup {<<key, value>>}, b \cup {<<key, value>>})
  BY <1>1, <1>3 DEF AttrsAgree
<1> QED BY <1>1, <1>2, <1>3, <1>4

(* The last value of each key of a list, beside all its values.            *)
LEMMA LastValuesAgree ==
  ASSUME NEW attrs, attrs \in Seq(Range(attrs))
  PROVE  AttrsAgree(Range(attrs), LastOfEachKey(attrs))
<1>1. PICK len \in Nat : len = Len(attrs) /\ DOMAIN attrs = 1..len
  BY SequenceShape
<1>2. LastOfEachKey(attrs) \subseteq Range(attrs)
  BY DEF LastOfEachKey, Range
<1>3. ASSUME NEW a \in Range(attrs)
      PROVE  \E b \in LastOfEachKey(attrs) : b[1] = a[1]
  <2>1. PICK i \in 1..len : a = attrs[i]
    BY <1>1 DEF Range
  <2> DEFINE T == {n \in Nat : \E m \in 1..len : attrs[m][1] = a[1] /\ n = len - m}
  <2>2. len - i \in T
    BY <2>1
  <2>3. PICK x \in T : \A y \in T : x <= y
    <3> HIDE DEF T
    <3>1. T \subseteq Nat /\ T # {}
      BY <2>2 DEF T
    <3> QED BY <3>1, LeastNumber
  <2>4. PICK m \in 1..len : attrs[m][1] = a[1] /\ x = len - m
    BY <2>3
  <2>5. ASSUME NEW k \in 1..len, attrs[k][1] = attrs[m][1]
        PROVE  k <= m
    <3>1. len - k \in T
      BY <2>4, <2>5
    <3>2. len - m <= len - k
      BY <2>3, <2>4, <3>1
    <3> QED BY <3>2
  <2>6. attrs[m] \in LastOfEachKey(attrs)
    BY <1>1, <2>5 DEF LastOfEachKey
  <2> QED BY <2>4, <2>6
<1> QED BY <1>2, <1>3 DEF AttrsAgree

LEMMA ObjectsChangeAlike ==
  ASSUME NEW x, NEW y, SameObject(x, y), NEW op, op.kind \in ObjectOps
  PROVE  /\ SameObject(ChangedObject(x, op), ChangedObject(y, op))
         /\ ChangedObject(x, op).name = x.name
         /\ ChangedObject(x, op).type = IF op.kind = "SetObjectType" THEN op.type ELSE x.type
<1>1. PICK n, t, e, as, bs :
        x = ObjectOf(n, t, e, as) /\ y = ObjectOf(n, t, e, bs) /\ AttrsAgree(as, bs)
  BY DEF SameObject
<1>2. x.name = n /\ x.type = t /\ x.attrs = as /\ y.attrs = bs
  BY <1>1 DEF ObjectOf
<1>3. PICK u, v : u = ChangedObject(x, op) /\ v = ChangedObject(y, op)
  OBVIOUS
<1>4. CASE op.kind = "SetObjectType"
  <2>1. u = [x EXCEPT !.type = op.type] /\ v = [y EXCEPT !.type = op.type]
    BY <1>3, <1>4 DEF ChangedObject
  <2>2. u = ObjectOf(n, op.type, e, as) /\ v = ObjectOf(n, op.type, e, bs)
    BY <1>1, <1>2, <2>1 DEF ObjectOf
  <2>4. SameObject(u, v)
    BY <1>1, <2>2 DEF SameObject
  <2> QED BY <1>2, <1>3, <1>4, <2>2, <2>4 DEF ObjectOf
<1>5. CASE op.kind = "SetObjectExistence"
  <2>1. u = [x EXCEPT !.existence = op.existence] /\ v = [y EXCEPT !.existence = op.existence]
    BY <1>3, <1>5 DEF ChangedObject
  <2>2. u = ObjectOf(n, t, op.existence, as) /\ v = ObjectOf(n, t, op.existence, bs)
    BY <1>1, <1>2, <2>1 DEF ObjectOf
  <2>4. SameObject(u, v)
    BY <1>1, <2>2 DEF SameObject
  <2> QED BY <1>2, <1>3, <1>5, <2>2, <2>4 DEF ObjectOf
<1>6. CASE op.kind = "SetObjectAttribute"
  <2>1. u = [x EXCEPT !.attrs = SetAttr(x.attrs, op.key, op.value)]
        /\ v = [y EXCEPT !.attrs = SetAttr(y.attrs, op.key, op.value)]
    BY <1>3, <1>6 DEF ChangedObject
  <2>2. /\ u = ObjectOf(n, t, e, SetAttr(as, op.key, op.value))
        /\ v = ObjectOf(n, t, e, SetAttr(bs, op.key, op.value))
    BY <1>1, <1>2, <2>1 DEF ObjectOf
  <2>3. AttrsAgree(SetAttr(as, op.key, op.value), SetAttr(bs, op.key, op.value))
    BY <1>1, AttrsSet
  <2>4. SameObject(u, v)
    BY <1>1, <2>2, <2>3 DEF SameObject
  <2> QED BY <1>2, <1>3, <1>6, <2>2, <2>4 DEF ObjectOf
<1>7. CASE op.kind = "RemoveObjectAttribute"
  <2>1. u = [x EXCEPT !.attrs = RemoveAttr(x.attrs, op.key)]
        /\ v = [y EXCEPT !.attrs = RemoveAttr(y.attrs, op.key)]
    BY <1>3, <1>7 DEF ChangedObject
  <2>2. /\ u = ObjectOf(n, t, e, RemoveAttr(as, op.key))
        /\ v = ObjectOf(n, t, e, RemoveAttr(bs, op.key))
    BY <1>1, <1>2, <2>1 DEF ObjectOf
  <2>3. AttrsAgree(RemoveAttr(as, op.key), RemoveAttr(bs, op.key))
    BY <1>1, AttrsSet
  <2>4. SameObject(u, v)
    BY <1>1, <2>2, <2>3 DEF SameObject
  <2> QED BY <1>2, <1>3, <1>7, <2>2, <2>4 DEF ObjectOf
<1>8. CASE op.kind = "AssertObject"
  <2>1. u = x /\ v = y
    BY <1>3, <1>8 DEF ChangedObject
  <2> QED BY <1>3, <1>8, <2>1
<1> QED BY <1>4, <1>5, <1>6, <1>7, <1>8 DEF ObjectOps

LEMMA PointersChangeAlike ==
  ASSUME NEW x, NEW y, SamePointer(x, y), NEW op, op.kind \in PointerOps, NEW now
  PROVE  /\ SamePointer(ChangedPointer(x, op, now), ChangedPointer(y, op, now))
         /\ ChangedPointer(x, op, now).relation = x.relation
<1>1. PICK from, to, r, m, b, e, d, as, bs :
        /\ x = PointerOf(from, to, r, m, b, e, d, as) /\ y = PointerOf(from, to, r, m, b, e, d, bs)
        /\ AttrsAgree(as, bs)
  BY DEF SamePointer
<1>2. x.relation = r /\ x.attrs = as /\ y.attrs = bs
  BY <1>1 DEF PointerOf
<1>3. PICK u, v : u = ChangedPointer(x, op, now) /\ v = ChangedPointer(y, op, now)
  OBVIOUS
<1>4. CASE op.kind = "ExpirePointer"
  <2>1. u = [x EXCEPT !.expires = now] /\ v = [y EXCEPT !.expires = now]
    BY <1>3, <1>4 DEF ChangedPointer
  <2>2. u = PointerOf(from, to, r, m, b, now, d, as) /\ v = PointerOf(from, to, r, m, b, now, d, bs)
    BY <1>1, <1>2, <2>1 DEF PointerOf
  <2>4. SamePointer(u, v)
    BY <1>1, <2>2 DEF SamePointer
  <2> QED BY <1>2, <1>3, <2>2, <2>4 DEF PointerOf
<1>5. CASE op.kind = "SetPointerWeight"
  <2>1. u = [x EXCEPT !.weight = op.weight] /\ v = [y EXCEPT !.weight = op.weight]
    BY <1>3, <1>5 DEF ChangedPointer
  <2>2. /\ u = PointerOf(from, to, r, op.weight, b, e, d, as)
        /\ v = PointerOf(from, to, r, op.weight, b, e, d, bs)
    BY <1>1, <1>2, <2>1 DEF PointerOf
  <2>4. SamePointer(u, v)
    BY <1>1, <2>2 DEF SamePointer
  <2> QED BY <1>2, <1>3, <2>2, <2>4 DEF PointerOf
<1>6. CASE op.kind = "SetPointerAttribute"
  <2>1. u = [x EXCEPT !.attrs = SetAttr(x.attrs, op.key, op.value)]
        /\ v = [y EXCEPT !.attrs = SetAttr(y.attrs, op.key, op.value)]
    BY <1>3, <1>6 DEF ChangedPointer
  <2>2. /\ u = PointerOf(from, to, r, m, b, e, d, SetAttr(as, op.key, op.value))
        /\ v = PointerOf(from, to, r, m, b, e, d, SetAttr(bs, op.key, op.value))
    BY <1>1, <1>2, <2>1 DEF PointerOf
  <2>3. AttrsAgree(SetAttr(as, op.key, op.value), SetAttr(bs, op.key, op.value))
    BY <1>1, AttrsSet
  <2>4. SamePointer(u, v)
    BY <1>1, <2>2, <2>3 DEF SamePointer
  <2> QED BY <1>2, <1>3, <2>2, <2>4 DEF PointerOf
<1>7. CASE op.kind = "RemovePointerAttribute"
  <2>1. u = [x EXCEPT !.attrs = RemoveAttr(x.attrs, op.key)]
        /\ v = [y EXCEPT !.attrs = RemoveAttr(y.attrs, op.key)]
    BY <1>3, <1>7 DEF ChangedPointer
  <2>2. /\ u = PointerOf(from, to, r, m, b, e, d, RemoveAttr(as, op.key))
        /\ v = PointerOf(from, to, r, m, b, e, d, RemoveAttr(bs, op.key))
    BY <1>1, <1>2, <2>1 DEF PointerOf
  <2>3. AttrsAgree(RemoveAttr(as, op.key), RemoveAttr(bs, op.key))
    BY <1>1, AttrsSet
  <2>4. SamePointer(u, v)
    BY <1>1, <2>2, <2>3 DEF SamePointer
  <2> QED BY <1>2, <1>3, <2>2, <2>4 DEF PointerOf
<1>8. CASE op.kind = "AssertPointer"
  <2>1. u = x /\ v = y
    BY <1>3, <1>8 DEF ChangedPointer
  <2> QED BY <1>3, <2>1
<1> QED BY <1>4, <1>5, <1>6, <1>7, <1>8 DEF PointerOps

(* What an overlay and a world come to consist of.                         *)
OverlayBecomes(g, h, ts, rs, os, ps, temps) ==
  h = [snap |-> [epoch |-> g.snap.epoch, types |-> ts, relations |-> rs,
                 objects |-> os, pointers |-> ps],
       temps |-> temps, error |-> Fine]

LEMMA Stands ==
  ASSUME NEW g, OverlayOK(g), NEW st
  PROVE  /\ OverlayBecomes(g, g, g.snap.types, g.snap.relations, g.snap.objects, g.snap.pointers,
                           g.temps)
         /\ WorldBecomes(st, st, st.world.types, st.world.relations, st.world.objects,
                         st.world.pointers, st.temps)
BY DEF OverlayOK, SnapshotOf, OverlayBecomes, WorldBecomes

LEMMA Fails ==
  ASSUME NEW g, OverlayOK(g), NEW error
  PROVE  Fail(g, error).error = error
BY DEF OverlayOK, Fail

LEMMA OverlayInterns ==
  ASSUME NEW g, OverlayOK(g), NEW op, NEW table \in {"types", "relations"},
         NEW h, h = OverlayIntern(g, table, op), NoError(h),
         NEW id, id = IF op.id # NoId THEN op.id ELSE NextSymbol(g.snap[table])
  PROVE  /\ op.name # Unnamed
         /\ \/ op.name \in Range(g.snap[table]) /\ h = g
            \/ /\ op.name \notin Range(g.snap[table]) /\ id \notin DOMAIN g.snap[table]
               /\ OverlayBecomes(g, h,
                    IF table = "types" THEN Bind(g.snap.types, id, op.name) ELSE g.snap.types,
                    IF table = "types" THEN g.snap.relations
                    ELSE Bind(g.snap.relations, id, op.name),
                    g.snap.objects, g.snap.pointers, g.temps)
<1>1. Fail(g, "InvalidSymbol").error = "InvalidSymbol"
  BY Fails
<1>2. op.name # Unnamed
  BY <1>1 DEF OverlayIntern, NoError, Fine
<1>3. CASE op.name \in Range(g.snap[table])
  <2>1. h = g
    BY <1>2, <1>3 DEF OverlayIntern
  <2> QED BY <1>2, <1>3, <2>1
<1>4. CASE op.name \notin Range(g.snap[table])
  <2>1. id \notin DOMAIN g.snap[table]
    BY <1>1, <1>2, <1>4 DEF OverlayIntern, NoError, Fine
  <2>2. PICK more : more = Bind(g.snap[table], id, op.name)
    OBVIOUS
  <2>3. h = [g EXCEPT !.snap[table] = more]
    BY <1>2, <1>4, <2>1, <2>2 DEF OverlayIntern
  <2>4. PICK s : s = g.snap
    OBVIOUS
  <2>5. PICK t : t = [s EXCEPT ![table] = more]
    OBVIOUS
  <2>6. h = [g EXCEPT !.snap = t]
    BY <2>3, <2>4, <2>5 DEF OverlayOK
  <2>7. s = [epoch |-> s.epoch, types |-> s.types, relations |-> s.relations,
             objects |-> s.objects, pointers |-> s.pointers]
    BY <2>4 DEF OverlayOK, SnapshotOf
  <2>8. h = [snap |-> t, temps |-> g.temps, error |-> Fine]
    BY <2>6 DEF OverlayOK
  <2>9. CASE table = "types"
    <3>1. t = [epoch |-> s.epoch, types |-> more, relations |-> s.relations,
               objects |-> s.objects, pointers |-> s.pointers]
      BY <2>5, <2>7, <2>9
    <3>2. more = Bind(g.snap.types, id, op.name)
      BY <2>2, <2>9
    <3> QED BY <1>2, <1>4, <2>1, <2>4, <2>8, <2>9, <3>1, <3>2 DEF OverlayBecomes
  <2>10. CASE table = "relations"
    <3>1. t = [epoch |-> s.epoch, types |-> s.types, relations |-> more,
               objects |-> s.objects, pointers |-> s.pointers]
      BY <2>5, <2>7, <2>10
    <3>2. more = Bind(g.snap.relations, id, op.name)
      BY <2>2, <2>10
    <3> QED BY <1>2, <1>4, <2>1, <2>4, <2>8, <2>10, <3>1, <3>2 DEF OverlayBecomes
  <2> QED BY <2>9, <2>10
<1> QED BY <1>3, <1>4

LEMMA WorldInterns ==
  ASSUME NEW st, StateOK(st), NEW op, NEW table \in {"types", "relations"},
         NEW u, u = RegistryIntern(st, table, op), ~u.thrown,
         NEW id, id = IF op.id # NoId THEN op.id ELSE Len(st.world[table]) + 1
  PROVE  \/ (\E n \in DOMAIN st.world[table] : st.world[table][n] = op.name) /\ u = st
         \/ /\ \A n \in DOMAIN st.world[table] : st.world[table][n] # op.name
            /\ WorldBecomes(st, u,
                 IF table = "types" THEN Named(st.world.types, id, op.name) ELSE st.world.types,
                 IF table = "types" THEN st.world.relations
                 ELSE Named(st.world.relations, id, op.name),
                 st.world.objects, st.world.pointers, st.temps)
<1>1. Throw(st).thrown
  BY Throws DEF StateOK
<1>2. PICK slots : slots = st.world[table]
  OBVIOUS
<1>3. PICK at : at = {n \in DOMAIN slots : slots[n] = op.name}
  OBVIOUS
<1>4. ~(op.name = Unnamed \/ (at # {} /\ op.id # NoId /\ at # {op.id}))
  BY <1>1, <1>2, <1>3 DEF RegistryIntern
<1>5. CASE at # {}
  <2>1. u = st
    BY <1>2, <1>3, <1>4, <1>5 DEF RegistryIntern
  <2> QED BY <1>2, <1>3, <1>5, <2>1
<1>6. CASE at = {}
  <2>1. ~(id \in DOMAIN slots /\ slots[id] # Unnamed)
    BY <1>1, <1>2, <1>3, <1>4, <1>6 DEF RegistryIntern
  <2>2. PICK more : more = Named(slots, id, op.name)
    OBVIOUS
  <2>3. u = [st EXCEPT !.world[table] = more]
    BY <1>2, <1>3, <1>4, <1>6, <2>1, <2>2 DEF RegistryIntern, Named
  <2>4. PICK w, v : w = st.world /\ v = [w EXCEPT ![table] = more]
    OBVIOUS
  <2>5. u = [st EXCEPT !.world = v]
    BY <2>3, <2>4 DEF StateOK
  <2>6. u.world = v /\ u.temps = st.temps
    BY <2>5 DEF StateOK
  <2>7. w = [epoch |-> w.epoch, types |-> w.types, relations |-> w.relations,
             objects |-> w.objects, pointers |-> w.pointers]
    BY <2>4 DEF StateOK, IsWorld, SnapshotOf
  <2>8. CASE table = "types"
    <3>1. v = [epoch |-> w.epoch, types |-> more, relations |-> w.relations,
               objects |-> w.objects, pointers |-> w.pointers]
      BY <2>4, <2>7, <2>8
    <3>2. more = Named(st.world.types, id, op.name)
      BY <1>2, <2>2, <2>8
    <3> QED BY <1>2, <1>3, <1>6, <2>4, <2>6, <2>8, <3>1, <3>2 DEF WorldBecomes
  <2>9. CASE table = "relations"
    <3>1. v = [epoch |-> w.epoch, types |-> w.types, relations |-> more,
               objects |-> w.objects, pointers |-> w.pointers]
      BY <2>4, <2>7, <2>9
    <3>2. more = Named(st.world.relations, id, op.name)
      BY <1>2, <2>2, <2>9
    <3> QED BY <1>2, <1>3, <1>6, <2>4, <2>6, <2>9, <3>1, <3>2 DEF WorldBecomes
  <2> QED BY <2>8, <2>9
<1> QED BY <1>5, <1>6

(* The next symbol of the overlay is the next place of the registry.       *)
LEMMA NextSymbolAgrees ==
  ASSUME NEW symbols, NEW slots, IsRegistry(slots), SymbolsAgree(symbols, slots)
  PROVE  NextSymbol(symbols) = Len(slots) + 1
<1>1. PICK len \in Nat : len = Len(slots) /\ DOMAIN slots = 1..len
  BY SequenceShape DEF IsRegistry
<1>2. /\ len \in {0} \cup DOMAIN symbols
      /\ \A m \in DOMAIN symbols : m \in 1..len
  BY <1>1 DEF SymbolsAgree
<1>3. PICK k : k = CHOOSE n \in {0} \cup DOMAIN symbols : \A m \in DOMAIN symbols : m <= n
  OBVIOUS
<1>4. k \in {0} \cup DOMAIN symbols /\ \A m \in DOMAIN symbols : m <= k
  <2>1. \E n \in {0} \cup DOMAIN symbols : \A m \in DOMAIN symbols : m <= n
    BY <1>2
  <2> QED BY <1>3, <2>1
<1>5. k = len
  BY <1>2, <1>4
<1>6. NextSymbol(symbols) = 1 + k
  BY <1>3 DEF NextSymbol
<1> QED BY <1>1, <1>5, <1>6

LEMMA NamesAgree ==
  ASSUME NEW symbols, NEW slots, SymbolsAgree(symbols, slots), NEW name, name # Unnamed
  PROVE  name \in Range(symbols) <=> \E n \in DOMAIN slots : slots[n] = name
BY DEF SymbolsAgree, Range

LEMMA SymbolAdded ==
  ASSUME NEW symbols, NEW slots, IsRegistry(slots), SymbolsAgree(symbols, slots),
         NEW name, NEW id \in Nat, id # 0, id \notin DOMAIN symbols
  PROVE  SymbolsAgree(Bind(symbols, id, name), Named(slots, id, name))
<1>1. PICK len \in Nat : len = Len(slots) /\ DOMAIN slots = 1..len
  BY SequenceShape DEF IsRegistry
<1>2. PICK more \in Nat : more = (IF id > len THEN id ELSE len) /\ id <= more /\ len <= more
                          /\ more \in {id, len}
  <2>1. CASE id > len
    BY <2>1
  <2>2. CASE ~(id > len)
    BY <2>2
  <2> QED BY <2>1, <2>2
<1>3. PICK t, u : t = Bind(symbols, id, name) /\ u = Named(slots, id, name)
  OBVIOUS
<1>4. /\ u = [n \in 1..more |-> u[n]] /\ DOMAIN u = 1..more
      /\ \A n \in 1..more : u[n] = IF n = id THEN name
                                   ELSE IF n \in 1..len THEN slots[n] ELSE Unnamed
  <2>1. u = [n \in 1..more |-> IF n = id THEN name
                               ELSE IF n \in 1..len THEN slots[n] ELSE Unnamed]
    BY <1>1, <1>2, <1>3 DEF Named
  <2> QED BY <2>1
<1>5. Len(u) = more
  BY <1>4, SegmentIsSequence
<1>6. /\ DOMAIN t = DOMAIN symbols \cup {id} /\ t[id] = name
      /\ \A n \in DOMAIN symbols : t[n] = symbols[n]
  BY <1>3 DEF Bind
<1>7. /\ DOMAIN symbols \subseteq 1..len
      /\ \A n \in 1..len : IF n \in DOMAIN symbols THEN symbols[n] = slots[n]
                           ELSE slots[n] = Unnamed
      /\ len # 0 => len \in DOMAIN symbols
  BY <1>1 DEF SymbolsAgree
<1>8. id \in 1..more /\ 1..len \subseteq 1..more
  BY <1>1, <1>2
<1>9. DOMAIN t \subseteq DOMAIN u
  BY <1>4, <1>6, <1>7, <1>8
<1>10. ASSUME NEW n \in 1..more
       PROVE  IF n \in DOMAIN t THEN t[n] = u[n] ELSE u[n] = Unnamed
  <2>1. CASE n = id
    BY <1>4, <1>6, <1>8, <2>1
  <2>2. CASE n # id /\ n \in 1..len
    BY <1>4, <1>6, <1>7, <2>2
  <2>3. CASE n # id /\ n \notin 1..len
    BY <1>4, <1>6, <1>7, <2>3
  <2> QED BY <2>1, <2>2, <2>3
<1>11. more # 0 => more \in DOMAIN t
  BY <1>2, <1>6, <1>7
<1>12. SymbolsAgree(t, u)
  BY <1>4, <1>5, <1>9, <1>10, <1>11 DEF SymbolsAgree
<1> QED BY <1>3, <1>12

(* Items added to and changed in both.                                     *)
LEMMA BothLonger ==
  ASSUME NEW xs, NEW ys, AsLong(xs, ys), xs \in Seq(Range(xs)), ys \in Seq(Range(ys)),
         NEW x, NEW y
  PROVE  /\ AsLong(Append(xs, x), Append(ys, y))
         /\ OneMore(xs, x, Append(xs, x)) /\ OneMore(ys, y, Append(ys, y))
<1>1. PICK xs2, ys2 : xs2 = Append(xs, x) /\ ys2 = Append(ys, y)
  OBVIOUS
<1>2. OneMore(xs, x, xs2) /\ OneMore(ys, y, ys2)
  BY <1>1, Appended DEF AsLong
<1> QED BY <1>1, <1>2 DEF OneMore, AsLong

LEMMA BothChanged ==
  ASSUME NEW xs, NEW ys, AsLong(xs, ys), xs \in Seq(Range(xs)), ys \in Seq(Range(ys)),
         NEW k \in DOMAIN ys, NEW x, NEW y,
         NEW xs2, xs2 = Changed(xs, k, x), NEW ys2, ys2 = Changed(ys, k, y)
  PROVE  /\ AsLong(xs2, ys2) /\ DOMAIN ys2 = DOMAIN ys /\ xs2[k] = x /\ ys2[k] = y
         /\ \A n \in DOMAIN ys : n # k => xs2[n] = xs[n] /\ ys2[n] = ys[n]
<1>1. /\ xs2 \in Seq(Range(xs2)) /\ DOMAIN xs2 = DOMAIN xs
      /\ xs2[k] = x /\ \A n \in DOMAIN xs : n # k => xs2[n] = xs[n]
  BY Replaced DEF AsLong, Changed
<1>2. /\ ys2 \in Seq(Range(ys2)) /\ DOMAIN ys2 = DOMAIN ys
      /\ ys2[k] = y /\ \A n \in DOMAIN ys : n # k => ys2[n] = ys[n]
  BY Replaced DEF Changed
<1>3. Len(xs2) = Len(ys2)
  <2>1. /\ DOMAIN xs2 = 1..Len(xs2) /\ Len(xs2) \in Nat
        /\ DOMAIN ys2 = 1..Len(ys2) /\ Len(ys2) \in Nat
    BY <1>1, <1>2, SequenceShape
  <2>2. PICK a \in Nat, b \in Nat : a = Len(xs2) /\ b = Len(ys2)
    BY <2>1
  <2>3. \A n : n \in 1..a <=> n \in 1..b
    BY <1>1, <1>2, <2>1, <2>2 DEF AsLong
  <2>4. (a # 0 => a <= b) /\ (b # 0 => b <= a)
    <3>1. (a # 0 => a \in 1..a) /\ (b # 0 => b \in 1..b)
      OBVIOUS
    <3>2. (a # 0 => a \in 1..b) /\ (b # 0 => b \in 1..a)
      BY <2>3, <3>1
    <3> QED BY <3>2
  <2> QED BY <2>2, <2>4
<1> QED BY <1>1, <1>2, <1>3 DEF AsLong

LEMMA OverlayCreates ==
  ASSUME NEW g, OverlayOK(g), NEW op, NEW h, h = OverlayCreate(g, op), NoError(h)
  PROVE  /\ op.type \in DOMAIN g.snap.types /\ ObjectsNamed(g.snap, op.name) = {}
         /\ OverlayBecomes(g, h, g.snap.types, g.snap.relations,
              Append(g.snap.objects, NewObject(op, Range(op.attrs))), g.snap.pointers,
              Bind(g.temps, op.temp, Len(g.snap.objects) + 1))
<1>1. /\ Fail(g, "InvalidTempObject").error = "InvalidTempObject"
      /\ Fail(g, "DuplicateTempObject").error = "DuplicateTempObject"
      /\ Fail(g, "DuplicateObjectName").error = "DuplicateObjectName"
  BY Fails
<1>2. /\ op.temp # NoId /\ op.temp \notin DOMAIN g.temps
      /\ op.type \in DOMAIN g.snap.types /\ ObjectsNamed(g.snap, op.name) = {}
  BY <1>1 DEF OverlayCreate, NoError, Fine
<1>3. PICK os, temps : /\ os = Append(g.snap.objects, NewObject(op, Range(op.attrs)))
                       /\ temps = Bind(g.temps, op.temp, Len(g.snap.objects) + 1)
  OBVIOUS
<1>4. PICK s, t : s = g.snap /\ t = [s EXCEPT !.objects = os]
  OBVIOUS
<1>5. h = [g EXCEPT !.snap.objects = Append(@, NewObject(op, Range(op.attrs))),
                    !.temps = Bind(@, op.temp, Len(g.snap.objects) + 1)]
  BY <1>2 DEF OverlayCreate
<1>6. h = [[g EXCEPT !.snap = t] EXCEPT !.temps = temps]
  <2>1. [g EXCEPT !.snap.objects = Append(@, NewObject(op, Range(op.attrs)))]
          = [g EXCEPT !.snap = t]
    BY <1>3, <1>4 DEF OverlayOK, SnapshotOf
  <2>2. h = [[g EXCEPT !.snap = t] EXCEPT !.temps = Bind(g.temps, op.temp, Len(g.snap.objects) + 1)]
    BY <1>5, <2>1 DEF OverlayOK
  <2> QED BY <1>3, <2>2
<1>7. h = [snap |-> t, temps |-> temps, error |-> Fine]
  <2>1. PICK k : k = [g EXCEPT !.snap = t]
    OBVIOUS
  <2>2. k = [snap |-> t, temps |-> g.temps, error |-> Fine]
    BY <2>1 DEF OverlayOK
  <2>3. h = [k EXCEPT !.temps = temps]
    BY <1>6, <2>1
  <2> QED BY <2>2, <2>3
<1>8. s = [epoch |-> s.epoch, types |-> s.types, relations |-> s.relations,
           objects |-> s.objects, pointers |-> s.pointers]
  BY <1>4 DEF OverlayOK, SnapshotOf
<1>9. t = [epoch |-> s.epoch, types |-> s.types, relations |-> s.relations,
           objects |-> os, pointers |-> s.pointers]
  BY <1>4, <1>8
<1> QED BY <1>2, <1>3, <1>4, <1>7, <1>9 DEF OverlayBecomes

LEMMA OverlayLinks ==
  ASSUME NEW g, OverlayOK(g), NEW op, NEW h, h = OverlayLink(g, op), NoError(h),
         NEW from, from = Resolve(g.snap.objects, g.temps, op.from),
         NEW to, to = Resolve(g.snap.objects, g.temps, op.to)
  PROVE  /\ op.relation \in DOMAIN g.snap.relations
         /\ OverlayBecomes(g, h, g.snap.types, g.snap.relations, g.snap.objects,
              Append(g.snap.pointers, NewPointer(op, from, to, g.snap.epoch, Range(op.attrs))),
              g.temps)
<1>1. /\ Fail(g, "InvalidPointerRelation").error = "InvalidPointerRelation"
      /\ Fail(g, "PointerMissingObject").error = "PointerMissingObject"
  BY Fails
<1>2. op.relation \in DOMAIN g.snap.relations /\ NoId \notin {from, to}
  BY <1>1 DEF OverlayLink, NoError, Fine
<1>3. PICK p : p = NewPointer(op, from, to, g.snap.epoch, Range(op.attrs))
  OBVIOUS
<1>4. PICK ps : ps = Append(g.snap.pointers, p)
  OBVIOUS
<1>5. PICK s, t : s = g.snap /\ t = [s EXCEPT !.pointers = ps]
  OBVIOUS
<1>6. h = [g EXCEPT !.snap.pointers = Append(@, p)]
  BY <1>2, <1>3 DEF OverlayLink
<1>7. h = [g EXCEPT !.snap = t]
  BY <1>4, <1>5, <1>6 DEF OverlayOK, SnapshotOf
<1>8. h = [snap |-> t, temps |-> g.temps, error |-> Fine]
  BY <1>7 DEF OverlayOK
<1>9. s = [epoch |-> s.epoch, types |-> s.types, relations |-> s.relations,
           objects |-> s.objects, pointers |-> s.pointers]
  BY <1>5 DEF OverlayOK, SnapshotOf
<1>10. t = [epoch |-> s.epoch, types |-> s.types, relations |-> s.relations,
            objects |-> s.objects, pointers |-> ps]
  BY <1>5, <1>9
<1> QED BY <1>2, <1>3, <1>4, <1>5, <1>8, <1>10 DEF OverlayBecomes

LEMMA OverlayChangesObject ==
  ASSUME NEW g, OverlayOK(g), NEW op, op.kind \in ObjectOps,
         NEW h, h = OverlayObject(g, op), NoError(h),
         NEW id, id = Resolve(g.snap.objects, g.temps, op.object)
  PROVE  /\ id # NoId /\ (op.kind = "SetObjectType" => op.type \in DOMAIN g.snap.types)
         /\ OverlayBecomes(g, h, g.snap.types, g.snap.relations,
              Changed(g.snap.objects, id, ChangedObject(g.snap.objects[id], op)),
              g.snap.pointers, g.temps)
<1>1. /\ Fail(g, "InvalidTempObject").error = "InvalidTempObject"
      /\ Fail(g, "UpdateMissingObject").error = "UpdateMissingObject"
  BY Fails
<1>2. id # NoId /\ (op.kind = "SetObjectType" => op.type \in DOMAIN g.snap.types)
  BY <1>1 DEF OverlayObject, NoError, Fine
<1>3. PICK changed : changed = ChangedObject(g.snap.objects[id], op)
  OBVIOUS
<1>4. PICK os : os = [g.snap.objects EXCEPT ![id] = changed]
  OBVIOUS
<1>5. PICK s, t : s = g.snap /\ t = [s EXCEPT !.objects = os]
  OBVIOUS
<1>6. h = [g EXCEPT !.snap.objects[id] = ChangedObject(@, op)]
  BY <1>2 DEF OverlayObject
<1>7. h = [g EXCEPT !.snap = t]
  BY <1>3, <1>4, <1>5, <1>6 DEF OverlayOK, SnapshotOf
<1>8. h = [snap |-> t, temps |-> g.temps, error |-> Fine]
  BY <1>7 DEF OverlayOK
<1>9. s = [epoch |-> s.epoch, types |-> s.types, relations |-> s.relations,
           objects |-> s.objects, pointers |-> s.pointers]
  BY <1>5 DEF OverlayOK, SnapshotOf
<1>10. t = [epoch |-> s.epoch, types |-> s.types, relations |-> s.relations,
            objects |-> os, pointers |-> s.pointers]
  BY <1>5, <1>9
<1> QED BY <1>2, <1>3, <1>4, <1>5, <1>8, <1>10 DEF OverlayBecomes, Changed

LEMMA OverlayChangesPointer ==
  ASSUME NEW g, OverlayOK(g), NEW op, op.kind \in PointerOps,
         NEW h, h = OverlayPointer(g, op), NoError(h)
  PROVE  /\ op.id \in DOMAIN g.snap.pointers
         /\ OverlayBecomes(g, h, g.snap.types, g.snap.relations, g.snap.objects,
              Changed(g.snap.pointers, op.id,
                ChangedPointer(g.snap.pointers[op.id], op, g.snap.epoch)),
              g.temps)
<1>1. Fail(g, "InvalidPointerRemove").error = "InvalidPointerRemove"
  BY Fails
<1>2. op.id \in DOMAIN g.snap.pointers
  BY <1>1 DEF OverlayPointer, NoError, Fine
<1>3. PICK changed : changed = ChangedPointer(g.snap.pointers[op.id], op, g.snap.epoch)
  OBVIOUS
<1>4. PICK ps : ps = [g.snap.pointers EXCEPT ![op.id] = changed]
  OBVIOUS
<1>5. PICK s, t : s = g.snap /\ t = [s EXCEPT !.pointers = ps]
  OBVIOUS
<1>6. h = [g EXCEPT !.snap.pointers[op.id] = ChangedPointer(@, op, g.snap.epoch)]
  BY <1>2 DEF OverlayPointer
<1>7. h = [g EXCEPT !.snap = t]
  BY <1>3, <1>4, <1>5, <1>6 DEF OverlayOK, SnapshotOf
<1>8. h = [snap |-> t, temps |-> g.temps, error |-> Fine]
  BY <1>7 DEF OverlayOK
<1>9. s = [epoch |-> s.epoch, types |-> s.types, relations |-> s.relations,
           objects |-> s.objects, pointers |-> s.pointers]
  BY <1>5 DEF OverlayOK, SnapshotOf
<1>10. t = [epoch |-> s.epoch, types |-> s.types, relations |-> s.relations,
            objects |-> s.objects, pointers |-> ps]
  BY <1>5, <1>9
<1> QED BY <1>2, <1>3, <1>4, <1>5, <1>8, <1>10 DEF OverlayBecomes, Changed

(* Objects and pointers only come, and an object keeps its name: a later    *)
(* one is called otherwise.                                                *)
Extends(s, t) ==
  /\ DOMAIN s.objects \subseteq DOMAIN t.objects /\ DOMAIN s.pointers \subseteq DOMAIN t.pointers
  /\ \A n \in DOMAIN s.objects : t.objects[n].name = s.objects[n].name
  /\ \A n \in DOMAIN t.objects \ DOMAIN s.objects : \A m \in DOMAIN s.objects :
       t.objects[n].name # s.objects[m].name

LEMMA ExtendsItself ==
  ASSUME NEW s
  PROVE  Extends(s, s)
BY DEF Extends

LEMMA ExtendsOn ==
  ASSUME NEW s, NEW t, NEW u, Extends(s, t), Extends(t, u)
  PROVE  Extends(s, u)
<1>1. ASSUME NEW n \in DOMAIN u.objects \ DOMAIN s.objects, NEW m \in DOMAIN s.objects
      PROVE  u.objects[n].name # s.objects[m].name
  BY <1>1 DEF Extends
<1> QED BY <1>1 DEF Extends

LEMMA BecomesOK ==
  ASSUME NEW g, OverlayOK(g), NEW h, NEW ts, NEW rs, NEW os, NEW ps, NEW temps,
         OverlayBecomes(g, h, ts, rs, os, ps, temps),
         ItemsOK(ts, rs, os, ps)
  PROVE  OverlayOK(h)
BY DEF OverlayOK, OverlayBecomes, SnapshotOf

LEMMA Consists ==
  ASSUME NEW g, NEW h, NEW ts, NEW rs, NEW os, NEW ps, NEW temps,
         OverlayBecomes(g, h, ts, rs, os, ps, temps)
  PROVE  /\ h.snap.epoch = g.snap.epoch /\ h.snap.types = ts /\ h.snap.relations = rs
         /\ h.snap.objects = os /\ h.snap.pointers = ps /\ h.temps = temps
BY DEF OverlayBecomes

LEMMA BothBecome ==
  ASSUME NEW g, NEW f, Agrees(g, f), NEW h, NEW u, NEW ts, NEW rs, NEW os, NEW ps, NEW temps,
         OverlayBecomes(g, h, ts, rs, os, ps, temps),
         NEW ts2, NEW rs2, NEW os2, NEW ps2, WorldBecomes(f, u, ts2, rs2, os2, ps2, temps),
         SymbolsAgree(ts, ts2), SymbolsAgree(rs, rs2), ObjectsAgree(os, os2), PointersAgree(ps, ps2)
  PROVE  Agrees(h, u)
BY DEF Agrees, OverlayBecomes, WorldBecomes

LEMMA BothIntern ==
  ASSUME NEW f, StateOK(f), NEW op, OpOK(op), NEW g, OverlayOK(g), Agrees(g, f),
         NEW table, \/ op.kind = "InternType" /\ table = "types"
                    \/ op.kind = "InternRelation" /\ table = "relations",
         NEW h, h = OverlayIntern(g, table, op), NoError(h),
         NEW u, u = RegistryIntern(f, table, op), ~u.thrown
  PROVE  OverlayOK(h) /\ Agrees(h, u) /\ Extends(g.snap, h.snap)
<1>1. PICK symbols, slots : symbols = g.snap[table] /\ slots = f.world[table]
  OBVIOUS
<1>2. SymbolsAgree(symbols, slots) /\ IsRegistry(slots)
  <2>1. SymbolsAgree(g.snap.types, f.world.types) /\ SymbolsAgree(g.snap.relations, f.world.relations)
    BY DEF Agrees
  <2>2. IsRegistry(f.world.types) /\ IsRegistry(f.world.relations)
    BY DEF StateOK, IsWorld
  <2> QED BY <1>1, <2>1, <2>2
<1>3. PICK id : id = IF op.id # NoId THEN op.id ELSE Len(slots) + 1
  OBVIOUS
<1>4. id = IF op.id # NoId THEN op.id ELSE NextSymbol(symbols)
  BY <1>2, <1>3, NextSymbolAgrees
<1>5. id \in Nat /\ id # 0
  <2>1. Len(slots) \in Nat
    BY <1>2, SequenceShape DEF IsRegistry
  <2>2. op.id \in Nat
    BY DEF OpOK
  <2>3. PICK k \in Nat : k = Len(slots)
    BY <2>1
  <2>4. CASE op.id # NoId
    BY <1>3, <2>2, <2>4 DEF NoId
  <2>5. CASE op.id = NoId
    <3>1. id = k + 1
      BY <1>3, <2>3, <2>5
    <3>2. k + 1 \in Nat /\ k + 1 # 0
      OBVIOUS
    <3> QED BY <3>1, <3>2
  <2> QED BY <2>4, <2>5
<1>6. /\ op.name # Unnamed
      /\ \/ op.name \in Range(symbols) /\ h = g
         \/ /\ op.name \notin Range(symbols) /\ id \notin DOMAIN symbols
            /\ OverlayBecomes(g, h,
                 IF table = "types" THEN Bind(g.snap.types, id, op.name) ELSE g.snap.types,
                 IF table = "types" THEN g.snap.relations
                 ELSE Bind(g.snap.relations, id, op.name),
                 g.snap.objects, g.snap.pointers, g.temps)
  BY <1>1, <1>4, OverlayInterns
<1>7. \/ (\E n \in DOMAIN slots : slots[n] = op.name) /\ u = f
      \/ /\ \A n \in DOMAIN slots : slots[n] # op.name
         /\ WorldBecomes(f, u,
              IF table = "types" THEN Named(f.world.types, id, op.name) ELSE f.world.types,
              IF table = "types" THEN f.world.relations
              ELSE Named(f.world.relations, id, op.name),
              f.world.objects, f.world.pointers, f.temps)
  BY <1>1, <1>3, WorldInterns
<1>8. op.name \in Range(symbols) <=> \E n \in DOMAIN slots : slots[n] = op.name
  BY <1>2, <1>6, NamesAgree
<1>9. CASE op.name \in Range(symbols)
  BY <1>6, <1>7, <1>8, <1>9, ExtendsItself
<1>10. CASE op.name \notin Range(symbols)
  <2>1. PICK ts, rs, ts2, rs2 :
          /\ ts = IF table = "types" THEN Bind(g.snap.types, id, op.name) ELSE g.snap.types
          /\ rs = IF table = "types" THEN g.snap.relations
                  ELSE Bind(g.snap.relations, id, op.name)
          /\ ts2 = IF table = "types" THEN Named(f.world.types, id, op.name) ELSE f.world.types
          /\ rs2 = IF table = "types" THEN f.world.relations
                   ELSE Named(f.world.relations, id, op.name)
    OBVIOUS
  <2>2. /\ OverlayBecomes(g, h, ts, rs, g.snap.objects, g.snap.pointers, g.temps)
        /\ WorldBecomes(f, u, ts2, rs2, f.world.objects, f.world.pointers, g.temps)
    BY <1>6, <1>7, <1>8, <1>10, <2>1 DEF Agrees
  <2>3. SymbolsAgree(Bind(symbols, id, op.name), Named(slots, id, op.name))
    BY <1>2, <1>5, <1>6, <1>10, SymbolAdded
  <2>4. SymbolsAgree(ts, ts2) /\ SymbolsAgree(rs, rs2)
    <3>1. SymbolsAgree(g.snap.types, f.world.types)
          /\ SymbolsAgree(g.snap.relations, f.world.relations)
      BY DEF Agrees
    <3>2. CASE table = "types"
      BY <1>1, <2>1, <2>3, <3>1, <3>2
    <3>3. CASE table = "relations"
      BY <1>1, <2>1, <2>3, <3>1, <3>3
    <3> QED BY <3>2, <3>3
  <2>5. Agrees(h, u)
    <3>1. ObjectsAgree(g.snap.objects, f.world.objects)
          /\ PointersAgree(g.snap.pointers, f.world.pointers)
      BY DEF Agrees
    <3> QED BY <2>2, <2>4, <3>1, BothBecome
  <2>6. DOMAIN g.snap.types \subseteq DOMAIN ts /\ DOMAIN g.snap.relations \subseteq DOMAIN rs
    BY <2>1 DEF Bind
  <2>7. OverlayOK(h) /\ h.snap.objects = g.snap.objects /\ h.snap.pointers = g.snap.pointers
    <3>1. ItemsOK(ts, rs, g.snap.objects, g.snap.pointers)
      BY <2>6 DEF OverlayOK, ItemsOK
    <3>2. OverlayOK(h)
      BY <2>2, <3>1, BecomesOK
    <3> QED BY <2>2, <3>2 DEF OverlayBecomes
  <2> QED BY <2>5, <2>7 DEF Extends
<1> QED BY <1>9, <1>10

(* References mean the same in both.                                       *)
LEMMA ResolvesAlike ==
  ASSUME NEW g, NEW f, Agrees(g, f), NEW ref
  PROVE  Resolve(g.snap.objects, g.temps, ref) = Resolve(f.world.objects, f.temps, ref)
BY DEF Agrees, ObjectsAgree, AsLong, Resolve

LEMMA BothCreate ==
  ASSUME NEW f, StateOK(f), NEW op, OpOK(op), NEW g, OverlayOK(g), Agrees(g, f),
         op.kind = "CreateObject", NEW h, h = OverlayCreate(g, op), NoError(h),
         NEW u, u = WorldCreate(f, op), ~u.thrown
  PROVE  OverlayOK(h) /\ Agrees(h, u) /\ Extends(g.snap, h.snap)
<1>1. PICK xs, ys : xs = g.snap.objects /\ ys = f.world.objects
  OBVIOUS
<1>2. AsLong(xs, ys) /\ \A n \in DOMAIN ys : SameObject(xs[n], ys[n])
  BY <1>1 DEF Agrees, ObjectsAgree
<1>3. xs \in Seq(Range(xs)) /\ ys \in Seq(Range(ys))
  BY <1>1 DEF OverlayOK, ItemsOK, StateOK, IsWorld
<1>4. PICK x, y : x = NewObject(op, Range(op.attrs)) /\ y = NewObject(op, LastOfEachKey(op.attrs))
  OBVIOUS
<1>5. PICK xs2, ys2 : xs2 = Append(xs, x) /\ ys2 = Append(ys, y)
  OBVIOUS
<1>6. /\ AsLong(xs2, ys2)
      /\ DOMAIN ys2 = DOMAIN ys \cup {Len(ys) + 1} /\ Len(ys) + 1 \notin DOMAIN ys
      /\ xs2[Len(ys) + 1] = x /\ ys2[Len(ys) + 1] = y
      /\ \A n \in DOMAIN ys : xs2[n] = xs[n] /\ ys2[n] = ys[n]
  <2>1. AsLong(xs2, ys2) /\ OneMore(xs, x, xs2) /\ OneMore(ys, y, ys2)
    BY <1>2, <1>3, <1>5, BothLonger
  <2> QED BY <1>2, <2>1 DEF AsLong, OneMore
<1>7. xs2 \in Seq(Range(xs2))
  BY <1>3, <1>5, Appended DEF OneMore
<1>8. PICK temps : temps = Bind(g.temps, op.temp, Len(xs) + 1)
  OBVIOUS
<1>9. /\ op.type \in DOMAIN g.snap.types /\ ObjectsNamed(g.snap, op.name) = {}
      /\ OverlayBecomes(g, h, g.snap.types, g.snap.relations, xs2, g.snap.pointers, temps)
  BY <1>1, <1>4, <1>5, <1>8, OverlayCreates
<1>10. WorldBecomes(f, u, f.world.types, f.world.relations, ys2, f.world.pointers, temps)
  <2>1. f.temps = g.temps /\ Len(ys) = Len(xs)
    BY <1>2 DEF Agrees, AsLong
  <2>2. WorldBecomes(f, u, f.world.types, f.world.relations,
          Append(f.world.objects, NewObject(op, LastOfEachKey(op.attrs))), f.world.pointers,
          Bind(f.temps, op.temp, Len(f.world.objects) + 1))
    BY CreateStep
  <2> QED BY <1>1, <1>4, <1>5, <1>8, <2>1, <2>2
<1>11. SameObject(x, y)
  <2>1. AttrsAgree(Range(op.attrs), LastOfEachKey(op.attrs))
    BY LastValuesAgree DEF OpOK
  <2>2. /\ x = ObjectOf(op.name, op.type, op.existence, Range(op.attrs))
        /\ y = ObjectOf(op.name, op.type, op.existence, LastOfEachKey(op.attrs))
    BY <1>4 DEF NewObject, ObjectOf
  <2> QED BY <2>1, <2>2 DEF SameObject
<1>12. ObjectsAgree(xs2, ys2)
  BY <1>2, <1>6, <1>11 DEF ObjectsAgree
<1>13. Agrees(h, u)
  <2>1. /\ SymbolsAgree(g.snap.types, f.world.types)
        /\ SymbolsAgree(g.snap.relations, f.world.relations)
        /\ PointersAgree(g.snap.pointers, f.world.pointers)
    BY DEF Agrees
  <2> QED BY <1>9, <1>10, <1>12, <2>1, BothBecome
<1>14. x.type = op.type /\ x.name = op.name
  BY <1>4 DEF NewObject
<1>15. DOMAIN xs2 = DOMAIN xs \cup {Len(ys) + 1}
  BY <1>2, <1>6 DEF AsLong
<1>16. \A n \in DOMAIN xs : xs2[n] = xs[n]
  BY <1>2, <1>6 DEF AsLong
<1>17. OverlayOK(h) /\ h.snap.objects = xs2 /\ h.snap.pointers = g.snap.pointers
  <2>1. \A n \in DOMAIN xs2 : xs2[n].type \in DOMAIN g.snap.types
    BY <1>1, <1>6, <1>9, <1>14, <1>15, <1>16 DEF OverlayOK, ItemsOK
  <2>2. ItemsOK(g.snap.types, g.snap.relations, xs2, g.snap.pointers)
    BY <1>7, <2>1 DEF OverlayOK, ItemsOK
  <2>3. OverlayOK(h)
    BY <1>9, <2>2, BecomesOK
  <2> QED BY <1>9, <2>3 DEF OverlayBecomes
<1>18. Extends(g.snap, h.snap)
  <2>1. \A m \in DOMAIN xs : xs[m].name # op.name
    BY <1>1, <1>9 DEF ObjectsNamed
  <2>2. /\ \A n \in DOMAIN xs : xs2[n].name = xs[n].name
        /\ \A n \in DOMAIN xs2 \ DOMAIN xs : xs2[n].name = op.name
    BY <1>6, <1>14, <1>15, <1>16
  <2>3. DOMAIN xs \subseteq DOMAIN xs2
    BY <1>15
  <2>4. PICK s, t : s = g.snap /\ t = h.snap
    OBVIOUS
  <2>5. s.objects = xs /\ t.objects = xs2 /\ s.pointers = t.pointers
    BY <1>1, <1>17, <2>4
  <2>6. Extends(s, t)
    BY <2>1, <2>2, <2>3, <2>5 DEF Extends
  <2> QED BY <2>4, <2>6
<1> QED BY <1>13, <1>17, <1>18

LEMMA BothLink ==
  ASSUME NEW f, StateOK(f), NEW op, OpOK(op), NEW g, OverlayOK(g), Agrees(g, f),
         op.kind = "CreatePointer", NEW h, h = OverlayLink(g, op), NoError(h),
         NEW u, u = WorldLink(f, op), ~u.thrown
  PROVE  OverlayOK(h) /\ Agrees(h, u) /\ Extends(g.snap, h.snap)
<1>1. PICK xs, ys : xs = g.snap.pointers /\ ys = f.world.pointers
  OBVIOUS
<1>2. AsLong(xs, ys) /\ \A n \in DOMAIN ys : SamePointer(xs[n], ys[n])
  BY <1>1 DEF Agrees, PointersAgree
<1>3. xs \in Seq(Range(xs)) /\ ys \in Seq(Range(ys))
  BY <1>1 DEF OverlayOK, ItemsOK, StateOK, IsWorld
<1>4. PICK from, to : /\ from = Resolve(g.snap.objects, g.temps, op.from)
                      /\ to = Resolve(g.snap.objects, g.temps, op.to)
  OBVIOUS
<1>5. /\ from = Resolve(f.world.objects, f.temps, op.from)
      /\ to = Resolve(f.world.objects, f.temps, op.to)
  BY <1>4, ResolvesAlike
<1>6. PICK e : e = g.snap.epoch
  OBVIOUS
<1>7. PICK x, y : /\ x = NewPointer(op, from, to, e, Range(op.attrs))
                  /\ y = NewPointer(op, from, to, e, LastOfEachKey(op.attrs))
  OBVIOUS
<1>8. PICK xs2, ys2 : xs2 = Append(xs, x) /\ ys2 = Append(ys, y)
  OBVIOUS
<1>9. AsLong(xs2, ys2) /\ OneMore(xs, x, xs2) /\ OneMore(ys, y, ys2)
  BY <1>2, <1>3, <1>8, BothLonger
<1>10. /\ op.relation \in DOMAIN g.snap.relations
       /\ OverlayBecomes(g, h, g.snap.types, g.snap.relations, g.snap.objects, xs2, g.temps)
  BY <1>1, <1>4, <1>6, <1>7, <1>8, OverlayLinks
<1>11. WorldBecomes(f, u, f.world.types, f.world.relations, f.world.objects, ys2, g.temps)
  <2>1. e = f.world.epoch + 1 /\ f.temps = g.temps
    BY <1>6 DEF Agrees
  <2>2. WorldBecomes(f, u, f.world.types, f.world.relations, f.world.objects,
          Append(f.world.pointers,
            NewPointer(op, from, to, f.world.epoch + 1, LastOfEachKey(op.attrs))),
          f.temps)
    BY <1>5, LinkStep
  <2> QED BY <1>1, <1>7, <1>8, <2>1, <2>2
<1>12. SamePointer(x, y)
  <2>1. AttrsAgree(Range(op.attrs), LastOfEachKey(op.attrs))
    BY LastValuesAgree DEF OpOK
  <2>2. /\ x = PointerOf(from, to, op.relation, op.weight, e, Never, op.domain, Range(op.attrs))
        /\ y = PointerOf(from, to, op.relation, op.weight, e, Never, op.domain,
                         LastOfEachKey(op.attrs))
    BY <1>7 DEF NewPointer, PointerOf
  <2> QED BY <2>1, <2>2 DEF SamePointer
<1>13. PointersAgree(xs2, ys2)
  BY <1>2, <1>9, <1>12 DEF PointersAgree, OneMore, AsLong
<1>14. Agrees(h, u)
  <2>1. /\ SymbolsAgree(g.snap.types, f.world.types)
        /\ SymbolsAgree(g.snap.relations, f.world.relations)
        /\ ObjectsAgree(g.snap.objects, f.world.objects)
    BY DEF Agrees
  <2> QED BY <1>10, <1>11, <1>13, <2>1, BothBecome
<1>15. OverlayOK(h)
  <2>1. x.relation = op.relation
    BY <1>7 DEF NewPointer
  <2>2. \A n \in DOMAIN xs2 : xs2[n].relation \in DOMAIN g.snap.relations
    BY <1>1, <1>9, <1>10, <2>1 DEF OverlayOK, ItemsOK, OneMore
  <2>3. ItemsOK(g.snap.types, g.snap.relations, g.snap.objects, xs2)
    BY <1>9, <2>2 DEF OverlayOK, ItemsOK, OneMore
  <2> QED BY <1>10, <2>3, BecomesOK
<1>16. h.snap.objects = g.snap.objects /\ DOMAIN g.snap.pointers \subseteq DOMAIN h.snap.pointers
  BY <1>1, <1>9, <1>10 DEF OverlayBecomes, OneMore
<1> QED BY <1>14, <1>15, <1>16 DEF Extends

LEMMA BothObject ==
  ASSUME NEW f, StateOK(f), NEW op, OpOK(op), NEW g, OverlayOK(g), Agrees(g, f),
         op.kind \in ObjectOps, NEW h, h = OverlayObject(g, op), NoError(h),
         NEW u, u = WorldObject(f, op), ~u.thrown
  PROVE  OverlayOK(h) /\ Agrees(h, u) /\ Extends(g.snap, h.snap)
<1>1. PICK xs, ys : xs = g.snap.objects /\ ys = f.world.objects
  OBVIOUS
<1>2. AsLong(xs, ys) /\ \A n \in DOMAIN ys : SameObject(xs[n], ys[n])
  BY <1>1 DEF Agrees, ObjectsAgree
<1>3. xs \in Seq(Range(xs)) /\ ys \in Seq(Range(ys))
  BY <1>1 DEF OverlayOK, ItemsOK, StateOK, IsWorld
<1>4. PICK id : id = Resolve(g.snap.objects, g.temps, op.object)
  OBVIOUS
<1>5. id = Resolve(f.world.objects, f.temps, op.object)
  BY <1>4, ResolvesAlike
<1>6. PICK x, y : x = ChangedObject(xs[id], op) /\ y = ChangedObject(ys[id], op)
  OBVIOUS
<1>7. PICK xs2, ys2 : xs2 = Changed(xs, id, x) /\ ys2 = Changed(ys, id, y)
  OBVIOUS
<1>8. /\ op.kind = "SetObjectType" => op.type \in DOMAIN g.snap.types
      /\ OverlayBecomes(g, h, g.snap.types, g.snap.relations, xs2, g.snap.pointers, g.temps)
  BY <1>1, <1>4, <1>6, <1>7, OverlayChangesObject
<1>9. /\ id \in DOMAIN ys
      /\ WorldBecomes(f, u, f.world.types, f.world.relations, ys2, f.world.pointers, g.temps)
  <2>1. f.temps = g.temps
    BY DEF Agrees
  <2>2. /\ id \in DOMAIN f.world.objects
        /\ WorldBecomes(f, u, f.world.types, f.world.relations,
             Changed(f.world.objects, id, ChangedObject(f.world.objects[id], op)),
             f.world.pointers, f.temps)
    BY <1>5, ObjectStep
  <2> QED BY <1>1, <1>6, <1>7, <2>1, <2>2
<1>10. /\ AsLong(xs2, ys2) /\ DOMAIN ys2 = DOMAIN ys /\ xs2[id] = x /\ ys2[id] = y
       /\ \A n \in DOMAIN ys : n # id => xs2[n] = xs[n] /\ ys2[n] = ys[n]
  BY <1>2, <1>3, <1>7, <1>9, BothChanged
<1>11. /\ SameObject(x, y) /\ x.name = xs[id].name
       /\ x.type = IF op.kind = "SetObjectType" THEN op.type ELSE xs[id].type
  BY <1>2, <1>6, <1>9, ObjectsChangeAlike
<1>12. ObjectsAgree(xs2, ys2)
  BY <1>2, <1>10, <1>11 DEF ObjectsAgree
<1>13. Agrees(h, u)
  <2>1. /\ SymbolsAgree(g.snap.types, f.world.types)
        /\ SymbolsAgree(g.snap.relations, f.world.relations)
        /\ PointersAgree(g.snap.pointers, f.world.pointers)
    BY DEF Agrees
  <2> QED BY <1>8, <1>9, <1>12, <2>1, BothBecome
<1>14. DOMAIN xs2 = DOMAIN xs /\ id \in DOMAIN xs /\ \A n \in DOMAIN xs : n # id => xs2[n] = xs[n]
  BY <1>2, <1>9, <1>10 DEF AsLong
<1>15. OverlayOK(h)
  <2>1. \A n \in DOMAIN xs2 : xs2[n].type \in DOMAIN g.snap.types
    BY <1>1, <1>8, <1>10, <1>11, <1>14 DEF OverlayOK, ItemsOK
  <2>2. xs2 \in Seq(Range(xs2))
    BY <1>3, <1>7, <1>14, Replaced DEF Changed
  <2>3. ItemsOK(g.snap.types, g.snap.relations, xs2, g.snap.pointers)
    BY <2>1, <2>2 DEF OverlayOK, ItemsOK
  <2> QED BY <1>8, <2>3, BecomesOK
<1>16. Extends(g.snap, h.snap)
  <2>1. \A n \in DOMAIN xs : xs2[n].name = xs[n].name
    BY <1>10, <1>11, <1>14
  <2>2. PICK s, t : s = g.snap /\ t = h.snap
    OBVIOUS
  <2>3. s.objects = xs /\ t.objects = xs2 /\ s.pointers = t.pointers
    BY <1>1, <1>8, <2>2 DEF OverlayBecomes
  <2>4. Extends(s, t)
    BY <1>14, <2>1, <2>3 DEF Extends
  <2> QED BY <2>2, <2>4
<1> QED BY <1>13, <1>15, <1>16

LEMMA BothPointer ==
  ASSUME NEW f, StateOK(f), NEW op, OpOK(op), NEW g, OverlayOK(g), Agrees(g, f),
         op.kind \in PointerOps, NEW h, h = OverlayPointer(g, op), NoError(h),
         NEW u, u = WorldPointer(f, op), ~u.thrown
  PROVE  OverlayOK(h) /\ Agrees(h, u) /\ Extends(g.snap, h.snap)
<1>1. PICK xs, ys : xs = g.snap.pointers /\ ys = f.world.pointers
  OBVIOUS
<1>2. AsLong(xs, ys) /\ \A n \in DOMAIN ys : SamePointer(xs[n], ys[n])
  BY <1>1 DEF Agrees, PointersAgree
<1>3. xs \in Seq(Range(xs)) /\ ys \in Seq(Range(ys))
  BY <1>1 DEF OverlayOK, ItemsOK, StateOK, IsWorld
<1>4. PICK id, e : id = op.id /\ e = g.snap.epoch
  OBVIOUS
<1>5. PICK x, y : x = ChangedPointer(xs[id], op, e) /\ y = ChangedPointer(ys[id], op, e)
  OBVIOUS
<1>6. PICK xs2, ys2 : xs2 = Changed(xs, id, x) /\ ys2 = Changed(ys, id, y)
  OBVIOUS
<1>7. /\ id \in DOMAIN xs
      /\ OverlayBecomes(g, h, g.snap.types, g.snap.relations, g.snap.objects, xs2, g.temps)
  BY <1>1, <1>4, <1>5, <1>6, OverlayChangesPointer
<1>8. WorldBecomes(f, u, f.world.types, f.world.relations, f.world.objects, ys2, g.temps)
  <2>1. f.temps = g.temps /\ e = f.world.epoch + 1
    BY <1>4 DEF Agrees
  <2>2. WorldBecomes(f, u, f.world.types, f.world.relations, f.world.objects,
          Changed(f.world.pointers, op.id,
            ChangedPointer(f.world.pointers[op.id], op, f.world.epoch + 1)),
          f.temps)
    BY PointerStep
  <2> QED BY <1>1, <1>4, <1>5, <1>6, <2>1, <2>2
<1>9. id \in DOMAIN ys
  BY <1>2, <1>7 DEF AsLong
<1>10. /\ AsLong(xs2, ys2) /\ DOMAIN ys2 = DOMAIN ys /\ xs2[id] = x /\ ys2[id] = y
       /\ \A n \in DOMAIN ys : n # id => xs2[n] = xs[n] /\ ys2[n] = ys[n]
  BY <1>2, <1>3, <1>6, <1>9, BothChanged
<1>11. SamePointer(x, y) /\ x.relation = xs[id].relation
  BY <1>2, <1>5, <1>9, PointersChangeAlike
<1>12. PointersAgree(xs2, ys2)
  BY <1>2, <1>10, <1>11 DEF PointersAgree
<1>13. Agrees(h, u)
  <2>1. /\ SymbolsAgree(g.snap.types, f.world.types)
        /\ SymbolsAgree(g.snap.relations, f.world.relations)
        /\ ObjectsAgree(g.snap.objects, f.world.objects)
    BY DEF Agrees
  <2> QED BY <1>7, <1>8, <1>12, <2>1, BothBecome
<1>14. DOMAIN xs2 = DOMAIN xs /\ \A n \in DOMAIN xs : n # id => xs2[n] = xs[n]
  BY <1>2, <1>9, <1>10 DEF AsLong
<1>15. OverlayOK(h)
  <2>1. \A n \in DOMAIN xs2 : xs2[n].relation \in DOMAIN g.snap.relations
    BY <1>1, <1>7, <1>10, <1>11, <1>14 DEF OverlayOK, ItemsOK
  <2>2. xs2 \in Seq(Range(xs2))
    BY <1>3, <1>6, <1>7, Replaced DEF Changed
  <2>3. ItemsOK(g.snap.types, g.snap.relations, g.snap.objects, xs2)
    BY <2>1, <2>2 DEF OverlayOK, ItemsOK
  <2> QED BY <1>7, <2>3, BecomesOK
<1>16. Extends(g.snap, h.snap)
  <2>1. PICK s, t : s = g.snap /\ t = h.snap
    OBVIOUS
  <2>2. s.pointers = xs /\ t.pointers = xs2 /\ s.objects = t.objects
    BY <1>1, <1>7, <2>1 DEF OverlayBecomes
  <2>3. Extends(s, t)
    BY <1>14, <2>2 DEF Extends
  <2> QED BY <2>1, <2>3
<1> QED BY <1>13, <1>15, <1>16

(* One operation, accepted by both.                                        *)
LEMMA BothStep ==
  ASSUME NEW f, StateOK(f), NEW op, OpOK(op), NEW g, OverlayOK(g), Agrees(g, f),
         NEW h, h = OverlayStep(g, op), NoError(h), NEW u, u = WorldStep(f, op), ~u.thrown
  PROVE  OverlayOK(h) /\ Agrees(h, u) /\ Extends(g.snap, h.snap)
<1>1. NoError(g) /\ ~f.thrown
  BY DEF OverlayOK, NoError, StateOK
<1>2. CASE op.kind = "InternType"
  <2>1. h = OverlayIntern(g, "types", op)
    BY <1>1, <1>2 DEF OverlayStep, ObjectOps, PointerOps, NoError, Fine
  <2>2. u = RegistryIntern(f, "types", op)
    BY <1>1, <1>2 DEF WorldStep, ObjectOps, PointerOps
  <2> QED BY <1>2, <2>1, <2>2, BothIntern
<1>3. CASE op.kind = "InternRelation"
  <2>1. h = OverlayIntern(g, "relations", op)
    BY <1>1, <1>3 DEF OverlayStep, ObjectOps, PointerOps, NoError, Fine
  <2>2. u = RegistryIntern(f, "relations", op)
    BY <1>1, <1>3 DEF WorldStep, ObjectOps, PointerOps
  <2> QED BY <1>3, <2>1, <2>2, BothIntern
<1>4. CASE op.kind = "CreateObject"
  <2>1. h = OverlayCreate(g, op)
    BY <1>1, <1>4 DEF OverlayStep, ObjectOps, PointerOps, NoError, Fine
  <2>2. u = WorldCreate(f, op)
    BY <1>1, <1>4 DEF WorldStep, ObjectOps, PointerOps
  <2> QED BY <1>4, <2>1, <2>2, BothCreate
<1>5. CASE op.kind = "CreatePointer"
  <2>1. h = OverlayLink(g, op)
    BY <1>1, <1>5 DEF OverlayStep, ObjectOps, PointerOps, NoError, Fine
  <2>2. u = WorldLink(f, op)
    BY <1>1, <1>5 DEF WorldStep, ObjectOps, PointerOps
  <2> QED BY <1>5, <2>1, <2>2, BothLink
<1>6. CASE op.kind \in ObjectOps
  <2>1. h = OverlayObject(g, op)
    BY <1>1, <1>6 DEF OverlayStep, ObjectOps, PointerOps, NoError, Fine
  <2>2. u = WorldObject(f, op)
    BY <1>1, <1>6 DEF WorldStep, ObjectOps, PointerOps
  <2> QED BY <1>6, <2>1, <2>2, BothObject
<1>7. CASE op.kind \in PointerOps
  <2>1. h = OverlayPointer(g, op)
    BY <1>1, <1>7 DEF OverlayStep, ObjectOps, PointerOps, NoError, Fine
  <2>2. u = WorldPointer(f, op)
    BY <1>1, <1>7 DEF WorldStep, ObjectOps, PointerOps
  <2> QED BY <1>7, <2>1, <2>2, BothPointer
<1>8. CASE op.kind \in {"EmitEvent", "AssertFact"}
  <2>1. h = g
    <3>1. CASE op.kind = "EmitEvent"
      BY <1>1, <3>1 DEF OverlayStep, ObjectOps, PointerOps, NoError, Fine
    <3>2. CASE op.kind = "AssertFact"
      <4>1. h = IF op.fact \in Facts(g.snap) THEN g ELSE Fail(g, "InvalidSymbol")
        BY <1>1, <3>2 DEF OverlayStep, ObjectOps, PointerOps, NoError, Fine
      <4>2. Fail(g, "InvalidSymbol").error = "InvalidSymbol"
        BY Fails
      <4> QED BY <4>1, <4>2 DEF NoError, Fine
    <3> QED BY <1>8, <3>1, <3>2
  <2>2. u.world = f.world /\ u.temps = f.temps
    <3>1. CASE op.kind = "EmitEvent"
      <4>1. u = Emit(f, [event |-> op.event])
        BY <1>1, <3>1 DEF WorldStep, ObjectOps, PointerOps
      <4> QED BY <4>1, Emits DEF StateOK
    <3>2. CASE op.kind = "AssertFact"
      <4>1. u = IF op.fact \in Facts(SnapshotOf(f.world)) THEN f ELSE Throw(f)
        BY <1>1, <3>2 DEF WorldStep, ObjectOps, PointerOps
      <4>2. Throw(f).thrown
        BY Throws DEF StateOK
      <4> QED BY <4>1, <4>2
    <3> QED BY <1>8, <3>1, <3>2
  <2> QED BY <2>1, <2>2, ExtendsItself DEF Agrees
<1> QED BY <1>2, <1>3, <1>4, <1>5, <1>6, <1>7, <1>8 DEF OpOK

-----------------------------------------------------------------------------
(* A delta, operation by operation, in the overlay and in the resolver.    *)

OverlayStart(base) == [snap |-> [base EXCEPT !.epoch = @ + 1], temps |-> << >>, error |-> Fine]

IsOverlay(g, base, d, n) ==
  g = [i \in 0..n |-> IF i = 0 THEN OverlayStart(base) ELSE OverlayStep(g[i - 1], d[i])]

ResolverStart(before) ==
  [items |-> << >>, temps |-> << >>, next_pointer |-> Len(before.pointers) + 1]

IsResolver(r, before, after, d, n) ==
  r = [i \in 0..n |-> IF i = 0 THEN ResolverStart(before)
                      ELSE ResolveStep(before, after, r[i - 1], d[i])]

LEMMA OverlaysExist ==
  ASSUME NEW base, NEW d, NEW n \in Nat
  PROVE  \E f : IsOverlay(f, base, d, n)
<1> DEFINE T == {m \in Nat : \E f : IsOverlay(f, base, d, m)}
<1>1. 0 \in T
  <2> DEFINE f == [i \in 0..0 |-> OverlayStart(base)]
  <2>1. IsOverlay(f, base, d, 0)
    BY DEF IsOverlay
  <2> QED BY <2>1
<1>2. ASSUME NEW m \in Nat, m \in T
      PROVE  m + 1 \in T
  <2>1. PICK f : IsOverlay(f, base, d, m)
    BY <1>2
  <2> DEFINE g == [i \in 0..(m + 1) |-> IF i = 0 THEN OverlayStart(base) ELSE IF i <= m THEN f[i]
                                        ELSE OverlayStep(f[m], d[m + 1])]
  <2>2. \A i \in 0..m : g[i] = f[i]
    BY <2>1 DEF IsOverlay
  <2>3. \A i \in 0..(m + 1) : i # 0 => i - 1 \in 0..m /\ g[i] = OverlayStep(f[i - 1], d[i])
    <3> SUFFICES ASSUME NEW i \in 0..(m + 1), i # 0
                 PROVE  i - 1 \in 0..m /\ g[i] = OverlayStep(f[i - 1], d[i])
      OBVIOUS
    <3>1. CASE i <= m
      BY <2>1, <3>1 DEF IsOverlay
    <3>2. CASE i = m + 1
      BY <3>2
    <3> QED BY <3>1, <3>2
  <2>4. \A i \in 0..(m + 1) : g[i] = IF i = 0 THEN OverlayStart(base) ELSE OverlayStep(g[i - 1], d[i])
    BY <2>2, <2>3
  <2>5. g = [i \in 0..(m + 1) |-> g[i]]
    OBVIOUS
  <2> HIDE DEF g
  <2>6. IsOverlay(g, base, d, m + 1)
    BY <2>4, <2>5 DEF IsOverlay
  <2> QED BY <2>6
<1>3. Nat \subseteq T
  <2> HIDE DEF T
  <2> QED BY <1>1, <1>2, ByInduction
<1> QED BY <1>3

LEMMA ResolversExist ==
  ASSUME NEW before, NEW after, NEW d, NEW n \in Nat
  PROVE  \E f : IsResolver(f, before, after, d, n)
<1> DEFINE T == {m \in Nat : \E f : IsResolver(f, before, after, d, m)}
<1>1. 0 \in T
  <2> DEFINE f == [i \in 0..0 |-> ResolverStart(before)]
  <2>1. IsResolver(f, before, after, d, 0)
    BY DEF IsResolver
  <2> QED BY <2>1
<1>2. ASSUME NEW m \in Nat, m \in T
      PROVE  m + 1 \in T
  <2>1. PICK f : IsResolver(f, before, after, d, m)
    BY <1>2
  <2> DEFINE g == [i \in 0..(m + 1) |-> IF i = 0 THEN ResolverStart(before) ELSE IF i <= m THEN f[i]
                                        ELSE ResolveStep(before, after, f[m], d[m + 1])]
  <2>2. \A i \in 0..m : g[i] = f[i]
    BY <2>1 DEF IsResolver
  <2>3. \A i \in 0..(m + 1) : i # 0 => i - 1 \in 0..m /\ g[i] = ResolveStep(before, after, f[i - 1], d[i])
    <3> SUFFICES ASSUME NEW i \in 0..(m + 1), i # 0
                 PROVE  i - 1 \in 0..m /\ g[i] = ResolveStep(before, after, f[i - 1], d[i])
      OBVIOUS
    <3>1. CASE i <= m
      BY <2>1, <3>1 DEF IsResolver
    <3>2. CASE i = m + 1
      BY <3>2
    <3> QED BY <3>1, <3>2
  <2>4. \A i \in 0..(m + 1) : g[i] = IF i = 0 THEN ResolverStart(before) ELSE ResolveStep(before, after, g[i - 1], d[i])
    BY <2>2, <2>3
  <2>5. g = [i \in 0..(m + 1) |-> g[i]]
    OBVIOUS
  <2> HIDE DEF g
  <2>6. IsResolver(g, before, after, d, m + 1)
    BY <2>4, <2>5 DEF IsResolver
  <2> QED BY <2>6
<1>3. Nat \subseteq T
  <2> HIDE DEF T
  <2> QED BY <1>1, <1>2, ByInduction
<1> QED BY <1>3

LEMMA OverlayIsRun ==
  ASSUME NEW base, NEW d, NEW len \in Nat, len = Len(d)
  PROVE  \E g : IsOverlay(g, base, d, len) /\ Overlay(base, d) = g[len]
<1> DEFINE after == CHOOSE f : f = [n \in 0..Len(d) |->
                      IF n = 0
                      THEN [snap |-> [base EXCEPT !.epoch = @ + 1], temps |-> << >>, error |-> ""]
                      ELSE OverlayStep(f[n - 1], d[n])]
<1>1. after = [n \in 0..Len(d) |->
                 IF n = 0
                 THEN [snap |-> [base EXCEPT !.epoch = @ + 1], temps |-> << >>, error |-> ""]
                 ELSE OverlayStep(after[n - 1], d[n])]
  <2>1. \E f : f = [n \in 0..Len(d) |->
                      IF n = 0
                      THEN [snap |-> [base EXCEPT !.epoch = @ + 1], temps |-> << >>, error |-> ""]
                      ELSE OverlayStep(f[n - 1], d[n])]
    <3>1. PICK f : IsOverlay(f, base, d, Len(d))
      BY OverlaysExist
    <3> QED BY <3>1 DEF IsOverlay, OverlayStart, Fine
  <2> QED BY <2>1
<1>2. Overlay(base, d) = after[Len(d)]
  BY DEF Overlay
<1> QED BY <1>1, <1>2 DEF IsOverlay, OverlayStart, Fine

LEMMA ItemsAreRun ==
  ASSUME NEW before, NEW after, NEW d, NEW len \in Nat, len = Len(d)
  PROVE  \E r : /\ IsResolver(r, before, after, d, len)
                /\ ResolveOperations(before, after, d) = r[len].items
<1> DEFINE upTo == CHOOSE f : f = [n \in 0..Len(d) |->
                     IF n = 0
                     THEN [items |-> << >>, temps |-> << >>,
                           next_pointer |-> Len(before.pointers) + 1]
                     ELSE ResolveStep(before, after, f[n - 1], d[n])]
<1>1. upTo = [n \in 0..Len(d) |->
                IF n = 0
                THEN [items |-> << >>, temps |-> << >>, next_pointer |-> Len(before.pointers) + 1]
                ELSE ResolveStep(before, after, upTo[n - 1], d[n])]
  <2>1. \E f : f = [n \in 0..Len(d) |->
                     IF n = 0
                     THEN [items |-> << >>, temps |-> << >>,
                           next_pointer |-> Len(before.pointers) + 1]
                     ELSE ResolveStep(before, after, f[n - 1], d[n])]
    <3>1. PICK f : IsResolver(f, before, after, d, Len(d))
      BY ResolversExist
    <3> QED BY <3>1 DEF IsResolver, ResolverStart
  <2> QED BY <2>1
<1>2. ResolveOperations(before, after, d) = upTo[Len(d)].items
  BY DEF ResolveOperations
<1> QED BY <1>1, <1>2 DEF IsResolver, ResolverStart

LEMMA OverlaysStep ==
  ASSUME NEW base, NEW d, NEW n \in Nat, NEW g, IsOverlay(g, base, d, n)
  PROVE  /\ g[0] = OverlayStart(base)
         /\ \A i \in 0..n : i # 0 => g[i] = OverlayStep(g[i - 1], d[i])
BY DEF IsOverlay

(* An error of the overlay: no later operation undoes it.                  *)
LEMMA ErrorStays ==
  ASSUME NEW g, NEW op, NoError(OverlayStep(g, op))
  PROVE  NoError(g)
BY DEF OverlayStep, NoError, Fine

LEMMA BothStart ==
  ASSUME NEW w, IsWorld(w)
  PROVE  OverlayOK(OverlayStart(w)) /\ Agrees(OverlayStart(w), Start(w)) /\ StateOK(Start(w))
<1>1. PICK s : s = [w EXCEPT !.epoch = w.epoch + 1]
  OBVIOUS
<1>2. PICK g, f : g = OverlayStart(w) /\ f = Start(w)
  OBVIOUS
<1>3. g = [snap |-> s, temps |-> << >>, error |-> Fine]
  BY <1>1, <1>2 DEF OverlayStart
<1>4. s = [epoch |-> w.epoch + 1, types |-> w.types, relations |-> w.relations,
           objects |-> w.objects, pointers |-> w.pointers]
  BY <1>1 DEF IsWorld, SnapshotOf
<1>5. f = [world |-> w, temps |-> << >>, events |-> << >>, thrown |-> FALSE]
  BY <1>2 DEF Start
<1>6. OverlayOK(g)
  <2>1. ItemsOK(w.types, w.relations, w.objects, w.pointers)
    BY DEF IsWorld, IsObject, IsPointer, ItemsOK
  <2>2. s = SnapshotOf(s)
    BY <1>4 DEF SnapshotOf
  <2>3. ItemsOK(s.types, s.relations, s.objects, s.pointers)
    BY <1>4, <2>1
  <2> QED BY <1>3, <2>2, <2>3 DEF OverlayOK
<1>7. StateOK(f)
  BY <1>5 DEF StateOK
<1>8. Agrees(g, f)
  <2>1. SymbolsAgree(w.types, w.types) /\ SymbolsAgree(w.relations, w.relations)
    <3>1. \A slots : IsRegistry(slots) => SymbolsAgree(slots, slots)
      <4> SUFFICES ASSUME NEW slots, IsRegistry(slots) PROVE SymbolsAgree(slots, slots)
        OBVIOUS
      <4>1. Len(slots) \in Nat /\ DOMAIN slots = 1..Len(slots)
        BY SequenceShape DEF IsRegistry
      <4> QED BY <4>1 DEF SymbolsAgree
    <3> QED BY <3>1 DEF IsWorld
  <2>2. \A as : AttrsAgree(as, as)
    BY DEF AttrsAgree
  <2>3. ObjectsAgree(w.objects, w.objects)
    <3>1. ASSUME NEW n \in DOMAIN w.objects PROVE SameObject(w.objects[n], w.objects[n])
      <4>1. PICK o : o = w.objects[n]
        OBVIOUS
      <4>2. o = ObjectOf(o.name, o.type, o.existence, o.attrs)
        BY <4>1 DEF IsWorld, IsObject, ObjectOf
      <4> QED BY <2>2, <4>1, <4>2 DEF SameObject
    <3> QED BY <3>1 DEF ObjectsAgree, AsLong
  <2>4. PointersAgree(w.pointers, w.pointers)
    <3>1. ASSUME NEW n \in DOMAIN w.pointers PROVE SamePointer(w.pointers[n], w.pointers[n])
      <4>1. PICK p : p = w.pointers[n]
        OBVIOUS
      <4>2. p = PointerOf(p.from, p.to, p.relation, p.weight, p.born, p.expires, p.domain, p.attrs)
        BY <4>1 DEF IsWorld, IsPointer, PointerOf
      <4> QED BY <2>2, <4>1, <4>2 DEF SamePointer
    <3> QED BY <3>1 DEF PointersAgree, AsLong
  <2> QED BY <1>3, <1>4, <1>5, <2>1, <2>3, <2>4 DEF Agrees
<1> QED BY <1>2, <1>6, <1>7, <1>8

(* A delta that both accept: they agree, and no object is lost on the way. *)
LEMMA BothRun ==
  ASSUME NEW w, IsWorld(w), NEW d, DeltaOK(d), NEW len \in Nat, len = Len(d),
         NEW g, IsOverlay(g, w, d, len), NoError(g[len]), NEW f, IsRun(f, w, d, len), ~f[len].thrown
  PROVE  /\ \A i \in 0..len : OverlayOK(g[i]) /\ StateOK(f[i]) /\ Agrees(g[i], f[i])
         /\ \A i \in 0..len : i # 0 => Extends(g[i - 1].snap, g[i].snap)
<1>1. /\ g[0] = OverlayStart(w)
      /\ \A i \in 0..len : i # 0 => g[i] = OverlayStep(g[i - 1], d[i])
  BY OverlaysStep
<1>2. /\ f[0] = Start(w)
      /\ \A i \in 0..len : i # 0 => f[i] = WorldStep(f[i - 1], d[i])
  BY RunsStep
<1>3. \A i \in 1..len : OpOK(d[i])
  BY SequenceShape DEF DeltaOK, Range
<1>4. \A i \in 0..len : NoError(g[i]) /\ ~f[i].thrown
  <2> DEFINE T == {k \in Nat : k <= len => NoError(g[len - k]) /\ ~f[len - k].thrown}
  <2>1. 0 \in T
    OBVIOUS
  <2>2. ASSUME NEW k \in Nat, k \in T
        PROVE  k + 1 \in T
    <3> SUFFICES ASSUME k + 1 <= len
                 PROVE  NoError(g[len - (k + 1)]) /\ ~f[len - (k + 1)].thrown
      OBVIOUS
    <3>1. PICK i \in 0..len : i = len - k /\ i # 0 /\ i - 1 = len - (k + 1)
      OBVIOUS
    <3>2. NoError(g[i]) /\ ~f[i].thrown
      BY <2>2, <3>1
    <3>3. NoError(g[i - 1]) /\ ~f[i - 1].thrown
      <4>1. g[i] = OverlayStep(g[i - 1], d[i]) /\ f[i] = WorldStep(f[i - 1], d[i])
        BY <1>1, <1>2, <3>1
      <4>2. NoError(OverlayStep(g[i - 1], d[i])) /\ ~WorldStep(f[i - 1], d[i]).thrown
        BY <3>2, <4>1
      <4> QED BY <4>2, ErrorStays, ThrownStays
    <3> QED BY <3>1, <3>3
  <2>3. Nat \subseteq T
    <3> HIDE DEF T
    <3> QED BY <2>1, <2>2, ByInduction
  <2> SUFFICES ASSUME NEW i \in 0..len PROVE NoError(g[i]) /\ ~f[i].thrown
    OBVIOUS
  <2>4. len - i \in T /\ len - (len - i) = i /\ len - i <= len
    <3> HIDE DEF T
    <3> QED BY <2>3
  <2> QED BY <2>4
<1>5. ASSUME NEW i \in 0..len, i # 0,
             OverlayOK(g[i - 1]) /\ StateOK(f[i - 1]) /\ Agrees(g[i - 1], f[i - 1])
      PROVE  /\ OverlayOK(g[i]) /\ StateOK(f[i]) /\ Agrees(g[i], f[i])
             /\ Extends(g[i - 1].snap, g[i].snap)
  <2>1. PICK g1, h, f1, u, op : /\ g1 = g[i - 1] /\ h = g[i] /\ f1 = f[i - 1] /\ u = f[i]
                                /\ op = d[i]
    OBVIOUS
  <2>2. OpOK(op) /\ h = OverlayStep(g1, op) /\ u = WorldStep(f1, op) /\ NoError(h) /\ ~u.thrown
    BY <1>1, <1>2, <1>3, <1>4, <1>5, <2>1
  <2>3. OverlayOK(g1) /\ StateOK(f1) /\ Agrees(g1, f1)
    BY <1>5, <2>1
  <2>4. OverlayOK(h) /\ Agrees(h, u) /\ Extends(g1.snap, h.snap)
    BY <2>2, <2>3, BothStep
  <2>5. StateOK(u)
    BY <2>2, <2>3, OneOperation
  <2> QED BY <2>1, <2>4, <2>5
<1>6. \A i \in 0..len : OverlayOK(g[i]) /\ StateOK(f[i]) /\ Agrees(g[i], f[i])
  <2> DEFINE T == {i \in Nat : i <= len => OverlayOK(g[i]) /\ StateOK(f[i]) /\ Agrees(g[i], f[i])}
  <2>1. 0 \in T
    BY <1>1, <1>2, BothStart
  <2>2. ASSUME NEW i \in Nat, i \in T
        PROVE  i + 1 \in T
    <3> SUFFICES ASSUME i + 1 <= len
                 PROVE  OverlayOK(g[i + 1]) /\ StateOK(f[i + 1]) /\ Agrees(g[i + 1], f[i + 1])
      OBVIOUS
    <3>1. i + 1 \in 0..len /\ i + 1 # 0 /\ (i + 1) - 1 = i
      OBVIOUS
    <3> QED BY <1>5, <2>2, <3>1
  <2>3. Nat \subseteq T
    <3> HIDE DEF T
    <3> QED BY <2>1, <2>2, ByInduction
  <2> QED BY <2>3
<1>7. ASSUME NEW i \in 0..len, i # 0 PROVE Extends(g[i - 1].snap, g[i].snap)
  <2>1. i - 1 \in 0..len
    BY <1>7
  <2> QED BY <1>5, <1>6, <1>7, <2>1
<1> QED BY <1>6, <1>7

-----------------------------------------------------------------------------
(* The snapshot s the overlay predicts and the world v the delta leaves.   *)

Predicts(s, v) ==
  /\ s.epoch = v.epoch /\ SymbolsAgree(s.types, v.types) /\ SymbolsAgree(s.relations, v.relations)
  /\ ObjectsAgree(s.objects, v.objects) /\ PointersAgree(s.pointers, v.pointers)
  /\ ItemsOK(s.types, s.relations, s.objects, s.pointers)

LEMMA SameAttrs ==
  ASSUME NEW as, NEW bs, AttrsAgree(as, bs), \A a, b \in as : a[1] = b[1] => a = b
  PROVE  as = bs
<1>1. ASSUME NEW a \in as PROVE a \in bs
  <2>1. PICK b \in bs : b[1] = a[1]
    BY DEF AttrsAgree
  <2>2. b \in as
    BY DEF AttrsAgree
  <2>3. a = b
    BY <2>1, <2>2
  <2> QED BY <2>3
<1> QED BY <1>1 DEF AttrsAgree

LEMMA SameSequence ==
  ASSUME NEW xs, NEW ys, xs \in Seq(Range(xs)), ys \in Seq(Range(ys)), AsLong(xs, ys),
         \A n \in DOMAIN ys : xs[n] = ys[n]
  PROVE  xs = ys
<1>1. PICK m \in Nat, n \in Nat : m = Len(xs) /\ n = Len(ys) /\ DOMAIN xs = 1..m /\ DOMAIN ys = 1..n
  BY SequenceShape
<1>2. m = n
  BY <1>1 DEF AsLong
<1>3. xs = [k \in 1..n |-> xs[k]] /\ ys = [k \in 1..n |-> ys[k]]
  BY <1>1, <1>2
<1>4. \A k \in 1..n : xs[k] = ys[k]
  BY <1>1
<1> QED BY <1>3, <1>4

LEMMA SameSymbols ==
  ASSUME NEW symbols, NEW slots, SymbolsAgree(symbols, slots), NEW n \in DOMAIN symbols
  PROVE  symbols[n] = slots[n]
BY DEF SymbolsAgree

LEMMA FactsOfSame ==
  ASSUME NEW s, NEW v, s.epoch = v.epoch, s.objects = v.objects, s.pointers = v.pointers
  PROVE  Facts(s) = Facts(v)
<1>1. \A n : ObjectFacts(s, n) = ObjectFacts(v, n)
  BY DEF ObjectFacts
<1>2. \A n : PointerFacts(s, n) = PointerFacts(v, n)
  BY DEF PointerFacts
<1> QED BY <1>1, <1>2 DEF Facts

LEMMA RootsMatch ==
  ASSUME NEW v, IsWorld(v), NEW s, Predicts(s, v), ~RepeatsKey(WorldRoot(s))
  PROVE  WorldRoot(s) = WorldRoot(SnapshotOf(v))
<1>1. \A x \in Range(s.objects) \cup Range(s.pointers) :
        \A a, b \in x.attrs : a[1] = b[1] => a = b
  <2>1. PICK root : root = WorldRoot(s)
    OBVIOUS
  <2>2. root.objects = s.objects /\ root.pointers = s.pointers
    BY <2>1 DEF WorldRoot
  <2> QED BY <2>1, <2>2 DEF RepeatsKey
<1>2. s.objects = v.objects
  <2>1. ASSUME NEW n \in DOMAIN v.objects PROVE s.objects[n] = v.objects[n]
    <3>1. PICK x, y : x = s.objects[n] /\ y = v.objects[n]
      OBVIOUS
    <3>2. SameObject(x, y) /\ x \in Range(s.objects)
      BY <3>1 DEF Predicts, ObjectsAgree, AsLong, Range
    <3>3. PICK name, type, e, as, bs :
            /\ x = ObjectOf(name, type, e, as) /\ y = ObjectOf(name, type, e, bs)
            /\ AttrsAgree(as, bs)
      BY <3>2 DEF SameObject
    <3>4. x.attrs = as
      BY <3>3 DEF ObjectOf
    <3>5. as = bs
      BY <1>1, <3>2, <3>3, <3>4, SameAttrs
    <3> QED BY <3>1, <3>3, <3>5
  <2> QED BY <2>1, SameSequence DEF Predicts, ObjectsAgree, ItemsOK, IsWorld
<1>3. s.pointers = v.pointers
  <2>1. ASSUME NEW n \in DOMAIN v.pointers PROVE s.pointers[n] = v.pointers[n]
    <3>1. PICK x, y : x = s.pointers[n] /\ y = v.pointers[n]
      OBVIOUS
    <3>2. SamePointer(x, y) /\ x \in Range(s.pointers)
      BY <3>1 DEF Predicts, PointersAgree, AsLong, Range
    <3>3. PICK from, to, r, m, b, e, d, as, bs :
            /\ x = PointerOf(from, to, r, m, b, e, d, as)
            /\ y = PointerOf(from, to, r, m, b, e, d, bs) /\ AttrsAgree(as, bs)
      BY <3>1 DEF Predicts, PointersAgree, SamePointer
    <3>4. x.attrs = as
      BY <3>3 DEF PointerOf
    <3>5. as = bs
      BY <1>1, <3>2, <3>3, <3>4, SameAttrs
    <3> QED BY <3>1, <3>3, <3>5
  <2> QED BY <2>1, SameSequence DEF Predicts, PointersAgree, ItemsOK, IsWorld
<1>4. SnapshotOf(v) = v /\ s.epoch = v.epoch
  BY DEF IsWorld, Predicts
<1>5. Facts(s) = Facts(v)
  BY <1>2, <1>3, <1>4, FactsOfSame
<1>6. \A o \in Range(s.objects) : s.types[o.type] = v.types[o.type]
  BY SameSymbols DEF Predicts, ItemsOK, Range
<1>7. \A p \in Range(s.pointers) : s.relations[p.relation] = v.relations[p.relation]
  BY SameSymbols DEF Predicts, ItemsOK, Range
<1>8. {<<o.type, s.types[o.type]>> : o \in Range(s.objects)}
        = {<<o.type, v.types[o.type]>> : o \in Range(v.objects)}
  BY <1>2, <1>6
<1>9. {<<p.relation, s.relations[p.relation]>> : p \in Range(s.pointers)}
        = {<<p.relation, v.relations[p.relation]>> : p \in Range(v.pointers)}
  BY <1>3, <1>7
<1> QED BY <1>2, <1>3, <1>4, <1>5, <1>8, <1>9 DEF WorldRoot

(* Every fact of the world was predicted.                                  *)
LEMMA FactsPredicted ==
  ASSUME NEW v, NEW s, Predicts(s, v)
  PROVE  /\ \A n \in DOMAIN v.objects : ObjectFacts(v, n) \subseteq ObjectFacts(s, n)
         /\ \A n \in DOMAIN v.pointers : PointerFacts(v, n) \subseteq PointerFacts(s, n)
<1>1. s.epoch = v.epoch
  BY DEF Predicts
<1>2. ASSUME NEW n \in DOMAIN v.objects
      PROVE  ObjectFacts(v, n) \subseteq ObjectFacts(s, n)
  <2>1. PICK x, y : x = s.objects[n] /\ y = v.objects[n]
    OBVIOUS
  <2>2. PICK name, type, e, as, bs :
          x = ObjectOf(name, type, e, as) /\ y = ObjectOf(name, type, e, bs) /\ AttrsAgree(as, bs)
    BY <2>1 DEF Predicts, ObjectsAgree, SameObject
  <2>3. /\ x.name = y.name /\ x.type = y.type /\ x.existence = y.existence
        /\ y.attrs \subseteq x.attrs
    BY <2>2 DEF ObjectOf, AttrsAgree
  <2> QED BY <1>1, <2>1, <2>3 DEF ObjectFacts
<1>3. ASSUME NEW n \in DOMAIN v.pointers
      PROVE  PointerFacts(v, n) \subseteq PointerFacts(s, n)
  <2>1. PICK x, y : x = s.pointers[n] /\ y = v.pointers[n]
    OBVIOUS
  <2>2. PICK from, to, r, m, b, e, d, as, bs :
          /\ x = PointerOf(from, to, r, m, b, e, d, as) /\ y = PointerOf(from, to, r, m, b, e, d, bs)
          /\ AttrsAgree(as, bs)
    BY <2>1 DEF Predicts, PointersAgree, SamePointer
  <2>3. /\ x.from = y.from /\ x.to = y.to /\ x.relation = y.relation /\ x.weight = y.weight
        /\ x.domain = y.domain /\ x.born = y.born /\ x.expires = y.expires
        /\ y.attrs \subseteq x.attrs
    BY <2>2 DEF PointerOf, AttrsAgree
  <2> QED BY <2>1, <2>3 DEF PointerFacts
<1> QED BY <1>2, <1>3

-----------------------------------------------------------------------------
(* The write set: all the facts, of the snapshot the plan is for, of what  *)
(* the operations so far created or changed.                               *)

Covers(before, after, g, r) ==
  /\ r.items \in Seq(Range(r.items)) /\ r.temps = g.temps
  /\ r.next_pointer = Len(g.snap.pointers) + 1
  /\ \A n \in DOMAIN g.snap.objects :
       \/ n \in DOMAIN before.objects /\ g.snap.objects[n] = before.objects[n]
       \/ ObjectFactsIn(after, n) \subseteq WriteSet(r.items)
  /\ \A n \in DOMAIN g.snap.pointers :
       \/ n \in DOMAIN before.pointers /\ g.snap.pointers[n] = before.pointers[n]
       \/ PointerFactsIn(after, n) \subseteq WriteSet(r.items)

LEMMA WritesMore ==
  ASSUME NEW items, items \in Seq(Range(items)), NEW item
  PROVE  /\ Append(items, item) \in Seq(Range(Append(items, item)))
         /\ WriteSet(Append(items, item)) = WriteSet(items) \cup item.writes
<1>1. PICK more : more = Append(items, item)
  OBVIOUS
<1>2. OneMore(items, item, more)
  BY <1>1, Appended
<1>3. Range(more) = Range(items) \cup {item}
  BY <1>2 DEF OneMore, Range
<1>4. WriteSet(more) = WriteSet(items) \cup item.writes
  BY <1>3 DEF WriteSet
<1> QED BY <1>1, <1>2, <1>4 DEF OneMore

LEMMA CoversOn ==
  ASSUME NEW before, NEW after, NEW g, NEW r, Covers(before, after, g, r), NEW h, NEW r2,
         r2.items \in Seq(Range(r2.items)), WriteSet(r.items) \subseteq WriteSet(r2.items),
         r2.temps = h.temps, r2.next_pointer = Len(h.snap.pointers) + 1,
         \A n \in DOMAIN h.snap.objects :
           \/ n \in DOMAIN g.snap.objects /\ h.snap.objects[n] = g.snap.objects[n]
           \/ ObjectFactsIn(after, n) \subseteq WriteSet(r2.items),
         \A n \in DOMAIN h.snap.pointers :
           \/ n \in DOMAIN g.snap.pointers /\ h.snap.pointers[n] = g.snap.pointers[n]
           \/ PointerFactsIn(after, n) \subseteq WriteSet(r2.items)
  PROVE  Covers(before, after, h, r2)
<1>1. ASSUME NEW n \in DOMAIN h.snap.objects
      PROVE  \/ n \in DOMAIN before.objects /\ h.snap.objects[n] = before.objects[n]
             \/ ObjectFactsIn(after, n) \subseteq WriteSet(r2.items)
  BY DEF Covers
<1>2. ASSUME NEW n \in DOMAIN h.snap.pointers
      PROVE  \/ n \in DOMAIN before.pointers /\ h.snap.pointers[n] = before.pointers[n]
             \/ PointerFactsIn(after, n) \subseteq WriteSet(r2.items)
  BY DEF Covers
<1> QED BY <1>1, <1>2 DEF Covers

(* The object an operation creates is the one of its name in the end.      *)
HasOneMore(s, h, x, id) == id = Len(s.objects) + 1 /\ OneMore(s.objects, x, h.objects)

LEMMA CreatedIsNamed ==
  ASSUME NEW s, NEW h, NEW name, NEW after, Extends(h, after), ObjectsNamed(s, name) = {},
         NEW x, x.name = name, NEW id, HasOneMore(s, h, x, id)
  PROVE  id \in DOMAIN after.objects /\ ObjectsNamed(after, name) = {id}
<1>1. OneMore(s.objects, x, h.objects) /\ id = Len(s.objects) + 1
  BY DEF HasOneMore
<1>2. /\ DOMAIN h.objects = DOMAIN s.objects \cup {id} /\ h.objects[id] = x
      /\ \A n \in DOMAIN s.objects : h.objects[n] = s.objects[n] /\ n # id
  BY <1>1 DEF OneMore
<1>3. \A n \in DOMAIN s.objects : s.objects[n].name # name
  BY DEF ObjectsNamed
<1>4. id \in DOMAIN after.objects /\ after.objects[id].name = name
  BY <1>2 DEF Extends
<1>5. ASSUME NEW n \in DOMAIN after.objects, n # id PROVE after.objects[n].name # name
  <2>1. CASE n \in DOMAIN h.objects
    BY <1>2, <1>3, <1>5, <2>1 DEF Extends
  <2>2. CASE n \notin DOMAIN h.objects
    BY <1>2, <2>2 DEF Extends
  <2> QED BY <2>1, <2>2
<1> QED BY <1>4, <1>5 DEF ObjectsNamed

LEMMA CoversStep ==
  ASSUME NEW g, OverlayOK(g), NEW op, OpOK(op), NEW h, h = OverlayStep(g, op), NoError(h),
         NEW before, NEW after, Extends(h.snap, after),
         NEW r, Covers(before, after, g, r), NEW r2, r2 = ResolveStep(before, after, r, op)
  PROVE  Covers(before, after, h, r2)
<1>0. NoError(g)
  BY DEF OverlayOK, NoError
<1>1. PICK item : item = OperationFacts(before, after, r, op)
  OBVIOUS
<1>2. /\ r2.items = Append(r.items, item)
      /\ r2.temps = IF op.kind = "CreateObject" /\ ObjectsNamed(after, op.name) # {}
                    THEN Bind(r.temps, op.temp, CHOOSE n \in ObjectsNamed(after, op.name) : TRUE)
                    ELSE r.temps
      /\ r2.next_pointer = IF op.kind = "CreatePointer" THEN r.next_pointer + 1 ELSE r.next_pointer
  BY <1>1 DEF ResolveStep
<1>3. /\ r2.items \in Seq(Range(r2.items))
      /\ WriteSet(r2.items) = WriteSet(r.items) \cup item.writes
  BY <1>2, WritesMore DEF Covers
<1>4. WriteSet(r.items) \subseteq WriteSet(r2.items) /\ item.writes \subseteq WriteSet(r2.items)
  BY <1>3
<1>5. r.temps = g.temps /\ r.next_pointer = Len(g.snap.pointers) + 1
  BY DEF Covers
<1>6. CASE op.kind \in {"InternType", "InternRelation", "EmitEvent", "AssertFact"}
  <2>1. /\ h.snap.objects = g.snap.objects /\ h.snap.pointers = g.snap.pointers
        /\ h.temps = g.temps
    <3>1. CASE op.kind = "InternType"
      <4>1. h = OverlayIntern(g, "types", op)
        BY <1>0, <3>1 DEF OverlayStep, ObjectOps, PointerOps, NoError, Fine
      <4>2. PICK id : id = IF op.id # NoId THEN op.id ELSE NextSymbol(g.snap["types"])
        OBVIOUS
      <4>3. \/ h = g
            \/ OverlayBecomes(g, h, Bind(g.snap.types, id, op.name), g.snap.relations,
                              g.snap.objects, g.snap.pointers, g.temps)
        BY <4>1, <4>2, OverlayInterns
      <4> QED BY <4>3 DEF OverlayBecomes
    <3>2. CASE op.kind = "InternRelation"
      <4>1. h = OverlayIntern(g, "relations", op)
        BY <1>0, <3>2 DEF OverlayStep, ObjectOps, PointerOps, NoError, Fine
      <4>2. PICK id : id = IF op.id # NoId THEN op.id ELSE NextSymbol(g.snap["relations"])
        OBVIOUS
      <4>3. \/ h = g
            \/ OverlayBecomes(g, h, g.snap.types, Bind(g.snap.relations, id, op.name),
                              g.snap.objects, g.snap.pointers, g.temps)
        BY <4>1, <4>2, OverlayInterns
      <4> QED BY <4>3 DEF OverlayBecomes
    <3>3. CASE op.kind = "EmitEvent"
      <4>1. h = g
        BY <1>0, <3>3 DEF OverlayStep, ObjectOps, PointerOps, NoError, Fine
      <4> QED BY <4>1
    <3>4. CASE op.kind = "AssertFact"
      <4>1. h = IF op.fact \in Facts(g.snap) THEN g ELSE Fail(g, "InvalidSymbol")
        BY <1>0, <3>4 DEF OverlayStep, ObjectOps, PointerOps, NoError, Fine
      <4>2. Fail(g, "InvalidSymbol").error = "InvalidSymbol"
        BY Fails
      <4>3. h = g
        BY <4>1, <4>2 DEF NoError, Fine
      <4> QED BY <4>3
    <3> QED BY <1>6, <3>1, <3>2, <3>3, <3>4
  <2>2. r2.temps = h.temps /\ r2.next_pointer = Len(h.snap.pointers) + 1
    BY <1>2, <1>5, <1>6, <2>1
  <2> QED BY <1>3, <1>4, <2>1, <2>2, CoversOn
<1>7. CASE op.kind = "CreateObject"
  <2>1. h = OverlayCreate(g, op)
    BY <1>0, <1>7 DEF OverlayStep, ObjectOps, PointerOps, NoError, Fine
  <2>2. PICK x, id : x = NewObject(op, Range(op.attrs)) /\ id = Len(g.snap.objects) + 1
    OBVIOUS
  <2>3. /\ ObjectsNamed(g.snap, op.name) = {}
        /\ OverlayBecomes(g, h, g.snap.types, g.snap.relations, Append(g.snap.objects, x),
                          g.snap.pointers, Bind(g.temps, op.temp, id))
    BY <2>1, <2>2, OverlayCreates
  <2>4. /\ h.snap.objects = Append(g.snap.objects, x) /\ h.snap.pointers = g.snap.pointers
        /\ h.temps = Bind(g.temps, op.temp, id)
    BY <2>3 DEF OverlayBecomes
  <2>5. g.snap.objects \in Seq(Range(g.snap.objects)) /\ x.name = op.name
    BY <2>2 DEF OverlayOK, ItemsOK, NewObject
  <2>6. id \in DOMAIN after.objects /\ ObjectsNamed(after, op.name) = {id}
    <3>1. OneMore(g.snap.objects, x, h.snap.objects)
      BY <2>4, <2>5, Appended
    <3>2. HasOneMore(g.snap, h.snap, x, id)
      BY <2>2, <3>1 DEF HasOneMore
    <3> QED BY <2>3, <2>5, <3>2, CreatedIsNamed
  <2>7. r2.temps = h.temps /\ r2.next_pointer = Len(h.snap.pointers) + 1
    <3>1. (CHOOSE n \in {id} : TRUE) = id
      OBVIOUS
    <3>2. r2.temps = Bind(r.temps, op.temp, id)
      BY <1>2, <1>7, <2>6, <3>1
    <3> QED BY <1>2, <1>5, <1>7, <2>4, <3>2
  <2>8. item.writes = ObjectFacts(after, id)
    <3>1. item = Item({}, UNION {ObjectFacts(after, n) : n \in ObjectsNamed(after, op.name)})
      BY <1>1, <1>7 DEF OperationFacts, ObjectOps, PointerOps
    <3>2. item.writes = UNION {ObjectFacts(after, n) : n \in {id}}
      BY <2>6, <3>1 DEF Item
    <3>3. \A f \in {ObjectFacts(after, n) : n \in {id}} : f = ObjectFacts(after, id)
      OBVIOUS
    <3>4. ObjectFacts(after, id) \in {ObjectFacts(after, n) : n \in {id}}
      OBVIOUS
    <3> QED BY <3>2, <3>3, <3>4
  <2>9. OneMore(g.snap.objects, x, h.snap.objects)
    BY <2>4, <2>5, Appended
  <2>10. ASSUME NEW n \in DOMAIN h.snap.objects
         PROVE  \/ n \in DOMAIN g.snap.objects /\ h.snap.objects[n] = g.snap.objects[n]
                \/ ObjectFactsIn(after, n) \subseteq WriteSet(r2.items)
    <3>1. CASE n \in DOMAIN g.snap.objects
      BY <2>9, <3>1 DEF OneMore
    <3>2. CASE n \notin DOMAIN g.snap.objects
      <4>1. n = id
        BY <2>2, <2>9, <3>2 DEF OneMore
      <4>2. ObjectFactsIn(after, n) = item.writes
        BY <2>6, <2>8, <4>1 DEF ObjectFactsIn
      <4> QED BY <1>4, <4>2
    <3> QED BY <3>1, <3>2
  <2> QED BY <1>3, <1>4, <2>4, <2>7, <2>10, CoversOn
<1>8. CASE op.kind = "CreatePointer"
  <2>1. h = OverlayLink(g, op)
    BY <1>0, <1>8 DEF OverlayStep, ObjectOps, PointerOps, NoError, Fine
  <2>2. PICK from, to : /\ from = Resolve(g.snap.objects, g.temps, op.from)
                        /\ to = Resolve(g.snap.objects, g.temps, op.to)
    OBVIOUS
  <2>3. PICK x : x = NewPointer(op, from, to, g.snap.epoch, Range(op.attrs))
    OBVIOUS
  <2>4. OverlayBecomes(g, h, g.snap.types, g.snap.relations, g.snap.objects,
                       Append(g.snap.pointers, x), g.temps)
    BY <2>1, <2>2, <2>3, OverlayLinks
  <2>5. /\ h.snap.objects = g.snap.objects /\ h.snap.pointers = Append(g.snap.pointers, x)
        /\ h.temps = g.temps
    BY <2>4 DEF OverlayBecomes
  <2>6. OneMore(g.snap.pointers, x, h.snap.pointers)
    <3>1. g.snap.pointers \in Seq(Range(g.snap.pointers))
      BY DEF OverlayOK, ItemsOK
    <3> QED BY <2>5, <3>1, Appended
  <2>7. r2.temps = h.temps /\ r2.next_pointer = Len(h.snap.pointers) + 1
    <3>1. Len(h.snap.pointers) = Len(g.snap.pointers) + 1
      BY <2>6 DEF OneMore
    <3>2. r2.next_pointer = r.next_pointer + 1
      BY <1>2, <1>8
    <3>3. r2.temps = r.temps
      BY <1>2, <1>8
    <3> QED BY <1>5, <2>5, <3>1, <3>2, <3>3
  <2>8. item.writes = PointerFactsIn(after, r.next_pointer)
    BY <1>1, <1>8 DEF OperationFacts, ObjectOps, PointerOps, Item
  <2>9. ASSUME NEW n \in DOMAIN h.snap.pointers
        PROVE  \/ n \in DOMAIN g.snap.pointers /\ h.snap.pointers[n] = g.snap.pointers[n]
               \/ PointerFactsIn(after, n) \subseteq WriteSet(r2.items)
    <3>1. CASE n \in DOMAIN g.snap.pointers
      BY <2>6, <3>1 DEF OneMore
    <3>2. CASE n \notin DOMAIN g.snap.pointers
      <4>1. n = r.next_pointer
        BY <1>5, <2>6, <3>2 DEF OneMore
      <4> QED BY <1>4, <2>8, <4>1
    <3> QED BY <3>1, <3>2
  <2> QED BY <1>3, <1>4, <2>5, <2>7, <2>9, CoversOn
<1>9. CASE op.kind \in ObjectOps
  <2>1. h = OverlayObject(g, op)
    BY <1>0, <1>9 DEF OverlayStep, ObjectOps, PointerOps, NoError, Fine
  <2>2. PICK id : id = Resolve(g.snap.objects, g.temps, op.object)
    OBVIOUS
  <2>3. PICK x : x = ChangedObject(g.snap.objects[id], op)
    OBVIOUS
  <2>4. /\ id # NoId
        /\ OverlayBecomes(g, h, g.snap.types, g.snap.relations, Changed(g.snap.objects, id, x),
                          g.snap.pointers, g.temps)
    BY <1>9, <2>1, <2>2, <2>3, OverlayChangesObject
  <2>5. /\ h.snap.objects = Changed(g.snap.objects, id, x) /\ h.snap.pointers = g.snap.pointers
        /\ h.temps = g.temps
    BY <2>4 DEF OverlayBecomes
  <2>6. op.kind # "CreateObject" /\ op.kind # "CreatePointer"
    BY <1>9 DEF ObjectOps
  <2>7. r2.temps = h.temps /\ r2.next_pointer = Len(h.snap.pointers) + 1
    BY <1>2, <1>5, <2>5, <2>6
  <2>8. /\ DOMAIN h.snap.objects = DOMAIN g.snap.objects
        /\ \A n \in DOMAIN g.snap.objects : n # id => h.snap.objects[n] = g.snap.objects[n]
    <3>1. PICK s : s = g.snap.objects
      OBVIOUS
    <3>2. DOMAIN Changed(s, id, x) = DOMAIN s /\ \A n \in DOMAIN s : n # id => Changed(s, id, x)[n] = s[n]
      BY DEF Changed
    <3> QED BY <2>5, <3>1, <3>2
  <2>9. id \in DOMAIN g.snap.objects =>
          \/ h.snap.objects[id] = g.snap.objects[id]
          \/ ObjectFactsIn(after, id) \subseteq WriteSet(r2.items)
    <3> SUFFICES ASSUME id \in DOMAIN g.snap.objects
                 PROVE  \/ h.snap.objects[id] = g.snap.objects[id]
                        \/ ObjectFactsIn(after, id) \subseteq WriteSet(r2.items)
      OBVIOUS
    <3>1. CASE op.kind = "AssertObject"
      <4>1. x = g.snap.objects[id]
        BY <2>3, <3>1 DEF ChangedObject
      <4>2. g.snap.objects \in Seq(Range(g.snap.objects))
        BY DEF OverlayOK, ItemsOK
      <4>3. Changed(g.snap.objects, id, x) = g.snap.objects
        BY <4>1, <4>2, Unchanged
      <4> QED BY <2>5, <4>3
    <3>2. CASE op.kind # "AssertObject"
      <4>1. PICK object : object = ResolveInEither(before, after, r.temps, op.object)
        OBVIOUS
      <4>2. item.writes = ObjectFactsIn(after, object)
        BY <1>1, <1>9, <3>2, <4>1 DEF OperationFacts, ObjectOps, PointerOps, Item
      <4>3. object = id
        <5>1. op.object.tag \in {"id", "temp"}
          BY <1>9 DEF OpOK
        <5>2. id \in DOMAIN after.objects
          BY <2>8 DEF Extends
        <5>3. CASE op.object.tag = "id"
          BY <2>2, <2>4, <4>1, <5>2, <5>3 DEF Resolve, ResolveInEither
        <5>4. CASE op.object.tag = "temp"
          BY <1>5, <2>2, <4>1, <5>4 DEF Resolve, ResolveInEither
        <5> QED BY <5>1, <5>3, <5>4
      <4> QED BY <1>4, <4>2, <4>3
    <3> QED BY <3>1, <3>2
  <2>10. ASSUME NEW n \in DOMAIN h.snap.objects
         PROVE  \/ n \in DOMAIN g.snap.objects /\ h.snap.objects[n] = g.snap.objects[n]
                \/ ObjectFactsIn(after, n) \subseteq WriteSet(r2.items)
    BY <2>8, <2>9
  <2> QED BY <1>3, <1>4, <2>5, <2>7, <2>10, CoversOn
<1>10. CASE op.kind \in PointerOps
  <2>1. h = OverlayPointer(g, op)
    BY <1>0, <1>10 DEF OverlayStep, ObjectOps, PointerOps, NoError, Fine
  <2>2. PICK x : x = ChangedPointer(g.snap.pointers[op.id], op, g.snap.epoch)
    OBVIOUS
  <2>3. OverlayBecomes(g, h, g.snap.types, g.snap.relations, g.snap.objects,
                       Changed(g.snap.pointers, op.id, x), g.temps)
    BY <1>10, <2>1, <2>2, OverlayChangesPointer
  <2>4. /\ h.snap.objects = g.snap.objects /\ h.snap.pointers = Changed(g.snap.pointers, op.id, x)
        /\ h.temps = g.temps
    BY <2>3 DEF OverlayBecomes
  <2>5. op.kind # "CreateObject" /\ op.kind # "CreatePointer"
    BY <1>10 DEF PointerOps
  <2>6. PICK s : s = g.snap.pointers /\ s \in Seq(Range(s))
    BY DEF OverlayOK, ItemsOK
  <2>7. PICK t : t = Changed(s, op.id, x)
    OBVIOUS
  <2>8. DOMAIN t = DOMAIN s /\ \A n \in DOMAIN s : n # op.id => t[n] = s[n]
    BY <2>7 DEF Changed
  <2>9. op.id \in DOMAIN s
    BY <1>10, <2>1, <2>6, OverlayChangesPointer
  <2>10. Len(t) = Len(s)
    <3>1. t \in Seq(Range(t))
      BY <2>6, <2>7, <2>9, Replaced DEF Changed
    <3>2. PICK m \in Nat, n \in Nat : m = Len(t) /\ n = Len(s) /\ 1..m = 1..n
      BY <2>6, <2>8, <3>1, SequenceShape
    <3>3. m = n
      <4>1. (m # 0 => m \in 1..m) /\ (n # 0 => n \in 1..n)
        OBVIOUS
      <4>2. (m # 0 => m <= n) /\ (n # 0 => n <= m)
        BY <3>2, <4>1
      <4> QED BY <4>2
    <3> QED BY <3>2, <3>3
  <2>11. r2.temps = h.temps /\ r2.next_pointer = Len(h.snap.pointers) + 1
    BY <1>2, <1>5, <2>4, <2>5, <2>6, <2>7, <2>10
  <2>12. t[op.id] = s[op.id] \/ PointerFactsIn(after, op.id) \subseteq WriteSet(r2.items)
    <3>1. CASE op.kind = "AssertPointer"
      <4>1. x = s[op.id]
        BY <2>2, <2>6, <3>1 DEF ChangedPointer
      <4>2. t = s
        BY <2>6, <2>7, <4>1, Unchanged
      <4> QED BY <4>2
    <3>2. CASE op.kind # "AssertPointer"
      <4>1. item.writes = PointerFactsIn(after, op.id)
        BY <1>1, <1>10, <3>2 DEF OperationFacts, ObjectOps, PointerOps, Item
      <4> QED BY <1>4, <4>1
    <3> QED BY <3>1, <3>2
  <2>13. ASSUME NEW n \in DOMAIN h.snap.pointers
         PROVE  \/ n \in DOMAIN g.snap.pointers /\ h.snap.pointers[n] = g.snap.pointers[n]
                \/ PointerFactsIn(after, n) \subseteq WriteSet(r2.items)
    BY <2>4, <2>6, <2>7, <2>8, <2>12
  <2> QED BY <1>3, <1>4, <2>4, <2>11, <2>13, CoversOn
<1> QED BY <1>6, <1>7, <1>8, <1>9, <1>10 DEF OpOK

(* The snapshots of an overlay, up to its last: each extends those before.  *)
LEMMA ExtendsToLast ==
  ASSUME NEW g, NEW len \in Nat,
         \A i \in 0..len : i # 0 => Extends(g[i - 1].snap, g[i].snap)
  PROVE  \A i \in 0..len : Extends(g[i].snap, g[len].snap)
<1> DEFINE T == {k \in Nat : k <= len => Extends(g[len - k].snap, g[len].snap)}
<1>1. 0 \in T
  BY ExtendsItself
<1>2. ASSUME NEW k \in Nat, k \in T
      PROVE  k + 1 \in T
  <2> SUFFICES ASSUME k + 1 <= len
               PROVE  Extends(g[len - (k + 1)].snap, g[len].snap)
    OBVIOUS
  <2>1. PICK i \in 0..len : i = len - k /\ i # 0 /\ i - 1 = len - (k + 1)
    OBVIOUS
  <2>2. Extends(g[i].snap, g[len].snap) /\ Extends(g[i - 1].snap, g[i].snap)
    BY <1>2, <2>1
  <2>3. Extends(g[i - 1].snap, g[len].snap)
    BY <2>2, ExtendsOn
  <2> QED BY <2>1, <2>3
<1>3. Nat \subseteq T
  <2> HIDE DEF T
  <2> QED BY <1>1, <1>2, ByInduction
<1> SUFFICES ASSUME NEW i \in 0..len PROVE Extends(g[i].snap, g[len].snap)
  OBVIOUS
<1>4. len - i \in T /\ len - (len - i) = i /\ len - i <= len
  <2> HIDE DEF T
  <2> QED BY <1>3
<1> QED BY <1>4

LEMMA CoversStart ==
  ASSUME NEW w, IsWorld(w), NEW after
  PROVE  Covers(w, after, OverlayStart(w), ResolverStart(w))
<1>1. PICK s : s = [w EXCEPT !.epoch = w.epoch + 1]
  OBVIOUS
<1>2. PICK g, r : g = OverlayStart(w) /\ r = ResolverStart(w)
  OBVIOUS
<1>3. s.objects = w.objects /\ s.pointers = w.pointers
  BY <1>1 DEF IsWorld, SnapshotOf
<1>4. g.snap = s /\ g.temps = << >>
  BY <1>1, <1>2 DEF OverlayStart
<1>5. r.items = << >> /\ r.temps = << >> /\ r.next_pointer = Len(w.pointers) + 1
  BY <1>2 DEF ResolverStart
<1>6. r.items \in Seq(Range(r.items))
  BY <1>5
<1> QED BY <1>2, <1>3, <1>4, <1>5, <1>6 DEF Covers

LEMMA CoversRun ==
  ASSUME NEW w, IsWorld(w), NEW d, DeltaOK(d), NEW len \in Nat, len = Len(d),
         NEW g, IsOverlay(g, w, d, len), NEW after,
         \A i \in 0..len : OverlayOK(g[i]) /\ Extends(g[i].snap, after),
         NEW r, IsResolver(r, w, after, d, len)
  PROVE  Covers(w, after, g[len], r[len])
<1>1. /\ g[0] = OverlayStart(w)
      /\ \A i \in 0..len : i # 0 => g[i] = OverlayStep(g[i - 1], d[i])
  BY OverlaysStep
<1>2. /\ r[0] = ResolverStart(w)
      /\ \A i \in 0..len : i # 0 => r[i] = ResolveStep(w, after, r[i - 1], d[i])
  BY DEF IsResolver
<1>3. \A i \in 1..len : OpOK(d[i])
  BY SequenceShape DEF DeltaOK, Range
<1> DEFINE T == {i \in Nat : i <= len => Covers(w, after, g[i], r[i])}
<1>5. 0 \in T
  BY <1>1, <1>2, CoversStart
<1>6. ASSUME NEW i \in Nat, i \in T
      PROVE  i + 1 \in T
  <2> SUFFICES ASSUME i + 1 <= len
               PROVE  Covers(w, after, g[i + 1], r[i + 1])
    OBVIOUS
  <2>1. PICK g1, h, r1, r2, op : /\ g1 = g[i] /\ h = g[i + 1] /\ r1 = r[i] /\ r2 = r[i + 1]
                                 /\ op = d[i + 1]
    OBVIOUS
  <2>2. i + 1 \in 0..len /\ i + 1 # 0 /\ i + 1 \in 1..len /\ (i + 1) - 1 = i /\ i \in 0..len
    OBVIOUS
  <2>3. h = OverlayStep(g1, op) /\ r2 = ResolveStep(w, after, r1, op) /\ OpOK(op)
    BY <1>1, <1>2, <1>3, <2>1, <2>2
  <2>4. OverlayOK(g1) /\ OverlayOK(h) /\ Extends(h.snap, after)
    BY <2>1, <2>2
  <2>5. NoError(h)
    BY <2>4 DEF OverlayOK, NoError
  <2>6. Covers(w, after, g1, r1)
    BY <1>6, <2>1, <2>2
  <2>7. Covers(w, after, h, r2)
    BY <2>3, <2>4, <2>5, <2>6, CoversStep
  <2> QED BY <2>1, <2>7
<1>7. Nat \subseteq T
  <2> HIDE DEF T
  <2> QED BY <1>5, <1>6, ByInduction
<1> QED BY <1>7

(* The facts that the snapshot restamps: of the objects gone before it.    *)
Restamped(before, after) ==
  UNION {ObjectFacts(after, n) :
           n \in {m \in DOMAIN before.objects : before.objects[m].existence = "Tombstoned"}}

LEMMA FactsCovered ==
  ASSUME NEW w, NEW v, NEW g, NEW r, Covers(w, g.snap, g, r), Predicts(g.snap, v)
  PROVE  Facts(v) \subseteq Facts(w) \cup WriteSet(r.items) \cup Restamped(w, v)
<1>1. PICK s : s = g.snap
  OBVIOUS
<1>2. ASSUME NEW n \in DOMAIN v.objects
      PROVE  ObjectFacts(v, n) \subseteq Facts(w) \cup WriteSet(r.items) \cup Restamped(w, v)
  <2>1. n \in DOMAIN s.objects /\ ObjectFacts(v, n) \subseteq ObjectFacts(s, n)
    BY <1>1, FactsPredicted DEF Predicts, ObjectsAgree, AsLong
  <2>2. CASE ObjectFactsIn(s, n) \subseteq WriteSet(r.items)
    BY <2>1, <2>2 DEF ObjectFactsIn
  <2>3. CASE n \in DOMAIN w.objects /\ s.objects[n] = w.objects[n]
    <3>1. CASE w.objects[n].existence = "Tombstoned"
      BY <2>3, <3>1 DEF Restamped
    <3>2. CASE w.objects[n].existence # "Tombstoned"
      <4>1. ObjectFacts(s, n) = ObjectFacts(w, n)
        BY <2>3, <3>2 DEF ObjectFacts
      <4>2. ObjectFacts(w, n) \subseteq Facts(w)
        BY <2>3 DEF Facts
      <4> QED BY <2>1, <4>1, <4>2
    <3> QED BY <3>1, <3>2
  <2> QED BY <1>1, <2>1, <2>2, <2>3 DEF Covers
<1>3. ASSUME NEW n \in DOMAIN v.pointers
      PROVE  PointerFacts(v, n) \subseteq Facts(w) \cup WriteSet(r.items)
  <2>1. n \in DOMAIN s.pointers /\ PointerFacts(v, n) \subseteq PointerFacts(s, n)
    BY <1>1, FactsPredicted DEF Predicts, PointersAgree, AsLong
  <2>2. CASE PointerFactsIn(s, n) \subseteq WriteSet(r.items)
    BY <2>1, <2>2 DEF PointerFactsIn
  <2>3. CASE n \in DOMAIN w.pointers /\ s.pointers[n] = w.pointers[n]
    <3>1. PointerFacts(s, n) = PointerFacts(w, n)
      BY <2>3 DEF PointerFacts
    <3>2. PointerFacts(w, n) \subseteq Facts(w)
      BY <2>3 DEF Facts
    <3> QED BY <2>1, <3>1, <3>2
  <2> QED BY <1>1, <2>1, <2>2, <2>3 DEF Covers
<1> QED BY <1>2, <1>3 DEF Facts

(* What a proof says of the world v that its delta leads to from w.        *)
ProofTells(proof, w, v) ==
  /\ proof.after_root = WorldRoot(SnapshotOf(v)) \/ RepeatsKey(proof.after_root)
  /\ Facts(SnapshotOf(v)) \subseteq Facts(w) \cup proof.writes \cup Restamped(w, SnapshotOf(v))

LEMMA ProofIsExact ==
  ASSUME NEW w, IsWorld(w), NEW d, DeltaOK(d), OverlayAccepts(w, d), NEW statuses,
         NEW v, IsWorld(v), ~ApplyDelta(w, d).thrown, v = ApplyDelta(w, d).world
  PROVE  ProofTells(CommitProof(w, After(w, d), d, statuses), w, v)
<1>1. PICK len \in Nat : len = Len(d)
  BY SequenceShape DEF DeltaOK
<1>2. PICK g : IsOverlay(g, w, d, len) /\ Overlay(w, d) = g[len]
  BY <1>1, OverlayIsRun
<1>3. NoError(g[len]) /\ After(w, d) = g[len].snap
  BY <1>2 DEF OverlayAccepts, NoError, Fine, After
<1>4. PICK f : /\ IsRun(f, w, d, len)
               /\ ApplyDelta(w, d) = IF f[len].thrown THEN f[len]
                                     ELSE [f[len] EXCEPT !.world.epoch = @ + 1]
  BY <1>1, DeltaIsRun
<1>5. ~f[len].thrown
  BY <1>4
<1>6. /\ \A i \in 0..len : OverlayOK(g[i]) /\ StateOK(f[i]) /\ Agrees(g[i], f[i])
      /\ \A i \in 0..len : i # 0 => Extends(g[i - 1].snap, g[i].snap)
  BY <1>1, <1>2, <1>3, <1>4, <1>5, BothRun
<1>7. PICK h, u, s : h = g[len] /\ u = f[len] /\ s = h.snap
  OBVIOUS
<1>8. OverlayOK(h) /\ StateOK(u) /\ Agrees(h, u)
  BY <1>6, <1>7
<1>9. v = [u.world EXCEPT !.epoch = u.world.epoch + 1]
  BY <1>4, <1>5, <1>7, <1>8 DEF StateOK
<1>10. /\ v.epoch = u.world.epoch + 1 /\ v.types = u.world.types
       /\ v.relations = u.world.relations /\ v.objects = u.world.objects
       /\ v.pointers = u.world.pointers
  BY <1>8, <1>9 DEF StateOK, IsWorld, SnapshotOf
<1>11. Predicts(s, v)
  BY <1>7, <1>8, <1>10 DEF Predicts, Agrees, OverlayOK
<1>12. PICK r : IsResolver(r, w, s, d, len) /\ ResolveOperations(w, s, d) = r[len].items
  BY <1>1, ItemsAreRun
<1>13. Covers(w, s, h, r[len])
  <2>1. \A i \in 0..len : Extends(g[i].snap, s)
    BY <1>6, <1>7, ExtendsToLast
  <2> QED BY <1>1, <1>2, <1>6, <1>7, <1>12, <2>1, CoversRun
<1>14. Facts(v) \subseteq Facts(w) \cup WriteSet(r[len].items) \cup Restamped(w, v)
  BY <1>7, <1>11, <1>13, FactsCovered
<1>15. PICK proof : proof = CommitProof(w, After(w, d), d, statuses)
  OBVIOUS
<1>16. proof.after_root = WorldRoot(s) /\ proof.writes = WriteSet(r[len].items)
  BY <1>3, <1>7, <1>12, <1>15 DEF CommitProof
<1>17. proof.after_root = WorldRoot(SnapshotOf(v)) \/ RepeatsKey(proof.after_root)
  BY <1>11, <1>16, RootsMatch
<1>18. SnapshotOf(v) = v
  BY DEF IsWorld
<1> QED BY <1>14, <1>15, <1>16, <1>17, <1>18 DEF ProofTells

-----------------------------------------------------------------------------
(* What a call to commit does.                                             *)

(* The world v that a delta leads to from w, one epoch later.              *)
Moved(w, v, d) ==
  /\ IsWorld(v) /\ v.epoch = w.epoch + 1
  /\ Grows(w.relations, v.relations) /\ OldKept(w, v, d, Len(d)) /\ NamesInterned(v, d, Len(d))
  /\ \E by : NewlyLinked(w, v, d, Len(d), by)

LEMMA WorldMovesOn ==
  ASSUME NEW v, IsWorld(v), NEW e \in Nat, NEW u, u = [v EXCEPT !.epoch = e]
  PROVE  /\ IsWorld(u) /\ u.epoch = e /\ u.relations = v.relations /\ u.pointers = v.pointers
<1>1. v = [epoch |-> v.epoch, types |-> v.types, relations |-> v.relations,
           objects |-> v.objects, pointers |-> v.pointers]
  BY DEF IsWorld, SnapshotOf
<1>2. /\ u = [epoch |-> u.epoch, types |-> u.types, relations |-> u.relations,
              objects |-> u.objects, pointers |-> u.pointers]
      /\ u.epoch = e /\ u.types = v.types /\ u.relations = v.relations
      /\ u.objects = v.objects /\ u.pointers = v.pointers
  BY <1>1
<1>3. \A n \in DOMAIN u.objects : IsObject(u.objects[n], u)
  BY <1>2 DEF IsWorld, IsObject
<1>4. \A n \in DOMAIN u.pointers : IsPointer(u.pointers[n], u)
  BY <1>2 DEF IsWorld, IsPointer
<1> QED BY <1>2, <1>3, <1>4 DEF IsWorld, SnapshotOf

LEMMA DeltaMoves ==
  ASSUME NEW w, IsWorld(w), NEW d, DeltaOK(d), ~ApplyDelta(w, d).thrown
  PROVE  Moved(w, ApplyDelta(w, d).world, d) /\ ApplyDelta(w, d).thrown = FALSE
<1>1. PICK st : st = ApplyDelta(w, d)
  OBVIOUS
<1>2. PICK v : /\ IsWorld(v) /\ Came(w, v, d, Len(d))
               /\ st.world = [v EXCEPT !.epoch = w.epoch + 1] /\ st.thrown = FALSE
  BY <1>1, DeltaDone
<1>3. PICK u : u = st.world
  OBVIOUS
<1>4. IsWorld(u) /\ u.epoch = w.epoch + 1 /\ u.relations = v.relations /\ u.pointers = v.pointers
  <2>1. w.epoch + 1 \in Nat
    BY DEF IsWorld
  <2> QED BY <1>2, <1>3, <2>1, WorldMovesOn
<1>5. Moved(w, u, d)
  BY <1>2, <1>4 DEF Moved, Came, OldKept, NamesInterned, NewlyLinked
<1> QED BY <1>1, <1>2, <1>3, <1>5

(* The result of a call: nothing, or the whole delta, done to the very     *)
(* world it was prepared against, and as its proof says.                   *)
Result(w, d, r) ==
  /\ r.thrown = FALSE
  /\ \/ r.accepted = FALSE /\ r.world = w
     \/ /\ r.accepted = TRUE /\ r.before = w /\ Moved(w, r.world, d)
        /\ ProofTells(r.proof, w, r.world)

LEMMA CommitResult ==
  ASSUME NEW w, IsWorld(w), NEW w0, IsWorld(w0), NEW tx, DeltaOK(tx.delta),
         NEW p, p = Prepared(w0, tx), NEW r, r = CommitTo(w, p)
  PROVE  Result(w, tx.delta, r)
<1>1. SnapshotOf(w) = w /\ SnapshotOf(w0) = w0
  BY DEF IsWorld
<1>2. p.before = w0 /\ p.tx = tx /\ p.refusal = RefusalOf(w0, tx)
  BY <1>1 DEF Prepared
<1>3. \A reason : Rejected(w, p, reason).thrown = FALSE /\ Rejected(w, p, reason).accepted = FALSE
                  /\ Rejected(w, p, reason).world = w
  BY DEF Rejected
<1>4. CASE SnapshotOf(w) # p.before
  BY <1>3, <1>4 DEF CommitTo, Result
<1>5. CASE SnapshotOf(w) = p.before /\ p.refusal # "none"
  BY <1>3, <1>5 DEF CommitTo, Result
<1>6. CASE SnapshotOf(w) = p.before /\ p.refusal = "none"
  <2>1. w = w0
    BY <1>1, <1>2, <1>6
  <2>2. ~ApplyDelta(w, tx.delta).thrown
    BY <1>2, <1>6, <2>1 DEF RefusalOf
  <2>3. Moved(w, ApplyDelta(w, tx.delta).world, tx.delta) /\ ApplyDelta(w, tx.delta).thrown = FALSE
    BY <2>2, DeltaMoves
  <2>4. /\ r.accepted = TRUE /\ r.thrown = FALSE /\ r.before = w /\ r.proof = p.proof
        /\ r.world = ApplyDelta(w, tx.delta).world
    BY <1>2, <1>6, <2>1, <2>3 DEF CommitTo
  <2>5. PICK statuses : p.proof = CommitProof(w, After(w, tx.delta), tx.delta, statuses)
    BY <1>1, <1>2, <1>6, <2>1 DEF Prepared
  <2>6. OverlayAccepts(w, tx.delta)
    BY <1>1, <1>2, <1>6, <2>1 DEF RefusalOf
  <2>7. IsWorld(r.world)
    BY <2>3, <2>4 DEF Moved
  <2>8. ProofTells(r.proof, w, r.world)
    BY <2>2, <2>4, <2>5, <2>6, <2>7, ProofIsExact
  <2> QED BY <2>3, <2>4, <2>8 DEF Result
<1> QED BY <1>4, <1>5, <1>6

LEMMA EvolutionDeltaOK ==
  ASSUME NEW s, IsWorld(s)
  PROVE  DeltaOK(EvolutionDelta(s))
<1>1. PICK d, r : d = EvolutionDelta(s) /\ Evolves(s, d, r)
  BY EvolutionEvolves
<1>2. ASSUME NEW op \in Range(d) PROVE OpOK(op)
  <2>1. CASE op = InternOp(r) /\ r \in Nat
    BY <2>1 DEF InternOp, OpOK, ObjectOps
  <2>2. CASE \E n \in Stale(s, r) : op = ExpireOp(n)
    BY <2>2 DEF ExpireOp, OpOK, PointerOps, ObjectOps
  <2>3. CASE \E n \in Nat : op = LoopOp(n, r)
    <3>1. op.kind = "CreatePointer" /\ op.attrs = << >>
      BY <2>3 DEF LoopOp
    <3>2. op.attrs \in Seq(Range(op.attrs))
      BY <3>1
    <3> QED BY <3>1, <3>2 DEF OpOK, ObjectOps
  <2>4. CASE op.kind = "EmitEvent"
    BY <2>4 DEF OpOK, ObjectOps
  <2> QED BY <1>1, <2>1, <2>2, <2>3, <2>4 DEF Evolves
<1> QED BY <1>1, <1>2 DEF DeltaOK, Evolves

-----------------------------------------------------------------------------
(* The invariant of transactions.                                          *)

PreparedOK ==
  /\ prepared = [c \in Callers |-> prepared[c]]
  /\ \A c \in Callers :
       \/ prepared[c] = Nothing
       \/ \E w, tx : IsWorld(w) /\ tx.delta \in Deltas /\ prepared[c] = Prepared(w, tx)

(* The world is the one the last call left.                                *)
CommitsStand ==
  /\ commits \in Seq(Range(commits)) /\ Len(commits) <= MaxCommits
  /\ world = IF Len(commits) = 0 THEN InitialWorld ELSE commits[Len(commits)].world

ProofsTell == \A n \in DOMAIN commits :
  commits[n].accepted => ProofTells(commits[n].proof, commits[n].before, commits[n].world)

TransactionInv ==
  /\ IsWorld(world) /\ PreparedOK /\ CommitsStand /\ NoLostUpdate /\ NoHalfAppliedDelta
  /\ ProofsTell

(* The call that a step of the model makes.                                *)
Called(d, r) == Result(world, d, r) /\ Finish(r) /\ Len(commits) < MaxCommits

LEMMA CallKeeps ==
  ASSUME MaxCommits \in Nat, TransactionInv, NEW d, NEW r, Called(d, r)
  PROVE  IsWorld(world)' /\ CommitsStand' /\ NoLostUpdate' /\ NoHalfAppliedDelta' /\ ProofsTell'
<1>1. PICK len \in Nat : len = Len(commits) /\ DOMAIN commits = 1..len
  BY SequenceShape DEF TransactionInv, CommitsStand
<1>2. OneMore(commits, r, commits')
  BY Appended DEF TransactionInv, CommitsStand, Called, Finish
<1>3. /\ commits' \in Seq(Range(commits')) /\ Len(commits') = len + 1
      /\ DOMAIN commits' = 1..len \cup {len + 1} /\ len + 1 \notin 1..len
      /\ commits'[len + 1] = r /\ \A n \in 1..len : commits'[n] = commits[n]
  BY <1>1, <1>2 DEF OneMore
<1>4. world' = r.world /\ IsWorld(r.world)
  BY DEF TransactionInv, Called, Finish, Result, Moved
<1>5. CommitsStand'
  <2>1. len + 1 <= MaxCommits
    BY <1>1 DEF Called
  <2>2. Len(commits') # 0
    BY <1>3
  <2> QED BY <1>3, <1>4, <2>1, <2>2 DEF CommitsStand
<1>6. NoLostUpdate'
  <2> SUFFICES ASSUME NEW n \in DOMAIN commits', commits'[n].accepted
               PROVE  commits'[n].before = IF n = 1 THEN SnapshotOf(InitialWorld)
                                           ELSE SnapshotOf(commits'[n - 1].world)
    BY DEF NoLostUpdate
  <2>1. CASE n \in 1..len
    <3>1. n # 1 => n - 1 \in 1..len
      BY <2>1
    <3> QED BY <1>1, <1>3, <2>1, <3>1 DEF TransactionInv, NoLostUpdate
  <2>2. CASE n = len + 1
    <3>1. r.before = world /\ world = SnapshotOf(world)
      BY <1>3, <2>2 DEF TransactionInv, IsWorld, Called, Result
    <3>2. CASE len = 0
      BY <1>1, <1>3, <2>2, <3>1, <3>2 DEF TransactionInv, CommitsStand
    <3>3. CASE len # 0
      <4>1. len \in 1..len /\ n - 1 = len /\ n # 1
        BY <2>2, <3>3
      <4>2. world = commits'[len].world
        BY <1>1, <1>3, <3>3, <4>1 DEF TransactionInv, CommitsStand
      <4> QED BY <1>3, <2>2, <3>1, <4>1, <4>2
    <3> QED BY <3>2, <3>3
  <2> QED BY <1>3, <2>1, <2>2
<1>7. NoHalfAppliedDelta'
  <2> SUFFICES ASSUME NEW n \in DOMAIN commits' PROVE ~commits'[n].thrown
    BY DEF NoHalfAppliedDelta, Range
  <2>1. CASE n \in 1..len
    BY <1>1, <1>3, <2>1 DEF TransactionInv, NoHalfAppliedDelta, Range
  <2>2. CASE n = len + 1
    BY <1>3, <2>2 DEF Called, Result
  <2> QED BY <1>3, <2>1, <2>2
<1>8. ProofsTell'
  <2> SUFFICES ASSUME NEW n \in DOMAIN commits', commits'[n].accepted
               PROVE  ProofTells(commits'[n].proof, commits'[n].before, commits'[n].world)
    BY DEF ProofsTell
  <2>1. CASE n \in 1..len
    BY <1>1, <1>3, <2>1 DEF TransactionInv, ProofsTell
  <2>2. CASE n = len + 1
    BY <1>3, <2>2 DEF Called, Result
  <2> QED BY <1>3, <2>1, <2>2
<1> QED BY <1>4, <1>5, <1>6, <1>7, <1>8

(* Every step of the model prepares, or makes a call, or does nothing.     *)
LEMMA CommitCalls ==
  ASSUME DeltasAssumption, TransactionInv, NEW c \in Callers, Commit(c)
  PROVE  \E d \in Deltas : \E r : Called(d, r)
<1>1. PICK w, tx : IsWorld(w) /\ tx.delta \in Deltas /\ prepared[c] = Prepared(w, tx)
  BY DEF TransactionInv, PreparedOK, Commit
<1>2. DeltaOK(tx.delta)
  BY <1>1 DEF DeltasAssumption, DeltaOK
<1>3. PICK p, r : p = Prepared(w, tx) /\ r = CommitTo(world, p)
  OBVIOUS
<1>4. Result(world, tx.delta, r)
  BY <1>1, <1>2, <1>3, CommitResult DEF TransactionInv
<1>5. Called(tx.delta, r)
  BY <1>1, <1>3, <1>4 DEF Called, Commit
<1> QED BY <1>1, <1>5

LEMMA EvolveCalls ==
  ASSUME TransactionInv, Evolve
  PROVE  \E r : Called(EvolutionDelta(world), r)
<1>1. world = SnapshotOf(world) /\ IsWorld(world)
  BY DEF TransactionInv, IsWorld
<1>2. PICK tx : tx = [delta |-> EvolutionDelta(SnapshotOf(world)), allow_empty |-> TRUE,
                      base_epoch |-> AnyEpoch]
  OBVIOUS
<1>3. tx.delta = EvolutionDelta(world) /\ DeltaOK(tx.delta)
  BY <1>1, <1>2, EvolutionDeltaOK
<1>4. PICK p, r : p = Prepared(world, tx) /\ r = CommitTo(world, p)
  OBVIOUS
<1>5. Result(world, tx.delta, r)
  BY <1>1, <1>3, <1>4, CommitResult
<1> QED BY <1>2, <1>3, <1>4, <1>5 DEF Called, Evolve

LEMMA PrepareKeeps ==
  ASSUME TransactionInv, NEW c \in Callers, Prepare(c)
  PROVE  TransactionInv'
<1>1. PICK delta \in Deltas, base \in {AnyEpoch, world.epoch - 1, world.epoch},
           empty_ok \in BOOLEAN :
        prepared' = [prepared EXCEPT ![c] =
                       Prepared(world, [delta |-> delta, allow_empty |-> empty_ok,
                                        base_epoch |-> base])]
  BY DEF Prepare
<1>2. PICK tx : tx = [delta |-> delta, allow_empty |-> empty_ok, base_epoch |-> base]
  OBVIOUS
<1>3. PICK p : p = Prepared(world, tx)
  OBVIOUS
<1>4. prepared' = [prepared EXCEPT ![c] = p] /\ tx.delta \in Deltas
  BY <1>1, <1>2, <1>3
<1>5. world' = world /\ commits' = commits
  BY DEF Prepare
<1>6. PreparedOK'
  <2>1. prepared' = [x \in Callers |-> prepared'[x]]
    BY <1>4 DEF TransactionInv, PreparedOK
  <2>2. prepared'[c] = p /\ \A x \in Callers : x # c => prepared'[x] = prepared[x]
    BY <1>4 DEF TransactionInv, PreparedOK
  <2>3. IsWorld(world) /\ tx.delta \in Deltas /\ prepared'[c] = Prepared(world, tx)
    BY <1>3, <1>4, <2>2 DEF TransactionInv
  <2> QED BY <2>1, <2>2, <2>3 DEF TransactionInv, PreparedOK
<1> QED BY <1>5, <1>6 DEF TransactionInv, CommitsStand, NoLostUpdate, NoHalfAppliedDelta, ProofsTell

LEMMA NextTransactionInv ==
  ASSUME DeltasAssumption, MaxCommits \in Nat, TransactionInv, [Next]_vars
  PROVE  TransactionInv'
<1>1. CASE Evolve
  <2>1. PICK r : Called(EvolutionDelta(world), r)
    BY <1>1, EvolveCalls
  <2>2. PreparedOK'
    BY <1>1 DEF Evolve, TransactionInv, PreparedOK
  <2> QED BY <2>1, <2>2, CallKeeps DEF TransactionInv
<1>2. ASSUME NEW c \in Callers, Prepare(c) PROVE TransactionInv'
  BY <1>2, PrepareKeeps
<1>3. ASSUME NEW c \in Callers, Commit(c) PROVE TransactionInv'
  <2>1. PICK d \in Deltas : \E r : Called(d, r)
    BY <1>3, CommitCalls
  <2>3. PICK r : Called(d, r)
    BY <2>1
  <2>2. PreparedOK'
    <3>1. prepared' = [prepared EXCEPT ![c] = Nothing]
      BY <1>3 DEF Commit
    <3> QED BY <3>1 DEF TransactionInv, PreparedOK
  <2> QED BY <2>2, <2>3, CallKeeps DEF TransactionInv
<1>4. CASE UNCHANGED vars
  BY <1>4 DEF vars, TransactionInv, PreparedOK, CommitsStand, NoLostUpdate, NoHalfAppliedDelta,
              ProofsTell
<1> QED BY <1>1, <1>2, <1>3, <1>4 DEF Next

LEMMA InitTransactionInv ==
  ASSUME InitialAssumption, Init
  PROVE  TransactionInv
<1>1. commits = << >> /\ world = InitialWorld /\ prepared = [c \in Callers |-> Nothing]
  BY DEF Init
<1>2. commits \in Seq(Range(commits)) /\ Len(commits) = 0 /\ DOMAIN commits = {}
  BY <1>1
<1>3. CommitsStand
  BY <1>1, <1>2 DEF CommitsStand, InitialAssumption
<1>4. NoLostUpdate /\ NoHalfAppliedDelta /\ ProofsTell
  BY <1>2 DEF NoLostUpdate, NoHalfAppliedDelta, ProofsTell, Range
<1>5. PreparedOK
  BY <1>1 DEF PreparedOK
<1> QED BY <1>1, <1>3, <1>4, <1>5 DEF TransactionInv, InitialAssumption

LEMMA ProofsSay ==
  ASSUME ProofsTell
  PROVE  ProofMatchesWorld /\ WriteSetCovers
<1>1. ASSUME NEW r \in Range(commits), r.accepted
      PROVE  ProofTells(r.proof, r.before, r.world)
  BY <1>1 DEF ProofsTell, Range
<1>2. ProofMatchesWorld
  BY <1>1 DEF ProofMatchesWorld, ProofTells
<1>3. WriteSetCovers
  <2> SUFFICES ASSUME NEW r \in Range(commits), r.accepted
               PROVE  Facts(SnapshotOf(r.world)) \subseteq
                        Facts(r.before) \cup r.proof.writes
                          \cup Restamped(r.before, SnapshotOf(r.world))
    BY DEF WriteSetCovers, Restamped
  <2> QED BY <1>1 DEF ProofTells
<1> QED BY <1>2, <1>3

LEMMA TransactionTypes ==
  ASSUME TransactionInv
  PROVE  TypeOK
<1>1. IsSnapshot(SnapshotOf(world))
  <2>1. world = SnapshotOf(world) /\ IsWorld(world)
    BY DEF TransactionInv, IsWorld
  <2>2. DOMAIN world.types \subseteq Nat /\ DOMAIN world.relations \subseteq Nat
    <3>1. /\ DOMAIN world.types = 1..Len(world.types) /\ Len(world.types) \in Nat
          /\ DOMAIN world.relations = 1..Len(world.relations) /\ Len(world.relations) \in Nat
      BY <2>1, SequenceShape DEF IsWorld, IsRegistry
    <3> QED BY <3>1
  <2>3. \A o \in Range(world.objects) : o.existence \in Existence /\ o.type \in DOMAIN world.types
    BY <2>1 DEF IsWorld, IsObject, Range
  <2>4. \A p \in Range(world.pointers) : /\ {p.from, p.to} \subseteq DOMAIN world.objects
                                         /\ p.relation \in DOMAIN world.relations
    BY <2>1 DEF IsWorld, IsPointer, Range
  <2>5. world.epoch \in Nat
    BY <2>1 DEF IsWorld
  <2>6. IsSnapshot(world)
    BY <2>2, <2>3, <2>4, <2>5 DEF IsSnapshot
  <2> QED BY <2>1, <2>6
<1>2. ASSUME NEW c \in Callers
      PROVE  prepared[c] = Nothing
             \/ prepared[c].refusal \in {"none", "empty", "overlay", "base epoch", "laws", "preview"}
  <2>1. ASSUME NEW w, NEW tx, prepared[c] = Prepared(w, tx)
        PROVE  prepared[c].refusal = RefusalOf(w, tx)
    BY <2>1 DEF Prepared
  <2>2. \A w, tx : RefusalOf(w, tx) \in {"none", "empty", "overlay", "base epoch", "laws", "preview"}
    BY DEF RefusalOf
  <2>3. prepared[c] = Nothing \/ \E w, tx : prepared[c] = Prepared(w, tx)
    BY DEF TransactionInv, PreparedOK
  <2>4. ASSUME NEW w, NEW tx, prepared[c] = Prepared(w, tx)
        PROVE  prepared[c].refusal \in
                 {"none", "empty", "overlay", "base epoch", "laws", "preview"}
    BY <2>1, <2>2, <2>4
  <2> QED BY <2>3, <2>4
<1> QED BY <1>1, <1>2 DEF TypeOK, TransactionInv, CommitsStand

-----------------------------------------------------------------------------
(* Epochs, expiry and the edges of the evolution.                          *)

Dated(w) == \A n \in DOMAIN w.pointers : w.pointers[n].born <= w.epoch

EvolvesTo(w) ==
  \A n \in DOMAIN w.pointers :
    w.pointers[n].domain = "evolution" => w.relations[w.pointers[n].relation] = "evolves_to"

LiveLoop(w, n) == w.pointers[n].domain = "evolution" /\ ActiveAt(w.pointers[n], w.epoch)

OneLoopEach(w) ==
  \A m, n \in DOMAIN w.pointers :
    LiveLoop(w, m) /\ LiveLoop(w, n) /\ w.pointers[m].from = w.pointers[n].from => m = n

Expired(p, epoch) == p.expires # Never /\ p.expires <= epoch

LEMMA StaysExpired ==
  ASSUME NEW w, IsWorld(w), NEW v, NEW d, Moved(w, v, d),
         NEW n \in DOMAIN w.pointers, Expired(w.pointers[n], w.epoch)
  PROVE  ~ActiveAt(v.pointers[n], v.epoch)
<1>1. PICK p, q : p = w.pointers[n] /\ q = v.pointers[n]
  OBVIOUS
<1>2. IsPointer(p, w) /\ w.epoch \in Nat /\ v.epoch = w.epoch + 1
  BY <1>1 DEF IsWorld, Moved
<1>3. Kept(p, q, w.epoch + 1, Expires(d, Len(d), n))
  BY <1>1 DEF Moved, OldKept
<1>4. q.expires \in {p.expires, w.epoch + 1} /\ p.expires \in Nat
  BY <1>2, <1>3 DEF Kept, IsPointer
<1>5. p.expires # Never /\ p.expires <= w.epoch
  BY <1>1 DEF Expired
<1>6. q.expires # Never /\ ~(v.epoch < q.expires)
  BY <1>2, <1>4, <1>5 DEF Never
<1> QED BY <1>1, <1>6 DEF ActiveAt

LEMMA DatesKept ==
  ASSUME NEW w, IsWorld(w), Dated(w), NEW v, NEW d, Moved(w, v, d)
  PROVE  Dated(v)
<1>1. w.epoch \in Nat /\ v.epoch = w.epoch + 1
  BY DEF IsWorld, Moved
<1>2. PICK by : NewlyLinked(w, v, d, Len(d), by)
  BY DEF Moved
<1> SUFFICES ASSUME NEW n \in DOMAIN v.pointers PROVE v.pointers[n].born <= v.epoch
  BY DEF Dated
<1>3. CASE n \in DOMAIN w.pointers
  <2>1. v.pointers[n].born = w.pointers[n].born /\ w.pointers[n].born <= w.epoch
    BY <1>3 DEF Moved, OldKept, Kept, Dated
  <2>2. w.pointers[n].born \in Nat
    BY <1>3 DEF IsWorld, IsPointer
  <2> QED BY <1>1, <2>1, <2>2
<1>4. CASE n \notin DOMAIN w.pointers
  <2>1. v.pointers[n].born = w.epoch + 1
    BY <1>2, <1>4 DEF NewlyLinked, Linked
  <2> QED BY <1>1, <2>1
<1> QED BY <1>3, <1>4

(* An old edge of the evolution goes along a relation of the same name.    *)
LEMMA OldEvolvesTo ==
  ASSUME NEW w, IsWorld(w), EvolvesTo(w), NEW v, NEW d, Moved(w, v, d),
         NEW n \in DOMAIN w.pointers, v.pointers[n].domain = "evolution"
  PROVE  w.pointers[n].domain = "evolution" /\ v.relations[v.pointers[n].relation] = "evolves_to"
<1>1. PICK p, q : p = w.pointers[n] /\ q = v.pointers[n]
  OBVIOUS
<1>2. q.relation = p.relation /\ q.domain = p.domain
  BY <1>1 DEF Moved, OldKept, Kept
<1>3. p.relation \in DOMAIN w.relations
  BY <1>1 DEF IsWorld, IsPointer
<1>4. w.relations[p.relation] = "evolves_to"
  BY <1>1, <1>2 DEF EvolvesTo
<1>5. v.relations[p.relation] = "evolves_to"
  BY <1>3, <1>4 DEF Moved, Grows, Unnamed
<1> QED BY <1>1, <1>2, <1>5

(* What is active after a delta and was there before it was active before. *)
LEMMA WasActive ==
  ASSUME NEW w, IsWorld(w), Dated(w), NEW v, NEW d, Moved(w, v, d),
         NEW n \in DOMAIN w.pointers, ActiveAt(v.pointers[n], v.epoch)
  PROVE  ActiveAt(w.pointers[n], w.epoch)
<1>1. ~Expired(w.pointers[n], w.epoch)
  BY StaysExpired
<1>2. w.pointers[n].born <= w.epoch /\ w.epoch \in Nat
  BY DEF Dated, IsWorld
<1>3. w.pointers[n].expires \in Nat
  BY DEF IsWorld, IsPointer
<1>4. w.pointers[n].expires = Never \/ w.epoch < w.pointers[n].expires
  BY <1>1, <1>2, <1>3 DEF Expired
<1> QED BY <1>2, <1>4 DEF ActiveAt

(* A delta of a caller links no edge of the evolution.                     *)
LEMMA CommitKeepsLoops ==
  ASSUME NEW w, IsWorld(w), Dated(w), EvolvesTo(w), OneLoopEach(w),
         NEW v, NEW d, DeltaOK(d), Moved(w, v, d),
         \A op \in Range(d) : op.kind = "CreatePointer" => op.domain # "evolution"
  PROVE  EvolvesTo(v) /\ OneLoopEach(v)
<1>1. PICK by : NewlyLinked(w, v, d, Len(d), by)
  BY DEF Moved
<1>2. ASSUME NEW n \in DOMAIN v.pointers, v.pointers[n].domain = "evolution"
      PROVE  n \in DOMAIN w.pointers
  <2> SUFFICES ASSUME n \notin DOMAIN w.pointers PROVE FALSE
    OBVIOUS
  <2>1. PICK op : op = d[by[n]]
    OBVIOUS
  <2>2. by[n] \in 1..Len(d) /\ op.kind = "CreatePointer" /\ op.domain = "evolution"
    BY <1>1, <1>2, <2>1 DEF NewlyLinked, Linked
  <2>3. op \in Range(d)
    BY <2>1, <2>2, SequenceShape DEF DeltaOK, Range
  <2> QED BY <2>2, <2>3
<1>3. EvolvesTo(v)
  BY <1>2, OldEvolvesTo DEF EvolvesTo
<1>4. OneLoopEach(v)
  <2> SUFFICES ASSUME NEW m \in DOMAIN v.pointers, NEW n \in DOMAIN v.pointers,
                      LiveLoop(v, m), LiveLoop(v, n), v.pointers[m].from = v.pointers[n].from
               PROVE  m = n
    BY DEF OneLoopEach
  <2>1. m \in DOMAIN w.pointers /\ n \in DOMAIN w.pointers
    BY <1>2 DEF LiveLoop
  <2>2. LiveLoop(w, m) /\ LiveLoop(w, n)
    BY <2>1, OldEvolvesTo, WasActive DEF LiveLoop
  <2>3. w.pointers[m].from = w.pointers[n].from
    BY <2>1 DEF Moved, OldKept, Kept
  <2> QED BY <2>1, <2>2, <2>3 DEF OneLoopEach
<1> QED BY <1>3, <1>4

(* An evolution expires the edges of the one before and links one for an   *)
(* object, along a relation of the same name.                              *)
LEMMA EvolutionKeepsLoops ==
  ASSUME NEW w, IsWorld(w), Dated(w), EvolvesTo(w),
         NEW v, NEW d, NEW r, Evolves(w, d, r), Moved(w, v, d)
  PROVE  EvolvesTo(v) /\ OneLoopEach(v)
<1>1. PICK by : NewlyLinked(w, v, d, Len(d), by)
  BY DEF Moved
<1>2. DOMAIN d = 1..Len(d) /\ \A op \in Range(d) : \E i \in 1..Len(d) : d[i] = op
  <2>1. DOMAIN d = 1..Len(d)
    BY SequenceShape DEF Evolves
  <2> QED BY <2>1 DEF Range
<1>3. v.relations[r] = "evolves_to"
  <2>1. CASE r \in DOMAIN w.relations /\ w.relations[r] = "evolves_to"
    BY <2>1 DEF Moved, Grows, Unnamed
  <2>2. CASE r # NoId /\ InternOp(r) \in Range(d)
    <3>1. PICK i \in 1..Len(d) : d[i] = InternOp(r)
      BY <1>2, <2>2
    <3>2. d[i].kind = "InternRelation" /\ d[i].id = r /\ d[i].name = "evolves_to"
      BY <3>1 DEF InternOp
    <3> QED BY <2>2, <3>2 DEF Moved, NamesInterned, Unnamed
  <2> QED BY <2>1, <2>2 DEF Evolves, Along
<1>4. ASSUME NEW n \in DOMAIN v.pointers \ DOMAIN w.pointers
      PROVE  /\ by[n] \in 1..Len(d) /\ v.pointers[n].relation = r
             /\ d[by[n]] = LoopOp(v.pointers[n].from, r) /\ d[by[n]].kind = "CreatePointer"
  <2>1. PICK op, q : op = d[by[n]] /\ q = v.pointers[n]
    OBVIOUS
  <2>2. by[n] \in 1..Len(d) /\ Linked(q, op, w.epoch + 1)
    BY <1>1, <2>1 DEF NewlyLinked
  <2>3. op \in Range(d) /\ op.kind = "CreatePointer"
    BY <1>2, <2>1, <2>2 DEF Range, Linked
  <2>4. PICK k \in Nat : op = LoopOp(k, r)
    <3>1. op # InternOp(r) /\ \A m : op # ExpireOp(m)
      BY <2>3 DEF InternOp, ExpireOp
    <3> QED BY <2>3, <3>1 DEF Evolves
  <2>5. op.relation = r /\ op.from.tag = "id" /\ op.from.n = k
    BY <2>4 DEF LoopOp, IdRef
  <2>6. q.relation = r /\ q.from = k
    BY <2>2, <2>5 DEF Linked
  <2> QED BY <2>1, <2>2, <2>3, <2>4, <2>6
<1>5. ASSUME NEW n \in DOMAIN w.pointers, LiveLoop(v, n)
      PROVE  FALSE
  <2>1. PICK p, q : p = w.pointers[n] /\ q = v.pointers[n]
    OBVIOUS
  <2>2. p.domain = "evolution" /\ ActiveAt(p, w.epoch)
    BY <1>5, <2>1, OldEvolvesTo, WasActive DEF LiveLoop
  <2>3. p.relation \in DOMAIN w.relations /\ w.relations[p.relation] = "evolves_to"
    BY <2>1, <2>2 DEF IsWorld, IsPointer, EvolvesTo
  <2>4. p.relation = r
    <3>1. RelationNamed(w, "evolves_to") # {}
      BY <2>3 DEF RelationNamed
    <3>2. r \in DOMAIN w.relations /\ w.relations[r] = "evolves_to"
      BY <3>1 DEF Evolves, Along
    <3> QED BY <2>3, <3>2 DEF IsWorld, IsRegistry, Unnamed
  <2>5. n \in Stale(w, r)
    BY <2>1, <2>2, <2>4 DEF Stale
  <2>6. Expires(d, Len(d), n)
    <3>1. PICK i \in 1..Len(d) : d[i] = ExpireOp(n)
      BY <1>2, <2>5 DEF Evolves
    <3> QED BY <3>1 DEF Expires, ExpireOp
  <2>7. q.expires = w.epoch + 1
    BY <2>1, <2>6 DEF Moved, OldKept, Kept
  <2>8. w.epoch \in Nat /\ v.epoch = w.epoch + 1
    BY DEF IsWorld, Moved
  <2>9. ~ActiveAt(q, v.epoch)
    BY <2>7, <2>8 DEF ActiveAt, Never
  <2> QED BY <1>5, <2>1, <2>9 DEF LiveLoop
<1>6. EvolvesTo(v)
  BY <1>3, <1>4, OldEvolvesTo DEF EvolvesTo
<1>7. OneLoopEach(v)
  <2> SUFFICES ASSUME NEW m \in DOMAIN v.pointers, NEW n \in DOMAIN v.pointers,
                      LiveLoop(v, m), LiveLoop(v, n), v.pointers[m].from = v.pointers[n].from
               PROVE  m = n
    BY DEF OneLoopEach
  <2>1. m \notin DOMAIN w.pointers /\ n \notin DOMAIN w.pointers
    BY <1>5
  <2>2. d[by[m]] = d[by[n]] /\ d[by[m]].kind = "CreatePointer"
        /\ by[m] \in DOMAIN d /\ by[n] \in DOMAIN d
    BY <1>2, <1>4, <2>1
  <2>3. by[m] = by[n]
    BY <2>2 DEF Evolves, Once
  <2> QED BY <1>1, <2>1, <2>3 DEF NewlyLinked
<1> QED BY <1>6, <1>7

-----------------------------------------------------------------------------
(* The theorems.                                                           *)

EvolutionInv == TransactionInv /\ Dated(world) /\ EvolvesTo(world) /\ OneLoopEach(world)

LEMMA InitEvolutionInv ==
  ASSUME InitialAssumption, Init
  PROVE  EvolutionInv
<1>1. world = InitialWorld
  BY DEF Init
<1>2. \A n \in DOMAIN world.pointers :
        world.pointers[n].born <= world.epoch /\ world.pointers[n].domain # "evolution"
  BY <1>1 DEF InitialAssumption, Range
<1> QED BY <1>2, InitTransactionInv DEF EvolutionInv, Dated, EvolvesTo, OneLoopEach, LiveLoop

LEMMA NextEvolutionInv ==
  ASSUME DeltasAssumption, EvolutionAssumption, MaxCommits \in Nat, EvolutionInv, [Next]_vars
  PROVE  EvolutionInv'
<1>1. TransactionInv'
  BY NextTransactionInv DEF EvolutionInv
<1>2. PICK w, v : w = world /\ v = world'
  OBVIOUS
<1>3. IsWorld(w) /\ Dated(w) /\ EvolvesTo(w) /\ OneLoopEach(w)
  BY <1>2 DEF EvolutionInv, TransactionInv
<1>4. Dated(v) /\ EvolvesTo(v) /\ OneLoopEach(v)
  <2>1. CASE v = w
    BY <1>3, <2>1
  <2>2. CASE Evolve /\ v # w
    <3>1. PICK r : Called(EvolutionDelta(world), r)
      BY <2>2, EvolveCalls DEF EvolutionInv
    <3>2. PICK d, s : d = EvolutionDelta(w) /\ Evolves(w, d, s)
      BY <1>3, EvolutionEvolves
    <3>3. Moved(w, v, d)
      BY <1>2, <2>2, <3>1, <3>2 DEF Called, Result, Finish
    <3> QED BY <1>3, <3>2, <3>3, DatesKept, EvolutionKeepsLoops
  <2>3. ASSUME NEW c \in Callers, Commit(c), v # w
        PROVE  Dated(v) /\ EvolvesTo(v) /\ OneLoopEach(v)
    <3>1. PICK d \in Deltas : \E r : Called(d, r)
      BY <2>3, CommitCalls DEF EvolutionInv
    <3>2. PICK r : Called(d, r)
      BY <3>1
    <3>3. Moved(w, v, d)
      BY <1>2, <2>3, <3>2 DEF Called, Result, Finish
    <3>4. DeltaOK(d) /\ \A op \in Range(d) : op.kind = "CreatePointer" => op.domain # "evolution"
      BY DEF DeltasAssumption, EvolutionAssumption, DeltaOK
    <3> QED BY <1>3, <3>3, <3>4, DatesKept, CommitKeepsLoops
  <2>4. ASSUME NEW c \in Callers, Prepare(c) PROVE v = w
    BY <1>2, <2>4 DEF Prepare
  <2> QED BY <1>2, <2>1, <2>2, <2>3, <2>4 DEF Next, vars
<1> QED BY <1>1, <1>2, <1>4 DEF EvolutionInv

(* Of one step: what had expired before it is not active after it.         *)
LEMMA ExpiredStep ==
  ASSUME DeltasAssumption, TransactionInv, [Next]_vars
  PROVE  ExpiredStays
<1>1. PICK w, v : w = world /\ v = world'
  OBVIOUS
<1>2. IsWorld(w)
  BY <1>1 DEF TransactionInv
<1>3. v = w \/ \E d : Moved(w, v, d)
  <2>1. CASE Evolve
    BY <1>1, <2>1, EvolveCalls DEF Called, Result, Finish
  <2>2. ASSUME NEW c \in Callers, Commit(c) PROVE v = w \/ \E d : Moved(w, v, d)
    BY <1>1, <2>2, CommitCalls DEF Called, Result, Finish
  <2>3. ASSUME NEW c \in Callers, Prepare(c) PROVE v = w
    BY <1>1, <2>3 DEF Prepare
  <2>4. CASE UNCHANGED vars
    BY <1>1, <2>4 DEF vars
  <2> QED BY <2>1, <2>2, <2>3, <2>4 DEF Next
<1>4. ASSUME NEW n \in DOMAIN w.pointers, Expired(w.pointers[n], w.epoch)
      PROVE  ~ActiveAt(v.pointers[n], v.epoch)
  <2>1. CASE v = w
    <3>1. w.epoch \in Nat /\ w.pointers[n].expires \in Nat
      BY <1>2 DEF IsWorld, IsPointer
    <3> QED BY <1>4, <2>1, <3>1 DEF Expired, ActiveAt
  <2>2. CASE \E d : Moved(w, v, d)
    BY <1>2, <1>4, <2>2, StaysExpired
  <2> QED BY <1>3, <2>1, <2>2
<1> QED BY <1>1, <1>4 DEF ExpiredStays, Expired

(* Of any callers with any deltas, an accepted commit stands on the very   *)
(* world the one before it left, no delta is ever left half applied, and   *)
(* every world is well formed: commit_prepared compares the snapshot it    *)
(* was prepared against, and the preview tries the delta on that snapshot. *)
THEOREM TransactionsStand ==
  ASSUME DeltasAssumption, InitialAssumption
  PROVE  Spec => [](TypeOK /\ NoLostUpdate /\ NoHalfAppliedDelta)
<1>1. MaxCommits \in Nat
  BY DEF InitialAssumption
<1>2. Init => TransactionInv
  BY InitTransactionInv
<1>3. TransactionInv /\ [Next]_vars => TransactionInv'
  BY <1>1, NextTransactionInv
<1>4. TransactionInv => TypeOK /\ NoLostUpdate /\ NoHalfAppliedDelta
  BY TransactionTypes DEF TransactionInv
<1> QED BY <1>2, <1>3, <1>4, PTL DEF Spec

(* What a proof commits to is what the commit does, whatever the delta:    *)
(* SnapshotOverlay, which predicts the after_root, and apply_delta, which  *)
(* makes the world, agree but for a key given twice; and the write set of  *)
(* the plan covers every fact of that world that was not true before.      *)
THEOREM ProofsStand ==
  ASSUME DeltasAssumption, InitialAssumption
  PROVE  Spec => [](ProofMatchesWorld /\ WriteSetCovers)
<1>1. MaxCommits \in Nat
  BY DEF InitialAssumption
<1>2. Init => TransactionInv
  BY InitTransactionInv
<1>3. TransactionInv /\ [Next]_vars => TransactionInv'
  BY <1>1, NextTransactionInv
<1>4. TransactionInv => ProofMatchesWorld /\ WriteSetCovers
  BY ProofsSay DEF TransactionInv
<1> QED BY <1>2, <1>3, <1>4, PTL DEF Spec

(* A pointer that has expired is never active again: apply_delta sets an   *)
(* expiry to the epoch it leads to, and to nothing else.                   *)
THEOREM ExpiredPointersStay ==
  ASSUME DeltasAssumption, InitialAssumption
  PROVE  Spec => [][ExpiredStays]_vars
<1>1. MaxCommits \in Nat
  BY DEF InitialAssumption
<1>2. Init => TransactionInv
  BY InitTransactionInv
<1>3. TransactionInv /\ [Next]_vars => TransactionInv'
  BY <1>1, NextTransactionInv
<1>4. TransactionInv /\ [Next]_vars => [ExpiredStays]_vars
  BY ExpiredStep
<1> QED BY <1>2, <1>3, <1>4, PTL DEF Spec

(* However often the world evolves, between whatever commits, an object    *)
(* has one live edge of the evolution at most: an evolution expires every  *)
(* edge of the one before, which all go along the relation of that name.   *)
THEOREM ObjectsEvolveOnce ==
  ASSUME DeltasAssumption, EvolutionAssumption, InitialAssumption
  PROVE  Spec => []OneEvolutionEdge
<1>1. MaxCommits \in Nat
  BY DEF InitialAssumption
<1>2. Init => EvolutionInv
  BY InitEvolutionInv
<1>3. EvolutionInv /\ [Next]_vars => EvolutionInv'
  BY <1>1, NextEvolutionInv
<1>4. EvolutionInv => OneEvolutionEdge
  BY DEF EvolutionInv, OneLoopEach, LiveLoop, OneEvolutionEdge
<1> QED BY <1>2, <1>3, <1>4, PTL DEF Spec
=============================================================================

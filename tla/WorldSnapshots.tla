--------------------------- MODULE WorldSnapshots ---------------------------
(***************************************************************************)
(* Snapshots of a world and the two ways the code applies a delta to one:  *)
(* SnapshotOverlay::apply (core/snapshot.cpp), which predicts the result,  *)
(* and World::apply_delta_unchecked (core/world.cpp), which produces it.   *)
(*                                                                         *)
(* Object n is ObjectId{n - 1, generation 1}, pointer n is PointerId{n}:   *)
(* both arenas only ever grow by one at the end.  A pointer's law domain   *)
(* is kept, its causal role is not.  Attribute lists are sets of pairs.    *)
(***************************************************************************)
EXTENDS Integers, Sequences, FiniteSets, SequencesExt, TLC

Existence == {"Alive", "Dormant", "Collapsed", "Tombstoned"}
Never == 0                       \* no expires_at
NoId == 0                        \* an invalid type, relation or temp id
Unnamed == ""                    \* the empty name

EmptySnapshot ==
  [epoch |-> 0, types |-> << >>, relations |-> << >>,
   objects |-> << >>, pointers |-> << >>]

IsSnapshot(s) ==
  /\ s.epoch \in Nat
  /\ DOMAIN s.types \subseteq Nat /\ DOMAIN s.relations \subseteq Nat
  /\ \A o \in Range(s.objects) :
       o.existence \in Existence /\ o.type \in DOMAIN s.types
  /\ \A p \in Range(s.pointers) :
       /\ {p.from, p.to} \subseteq DOMAIN s.objects
       /\ p.relation \in DOMAIN s.relations

\* PointerEdge::active_at: the validity interval is closed on the left.
ActiveAt(p, epoch) ==
  p.born <= epoch /\ (p.expires = Never \/ epoch < p.expires)

ObjectsNamed(s, name) == {n \in DOMAIN s.objects : s.objects[n].name = name}

-----------------------------------------------------------------------------
(* Facts: what a snapshot says, each with the epochs it is born and expires *)

ObjectFacts(s, n) ==
  LET o == s.objects[n]
      gone == IF o.existence = "Tombstoned" THEN s.epoch ELSE Never
  IN {<<"ObjectFact", n, o.name, o.type, o.existence, gone>>}
       \cup {<<"AttributeFact", "object", n, a, Never>> : a \in o.attrs}

PointerFacts(s, n) ==
  LET p == s.pointers[n]
  IN {<<"PointerFact", n, p.from, p.to, p.relation, p.weight, p.domain,
        p.born, p.expires>>}
       \cup {<<"AttributeFact", "pointer", n, a, p.born, p.expires>> :
               a \in p.attrs}

Facts(s) == UNION ({ObjectFacts(s, n) : n \in DOMAIN s.objects}
                     \cup {PointerFacts(s, n) : n \in DOMAIN s.pointers})

\* compute_world_root: what the proof of a commit and the stored commit
\* compare of a world.  Only the symbols in use enter it.
WorldRoot(s) ==
  [epoch |-> s.epoch, objects |-> s.objects, pointers |-> s.pointers,
   facts |-> Facts(s),
   types |-> {<<o.type, s.types[o.type]>> : o \in Range(s.objects)},
   relations |-> {<<p.relation, s.relations[p.relation]>> :
                    p \in Range(s.pointers)}]

-----------------------------------------------------------------------------
(* Parts both interpreters share *)

NextSymbol(symbols) ==
  1 + CHOOSE n \in {0} \cup DOMAIN symbols :
        \A m \in DOMAIN symbols : m <= n

IdRef(n) == [tag |-> "id", n |-> n]
TempRef(n) == [tag |-> "temp", n |-> n]

\* An object reference: an id the arena holds or a temp this delta created;
\* NoId stands for std::nullopt and for the exception.
Resolve(objects, temps, ref) ==
  IF ref.tag = "id"
  THEN IF ref.n \in DOMAIN objects THEN ref.n ELSE NoId
  ELSE IF ref.n \in DOMAIN temps THEN temps[ref.n] ELSE NoId

\* A map with a key bound as emplace binds it: not again.
Bind(map, key, value) ==
  [k \in DOMAIN map \cup {key} |-> IF k \in DOMAIN map THEN map[k] ELSE value]

SetAttr(attrs, key, value) == {a \in attrs : a[1] # key} \cup {<<key, value>>}
RemoveAttr(attrs, key) == {a \in attrs : a[1] # key}

NewObject(op, attrs) ==
  [name |-> op.name, type |-> op.type, existence |-> op.existence,
   attrs |-> attrs]
NewPointer(op, from, to, epoch, attrs) ==
  [from |-> from, to |-> to, relation |-> op.relation, weight |-> op.weight,
   born |-> epoch, expires |-> Never, domain |-> op.domain, attrs |-> attrs]

\* What an operation on one existing object or pointer does to it.
ChangedObject(o, op) ==
  CASE op.kind = "SetObjectType"         -> [o EXCEPT !.type = op.type]
    [] op.kind = "SetObjectExistence"    -> [o EXCEPT !.existence = op.existence]
    [] op.kind = "SetObjectAttribute"    ->
         [o EXCEPT !.attrs = SetAttr(@, op.key, op.value)]
    [] op.kind = "RemoveObjectAttribute" ->
         [o EXCEPT !.attrs = RemoveAttr(@, op.key)]
    [] op.kind = "AssertObject"          -> o

\* Mutant: a pointer expires at the end of the epoch.
PointerExpiringLater(p, op, epoch) ==
  CASE op.kind = "ExpirePointer"          -> [p EXCEPT !.expires = epoch + 1]
    [] op.kind = "SetPointerWeight"       -> [p EXCEPT !.weight = op.weight]
    [] OTHER -> p

ChangedPointer(p, op, epoch) ==
  CASE op.kind = "ExpirePointer"          -> [p EXCEPT !.expires = epoch]
    [] op.kind = "SetPointerWeight"       -> [p EXCEPT !.weight = op.weight]
    [] op.kind = "SetPointerAttribute"    ->
         [p EXCEPT !.attrs = SetAttr(@, op.key, op.value)]
    [] op.kind = "RemovePointerAttribute" ->
         [p EXCEPT !.attrs = RemoveAttr(@, op.key)]
    [] op.kind = "AssertPointer"          -> p

ObjectOps == {"SetObjectType", "SetObjectExistence", "SetObjectAttribute",
              "RemoveObjectAttribute", "AssertObject"}
PointerOps == {"ExpirePointer", "SetPointerWeight", "SetPointerAttribute",
               "RemovePointerAttribute", "AssertPointer"}

-----------------------------------------------------------------------------
(* SnapshotOverlay::apply: a step per operation, the first error wins *)

Fail(st, error) == [st EXCEPT !.error = error]

OverlayIntern(st, table, op) ==
  LET symbols == st.snap[table]
      id == IF op.id # NoId THEN op.id ELSE NextSymbol(symbols)
  IN IF op.name = Unnamed THEN Fail(st, "InvalidSymbol")
     ELSE IF op.name \in Range(symbols) THEN st
     ELSE IF id \in DOMAIN symbols THEN Fail(st, "InvalidSymbol")
     ELSE [st EXCEPT !.snap[table] = Bind(@, id, op.name)]

\* The attribute list of the operation is taken as it is, sorted.
OverlayCreate(st, op) ==
  IF op.temp = NoId THEN Fail(st, "InvalidTempObject")
  ELSE IF op.temp \in DOMAIN st.temps THEN Fail(st, "DuplicateTempObject")
  ELSE IF ObjectsNamed(st.snap, op.name) # {} THEN Fail(st, "DuplicateObjectName")
  ELSE IF op.type \notin DOMAIN st.snap.types THEN Fail(st, "InvalidTempObject")
  ELSE [st EXCEPT !.snap.objects = Append(@, NewObject(op, Range(op.attrs))),
                  !.temps = Bind(@, op.temp, Len(st.snap.objects) + 1)]

OverlayObject(st, op) ==
  LET id == Resolve(st.snap.objects, st.temps, op.object)
  IN IF op.kind = "SetObjectType" /\ op.type \notin DOMAIN st.snap.types
     THEN Fail(st, "InvalidTempObject")
     ELSE IF id = NoId THEN Fail(st, "UpdateMissingObject")
     ELSE [st EXCEPT !.snap.objects[id] = ChangedObject(@, op)]

OverlayLink(st, op) ==
  LET from == Resolve(st.snap.objects, st.temps, op.from)
      to == Resolve(st.snap.objects, st.temps, op.to)
  IN IF op.relation \notin DOMAIN st.snap.relations
     THEN Fail(st, "InvalidPointerRelation")
     ELSE IF NoId \in {from, to} THEN Fail(st, "PointerMissingObject")
     ELSE [st EXCEPT !.snap.pointers =
                        Append(@, NewPointer(op, from, to, st.snap.epoch,
                                             Range(op.attrs)))]

OverlayPointer(st, op) ==
  IF op.id \notin DOMAIN st.snap.pointers THEN Fail(st, "InvalidPointerRemove")
  ELSE [st EXCEPT !.snap.pointers[op.id] =
                     ChangedPointer(@, op, st.snap.epoch)]

OverlayStep(st, op) ==
  CASE st.error # "" -> st
    [] st.error = "" /\ op.kind = "InternType" ->
         OverlayIntern(st, "types", op)
    [] st.error = "" /\ op.kind = "InternRelation" ->
         OverlayIntern(st, "relations", op)
    [] st.error = "" /\ op.kind = "CreateObject" -> OverlayCreate(st, op)
    [] st.error = "" /\ op.kind = "CreatePointer" -> OverlayLink(st, op)
    [] st.error = "" /\ op.kind \in ObjectOps -> OverlayObject(st, op)
    [] st.error = "" /\ op.kind \in PointerOps -> OverlayPointer(st, op)
    [] st.error = "" /\ op.kind = "EmitEvent" -> st
    [] st.error = "" /\ op.kind = "AssertFact" ->
         IF op.fact \in Facts(st.snap) THEN st ELSE Fail(st, "InvalidSymbol")

Overlay(base, delta) ==
  LET after[n \in 0..Len(delta)] ==
        IF n = 0
        THEN [snap |-> [base EXCEPT !.epoch = @ + 1], temps |-> << >>, error |-> ""]
        ELSE OverlayStep(after[n - 1], delta[n])
  IN after[Len(delta)]
OverlayAccepts(base, delta) == Overlay(base, delta).error = ""
After(base, delta) == Overlay(base, delta).snap

-----------------------------------------------------------------------------
(* World::apply_delta_unchecked: the symbol tables are vectors, objects and *)
(* attributes are maps, an error is an exception in the middle.             *)

\* World::snapshot numbers the slots of the registries, empty ones included.
SnapshotOf(w) ==
  [epoch |-> w.epoch, types |-> w.types, relations |-> w.relations,
   objects |-> w.objects, pointers |-> w.pointers]

\* World::from_snapshot: slots no name was given for come out empty.
Registry(symbols) ==
  [n \in 1..(NextSymbol(symbols) - 1) |->
     IF n \in DOMAIN symbols THEN symbols[n] ELSE Unnamed]
WorldOf(s) ==
  [s EXCEPT !.types = Registry(@), !.relations = Registry(@)]

Throw(st) == [st EXCEPT !.thrown = TRUE]
Emit(st, event) == [st EXCEPT !.events = Append(@, event)]

\* TypeRegistry::intern_at and RelationRegistry::intern_at.
RegistryIntern(st, table, op) ==
  LET slots == st.world[table]
      at == {n \in DOMAIN slots : slots[n] = op.name}
      id == IF op.id # NoId THEN op.id ELSE Len(slots) + 1
  IN IF op.name = Unnamed \/ (at # {} /\ op.id # NoId /\ at # {op.id})
     THEN Throw(st)
     ELSE IF at # {} THEN st
     ELSE IF id \in DOMAIN slots /\ slots[id] # Unnamed THEN Throw(st)
     ELSE [st EXCEPT !.world[table] =
             [n \in 1..(IF id > Len(slots) THEN id ELSE Len(slots)) |->
                IF n = id THEN op.name
                ELSE IF n \in DOMAIN slots THEN slots[n] ELSE Unnamed]]

\* The attributes are assigned one after the other: the last one of a key
\* stays.
LastOfEachKey(attrs) ==
  {attrs[n] : n \in {m \in DOMAIN attrs :
                       \A k \in DOMAIN attrs : attrs[k][1] = attrs[m][1]
                                               => k <= m}}

WorldCreate(st, op) ==
  LET w == st.world
  IN IF \/ op.temp = NoId \/ op.temp \in DOMAIN st.temps
        \/ ObjectsNamed(w, op.name) # {} \/ op.name = Unnamed
        \/ op.type \notin DOMAIN w.types
     THEN Throw(st)
     ELSE Emit([st EXCEPT
                  !.world.objects =
                     Append(@, NewObject(op, LastOfEachKey(op.attrs))),
                  !.temps = Bind(@, op.temp, Len(w.objects) + 1)],
               [event |-> "object.create", object |-> op.name,
                type |-> w.types[op.type], existence |-> op.existence])

ObjectEvent(w, o, op) ==
  CASE op.kind \in {"SetObjectType", "SetObjectExistence"} ->
         [event |-> "object.update", object |-> o.name,
          type |-> w.types[o.type], existence |-> o.existence]
    [] op.kind = "SetObjectAttribute" -> [event |-> "object.attribute.set"]
    [] op.kind = "RemoveObjectAttribute" ->
         [event |-> "object.attribute.remove"]

WorldObject(st, op) ==
  LET id == Resolve(st.world.objects, st.temps, op.object)
      changed == ChangedObject(st.world.objects[id], op)
  IN IF \/ id = NoId
        \/ op.kind = "SetObjectType" /\ op.type \notin DOMAIN st.world.types
     THEN Throw(st)
     ELSE IF op.kind = "AssertObject" THEN st
     ELSE Emit([st EXCEPT !.world.objects[id] = changed],
               ObjectEvent(st.world, changed, op))

WorldLink(st, op) ==
  LET w == st.world
      from == Resolve(w.objects, st.temps, op.from)
      to == Resolve(w.objects, st.temps, op.to)
  IN IF NoId \in {from, to} \/ op.relation \notin DOMAIN w.relations
     THEN Throw(st)
     ELSE Emit([st EXCEPT !.world.pointers =
                            Append(@, NewPointer(op, from, to, w.epoch + 1,
                                                LastOfEachKey(op.attrs)))],
               [event |-> "pointer.create", from |-> w.objects[from].name,
                to |-> w.objects[to].name, relation |-> w.relations[op.relation],
                weight |-> op.weight, domain |-> op.domain])

PointerEvent(op) ==
  CASE op.kind = "ExpirePointer" ->
         [event |-> "pointer.remove", pointer |-> op.id]
    [] op.kind = "SetPointerWeight" -> [event |-> "pointer.weight.set"]
    [] op.kind = "SetPointerAttribute" -> [event |-> "pointer.attribute.set"]
    [] op.kind = "RemovePointerAttribute" ->
         [event |-> "pointer.attribute.remove"]

WorldPointer(st, op) ==
  IF op.id \notin DOMAIN st.world.pointers THEN Throw(st)
  ELSE IF op.kind = "AssertPointer" THEN st
  ELSE Emit([st EXCEPT !.world.pointers[op.id] =
                          ChangedPointer(@, op, st.world.epoch + 1)],
            PointerEvent(op))

WorldStep(st, op) ==
  CASE st.thrown -> st
    [] ~st.thrown /\ op.kind = "InternType" ->
         RegistryIntern(st, "types", op)
    [] ~st.thrown /\ op.kind = "InternRelation" ->
         RegistryIntern(st, "relations", op)
    [] ~st.thrown /\ op.kind = "CreateObject" -> WorldCreate(st, op)
    [] ~st.thrown /\ op.kind = "CreatePointer" -> WorldLink(st, op)
    [] ~st.thrown /\ op.kind \in ObjectOps -> WorldObject(st, op)
    [] ~st.thrown /\ op.kind \in PointerOps -> WorldPointer(st, op)
    [] ~st.thrown /\ op.kind = "EmitEvent" -> Emit(st, [event |-> op.event])
    [] ~st.thrown /\ op.kind = "AssertFact" ->
         IF op.fact \in Facts(SnapshotOf(st.world)) THEN st ELSE Throw(st)

\* The epoch moves last: an exception leaves the operations before it done
\* and the epoch as it was.
ApplyDelta(world, delta) ==
  LET after[n \in 0..Len(delta)] ==
        IF n = 0
        THEN [world |-> world, temps |-> << >>, events |-> << >>, thrown |-> FALSE]
        ELSE WorldStep(after[n - 1], delta[n])
      st == after[Len(delta)]
  IN IF st.thrown THEN st ELSE [st EXCEPT !.world.epoch = @ + 1]
=============================================================================

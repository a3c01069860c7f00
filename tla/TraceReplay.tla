----------------------------- MODULE TraceReplay -----------------------------
(***************************************************************************)
(* A world rebuilt from the trace it left (runtime/replayer.cpp and        *)
(* trace/replayer.cpp): the state events of one epoch are collected into a *)
(* delta and committed when an event of another epoch comes.  The runtime  *)
(* replayer commits to a branch and expects the epoch the trace names; the *)
(* trace replayer commits to a world whatever its epoch.                   *)
(***************************************************************************)
EXTENDS WorldTransactions

StateEvents == {"object.create", "object.update", "pointer.create",
                "pointer.remove"}
Markers == {"world.evolve", "evolution.step"}
Metadata == {"law.check", "world.transition.rejected"}

\* World::type_id and World::relation_type: intern in the registry at once.
Interned(symbols, name) ==
  IF name \in Range(symbols) THEN symbols ELSE Append(symbols, name)
IdOf(symbols, name) == CHOOSE n \in DOMAIN symbols : symbols[n] = name

\* ReplayGroup: the events of one epoch.
NoGroup == [epoch |-> AnyEpoch]
NewGroup(epoch) ==
  [epoch |-> epoch, delta |-> << >>, created |-> << >>, state_events |-> 0,
   markers |-> 0]

\* object_ref_for: an object this group creates, else one of the world.
RefFor(st, name) ==
  LET temps == {n \in DOMAIN st.group.created : st.group.created[n] = name}
      known == ObjectsNamed(st.world, name)
  IN IF temps # {} THEN TempRef(CHOOSE n \in temps : \A m \in temps : n <= m)
     ELSE IF known # {} THEN IdRef(CHOOSE n \in known : TRUE)
     ELSE Nothing

Grouped(st, ops) ==
  [st EXCEPT !.group.delta = @ \o ops, !.group.state_events = @ + 1]
Unreplayed(st) == [st EXCEPT !.errors = @ + 1]

\* append_state_event: an event names what it is about, the delta has ids.
ReplayCreate(st, e) ==
  LET types == Interned(st.world.types, e.type)
  IN Grouped([st EXCEPT !.world.types = types,
                        !.group.created = Append(@, e.object)],
             <<[kind |-> "CreateObject", temp |-> Len(st.group.created) + 1,
                name |-> e.object, type |-> IdOf(types, e.type),
                existence |-> e.existence, attrs |-> << >>]>>)

ReplayUpdate(st, e) ==
  LET types == Interned(st.world.types, e.type)
      interned == [st EXCEPT !.world.types = types]
      ref == RefFor(st, e.object)
  IN IF ref = Nothing THEN Unreplayed(interned)
     ELSE Grouped(interned,
            <<[kind |-> "SetObjectType", object |-> ref,
               type |-> IdOf(types, e.type)],
              [kind |-> "SetObjectExistence", object |-> ref,
               existence |-> e.existence]>>)

ReplayLink(st, e) ==
  LET relations == Interned(st.world.relations, e.relation)
      from == RefFor(st, e.from)
      to == RefFor(st, e.to)
  IN IF Nothing \in {from, to} THEN Unreplayed(st)
     ELSE Grouped([st EXCEPT !.world.relations = relations],
            <<[kind |-> "CreatePointer", from |-> from, to |-> to,
               relation |-> IdOf(relations, e.relation),
               weight |-> e.weight, domain |-> e.domain, attrs |-> << >>]>>)

ReplayRemove(st, e) ==
  Grouped(st, <<[kind |-> "ExpirePointer", id |-> e.pointer]>>)

\* flush_group.
ReplayTransaction(group, runtime) ==
  [delta |-> group.delta,
   allow_empty |-> IF runtime THEN group.markers > 0 ELSE TRUE,
   base_epoch |-> IF runtime /\ group.epoch > 0 THEN group.epoch - 1
                  ELSE AnyEpoch]

Committed(st, result) ==
  [st EXCEPT !.group = NoGroup, !.world = result.world,
             !.errors = IF result.accepted THEN @ ELSE @ + 1]

Flush(st) ==
  IF st.group = NoGroup THEN st
  ELSE IF st.group.state_events + st.group.markers = 0
  THEN [st EXCEPT !.group = NoGroup]
  ELSE Committed(st, CommitTo(st.world,
         Prepared(st.world, ReplayTransaction(st.group, st.runtime))))

\* Mutant: a group is flushed only when metadata follows it.
KeepGroup(st, e) == st

\* A group ends when an event of another epoch comes.
FlushBefore(st, e) ==
  IF st.group # NoGroup /\ st.group.epoch # e.epoch THEN Flush(st) ELSE st

InGroup(st, e) ==
  IF st.group = NoGroup THEN [st EXCEPT !.group = NewGroup(e.epoch)] ELSE st

Collect(st, e) ==
  CASE e.event \in Markers -> [st EXCEPT !.group.markers = @ + 1]
    [] e.event = "object.create" -> ReplayCreate(st, e)
    [] e.event = "object.update" -> ReplayUpdate(st, e)
    [] e.event = "pointer.create" -> ReplayLink(st, e)
    [] e.event = "pointer.remove" -> ReplayRemove(st, e)

ReplayFlushed(st, e) ==
  CASE e.event \in StateEvents \cup Markers -> Collect(InGroup(st, e), e)
    [] e.event \in Metadata -> st
    [] e.event \notin StateEvents \cup Markers \cup Metadata -> Unreplayed(st)

ReplayEvent(st, e) == ReplayFlushed(FlushBefore(st, e), e)

Replay(w, events, runtime) ==
  Flush(FoldLeft(ReplayEvent,
                 [world |-> w, group |-> NoGroup, errors |-> 0,
                  runtime |-> runtime],
                 events))

-----------------------------------------------------------------------------

\* What of a world does not depend on the order its symbols were interned in.
View(w) ==
  [epoch |-> w.epoch,
   objects |-> [n \in DOMAIN w.objects |->
                  [w.objects[n] EXCEPT !.type = w.types[@]]],
   pointers |-> [n \in DOMAIN w.pointers |->
                   [w.pointers[n] EXCEPT !.relation = w.relations[@]]]]

\* Either replayer rebuilds the world from its trace, with every object and
\* pointer and every epoch, whatever was rejected or evolved in between; if
\* the trace holds an event of an attribute or a weight, which neither can
\* replay, it reports an error.
ReplayRebuildsWorld ==
  \A runtime \in BOOLEAN :
    LET replayed == Replay(InitialWorld, trace, runtime)
        replayable == \A e \in Range(trace) :
                        e.event \in StateEvents \cup Markers \cup Metadata
    IN IF replayable
       THEN replayed.errors = 0 /\ View(replayed.world) = View(world)
       ELSE replayed.errors > 0
=============================================================================

------------------------ MODULE InterventionReplay ------------------------
(***************************************************************************)
(* InterventionSearch::trace and its replay_program                        *)
(* (intervention/intervention_search.cpp): the history of a branch is      *)
(* committed again into a fresh repository, its deltas edited by an        *)
(* intervention program, and the breakpoint is looked for in the result.   *)
(*                                                                         *)
(* The objects of the branch are those of its genesis.  The law domain of  *)
(* a link is its place in the source history: a replay keeps it, so it     *)
(* tells which link of the source a pointer of the replica is.             *)
(***************************************************************************)
EXTENDS Breakpoints

CONSTANTS Entities, Ends,       \* the objects; the pairs commits link
          RelationNames, Weights,
          One, Scales,          \* the weight 1.0, and scales as parts of One
          MaxCommits,           \* bound on the source history
          MaxOperators          \* bound on the length of a program

VARIABLES source,               \* snapshot of the branch
          history,              \* its commit records
          search,               \* << >>, or the breakpoint and the program
          replica,              \* the repository of the replay: snap, history
          next,                 \* the record to be replayed next
          delayed,              \* links a program put off
          transformed,          \* the program changed a delta
          outcome               \* "recording", "replaying", "failed", "done"

vars == <<source, history, search, replica, next, delayed, transformed, outcome>>
replayVars == <<search, replica, next, delayed, transformed>>

Genesis ==
  LET names == SetToSeq(Entities)
  IN [EmptySnapshot EXCEPT
        !.types = 1 :> "Object",
        !.objects = [n \in DOMAIN names |->
                       [name |-> names[n], type |-> 1,
                        existence |-> "Alive", attrs |-> {}]]]
ObjectNamed(s, name) == CHOOSE n \in DOMAIN s.objects : s.objects[n].name = name

-----------------------------------------------------------------------------
(* Commits: a delta, the snapshot it gives and the events it leaves *)

Links(delta) == SelectSeq(delta, LAMBDA op : op.kind = "CreatePointer")
Emitted(delta) == SelectSeq(delta, LAMBDA op : op.kind = "EmitEvent")

EventsOf(before, after, delta) ==
  LET links == Links(delta)
      known == Len(before.pointers)
      Created(n) ==
        LET p == after.pointers[known + n]
        IN [event |-> "pointer.create", evidence |-> NoEvidence,
            from |-> after.objects[p.from].name,
            to |-> after.objects[p.to].name,
            relation |-> after.relations[p.relation], pointer |-> known + n]
      emitted == Emitted(delta)
      Graph(n) ==
        [event |-> "graph.event", evidence |-> emitted[n].evidence,
         from |-> emitted[n].from, to |-> emitted[n].to,
         relation |-> emitted[n].relation, pointer |-> NoId]
  IN [n \in DOMAIN links |-> Created(n)] \o [n \in DOMAIN emitted |-> Graph(n)]

CommitRecord(id, before, after, delta, violations) ==
  [id |-> id, origin |-> "Script", epoch |-> after.epoch,
   violations |-> violations, events |-> EventsOf(before, after, delta),
   delta |-> delta]
GenesisRecord ==
  [id |-> <<"commit", 0>>, origin |-> "Internal", epoch |-> 0,
   violations |-> {}, events |-> << >>, delta |-> << >>]

\* bounded_weight, checked in observe mode on the branch.
Overweight(s) == {n \in DOMAIN s.pointers : s.pointers[n].weight > One}

RelationId(s, name) ==
  IF name \in Range(s.relations)
  THEN CHOOSE id \in DOMAIN s.relations : s.relations[id] = name
  ELSE NextSymbol(s.relations)

\* A stored delta interns every relation it refers to.
InternOp(s, name) ==
  [kind |-> "InternRelation", name |-> name, id |-> RelationId(s, name)]
LinkOp(s, ends, name, weight, domain) ==
  [kind |-> "CreatePointer", from |-> IdRef(ObjectNamed(s, ends[1])),
   to |-> IdRef(ObjectNamed(s, ends[2])), relation |-> RelationId(s, name),
   weight |-> weight, domain |-> domain, attrs |-> << >>]
EventOp(ends, name, evidence) ==
  [kind |-> "EmitEvent", evidence |-> evidence, from |-> ends[1],
   to |-> ends[2], relation |-> name]

Record(delta) ==
  /\ outcome = "recording" /\ Len(history) <= MaxCommits
  /\ OverlayAccepts(source, delta)
  /\ LET after == After(source, delta)
     IN /\ source' = after
        /\ history' = Append(history,
             CommitRecord(<<"commit", Len(history)>>, source, after, delta,
                          Overweight(after)))
  /\ UNCHANGED <<replayVars, outcome>>

\* A link, with the event it was ingested from or without.
RecordLink ==
  \E ends \in Ends, name \in RelationNames, ingested \in BOOLEAN :
    Record(<<InternOp(source, name),
             LinkOp(source, ends, name, One, <<Len(history), 1>>)>>
             \o IF ingested
                THEN <<EventOp(ends, name, <<"event", Len(history)>>)>>
                ELSE << >>)

\* A script that makes two links at once.
RecordBatch ==
  \E left, right \in Ends, name \in RelationNames :
    Record(<<InternOp(source, name),
             LinkOp(source, left, name, One, <<Len(history), 1>>),
             LinkOp(source, right, name, One, <<Len(history), 2>>)>>)

RecordExpire ==
  \E n \in DOMAIN source.pointers :
    /\ ActiveAt(source.pointers[n], source.epoch)
    /\ Record(<<[kind |-> "ExpirePointer", id |-> n]>>)

RecordWeight ==
  \E n \in DOMAIN source.pointers, weight \in Weights :
    /\ source.pointers[n].weight # weight
    /\ Record(<<[kind |-> "SetPointerWeight", id |-> n, weight |-> weight]>>)

-----------------------------------------------------------------------------
(* Intervention programs *)

\* make_operator: only the weight of a constraint depends on the scale.
Operators(s, b) ==
  {LET c == Candidate(s, b, action, One)
   IN IF action = "Constrain" THEN [c EXCEPT !.weight = (@ * scale) \div One]
      ELSE c :
     action \in Repairs, scale \in Scales}

Programs(s, b) ==
  UNION {[1..n -> Operators(s, b)] : n \in 0..MaxOperators}

-----------------------------------------------------------------------------
(* edit_delta: one operation after the other *)

EventMatches(op, c) ==
  \/ c.trigger.evidence # NoEvidence /\ op.evidence = c.trigger.evidence
  \/ /\ op.from = c.trigger.from /\ op.to = c.trigger.to
     /\ op.relation = c.trigger.relation

\* Mutant: any link of the triggering relation is the triggering one.
LinkMatchesRelation(e, s, op, c) ==
  \/ e.predicted = c.pointer
  \/ /\ op.relation \in DOMAIN e.relations
     /\ e.relations[op.relation] = c.trigger.relation

\* pointer_create_matches
LinkMatches(e, s, op, c) ==
  \/ e.predicted = c.pointer
  \/ /\ op.relation \in DOMAIN e.relations
     /\ e.relations[op.relation] = c.trigger.relation
     /\ s.objects[op.from.n].name = c.trigger.from
     /\ s.objects[op.to.n].name = c.trigger.to

DelayedLink(e, s, op) ==
  [from |-> s.objects[op.from.n].name, to |-> s.objects[op.to.n].name,
   relation |-> e.relations[op.relation], weight |-> op.weight,
   domain |-> op.domain, evidence |-> << >>]

EditLink(e, s, op, c) ==
  LET edited == [e EXCEPT !.predicted = @ + 1]
      hit == [edited EXCEPT !.changed = TRUE]
      Kept(st, link) == [st EXCEPT !.delta = Append(@, link)]
  IN CASE ~LinkMatches(e, s, op, c) -> Kept(edited, op)
       [] LinkMatches(e, s, op, c) /\ c.action = "Remove" ->
            [hit EXCEPT !.skipped = e.predicted]
       [] LinkMatches(e, s, op, c) /\ c.action = "Delay" ->
            [hit EXCEPT !.skipped = e.predicted,
                        !.delayed = Append(@, DelayedLink(e, s, op))]
       [] LinkMatches(e, s, op, c) /\ c.action = "Constrain" ->
            Kept(hit, [op EXCEPT !.weight = c.weight])
       [] LinkMatches(e, s, op, c) /\ c.action = "Replace" ->
            Kept(hit, [op EXCEPT !.relation = e.replacement])

\* The event of a delayed relation goes with the last link delayed.
EditEvent(e, op, c) ==
  LET hit == [e EXCEPT !.changed = TRUE]
      last == Len(e.delayed)
  IN CASE ~EventMatches(op, c) \/ c.action = "Constrain" ->
            [e EXCEPT !.delta = Append(@, op),
                      !.changed = @ \/ EventMatches(op, c)]
       [] EventMatches(op, c) /\ c.action = "Remove" -> hit
       [] EventMatches(op, c) /\ c.action = "Delay" ->
            IF e.delayed = << >> THEN hit
            ELSE [hit EXCEPT !.delayed[last].evidence = <<op.evidence>>]
       [] EventMatches(op, c) /\ c.action = "Replace" ->
            [hit EXCEPT !.delta = Append(@, [op EXCEPT !.relation = c.replacement])]

EditStep(e, s, op, c) ==
  CASE op.kind = "InternRelation" ->
         [e EXCEPT !.delta = Append(@, op),
                   !.relations = @ @@ (op.id :> op.name)]
    [] op.kind \in PointerOps ->
         IF e.skipped # NoId /\ op.id = e.skipped
         THEN [e EXCEPT !.changed = TRUE]
         ELSE [e EXCEPT !.delta = Append(@, op)]
    [] op.kind = "CreatePointer" -> EditLink(e, s, op, c)
    [] op.kind = "EmitEvent" -> EditEvent(e, op, c)

\* The id of the replacement: its own, or one past those of the snapshot
\* and of the delta.
ReplacementId(s, delta, c) ==
  LET interns == {op \in Range(delta) : op.kind = "InternRelation"}
  IN IF c.replacement \in Range(s.relations) THEN RelationId(s, c.replacement)
     ELSE NextSymbol([id \in DOMAIN s.relations \cup {op.id : op \in interns} |->
                        c.replacement])

\* edit_delta
EditDelta(s, delta, c) ==
  LET id == ReplacementId(s, delta, c)
      interns == c.action = "Replace" /\ id \notin DOMAIN s.relations
      start == [delta |-> IF interns
                          THEN <<[kind |-> "InternRelation",
                                  name |-> c.replacement, id |-> id]>>
                          ELSE << >>,
                relations |-> IF interns THEN s.relations @@ (id :> c.replacement)
                              ELSE s.relations,
                predicted |-> Len(s.pointers) + 1, skipped |-> NoId,
                delayed |-> << >>, changed |-> FALSE, replacement |-> id]
  IN FoldLeft(LAMBDA e, op : EditStep(e, s, op, c), start, delta)

\* edit_delta_for_program: each operator edits what the one before it left.
EditForProgram(s, record, program) ==
  FoldLeft(LAMBDA e, c :
             LET edited == EditDelta(s, e.delta, c)
             IN IF c.trigger.commit # record.id THEN e
                ELSE [delta |-> edited.delta,
                      delayed |-> e.delayed \o edited.delayed,
                      changed |-> e.changed \/ edited.changed],
           [delta |-> record.delta, delayed |-> << >>, changed |-> FALSE],
           program)

-----------------------------------------------------------------------------
(* The replay *)

Init ==
  /\ source = Genesis /\ history = <<GenesisRecord>> /\ search = << >>
  /\ replica = [snap |-> Genesis, history |-> <<GenesisRecord>>]
  /\ next = 2 /\ delayed = << >> /\ transformed = FALSE
  /\ outcome = "recording"

\* A breakpoint of the branch and a program of its operators.
Search ==
  /\ outcome = "recording"
  /\ \E b \in Find(source, history) :
       /\ Repairable(source, b)
       /\ \E program \in Programs(source, b) :
            search' = [breakpoint |-> b, program |-> program]
  /\ outcome' = "replaying"
  /\ UNCHANGED <<source, history, replica, next, delayed, transformed>>

\* commit_delta: nothing for an empty delta, an exception for a refused one.
\* No law is active in a replay.
Committed(delta) ==
  LET after == After(replica.snap, delta)
      id == <<"replay", Len(replica.history)>>
  IN IF delta = << >> THEN replica
     ELSE [snap |-> after,
           history |-> Append(replica.history,
                         CommitRecord(id, replica.snap, after, delta, {}))]

ReplayCommit ==
  /\ outcome = "replaying" /\ next <= Len(history)
  /\ LET e == EditForProgram(replica.snap, history[next], search.program)
         accepted == e.delta = << >> \/ OverlayAccepts(replica.snap, e.delta)
     IN /\ transformed' = (transformed \/ e.changed)
        /\ delayed' = delayed \o e.delayed
        /\ outcome' = IF accepted THEN outcome ELSE "failed"
        /\ replica' = IF accepted THEN Committed(e.delta) ELSE replica
  /\ next' = next + 1
  /\ UNCHANGED <<source, history, search>>

DelayedDelta(s, d) ==
  LET ends == <<d.from, d.to>>
      evidence == IF d.evidence # << >> THEN d.evidence[1]
                  ELSE <<"intervention", "delayed">>
  IN <<LinkOp(s, ends, d.relation, d.weight, d.domain),
       EventOp(ends, d.relation, evidence)>>

\* append_delayed: the links put off come last, each in a commit of its own.
ReplayDelayed ==
  /\ outcome = "replaying" /\ next > Len(history) /\ delayed # << >>
  /\ replica' = Committed(DelayedDelta(replica.snap, Head(delayed)))
  /\ delayed' = Tail(delayed)
  /\ UNCHANGED <<source, history, search, next, transformed, outcome>>

Conclude ==
  /\ outcome = "replaying" /\ next > Len(history) /\ delayed = << >>
  /\ outcome' = "done"
  /\ UNCHANGED <<source, history, replayVars>>

Next == \/ RecordLink \/ RecordBatch \/ RecordExpire \/ RecordWeight
        \/ Search \/ ReplayCommit \/ ReplayDelayed \/ Conclude
Spec == Init /\ [][Next]_vars

\* equivalent_breakpoint_local
Equivalent(b, c) ==
  /\ b.kind = c.kind /\ b.relations = c.relations
  /\ b.entities \cap c.entities # {}

Survivors == {c \in Find(replica.snap, replica.history) :
                Equivalent(search.breakpoint, c)}
Survives == Survivors # {}

-----------------------------------------------------------------------------
(* Properties *)

Concluded == outcome = "done"
Actions == {search.program[n].action : n \in DOMAIN search.program}
IsTrigger(n) ==
  LET p == source.pointers[n]
      t == search.breakpoint.trigger
  IN /\ source.objects[p.from].name = t.from
     /\ source.objects[p.to].name = t.to
     /\ source.relations[p.relation] = t.relation
Copies(n) == {m \in DOMAIN replica.snap.pointers :
                replica.snap.pointers[m].domain = source.pointers[n].domain}

\* The finder is stable: a commit adds breakpoints after those the branch
\* has and changes none of them, their pointers and evidence included, so
\* that an id of breakpoint_finder.cpp stays good while the branch grows.
BreakpointsHold ==
  history' # history =>
    LET old == Find(source, history)
        new == Find(source', history')
    IN /\ old \subseteq new
       /\ \A b \in new \ old, c \in old : ~Before(b, c)

\* A relation is observed once per ingested link: the event of a commit and
\* the pointer it created are not counted both, so the evidence of a
\* repeated relation names links made by two commits or one script.
RepeatedMeansTwoLinks ==
  \A b \in Find(source, history) :
    b.kind = "RepeatedRelation" =>
      Cardinality({n \in DOMAIN source.pointers :
                     /\ source.relations[source.pointers[n].relation]
                          \in b.relations
                     /\ source.pointers[n].born <= b.trigger.epoch})
        >= Threshold

\* Without an operator the replay gives back the branch as it is: the same
\* pointers with the same ids, and the same observations.
IdentityReproduces ==
  Concluded /\ search.program = << >> =>
    /\ replica.snap = source
    /\ ~transformed
    /\ Len(Observations(replica.history)) = Len(Observations(history))

\* A program of one operator leaves every other link alone: it is in the
\* replica once, between the same objects and under the same relation.
OtherLinksAreKept ==
  Concluded /\ Len(search.program) = 1 =>
    \A n \in DOMAIN source.pointers :
      IsTrigger(n) \/
      \E m \in Copies(n) :
        LET p == source.pointers[n]
            q == replica.snap.pointers[m]
        IN /\ Copies(n) = {m} /\ p.from = q.from /\ p.to = q.to
           /\ source.relations[p.relation] = replica.snap.relations[q.relation]

\* Delays lose no link, whatever later commits did to its id.
DelayLosesNothing ==
  Concluded /\ Actions \subseteq {"Delay"} =>
    \A n \in DOMAIN source.pointers : Cardinality(Copies(n)) = 1

\* A repeated relation dies exactly when the program leaves fewer than two
\* observations of it: whether it does can be counted in the source.
Untouched ==
  LET t == search.breakpoint.trigger
      all == Observations(history)
  IN {n \in DOMAIN all :
        /\ all[n].relation = t.relation
        /\ all[n].commit = t.commit => all[n].from # t.from \/ all[n].to # t.to}
DeathIsCounted ==
  /\ Concluded /\ Len(search.program) = 1
  /\ search.breakpoint.kind = "RepeatedRelation"
  => (Survives <=> \/ Actions \cap {"Constrain", "Delay"} # {}
                   \/ Cardinality(Untouched) >= Threshold)

\* A replay that only constrains weights fails at no commit: every id a
\* later delta names is the one it named in the source.
ConstrainReplays ==
  outcome = "failed" => ~(Actions \subseteq {"Constrain"})
=============================================================================

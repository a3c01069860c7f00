---------------------------- MODULE Breakpoints ----------------------------
(***************************************************************************)
(* BreakpointFinder (breakpoint/breakpoint_finder.cpp): the places where   *)
(* the history of a branch broke, found from its commit records and its    *)
(* current snapshot.                                                       *)
(*                                                                         *)
(* A record is [id, origin, epoch, violations, events, delta]; violations  *)
(* is the set of pointers its law violations name.  An event is            *)
(* [event, evidence, from, to, relation, pointer]: evidence NoEvidence is  *)
(* an event without a source or an id, pointer NoId one without a pointer  *)
(* field.  An evidence id is the id of a commit or of an event.            *)
(***************************************************************************)
EXTENDS WorldSnapshots

NoEvidence == << >>
Threshold == 2                  \* repeated_relation_threshold, the default
CONSTANTS MinEvents,            \* concentration_min_events
          ShareNum, ShareDen    \* concentration_share

-----------------------------------------------------------------------------
(* Observations: the relations a history speaks of *)

Observation(index, record, e) ==
  [index |-> index, commit |-> record.id, epoch |-> record.epoch,
   evidence |-> e.evidence, from |-> e.from, to |-> e.to,
   relation |-> e.relation, pointer |-> e.pointer, event |-> e.event]

EventsOfKind(record, kind) ==
  SelectSeq(record.events,
            LAMBDA e : e.event = kind /\ e.relation # Unnamed)

\* The graph events of a record stand for the pointers they created.
RecordObservations(index, record) ==
  LET graph == EventsOfKind(record, "graph.event")
      seen == IF graph = << >> THEN EventsOfKind(record, "pointer.create")
              ELSE graph
  IN IF record.origin = "Internal" THEN << >>
     ELSE [n \in DOMAIN seen |-> Observation(index, record, seen[n])]

Observations(history) ==
  FlattenSeq([n \in DOMAIN history |-> RecordObservations(n, history[n])])

PointersBetween(s, from, to, relation) ==
  {n \in DOMAIN s.pointers :
     LET p == s.pointers[n]
     IN /\ s.objects[p.from].name = from /\ s.objects[p.to].name = to
        /\ s.relations[p.relation] = relation}

Newest(ids) == IF ids = {} THEN NoId ELSE CHOOSE n \in ids : \A m \in ids : m <= n

\* Mutant: the newest pointer of the snapshot, born later or not.
NewestPointerFor(s, o) ==
  IF o.pointer # NoId THEN o.pointer
  ELSE Newest(PointersBetween(s, o.from, o.to, o.relation))

PointerFor(s, o) ==
  IF o.pointer # NoId THEN o.pointer
  ELSE Newest({n \in PointersBetween(s, o.from, o.to, o.relation) :
                 s.pointers[n].born <= o.epoch})

-----------------------------------------------------------------------------
(* The kinds of breakpoints *)

Trigger(o, pointer) == [o EXCEPT !.pointer = pointer]

EvidenceOf(observations) ==
  {o.commit : o \in observations}
     \cup ({o.evidence : o \in observations} \ {NoEvidence})
EntitiesOf(observations) ==
  {o.from : o \in observations} \cup {o.to : o \in observations}

\* The first observation of the commit, or a trigger that names no relation.
InvariantTrigger(observations, index, record) ==
  LET own == SelectSeq(observations, LAMBDA o : o.commit = record.id)
  IN IF own # << >> THEN own[1]
     ELSE Observation(index, record,
            [event |-> "law.violation", evidence |-> NoEvidence,
             from |-> Unnamed, to |-> Unnamed, relation |-> Unnamed,
             pointer |-> NoId])

InvariantBreakpoints(history) ==
  {LET trigger == InvariantTrigger(Observations(history), n, history[n])
       seen == IF trigger.event = "law.violation" THEN {} ELSE {trigger}
   IN [kind |-> "InvariantViolation", trigger |-> trigger,
       entities |-> EntitiesOf(seen),
       relations |-> {o.relation : o \in seen},
       pointers |-> history[n].violations \cup ({trigger.pointer} \ {NoId}),
       evidence |-> {history[n].id} \cup EvidenceOf(seen)] :
     n \in {i \in DOMAIN history : history[i].violations # {}}}

\* A relation breaks once, at its Threshold-th observation.
RepeatedBreakpoints(s, history) ==
  LET all == Observations(history)
      UpTo(n) == {m \in 1..n : all[m].relation = all[n].relation}
  IN {LET prior == {all[m] : m \in UpTo(n)}
          pointer == PointerFor(s, all[n])
      IN [kind |-> "RepeatedRelation", trigger |-> Trigger(all[n], pointer),
          entities |-> EntitiesOf(prior), relations |-> {all[n].relation},
          pointers |-> {pointer}
                         \cup ({PointerFor(s, o) : o \in prior} \ {NoId}),
          evidence |-> EvidenceOf(prior)] :
        n \in {i \in DOMAIN all : Cardinality(UpTo(i)) = Threshold}}

\* Each relation has two endpoints, counted one after the other.
Endpoints(observations) ==
  SelectSeq(FlattenSeq([n \in DOMAIN observations |->
                          <<[entity |-> observations[n].from, of |-> observations[n]],
                            [entity |-> observations[n].to, of |-> observations[n]]>>]),
            LAMBDA end : end.entity # Unnamed)

Concentrated(ends, n) ==
  LET count == Cardinality({m \in 1..n : ends[m].entity = ends[n].entity})
  IN count >= MinEvents /\ count * ShareDen >= ShareNum * n

ConcentrationBreakpoints(history) ==
  LET ends == Endpoints(Observations(history))
      First(n) == /\ Concentrated(ends, n)
                  /\ ~ \E m \in 1..(n - 1) : /\ ends[m].entity = ends[n].entity
                                             /\ Concentrated(ends, m)
  IN {LET enabling == {ends[m].of :
                         m \in {i \in 1..n : ends[i].entity = ends[n].entity}}
      IN [kind |-> "AbnormalConcentration", trigger |-> ends[n].of,
          entities |-> {ends[n].entity},
          relations |-> {o.relation : o \in enabling},
          pointers |-> {ends[n].of.pointer},
          evidence |-> EvidenceOf(enabling)] :
        n \in {i \in DOMAIN ends : First(i)}}

\* BreakpointFinder::find on one branch.
Find(s, history) ==
  InvariantBreakpoints(history) \cup RepeatedBreakpoints(s, history)
    \cup ConcentrationBreakpoints(history)

KindRank(kind) ==
  CASE kind = "InvariantViolation"    -> 0
    [] kind = "RepeatedRelation"      -> 1
    [] kind = "AbnormalConcentration" -> 2

\* sort_breakpoints, up to the last criterion, the hash of the breakpoint.
Before(left, right) ==
  LET l == left.trigger
      r == right.trigger
  IN \/ l.epoch < r.epoch
     \/ l.epoch = r.epoch /\ l.index < r.index
     \/ /\ l.epoch = r.epoch /\ l.index = r.index
        /\ KindRank(left.kind) < KindRank(right.kind)

-----------------------------------------------------------------------------
(* RepairCandidateBuilder (breakpoint/repair_candidate.cpp) *)

\* pointer_from_breakpoint: the trigger's pointer, else the first affected
\* one, else the newest active one with the trigger's endpoints.
BreakpointPointer(s, b) ==
  LET known == b.pointers \cap DOMAIN s.pointers
      between == {n \in PointersBetween(s, b.trigger.from, b.trigger.to,
                                        b.trigger.relation) :
                    ActiveAt(s.pointers[n], s.epoch)}
  IN IF b.trigger.pointer \in DOMAIN s.pointers THEN b.trigger.pointer
     ELSE IF known # {} THEN CHOOSE n \in known : \A m \in known : n <= m
     ELSE Newest(between)

\* build_all throws for a breakpoint without a concrete relation.
Repairable(s, b) == BreakpointPointer(s, b) # NoId

Repairs == {"Remove", "Constrain", "Delay", "Replace"}
Counterfactual(relation) ==
  IF relation = Unnamed THEN "replacement" ELSE relation \o "_counterfactual"

\* One candidate per action, each with the pointer, the weight ceiling and
\* the replacement relation of the snapshot.
Candidate(s, b, action, One) ==
  LET n == BreakpointPointer(s, b)
      p == s.pointers[n]
  IN [action |-> action, trigger |-> b.trigger, pointer |-> n,
      weight |-> IF p.weight > One THEN One ELSE p.weight,
      replacement |-> Counterfactual(s.relations[p.relation])]
=============================================================================

----------------------------- MODULE LawProofs -----------------------------
(***************************************************************************)
(* What the laws keep true of a history, for every set of transitions,     *)
(* rules and builtin laws: what strict mode accepted stays explained by    *)
(* the pointers of the world, however many transitions follow it.          *)
(*                                                                         *)
(* What a step derives, for every program, graph and bound: nothing that a *)
(* closed graph could do without, and, when the rounds of a step are       *)
(* enough, all that follows.  The rounds are counted, so most of this is   *)
(* by induction on their number, from the least number principle: the      *)
(* induction theorems of the library take the predicate as an operator,    *)
(* sets do as well.                                                        *)
(***************************************************************************)
EXTENDS LawfulWorld, Derivations, FiniteSetTheorems, TLAPS

-----------------------------------------------------------------------------
(* The world.                                                              *)

PointerOK(p, epoch, objects) ==
  /\ p = [from |-> p.from, to |-> p.to, relation |-> p.relation, weight |-> p.weight,
          born |-> p.born, expires |-> p.expires]
  /\ p.weight \in Int
  /\ p.born \in Nat /\ 1 <= p.born /\ p.born <= epoch
  /\ p.expires \in Nat /\ p.expires <= epoch
  /\ p.expires # 0 => p.born < p.expires
  /\ {p.from, p.to} \subseteq objects

WorldOK(w) ==
  /\ w = [epoch |-> w.epoch, types |-> w.types, pointers |-> w.pointers]
  /\ w.epoch \in Nat
  /\ w.pointers \in Seq(Range(w.pointers))
  /\ \A i \in DOMAIN w.pointers : PointerOK(w.pointers[i], w.epoch, DOMAIN w.types)

(* A pointer that stays, and whether the transition unlinked it.           *)
Stays(old, new, unlinked, epoch) ==
  /\ new.from = old.from /\ new.to = old.to /\ new.relation = old.relation
  /\ new.weight = old.weight /\ new.born = old.born
  /\ IF unlinked THEN old.expires = 0 /\ new.expires = epoch ELSE new.expires = old.expires

(* A pointer that a transition linked.                                     *)
Linked(new, l, epoch) ==
  /\ new.from = l.from /\ new.to = l.to /\ new.relation = l.relation
  /\ new.weight = l.weight /\ new.born = epoch /\ new.expires = 0

(* What a transition makes of a world.                                     *)
Becomes(w, v, delta) ==
  /\ w.epoch \in Nat /\ v.epoch = w.epoch + 1
  /\ DOMAIN v.types = DOMAIN w.types \cup DOMAIN delta.types
  /\ \A o \in DOMAIN w.types : v.types[o] = w.types[o]
  /\ DOMAIN w.pointers \subseteq DOMAIN v.pointers
  /\ \A i \in DOMAIN w.pointers :
       Stays(w.pointers[i], v.pointers[i], i \in delta.unlinks, v.epoch)
  /\ \A i \in DOMAIN v.pointers \ DOMAIN w.pointers :
       \E l \in Range(delta.links) : Linked(v.pointers[i], l, v.epoch)

LEMMA FunctionIsSequence ==
  ASSUME NEW R, NEW n \in Nat, NEW f \in [1..n -> R]
  PROVE  f \in Seq(R)
OBVIOUS

LEMMA InItsRange ==
  ASSUME NEW S, NEW u \in Seq(S)
  PROVE  u \in Seq(Range(u))
<1>1. Len(u) \in Nat /\ DOMAIN u = 1..Len(u)
  OBVIOUS
<1>2. PICK n \in Nat : n = Len(u) /\ u = [i \in 1..n |-> u[i]]
  BY <1>1
<1>3. \A i \in 1..n : u[i] \in Range(u)
  BY <1>1, <1>2 DEF Range
<1>4. u \in [1..n -> Range(u)]
  BY <1>2, <1>3
<1> QED BY <1>4, FunctionIsSequence

(* One sequence after another.                                             *)
JoinOf(s, t, u) ==
  /\ u \in Seq(Range(u)) /\ DOMAIN s \subseteq DOMAIN u
  /\ \A i \in DOMAIN s : u[i] = s[i]
  /\ \A i \in DOMAIN u \ DOMAIN s : \E j \in DOMAIN t : u[i] = t[j]

LEMMA Joined ==
  ASSUME NEW R, NEW s \in Seq(R), NEW t \in Seq(R), NEW u, u = s \o t
  PROVE  JoinOf(s, t, u)
<1>1. u \in Seq(R) /\ DOMAIN s = 1..Len(s) /\ DOMAIN t = 1..Len(t) /\ DOMAIN u = 1..Len(u)
      /\ Len(u) = Len(s) + Len(t) /\ Len(s) \in Nat /\ Len(t) \in Nat
  OBVIOUS
<1>2. \A i \in 1..Len(s) : u[i] = s[i]
  OBVIOUS
<1>3. \A i \in 1..Len(u) : ~(i \in 1..Len(s)) => i - Len(s) \in 1..Len(t) /\ u[i] = t[i - Len(s)]
  BY <1>1
<1>4. u \in Seq(Range(u))
  BY <1>1, InItsRange
<1>5. DOMAIN s \subseteq DOMAIN u /\ \A i \in DOMAIN s : u[i] = s[i]
  BY <1>1, <1>2
<1>6. \A i \in DOMAIN u \ DOMAIN s : i - Len(s) \in DOMAIN t /\ u[i] = t[i - Len(s)]
  BY <1>1, <1>3
<1>7. \A i \in DOMAIN u \ DOMAIN s : \E j \in DOMAIN t : u[i] = t[j]
  BY <1>6
<1> QED BY <1>4, <1>5, <1>7 DEF JoinOf

LEMMA AfterBecomes ==
  ASSUME NEW w, WorldOK(w), NEW delta, delta.links \in Seq(Range(delta.links)),
         DOMAIN delta.types \cap DOMAIN w.types = {},
         \A i \in delta.unlinks : i \in DOMAIN w.pointers /\ ActiveAt(w.pointers[i], w.epoch),
         NEW v, v = After(w, delta)
  PROVE  /\ Becomes(w, v, delta)
         /\ v = [epoch |-> v.epoch, types |-> v.types, pointers |-> v.pointers]
         /\ v.pointers \in Seq(Range(v.pointers))
         /\ \A i \in DOMAIN v.pointers : LET p == v.pointers[i] IN
              p = [from |-> p.from, to |-> p.to, relation |-> p.relation, weight |-> p.weight,
                   born |-> p.born, expires |-> p.expires]
<1> DEFINE epoch == w.epoch + 1
           kept(i) == IF i \in delta.unlinks THEN [w.pointers[i] EXCEPT !.expires = epoch]
                                             ELSE w.pointers[i]
           born(l) == [from |-> l.from, to |-> l.to, relation |-> l.relation,
                       weight |-> l.weight, born |-> epoch, expires |-> 0]
           old == [i \in DOMAIN w.pointers |-> kept(i)]
           new == [i \in DOMAIN delta.links |-> born(delta.links[i])]
           Shape(p) == p = [from |-> p.from, to |-> p.to, relation |-> p.relation,
                            weight |-> p.weight, born |-> p.born, expires |-> p.expires]
<1>1. /\ v.epoch = epoch /\ v.types = Over(delta.types, w.types) /\ v.pointers = old \o new
      /\ v = [epoch |-> v.epoch, types |-> v.types, pointers |-> v.pointers]
  BY DEF After
<1>2. ASSUME NEW i \in DOMAIN w.pointers
      PROVE  Stays(w.pointers[i], old[i], i \in delta.unlinks, epoch) /\ Shape(old[i])
  <2>1. PICK p : p = w.pointers[i]
    OBVIOUS
  <2>2. Shape(p) /\ p.expires \in Nat /\ p.expires <= w.epoch /\ w.epoch \in Nat
    BY <2>1 DEF WorldOK, PointerOK
  <2>3. CASE i \in delta.unlinks
    <3>1. ActiveAt(p, w.epoch)
      BY <2>1, <2>3
    <3>2. p.expires = 0
      BY <2>2, <3>1 DEF ActiveAt
    <3>3. PICK q : q = [p EXCEPT !.expires = epoch]
      OBVIOUS
    <3>4. /\ q.from = p.from /\ q.to = p.to /\ q.relation = p.relation
          /\ q.weight = p.weight /\ q.born = p.born /\ q.expires = epoch /\ Shape(q)
      BY <2>2, <3>3
    <3>5. old[i] = q
      BY <2>1, <2>3, <3>3
    <3> QED BY <2>1, <2>3, <3>2, <3>4, <3>5 DEF Stays
  <2>4. CASE i \notin delta.unlinks
    <3>1. old[i] = p
      BY <2>1, <2>4
    <3> QED BY <2>1, <2>2, <2>4, <3>1 DEF Stays
  <2> QED BY <2>3, <2>4
<1>3. ASSUME NEW j \in DOMAIN delta.links
      PROVE  (\E l \in Range(delta.links) : Linked(new[j], l, epoch)) /\ Shape(new[j])
  <2>1. PICK l : l = delta.links[j]
    OBVIOUS
  <2>2. l \in Range(delta.links) /\ new[j] = born(l)
    BY <2>1 DEF Range
  <2>3. Linked(new[j], l, epoch) /\ Shape(new[j])
    BY <2>2 DEF Linked
  <2> QED BY <2>2, <2>3
<1>4. PICK R : R = Range(old) \cup Range(new)
  OBVIOUS
<1>5. old \in Seq(R) /\ DOMAIN old = DOMAIN w.pointers
  <2>1. PICK n \in Nat : DOMAIN w.pointers = 1..n
    BY DEF WorldOK
  <2>2. old \in [1..n -> R]
    <3>1. \A i \in 1..n : old[i] \in R
      BY <1>4, <2>1 DEF Range
    <3> QED BY <2>1, <3>1
  <2> HIDE DEF old
  <2> QED BY <2>1, <2>2, FunctionIsSequence
<1>6. new \in Seq(R) /\ DOMAIN new = DOMAIN delta.links
  <2>1. PICK n \in Nat : DOMAIN delta.links = 1..n
    OBVIOUS
  <2>2. new \in [1..n -> R]
    <3>1. \A i \in 1..n : new[i] \in R
      BY <1>4, <2>1 DEF Range
    <3> QED BY <2>1, <3>1
  <2> HIDE DEF new
  <2> QED BY <2>1, <2>2, FunctionIsSequence
<1> HIDE DEF old, new, Shape
<1>7. PICK u : u = v.pointers
  OBVIOUS
<1>8. /\ u \in Seq(Range(u)) /\ DOMAIN w.pointers \subseteq DOMAIN u
      /\ \A i \in DOMAIN w.pointers : u[i] = old[i]
      /\ \A i \in DOMAIN u \ DOMAIN w.pointers : \E j \in DOMAIN delta.links : u[i] = new[j]
  <2>1. u = old \o new
    BY <1>1, <1>7
  <2>2. JoinOf(old, new, u)
    BY <1>5, <1>6, <2>1, Joined
  <2> QED BY <1>5, <1>6, <2>2 DEF JoinOf
<1>9. \A i \in DOMAIN u : Shape(u[i])
  BY <1>2, <1>3, <1>8
<1>10. /\ DOMAIN v.types = DOMAIN w.types \cup DOMAIN delta.types
       /\ \A o \in DOMAIN w.types : v.types[o] = w.types[o]
  BY <1>1 DEF Over
<1>11. Becomes(w, v, delta)
  BY <1>1, <1>2, <1>3, <1>7, <1>8, <1>10 DEF Becomes, WorldOK
<1> QED BY <1>1, <1>7, <1>8, <1>9, <1>11 DEF Shape

-----------------------------------------------------------------------------
(* The world stays one.                                                    *)

LEMMA AfterIsWorld ==
  ASSUME DeltasAssumption, NEW delta \in Deltas, WorldOK(world), Offered(delta), Applies(delta),
         NEW v, v = After(world, delta)
  PROVE  WorldOK(v) /\ Becomes(world, v, delta)
<1>1. PICK w : w = world
  OBVIOUS
<1>2. /\ Becomes(w, v, delta)
      /\ v = [epoch |-> v.epoch, types |-> v.types, pointers |-> v.pointers]
      /\ v.pointers \in Seq(Range(v.pointers))
      /\ \A i \in DOMAIN v.pointers : LET p == v.pointers[i] IN
           p = [from |-> p.from, to |-> p.to, relation |-> p.relation, weight |-> p.weight,
                born |-> p.born, expires |-> p.expires]
  <2>1. delta.links \in Seq(Range(delta.links))
    BY DEF DeltasAssumption
  <2>2. DOMAIN delta.types \cap DOMAIN w.types = {}
    BY <1>1 DEF Applies
  <2>3. \A i \in delta.unlinks : i \in DOMAIN w.pointers /\ ActiveAt(w.pointers[i], w.epoch)
    BY <1>1 DEF Offered
  <2>4. WorldOK(w) /\ v = After(w, delta)
    BY <1>1
  <2> QED BY <2>1, <2>2, <2>3, <2>4, AfterBecomes
<1>3. v.epoch \in Nat /\ v.epoch = w.epoch + 1 /\ w.epoch \in Nat
  BY <1>2 DEF Becomes
<1>4. ASSUME NEW i \in DOMAIN v.pointers
      PROVE  PointerOK(v.pointers[i], v.epoch, DOMAIN v.types)
  <2>1. PICK q : q = v.pointers[i]
    OBVIOUS
  <2>2. q = [from |-> q.from, to |-> q.to, relation |-> q.relation, weight |-> q.weight,
             born |-> q.born, expires |-> q.expires]
    BY <1>2, <2>1
  <2>3. CASE i \in DOMAIN w.pointers
    <3>1. PICK p : p = w.pointers[i]
      OBVIOUS
    <3>2. Stays(p, q, i \in delta.unlinks, v.epoch)
      BY <1>2, <2>1, <2>3, <3>1 DEF Becomes
    <3>3. PointerOK(p, w.epoch, DOMAIN w.types)
      BY <1>1, <2>3, <3>1 DEF WorldOK
    <3>4. {p.from, p.to} \subseteq DOMAIN v.types
      BY <1>2, <3>3 DEF PointerOK, Becomes
    <3>5. /\ q.weight \in Int /\ q.born \in Nat /\ 1 <= q.born /\ q.born <= v.epoch
          /\ q.expires \in Nat /\ q.expires <= v.epoch /\ (q.expires # 0 => q.born < q.expires)
      BY <1>3, <3>2, <3>3 DEF Stays, PointerOK
    <3>6. {q.from, q.to} \subseteq DOMAIN v.types
      BY <3>2, <3>4 DEF Stays
    <3> QED BY <2>1, <2>2, <3>5, <3>6 DEF PointerOK
  <2>4. CASE i \notin DOMAIN w.pointers
    <3>1. PICK l \in Range(delta.links) : Linked(q, l, v.epoch)
      BY <1>2, <2>1, <2>4 DEF Becomes
    <3>2. l.weight \in Int
      BY DEF DeltasAssumption
    <3>3. v.types = Over(delta.types, world.types)
      BY DEF After
    <3>4. {l.from, l.to} \subseteq DOMAIN v.types
      BY <3>3 DEF Applies
    <3>5. {q.from, q.to} \subseteq DOMAIN v.types
      BY <3>1, <3>4 DEF Linked
    <3>6. /\ q.weight \in Int /\ q.born \in Nat /\ 1 <= q.born /\ q.born <= v.epoch
          /\ q.expires \in Nat /\ q.expires <= v.epoch /\ (q.expires # 0 => q.born < q.expires)
      BY <1>3, <3>1, <3>2 DEF Linked
    <3> QED BY <2>1, <2>2, <3>5, <3>6 DEF PointerOK
  <2> QED BY <2>3, <2>4
<1>5. WorldOK(v)
  BY <1>2, <1>3, <1>4 DEF WorldOK
<1> QED BY <1>1, <1>2, <1>5

-----------------------------------------------------------------------------
(* What a rule says of a transition.                                       *)

LEMMA TriggerAnswered ==
  ASSUME NEW verifier, NEW rule \in verifier.rules, NEW w, NEW v, NEW delta,
         NEW m \in TriggerMatches(v, delta, rule.trigger),
         NEW requirement \in Range(rule.requirements)
  PROVE  \/ Violation(rule.name, rule.severity, m) \in Violations(verifier, w, v, delta)
         \/ requirement.forbidden # RequirementExists(w, v, m, requirement)
<1>1. PatternLaw(rule, w, v, delta) \subseteq Violations(verifier, w, v, delta)
  BY DEF Violations
<1>2. ASSUME ~(requirement.forbidden # RequirementExists(w, v, m, requirement))
      PROVE  Violation(rule.name, rule.severity, m) \in PatternLaw(rule, w, v, delta)
  BY <1>2 DEF PatternLaw
<1> QED BY <1>1, <1>2

LEMMA StrictAccepts ==
  ASSUME NEW verifier, verifier.mode = "strict", NEW w, NEW v, NEW delta,
         Check(verifier, w, v, delta).accepted,
         NEW violation \in Violations(verifier, w, v, delta)
  PROVE  violation.severity # "error"
BY DEF Check, RejectsTransition

(* The two rules.                                                          *)
AgentOnFile(relation) == [from_type |-> "Agent", relation |-> relation, to_type |-> "File"]

ReadBefore == [pattern |-> AgentOnFile("reads"), from_binding |-> "from",
               to_binding |-> "to", search |-> "before", forbidden |-> FALSE]
ReadRule == [name |-> "no_write_without_read", trigger |-> AgentOnFile("modifies"),
             requirements |-> <<ReadBefore>>, severity |-> "error"]

NoSeal == [pattern |-> [from_type |-> "*", relation |-> "seals", to_type |-> "File"],
           from_binding |-> "any", to_binding |-> "to", search |-> "exists", forbidden |-> TRUE]
SealRule == [name |-> "no_write_when_sealed", trigger |-> AgentOnFile("modifies"),
             requirements |-> <<NoSeal>>, severity |-> "error"]

(* A pointer of a world by which an agent modifies a file.                 *)
IsWrite(v, p) == p.relation = "modifies" /\ v.types[p.from] = "Agent" /\ v.types[p.to] = "File"

LEMMA WriteTriggers ==
  ASSUME NEW delta, delta.links \in Seq(Range(delta.links)), NEW l \in Range(delta.links), NEW v,
         IsWrite(v, l), {l.from, l.to} \subseteq DOMAIN v.types
  PROVE  l \in TriggerMatches(v, delta, AgentOnFile("modifies"))
<1>1. delta.links # << >>
  BY DEF Range
<1>2. MatchesRelationPattern(v, AgentOnFile("modifies"), l)
  BY DEF IsWrite, MatchesRelationPattern, WildcardOrEqual, AgentOnFile
<1> QED BY <1>1, <1>2 DEF TriggerMatches

HasActiveRead(w, l) ==
  \E p \in Active(w) : p.relation = "reads" /\ p.from = l.from /\ p.to = l.to

LEMMA ReadAnswered ==
  ASSUME NEW verifier, ReadRule \in verifier.rules, NEW w, NEW v, NEW delta,
         NEW l \in TriggerMatches(v, delta, AgentOnFile("modifies"))
  PROVE  \/ Violation("no_write_without_read", "error", l) \in Violations(verifier, w, v, delta)
         \/ HasActiveRead(w, l)
<1>1. PICK rule \in verifier.rules : rule = ReadRule
  OBVIOUS
<1>2. /\ rule.name = "no_write_without_read" /\ rule.severity = "error"
      /\ rule.trigger = AgentOnFile("modifies") /\ rule.requirements = <<ReadBefore>>
  BY <1>1 DEF ReadRule
<1>3. PICK r \in Range(rule.requirements) : r = ReadBefore
  BY <1>2 DEF Range
<1>4. \/ Violation(rule.name, rule.severity, l) \in Violations(verifier, w, v, delta)
      \/ r.forbidden # RequirementExists(w, v, l, r)
  BY <1>2, TriggerAnswered
<1>5. /\ r.forbidden = FALSE /\ r.search = "before" /\ r.from_binding = "from" /\ r.to_binding = "to"
      /\ r.pattern = AgentOnFile("reads")
  BY <1>3 DEF ReadBefore
<1>6. ASSUME RelationExists(w, l, r)
      PROVE  HasActiveRead(w, l)
  <2>1. PICK p \in Active(w) : /\ EndpointAllowed("from", p.from, l) /\ EndpointAllowed("to", p.to, l)
                               /\ MatchesRelationPattern(w, AgentOnFile("reads"), p)
    BY <1>5, <1>6 DEF RelationExists
  <2>2. p.from = l.from /\ p.to = l.to
    BY <2>1 DEF EndpointAllowed
  <2>3. p.relation = "reads"
    BY <2>1 DEF MatchesRelationPattern, WildcardOrEqual, AgentOnFile
  <2> QED BY <2>2, <2>3 DEF HasActiveRead
<1>7. RequirementExists(w, v, l, r) => RelationExists(w, l, r)
  BY <1>5 DEF RequirementExists
<1>8. RequirementExists(w, v, l, r) \in BOOLEAN
  BY DEF RequirementExists
<1>9. r.forbidden # RequirementExists(w, v, l, r) => HasActiveRead(w, l)
  BY <1>5, <1>6, <1>7, <1>8
<1> QED BY <1>2, <1>4, <1>9

HasActiveSeal(w, l) ==
  \E p \in Active(w) : /\ p.relation = "seals" /\ p.to = l.to
                       /\ {p.from, p.to} \subseteq DOMAIN w.types /\ w.types[p.to] = "File"

LEMMA SealAnswered ==
  ASSUME NEW verifier, SealRule \in verifier.rules, NEW w, NEW v, NEW delta,
         NEW l \in TriggerMatches(v, delta, AgentOnFile("modifies"))
  PROVE  \/ Violation("no_write_when_sealed", "error", l) \in Violations(verifier, w, v, delta)
         \/ ~HasActiveSeal(w, l) /\ ~HasActiveSeal(v, l)
<1>1. PICK rule \in verifier.rules : rule = SealRule
  OBVIOUS
<1>2. /\ rule.name = "no_write_when_sealed" /\ rule.severity = "error"
      /\ rule.trigger = AgentOnFile("modifies") /\ rule.requirements = <<NoSeal>>
  BY <1>1 DEF SealRule
<1>3. PICK r \in Range(rule.requirements) : r = NoSeal
  BY <1>2 DEF Range
<1>4. \/ Violation(rule.name, rule.severity, l) \in Violations(verifier, w, v, delta)
      \/ r.forbidden # RequirementExists(w, v, l, r)
  BY <1>2, TriggerAnswered
<1>5. /\ r.forbidden = TRUE /\ r.search = "exists" /\ r.from_binding = "any" /\ r.to_binding = "to"
      /\ r.pattern = [from_type |-> "*", relation |-> "seals", to_type |-> "File"]
  BY <1>3 DEF NoSeal
<1>6. ASSUME NEW u, HasActiveSeal(u, l)
      PROVE  RelationExists(u, l, r)
  <2>1. PICK p \in Active(u) : /\ p.relation = "seals" /\ p.to = l.to
                               /\ {p.from, p.to} \subseteq DOMAIN u.types /\ u.types[p.to] = "File"
    BY <1>6 DEF HasActiveSeal
  <2>2. EndpointAllowed(r.from_binding, p.from, l) /\ EndpointAllowed(r.to_binding, p.to, l)
    BY <1>5, <2>1 DEF EndpointAllowed
  <2>3. MatchesRelationPattern(u, r.pattern, p)
    BY <1>5, <2>1 DEF MatchesRelationPattern, WildcardOrEqual
  <2> QED BY <2>2, <2>3 DEF RelationExists
<1>7. RequirementExists(w, v, l, r) \/ (~RelationExists(w, l, r) /\ ~RelationExists(v, l, r))
  BY <1>5 DEF RequirementExists
<1>8. RequirementExists(w, v, l, r) \in BOOLEAN
  BY DEF RequirementExists
<1> QED BY <1>2, <1>4, <1>5, <1>6, <1>7, <1>8

-----------------------------------------------------------------------------
(* What is true of a pointer when it is linked stays true of it.           *)

ReadOf(p, r) ==
  r.relation = "reads" /\ r.from = p.from /\ r.to = p.to /\ StandingAt(r, p.born - 1)
HasRead(v, p) == \E i \in DOMAIN v.pointers : ReadOf(p, v.pointers[i])

SealOf(p, s) ==
  /\ s.relation = "seals" /\ s.to = p.to
  /\ StandingAt(s, p.born - 1) \/ StandingAt(s, p.born)
IsSealed(v, p) == \E i \in DOMAIN v.pointers : SealOf(p, v.pointers[i])

LEMMA WritesPersist ==
  ASSUME NEW w, WorldOK(w), NEW v, NEW delta, Becomes(w, v, delta), NEW i \in DOMAIN w.pointers,
         IsWrite(v, v.pointers[i])
  PROVE  IsWrite(w, w.pointers[i])
<1>1. PICK p, q : p = w.pointers[i] /\ q = v.pointers[i]
  OBVIOUS
<1>2. Stays(p, q, i \in delta.unlinks, v.epoch)
  BY <1>1 DEF Becomes
<1>3. {p.from, p.to} \subseteq DOMAIN w.types
  BY <1>1 DEF WorldOK, PointerOK
<1>4. v.types[p.from] = w.types[p.from] /\ v.types[p.to] = w.types[p.to]
  BY <1>3 DEF Becomes
<1> QED BY <1>1, <1>2, <1>4 DEF IsWrite, Stays

LEMMA ReadsPersist ==
  ASSUME NEW w, WorldOK(w), NEW v, NEW delta, Becomes(w, v, delta), NEW i \in DOMAIN w.pointers,
         HasRead(w, w.pointers[i])
  PROVE  HasRead(v, v.pointers[i])
<1>1. PICK p, q : p = w.pointers[i] /\ q = v.pointers[i]
  OBVIOUS
<1>2. Stays(p, q, i \in delta.unlinks, v.epoch)
  BY <1>1 DEF Becomes
<1>3. p.born \in Nat /\ p.born <= w.epoch /\ w.epoch \in Nat /\ v.epoch = w.epoch + 1
  BY <1>1 DEF WorldOK, PointerOK, Becomes
<1>4. PICK j \in DOMAIN w.pointers : ReadOf(p, w.pointers[j])
  BY <1>1 DEF HasRead
<1>5. PICK r, t : r = w.pointers[j] /\ t = v.pointers[j]
  OBVIOUS
<1>6. Stays(r, t, j \in delta.unlinks, v.epoch) /\ j \in DOMAIN v.pointers
  BY <1>5 DEF Becomes
<1>7. ReadOf(q, t)
  BY <1>2, <1>3, <1>4, <1>5, <1>6 DEF Stays, ReadOf, StandingAt
<1> QED BY <1>1, <1>5, <1>6, <1>7 DEF HasRead

LEMMA SealsDoNotAppear ==
  ASSUME NEW w, WorldOK(w), NEW v, NEW delta, Becomes(w, v, delta), NEW i \in DOMAIN w.pointers,
         IsSealed(v, v.pointers[i])
  PROVE  IsSealed(w, w.pointers[i])
<1>1. PICK p, q : p = w.pointers[i] /\ q = v.pointers[i]
  OBVIOUS
<1>2. Stays(p, q, i \in delta.unlinks, v.epoch)
  BY <1>1 DEF Becomes
<1>3. p.born \in Nat /\ p.born <= w.epoch /\ w.epoch \in Nat /\ v.epoch = w.epoch + 1
  BY <1>1 DEF WorldOK, PointerOK, Becomes
<1>4. PICK j \in DOMAIN v.pointers : SealOf(q, v.pointers[j])
  BY <1>1 DEF IsSealed
<1>5. j \in DOMAIN w.pointers
  <2> SUFFICES ASSUME j \notin DOMAIN w.pointers
               PROVE  FALSE
    OBVIOUS
  <2>1. PICK l \in Range(delta.links) : Linked(v.pointers[j], l, v.epoch)
    BY DEF Becomes
  <2> QED BY <1>2, <1>3, <1>4, <2>1 DEF SealOf, StandingAt, Linked, Stays
<1>6. PICK s, t : s = w.pointers[j] /\ t = v.pointers[j]
  OBVIOUS
<1>7. Stays(s, t, j \in delta.unlinks, v.epoch)
  BY <1>5, <1>6 DEF Becomes
<1>8. SealOf(p, s)
  BY <1>2, <1>3, <1>4, <1>6, <1>7 DEF Stays, SealOf, StandingAt
<1> QED BY <1>1, <1>5, <1>6, <1>8 DEF IsSealed

LEMMA NewRead ==
  ASSUME NEW w, WorldOK(w), NEW v, NEW delta, Becomes(w, v, delta),
         NEW l, NEW q, Linked(q, l, v.epoch), HasActiveRead(w, l)
  PROVE  HasRead(v, q)
<1>1. PICK j \in DOMAIN w.pointers :
        /\ ActiveAt(w.pointers[j], w.epoch) /\ w.pointers[j].relation = "reads"
        /\ w.pointers[j].from = l.from /\ w.pointers[j].to = l.to
  BY DEF HasActiveRead, Active
<1>2. PICK r, t : r = w.pointers[j] /\ t = v.pointers[j]
  OBVIOUS
<1>3. Stays(r, t, j \in delta.unlinks, v.epoch) /\ j \in DOMAIN v.pointers
  BY <1>2 DEF Becomes
<1>4. /\ w.epoch \in Nat /\ v.epoch = w.epoch + 1 /\ r.born \in Nat /\ r.born <= w.epoch
      /\ r.expires \in Nat
  BY <1>2 DEF WorldOK, PointerOK, Becomes
<1>5. q.born - 1 = w.epoch
  BY <1>4 DEF Linked
<1>6. StandingAt(t, w.epoch)
  BY <1>1, <1>2, <1>3, <1>4 DEF Stays, ActiveAt, StandingAt
<1>7. ReadOf(q, t)
  BY <1>1, <1>2, <1>3, <1>5, <1>6 DEF ReadOf, Stays, Linked
<1> QED BY <1>2, <1>3, <1>7 DEF HasRead

LEMMA NewSeal ==
  ASSUME NEW w, WorldOK(w), NEW v, WorldOK(v), NEW delta, Becomes(w, v, delta),
         NEW l, NEW q, Linked(q, l, v.epoch), v.types[q.to] = "File", IsSealed(v, q)
  PROVE  HasActiveSeal(w, l) \/ HasActiveSeal(v, l)
<1>1. PICK j \in DOMAIN v.pointers : SealOf(q, v.pointers[j])
  BY DEF IsSealed
<1>2. PICK t : t = v.pointers[j]
  OBVIOUS
<1>3. /\ w.epoch \in Nat /\ v.epoch = w.epoch + 1 /\ t.born \in Nat /\ t.expires \in Nat
      /\ {t.from, t.to} \subseteq DOMAIN v.types
  BY <1>2 DEF WorldOK, PointerOK, Becomes
<1>4. q.born = v.epoch /\ q.born - 1 = w.epoch /\ q.to = l.to
  BY <1>3 DEF Linked
<1>5. t.relation = "seals" /\ t.to = l.to /\ v.types[t.to] = "File"
  BY <1>1, <1>2, <1>4 DEF SealOf
<1>6. CASE StandingAt(t, v.epoch)
  <2>1. ActiveAt(t, v.epoch)
    BY <1>3, <1>6 DEF ActiveAt, StandingAt
  <2>2. t \in Active(v)
    BY <1>2, <2>1 DEF Active
  <2> QED BY <1>3, <1>5, <2>2 DEF HasActiveSeal
<1>7. CASE StandingAt(t, w.epoch)
  <2>1. j \in DOMAIN w.pointers
    <3> SUFFICES ASSUME j \notin DOMAIN w.pointers
                 PROVE  FALSE
      OBVIOUS
    <3>1. PICK k \in Range(delta.links) : Linked(t, k, v.epoch)
      BY <1>2 DEF Becomes
    <3> QED BY <1>3, <1>7, <3>1 DEF Linked, StandingAt
  <2>2. PICK s : s = w.pointers[j]
    OBVIOUS
  <2>3. Stays(s, t, j \in delta.unlinks, v.epoch)
    BY <1>2, <2>1, <2>2 DEF Becomes
  <2>4. {s.from, s.to} \subseteq DOMAIN w.types /\ s.born \in Nat /\ s.expires \in Nat
    BY <2>1, <2>2 DEF WorldOK, PointerOK
  <2>5. ActiveAt(s, w.epoch)
    BY <1>3, <1>7, <2>3, <2>4 DEF Stays, StandingAt, ActiveAt
  <2>6. s \in Active(w)
    BY <2>1, <2>2, <2>5 DEF Active
  <2>7. w.types[s.to] = "File"
    BY <1>5, <2>3, <2>4 DEF Stays, Becomes
  <2> QED BY <1>5, <2>3, <2>4, <2>6, <2>7 DEF HasActiveSeal, Stays
<1> QED BY <1>1, <1>2, <1>4, <1>6, <1>7 DEF SealOf

-----------------------------------------------------------------------------
(* The invariant.  The verifier is asked about a transition once, when it  *)
(* is offered: what it said then is true of the pointers linked then, and  *)
(* stays true of them.                                                     *)

Recorded(law, p) == [law |-> law, from |-> p.from, to |-> p.to]

WorldInv == WorldOK(world) /\ strictly \subseteq DOMAIN world.pointers

StrictRead ==
  \A i \in strictly : IsWrite(world, world.pointers[i]) => HasRead(world, world.pointers[i])
StrictUnsealed ==
  \A i \in strictly : IsWrite(world, world.pointers[i]) => ~IsSealed(world, world.pointers[i])
ReadOrReported ==
  \A i \in DOMAIN world.pointers :
    IsWrite(world, world.pointers[i]) =>
      \/ HasRead(world, world.pointers[i])
      \/ Recorded("no_write_without_read", world.pointers[i]) \in reported

ReadsInv == WorldInv /\ StrictRead /\ ReadOrReported
SealsInv == WorldInv /\ StrictUnsealed

LEMMA LawfulInit ==
  ASSUME Init
  PROVE  ReadsInv /\ SealsInv
<1>1. world = [epoch |-> 0, types |-> Types, pointers |-> << >>] /\ strictly = {} /\ reported = {}
  BY DEF Init
<1>2. PICK w : w = world
  OBVIOUS
<1>3. w.epoch = 0 /\ w.types = Types /\ w.pointers = << >>
  BY <1>1, <1>2
<1>4. /\ w = [epoch |-> w.epoch, types |-> w.types, pointers |-> w.pointers]
      /\ w.pointers \in Seq(Range(w.pointers)) /\ DOMAIN w.pointers = {}
  BY <1>1, <1>2, <1>3
<1>5. WorldOK(w)
  BY <1>3, <1>4 DEF WorldOK
<1> QED
  BY <1>1, <1>2, <1>4, <1>5
     DEF ReadsInv, SealsInv, WorldInv, StrictRead, StrictUnsealed, ReadOrReported

LEMMA TransitionKeepsWorld ==
  ASSUME DeltasAssumption, NEW mode, NEW delta \in Deltas, Transition(mode, delta), WorldInv
  PROVE  /\ WorldInv' /\ Becomes(world, world', delta) /\ strictly \subseteq strictly'
         /\ strictly' \ strictly \subseteq DOMAIN world'.pointers \ DOMAIN world.pointers
<1>1. WorldOK(world') /\ Becomes(world, world', delta)
  BY AfterIsWorld DEF Transition, WorldInv
<1>2. /\ strictly \subseteq strictly'
      /\ strictly' \ strictly \subseteq DOMAIN world'.pointers \ DOMAIN world.pointers
  BY DEF Transition
<1>3. DOMAIN world.pointers \subseteq DOMAIN world'.pointers
  BY <1>1 DEF Becomes
<1> QED BY <1>1, <1>2, <1>3 DEF WorldInv

(* What the verifier was given, and what it answered.                      *)
LEMMA Asked ==
  ASSUME NEW mode, NEW delta, Transition(mode, delta)
  PROVE  \E verifier, result :
           /\ verifier = Verifier(mode) /\ verifier.mode = mode /\ verifier.rules = Rules
           /\ verifier.laws = Laws /\ verifier.tolerance = 0
           /\ result = Violations(verifier, world, world', delta)
           /\ Check(verifier, world, world', delta).accepted
           /\ reported \subseteq reported'
           /\ \A x \in result : Recorded(x.law, x) \in reported'
<1>1. PICK verifier : verifier = Verifier(mode)
  OBVIOUS
<1>2. PICK result : result = Violations(verifier, world, world', delta)
  OBVIOUS
<1>3. Check(verifier, world, world', delta).violations = result
  BY <1>2 DEF Check
<1>4. Check(verifier, world, world', delta).accepted
  BY <1>1 DEF Transition
<1>5. reported' = reported \cup {[law |-> x.law, from |-> x.from, to |-> x.to] : x \in result}
  BY <1>1, <1>3 DEF Transition
<1>6. verifier.mode = mode /\ verifier.rules = Rules /\ verifier.laws = Laws /\ verifier.tolerance = 0
  BY <1>1 DEF Verifier
<1> QED BY <1>1, <1>2, <1>4, <1>5, <1>6 DEF Recorded

LEMMA TransitionReads ==
  ASSUME DeltasAssumption, ReadRule \in Rules, NEW mode, NEW delta \in Deltas,
         Transition(mode, delta), WorldInv, StrictRead, ReadOrReported
  PROVE  StrictRead' /\ ReadOrReported'
<1>1. PICK w, v : w = world /\ v = world'
  OBVIOUS
<1>2. /\ WorldOK(w) /\ WorldOK(v) /\ Becomes(w, v, delta) /\ strictly \subseteq DOMAIN w.pointers
      /\ strictly' \ strictly \subseteq DOMAIN v.pointers \ DOMAIN w.pointers
  BY <1>1, TransitionKeepsWorld DEF WorldInv
<1>3. PICK verifier, result :
        /\ verifier.mode = mode /\ verifier.rules = Rules
        /\ result = Violations(verifier, w, v, delta)
        /\ Check(verifier, w, v, delta).accepted
        /\ reported \subseteq reported'
        /\ \A x \in result : Recorded(x.law, x) \in reported'
  BY <1>1, Asked
<1>4. ASSUME NEW i \in DOMAIN w.pointers, IsWrite(v, v.pointers[i])
      PROVE  /\ i \in strictly => HasRead(v, v.pointers[i])
             /\ \/ HasRead(v, v.pointers[i])
                \/ Recorded("no_write_without_read", v.pointers[i]) \in reported'
  <2>1. IsWrite(w, w.pointers[i])
    BY <1>2, <1>4, WritesPersist
  <2>2. HasRead(w, w.pointers[i]) => HasRead(v, v.pointers[i])
    BY <1>2, ReadsPersist
  <2>3. PICK p, q : p = w.pointers[i] /\ q = v.pointers[i]
    OBVIOUS
  <2>4. q.from = p.from /\ q.to = p.to
    BY <1>2, <2>3 DEF Becomes, Stays
  <2>5. Recorded("no_write_without_read", p) = Recorded("no_write_without_read", q)
    BY <2>4 DEF Recorded
  <2>6. i \in strictly => HasRead(w, p)
    BY <1>1, <2>1, <2>3 DEF StrictRead
  <2>7. HasRead(w, p) \/ Recorded("no_write_without_read", p) \in reported
    BY <1>1, <2>1, <2>3 DEF ReadOrReported
  <2> QED BY <1>3, <2>2, <2>3, <2>5, <2>6, <2>7
<1>5. ASSUME NEW i \in DOMAIN v.pointers \ DOMAIN w.pointers, IsWrite(v, v.pointers[i])
      PROVE  /\ i \in strictly' => HasRead(v, v.pointers[i])
             /\ \/ HasRead(v, v.pointers[i])
                \/ Recorded("no_write_without_read", v.pointers[i]) \in reported'
  <2>1. PICK q : q = v.pointers[i]
    OBVIOUS
  <2>2. PICK l \in Range(delta.links) : Linked(q, l, v.epoch)
    BY <1>2, <2>1 DEF Becomes
  <2>3. {q.from, q.to} \subseteq DOMAIN v.types
    BY <1>2, <2>1 DEF WorldOK, PointerOK
  <2>4. IsWrite(v, l) /\ {l.from, l.to} \subseteq DOMAIN v.types
    BY <1>5, <2>1, <2>2, <2>3 DEF IsWrite, Linked
  <2>5. delta.links \in Seq(Range(delta.links))
    BY DEF DeltasAssumption
  <2>6. l \in TriggerMatches(v, delta, AgentOnFile("modifies"))
    BY <2>4, <2>5, WriteTriggers
  <2>7. Violation("no_write_without_read", "error", l) \in result \/ HasActiveRead(w, l)
    BY <1>3, <2>6, ReadAnswered
  <2>8. HasActiveRead(w, l) => HasRead(v, q)
    BY <1>2, <2>2, NewRead
  <2>9. PICK x : x = Violation("no_write_without_read", "error", l)
    OBVIOUS
  <2>10. x.severity = "error" /\ x.law = "no_write_without_read" /\ x.from = l.from /\ x.to = l.to
    BY <2>9 DEF Violation
  <2>11. x \in result => Recorded("no_write_without_read", q) \in reported'
    <3>1. Recorded(x.law, x) = Recorded("no_write_without_read", q)
      BY <2>2, <2>10 DEF Recorded, Linked
    <3> QED BY <1>3, <3>1
  <2>12. i \in strictly' => mode = "strict"
    <3>1. i \notin strictly
      BY <1>2
    <3> QED BY <3>1 DEF Transition
  <2>13. mode = "strict" => x \notin result
    BY <1>3, <2>10, StrictAccepts
  <2> QED BY <2>1, <2>7, <2>8, <2>9, <2>11, <2>12, <2>13
<1>6. StrictRead'
  <2>1. ASSUME NEW i \in strictly', IsWrite(v, v.pointers[i])
        PROVE  HasRead(v, v.pointers[i])
    BY <1>2, <1>4, <1>5, <2>1
  <2> QED BY <1>1, <2>1 DEF StrictRead
<1>7. ReadOrReported'
  <2>1. ASSUME NEW i \in DOMAIN v.pointers, IsWrite(v, v.pointers[i])
        PROVE  \/ HasRead(v, v.pointers[i])
               \/ Recorded("no_write_without_read", v.pointers[i]) \in reported'
    BY <1>4, <1>5, <2>1
  <2> QED BY <1>1, <2>1 DEF ReadOrReported, Recorded
<1> QED BY <1>6, <1>7

LEMMA TransitionSeals ==
  ASSUME DeltasAssumption, SealRule \in Rules, NEW mode, NEW delta \in Deltas,
         Transition(mode, delta), WorldInv, StrictUnsealed
  PROVE  StrictUnsealed'
<1>1. PICK w, v : w = world /\ v = world'
  OBVIOUS
<1>2. /\ WorldOK(w) /\ WorldOK(v) /\ Becomes(w, v, delta) /\ strictly \subseteq DOMAIN w.pointers
      /\ strictly' \ strictly \subseteq DOMAIN v.pointers \ DOMAIN w.pointers
  BY <1>1, TransitionKeepsWorld DEF WorldInv
<1>3. PICK verifier, result :
        /\ verifier.mode = mode /\ verifier.rules = Rules
        /\ result = Violations(verifier, w, v, delta)
        /\ Check(verifier, w, v, delta).accepted
  BY <1>1, Asked
<1>4. ASSUME NEW i \in strictly, IsWrite(v, v.pointers[i])
      PROVE  ~IsSealed(v, v.pointers[i])
  <2>1. IsWrite(w, w.pointers[i])
    BY <1>2, <1>4, WritesPersist
  <2>2. ~IsSealed(w, w.pointers[i])
    BY <1>1, <2>1 DEF StrictUnsealed
  <2> QED BY <1>2, <2>2, SealsDoNotAppear
<1>5. ASSUME NEW i \in strictly' \ strictly, IsWrite(v, v.pointers[i])
      PROVE  ~IsSealed(v, v.pointers[i])
  <2>1. PICK q : q = v.pointers[i]
    OBVIOUS
  <2>2. PICK l \in Range(delta.links) : Linked(q, l, v.epoch)
    BY <1>2, <2>1 DEF Becomes
  <2>3. {q.from, q.to} \subseteq DOMAIN v.types
    BY <1>2, <2>1 DEF WorldOK, PointerOK
  <2>4. IsWrite(v, l) /\ {l.from, l.to} \subseteq DOMAIN v.types /\ v.types[q.to] = "File"
    BY <1>5, <2>1, <2>2, <2>3 DEF IsWrite, Linked
  <2>5. delta.links \in Seq(Range(delta.links))
    BY DEF DeltasAssumption
  <2>6. l \in TriggerMatches(v, delta, AgentOnFile("modifies"))
    BY <2>4, <2>5, WriteTriggers
  <2>7. \/ Violation("no_write_when_sealed", "error", l) \in result
        \/ ~HasActiveSeal(w, l) /\ ~HasActiveSeal(v, l)
    BY <1>3, <2>6, SealAnswered
  <2>8. mode = "strict"
    BY <1>5 DEF Transition
  <2>9. PICK x : x = Violation("no_write_when_sealed", "error", l)
    OBVIOUS
  <2>10. x.severity = "error"
    BY <2>9 DEF Violation
  <2>11. x \notin result
    BY <1>3, <2>8, <2>10, StrictAccepts
  <2> QED BY <1>2, <2>1, <2>2, <2>4, <2>7, <2>9, <2>11, NewSeal
<1> QED BY <1>1, <1>4, <1>5 DEF StrictUnsealed

-----------------------------------------------------------------------------
(* What the run checks, from the parts of the invariant.                   *)

LEMMA InRange ==
  ASSUME NEW s, NEW x
  PROVE  x \in Range(s) <=> \E i \in DOMAIN s : x = s[i]
BY DEF Range

LEMMA ReadsSay ==
  ASSUME ReadsInv
  PROVE  WritesFollowReads /\ ObservedIsRecorded
<1>1. PICK s : s = world.pointers
  OBVIOUS
<1>2. \A x : x \in Range(s) <=> \E i \in DOMAIN s : x = s[i]
  BY InRange
<1>3. \A p : IsLink(p, "Agent", "modifies", "File") <=> IsWrite(world, p)
  BY DEF IsLink, IsWrite
<1>4. \A p : HasRead(world, p) =>
        \E r \in Range(s) :
          r.relation = "reads" /\ r.from = p.from /\ r.to = p.to /\ StandingAt(r, p.born - 1)
  BY <1>1, <1>2 DEF HasRead, ReadOf
<1>5. WritesFollowReads
  BY <1>1, <1>3, <1>4 DEF WritesFollowReads, ReadsInv, StrictRead
<1>6. ObservedIsRecorded
  BY <1>1, <1>2, <1>3, <1>4 DEF ObservedIsRecorded, ReadsInv, ReadOrReported, Recorded
<1> QED BY <1>5, <1>6

LEMMA SealsSay ==
  ASSUME SealsInv
  PROVE  SealedFilesAreLeftAlone
<1>1. PICK s : s = world.pointers
  OBVIOUS
<1>2. \A x : x \in Range(s) <=> \E i \in DOMAIN s : x = s[i]
  BY InRange
<1>3. \A p : IsLink(p, "Agent", "modifies", "File") <=> IsWrite(world, p)
  BY DEF IsLink, IsWrite
<1>4. \A p : (\E x \in Range(s) : /\ x.relation = "seals" /\ x.to = p.to
                                  /\ StandingAt(x, p.born - 1) \/ StandingAt(x, p.born))
               => IsSealed(world, p)
  BY <1>1, <1>2 DEF IsSealed, SealOf
<1> QED BY <1>1, <1>3, <1>4 DEF SealedFilesAreLeftAlone, SealsInv, StrictUnsealed

LEMMA ReadsStep ==
  ASSUME DeltasAssumption, ReadRule \in Rules, ReadsInv, [Next]_vars
  PROVE  ReadsInv'
<1>1. CASE Next
  <2>1. PICK mode \in {"strict", "observe"}, delta \in Deltas : Transition(mode, delta)
    BY <1>1 DEF Next
  <2>2. WorldInv /\ StrictRead /\ ReadOrReported
    BY DEF ReadsInv
  <2>3. WorldInv'
    BY <2>1, <2>2, TransitionKeepsWorld
  <2>4. StrictRead' /\ ReadOrReported'
    BY <2>1, <2>2, TransitionReads
  <2> QED BY <2>3, <2>4 DEF ReadsInv
<1>2. CASE UNCHANGED vars
  BY <1>2 DEF vars, ReadsInv, WorldInv, StrictRead, ReadOrReported
<1> QED BY <1>1, <1>2

LEMMA SealsStep ==
  ASSUME DeltasAssumption, SealRule \in Rules, SealsInv, [Next]_vars
  PROVE  SealsInv'
<1>1. CASE Next
  <2>1. PICK mode \in {"strict", "observe"}, delta \in Deltas : Transition(mode, delta)
    BY <1>1 DEF Next
  <2>2. WorldInv /\ StrictUnsealed
    BY DEF SealsInv
  <2>3. WorldInv'
    BY <2>1, <2>2, TransitionKeepsWorld
  <2>4. StrictUnsealed'
    BY <2>1, <2>2, TransitionSeals
  <2> QED BY <2>3, <2>4 DEF SealsInv
<1>2. CASE UNCHANGED vars
  BY <1>2 DEF vars, SealsInv, WorldInv, StrictUnsealed
<1> QED BY <1>1, <1>2

LEMMA WorldStep ==
  ASSUME DeltasAssumption, WorldInv, [Next]_vars
  PROVE  WorldInv'
<1>1. CASE Next
  BY <1>1, TransitionKeepsWorld DEF Next
<1>2. CASE UNCHANGED vars
  BY <1>2 DEF vars, WorldInv
<1> QED BY <1>1, <1>2

(* Every pointer a bounded-weight law has seen, the expired ones too, is   *)
(* in bounds when a strict verifier accepts.                               *)
LEMMA BoundedStep ==
  ASSUME DeltasAssumption, "bounded_weight" \in Laws, WorldInv, [Next]_vars
  PROVE  StrictStepBounded
<1>1. CASE Next
  <2>1. PICK mode \in {"strict", "observe"}, delta \in Deltas : Transition(mode, delta)
    BY <1>1 DEF Next
  <2>2. PICK v : v = world'
    OBVIOUS
  <2>3. WorldOK(v)
    BY <2>1, <2>2, TransitionKeepsWorld DEF WorldInv
  <2>4. PICK verifier, result :
          /\ verifier.mode = mode /\ verifier.laws = Laws /\ verifier.tolerance = 0
          /\ result = Violations(verifier, world, v, delta)
          /\ Check(verifier, world, v, delta).accepted
    BY <2>1, <2>2, Asked
  <2>5. CASE mode = "strict"
    <3>1. BuiltinLaw("bounded_weight", world, v, verifier.tolerance) \subseteq result
      BY <2>4 DEF Violations
    <3>2. BoundedWeight(v, 0) \subseteq result
      BY <2>4, <3>1 DEF BuiltinLaw
    <3>3. ASSUME NEW p \in Range(v.pointers)
          PROVE  p.weight \in 0..100
      <4>1. PICK i \in DOMAIN v.pointers : p = v.pointers[i]
        BY InRange
      <4>2. p.weight \in Int
        BY <2>3, <4>1 DEF WorldOK, PointerOK
      <4>3. PICK x : x = Violation("bounded_weight", "error", p)
        OBVIOUS
      <4>4. x.severity = "error"
        BY <4>3 DEF Violation
      <4>5. x \notin result
        BY <2>4, <2>5, <4>4, StrictAccepts
      <4>6. x \notin BoundedWeight(v, 0)
        BY <3>2, <4>5
      <4>7. ~(p.weight < 0 \/ p.weight > 100 + 0)
        BY <3>3, <4>3, <4>6 DEF BoundedWeight
      <4> QED BY <4>2, <4>7
    <3> QED BY <2>2, <3>3 DEF StrictStepBounded
  <2>6. CASE mode # "strict"
    <3>1. strictly' = strictly
      BY <2>1, <2>6 DEF Transition
    <3> QED BY <3>1 DEF StrictStepBounded
  <2> QED BY <2>5, <2>6
<1>2. CASE UNCHANGED vars
  BY <1>2 DEF vars, StrictStepBounded
<1> QED BY <1>1, <1>2

(* With the rule that asks for a read, no agent modifies in strict mode a  *)
(* file it was not reading before the transition, and what observe mode    *)
(* let through is on record: whatever transitions are offered, with what   *)
(* other rules, and however many follow, those that unlink the read too.   *)
THEOREM StrictWritesWereReads ==
  ASSUME DeltasAssumption, ReadRule \in Rules
  PROVE  Spec => [](WritesFollowReads /\ ObservedIsRecorded)
<1>1. Init => ReadsInv
  BY LawfulInit
<1>2. ReadsInv /\ [Next]_vars => ReadsInv'
  BY ReadsStep
<1>3. ReadsInv => WritesFollowReads /\ ObservedIsRecorded
  BY ReadsSay
<1> QED BY <1>1, <1>2, <1>3, PTL DEF Spec

(* With the rule that forbids a seal, no agent modifies in strict mode a   *)
(* file that is sealed before the transition or by it.                     *)
THEOREM SealedFilesWereLeftAlone ==
  ASSUME DeltasAssumption, SealRule \in Rules
  PROVE  Spec => []SealedFilesAreLeftAlone
<1>1. Init => SealsInv
  BY LawfulInit
<1>2. SealsInv /\ [Next]_vars => SealsInv'
  BY SealsStep
<1>3. SealsInv => SealedFilesAreLeftAlone
  BY SealsSay
<1> QED BY <1>1, <1>2, <1>3, PTL DEF Spec

(* With the bounded-weight law, a strict transition that links something   *)
(* is accepted only into a world whose weights are all in bounds, those of *)
(* expired pointers included.                                              *)
THEOREM StrictStepsWereBounded ==
  ASSUME DeltasAssumption, "bounded_weight" \in Laws
  PROVE  Spec => [][StrictStepBounded]_vars
<1>1. Init => WorldInv
  BY LawfulInit DEF ReadsInv
<1>2. WorldInv /\ [Next]_vars => WorldInv'
  BY WorldStep
<1>3. WorldInv /\ [Next]_vars => StrictStepBounded
  BY BoundedStep
<1> QED BY <1>1, <1>2, <1>3, PTL DEF Spec

-----------------------------------------------------------------------------
LEMMA LeastNumber ==
  ASSUME NEW T, T \subseteq Nat, T # {}
  PROVE  \E x \in T : \A y \in T : x <= y
<1> DEFINE R == OpToRel(<, Nat)
<1>1. IsWellFoundedOn(R, Nat)
  BY NatLessThanWellFounded
<1>2. \A x, y \in Nat : y < x => <<y, x>> \in R
  BY DEF OpToRel
<1> HIDE DEF R
<1>3. PICK x \in T : \A y \in T : ~ (<<y, x>> \in R)
  BY <1>1, WFMin
<1> SUFFICES ASSUME NEW y \in T
             PROVE  x <= y
  BY <1>3
<1>4. ~(y < x)
  BY <1>2, <1>3
<1> QED BY <1>4

LEMMA ByInduction ==
  ASSUME NEW T, 0 \in T, \A n \in Nat : n \in T => n + 1 \in T
  PROVE  Nat \subseteq T
<1> SUFFICES ASSUME Nat \ T # {} PROVE FALSE
  OBVIOUS
<1>1. PICK x \in Nat \ T : \A y \in Nat \ T : x <= y
  <2>1. Nat \ T \subseteq Nat /\ Nat \ T # {}
    OBVIOUS
  <2> QED BY <2>1, LeastNumber
<1>2. x # 0 /\ x - 1 \in Nat /\ x - 1 \in T
  BY <1>1
<1> QED BY <1>1, <1>2

-----------------------------------------------------------------------------
(* One round.                                                              *)

LEMMA HeadsGrow ==
  ASSUME NEW facts, NEW more, facts \subseteq more, NEW d
  PROVE  Heads(d, facts) \subseteq Heads(d, more)
<1>1. Bindings(d, facts) \subseteq Bindings(d, more)
  BY DEF Bindings
<1> QED BY <1>1 DEF Heads

LEMMA DeriveGrows ==
  ASSUME NEW facts
  PROVE  facts \subseteq Derive(facts)
BY DEF Derive

LEMMA DeriveStays ==
  ASSUME NEW facts, NEW closed, facts \subseteq closed, Closed(closed)
  PROVE  Derive(facts) \subseteq closed
<1>1. \A d \in Range(Program) : Heads(d, facts) \subseteq closed
  BY HeadsGrow DEF Closed
<1> QED BY <1>1 DEF Derive

LEMMA FixedIsClosed ==
  ASSUME NEW facts, Derive(facts) = facts
  PROVE  Closed(facts)
BY DEF Closed, Derive

-----------------------------------------------------------------------------
(* The rounds of a step.                                                   *)

IsRounds(f, n, facts) == f = [i \in 0..n |-> IF i = 0 THEN facts ELSE Derive(f[i - 1])]

LEMMA RoundsExist ==
  ASSUME NEW facts, NEW n \in Nat
  PROVE  \E f : IsRounds(f, n, facts)
<1> DEFINE T == {m \in Nat : \E f : IsRounds(f, m, facts)}
<1>1. 0 \in T
  <2> DEFINE f == [i \in 0..0 |-> facts]
  <2>1. IsRounds(f, 0, facts)
    BY DEF IsRounds
  <2> QED BY <2>1
<1>2. ASSUME NEW m \in Nat, m \in T
      PROVE  m + 1 \in T
  <2>1. PICK f : IsRounds(f, m, facts)
    BY <1>2
  <2> DEFINE g == [i \in 0..(m + 1) |-> IF i = 0 THEN facts ELSE IF i <= m THEN f[i] ELSE Derive(f[m])]
  <2>2. \A i \in 0..m : g[i] = f[i]
    BY <2>1 DEF IsRounds
  <2>3. \A i \in 0..(m + 1) : i # 0 => i - 1 \in 0..m /\ g[i] = Derive(f[i - 1])
    <3> SUFFICES ASSUME NEW i \in 0..(m + 1), i # 0
                 PROVE  i - 1 \in 0..m /\ g[i] = Derive(f[i - 1])
      OBVIOUS
    <3>1. CASE i <= m
      BY <2>1, <3>1 DEF IsRounds
    <3>2. CASE i = m + 1
      BY <3>2
    <3> QED BY <3>1, <3>2
  <2>4. \A i \in 0..(m + 1) : g[i] = IF i = 0 THEN facts ELSE Derive(g[i - 1])
    BY <2>2, <2>3
  <2>5. g = [i \in 0..(m + 1) |-> g[i]]
    OBVIOUS
  <2> HIDE DEF g
  <2>6. IsRounds(g, m + 1, facts)
    BY <2>4, <2>5 DEF IsRounds
  <2> QED BY <2>6
<1>3. Nat \subseteq T
  <2> HIDE DEF T
  <2> QED BY <1>1, <1>2, ByInduction
<1> QED BY <1>3

LEMMA ClosureIsLastRound ==
  ASSUME IterationCap \in Nat, NEW facts
  PROVE  \E f : IsRounds(f, IterationCap, facts) /\ Closure(facts) = f[IterationCap]
<1> DEFINE rounds == CHOOSE f : f = [i \in 0..IterationCap |->
                                       IF i = 0 THEN facts ELSE Derive(f[i - 1])]
<1>1. rounds = [i \in 0..IterationCap |-> IF i = 0 THEN facts ELSE Derive(rounds[i - 1])]
  <2>1. \E f : f = [i \in 0..IterationCap |-> IF i = 0 THEN facts ELSE Derive(f[i - 1])]
    BY RoundsExist DEF IsRounds
  <2> QED BY <2>1
<1>2. Closure(facts) = rounds[IterationCap]
  BY DEF Closure
<1> QED BY <1>1, <1>2 DEF IsRounds

(* The first round is the facts, the next one derives from the one before. *)
LEMMA RoundsStep ==
  ASSUME NEW n \in Nat, NEW facts, NEW f, IsRounds(f, n, facts)
  PROVE  /\ f[0] = facts
         /\ \A i \in 0..(n - 1) : f[i + 1] = Derive(f[i])
<1>1. \A i \in 0..(n - 1) : i + 1 \in 0..n /\ i + 1 # 0 /\ (i + 1) - 1 = i
  OBVIOUS
<1> QED BY <1>1 DEF IsRounds

LEMMA RoundsHold ==
  ASSUME NEW n \in Nat, NEW facts, NEW f, IsRounds(f, n, facts)
  PROVE  facts \subseteq f[n]
<1> DEFINE T == {i \in Nat : i <= n => facts \subseteq f[i]}
<1>1. 0 \in T
  BY RoundsStep
<1>2. ASSUME NEW i \in Nat, i \in T
      PROVE  i + 1 \in T
  <2> SUFFICES ASSUME i + 1 <= n
               PROVE  facts \subseteq f[i + 1]
    OBVIOUS
  <2>1. facts \subseteq f[i]
    BY <1>2
  <2>2. f[i + 1] = Derive(f[i])
    <3>1. i \in 0..(n - 1)
      OBVIOUS
    <3> QED BY <3>1, RoundsStep
  <2> QED BY <2>1, <2>2, DeriveGrows
<1>3. Nat \subseteq T
  <2> HIDE DEF T
  <2> QED BY <1>1, <1>2, ByInduction
<1>4. n \in T
  BY <1>3
<1> QED BY <1>4

LEMMA RoundsStay ==
  ASSUME NEW n \in Nat, NEW facts, NEW f, IsRounds(f, n, facts),
         NEW closed, facts \subseteq closed, Closed(closed)
  PROVE  f[n] \subseteq closed
<1> DEFINE T == {i \in Nat : i <= n => f[i] \subseteq closed}
<1>1. 0 \in T
  BY RoundsStep
<1>2. ASSUME NEW i \in Nat, i \in T
      PROVE  i + 1 \in T
  <2> SUFFICES ASSUME i + 1 <= n
               PROVE  f[i + 1] \subseteq closed
    OBVIOUS
  <2>1. f[i] \subseteq closed
    BY <1>2
  <2>2. f[i + 1] = Derive(f[i])
    <3>1. i \in 0..(n - 1)
      OBVIOUS
    <3> QED BY <3>1, RoundsStep
  <2> QED BY <2>1, <2>2, DeriveStays
<1>3. Nat \subseteq T
  <2> HIDE DEF T
  <2> QED BY <1>1, <1>2, ByInduction
<1>4. n \in T
  BY <1>3
<1> QED BY <1>4

(* The closure holds the facts and nothing that a closed graph over them   *)
(* could do without, however few the rounds.                               *)
LEMMA ClosureIsFounded ==
  ASSUME IterationCap \in Nat, NEW facts
  PROVE  /\ facts \subseteq Closure(facts)
         /\ \A closed : facts \subseteq closed /\ Closed(closed) => Closure(facts) \subseteq closed
BY ClosureIsLastRound, RoundsHold, RoundsStay

-----------------------------------------------------------------------------
(* When the rounds are enough.                                             *)

LEMMA RoundsFixed ==
  ASSUME NEW n \in Nat, NEW facts, NEW f, IsRounds(f, n, facts),
         NEW i \in 0..n, Derive(f[i]) = f[i]
  PROVE  f[n] = f[i]
<1> DEFINE T == {j \in Nat : i + j <= n => f[i + j] = f[i]}
<1>1. 0 \in T
  OBVIOUS
<1>2. ASSUME NEW j \in Nat, j \in T
      PROVE  j + 1 \in T
  <2> SUFFICES ASSUME i + (j + 1) <= n
               PROVE  f[i + (j + 1)] = f[i]
    OBVIOUS
  <2>1. f[i + j] = f[i]
    BY <1>2
  <2>2. i + j \in 0..(n - 1) /\ i + (j + 1) = (i + j) + 1
    OBVIOUS
  <2>3. f[(i + j) + 1] = Derive(f[i + j])
    BY <2>2, RoundsStep
  <2> QED BY <2>1, <2>2, <2>3
<1>3. n - i \in T
  <2>1. Nat \subseteq T
    <3> HIDE DEF T
    <3> QED BY <1>1, <1>2, ByInduction
  <2> QED BY <2>1
<1> QED BY <1>3

(* A variable of a head stands in the body, as the parser requires.        *)
HeadsBound == \A d \in Range(Program) : {d.head.from, d.head.to} \subseteq Vars(d)

(* All that the heads of the program can say of the objects.               *)
Derivable ==
  {Edge(pair[1], d.head.relation, pair[2]) : pair \in Objects \X Objects, d \in Range(Program)}

LEMMA DeriveAdds ==
  ASSUME HeadsBound, NEW facts
  PROVE  Derive(facts) \subseteq facts \cup Derivable
<1> SUFFICES ASSUME NEW d \in Range(Program), NEW e \in Heads(d, facts)
             PROVE  e \in Derivable
  BY DEF Derive
<1>1. PICK b \in Bindings(d, facts) :
        e = Edge(b[d.head.from], d.head.relation, b[d.head.to])
  BY DEF Heads
<1>2. b[d.head.from] \in Objects /\ b[d.head.to] \in Objects
  BY DEF Bindings, HeadsBound
<1>3. PICK x \in Objects, y \in Objects : x = b[d.head.from] /\ y = b[d.head.to]
  BY <1>2
<1>4. PICK pair : pair = <<x, y>>
  OBVIOUS
<1>5. pair \in Objects \X Objects /\ pair[1] = x /\ pair[2] = y
  BY <1>4
<1> QED BY <1>1, <1>3, <1>5 DEF Derivable

(* A round that is not the last adds an edge.                              *)
LEMMA RoundsGain ==
  ASSUME HeadsBound, IsFiniteSet(Derivable),
         NEW n \in Nat, NEW facts, NEW f, IsRounds(f, n, facts), Derive(f[n]) # f[n]
  PROVE  /\ f[n] \subseteq facts \cup Derivable
         /\ Cardinality(f[n] \ facts) >= n
<1>1. ASSUME NEW i \in 0..n
      PROVE  Derive(f[i]) # f[i]
  BY <1>1, RoundsFixed
<1> DEFINE Gained(i) == f[i] \ facts
           T == {i \in Nat : i <= n => /\ f[i] \subseteq facts \cup Derivable
                                       /\ facts \subseteq f[i]
                                       /\ Cardinality(Gained(i)) >= i}
<1>2. 0 \in T
  <2>1. f[0] = facts /\ Gained(0) = {}
    BY RoundsStep
  <2>2. Cardinality(Gained(0)) = 0
    BY <2>1, FS_EmptySet
  <2> QED BY <2>1, <2>2
<1>3. ASSUME NEW i \in Nat, i \in T
      PROVE  i + 1 \in T
  <2> SUFFICES ASSUME i + 1 <= n
               PROVE  /\ f[i + 1] \subseteq facts \cup Derivable
                      /\ facts \subseteq f[i + 1]
                      /\ Cardinality(Gained(i + 1)) >= i + 1
    OBVIOUS
  <2>1. /\ f[i] \subseteq facts \cup Derivable
        /\ facts \subseteq f[i]
        /\ Cardinality(Gained(i)) >= i
    BY <1>3
  <2>2. f[i + 1] = Derive(f[i]) /\ Derive(f[i]) # f[i]
    <3>1. i \in 0..(n - 1) /\ i \in 0..n
      OBVIOUS
    <3> QED BY <1>1, <3>1, RoundsStep
  <2>3. /\ f[i] \subseteq f[i + 1]
        /\ f[i + 1] \subseteq facts \cup Derivable
        /\ facts \subseteq f[i + 1]
    BY <2>1, <2>2, DeriveGrows, DeriveAdds
  <2>4. PICK e \in f[i + 1] : e \notin f[i]
    BY <2>2, <2>3
  <2>5. /\ Gained(i) \cup {e} \subseteq Gained(i + 1)
        /\ e \notin Gained(i)
        /\ Gained(i + 1) \subseteq Derivable /\ Gained(i) \subseteq Derivable
    BY <2>1, <2>3, <2>4
  <2> HIDE DEF Gained
  <2>6. IsFiniteSet(Gained(i)) /\ IsFiniteSet(Gained(i + 1))
    BY <2>5, FS_Subset
  <2>7. Cardinality(Gained(i) \cup {e}) = Cardinality(Gained(i)) + 1
    BY <2>5, <2>6, FS_AddElement
  <2>8. Cardinality(Gained(i) \cup {e}) <= Cardinality(Gained(i + 1))
    BY <2>5, <2>6, FS_Subset
  <2>9. Cardinality(Gained(i)) \in Nat /\ Cardinality(Gained(i + 1)) \in Nat
    BY <2>6, FS_CardinalityType
  <2>10. Cardinality(Gained(i + 1)) >= i + 1
    BY <2>1, <2>7, <2>8, <2>9
  <2> QED BY <2>3, <2>10 DEF Gained
<1>4. n \in T
  <2>1. Nat \subseteq T
    <3> HIDE DEF T
    <3> QED BY <1>2, <1>3, ByInduction
  <2> QED BY <2>1
<1> QED BY <1>4

(* With a round for each edge the heads can name, the last one is closed.  *)
LEMMA RoundsClose ==
  ASSUME HeadsBound, IsFiniteSet(Derivable), IterationCap \in Nat,
         Cardinality(Derivable) <= IterationCap, NEW facts
  PROVE  Closed(Closure(facts))
<1>1. PICK f : IsRounds(f, IterationCap, facts) /\ Closure(facts) = f[IterationCap]
  BY ClosureIsLastRound
<1>2. PICK last, next : last = f[IterationCap] /\ next = Derive(last)
  OBVIOUS
<1> SUFFICES ASSUME next # last
             PROVE  FALSE
  BY <1>1, <1>2, FixedIsClosed
<1>3. last \subseteq facts \cup Derivable /\ Cardinality(last \ facts) >= IterationCap
  BY <1>1, <1>2, RoundsGain
<1>4. last \subseteq next /\ next \subseteq facts \cup Derivable
  BY <1>2, <1>3, DeriveGrows, DeriveAdds
<1>5. facts \subseteq last
  BY <1>1, <1>2, RoundsHold
<1>6. PICK e \in next : e \notin last
  BY <1>4
<1>7. PICK gained : gained = last \ facts
  OBVIOUS
<1>8. gained \cup {e} \subseteq Derivable /\ e \notin gained /\ gained \subseteq Derivable
  BY <1>3, <1>4, <1>5, <1>6, <1>7
<1>9. IsFiniteSet(gained) /\ Cardinality(gained \cup {e}) <= Cardinality(Derivable)
  BY <1>8, FS_Subset
<1>10. Cardinality(gained \cup {e}) = Cardinality(gained) + 1
  BY <1>8, <1>9, FS_AddElement
<1>11. Cardinality(gained) \in Nat /\ Cardinality(Derivable) \in Nat
  BY <1>9, FS_CardinalityType
<1> QED BY <1>3, <1>7, <1>9, <1>10, <1>11

-----------------------------------------------------------------------------
(* The machine.                                                            *)

(* The rounds of a step always end with nothing left to derive.            *)
RoundsSuffice == \A facts \in SUBSET Authored : Closed(Closure(facts))

Counts == authored = [e \in Authored |-> authored[e]]

(* Since a step nobody has linked or unlinked anything.                    *)
DerivedInv == Counts /\ (evolved => derived = Closure(Seed) \ Seed)

LEMMA DerivedInitial == DerivationInit => DerivedInv
BY DEF DerivationInit, DerivedInv, Counts

LEMMA DerivedStep == DerivedInv /\ [DerivationNext]_derivationVars => DerivedInv'
<1> SUFFICES ASSUME DerivedInv, [DerivationNext]_derivationVars
             PROVE  DerivedInv'
  OBVIOUS
<1>1. ASSUME NEW e \in Authored, Link(e) \/ Unlink(e)
      PROVE  DerivedInv'
  BY <1>1 DEF Link, Unlink, DerivedInv, Counts
<1>2. ASSUME NEW e \in derived, UnlinkDerived(e)
      PROVE  DerivedInv'
  BY <1>2 DEF UnlinkDerived, DerivedInv, Counts
<1>3. ASSUME Evolve
      PROVE  DerivedInv'
  <2>1. derived' = Closure(Seed) \ Seed /\ authored' = authored
    BY <1>3 DEF Evolve
  <2>2. Seed' = Seed
    BY <2>1 DEF Seed, AuthoredFacts
  <2>3. Closure(Seed)' = Closure(Seed)
    BY <2>2 DEF Closure, Derive, Heads, Bindings
  <2> QED BY <2>1, <2>2, <2>3 DEF DerivedInv, Counts
<1>4. ASSUME UNCHANGED derivationVars
      PROVE  DerivedInv'
  <2>1. authored' = authored /\ derived' = derived /\ evolved' = evolved
    BY <1>4 DEF derivationVars
  <2>2. Seed' = Seed
    BY <2>1 DEF Seed, AuthoredFacts
  <2>3. Closure(Seed)' = Closure(Seed)
    BY <2>2 DEF Closure, Derive, Heads, Bindings
  <2> QED BY <2>1, <2>2, <2>3 DEF DerivedInv, Counts
<1> QED BY <1>1, <1>2, <1>3, <1>4 DEF DerivationNext

(* DerivationEvolution::step: whatever was derived, linked and unlinked    *)
(* before, no smaller set of derived edges would close what is authored,   *)
(* even where the step gave up at its last round.                          *)
NothingUnfounded ==
  evolved => \A fewer \in (SUBSET derived) \ {derived} : ~Closed(AuthoredFacts \cup fewer)

LEMMA DerivedIsFounded ==
  ASSUME IterationCap \in Nat, DerivedInv
  PROVE  NothingUnfounded
<1> SUFFICES ASSUME evolved, NEW fewer, fewer \subseteq derived, fewer # derived,
                    Closed(AuthoredFacts \cup fewer)
             PROVE  FALSE
  BY DEF NothingUnfounded
<1>1. derived = Closure(AuthoredFacts) \ AuthoredFacts
  BY DEF DerivedInv, Seed
<1>2. Closure(AuthoredFacts) \subseteq AuthoredFacts \cup fewer
  BY ClosureIsFounded
<1> QED BY <1>1, <1>2

LEMMA DerivedIsLeast ==
  ASSUME IterationCap \in Nat, RoundsSuffice, DerivedInv
  PROVE  LeastClosure
<1> SUFFICES ASSUME evolved
             PROVE  Closed(AuthoredFacts \cup derived)
  BY DerivedIsFounded DEF LeastClosure, NothingUnfounded
<1>1. derived = Closure(AuthoredFacts) \ AuthoredFacts
  BY DEF DerivedInv, Seed
<1>2. AuthoredFacts \subseteq Authored
  BY DEF DerivedInv, Counts, AuthoredFacts
<1>3. AuthoredFacts \cup derived = Closure(AuthoredFacts)
  BY <1>1, ClosureIsFounded
<1> QED BY <1>2, <1>3 DEF RoundsSuffice

(* The derived edges are founded at any bound on the rounds.               *)
THEOREM NothingIsUnfounded ==
  ASSUME ObjectsAssumption
  PROVE  DerivationSpec => []NothingUnfounded
<1>1. IterationCap \in Nat
  BY DEF ObjectsAssumption
<1>2. DerivedInv => NothingUnfounded
  BY <1>1, DerivedIsFounded
<1> QED BY <1>2, DerivedInitial, DerivedStep, PTL DEF DerivationSpec

(* They are the least closure where the rounds suffice.                    *)
THEOREM DerivationIsLeast ==
  ASSUME ObjectsAssumption, RoundsSuffice
  PROVE  DerivationSpec => []LeastClosure
<1>1. IterationCap \in Nat
  BY DEF ObjectsAssumption
<1>2. DerivedInv => LeastClosure
  BY <1>1, DerivedIsLeast
<1> QED BY <1>2, DerivedInitial, DerivedStep, PTL DEF DerivationSpec

(* What the heads can name is counted by objects and relations.            *)
HeadRelations == {d.head.relation : d \in Range(Program)}

LEMMA DerivableCount ==
  ASSUME IsFiniteSet(Objects), IsFiniteSet(HeadRelations)
  PROVE  /\ IsFiniteSet(Derivable)
         /\ Cardinality(Derivable)
              <= (Cardinality(Objects) * Cardinality(Objects)) * Cardinality(HeadRelations)
<1> DEFINE pairs == Objects \X Objects
           said == pairs \X HeadRelations
           f == [x \in said |-> Edge(x[1][1], x[2], x[1][2])]
<1>1. IsFiniteSet(pairs) /\ Cardinality(pairs) = Cardinality(Objects) * Cardinality(Objects)
  BY FS_Product
<1> HIDE DEF pairs
<1>2. IsFiniteSet(said) /\ Cardinality(said) = Cardinality(pairs) * Cardinality(HeadRelations)
  BY <1>1, FS_Product
<1>3. ASSUME NEW x \in said
      PROVE  f[x] \in Derivable
  <2>1. PICK pair \in pairs, relation \in HeadRelations : x = <<pair, relation>>
    OBVIOUS
  <2>2. PICK d \in Range(Program) : relation = d.head.relation
    BY DEF HeadRelations
  <2>3. f[x] = Edge(pair[1], relation, pair[2])
    BY <2>1
  <2> QED BY <2>2, <2>3 DEF Derivable, pairs
<1>4. ASSUME NEW e \in Derivable
      PROVE  \E x \in said : f[x] = e
  <2>1. PICK pair \in pairs, d \in Range(Program) : e = Edge(pair[1], d.head.relation, pair[2])
    BY DEF Derivable, pairs
  <2>2. PICK relation : relation = d.head.relation
    OBVIOUS
  <2>3. PICK x : x = <<pair, relation>>
    OBVIOUS
  <2>4. x \in said /\ x[1] = pair /\ x[2] = relation
    BY <2>2, <2>3 DEF HeadRelations
  <2>5. f[x] = e
    BY <2>1, <2>2, <2>4
  <2> QED BY <2>4, <2>5
<1>5. f \in Surjection(said, Derivable)
  <2>1. f \in [said -> Derivable]
    BY <1>3
  <2> HIDE DEF f, said
  <2> QED BY <1>4, <2>1 DEF Surjection
<1> HIDE DEF f, said
<1>6. IsFiniteSet(Derivable) /\ Cardinality(Derivable) <= Cardinality(said)
  BY <1>2, <1>5, FS_Surjection
<1> QED BY <1>1, <1>2, <1>6

(* They suffice when there is one for each edge a head could name.         *)
THEOREM OneRoundAnEdge ==
  ASSUME ObjectsAssumption, HeadsBound, IsFiniteSet(Objects), IsFiniteSet(HeadRelations),
         (Cardinality(Objects) * Cardinality(Objects)) * Cardinality(HeadRelations) <= IterationCap
  PROVE  RoundsSuffice
<1>1. IsFiniteSet(Derivable) /\ Cardinality(Derivable) \in Nat
  BY DerivableCount, FS_CardinalityType
<1>2. Cardinality(Objects) \in Nat /\ Cardinality(HeadRelations) \in Nat
  BY FS_CardinalityType
<1>3. Cardinality(Objects) * Cardinality(Objects) \in Nat
  BY <1>2
<1>4. (Cardinality(Objects) * Cardinality(Objects)) * Cardinality(HeadRelations) \in Nat
  BY <1>2, <1>3
<1>5. IterationCap \in Nat
  BY DEF ObjectsAssumption
<1>6. Cardinality(Derivable) <= IterationCap
  BY <1>1, <1>4, <1>5, DerivableCount
<1> QED BY <1>1, <1>5, <1>6, RoundsClose DEF RoundsSuffice
=============================================================================

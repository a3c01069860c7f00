----------------------------- MODULE LawChecks -----------------------------
(***************************************************************************)
(* What the verifier says of a transition: the builtin laws, the pattern   *)
(* rules and the two verification modes.                                   *)
(*                                                                         *)
(* A world is its epoch, the type of each object, and its pointers, the    *)
(* expired ones too: [from, to, relation, weight, born, expires], expires  *)
(* being 0 for a pointer that has none.  Weights are hundredths.           *)
(*                                                                         *)
(* A delta is what the laws read of one: the objects it creates and the    *)
(* types it gives them, the pointers it links and the ones it unlinks.     *)
(***************************************************************************)
EXTENDS Naturals, Integers, Sequences, FiniteSets, Functions, TLC

ActiveAt(p, epoch) == p.born <= epoch /\ (p.expires = 0 \/ epoch < p.expires)

Active(world) ==
  {world.pointers[i] : i \in {j \in DOMAIN world.pointers : ActiveAt(world.pointers[j], world.epoch)}}

(* What the first says, and the second where the first says nothing.       *)
Over(first, second) ==
  [x \in DOMAIN first \cup DOMAIN second |-> IF x \in DOMAIN first THEN first[x] ELSE second[x]]

(* SnapshotOverlay::apply, as far as the laws look at its result.          *)
After(world, delta) ==
  LET epoch == world.epoch + 1
      kept(i) == IF i \in delta.unlinks THEN [world.pointers[i] EXCEPT !.expires = epoch]
                                        ELSE world.pointers[i]
      born(l) == [from |-> l.from, to |-> l.to, relation |-> l.relation,
                  weight |-> l.weight, born |-> epoch, expires |-> 0]
  IN  [epoch    |-> epoch,
       types    |-> Over(delta.types, world.types),
       pointers |-> [i \in DOMAIN world.pointers |-> kept(i)]
                      \o [i \in DOMAIN delta.links |-> born(delta.links[i])]]

-----------------------------------------------------------------------------
(* Patterns.                                                               *)

WildcardOrEqual(pattern, value) == pattern \in {"", "*"} \/ pattern = value

MatchesRelationPattern(world, pattern, link) ==
  /\ {link.from, link.to} \subseteq DOMAIN world.types
  /\ WildcardOrEqual(pattern.from_type, world.types[link.from])
  /\ WildcardOrEqual(pattern.to_type, world.types[link.to])
  /\ WildcardOrEqual(pattern.relation, link.relation)

TriggerMatches(after, delta, trigger) ==
  {l \in IF delta.links # << >> THEN Range(delta.links) ELSE Active(after) :
     MatchesRelationPattern(after, trigger, l)}

EndpointAllowed(binding, candidate, trigger) ==
  CASE binding = "any"  -> TRUE
    [] binding = "from" -> candidate = trigger.from
    [] binding = "to"   -> candidate = trigger.to

RelationExists(world, trigger, requirement) ==
  \E p \in Active(world) :
    /\ EndpointAllowed(requirement.from_binding, p.from, trigger)
    /\ EndpointAllowed(requirement.to_binding, p.to, trigger)
    /\ MatchesRelationPattern(world, requirement.pattern, p)

(* Mutant: the world the step leads to answers for the one before it.      *)
RequirementExistsLate(before, after, trigger, requirement) ==
  RelationExists(after, trigger, requirement)

RequirementExists(before, after, trigger, requirement) ==
  \/ /\ requirement.search \in {"before", "exists"}
     /\ RelationExists(before, trigger, requirement)
  \/ /\ requirement.search \in {"after", "exists"}
     /\ RelationExists(after, trigger, requirement)

-----------------------------------------------------------------------------
(* Laws: a law answers with a set of violations.                           *)

Violation(law, severity, p) == [law |-> law, severity |-> severity, from |-> p.from, to |-> p.to]

(* A trigger is satisfied when every requirement holds, the forbidden ones *)
(* by their absence; a rule without requirements is violated by its        *)
(* trigger alone.                                                          *)
PatternLaw(rule, before, after, delta) ==
  LET met(match) == \A requirement \in Range(rule.requirements) :
        requirement.forbidden # RequirementExists(before, after, match, requirement)
  IN  {Violation(rule.name, rule.severity, match) :
         match \in {m \in TriggerMatches(after, delta, rule.trigger) :
                      rule.requirements = << >> \/ ~met(m)}}

(* Mutant: only the pointers that are still active are weighed.            *)
BoundedWeightActive(after, tolerance) ==
  {Violation("bounded_weight", "error", p) :
     p \in {q \in Active(after) : q.weight < 0 \/ q.weight > 100 + tolerance}}

(* Every pointer of the snapshot is weighed, the expired ones too.         *)
BoundedWeight(after, tolerance) ==
  {Violation("bounded_weight", "error", p) :
     p \in {q \in Range(after.pointers) : q.weight < 0 \/ q.weight > 100 + tolerance}}

RejectDanglingPointer(after) ==
  {Violation("reject_dangling_pointer", "error", p) :
     p \in {q \in Range(after.pointers) : ~({q.from, q.to} \subseteq DOMAIN after.types)}}

NoInvalidEpochReference(after) ==
  {Violation("no_invalid_epoch_reference", "error", p) :
     p \in {q \in Range(after.pointers) :
              q.born > after.epoch \/ (q.expires # 0 /\ q.expires < q.born)}}

PreserveExistingIdentity(before, after) ==
  {Violation("preserve_existing_identity", "fatal", [from |-> o, to |-> o]) :
     o \in DOMAIN before.types \ DOMAIN after.types}

BuiltinLaw(name, before, after, tolerance) ==
  CASE name = "bounded_weight"             -> BoundedWeight(after, tolerance)
    [] name = "reject_dangling_pointer"    -> RejectDanglingPointer(after)
    [] name = "no_invalid_epoch_reference" -> NoInvalidEpochReference(after)
    [] name = "preserve_existing_identity" -> PreserveExistingIdentity(before, after)

(* RuleEngine::add: a rule replaces the rule of its name.                  *)
AddRule(rules, rule) == {r \in rules : r.name # rule.name} \cup {rule}

-----------------------------------------------------------------------------
(* The verifier: builtin laws by name and rules, in a mode.                *)

RejectsTransition(severity) == severity \in {"error", "fatal"}

Violations(verifier, before, after, delta) ==
  UNION ({PatternLaw(rule, before, after, delta) : rule \in verifier.rules}
         \cup {BuiltinLaw(name, before, after, verifier.tolerance) : name \in verifier.laws})

Check(verifier, before, after, delta) ==
  LET violations == Violations(verifier, before, after, delta)
  IN  [violations |-> violations,
       accepted   |-> \/ verifier.mode = "observe"
                      \/ \A v \in violations : ~RejectsTransition(v.severity)]
=============================================================================

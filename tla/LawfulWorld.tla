---------------------------- MODULE LawfulWorld ----------------------------
(***************************************************************************)
(* One world and the transitions offered to it, each under a verifier in   *)
(* strict or in observe mode: what the laws keep true of a history, and    *)
(* what they do not.                                                       *)
(***************************************************************************)
EXTENDS LawChecks

CONSTANTS
  Deltas,     \* the transitions clients offer
  Rules,      \* the rules added to the engine
  Laws,       \* the builtin laws the verifier holds
  Types,      \* the type of each object the world starts with
  MaxEpoch    \* bound on the transitions accepted

DeltasAssumption ==
  \A delta \in Deltas :
    /\ delta.links \in Seq(Range(delta.links))
    /\ \A l \in Range(delta.links) : l.weight \in Int

VARIABLES
  world,      \* the world
  strictly,   \* the pointers linked by a transition accepted in strict mode
  reported    \* the violations recorded by accepted transitions

vars == <<world, strictly, reported>>

Verifier(mode) == [mode |-> mode, rules |-> Rules, laws |-> Laws, tolerance |-> 0]

Init ==
  /\ world = [epoch |-> 0, types |-> Types, pointers |-> << >>]
  /\ strictly = {}
  /\ reported = {}

(* The overlay refuses a delta that links an object the world does not     *)
(* have or creates one it has.                                             *)
Applies(delta) ==
  /\ DOMAIN delta.types \cap DOMAIN world.types = {}
  /\ \A l \in Range(delta.links) :
       {l.from, l.to} \subseteq DOMAIN Over(delta.types, world.types)

(* The overlay would take more: a script, an evolution and a derivation    *)
(* look for active pointers to unlink.                                     *)
Offered(delta) ==
  \A i \in delta.unlinks :
    i \in DOMAIN world.pointers /\ ActiveAt(world.pointers[i], world.epoch)

(* prepare_transaction checks the laws against the predicted world, and    *)
(* commit_prepared applies the delta only when they accept it.             *)
Transition(mode, delta) ==
  LET after  == After(world, delta)
      result == Check(Verifier(mode), world, after, delta)
  IN  /\ world.epoch < MaxEpoch
      /\ Offered(delta) /\ Applies(delta)
      /\ result.accepted
      /\ world' = after
      /\ strictly' = IF mode = "strict"
                       THEN strictly \cup (DOMAIN after.pointers \ DOMAIN world.pointers)
                       ELSE strictly
      /\ reported' = reported \cup {[law |-> v.law, from |-> v.from, to |-> v.to] :
                                      v \in result.violations}

Next == \E mode \in {"strict", "observe"}, delta \in Deltas : Transition(mode, delta)

Spec == Init /\ [][Next]_vars

-----------------------------------------------------------------------------
IsLink(p, fromType, relation, toType) ==
  /\ p.relation = relation
  /\ world.types[p.from] = fromType /\ world.types[p.to] = toType

StandingAt(p, epoch) == p.born <= epoch /\ (p.expires = 0 \/ p.expires > epoch)

(* A file an agent modified in strict mode was being read by that agent    *)
(* before the transition that modified it: a read linked in the same       *)
(* transition, unlinked earlier, or of another file does not count.        *)
WritesFollowReads ==
  \A i \in strictly : LET w == world.pointers[i] IN
    IsLink(w, "Agent", "modifies", "File") =>
      \E r \in Range(world.pointers) :
        /\ r.relation = "reads" /\ r.from = w.from /\ r.to = w.to
        /\ StandingAt(r, w.born - 1)

(* No agent modified in strict mode a file that somebody, whoever it was,  *)
(* had sealed when it did, or sealed in the same transition.               *)
SealedFilesAreLeftAlone ==
  \A i \in strictly : LET w == world.pointers[i] IN
    IsLink(w, "Agent", "modifies", "File") =>
      ~ \E s \in Range(world.pointers) :
          /\ s.relation = "seals" /\ s.to = w.to
          /\ StandingAt(s, w.born - 1) \/ StandingAt(s, w.born)

(* What observe mode let through is on record: a file modified without     *)
(* being read first has its violation among those reported.                *)
ObservedIsRecorded ==
  \A w \in Range(world.pointers) :
    IsLink(w, "Agent", "modifies", "File") =>
      \/ \E r \in Range(world.pointers) :
           r.relation = "reads" /\ r.from = w.from /\ r.to = w.to /\ StandingAt(r, w.born - 1)
      \/ [law |-> "no_write_without_read", from |-> w.from, to |-> w.to] \in reported

(* A world that only ever took weights in bounds has nothing out of        *)
(* bounds, and a strict transition is never accepted while it has: not     *)
(* even for a pointer that was unlinked since.                             *)
StrictStepBounded ==
  \A i \in strictly' \ strictly : \A p \in Range(world'.pointers) : p.weight \in 0..100
=============================================================================

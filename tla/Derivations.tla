---------------------------- MODULE Derivations ----------------------------
(***************************************************************************)
(* Evolving a world with derivations: one step expires the edges that the  *)
(* last one derived and links the closure of the authored graph again.     *)
(*                                                                         *)
(* The state is the active pointers: what was authored, as a bag since a   *)
(* relation may be linked twice, and what was derived.                     *)
(***************************************************************************)
EXTENDS Naturals, Sequences, FiniteSets, Functions

CONSTANTS
  Objects,      \* the objects of the world
  Authored,     \* the edges clients may link, [from, relation, to]
  Start,        \* the edges linked before the first step looked at
  Program,      \* the derivations declared, in order
  MaxCopies,    \* bound on the copies of one authored edge
  IterationCap  \* rounds of one step: 64 and one for each object

ObjectsAssumption == IterationCap \in Nat \ {0} /\ Objects # {}

VARIABLES
  authored,     \* how often each edge is linked by clients
  derived,      \* the active edges of the law domain "derivation"
  evolved       \* TRUE when nothing was authored since the last step

derivationVars == <<authored, derived, evolved>>

Edge(from, relation, to) == [from |-> from, relation |-> relation, to |-> to]
Vars(derivation) ==
  UNION {{atom.from, atom.to} : atom \in Range(derivation.body)}

(* The bindings of a derivation's variables under which every atom of its  *)
(* body is a fact: the join evaluate_body computes atom by atom.           *)
Bindings(derivation, facts) ==
  {b \in [Vars(derivation) -> Objects] :
     \A atom \in Range(derivation.body) : Edge(b[atom.from], atom.relation, b[atom.to]) \in facts}

Heads(derivation, facts) ==
  {Edge(b[derivation.head.from], derivation.head.relation, b[derivation.head.to]) :
     b \in Bindings(derivation, facts)}

(* One round: every derivation over the facts of the round before.         *)
Derive(facts) == facts \cup UNION {Heads(d, facts) : d \in Range(Program)}

(* Mutant: each derivation is run once.                                    *)
ClosureOneRound(facts) == Derive(facts)

(* Rounds until nothing is new, or the cap.                                *)
Closure(facts) ==
  LET rounds[i \in 0..IterationCap] == IF i = 0 THEN facts ELSE Derive(rounds[i - 1])
  IN  rounds[IterationCap]

AuthoredFacts == {e \in DOMAIN authored : authored[e] > 0}

(* The fact index is seeded from the authored edges alone.                 *)
Seed == AuthoredFacts

DerivationInit ==
  /\ authored = [e \in Authored |-> IF e \in Start THEN 1 ELSE 0]
  /\ derived = {}
  /\ evolved = FALSE

Link(e) ==
  /\ authored[e] < MaxCopies
  /\ authored' = [authored EXCEPT ![e] = @ + 1]
  /\ evolved' = FALSE
  /\ UNCHANGED derived

Unlink(e) ==
  /\ authored[e] > 0
  /\ authored' = [authored EXCEPT ![e] = @ - 1]
  /\ evolved' = FALSE
  /\ UNCHANGED derived

(* A client may also unlink a derived edge: the next step links it again.  *)
UnlinkDerived(e) ==
  /\ e \in derived
  /\ derived' = derived \ {e}
  /\ evolved' = FALSE
  /\ UNCHANGED authored

(* Every derived edge is expired, and those of the closure that are not    *)
(* authored are linked.                                                    *)
Evolve ==
  /\ derived' = Closure(Seed) \ Seed
  /\ evolved' = TRUE
  /\ UNCHANGED authored

DerivationNext ==
  \/ \E e \in Authored : Link(e) \/ Unlink(e)
  \/ \E e \in derived : UnlinkDerived(e)
  \/ Evolve

DerivationSpec == DerivationInit /\ [][DerivationNext]_derivationVars

-----------------------------------------------------------------------------
Closed(facts) == \A d \in Range(Program) : Heads(d, facts) \subseteq facts

(* After a step the derived edges are the least set that closes what was   *)
(* authored: nothing is missing, and nothing stands only on edges that     *)
(* were derived from each other, or from edges unlinked since.             *)
LeastClosure ==
  evolved =>
    /\ Closed(AuthoredFacts \cup derived)
    /\ \A fewer \in (SUBSET derived) \ {derived} : ~Closed(AuthoredFacts \cup fewer)

=============================================================================

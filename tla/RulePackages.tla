---------------------------- MODULE RulePackages ---------------------------
(***************************************************************************)
(* Reading a domain package line by line: the builders of rules and of     *)
(* derivations, which take turns on the same text, and the engine that     *)
(* takes the rules.                                                        *)
(*                                                                         *)
(* A line is a record [kind, arg]; comments and blank lines are stripped   *)
(* before a line is looked at.  The arg of a line that does not parse is   *)
(* Malformed, whatever its kind.                                           *)
(***************************************************************************)
EXTENDS LawChecks, SequencesExt

CONSTANTS
  Lines,        \* the lines a text is made of
  MaxLines,     \* bound on the lines of a text
  Malformed     \* the argument of a line that does not parse

VARIABLE text   \* the lines of the package so far

Kinds == {"domain", "type", "rule", "when", "require", "deny", "derive", "from", "make"}
LinesAssumption == \A line \in Lines : line.kind \in Kinds

-----------------------------------------------------------------------------
(* The rule builder: nothing drafted, or a draft with at most one trigger. *)

Idle == << >>
Draft(name) == <<[name |-> name, trigger |-> << >>, requirements |-> << >>]>>

NoDraft == [draft |-> Idle, done |-> << >>, thrown |-> FALSE]
Throw(b) == [b EXCEPT !.thrown = TRUE]

(* Mutant: a rule line that follows a complete rule keeps its trigger.     *)
RuleLineSticky(b, line) ==
  IF b.draft # Idle /\ b.draft[1].trigger # << >>
    THEN [b EXCEPT !.draft = <<[b.draft[1] EXCEPT !.name = line.arg, !.requirements = << >>]>>,
                   !.done = Append(b.done, b.draft[1])]
    ELSE [b EXCEPT !.draft = Draft(line.arg)]

(* A rule line ends the draft before it, which is kept when it has a       *)
(* trigger, and forgotten when it has none.                                *)
RuleLine(b, line) ==
  IF b.draft # Idle /\ b.draft[1].trigger # << >>
    THEN [b EXCEPT !.draft = Draft(line.arg), !.done = Append(b.done, b.draft[1])]
    ELSE [b EXCEPT !.draft = Draft(line.arg)]

DenyLine(b) ==
  IF b.draft[1].trigger = << >> THEN Throw(b)
  ELSE [b EXCEPT !.draft = Idle, !.done = Append(b.done, b.draft[1])]

RuleClause(b, line) ==
  IF line.arg = Malformed THEN Throw(b)
  ELSE IF line.kind = "rule" THEN RuleLine(b, line)
  ELSE IF b.draft = Idle THEN Throw(b)
  ELSE CASE line.kind = "when"    -> [b EXCEPT !.draft = <<[b.draft[1] EXCEPT !.trigger = <<line.arg>>]>>]
         [] line.kind = "require" -> [b EXCEPT !.draft = <<[b.draft[1] EXCEPT !.requirements = Append(@, line.arg)]>>]
         [] line.kind = "deny"    -> DenyLine(b)
         [] OTHER                 -> Throw(b)

-----------------------------------------------------------------------------
(* The derivation builder: a draft is its name and the atoms of its body.  *)

NoDerive == [draft |-> Idle, done |-> << >>, thrown |-> FALSE]
Binds(body, var) == \E i \in DOMAIN body : var \in {body[i].from, body[i].to}

DeriveLine(d, name) ==
  IF d.draft # Idle THEN Throw(d)
  ELSE [d EXCEPT !.draft = <<[name |-> name, body |-> << >>]>>]

MakeLine(d, head) ==
  LET body == d.draft[1].body
  IN  IF body = << >> \/ ~Binds(body, head.from) \/ ~Binds(body, head.to) THEN Throw(d)
      ELSE [d EXCEPT !.draft = Idle,
                     !.done = Append(d.done, [name |-> d.draft[1].name, body |-> body, head |-> head])]

DeriveClause(d, line) ==
  IF line.arg = Malformed THEN Throw(d)
  ELSE IF line.kind = "derive" THEN DeriveLine(d, line.arg)
  ELSE IF d.draft = Idle THEN Throw(d)
  ELSE IF line.kind = "from" THEN [d EXCEPT !.draft = <<[d.draft[1] EXCEPT !.body = Append(@, line.arg)]>>]
  ELSE MakeLine(d, line.arg)

-----------------------------------------------------------------------------
(* The package: a line goes to the header only while no block is open, to  *)
(* the derivation builder when it is one of its clauses, and to the rule   *)
(* builder otherwise; the first error ends the reading.                    *)

Empty == [types |-> << >>, rules |-> NoDraft, derivations |-> NoDerive]
Failed(p) == p.rules.thrown \/ p.derivations.thrown

ReadLine(p, line) ==
  IF Failed(p) THEN p
  ELSE IF line.kind \in {"domain", "type"} /\ p.rules.draft = Idle /\ p.derivations.draft = Idle
    THEN [p EXCEPT !.types = IF line.kind = "type" THEN Append(@, line.arg) ELSE @]
  ELSE IF line.kind \in {"derive", "from", "make"}
    THEN [p EXCEPT !.derivations = DeriveClause(@, line)]
  ELSE [p EXCEPT !.rules = RuleClause(@, line)]

Read(lines) == FoldLeft(ReadLine, Empty, lines)

(* A block that is still open at the end of the text is an error.          *)
Parses(lines) ==
  LET p == Read(lines)
  IN  ~Failed(p) /\ p.rules.draft = Idle /\ p.derivations.draft = Idle

Rules(lines)       == Read(lines).rules.done
Derived(lines)     == Read(lines).derivations.done

(* RuleEngine::add_all over the rules of a package.                        *)
Engine(rules) == FoldLeft(AddRule, {}, rules)

-----------------------------------------------------------------------------
Init == text = << >>
(* Texts grow until the reading has failed.                                *)
Next ==
  /\ Len(text) < MaxLines /\ ~Failed(Read(text))
  /\ \E line \in Lines : text' = Append(text, line)
Spec == Init /\ [][Next]_text

-----------------------------------------------------------------------------
(* The block of the rule line at i: the lines of rules up to its deny, or  *)
(* up to the next rule line.                                               *)
RuleLines == SelectSeq(text, LAMBDA l : l.kind \in {"rule", "when", "require", "deny"})
Starts == {i \in DOMAIN RuleLines : RuleLines[i].kind = "rule"}
BlockOf(i) ==
  LET stops == {j \in DOMAIN RuleLines : j > i /\ RuleLines[j].kind \in {"rule", "deny"}}
      end   == IF stops = {} THEN Len(RuleLines) ELSE Min(stops) - 1
  IN  SubSeq(RuleLines, i + 1, end)
Whens(block)    == SelectSeq(block, LAMBDA l : l.kind = "when")
Requires(block) == SelectSeq(block, LAMBDA l : l.kind = "require")
Args(lines)     == [i \in DOMAIN lines |-> lines[i].arg]

(* A package that parses holds exactly the rules its text spells, in its   *)
(* order: each with its own trigger, the last one given, and exactly the   *)
(* requirements of its block, wherever derivation lines stand in between.  *)
RulesAreTheBlocks ==
  Parses(text) =>
    LET kept == SelectSeq(SetToSortSeq(Starts, <), LAMBDA i : Whens(BlockOf(i)) # << >>)
    IN  Rules(text) =
          [k \in DOMAIN kept |->
             [name         |-> RuleLines[kept[k]].arg,
              trigger      |-> <<Last(Args(Whens(BlockOf(kept[k]))))>>,
              requirements |-> Args(Requires(BlockOf(kept[k])))]]

(* Every derivation of a package has a body of its own that binds its      *)
(* head, so that the join never meets a head without a value.              *)
AtomsBetween(k) ==
  LET lines  == SelectSeq(text, LAMBDA l : l.kind \in {"derive", "from"})
      starts == SetToSortSeq({i \in DOMAIN lines : lines[i].kind = "derive"}, <)
      end    == IF k = Len(starts) THEN Len(lines) ELSE starts[k + 1] - 1
  IN  Args(SubSeq(lines, starts[k] + 1, end))
DerivationsBindTheirHeads ==
  Parses(text) =>
    \A k \in DOMAIN Derived(text) : LET d == Derived(text)[k] IN
      /\ d.body = AtomsBetween(k)
      /\ Binds(d.body, d.head.from) /\ Binds(d.body, d.head.to)

(* Nothing of a block leaks into the header: a type line inside of an open *)
(* rule or derivation is an error, never a type of the schema.             *)
HeaderStaysOutside ==
  Parses(text) =>
    \A i \in DOMAIN text : text[i].kind \in {"domain", "type"} =>
      Parses(SubSeq(text, 1, i - 1))

(* The engine holds one rule of each name, the last one the package gives. *)
LastRuleWins ==
  \A rule \in Engine(Rules(text)) :
    rule = Last(SelectSeq(Rules(text), LAMBDA r : r.name = rule.name))
=============================================================================

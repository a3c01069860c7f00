------------------------------ MODULE MCGuard ------------------------------
(* What judges a repository from outside in one run: the reading of a diff *)
(* by the guard of pull requests, the sentinel, and the codec, which       *)
(* refuses damage.                                                         *)
EXTENDS Machines, Integers, Sequences, TLC

VARIABLES
  diff,                                            \* GuardDiff
  stored, disk, ref, index, mirror, manifest,
  lastBoot, faults, check,                         \* SentinelChecks
  type, shape, value, stream, result, phase        \* CanonicalCodec

bootVars == <<stored, disk, ref, index, mirror, manifest, lastBoot, faults, check>>
codecVars == <<type, shape, value, stream, result, phase>>
vars == <<machine, diff, bootVars, codecVars>>

-----------------------------------------------------------------------------
(* Diffs of a source with its test, a second source, a lockfile, an        *)
(* approval, a workflow and a generated file; a line that begins with      *)
(* "++ ", and a file moved to another directory under another name.        *)

Change(status, path, old, at, lines, removed, moved) ==
  [status |-> status, path |-> path, old |-> old, at |-> at, lines |-> lines,
   removed |-> removed, moved |-> moved]

SomeChanges ==
  {Change("M", "pay", "none", 3, <<"plain", "secret">>, 1, FALSE),
   Change("A", "pay", "none", 1, <<"marker">>, 0, FALSE),
   Change("D", "pay", "none", 1, << >>, 2, FALSE),
   Change("M", "pay_test", "none", 7, <<"plain">>, 0, FALSE),
   Change("D", "pay_test", "none", 1, << >>, 1, FALSE),
   Change("R", "pay_test", "old_test", 2, <<"plain">>, 0, FALSE),
   Change("R", "auth", "login", 1, << >>, 0, FALSE),
   Change("R", "auth", "login", 1, <<"plain", "plain">>, 1, TRUE),
   Change("T", "auth", "none", 1, <<"secret">>, 1, FALSE),
   Change("M", "lock", "none", 1, <<"plain">>, 1, FALSE),
   Change("A", "approval", "none", 1, <<"plain">>, 0, FALSE),
   Change("C", "flow", "flow0", 4, <<"plain", "pluses", "secret">>, 0, FALSE),
   Change("M", "gen", "none", 2, <<"marker", "secret">>, 3, FALSE)}

Read == INSTANCE GuardDiff WITH
  Sources <- {"pay", "auth", "login", "gen", "pay_test"},
  Tests <- {"pay_test", "old_test"}, Lockfiles <- {"lock"}, Approvals <- {"approval"},
  Workflows <- {"flow"}, Generated <- {"gen"}, Covers <- {<<"pay_test", "pay">>},
  Changes <- SomeChanges, None <- "none", ManyFiles <- 4, ManyLines <- 8, MaxChanges <- 4

-----------------------------------------------------------------------------
(* Boots and patrols over three commits and one fault, or two and two.     *)

Watched == INSTANCE SentinelChecks WITH
  commits <- stored, MaxCommits <- 3, MaxFaults <- 1,
  Accidents <- {"lost", "rot", "manifest", "snapshot"}
Battered == INSTANCE SentinelChecks WITH
  commits <- stored, MaxCommits <- 2, MaxFaults <- 2,
  Accidents <- {"lost", "rot", "manifest", "snapshot"}
ASSUME SentinelAssumption == Watched!AccidentsAssumption /\ Battered!AccidentsAssumption

-----------------------------------------------------------------------------
(* Records of every type there is, with lists of up to two entries.        *)

Codec == INSTANCE CanonicalCodec WITH
  Lengths <- {0, 1, 2},
  Types <- {"events", "statuses", "violations", "program", "delta", "path", "objects",
            "pointers", "facts", "table", "pages", "root", "snapshot", "commit",
            "commit1", "commit2", "commit3", "legacy3", "legacy4"}

-----------------------------------------------------------------------------

NoDiff == diff = Unused
NoBoot ==
  /\ stored = Unused /\ disk = Unused /\ ref = Unused /\ index = Unused /\ mirror = Unused
  /\ manifest = Unused /\ lastBoot = Unused /\ faults = Unused /\ check = Unused
NoCodec ==
  /\ type = Unused /\ shape = Unused /\ value = Unused
  /\ stream = Unused /\ result = Unused /\ phase = Unused

Init ==
  \/ machine = "diff" /\ Read!Init /\ NoBoot /\ NoCodec
  \/ /\ \/ machine = "watched" /\ Watched!Init
        \/ machine = "battered" /\ Battered!Init
     /\ NoDiff /\ NoCodec
  \/ machine = "codec" /\ Codec!Init /\ NoDiff /\ NoBoot

StepDiff ==
  machine = "diff" /\ Read!Next
    /\ UNCHANGED <<machine, bootVars, codecVars>>

OnBoot == UNCHANGED <<machine, diff, codecVars>>
StepWatched == machine = "watched" /\ Watched!Next /\ OnBoot
StepBattered == machine = "battered" /\ Battered!Next /\ OnBoot

StepCodec ==
  machine = "codec" /\ Codec!Next
    /\ UNCHANGED <<machine, diff, bootVars>>

Next ==
  \/ StepDiff
  \/ StepWatched \/ StepBattered
  \/ StepCodec
Spec == Init /\ [][Next]_vars

-----------------------------------------------------------------------------
(* Properties *)


(* A ready repository can be read, what the fault injection did is noticed *)
(* by the patrols and never passed by the gate, and the gate notes a       *)
(* change exactly when there is one.                                       *)
SentinelIsSound ==
  /\ machine = "watched" =>
       /\ Watched!ReadyIsSound /\ Watched!InjectionIsNoticed /\ Watched!PatrolAnswers
       /\ Watched!CleanPatrolBoots /\ Watched!NoteIsChange /\ Watched!CleanBoots
  /\ machine = "battered" =>
       /\ Battered!ReadyIsSound /\ Battered!InjectionIsNoticed /\ Battered!PatrolAnswers
       /\ Battered!CleanPatrolBoots /\ Battered!NoteIsChange

(* Every record is read as it was written and has one encoding, cut or     *)
(* lengthened streams are refused, and the id of a commit is the hash of   *)
(* what is stored for it.                                                  *)
CodecIsExact ==
  machine = "codec" =>
    /\ Codec!RoundTrip /\ Codec!OneEncoding
    /\ Codec!DamageIsNoticed /\ Codec!CommitIdIsItsObject
=============================================================================

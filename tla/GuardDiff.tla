----------------------------- MODULE GuardDiff -----------------------------
(***************************************************************************)
(* What the guard makes of a diff: git's three outputs (name-status,       *)
(* numstat and patch) are read into entries, and the policy pack turns the *)
(* entries into findings.                                                  *)
(*                                                                         *)
(* Sources: src/src/guard/git_diff_adapter.cpp, policy_pack.cpp.           *)
(*                                                                         *)
(* A change is what the two trees differ in; the outputs of git are        *)
(* derived from it as git prints them.  A diff grows change by change, in  *)
(* any order of files.                                                     *)
(***************************************************************************)
EXTENDS Integers, Sequences, FiniteSets, SequencesExt, FiniteSetsExt

CONSTANTS
    Sources, Tests, Lockfiles, Approvals, Workflows, Generated,
                   \* what is_source_file() ... say of a path
    Covers,        \* <<test, source>>: the test's path holds the source's stem
    Changes,       \* the changes a diff is made of
    None,          \* no path
    ManyFiles, ManyLines,  \* from where a diff is large
    MaxChanges     \* bound on the changes of a diff

VARIABLE diff      \* the changes, in the order git lists them

(***************************************************************************)
(* A change is a record                                                    *)
(*   status  letter of name-status                                         *)
(*   path, old  the file and, for a rename or a copy, where it was         *)
(*   at, lines  where lines are added, and what they are: "plain",         *)
(*           "secret", "marker" (of generated code) or "pluses" (a line    *)
(*           whose text begins with "++ ")                                 *)
(*   removed  how many lines are removed                                   *)
(*   moved   a rename between names that share neither a directory nor an  *)
(*           ending: git shows it as "old => new", without braces          *)
(***************************************************************************)

-----------------------------------------------------------------------------
(* git's outputs, and how they are read.                                   *)

\* parse_git_name_status: one entry for every line.
Listed(d) ==
    [i \in DOMAIN d |->
        [status |-> d[i].status, path |-> d[i].path,
         old |-> IF d[i].status \in {"R", "C"} THEN d[i].old ELSE None,
         additions |-> 0, deletions |-> 0, added |-> << >>]]

\* The entry a path names: the first of that path, 0 if there is none.
EntryAt(entries, path) ==
    LET is == {i \in DOMAIN entries : entries[i].path = path}
    IN  IF is = {} THEN 0 ELSE Min(is)

\* The path numstat shows, after expand_git_brace_path().
NumstatPath(c) == IF c.moved THEN None ELSE c.path

\* apply_numstat.
Counted(entries, d) ==
    [i \in DOMAIN entries |->
        LET cs == {j \in DOMAIN d : EntryAt(entries, NumstatPath(d[j])) = i}
        IN  IF cs = {} THEN entries[i]
            ELSE [entries[i] EXCEPT !.additions = Len(d[Max(cs)].lines),
                                    !.deletions = d[Max(cs)].removed]]

\* The patch of a change: nothing for a pure rename, else a header, a hunk
\* and its lines.  A line that begins with "++ " is printed as "+++ ...".
PatchOf(c) ==
    IF c.lines = << >> /\ c.removed = 0 THEN << >>
    ELSE <<[kind |-> "header", path |-> IF c.status = "D" THEN None ELSE c.path],
           [kind |-> "hunk", at |-> c.at]>>
         \o [i \in 1..c.removed |-> [kind |-> "minus"]]
         \o [i \in DOMAIN c.lines |->
                IF c.lines[i] = "pluses" THEN [kind |-> "header", path |-> None]
                ELSE [kind |-> "plus", text |-> c.lines[i]]]

ReadPatchLine(state, l) ==
    CASE l.kind = "header" ->
            [state EXCEPT !.current = EntryAt(state.entries, l.path)]
      [] l.kind = "hunk" -> [state EXCEPT !.line = l.at]
      [] l.kind = "plus" /\ state.current # 0 ->
            [state EXCEPT
                !.entries[state.current].added =
                    Append(@, [line |-> state.line, text |-> l.text]),
                !.line = @ + 1]
      [] OTHER -> state

\* GitDiffAdapter::read.
Entries(d) ==
    FoldLeft(ReadPatchLine,
             [entries |-> Counted(Listed(d), d), current |-> 0, line |-> 0],
             FlattenSeq([i \in DOMAIN d |-> PatchOf(d[i])])).entries

-----------------------------------------------------------------------------
(* The policy pack.                                                        *)

ChangesFile == {"M", "A", "R", "C", "T"}

MatchingTestChanged(i, entries) ==
    \E j \in DOMAIN entries : /\ entries[j].status \in ChangesFile
                              /\ entries[j].path \in Tests
                              /\ <<entries[j].path, entries[i].path>> \in Covers

ChangedLines(entries) ==
    FoldLeft(LAMBDA sum, e : sum + e.additions + e.deletions, 0, entries)

Finding(severity, rule, file, line) ==
    [severity |-> severity, rule |-> rule, file |-> file, line |-> line]

\* The findings about entry i.
FileFindings(i, entries) ==
    LET e == entries[i]
        says(condition, severity, rule) ==
            IF condition THEN {Finding(severity, rule, e.path, 0)} ELSE {}
    IN  says(/\ e.status \in ChangesFile
             /\ e.path \in Sources \ (Tests \cup Generated)
             /\ ~MatchingTestChanged(i, entries),
             "high", "modified_source_requires_test")
        \cup says(e.status = "D" /\ e.path \in Tests,
                  "high", "deleted_test_is_high_risk")
        \cup says(e.path \in Workflows, "high", "workflow_change_is_high_risk")
        \cup says(/\ e.path \in Lockfiles
                  /\ ~\E j \in DOMAIN entries : entries[j].path \in Approvals,
                  "medium", "lockfile_change_requires_policy")
        \cup says(\/ e.path \in Generated
                  \/ \E k \in DOMAIN e.added : e.added[k].text = "marker",
                  "medium", "generated_file_change_is_medium_risk")
        \cup {Finding("critical", "secret_pattern_in_diff_is_critical", e.path,
                      e.added[k].line) :
                k \in {j \in DOMAIN e.added : e.added[j].text = "secret"}}

\* PrGuardPolicyPack::evaluate, its findings as a set.
Evaluate(entries) ==
    UNION {FileFindings(i, entries) : i \in DOMAIN entries}
    \cup (IF Len(entries) >= ManyFiles \/ ChangedLines(entries) >= ManyLines
          THEN {Finding("medium", "large_diff_is_medium_risk", None, 0)} ELSE {})
    \cup {Finding("info", "changed_files_mapped_into_audit_graph", None, 0)}

-----------------------------------------------------------------------------

Init == diff = << >>

\* One more changed file: a diff names a path once.
Add(c) ==
    /\ Len(diff) < MaxChanges
    /\ \A i \in DOMAIN diff : {diff[i].path, diff[i].old} \cap {c.path, c.old} \subseteq {None}
    /\ diff' = Append(diff, c)

Next == \E c \in Changes : Add(c)

Spec == Init /\ [][Next]_diff

-----------------------------------------------------------------------------
(* Properties.                                                             *)

(* The findings about a diff do not depend on the order in which git lists *)
(* its files: an approval or a matching test counts wherever it stands.    *)
FindingsIgnoreOrder ==
    Evaluate(Entries(Reverse(diff))) = Evaluate(Entries(diff))

(* Every line a change adds is among the added lines of its entry, at its  *)
(* number in the new file: the lines the rules on secrets and markers      *)
(* read, and the line a finding points at.  The reader of patches takes a  *)
(* line that begins with "++ " for a header and loses what follows it in   *)
(* the same file, and only there.                                          *)
AddedLinesAreKept ==
    \A i \in DOMAIN diff :
        LET lines == diff[i].lines
            upTo == IF "pluses" \in Range(lines)
                    THEN Min({k \in DOMAIN lines : lines[k] = "pluses"}) - 1
                    ELSE Len(lines)
        IN  Entries(diff)[i].added
                = [k \in 1..upTo |-> [line |-> diff[i].at + k - 1, text |-> lines[k]]]

(* The lines counted over the entries are the lines the diff changes: what *)
(* decides whether a diff is large.  Only the lines of a file moved to     *)
(* another directory under another name are missing.                       *)
SizeIsCounted ==
    ChangedLines(Entries(diff))
        = FoldLeft(LAMBDA sum, c : IF c.moved THEN sum ELSE sum + Len(c.lines) + c.removed,
                   0, diff)

=============================================================================

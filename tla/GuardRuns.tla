----------------------------- MODULE GuardRuns -----------------------------
(***************************************************************************)
(* The guard over a store that outlives its runs: a run reads the diff of  *)
(* the working tree, ingests an event for every entry, measures the        *)
(* commits that are new on the branch and decides whether a strict run     *)
(* fails, against a baseline frozen earlier.                               *)
(*                                                                         *)
(* Sources: src/src/guard/guard_pipeline.cpp, git_diff_adapter.cpp,        *)
(* report.cpp; CalibrationStore::create and load of                        *)
(* src/src/measure/calibration.cpp.                                        *)
(*                                                                         *)
(* One run at a time; other commands may commit to the branch and freeze   *)
(* baselines while it goes on.  An event is committed and marked as seen   *)
(* in one step (IngestionPipeline has the crash in between), and the four  *)
(* numbers of a commit's risk are chosen when it is made: measuring is a   *)
(* function of the commit (MeasurementCache).                              *)
(***************************************************************************)
EXTENDS Integers, Sequences, FiniteSets, SequencesExt, FiniteSetsExt

CONSTANTS
    Diffs,         \* the diffs the working tree may show: sequences of
                   \* <<status, path>>
    Risks,         \* [structural, law, repair, surprise] a commit may have
    Percent,       \* the percentile of the thresholds, in hundredths
    MinHistory,    \* smallest sample that calibrates
    Modes,         \* subset of {"observe", "strict"}
    GitMayFail,    \* git may fail to produce the diff
    MayCrash,      \* a run may die
    MaxReports, MaxBranch  \* bounds on the history

GuardAssumption ==
    /\ \A d \in Diffs : d \in Seq(STRING \X STRING)
    /\ Risks \subseteq [structural : Nat, law : Nat, repair : Nat, surprise : Nat]
    /\ Percent \in 0..100

VARIABLES
    tree,          \* the diff the working tree shows
    seen,          \* ids of the events ingested
    commits,       \* the commits of the branch, oldest first
    frozen,        \* the frozen baseline, << >> if none
    run,           \* the run in progress, << >> if none
    reports        \* the reports written, oldest first

guardVars == <<tree, seen, commits, frozen, run, reports>>

-----------------------------------------------------------------------------

\* evidence_from_git_diff: the id of the i-th event of a diff.
EventId(d, i) == <<i, d[i][1], d[i][2]>>

Zero == [structural |-> 0, law |-> 0, repair |-> 0, surprise |-> 0]

\* joined_risk of the commits measured.
JoinedRisk(cs) ==
    [n \in DOMAIN Zero |-> Max({0} \cup {commits[c][n] : c \in cs})]

RawScore(r) == r.structural + r.law + r.repair + r.surprise

\* The value of a rank in the sorted sample: the least with as many up to it.
PercentileThreshold(s) ==
    LET rank == Max({1, (Percent * Len(s) + 99) \div 100})
    IN  IF s = << >> THEN 0
        ELSE Min({v \in Range(s) : Cardinality({i \in DOMAIN s : s[i] <= v}) >= rank})

\* The values of a namespace over the sample of a baseline.
SampleOf(b, n) == [i \in DOMAIN b.sample |-> commits[b.sample[i]][n]]

\* A baseline that calibrates: of the run's specification, and long enough.
Calibrates(b) == b.matches /\ Len(b.sample) >= MinHistory

\* Mutant: contamination is looked for where the thresholds are.
ContaminatedIfLong(b, measured) ==
    Calibrates(b) /\ \E i \in DOMAIN b.sample : b.sample[i] \in measured
Contaminated(b, measured) ==
    b.matches /\ \E i \in DOMAIN b.sample : b.sample[i] \in measured

\* strict_decision_for_baseline; named is << >> or <<the baseline>>.
DecisionFailed(measured, named) ==
    LET risk == JoinedRisk(measured)
    IN  \/ risk.law > 0
        \/ risk.repair > 0
        \/ /\ named # << >>
           /\ \/ ~named[1].matches
              \/ Contaminated(named[1], measured)
              \/ /\ Calibrates(named[1])
                 /\ \E n \in {"structural", "surprise"} :
                        risk[n] > PercentileThreshold(SampleOf(named[1], n))

\* guard_status_for_risk.
StatusForRisk(score) ==
    CASE score >= 90 -> "critical"
      [] score >= 70 /\ score < 90 -> "risky"
      [] score >= 30 /\ score < 70 -> "attention"
      [] OTHER -> "clean"

-----------------------------------------------------------------------------

GuardInit ==
    /\ tree \in Diffs
    /\ seen = {} /\ commits = << >>
    /\ frozen = << >> /\ run = << >> /\ reports = << >>

\* The working tree moves on to another diff.
ChangeTree(d) ==
    /\ tree' = d /\ tree # d
    /\ UNCHANGED <<seen, commits, frozen, run, reports>>

\* run_guard reads the diff and the history there is before it.  The exit
\* status of git is not looked at: a failure reads as an empty diff.
BeginRun(mode, named, fails) ==
    /\ run = << >> /\ Len(reports) < MaxReports
    /\ fails => GitMayFail
    /\ run' = <<[mode |-> mode, named |-> named, diff |-> tree,
                 entries |-> IF fails THEN << >> ELSE tree,
                 known |-> 1..Len(commits), made |-> {}, next |-> 1,
                 measured |-> << >>]>>
    /\ UNCHANGED <<tree, seen, commits, frozen, reports>>

\* A commit: its risk and the event it is the evidence of.
GuardedCommit(risk, event) ==
    [structural |-> risk.structural, law |-> risk.law, repair |-> risk.repair,
     surprise |-> risk.surprise, event |-> event]

\* IngestionPipeline::ingest: the next event; one seen before is skipped.
Ingest(risk) ==
    /\ run # << >> /\ run[1].next <= Len(run[1].entries)
    /\ LET id == EventId(run[1].entries, run[1].next)
       IN  IF id \in seen
           THEN /\ run' = <<[run[1] EXCEPT !.next = @ + 1]>>
                /\ UNCHANGED <<seen, commits>>
           ELSE /\ Len(commits) < MaxBranch
                /\ commits' = Append(commits, GuardedCommit(risk, id))
                /\ seen' = seen \cup {id}
                /\ run' = <<[run[1] EXCEPT !.next = @ + 1,
                                          !.made = @ \cup {Len(commits) + 1}]>>
    /\ UNCHANGED <<tree, frozen, reports>>

\* measure_new_commits: what the branch has and the run did not know.
MeasureNew ==
    /\ run # << >> /\ run[1].next > Len(run[1].entries) /\ run[1].measured = << >>
    /\ run' = <<[run[1] EXCEPT !.measured = <<(DOMAIN commits) \ run[1].known>>]>>
    /\ UNCHANGED <<tree, seen, commits, frozen, reports>>

\* The baseline named on the command line is loaded; there is none.
LoadFails ==
    /\ run # << >> /\ run[1].measured # << >>
    /\ run[1].named /\ frozen = << >>
    /\ run' = << >>
    /\ UNCHANGED <<tree, seen, commits, frozen, reports>>

\* The decision is made and the report written.
WriteReport ==
    /\ run # << >> /\ run[1].measured # << >>
    /\ run[1].named => frozen # << >>
    /\ LET r == run[1]
           measured == r.measured[1]
           decided == DecisionFailed(measured, IF r.named THEN frozen ELSE << >>)
           score == Min({RawScore(JoinedRisk(measured)), 100})
       IN  reports' = Append(reports,
             [mode |-> r.mode, diff |-> r.diff, read |-> r.entries, made |-> r.made,
              measured |-> measured,
              baseline |-> IF r.named THEN frozen ELSE << >>,
              status |-> IF decided THEN "risky" ELSE StatusForRisk(score),
              failed |-> r.mode = "strict" /\ decided])
    /\ run' = << >>
    /\ UNCHANGED <<tree, seen, commits, frozen>>

\* The run dies.
RunDies ==
    /\ MayCrash /\ run # << >>
    /\ run' = << >>
    /\ UNCHANGED <<tree, seen, commits, frozen, reports>>

\* Another command commits to the branch.
Work(risk) ==
    /\ Len(commits) < MaxBranch
    /\ commits' = Append(commits, GuardedCommit(risk, << >>))
    /\ UNCHANGED <<tree, seen, frozen, run, reports>>

\* measure baseline create: the commits up to one of the branch.
Freeze(upTo, matches) ==
    /\ upTo \in DOMAIN commits
    /\ frozen' = <<[sample |-> [i \in 1..upTo |-> i], matches |-> matches]>>
    /\ UNCHANGED <<tree, seen, commits, run, reports>>

GuardNext ==
    \/ \E d \in Diffs : ChangeTree(d)
    \/ \E mode \in Modes, named, fails \in BOOLEAN : BeginRun(mode, named, fails)
    \/ \E risk \in Risks : Ingest(risk)
    \/ MeasureNew
    \/ LoadFails
    \/ WriteReport
    \/ RunDies
    \/ \E risk \in Risks : Work(risk)
    \/ \E upTo \in 1..MaxBranch, matches \in BOOLEAN : Freeze(upTo, matches)

GuardSpec == GuardInit /\ [][GuardNext]_guardVars

-----------------------------------------------------------------------------
(* Properties.                                                             *)

(* A report measures every commit its run made, and no commit another      *)
(* report has measured: what is new is counted once, over all the runs on  *)
(* a store and with other commands committing in between.                  *)
MeasuredOnce ==
    /\ \A i \in DOMAIN reports : reports[i].made \subseteq reports[i].measured
    /\ \A i, j \in DOMAIN reports :
            i # j => reports[i].measured \cap reports[j].measured = {}

(* A strict run that passes measured no commit with a law or repair        *)
(* distance, and none more structural or surprising than every commit of   *)
(* the baseline that calibrated it.                                        *)
StrictPassMeansCalm ==
    \A i \in DOMAIN reports :
        LET r == reports[i]
        IN  r.mode = "strict" /\ ~r.failed =>
                \A c \in r.measured :
                    /\ commits[c].law = 0 /\ commits[c].repair = 0
                    /\ (r.baseline # << >> /\ Len(r.baseline[1].sample) >= MinHistory) =>
                        \A n \in {"structural", "surprise"} :
                            \E k \in DOMAIN r.baseline[1].sample :
                                commits[c][n] <= commits[r.baseline[1].sample[k]][n]

(* A run is never judged by a baseline that was frozen over its own        *)
(* commits, however the freezing interleaves with it: it is risky, and     *)
(* fails when strict.                                                      *)
NotJudgedByItself ==
    \A i \in DOMAIN reports :
        LET r == reports[i]
        IN  /\ r.baseline # << >>
            /\ \E k \in DOMAIN r.baseline[1].sample : r.baseline[1].sample[k] \in r.measured
            => r.status = "risky" /\ (r.mode = "strict" => r.failed)

(* At least Percent in a hundred commits of a baseline stay within the     *)
(* threshold it sets.                                                      *)
ThresholdCovers ==
    \A b \in {frozen} \ {<< >>}, n \in {"structural", "surprise"} :
        LET s == SampleOf(b[1], n)
        IN  100 * Cardinality({k \in DOMAIN s : s[k] <= PercentileThreshold(s)})
                >= Percent * Len(s)

=============================================================================

------------------------------ MODULE MCStorage ------------------------------
(* The machines that keep files under a repository in one run, and the     *)
(* arithmetic of what is measured in it and judged by guard runs.          *)
EXTENDS Machines, Integers, Sequences

CONSTANTS Nobody, s1, s2

VARIABLES
  log, objects, parent, file, temp, lock, session, faults, crashes, \* WriteAheadLog
  loose, partial, pvp, idx, quarantine, broken, ref, index, holder, \* ObjectMaintenance
  call, failed, left,
  history, rejected, store, damaged, files, temps, procs, budget,   \* MeasurementCache
  less, more, sample, policy, legacy,                               \* RiskProjection
  tree, seen, branch, frozen, run, reports                          \* GuardRuns

logVars == <<log, objects, parent, file, temp, lock, session, faults, crashes>>
fileVars ==
  <<loose, partial, pvp, idx, quarantine, broken, ref, index, holder, call, failed, left>>
cacheVars == <<history, rejected, store, damaged, files, temps, procs, budget>>
riskVars == <<less, more, sample, policy, legacy>>
runVars == <<tree, seen, branch, frozen, run, reports>>
storageVars == <<machine, logVars, fileVars, cacheVars, riskVars, runVars>>

-----------------------------------------------------------------------------
(* The log: one process that dies in the middle of appends, two of which   *)
(* one meets a disk fault, and two that write the same temporary files.    *)

Single == INSTANCE WriteAheadLogProofs WITH
  Sessions <- {s1}, MaxCommits <- 3, MaxFaults <- 0, MaxCrashes <- 2, TornAppends <- TRUE
Faulty == INSTANCE WriteAheadLogProofs WITH
  Sessions <- {s1, s2}, MaxCommits <- 2, MaxFaults <- 1, MaxCrashes <- 1, TornAppends <- TRUE
Racing == INSTANCE WriteAheadLogProofs WITH
  Sessions <- {s1, s2}, MaxCommits <- 3, MaxFaults <- 0, MaxCrashes <- 1, TornAppends <- FALSE
ASSUME LogAssumption ==
  Single!NobodyAssumption /\ Faulty!NobodyAssumption /\ Racing!NobodyAssumption

-----------------------------------------------------------------------------
(* Objects: a genesis with a checkpoint page and a second commit that      *)
(* shares its empty lists and its morphism path; one process with a crash  *)
(* and damage, or two without.                                             *)

TwoCommits == <<<<"lists", "path", "page", "commit1">>,
                <<"delta", "lists", "path", "commit2">>>>
TwoReads == <<<<"commit1", "lists", "page">>,
              <<"commit1", "lists", "commit2", "lists", "page", "delta">>>>
Stored == <<"commit1", "commit2">>

Maintained == INSTANCE ObjectMaintenanceProofs WITH
  Sessions <- {s1}, Needs <- TwoCommits, Reads <- TwoReads, CommitOf <- Stored,
  MaxCalls <- 5, MaxCrashes <- 1, MaxDamage <- 1, damaged <- broken, lock <- holder
Lockless == INSTANCE ObjectMaintenanceProofs WITH
  Sessions <- {s1, s2}, Needs <- TwoCommits, Reads <- TwoReads, CommitOf <- Stored,
  MaxCalls <- 5, MaxCrashes <- 0, MaxDamage <- 0, damaged <- broken, lock <- holder
Collected == INSTANCE ObjectMaintenance WITH
  Sessions <- {s1, s2}, Needs <- TwoCommits, Reads <- TwoReads, CommitOf <- Stored,
  MaxCalls <- 4, MaxCrashes <- 1, MaxDamage <- 0, damaged <- broken, lock <- holder
ASSUME FilesAssumption ==
  Maintained!MaintenanceAssumption /\ Lockless!MaintenanceAssumption

-----------------------------------------------------------------------------
(* Measurements: one process with a collection, damage and a crash, or two *)
(* that measure while a history loses a rejected commit.  Their risk: two  *)
(* structural components and values next to the largest number, with       *)
(* samples of up to four values; or four weights over two namespaces.      *)
(* Guard runs over two diffs that share an event: one, with commits that   *)
(* are calm, structural or against a law; or two strict ones that may die, *)
(* with calm commits.                                                      *)

Cone == <<"structural", "forward_cone_mass">>
Mass == <<"structural", "propagated_mass">>
Total == <<"law", "total_magnitude">>

\* ln in millionths: a table, and the tangent at 4095 near it.
MicroLn ==
  LET table == <<0, 693147, 1098612, 1386294, 1609438, 1791759, 1945910, 2079442>>
  IN [n \in 1..8190 |-> IF n <= 8 THEN table[n] ELSE 8317522 + (n - 4095) * 244]

Risk(s, l, r, u) == [structural |-> s, law |-> l, repair |-> r, surprise |-> u]
SharedDiffs == {<<<<"M", "a">>>>, <<<<"M", "a">>, <<"D", "b">>>>}
Calm == Risk(0, 0, 0, 0)

Cached == INSTANCE MeasurementCacheProofs WITH
  Procs <- {s1}, Specs <- {1}, Operations <- {"measure", "rebuild", "freeze"},
  LegacyRows <- TRUE, MaxCommits <- 2, MaxCollections <- 1, MaxDamage <- 1,
  MaxCrashes <- 1, MaxDrops <- 0, objects <- store,
  Components <- {Cone, Mass}, Sampled <- {Cone}, Values <- {2, 5, 4095},
  Samples <- {1, 3, 4}, Weights <- {}, MaxSample <- 4,
  Top <- 4095, MicroLog <- MicroLn, left <- less, right <- more,
  Diffs <- SharedDiffs, Modes <- {"observe", "strict"},
  Risks <- {Calm, Risk(40, 0, 0, 0), Risk(75, 1, 0, 20), Risk(0, 0, 2, 0)},
  Percent <- 95, MinHistory <- 2, GitMayFail <- FALSE, MayCrash <- FALSE,
  MaxReports <- 1, MaxBranch <- 3, commits <- branch
Measured == INSTANCE MeasurementCacheProofs WITH
  Procs <- {s1, s2}, Specs <- {1}, Operations <- {"measure"},
  LegacyRows <- FALSE, MaxCommits <- 2, MaxCollections <- 0, MaxDamage <- 0,
  MaxCrashes <- 0, MaxDrops <- 1, objects <- store,
  Components <- {Cone, Mass, Total}, Sampled <- {}, Values <- {2, 3000},
  Samples <- {}, Weights <- {0, 3}, MaxSample <- 0,
  Top <- 4095, MicroLog <- MicroLn, left <- less, right <- more,
  Diffs <- SharedDiffs, Modes <- {"strict"}, Risks <- {Calm},
  Percent <- 95, MinHistory <- 2, GitMayFail <- TRUE, MayCrash <- TRUE,
  MaxReports <- 2, MaxBranch <- 3, commits <- branch
ASSUME CacheAssumption == Cached!BoundsAssumption /\ Measured!BoundsAssumption
ASSUME RiskAssumption == Cached!RiskAssumption /\ Measured!RiskAssumption
ASSUME GuardAssumption == Cached!GuardAssumption /\ Measured!GuardAssumption

-----------------------------------------------------------------------------

NoLog ==
  /\ log = Unused /\ objects = Unused /\ parent = Unused /\ file = Unused
  /\ temp = Unused /\ lock = Unused /\ session = Unused /\ faults = Unused
  /\ crashes = Unused
NoFiles ==
  /\ loose = Unused /\ partial = Unused /\ pvp = Unused /\ idx = Unused
  /\ quarantine = Unused /\ broken = Unused /\ ref = Unused /\ index = Unused
  /\ holder = Unused /\ call = Unused /\ failed = Unused /\ left = Unused
NoCache ==
  /\ history = Unused /\ rejected = Unused /\ store = Unused /\ damaged = Unused
  /\ files = Unused /\ temps = Unused /\ procs = Unused /\ budget = Unused
NoRisk ==
  less = Unused /\ more = Unused /\ sample = Unused /\ policy = Unused /\ legacy = Unused
NoRun ==
  /\ tree = Unused /\ seen = Unused /\ branch = Unused
  /\ frozen = Unused /\ run = Unused /\ reports = Unused

StorageInit ==
  \/ /\ \/ machine = "single" /\ Single!Init
        \/ machine = "faulty" /\ Faulty!Init
        \/ machine = "racing" /\ Racing!Init
     /\ NoFiles /\ NoCache /\ NoRisk /\ NoRun
  \/ /\ \/ machine = "maintained" /\ Maintained!Init
        \/ machine = "lockless" /\ Lockless!Init
     /\ NoLog /\ NoCache /\ NoRisk /\ NoRun
  \/ /\ \/ machine = "cached" /\ Cached!Init
        \/ machine = "measured" /\ Measured!Init
     /\ NoLog /\ NoFiles /\ NoRisk /\ NoRun
  \/ /\ \/ machine = "calibrated" /\ Cached!RiskInit
        \/ machine = "weighed" /\ Measured!RiskInit
     /\ NoLog /\ NoFiles /\ NoCache /\ NoRun
  \/ /\ \/ machine = "guarded" /\ Cached!GuardInit
        \/ machine = "repeated" /\ Measured!GuardInit
     /\ NoLog /\ NoFiles /\ NoCache /\ NoRisk

OnLog == UNCHANGED <<machine, fileVars, cacheVars, riskVars, runVars>>
StepSingle == machine = "single" /\ Single!Next /\ OnLog
StepFaulty == machine = "faulty" /\ Faulty!Next /\ OnLog
StepRacing == machine = "racing" /\ Racing!Next /\ OnLog

OnFiles == UNCHANGED <<machine, logVars, cacheVars, riskVars, runVars>>
StepMaintained == machine = "maintained" /\ Maintained!Next /\ OnFiles
StepLockless == machine = "lockless" /\ Lockless!Next /\ OnFiles

OnCache == UNCHANGED <<machine, logVars, fileVars, riskVars, runVars>>
StepCached == machine = "cached" /\ Cached!Next /\ OnCache
StepMeasured == machine = "measured" /\ Measured!Next /\ OnCache

OnRisk == UNCHANGED <<machine, logVars, fileVars, cacheVars, runVars>>
StepCalibrated == machine = "calibrated" /\ Cached!RiskNext /\ OnRisk
StepWeighed == machine = "weighed" /\ Measured!RiskNext /\ OnRisk

OnRun == UNCHANGED <<machine, logVars, fileVars, cacheVars, riskVars>>
StepGuarded == machine = "guarded" /\ Cached!GuardNext /\ OnRun
StepRepeated == machine = "repeated" /\ Measured!GuardNext /\ OnRun

StorageNext ==
  \/ StepSingle \/ StepFaulty \/ StepRacing
  \/ StepMaintained \/ StepLockless
  \/ StepCached \/ StepMeasured
  \/ StepCalibrated \/ StepWeighed
  \/ StepGuarded \/ StepRepeated
StorageSpec == StorageInit /\ [][StorageNext]_storageVars

\* A collection after a crash, with another process that commits.
CollectedInit == machine = "collected" /\ Collected!Init /\ NoLog /\ NoCache /\ NoRisk /\ NoRun
StepCollected == machine = "collected" /\ Collected!Next /\ OnFiles
CollectedSpec == CollectedInit /\ [][StepCollected]_storageVars

-----------------------------------------------------------------------------
(* Properties *)

\* The ref stands on commits that are stored, whatever a recovery in another
\* process removed and whatever rename failed for it, and a commit that
\* stopped between its ref and its index is in the log for the recovery.
LogIsTrue ==
  /\ machine = "single" => Single!RefStandsOnStored /\ Single!InterruptedIsLogged
  /\ machine = "racing" => Racing!RefStandsOnStored

\* Neither commits, compactions, collections nor a death in the middle of one
\* make an object of an indexed commit unreadable, a pack that has an index is
\* whole, the integrity check complains of damage only, and a reader without
\* the lock that finds no object would find it a moment later.
NothingIndexedLost ==
  /\ machine = "maintained" =>
       /\ Maintained!TypeOK
       /\ Maintained!NothingIndexedLost
       /\ Maintained!PackIndexWhole
       /\ Maintained!FsckIsTruthful
       /\ Maintained!FailedReadIsTransient
  /\ machine = "lockless" => Lockless!FailedReadIsTransient

\* A row of the measurement index names what would be measured now, a
\* measured branch verifies, and the index files stay readable.
CacheIsFresh ==
  /\ machine = "cached" =>
       Cached!RowsAreFresh /\ Cached!MeasuredIsVerified /\ Cached!IndexReadable
  /\ machine = "measured" => Measured!RowsAreFresh

\* More risk is never a lower score, a joined score is within its parts,
\* quantiles cover their share and old weights score what they scored.
RiskIsMonotone ==
  /\ machine = "calibrated" =>
       /\ Cached!ProjectionIsMonotone
       /\ Cached!JoinedScoreIsBounded
       /\ Cached!QuantilesCover
  /\ machine = "weighed" => Measured!LegacyScoresAgree /\ Measured!VectorFollowsJoin

\* A strict run passes only what is calm by its baseline, no run is judged
\* by a baseline of its own commits, and each commit is measured once.
StrictRunsAreSound ==
  /\ machine = "guarded" =>
       /\ Cached!StrictPassMeansCalm
       /\ Cached!NotJudgedByItself
       /\ Cached!ThresholdCovers
  /\ machine = "repeated" => Measured!MeasuredOnce

\* Nothing is published any more once a line of the log cannot be read, and a
\* measurement taken from the cache is the one that would be computed, with
\* all its objects readable.
UnreadableIsNotUsed ==
  [][/\ machine = "faulty" => Faulty!UnreadableHolds
     /\ machine = "cached" => Cached!HitIsFresh]_storageVars

\* docs/ROADMAP.md:16 lists garbage collection of unreachable objects: what a
\* ref reaches can be read after it.
RefsStayReadable == machine = "collected" => Collected!RefsStayReadable
=============================================================================

---------------------------- MODULE SentinelChecks ----------------------------
(***************************************************************************)
(* The sentinel (src/sentinel): the staged boot gate, the patrols and the  *)
(* fault injection that is shipped to try them, over one branch of a       *)
(* repository on disk.                                                     *)
(*                                                                         *)
(* An object is loose, in a pack, or both, and each copy is whole or       *)
(* damaged; a loose copy is read first.  "law" stands for the law statuses *)
(* and the violations, which are the same objects for every commit without *)
(* laws; "checkpoint" for the objects of a chunked snapshot.               *)
(***************************************************************************)
EXTENDS Integers, Sequences, FiniteSets, SequencesExt

CONSTANTS
  MaxCommits,   \* commits that are stored, the first of them the genesis
  MaxFaults,    \* faults that are injected, and damage that happens
  Accidents     \* the damage that no code does, a subset of Damages

Damages == {"lost", "rot", "manifest", "snapshot"}
AccidentsAssumption == Accidents \subseteq Damages

VARIABLES
  commits,   \* the stored records, by number
  disk,      \* [loose, packed] of every object
  ref,       \* the ref file: [head, snapshot]; a head of 0 is stored nowhere
  index,     \* the branch index: [head, snapshot, history]
  mirror,    \* the history file
  manifest,  \* whether manifest.json is there
  lastBoot,  \* sentinel/last_boot: its root, and what it was the root of
  faults,
  check      \* what the last step was told

vars == <<commits, disk, ref, index, mirror, manifest, lastBoot, faults, check>>

Kinds == {"commit", "delta", "program", "trace", "law", "checkpoint"}
Nothing == [about |-> "none"]

-----------------------------------------------------------------------------
(* The store *)

\* Where a commit keeps an object of a kind.
Key(c, kind) ==
  CASE kind = "law" -> <<0, "law">>
    [] kind = "commit" -> <<c, "commit">>
    [] OTHER -> <<commits[c].body, kind>>

Exists(k) == disk[k].loose # "none" \/ disk[k].packed # "none"
Readable(k) ==
  IF disk[k].loose = "none" THEN disk[k].packed = "whole" ELSE disk[k].loose = "whole"

Has(c, kind) == c # 0 /\ Readable(Key(c, kind))

RECURSIVE ParentChain(_)
ParentChain(c) ==
  IF commits[c].parent = 0 THEN <<c>> ELSE Append(ParentChain(commits[c].parent), c)
ChainReads(c) == c # 0 /\ \A d \in Range(ParentChain(c)) : Has(d, "commit")

\* materialize_commit: from the nearest checkpoint, every accepted delta.
Materializes(c) ==
  /\ ChainReads(c)
  /\ LET chain == ParentChain(c)
         at == CHOOSE i \in DOMAIN chain :
                 /\ commits[chain[i]].checkpoint
                 /\ \A j \in (i + 1)..Len(chain) : ~commits[chain[j]].checkpoint
     IN /\ Has(chain[at], "checkpoint")
        /\ \A j \in (at + 1)..Len(chain) :
             commits[chain[j]].accepted => Has(chain[j], "delta")

RecordReads(c) == Has(c, "commit") /\ Has(c, "trace") /\ Has(c, "law")
HistoryReads(history) == \A c \in Range(history) : RecordReads(c)

LatestAccepted(history) ==
  LET accepted == SelectSeq(history, LAMBDA c : commits[c].accepted)
  IN IF accepted = << >> \/ \E c \in Range(history) : ~Has(c, "commit")
     THEN 0 ELSE Last(accepted)

IndexClean ==
  index.head = ref.head /\ index.snapshot = ref.snapshot
    /\ ref.head \in Range(index.history)

\* rebuild_indexes: the history file when it ends at the ref, otherwise the
\* chain of parents.
RebuiltIds ==
  IF ref.head # 0 /\ LatestAccepted(mirror) = ref.head THEN mirror
  ELSE ParentChain(ref.head)
RebuildReads ==
  /\ ref.head # 0
  /\ LatestAccepted(mirror) # ref.head => ChainReads(ref.head)
  /\ \A c \in Range(RebuiltIds) : RecordReads(c) /\ Materializes(c)
Rebuilt == [head |-> ref.head, snapshot |-> ref.snapshot, history |-> RebuiltIds]

\* Repository::open: whether it throws, and the index it leaves.
OpenSucceeds == manifest /\ (IndexClean \/ RebuildReads)
OpenedIndex == IF OpenSucceeds /\ ~IndexClean THEN Rebuilt ELSE index
WorldReads(i) == HistoryReads(i.history) /\ Materializes(i.head)

\* One repository is opened, what is done with it, and its index is kept.
Open == OpenSucceeds /\ index' = OpenedIndex

-----------------------------------------------------------------------------
(* The workers *)

\* StorePatrolWorker: the loose files, and nothing of the packs.
StoreClean == \A k \in DOMAIN disk : disk[k].loose # "damaged"

Before(c) == IF commits[c].parent = 0 THEN c ELSE commits[c].parent

\* check_commit_proof
ProofMatches(c) ==
  (commits[c].accepted /\ commits[c].parent # 0) =>
     /\ Materializes(Before(c)) /\ Materializes(c) /\ Has(c, "law")
     /\ ~commits[c].flipped

\* check_program_replay
ReplayMatches(c) ==
  commits[c].program # "none" =>
     /\ commits[c].program = "runs"
     /\ Materializes(Before(c)) /\ Has(c, "program")

WithPrograms(history) == SelectSeq(history, LAMBDA c : commits[c].program # "none")

\* What patrol_repository compares of a record besides.
RegionsMatch(c) ==
  /\ Materializes(Before(c)) /\ Materializes(c)
  /\ Has(c, "delta") /\ Has(c, "trace") /\ Has(c, "law")

\* patrol_repository: its history and worlds are read outside of a try.
PatrolClean(i) ==
  /\ StoreClean
  /\ i.snapshot = "right" /\ LatestAccepted(i.history) = i.head
  /\ \A c \in Range(i.history) : RegionsMatch(c) /\ ProofMatches(c) /\ ReplayMatches(c)

\* SentinelRuntime::run_once
RunOnce ==
  IF ~StoreClean \/ ~OpenSucceeds
  THEN [about |-> "patrol", threw |-> FALSE, clean |-> FALSE,
        healthy |-> [store |-> StoreClean, proof |-> FALSE, replay |-> FALSE]]
  ELSE LET i == OpenedIndex
       IN [about |-> "patrol", threw |-> ~WorldReads(i),
           clean |-> WorldReads(i) /\ PatrolClean(i),
           healthy |->
             [store |-> TRUE,
              proof |-> \A c \in Range(i.history) : ProofMatches(c),
              replay |-> \A c \in Range(i.history) : ReplayMatches(c)]]

\* measure_boot: the manifest and the refs as files, the branches, histories
\* and worlds as the repository reads them.
Measure(i) == <<ref, i.history>>

\* run_boot_gate, one stage after the other.
\* Mutant: the loaded branches are not read before the samples are replayed.
StageUnread ==
  CASE ~manifest -> "Manifest"
    [] manifest /\ ~StoreClean -> "ObjectStore"
    [] manifest /\ StoreClean /\ (ref.head = 0 \/ ~Exists(Key(ref.head, "commit"))) ->
         "BranchRefs"
    [] OTHER -> IF ~OpenSucceeds THEN "CommitGraph" ELSE "Ready"
Stage ==
  LET i == OpenedIndex
      programs == WithPrograms(i.history)
  IN IF ~manifest THEN "Manifest"
     ELSE IF ~StoreClean THEN "ObjectStore"
     ELSE IF ref.head = 0 \/ ~Exists(Key(ref.head, "commit")) THEN "BranchRefs"
     ELSE IF ~OpenSucceeds THEN "CommitGraph"
     ELSE IF ~WorldReads(i) \/ i.snapshot # "right" \/ LatestAccepted(i.history) # i.head
     THEN "SnapshotLoad"
     ELSE IF programs # << >> /\ ~ReplayMatches(Head(programs)) THEN "VmReplay"
     ELSE IF \E c \in Range(i.history) : ~ProofMatches(c) THEN "ProofChain"
     ELSE "Ready"

-----------------------------------------------------------------------------

Record(body, parent, accepted, program, checkpoint, flipped) ==
  [body |-> body, parent |-> parent, accepted |-> accepted, program |-> program,
   checkpoint |-> checkpoint, flipped |-> flipped]

Put(d, ks) ==
  [k \in DOMAIN d \cup ks |->
     IF k \notin ks THEN d[k]
     ELSE [loose |-> "whole", packed |-> IF k \in DOMAIN d THEN d[k].packed ELSE "none"]]

Init ==
  /\ commits = <<Record(1, 0, TRUE, "none", TRUE, FALSE)>>
  /\ disk = Put([k \in {} |-> << >>],
                {<<1, kind>> : kind \in {"commit", "delta", "trace", "checkpoint"}}
                  \cup {<<0, "law">>})
  /\ ref = [head |-> 1, snapshot |-> "right"]
  /\ index = [head |-> 1, snapshot |-> "right", history |-> <<1>>]
  /\ mirror = <<1>> /\ manifest = TRUE /\ lastBoot = << >>
  /\ faults = 0 /\ check = Nothing

\* A process opens the repository and commits.  A rejected commit may carry a
\* program that the virtual machine refused.
Commit ==
  /\ OpenSucceeds /\ WorldReads(OpenedIndex) /\ Len(commits) < MaxCommits
  /\ ref.snapshot = "right"
  /\ \E accepted, checkpoint \in BOOLEAN, program \in {"none", "runs", "fails"} :
       /\ checkpoint => accepted
       /\ program = "fails" => ~accepted
       /\ LET new == Len(commits) + 1
              history == Append(OpenedIndex.history, new)
          IN /\ commits' = Append(commits, Record(new, ref.head, accepted, program,
                                                  checkpoint, FALSE))
             /\ disk' = Put(disk,
                  {<<new, kind>> : kind \in {"commit", "delta", "trace"}}
                    \cup {<<0, "law">>}
                    \cup {<<new, "program">> : x \in {1} \cap {IF program = "none" THEN 0 ELSE 1}}
                    \cup {<<new, "checkpoint">> : x \in {1} \cap {IF checkpoint THEN 1 ELSE 0}})
             /\ ref' = [ref EXCEPT !.head = IF accepted THEN new ELSE @]
             /\ index' = [head |-> ref'.head, snapshot |-> "right", history |-> history]
             /\ mirror' = history
  /\ check' = Nothing /\ UNCHANGED <<manifest, lastBoot, faults>>

\* RepositoryEngine::compact, when every loose object is whole.
Compact ==
  /\ manifest /\ RebuildReads /\ index' = Rebuilt
  /\ StoreClean /\ \E k \in DOMAIN disk : disk[k].loose # "none"
  /\ \E picked \in {"old", "new"} :
       disk' = [k \in DOMAIN disk |->
                  IF disk[k].loose = "none" THEN disk[k]
                  ELSE [loose |-> "none",
                        packed |-> IF disk[k].packed = "none" \/ picked = "new"
                                   THEN "whole" ELSE disk[k].packed]]
  /\ check' = Nothing /\ UNCHANGED <<commits, ref, mirror, manifest, lastBoot, faults>>

-----------------------------------------------------------------------------
(* Faults: the injected ones, each of which opens the repository *)

Inject ==
  /\ faults < MaxFaults /\ faults' = faults + 1
  /\ Open /\ check' = Nothing /\ UNCHANGED <<manifest, lastBoot>>

\* The nearest snapshot that is stored: what object_for_kind takes.
SnapshotOf(c) ==
  LET chain == ParentChain(c)
  IN Last(SelectSeq(chain, LAMBDA d : commits[d].checkpoint))

\* corrupt_object_fault turns the first byte over; a second time turns it back.
CorruptObject ==
  /\ Inject /\ HistoryReads(OpenedIndex.history)
  /\ \E c \in Range(OpenedIndex.history), kind \in Kinds :
       LET k == IF kind = "checkpoint" THEN Key(SnapshotOf(c), kind) ELSE Key(c, kind)
       IN /\ k \in DOMAIN disk /\ disk[k].loose # "none"
          /\ disk' = [disk EXCEPT ![k].loose = IF @ = "whole" THEN "damaged" ELSE "whole"]
  /\ UNCHANGED <<commits, ref, mirror>>

RemoveProgram ==
  /\ Inject /\ HistoryReads(OpenedIndex.history)
  /\ \E c \in Range(OpenedIndex.history) :
       /\ commits[c].program # "none" /\ disk[Key(c, "program")].loose # "none"
       /\ disk' = [disk EXCEPT ![Key(c, "program")].loose = "none"]
  /\ UNCHANGED <<commits, ref, mirror>>

RewriteRef ==
  /\ Inject /\ ref' = [head |-> 0, snapshot |-> "wrong"]
  /\ UNCHANGED <<commits, disk, mirror>>

\* flip_proof_fault: the head is stored again with another proof.
FlipProof ==
  /\ Inject /\ Len(commits) < MaxCommits
  /\ ref.head # 0 /\ Has(ref.head, "commit") /\ commits[ref.head].parent # 0
  /\ LET new == Len(commits) + 1
     IN /\ ~commits[ref.head].flipped
        /\ commits' = Append(commits, [commits[ref.head] EXCEPT !.flipped = TRUE])
        /\ disk' = Put(disk, {<<new, "commit">>})
        /\ ref' = [ref EXCEPT !.head = new]
        /\ mirror' = [i \in DOMAIN mirror |-> IF mirror[i] = ref.head THEN new ELSE mirror[i]]

\* Damage that no code does: a file is lost, a pack rots, the ref has the
\* snapshot of an earlier commit.
Accident ==
  /\ faults < MaxFaults /\ faults' = faults + 1
  /\ \/ /\ "lost" \in Accidents
        /\ \E k \in DOMAIN disk :
             disk[k].loose # "none" /\ disk' = [disk EXCEPT ![k].loose = "none"]
        /\ UNCHANGED <<ref, manifest>>
     \/ /\ "rot" \in Accidents
        /\ \E k \in DOMAIN disk :
             disk[k].packed = "whole" /\ disk' = [disk EXCEPT ![k].packed = "damaged"]
        /\ UNCHANGED <<ref, manifest>>
     \/ "manifest" \in Accidents /\ manifest' = FALSE /\ UNCHANGED <<ref, disk>>
     \/ /\ "snapshot" \in Accidents /\ ref' = [ref EXCEPT !.snapshot = "wrong"]
        /\ UNCHANGED <<disk, manifest>>
  /\ check' = Nothing /\ UNCHANGED <<commits, index, mirror, lastBoot>>

-----------------------------------------------------------------------------

\* open_repository_with_sentinel refuses what this does not call ready.
Boot ==
  /\ index' = IF Stage \in {"Manifest", "ObjectStore", "BranchRefs"} THEN index
              ELSE OpenedIndex
  /\ LET root == Measure(OpenedIndex)
     IN /\ check' = [about |-> "boot", stage |-> Stage, previous |-> lastBoot,
                     note |-> Stage = "Ready" /\ lastBoot # << >> /\ lastBoot[1].root # root]
        /\ lastBoot' = IF Stage # "Ready" THEN lastBoot
                       ELSE <<[root |-> root, of |-> <<ref, OpenedIndex.history>>]>>
  /\ UNCHANGED <<commits, disk, ref, mirror, manifest, faults>>

Patrol ==
  /\ check' = RunOnce
  /\ index' = IF StoreClean THEN OpenedIndex ELSE index
  /\ UNCHANGED <<commits, disk, ref, mirror, manifest, lastBoot, faults>>

Next ==
  Commit \/ Compact \/ CorruptObject \/ RemoveProgram \/ RewriteRef \/ FlipProof
    \/ Accident \/ Boot \/ Patrol

Spec == Init /\ [][Next]_vars

-----------------------------------------------------------------------------

Ready == check.about = "boot" /\ check.stage = "Ready"
History == Range(index.history)

\* A boot that is ready has read its branch: no loose object is damaged, the
\* history and the world can be loaded and no proof in it is broken.
ReadyIsSound ==
  Ready =>
    /\ StoreClean /\ IndexClean /\ WorldReads(index)
    /\ \A c \in History : ~commits[c].flipped

\* Whatever the fault injection did, a patrol is not clean, and one of its
\* workers says so in its heartbeat.
InjectionIsNoticed ==
  (check.about = "patrol" /\ ~check.threw
     /\ (~StoreClean \/ ref.head = 0
           \/ (\E c \in History : commits[c].flipped)
           \/ (\E c \in History : commits[c].program # "none" /\ ~Has(c, "program")))) =>
    ~check.clean /\ ~(check.healthy.store /\ check.healthy.proof /\ check.healthy.replay)

\* run_once throws only over objects that are lost or rotten in a pack; an
\* injected fault is reported.
PatrolAnswers ==
  (check.about = "patrol" /\ check.threw) =>
    \E k \in DOMAIN disk : ~Readable(k) /\ disk[k].loose # "damaged"
                             /\ k[2] # "program"

\* The boot gate is never stricter than the patrol.
CleanPatrolBoots ==
  (check.about = "patrol" /\ ~check.threw /\ check.clean) => Stage = "Ready"

\* The gate notes a change exactly when the refs or the history are not those
\* of the last boot that was ready: moving objects to a pack is no change.
NoteIsChange ==
  (Ready /\ check.previous # << >>) =>
    (check.note <=> check.previous[1].of # <<ref, index.history>>)

\* A repository nothing was done to is ready, except that the gate replays
\* its first program though its commit was rejected, and holds a program that
\* the virtual machine refused against the repository.
CleanBoots ==
  (check.about = "boot" /\ faults = 0) =>
    LET programs == WithPrograms(index.history)
    IN check.stage =
         IF programs # << >> /\ commits[Head(programs)].program = "fails"
         THEN "VmReplay" ELSE "Ready"
=============================================================================

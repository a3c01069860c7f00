-------------------------- MODULE RepositoryStore --------------------------
(***************************************************************************)
(* The on-disk repository and the processes that use it.  A session is one *)
(* process: it opens the repository (running recovery), keeps a cache of   *)
(* materialised branches, and creates, commits to and forks branches.      *)
(* Every durable write of a handler is a step of its own, so that a crash  *)
(* or another process can come between any two of them.                    *)
(*                                                                         *)
(* Commits are content-addressed: a commit's hash pins its parents, hence  *)
(* its whole ancestry.  `log` numbers the commits in the order some        *)
(* process computed them; it is the table of what each hash stands for,    *)
(* not a file.  What is on disk of a commit is in `objs`.                  *)
(***************************************************************************)
EXTENDS Integers, Sequences, FiniteSets, FiniteSetsExt, Functions

CONSTANTS
  Sessions,         \* processes that may open the repository
  Names,            \* branch names
  CreateNames,      \* names the clients pass to create_branch
  ForkNames,        \* names the clients pass to fork as the new branch
  CheckpointEvery,  \* CheckpointPolicy::every_n_commits
  MaxCommits,       \* bound on the commits computed
  MaxForks,         \* bound on the forks made
  MaxCrashes,       \* bound on the crashes
  Free,             \* the lock file does not exist
  Stale             \* the lock file was left behind by a process that died

ASSUME NamesAssumption == CreateNames \subseteq Names /\ ForkNames \subseteq Names
ASSUME BoundsAssumption ==
  /\ CheckpointEvery \in Nat \ {0}
  /\ MaxCommits \in Nat /\ MaxForks \in Nat /\ MaxCrashes \in Nat
ASSUME LockAssumption == Free \notin Sessions /\ Stale \notin Sessions /\ Free # Stale

VARIABLES
  log,         \* the commits computed so far: what each commit id hashes
  objs,        \* the objects on disk
  wal,         \* the write-ahead log: "empty", or "begun" (a Begin without its End)
  refs,        \* refs/branches/<name>: branch id and head
  branchIdx,   \* index/branches.idx: id, head and history of each branch
  commitIdx,   \* index/commits.idx: the commits indexed
  eventIdx,    \* index/events.idx: the (branch, commit) pairs indexed
  graphIdx,    \* index/graph.idx: the commits whose adjacency is indexed
  worldIdx,    \* index/objects.idx and relations.idx: the commit each branch is indexed at
  indexFiles,  \* which of the last three index files exist
  mirror,      \* history/branches/<name>: the history mirror
  lock,        \* locks/write.lock
  pc,          \* what each session does next
  mem,         \* each session's materialised branches, in the order it loaded them
  nextId,      \* each session's next_branch_id_
  op,          \* each session's operation in progress
  plan,        \* each session's recovery or rebuild in progress
  acked,       \* (branch, commit) pairs whose call returned to the client
  crashes, forks

objects == <<objs, wal>>
indexes == <<branchIdx, commitIdx, eventIdx, graphIdx, worldIdx, indexFiles>>
memory  == <<log, mem, nextId>>
ghosts  == <<acked, crashes, forks>>
vars == <<log, objs, wal, refs, branchIdx, commitIdx, eventIdx, graphIdx, worldIdx,
          indexFiles, mirror, lock, pc, mem, nextId, op, plan, acked, crashes, forks>>

-----------------------------------------------------------------------------
(***************************************************************************)
(* Data.                                                                   *)
(***************************************************************************)
Commits == 1..Len(log)
NoCommit == 0

(* The three groups of objects one commit needs on disk: its delta,        *)
(* program, trace, law status, violation and path objects; the pages of    *)
(* its checkpoint, when it has one; and the commit object itself.          *)
Payload(c) == <<"payload", c>>
Pages(c)   == <<"pages", c>>
Object(c)  == <<"commit", c>>

NoRef     == [id |-> 0, head |-> NoCommit]
NoBranch  == [id |-> 0, head |-> NoCommit, hist |-> << >>]
NoOp      == [kind |-> "none", asked |-> "none", target |-> "none", id |-> 0,
              commit |-> NoCommit, head |-> NoCommit, hist |-> << >>]
NoPlan    == [refs |-> [n \in Names |-> NoRef], todo |-> {}, commits |-> {},
              branches |-> [n \in Names |-> NoBranch], then |-> "idle", torn |-> FALSE]

(* Altered LatestAccepted: stops at the first accepted commit.             *)
EarliestAccepted(hist) ==
  LET taken == {i \in DOMAIN hist : log[hist[i]].accepted}
  IN  IF taken = {} THEN NoCommit ELSE hist[Min(taken)]

(* The last accepted commit of a history, as RepositoryEngine::latest_accepted *)
(* and WorldStore::restore_branch compute it.                              *)
LatestAccepted(hist) ==
  LET taken == {i \in DOMAIN hist : log[hist[i]].accepted}
  IN  IF taken = {} THEN NoCommit
      ELSE hist[Max(taken)]

(* A commit with its ancestors, oldest first: what both parent_chain       *)
(* functions walk.                                                         *)
Chain(c) == log[c].chain

(* Whether SnapshotMaterializer can produce the world of commit c: every   *)
(* commit object up the chain, the pages of the nearest checkpoint, and    *)
(* the deltas of the accepted commits after it.                            *)
Materializable(c) ==
  LET chain == Chain(c)
      nearest(i) == /\ log[chain[i]].checkpoint
                    /\ \A j \in DOMAIN chain : j > i => ~log[chain[j]].checkpoint
  IN  /\ \A d \in Range(chain) : Object(d) \in objs
      /\ \E i \in DOMAIN chain :
           /\ nearest(i)
           /\ Pages(chain[i]) \in objs
           /\ \A j \in DOMAIN chain :
                j > i /\ log[chain[j]].accepted => Payload(chain[j]) \in objs

(* A commit record whose trace, law statuses and violations can be read.   *)
Readable(c) == Object(c) \in objs /\ Payload(c) \in objs

-----------------------------------------------------------------------------
(***************************************************************************)
(* The WorldStore of one session: the branches it has materialised.        *)
(***************************************************************************)
IsLoaded(branches, n) == \E i \in DOMAIN branches : branches[i].name = n

(* find_branch(name) gives an id; state(id) gives the first branch that    *)
(* has the id, whatever its name.                                          *)
Resolve(branches, n) ==
  LET byName == Min({i \in DOMAIN branches : branches[i].name = n})
  IN  Min({i \in DOMAIN branches : branches[i].id = branches[byName].id})

HasBranch(n) == branchIdx[n] # NoBranch \/ refs[n] # NoRef

(* materialize_branch succeeds: the branch is indexed and everything its   *)
(* history and its head need can be read.                                  *)
CanMaterialize(n) ==
  /\ branchIdx[n] # NoBranch
  /\ \A c \in Range(branchIdx[n].hist) : Readable(c)
  /\ Materializable(branchIdx[n].head)

(* ensure_materialized: a branch already in memory is used as it is.       *)
Loaded(s, n) ==
  IF IsLoaded(mem[s], n) THEN mem[s]
  ELSE Append(mem[s], [name |-> n, id |-> branchIdx[n].id,
                       head |-> LatestAccepted(branchIdx[n].hist),
                       hist |-> branchIdx[n].hist, forced |-> FALSE])
NextIdAfterLoad(s, n) ==
  IF IsLoaded(mem[s], n) \/ nextId[s] > branchIdx[n].id THEN nextId[s]
  ELSE branchIdx[n].id + 1
CanLoad(s, n) == IsLoaded(mem[s], n) \/ CanMaterialize(n)

Goto(s, here, there) == pc[s] = here /\ pc' = [pc EXCEPT ![s] = there]

(* Altered Acquire: opens the lock file without O_EXCL.                    *)
AcquireShared(s) == lock' = s

(* The constructor of RepositoryWriteLock throws unless it creates the file. *)
Acquire(s) == lock = Free /\ lock' = s

-----------------------------------------------------------------------------
(***************************************************************************)
(* A freshly initialised repository (Repository::init): empty refs and     *)
(* indexes; rebuild_indexes has removed the files it had nothing to put in.*)
(***************************************************************************)
Init ==
  /\ log = << >> /\ objs = {} /\ wal = "empty"
  /\ refs = [n \in Names |-> NoRef]
  /\ branchIdx = [n \in Names |-> NoBranch]
  /\ commitIdx = {} /\ eventIdx = {} /\ graphIdx = {}
  /\ worldIdx = [n \in Names |-> NoCommit]
  /\ indexFiles = {}
  /\ mirror = [n \in Names |-> << >>]
  /\ lock = Free
  /\ pc = [s \in Sessions |-> "down"]
  /\ mem = [s \in Sessions |-> << >>]
  /\ nextId = [s \in Sessions |-> 1]
  /\ op = [s \in Sessions |-> NoOp]
  /\ plan = [s \in Sessions |-> NoPlan]
  /\ acked = {} /\ crashes = 0 /\ forks = 0

-----------------------------------------------------------------------------
(***************************************************************************)
(* Opening: RepositoryEngine::open, then RepositoryRecovery::recover(true), *)
(* neither under the write lock.                                           *)
(***************************************************************************)
IndexesAgree ==
  \A n \in Names :
    /\ branchIdx[n] # NoBranch =>
         /\ refs[n].head = branchIdx[n].head
         /\ branchIdx[n].head \in Range(branchIdx[n].hist)
    /\ refs[n] # NoRef => branchIdx[n] # NoBranch

(* Altered IndexesClean: only looks for the files.                         *)
IndexesPresent == {"events", "world"} \subseteq indexFiles

(* check_indexes looks at the checksums of the event, object and relation  *)
(* indexes, so it notices a missing file but not a missing entry.          *)
IndexesClean == {"events", "world"} \subseteq indexFiles /\ IndexesAgree

Rebuild(s, then) ==
  plan' = [plan EXCEPT ![s] = [NoPlan EXCEPT !.then = then, !.torn = plan[s].torn]]

Open(s) ==
  /\ IF "graph" \in indexFiles /\ IndexesClean
       THEN Goto(s, "down", "recover") /\ UNCHANGED plan
       ELSE Goto(s, "down", "rebuild") /\ Rebuild(s, "recover")
  /\ UNCHANGED <<objects, indexes, memory, ghosts, refs, mirror, lock, op>>

Recover(s) ==
  LET torn == wal = "begun"
  IN  /\ IF IndexesClean
           THEN /\ Goto(s, "recover", "settle")
                /\ plan' = [plan EXCEPT ![s].torn = torn]
           ELSE /\ Goto(s, "recover", "rebuild")
                /\ plan' = [plan EXCEPT ![s] = [NoPlan EXCEPT !.then = "settle", !.torn = torn]]
      /\ UNCHANGED <<objects, indexes, memory, ghosts, refs, mirror, lock, op>>

(* An incomplete log is truncated once the indexes are repaired; its       *)
(* entries are never replayed or undone.                                   *)
Settle(s) ==
  /\ wal' = IF plan[s].torn THEN "empty" ELSE wal
  /\ Goto(s, "settle", IF lock = s THEN "unlock" ELSE "idle")
  /\ plan' = [plan EXCEPT ![s] = NoPlan]
  /\ UNCHANGED <<objs, indexes, memory, ghosts, refs, mirror, lock, op>>

-----------------------------------------------------------------------------
(***************************************************************************)
(* RepositoryEngine::rebuild_indexes.  The derived indexes are removed     *)
(* first, filled branch by branch, and the commit and branch indexes are   *)
(* replaced last.                                                          *)
(***************************************************************************)
RebuildStart(s) ==
  /\ Goto(s, "rebuild", "collect")
  /\ eventIdx' = {} /\ graphIdx' = {} /\ indexFiles' = {}
  /\ worldIdx' = [n \in Names |-> NoCommit]
  /\ plan' = [plan EXCEPT ![s].refs = refs, ![s].todo = {n \in Names : refs[n] # NoRef}]
  /\ UNCHANGED <<branchIdx, commitIdx, objects, memory, ghosts, refs, mirror, lock, op>>

(* Altered RebuiltHistory: believes any mirror it can read.                *)
MirroredHistory(s, n) ==
  IF mirror[n] # << >> /\ \A c \in Range(mirror[n]) : Object(c) \in objs
  THEN mirror[n] ELSE Chain(plan[s].refs[n].head)

(* The mirror is believed only if its last accepted commit is the head;    *)
(* otherwise the history is what can be reached from the head.             *)
RebuiltHistory(s, n) ==
  LET head == plan[s].refs[n].head
  IN  IF /\ mirror[n] # << >>
         /\ \A c \in Range(mirror[n]) : Object(c) \in objs
         /\ LatestAccepted(mirror[n]) = head
      THEN mirror[n] ELSE Chain(head)

RebuildBranch(s, n) ==
  LET hist == RebuiltHistory(s, n)
      ref  == plan[s].refs[n]
      ids  == Range(hist)
  IN  /\ pc[s] = "collect" /\ n \in plan[s].todo
      /\ \A c \in ids : Readable(c) /\ Materializable(c)
      /\ eventIdx' = eventIdx \cup {<<n, c>> : c \in ids}
      /\ graphIdx' = graphIdx \cup ids
      /\ worldIdx' = [worldIdx EXCEPT ![n] = ref.head]
      /\ indexFiles' = {"events", "graph", "world"}
      /\ plan' = [plan EXCEPT
            ![s].todo = @ \ {n},
            ![s].commits = @ \cup ids,
            ![s].branches[n] = [id |-> ref.id, head |-> ref.head, hist |-> hist]]
      /\ UNCHANGED <<branchIdx, commitIdx, objects, memory, ghosts, refs, mirror, lock, pc, op>>

RebuildCommits(s) ==
  /\ Goto(s, "collect", "replace")
  /\ plan[s].todo = {}
  /\ commitIdx' = plan[s].commits
  /\ UNCHANGED <<branchIdx, eventIdx, graphIdx, worldIdx, indexFiles, objects, memory,
                 ghosts, refs, mirror, lock, op, plan>>

RebuildBranches(s) ==
  /\ Goto(s, "replace", plan[s].then)
  /\ branchIdx' = plan[s].branches
  /\ plan' = [plan EXCEPT ![s] = [NoPlan EXCEPT !.torn = plan[s].torn]]
  /\ UNCHANGED <<commitIdx, eventIdx, graphIdx, worldIdx, indexFiles, objects, memory,
                 ghosts, refs, mirror, lock, op>>

(* Repository::recover and Repository::rebuild_indexes, under the lock.    *)
RecoverBegin(s) ==
  /\ Goto(s, "idle", "recover") /\ Acquire(s)
  /\ op' = [op EXCEPT ![s] = [NoOp EXCEPT !.kind = "repair"]]
  /\ UNCHANGED <<objects, indexes, memory, ghosts, refs, mirror, plan>>

RebuildBegin(s) ==
  /\ Goto(s, "idle", "rebuild") /\ Acquire(s)
  /\ Rebuild(s, "unlock")
  /\ op' = [op EXCEPT ![s] = [NoOp EXCEPT !.kind = "repair"]]
  /\ UNCHANGED <<objects, indexes, memory, ghosts, refs, mirror>>

-----------------------------------------------------------------------------
(***************************************************************************)
(* The three writing calls.  Each begins by taking the lock, materialising *)
(* what it needs and changing the session's memory; only then does it      *)
(* write.                                                                  *)
(***************************************************************************)
(* Altered Record: the commit does not name its parent.                    *)
OrphanRecord(parent, name, accepted, checkpoint, distance) ==
  [parent |-> NoCommit, branch |-> name, accepted |-> accepted,
   checkpoint |-> checkpoint, distance |-> distance, chain |-> <<Len(log) + 1>>]

Record(parent, name, accepted, checkpoint, distance) ==
  [parent |-> parent, branch |-> name, accepted |-> accepted,
   checkpoint |-> checkpoint, distance |-> distance,
   chain |-> Append(IF parent = NoCommit THEN << >> ELSE Chain(parent), Len(log) + 1)]

(* Repository::create_branch and WorldStore::create_branch; the genesis    *)
(* commit is a checkpoint.                                                 *)
CreateBegin(s, n) ==
  LET c  == Len(log) + 1
      id == nextId[s]
  IN  /\ Goto(s, "idle", "begin") /\ Acquire(s)
      /\ c <= MaxCommits
      /\ ~HasBranch(n) /\ ~IsLoaded(mem[s], n)
      /\ log' = Append(log, Record(NoCommit, n, TRUE, TRUE, 0))
      /\ mem' = [mem EXCEPT ![s] = Append(@, [name |-> n, id |-> id, head |-> c,
                                              hist |-> <<c>>, forced |-> FALSE])]
      /\ nextId' = [nextId EXCEPT ![s] = id + 1]
      /\ op' = [op EXCEPT ![s] = [kind |-> "create", asked |-> n, target |-> n, id |-> id,
                                  commit |-> c, head |-> c, hist |-> <<c>>]]
      /\ UNCHANGED <<objects, indexes, ghosts, refs, mirror, plan>>

(* Altered ShouldCheckpoint: one delta too late.                           *)
LateCheckpoint(distance, forced) == forced \/ distance > CheckpointEvery

(* should_checkpoint, with max_delta_chain at least every_n_commits.       *)
ShouldCheckpoint(distance, forced) == forced \/ distance >= CheckpointEvery

(* Repository::commit and WorldStore::commit.  The verdict of the laws is  *)
(* an input.  The branch that changes is the one Resolve finds, and the    *)
(* ref that will be written is that branch's; the history mirror and the   *)
(* event index use the name that was asked for.                            *)
CommitBegin(s, n, accepted) ==
  LET branches == Loaded(s, n)
      i        == Resolve(branches, n)
      branch   == branches[i]
      c        == Len(log) + 1
      parent   == branch.head
      distance == log[parent].distance + 1
      ckpt     == accepted /\ ShouldCheckpoint(distance, branch.forced)
      hist     == Append(branch.hist, c)
  IN  /\ Goto(s, "idle", "begin") /\ Acquire(s)
      /\ c <= MaxCommits
      /\ CanLoad(s, n)
      /\ log' = Append(log, Record(parent, branch.name, accepted, ckpt,
                                   IF ckpt THEN 0
                                   ELSE IF accepted THEN distance ELSE distance - 1))
      /\ mem' = [mem EXCEPT ![s] =
                   [branches EXCEPT ![i] =
                      [branch EXCEPT !.hist = hist,
                                     !.head = IF accepted THEN c ELSE parent,
                                     !.forced = branch.forced /\ ~accepted]]]
      /\ nextId' = [nextId EXCEPT ![s] = NextIdAfterLoad(s, n)]
      /\ op' = [op EXCEPT ![s] = [kind |-> "commit", asked |-> n, target |-> branch.name,
                                  id |-> branch.id, commit |-> c,
                                  head |-> IF accepted THEN c ELSE NoCommit, hist |-> hist]]
      /\ UNCHANGED <<objects, indexes, ghosts, refs, mirror, plan>>

(* Repository::fork and WorldStore::fork_with_id.  The new name is checked *)
(* against the session's memory only; the new id is one more than any id   *)
(* in the branch index.                                                    *)
ForkBegin(s, n, new) ==
  LET branches == Loaded(s, n)
      source   == branches[Resolve(branches, n)]
      used     == {branchIdx[m].id : m \in Names}
      id       == 1 + Max(used)
      known    == NextIdAfterLoad(s, n)
  IN  /\ Goto(s, "idle", "ref") /\ Acquire(s)
      /\ forks < MaxForks /\ forks' = forks + 1
      /\ CanLoad(s, n) /\ ~IsLoaded(branches, new)
      /\ mem' = [mem EXCEPT ![s] =
                   Append(branches, [name |-> new, id |-> id, head |-> source.head,
                                     hist |-> source.hist, forced |-> TRUE])]
      /\ nextId' = [nextId EXCEPT ![s] = IF known > id THEN known ELSE id + 1]
      /\ op' = [op EXCEPT ![s] = [kind |-> "fork", asked |-> new, target |-> new, id |-> id,
                                  commit |-> NoCommit, head |-> source.head,
                                  hist |-> source.hist]]
      /\ UNCHANGED <<log, objects, indexes, acked, crashes, refs, mirror, plan>>

(* Reading a branch (Repository::world) materialises it without the lock.  *)
Materialize(s, n) ==
  /\ pc[s] = "idle" /\ ~IsLoaded(mem[s], n) /\ CanMaterialize(n)
  /\ mem' = [mem EXCEPT ![s] = Loaded(s, n)]
  /\ nextId' = [nextId EXCEPT ![s] = NextIdAfterLoad(s, n)]
  /\ UNCHANGED <<log, objects, indexes, ghosts, refs, mirror, lock, pc, op, plan>>

-----------------------------------------------------------------------------
(***************************************************************************)
(* RepositoryTransactionWriter::write_commit, one durable write at a time. *)
(* A fork shares the last writes: its ref, branch and world index entries  *)
(* and its history mirror, outside the write-ahead log.                    *)
(***************************************************************************)
WriteBegin(s) ==
  /\ Goto(s, "begin", "payload")
  /\ wal' = "begun"
  /\ UNCHANGED <<objs, indexes, memory, ghosts, refs, mirror, lock, op, plan>>

Put(s, object, here, there) ==
  /\ Goto(s, here, there)
  /\ objs' = objs \cup {object}
  /\ UNCHANGED <<wal, indexes, memory, ghosts, refs, mirror, lock, op, plan>>

PutPayload(s) ==
  Put(s, Payload(op[s].commit), "payload",
      IF log[op[s].commit].checkpoint THEN "pages" ELSE "object")
(* Altered PutPages: the pages of the checkpoint stay in memory.           *)
SkipPages(s) ==
  /\ Goto(s, "pages", "object")
  /\ UNCHANGED <<objects, indexes, memory, ghosts, refs, mirror, lock, op, plan>>

PutPages(s)  == Put(s, Pages(op[s].commit), "pages", "object")
PutObject(s) == Put(s, Object(op[s].commit), "object", "commits")

IndexCommit(s) ==
  /\ Goto(s, "commits", "events")
  /\ commitIdx' = commitIdx \cup {op[s].commit}
  /\ UNCHANGED <<branchIdx, eventIdx, graphIdx, worldIdx, indexFiles, objects, memory,
                 ghosts, refs, mirror, lock, op, plan>>

IndexEvents(s) ==
  /\ Goto(s, "events", "graph")
  /\ eventIdx' = eventIdx \cup {<<op[s].asked, op[s].commit>>}
  /\ indexFiles' = indexFiles \cup {"events"}
  /\ UNCHANGED <<branchIdx, commitIdx, graphIdx, worldIdx, objects, memory,
                 ghosts, refs, mirror, lock, op, plan>>

IndexGraph(s) ==
  /\ Goto(s, "graph", IF op[s].head # NoCommit THEN "ref" ELSE "branch")
  /\ graphIdx' = graphIdx \cup {op[s].commit}
  /\ indexFiles' = indexFiles \cup {"graph"}
  /\ UNCHANGED <<branchIdx, commitIdx, eventIdx, worldIdx, objects, memory,
                 ghosts, refs, mirror, lock, op, plan>>

UpdateRef(s) ==
  /\ Goto(s, "ref", "branch")
  /\ refs' = [refs EXCEPT ![op[s].target] = [id |-> op[s].id, head |-> op[s].head]]
  /\ UNCHANGED <<objects, indexes, memory, ghosts, mirror, lock, op, plan>>

(* Altered UpdateBranchIndex: a rejected commit becomes the indexed head.  *)
IndexAnyHead(s) ==
  /\ Goto(s, "branch", IF op[s].head # NoCommit THEN "world" ELSE "mirror")
  /\ branchIdx' = [branchIdx EXCEPT ![op[s].target] =
                     [id |-> op[s].id, head |-> op[s].commit, hist |-> op[s].hist]]
  /\ UNCHANGED <<commitIdx, eventIdx, graphIdx, worldIdx, indexFiles, objects, memory,
                 ghosts, refs, mirror, lock, op, plan>>

(* A rejected commit only lengthens the history of the entry it finds.     *)
UpdateBranchIndex(s) ==
  /\ Goto(s, "branch", IF op[s].head # NoCommit THEN "world" ELSE "mirror")
  /\ branchIdx' =
       IF op[s].head # NoCommit
       THEN [branchIdx EXCEPT ![op[s].target] =
               [id |-> op[s].id, head |-> op[s].head, hist |-> op[s].hist]]
       ELSE IF branchIdx[op[s].asked] = NoBranch THEN branchIdx
       ELSE [branchIdx EXCEPT ![op[s].asked].hist = op[s].hist]
  /\ UNCHANGED <<commitIdx, eventIdx, graphIdx, worldIdx, indexFiles, objects, memory,
                 ghosts, refs, mirror, lock, op, plan>>

UpdateWorldIndex(s) ==
  /\ Goto(s, "world", "mirror")
  /\ worldIdx' = [worldIdx EXCEPT ![op[s].target] = op[s].head]
  /\ indexFiles' = indexFiles \cup {"world"}
  /\ UNCHANGED <<branchIdx, commitIdx, eventIdx, graphIdx, objects, memory,
                 ghosts, refs, mirror, lock, op, plan>>

WriteMirror(s) ==
  /\ Goto(s, "mirror", IF op[s].kind = "fork" THEN "unlock" ELSE "end")
  /\ mirror' = [mirror EXCEPT ![op[s].asked] = op[s].hist]
  /\ UNCHANGED <<objects, indexes, memory, ghosts, refs, lock, op, plan>>

(* Altered WriteEnd: appends the End entry and keeps the log.              *)
EndWithoutTruncate(s) ==
  /\ Goto(s, "end", "unlock")
  /\ wal' = "ended"
  /\ UNCHANGED <<objs, indexes, memory, ghosts, refs, mirror, lock, op, plan>>

WriteEnd(s) ==
  /\ Goto(s, "end", "unlock")
  /\ wal' = "empty"
  /\ UNCHANGED <<objs, indexes, memory, ghosts, refs, mirror, lock, op, plan>>

(* Altered Return: a call that did not commit keeps the lock.              *)
ReturnHolding(s) ==
  /\ Goto(s, "unlock", "idle")
  /\ lock' = IF op[s].commit # NoCommit THEN Free ELSE lock
  /\ acked' = IF op[s].commit # NoCommit
              THEN acked \cup {<<op[s].asked, op[s].commit>>} ELSE acked
  /\ op' = [op EXCEPT ![s] = NoOp]
  /\ UNCHANGED <<objects, indexes, memory, crashes, forks, refs, mirror, plan>>

(* The destructor of the lock runs and the call returns.                   *)
Return(s) ==
  /\ Goto(s, "unlock", "idle")
  /\ lock' = Free
  /\ acked' = IF op[s].commit # NoCommit
              THEN acked \cup {<<op[s].asked, op[s].commit>>} ELSE acked
  /\ op' = [op EXCEPT ![s] = NoOp]
  /\ UNCHANGED <<objects, indexes, memory, crashes, forks, refs, mirror, plan>>

-----------------------------------------------------------------------------
(***************************************************************************)
(* Process ends.  A crash loses the session's memory and nothing that was  *)
(* written; the lock file of a process that dies stays behind.             *)
(***************************************************************************)
Forget(s) ==
  /\ mem' = [mem EXCEPT ![s] = << >>]
  /\ nextId' = [nextId EXCEPT ![s] = 1]
  /\ op' = [op EXCEPT ![s] = NoOp]
  /\ plan' = [plan EXCEPT ![s] = NoPlan]

Close(s) ==
  /\ Goto(s, "idle", "down") /\ Forget(s)
  /\ UNCHANGED <<log, objects, indexes, ghosts, refs, mirror, lock>>

Crash(s) ==
  /\ pc[s] \notin {"down", "idle"} /\ crashes < MaxCrashes
  /\ pc' = [pc EXCEPT ![s] = "down"] /\ Forget(s)
  /\ lock' = IF lock = s THEN Stale ELSE lock
  /\ crashes' = crashes + 1
  /\ UNCHANGED <<log, objects, indexes, acked, forks, refs, mirror>>

(* No code removes a lock file left behind: an operator deletes it.        *)
ClearLock ==
  /\ lock = Stale /\ lock' = Free
  /\ UNCHANGED <<objects, indexes, memory, ghosts, refs, mirror, pc, op, plan>>

Step(s) ==
  \/ Recover(s) \/ Settle(s)
  \/ RebuildStart(s) \/ (\E n \in Names : RebuildBranch(s, n))
  \/ RebuildCommits(s) \/ RebuildBranches(s)
  \/ WriteBegin(s) \/ PutPayload(s) \/ PutPages(s) \/ PutObject(s)
  \/ IndexCommit(s) \/ IndexEvents(s) \/ IndexGraph(s)
  \/ UpdateRef(s) \/ UpdateBranchIndex(s) \/ UpdateWorldIndex(s)
  \/ WriteMirror(s) \/ WriteEnd(s) \/ Return(s)

Call(s) ==
  \/ Open(s) \/ Close(s) \/ RecoverBegin(s) \/ RebuildBegin(s)
  \/ \E n \in CreateNames : CreateBegin(s, n)
  \/ \E n \in Names, accepted \in BOOLEAN : CommitBegin(s, n, accepted)
  \/ \E n \in Names, new \in ForkNames : ForkBegin(s, n, new)
  \/ \E n \in Names : Materialize(s, n)

Next == (\E s \in Sessions : Call(s) \/ Step(s) \/ Crash(s)) \/ ClearLock

Spec == Init /\ [][Next]_vars

(* A call that has begun runs to its return unless the process dies: no    *)
(* handler waits for anything.                                             *)
FairSpec == Spec /\ \A s \in Sessions : WF_vars(Step(s))
=============================================================================

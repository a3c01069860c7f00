------------------------ MODULE RepositoryInvariant ------------------------
(***************************************************************************)
(* The inductive invariant of RepositoryStore: what is published is stored *)
(* (with all its ancestors), what a session holds in memory is stored or   *)
(* is the commit it is writing, and each step of a write knows what the    *)
(* steps before it left on disk.  On top of it: the checkpoint policy and  *)
(* the ancestry of commits, for any number of sessions; and the history of *)
(* the branches when one process has the repository to itself, as it may   *)
(* die and start again.                                                    *)
(***************************************************************************)
EXTENDS RepositoryProperties

WriterPcs == {"begin", "payload", "pages", "object", "commits", "events", "graph",
              "ref", "branch", "world", "mirror", "end", "unlock"}
PendingPcs == {"begin", "payload", "pages", "object"}
CommitPcs  == PendingPcs \cup {"commits", "events", "graph"}
EntryPcs   == CommitPcs \cup {"ref", "branch", "world", "mirror"}

(* Every object of commit d is on disk; so are those of all of c's chain.  *)
Held(d) ==
  /\ Payload(d) \in objs /\ Object(d) \in objs
  /\ log[d].checkpoint => Pages(d) \in objs
Stored(c) == c \in Commits /\ \A i \in DOMAIN Chain(c) : Held(Chain(c)[i])

(* The commit a session is writing, until its commit object is on disk.    *)
Pending(s) == IF pc[s] \in PendingPcs THEN op[s].commit ELSE NoCommit
StoredFor(s, c) == Stored(c) \/ (c \in Commits /\ c = Pending(s))

HasAccepted(hist) == \E i \in DOMAIN hist : log[hist[i]].accepted

(* Ids are handed out one at a time, by creations and forks.               *)
MaxId == Len(log) + forks
IdsBounded ==
  /\ \A n \in Names : refs[n].id <= MaxId /\ branchIdx[n].id <= MaxId
  /\ \A s \in Sessions :
       /\ nextId[s] <= MaxId + 1 /\ op[s].id <= MaxId
       /\ \A i \in DOMAIN mem[s] : mem[s][i].id <= MaxId
       /\ \A n \in Names :
            plan[s].refs[n].id <= MaxId /\ plan[s].branches[n].id <= MaxId

(* A chain ends in its commit, starts in a checkpoint, the genesis, and    *)
(* holds the chains of its members.                                        *)
ChainOK(c) ==
  /\ Chain(c) # << >>
  /\ Chain(c)[Len(Chain(c))] = c
  /\ \A i \in DOMAIN Chain(c) :
       Chain(c)[i] \in 1..c /\ Range(Chain(Chain(c)[i])) \subseteq Range(Chain(c))
  /\ log[Chain(c)[1]].checkpoint
LogOK == \A c \in Commits : ChainOK(c)

RefOK(ref) == ref = NoRef \/ (Stored(ref.head) /\ log[ref.head].accepted)
BranchOK(branch) ==
  branch = NoBranch \/
    /\ Stored(branch.head) /\ log[branch.head].accepted
    /\ \A i \in DOMAIN branch.hist : Stored(branch.hist[i])
    /\ HasAccepted(branch.hist)

DiskOK ==
  \A n \in Names :
    /\ RefOK(refs[n]) /\ BranchOK(branchIdx[n])
    /\ \A i \in DOMAIN mirror[n] : Stored(mirror[n][i])

MemoryOK(s) ==
  \A i \in DOMAIN mem[s] :
    /\ StoredFor(s, mem[s][i].head) /\ log[mem[s][i].head].accepted
    /\ \A j \in DOMAIN mem[s][i].hist : StoredFor(s, mem[s][i].hist[j])
    /\ HasAccepted(mem[s][i].hist)

(* What has been put before each write of a commit.                        *)
CommitOK(s) ==
  LET c == op[s].commit
  IN  /\ c \in Commits
      /\ \A i \in DOMAIN Chain(c) : i < Len(Chain(c)) => Held(Chain(c)[i])
      /\ pc[s] \in {"pages", "object"} => Payload(c) \in objs
      /\ pc[s] = "object" /\ log[c].checkpoint => Pages(c) \in objs
      /\ pc[s] \notin PendingPcs => Stored(c)

EntryOK(s) ==
  /\ op[s].asked \in Names /\ op[s].target \in Names
  /\ \A i \in DOMAIN op[s].hist : StoredFor(s, op[s].hist[i])
  /\ HasAccepted(op[s].hist)
  /\ op[s].head # NoCommit => StoredFor(s, op[s].head) /\ log[op[s].head].accepted
  /\ pc[s] \in {"ref", "world"} => op[s].head # NoCommit

OpOK(s) ==
  /\ pc[s] \in CommitPcs => CommitOK(s)
  /\ pc[s] \in EntryPcs => EntryOK(s)

PlanOK(s) ==
  /\ \A n \in Names : RefOK(plan[s].refs[n]) /\ BranchOK(plan[s].branches[n])
  /\ \A n \in plan[s].todo : plan[s].refs[n] # NoRef

LockOK(s) ==
  /\ pc[s] \in WriterPcs => lock = s
  /\ pc[s] \in {"rebuild", "collect", "replace"} /\ plan[s].then = "unlock" => lock = s

IInv ==
  /\ TypeOK /\ IdsBounded /\ LogOK /\ DiskOK
  /\ \A s \in Sessions : MemoryOK(s) /\ OpOK(s) /\ PlanOK(s) /\ LockOK(s)

-----------------------------------------------------------------------------
(* Checkpoints: an accepted commit that is d commits after a checkpoint    *)
(* knows it, and d is less than CheckpointEvery.                           *)
DistanceOK(c) ==
  LET d == log[c].distance
  IN  /\ d \in 0..(CheckpointEvery - 1) /\ d < Len(Chain(c))
      /\ log[Chain(c)[Len(Chain(c)) - d]].checkpoint

(* A commit's ancestors were computed before it, and all were accepted.    *)
LineageOK(c) ==
  /\ InOrder(Chain(c))
  /\ \A i \in DOMAIN Chain(c) : i < Len(Chain(c)) => log[Chain(c)[i]].accepted

CommitsOK == \A c \in Commits : LineageOK(c) /\ (log[c].accepted => DistanceOK(c))

-----------------------------------------------------------------------------
(* What the code leaves to its clients: WorldStore::create_branch gives an *)
(* id that no branch on disk has only if the session has materialised      *)
(* those with higher ids, and WorldStore::fork_with_id looks for the new   *)
(* name in the session's memory only.                                      *)
Careful ==
  \A s \in Sessions :
    /\ \A n \in CreateNames : CreateBegin(s, n) =>
         \A m \in Names : refs[m] # NoRef => refs[m].id # nextId[s]
    /\ \A n \in Names, new \in ForkNames : ForkBegin(s, n, new) => ~HasBranch(new)

(* The steps before a call moves the ref of its branch, those after it,    *)
(* and those of a rebuild.                                                 *)
BeforeRef  == CommitPcs \cup {"ref"}
AfterRef   == {"branch", "world", "mirror", "end", "unlock"}
RebuildPcs == {"rebuild", "collect", "replace"}

(* The ref a branch has, or will have when the call in progress has moved it. *)
NextRef(s, n) ==
  IF pc[s] \in BeforeRef /\ op[s].head # NoCommit /\ n = op[s].target
  THEN [id |-> op[s].id, head |-> op[s].head] ELSE refs[n]

DistinctIds(s) ==
  \A m, n \in Names :
    /\ NextRef(s, m) # NoRef /\ NextRef(s, n) # NoRef
    /\ NextRef(s, m).id = NextRef(s, n).id
    => m = n

(* The branches in memory are those of the refs, one for each name.        *)
MemoryAgrees(s) ==
  /\ \A i \in DOMAIN mem[s] :
       LET b == mem[s][i] IN
       [id |-> b.id, head |-> b.head] = NextRef(s, b.name) /\ Tells(b.hist, b.head)
  /\ \A i, j \in DOMAIN mem[s] : mem[s][i].name = mem[s][j].name => i = j

(* An indexed history tells the ancestry of its head, under the id of the  *)
(* ref; so does a mirror tell the ancestry of some commit.                 *)
IndexSelf ==
  \A n \in Names : branchIdx[n] # NoBranch =>
    branchIdx[n].id = refs[n].id /\ Tells(branchIdx[n].hist, branchIdx[n].head)
MirrorSelf == \A n \in Names : mirror[n] # << >> => \E x \in Commits : Tells(mirror[n], x)

(* In a repository that is open the index names the heads of the refs, but *)
(* for the branch whose ref has just been moved.                           *)
IndexAgrees(s) ==
  pc[s] \in WriterPcs \cup {"settle", "idle"} =>
    \A n \in Names :
      \/ branchIdx[n].head = refs[n].head
      \/ pc[s] = "branch" /\ op[s].head # NoCommit /\ n = op[s].target

(* A rebuild reads the refs as they are.                                   *)
PlanAgrees(s) ==
  /\ pc[s] \in RebuildPcs => plan[s].then # "idle"
  /\ pc[s] = "rebuild" => plan[s].branches = NoPlan.branches
  /\ pc[s] \in {"collect", "replace"} =>
       /\ plan[s].refs = refs
       /\ pc[s] = "replace" => plan[s].todo = {}
       /\ \A n \in Names \ plan[s].todo :
            LET b == plan[s].branches[n] IN
            /\ b.id = refs[n].id /\ b.head = refs[n].head
            /\ refs[n] # NoRef => Tells(b.hist, b.head)
            /\ refs[n] = NoRef => b = NoBranch

(* The log is begun only within a commit or after a crash in one, and a    *)
(* recovery that saw it begun empties it.                                  *)
LogSettled(s) ==
  /\ pc[s] \in {"idle", "begin", "unlock"} => wal = "empty"
  /\ pc[s] \in {"ref", "branch", "world", "mirror"} /\ op[s].kind = "fork" => wal = "empty"
  /\ pc[s] \in RebuildPcs /\ plan[s].then = "unlock" => wal = "empty"
  /\ pc[s] = "settle" \/ (pc[s] \in RebuildPcs /\ plan[s].then = "settle") =>
       (wal = "begun" <=> plan[s].torn)

(* A write begins at the head of the branch it is for: a creation or a     *)
(* fork where there is none, a commit with the next number on top of it.   *)
CommitExtends(s) ==
  /\ op[s].commit = Len(log) /\ \A n \in Names : refs[n].head < op[s].commit
  /\ op[s].head = IF log[op[s].commit].accepted THEN op[s].commit ELSE NoCommit
  /\ op[s].kind = "create" =>
       /\ op[s].head # NoCommit /\ refs[op[s].target] = NoRef
       /\ Chain(op[s].commit) = <<op[s].commit>>
  /\ op[s].kind = "commit" =>
       /\ refs[op[s].target] # NoRef /\ refs[op[s].target].id = op[s].id
       /\ op[s].head # NoCommit =>
            Chain(op[s].commit) = Append(Chain(refs[op[s].target].head), op[s].commit)

ForkCopies(s) ==
  /\ op[s].commit = NoCommit /\ refs[op[s].target] = NoRef
  /\ \E n \in Names : refs[n] # NoRef /\ refs[n].head = op[s].head

OpAgrees(s) ==
  /\ pc[s] \notin WriterPcs => op[s].commit = NoCommit
  /\ pc[s] \in WriterPcs \ {"unlock"} =>
       /\ op[s].asked = op[s].target /\ op[s].asked \in Names
       /\ op[s].kind \in {"create", "commit", "fork"}
       /\ op[s].head # NoCommit => Tells(op[s].hist, op[s].head)
       /\ \E x \in Commits : Tells(op[s].hist, x)
  /\ pc[s] \in BeforeRef \cup {"branch"} /\ op[s].head = NoCommit =>
       refs[op[s].asked] # NoRef /\ Tells(op[s].hist, refs[op[s].asked].head)
  /\ pc[s] \in BeforeRef /\ op[s].kind # "fork" => CommitExtends(s)
  /\ pc[s] \in BeforeRef /\ op[s].kind = "fork" => ForkCopies(s)
  /\ pc[s] \in {"branch", "world"} /\ op[s].head # NoCommit =>
       refs[op[s].target] = [id |-> op[s].id, head |-> op[s].head]
  /\ pc[s] \in AfterRef /\ op[s].commit # NoCommit =>
       /\ op[s].commit \in Commits /\ op[s].asked \in Names
       /\ log[op[s].commit].accepted => refs[op[s].asked].head = op[s].commit

(* An acknowledged commit is in the log; if it was accepted, it is in the  *)
(* ancestry of its branch's head.                                          *)
AckedOK ==
  \A call \in acked :
    LET n == call[1]  c == call[2]
    IN  /\ c \in Commits
        /\ log[c].accepted => n \in Names /\ refs[n] # NoRef /\ c \in Range(Chain(refs[n].head))

AloneInv(s) ==
  /\ Len(log) <= MaxCommits
  /\ DistinctIds(s) /\ MemoryAgrees(s) /\ IndexSelf /\ MirrorSelf /\ IndexAgrees(s)
  /\ PlanAgrees(s) /\ LogSettled(s) /\ OpAgrees(s) /\ AckedOK
=============================================================================

------------------------ MODULE RepositoryProperties ------------------------
(***************************************************************************)
(* What the repository should guarantee, stated over RepositoryStore.      *)
(***************************************************************************)
EXTENDS RepositoryStore

PcValues == {"down", "recover", "settle", "rebuild", "collect", "replace", "idle",
             "begin", "payload", "pages", "object", "commits", "events", "graph",
             "ref", "branch", "world", "mirror", "end", "unlock"}

CommitRecord == [parent : Nat, branch : Names, accepted : BOOLEAN, checkpoint : BOOLEAN,
                 distance : Int, chain : Seq(Nat)]
RefType      == [id : Nat, head : Nat]
BranchType   == [id : Nat, head : Nat, hist : Seq(Nat)]
MemoryType   == [name : Names, id : Nat, head : Nat, hist : Seq(Nat), forced : BOOLEAN]
OpType       == [kind : {"none", "repair", "create", "commit", "fork"},
                 asked : Names \cup {"none"}, target : Names \cup {"none"}, id : Nat,
                 commit : Nat, head : Nat, hist : Seq(Nat)]
PlanType     == [refs : [Names -> RefType], todo : SUBSET Names, commits : SUBSET Nat,
                 branches : [Names -> BranchType],
                 then : {"recover", "settle", "unlock", "idle"}, torn : BOOLEAN]

(* Every variable keeps its type.                                          *)
TypeOK ==
  /\ log \in Seq(CommitRecord)
  /\ objs \subseteq {"payload", "pages", "commit"} \X Nat
  /\ wal \in {"empty", "begun"}
  /\ refs \in [Names -> RefType]
  /\ branchIdx \in [Names -> BranchType]
  /\ commitIdx \subseteq Nat /\ eventIdx \subseteq Names \X Nat /\ graphIdx \subseteq Nat
  /\ worldIdx \in [Names -> Nat]
  /\ indexFiles \subseteq {"events", "graph", "world"}
  /\ mirror \in [Names -> Seq(Nat)]
  /\ lock \in Sessions \cup {Free, Stale}
  /\ pc \in [Sessions -> PcValues]
  /\ mem \in [Sessions -> Seq(MemoryType)]
  /\ nextId \in [Sessions -> Nat]
  /\ op \in [Sessions -> OpType]
  /\ plan \in [Sessions -> PlanType]
  /\ acked \subseteq (Names \cup {"none"}) \X Nat
  /\ crashes \in Nat /\ forks \in Nat

(* write_commit puts the objects of a commit before anything that names    *)
(* it, so that whatever is published, by a ref, by the branch index or by  *)
(* the history mirror a rebuild may believe, can be read back and its      *)
(* world materialised, whatever crashed and whoever else was writing.      *)
Published(n) ==
  ({refs[n].head, branchIdx[n].head} \ {NoCommit})
    \cup Range(branchIdx[n].hist) \cup Range(mirror[n])
PublishedReadable ==
  \A n \in Names : \A c \in Published(n) : Readable(c) /\ Materializable(c)

(* The accepted commits of an indexed history are the ancestry of its      *)
(* head, in order: the history kept in memory, the mirror, and the parent  *)
(* chain that a rebuild falls back to all tell the same story.  (Sequences *)
(* that are in order and have the same elements are the same.)             *)
InOrder(hist) == \A i, j \in DOMAIN hist : i < j => hist[i] < hist[j]
Tells(hist, x) ==
  /\ x \in Commits /\ \A i \in DOMAIN hist : hist[i] \in Commits
  /\ InOrder(hist) /\ InOrder(Chain(x))
  /\ {hist[i] : i \in {j \in DOMAIN hist : log[hist[j]].accepted}} = Range(Chain(x))
HistoryIsAncestry ==
  \A n \in Names : branchIdx[n] # NoBranch => Tells(branchIdx[n].hist, branchIdx[n].head)

(* The checkpoint policy: a published head is fewer than CheckpointEvery   *)
(* deltas away from a checkpoint, through forks and rejected commits too.  *)
DeltaChainBounded ==
  \A n \in Names : refs[n] # NoRef =>
    LET chain == Chain(refs[n].head)
    IN  \E i \in DOMAIN chain :
          log[chain[i]].checkpoint /\ Len(chain) - i < CheckpointEvery

(* A session that has opened the repository, and is not in a call, sees an *)
(* empty write-ahead log and a branch index that agrees with the refs:     *)
(* recovery repairs what a crash left (engine open, recover(true)).        *)
SettledWhenIdle ==
  \A s \in Sessions : pc[s] = "idle" => IndexesAgree /\ wal = "empty"

(* An accepted commit that was acknowledged stays in the ancestry of its   *)
(* branch's head, whatever crashes and rebuilds follow.                    *)
AcceptedKept ==
  \A call \in acked :
    LET n == call[1]  c == call[2]
    IN  log[c].accepted => refs[n] # NoRef /\ c \in Range(Chain(refs[n].head))

(* The write lock is held by a session in a writing call, by nobody, or by *)
(* a dead process; at most one session is between BeginCommit and Return.  *)
WriterHoldsLock ==
  \A s \in Sessions :
    pc[s] \in {"begin", "payload", "pages", "object", "commits", "events", "graph",
               "ref", "branch", "world", "mirror", "end", "unlock"} => lock = s

(* A call that took the lock gives it back or dies holding it: neither a   *)
(* write nor the rebuild loop can run for ever, and no rebuild stops at a  *)
(* branch it cannot read.                                                  *)
LockReleased == \A s \in Sessions : lock = s ~> lock # s

(* The repository implements BranchHistory: the ref of a branch stands for *)
(* the ancestry of its head.                                               *)
Abstract == INSTANCE BranchHistory WITH
  Ids <- 1..MaxCommits,
  accepted <- [n \in Names |-> IF refs[n] = NoRef THEN << >> ELSE Chain(refs[n].head)]
ImplementsHistory == Abstract!Spec
=============================================================================

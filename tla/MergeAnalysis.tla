---------------------------- MODULE MergeAnalysis ----------------------------
(***************************************************************************)
(* Comparing two branches (runtime/merge.cpp) over the commit graph        *)
(* (runtime/commit_graph.cpp) of a session: the branches a process has     *)
(* committed to or forked, and those it restored from the store, of which  *)
(* it has every record but only the snapshots since the last checkpoint    *)
(* (storage/snapshot_materializer.cpp).                                    *)
(*                                                                         *)
(* A commit is named by its place in the log.  Only accepted commits are   *)
(* here: a rejected one is in no path and has no snapshot.                 *)
(***************************************************************************)
EXTENDS WorldSnapshots

CONSTANTS Names,                 \* branches
          LawSets,               \* law_hash of a commit
          CheckpointEvery,       \* CheckpointPolicy::max_delta_chain
          MaxCommits             \* bound

VARIABLES log,                   \* the commits of the store
          refs,                  \* head of a branch, 0 for none
          session,               \* what this process has in memory
          answer                 \* of the last comparison, << >> for none
vars == <<log, refs, session, answer>>

NewSession == [loaded |-> {}, bound |-> {}, nodes |-> {}, forced |-> {}]
Branches == {n \in Names : refs[n] # 0}

-----------------------------------------------------------------------------
(* CommitGraph *)

\* path_to_root, as far as the graph has nodes.
PathIn(nodes, head) ==
  LET path[c \in 0..Len(log)] ==
        IF c \notin nodes THEN << >> ELSE <<c>> \o path[log[c].parent]
  IN path[head]

\* Mutant: the oldest shared commit.
OldestShared(nodes, left, right) ==
  LET shared == Range(PathIn(nodes, left)) \cap Range(PathIn(nodes, right))
      path == PathIn(nodes, right)
  IN IF shared = {} THEN << >>
     ELSE <<path[CHOOSE n \in DOMAIN path :
                   path[n] \in shared
                   /\ \A m \in DOMAIN path : path[m] \in shared => m <= n]>>

\* common_ancestor: the first of the right path that is on the left one.
CommonAncestor(nodes, left, right) ==
  LET shared == Range(PathIn(nodes, left)) \cap Range(PathIn(nodes, right))
      path == PathIn(nodes, right)
  IN IF shared = {} THEN << >>
     ELSE <<path[CHOOSE n \in DOMAIN path :
                   path[n] \in shared
                   /\ \A m \in DOMAIN path : path[m] \in shared => n <= m]>>

-----------------------------------------------------------------------------
(* Sessions *)

\* materialize_accepted_chain_to: the last checkpoint and what follows it.
RestoredSnapshots(head) ==
  LET path == PathIn(DOMAIN log, head)
      last == CHOOSE n \in DOMAIN path :
                /\ log[path[n]].checkpoint
                /\ \A m \in 1..(n - 1) : ~log[path[m]].checkpoint
  IN {path[n] : n \in 1..last}

\* Repository::ensure_materialized and WorldStore::restore_branch.
Loaded(s, n) ==
  IF n \in s.loaded THEN s
  ELSE [s EXCEPT !.loaded = @ \cup {n},
                 !.nodes = @ \cup Range(PathIn(DOMAIN log, refs[n])),
                 !.bound = @ \cup RestoredSnapshots(refs[n])]

Extended(s, n, c) ==
  [s EXCEPT !.loaded = @ \cup {n}, !.nodes = @ \cup {c},
            !.bound = @ \cup {c}, !.forced = @ \ {n}]

-----------------------------------------------------------------------------
(* The analysis *)

None == <<"none">>
ObjectAt(snap, n) ==
  IF n \in DOMAIN snap.objects THEN <<snap.objects[n]>> ELSE << >>
PointerAt(snap, n) ==
  IF n \in DOMAIN snap.pointers
  THEN LET p == snap.pointers[n]
       IN <<p.from, p.to, p.relation, p.weight, p.born, p.expires, p.domain>>
  ELSE None
TypeName(snap, object) == [n \in DOMAIN object |-> snap.types[object[n].type]]
ExistenceOf(object) == [n \in DOMAIN object |-> object[n].existence]

\* Types are compared by name, and attributes not at all.
ObjectConflicts(left, right) ==
  {n \in DOMAIN left.objects \cup DOMAIN right.objects :
     LET l == ObjectAt(left, n)
         r == ObjectAt(right, n)
     IN \/ TypeName(left, l) # TypeName(right, r)
        \/ ExistenceOf(l) # ExistenceOf(r)}

\* Relations are compared by id.
PointerConflicts(ancestor, left, right) ==
  {n \in DOMAIN left.pointers \cup DOMAIN right.pointers :
     /\ PointerAt(left, n) # PointerAt(right, n)
     /\ PointerAt(left, n) # PointerAt(ancestor, n)
     /\ PointerAt(right, n) # PointerAt(ancestor, n)}

\* first_after_ancestor; 0 for none.
FirstAfter(nodes, ancestor, head) ==
  LET path == PathIn(nodes, head)
      n == CHOOSE i \in DOMAIN path : path[i] = ancestor
  IN IF head = ancestor THEN 0 ELSE path[n - 1]

Divergent == [status |-> "DivergentHistory", ancestor |-> 0, left |-> 0,
              right |-> 0, objects |-> {}, pointers |-> {}, drift |-> FALSE]
\* snapshots().materialize throws.
Thrown == [Divergent EXCEPT !.status = "thrown"]

\* analyze_merge, of a session that has loaded both branches.
Analyze(s, left, right) ==
  LET l == refs[left]
      r == refs[right]
      common == CommonAncestor(s.nodes, l, r)
      a == common[1]
      objects == ObjectConflicts(log[l].snap, log[r].snap)
      pointers == PointerConflicts(log[a].snap, log[l].snap, log[r].snap)
      drift == log[l].laws # log[r].laws
  IN IF common = << >> THEN Divergent
     ELSE IF a \notin s.bound THEN Thrown
     ELSE [status |-> IF objects = {} /\ pointers = {} /\ ~drift
                      THEN "Clean" ELSE "Conflict",
           ancestor |-> a,
           left |-> FirstAfter(s.nodes, a, l),
           right |-> FirstAfter(s.nodes, a, r),
           objects |-> objects, pointers |-> pointers, drift |-> drift]

\* The commits of the breakpoints of branch_divergence_breakpoints, in a
\* session that has loaded every branch; one failed analysis fails it all.
Divergences(s, n) ==
  LET found == {Analyze(s, n, other) : other \in Branches \ {n}}
  IN IF Thrown \in found THEN << >> ELSE <<{f.left : f \in found} \ {0}>>

-----------------------------------------------------------------------------
(* Commits *)

ObjectDelta(snap, name, type) ==
  LET interned == type \in Range(snap.types)
      id == IF interned
            THEN CHOOSE t \in DOMAIN snap.types : snap.types[t] = type
            ELSE NextSymbol(snap.types)
  IN (IF interned THEN << >>
      ELSE <<[kind |-> "InternType", id |-> id, name |-> type]>>)
     \o <<[kind |-> "CreateObject", temp |-> 1, name |-> name, type |-> id,
           existence |-> "Alive", attrs |-> << >>]>>
TypeDelta(snap, n, type) ==
  LET interned == type \in Range(snap.types)
      id == IF interned
            THEN CHOOSE t \in DOMAIN snap.types : snap.types[t] = type
            ELSE NextSymbol(snap.types)
  IN (IF interned THEN << >>
      ELSE <<[kind |-> "InternType", id |-> id, name |-> type]>>)
     \o <<[kind |-> "SetObjectType", object |-> IdRef(n), type |-> id]>>
LinkDelta(snap) ==
  (IF "causes" \in Range(snap.relations) THEN << >>
   ELSE <<[kind |-> "InternRelation", id |-> NextSymbol(snap.relations),
           name |-> "causes"]>>)
  \o <<[kind |-> "CreatePointer", from |-> IdRef(1), to |-> IdRef(1),
        relation |-> 1, weight |-> 1, domain |-> "d", attrs |-> << >>]>>
WeightDelta(n) == <<[kind |-> "SetPointerWeight", id |-> n, weight |-> 2]>>

Deltas(snap) ==
  {ObjectDelta(snap, "B", "Region")}
    \cup {TypeDelta(snap, 1, "Region"), LinkDelta(snap)}
    \cup {WeightDelta(n) : n \in DOMAIN snap.pointers}

Genesis(snap) ==
  [parent |-> 0, checkpoint |-> TRUE, distance |-> 0, snap |-> snap,
   laws |-> "none"]
Seed == After(EmptySnapshot, ObjectDelta(EmptySnapshot, "A", "Node"))

Init == /\ log = << >> /\ refs = [n \in Names |-> 0]
        /\ session = NewSession /\ answer = << >>

Room == Len(log) < MaxCommits
Quiet == answer' = << >>

\* Repository::create_branch; the worlds of two branches share nothing.
Create(n) ==
  /\ Room /\ n \notin Branches
  /\ log' = Append(log, Genesis(Seed))
  /\ refs' = [refs EXCEPT ![n] = Len(log) + 1]
  /\ session' = Extended(session, n, Len(log) + 1)
  /\ Quiet

\* Repository::commit of a transaction the laws accept.
Commit(n) ==
  /\ Room /\ n \in Branches
  /\ LET s == Loaded(session, n)
         head == log[refs[n]]
         distance == head.distance + 1
         checkpoint == n \in s.forced \/ distance >= CheckpointEvery
     IN \E delta \in Deltas(head.snap), laws \in LawSets :
          /\ OverlayAccepts(head.snap, delta)
          /\ log' = Append(log,
                      [parent |-> refs[n], checkpoint |-> checkpoint,
                       distance |-> IF checkpoint THEN 0 ELSE distance,
                       snap |-> After(head.snap, delta), laws |-> laws])
          /\ session' = Extended(s, n, Len(log) + 1)
  /\ refs' = [refs EXCEPT ![n] = Len(log) + 1]
  /\ Quiet

\* Repository::fork: the first commit of the fork is a checkpoint when this
\* process makes it.
Fork(n, new) ==
  /\ n \in Branches /\ new \notin Branches
  /\ refs' = [refs EXCEPT ![new] = refs[n]]
  /\ session' = [Loaded(session, n) EXCEPT !.loaded = @ \cup {new},
                                           !.forced = @ \cup {new}]
  /\ Quiet /\ UNCHANGED log

\* The process ends and another one opens the repository.
Reopen ==
  /\ session # NewSession
  /\ session' = NewSession /\ Quiet /\ UNCHANGED <<log, refs>>

\* Repository::analyze_merge
Compare(left, right) ==
  /\ left \in Branches /\ right \in Branches
  /\ session' = Loaded(Loaded(session, left), right)
  /\ answer' = <<left, right, Analyze(session', left, right)>>
  /\ UNCHANGED <<log, refs>>

Next == \/ \E n \in Names : Create(n) \/ Commit(n)
        \/ \E n, m \in Names : Fork(n, m) \/ Compare(n, m)
        \/ Reopen
Spec == Init /\ [][Next]_vars

-----------------------------------------------------------------------------
(* Properties *)

Ancestors(c) == Range(PathIn(DOMAIN log, c))
Answered == answer # << >> /\ answer[3].status \notin {"thrown", "DivergentHistory"}

\* The common ancestor is the last commit the two branches share: each
\* commit in both histories is one of its ancestors.
AncestorIsLatest ==
  answer # << >> =>
    LET shared == Ancestors(refs[answer[1]]) \cap Ancestors(refs[answer[2]])
    IN /\ (answer[3].status = "DivergentHistory") <=> (shared = {})
       /\ Answered => shared = Ancestors(answer[3].ancestor)

\* The divergence of a side is the first commit that is its own and not of
\* the other branch, and there is none exactly when the other branch has
\* all of its commits.
DivergenceIsFirst ==
  Answered =>
    LET Own(n, m) == Ancestors(refs[answer[n]]) \ Ancestors(refs[answer[m]])
        IsFirst(c, own) == IF own = {} THEN c = 0
                           ELSE c \in own /\ own = {d \in own : c \in Ancestors(d)}
    IN /\ IsFirst(answer[3].left, Own(1, 2))
       /\ IsFirst(answer[3].right, Own(2, 1))

\* A finder that has loaded every branch has a breakpoint for each branch
\* that lacks commits of this one: the first of them.
FinderNamesDivergences ==
  session.loaded = Branches =>
    \A n, m \in Branches :
      LET own == Ancestors(refs[n]) \ Ancestors(refs[m])
          found == Divergences(session, n)
      IN found # << >> /\ own # {} /\ own # Ancestors(refs[n]) =>
           \E c \in own \cap found[1] : log[c].parent \in Ancestors(refs[m])

\* What a comparison says does not depend on what the process has done
\* before: any session that answers gives the answer of one that has
\* everything in memory.
AnswersAgree ==
  answer # << >> /\ answer[3].status # "thrown" =>
    answer[3] = Analyze([session EXCEPT !.nodes = DOMAIN log,
                                        !.bound = DOMAIN log],
                        answer[1], answer[2])

\* A branch that only went on from the head of another has no pointer in
\* conflict with it, whatever it did to its pointers.
ForwardKeepsPointers ==
  Answered /\ answer[3].ancestor \in {refs[answer[1]], refs[answer[2]]} =>
    answer[3].pointers = {}

\* The two sides see the same: conflicts are those of the mirrored question.
ComparisonIsSymmetric ==
  Answered =>
    LET mirrored == Analyze(session, answer[2], answer[1])
    IN mirrored = [answer[3] EXCEPT !.left = answer[3].right,
                                    !.right = answer[3].left]

\* Two branches with a common history can be compared (README.md:182), also
\* by a process that has just opened the repository.
CompareAnswers == answer # << >> => answer[3].status # "thrown"
=============================================================================

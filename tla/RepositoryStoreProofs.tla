----------------------- MODULE RepositoryStoreProofs -----------------------
(***************************************************************************)
(* Proofs about RepositoryStore for every set of sessions and names and    *)
(* every bound.  First the inductive invariant of RepositoryInvariant, and *)
(* with it the type invariant, the mutual exclusion of writers and the     *)
(* readability of everything published.  Then the history of branches: the *)
(* checkpoint policy, for any number of sessions; and, when one careful    *)
(* process has the repository to itself, that recovery settles it, that    *)
(* acknowledged commits are kept, that every index tells the ancestry of   *)
(* the refs, and that it implements BranchHistory.                         *)
(***************************************************************************)
EXTENDS RepositoryInvariant, TLAPS, NaturalsInduction, WellFoundedInduction, SequenceTheorems

(* A non-empty set of naturals has a least element.                        *)
LEMMA LeastExists ==
  ASSUME NEW S \in SUBSET Nat, S # {}
  PROVE  \E x \in S : \A y \in S : x <= y
<1>1. \E x \in S : \A y \in S : ~(<<y, x>> \in OpToRel(<, Nat))
  BY NatLessThanWellFounded, WFMin
<1>2. PICK x \in S : \A y \in S : ~(<<y, x>> \in OpToRel(<, Nat))
  BY <1>1
<1>3. \A y \in S : ~(y < x)
  BY <1>2 DEF OpToRel
<1> QED BY <1>3

(* A non-empty bounded set of naturals has a greatest element.             *)
LEMMA GreatestExists ==
  ASSUME NEW S \in SUBSET Nat, S # {}, NEW b \in Nat, \A x \in S : x <= b
  PROVE  \E x \in S : \A y \in S : y <= x
<1> DEFINE T == {b - x : x \in S}
<1>1. T \in SUBSET Nat /\ T # {}
  <2>1. \A x \in S : b - x \in Nat
    OBVIOUS
  <2>2. PICK x \in S : TRUE
    OBVIOUS
  <2>3. b - x \in T
    BY <2>2
  <2> QED BY <2>1, <2>3
<1>2. PICK t \in T : \A u \in T : t <= u
  BY <1>1, LeastExists
<1>3. PICK x \in S : t = b - x
  OBVIOUS
<1>4. \A y \in S : b - x <= b - y
  BY <1>2, <1>3
<1>5. \A y \in S : y <= x
  BY <1>4
<1> QED BY <1>5

(* Min picks a member: Resolve finds the first branch of a given id.       *)
LEMMA MinIn ==
  ASSUME NEW S \in SUBSET Nat, S # {}
  PROVE  Min(S) \in S
BY LeastExists DEF Min

(* Max of a bounded set picks a member: the last accepted commit of a      *)
(* history, the greatest id in the branch index.                           *)
LEMMA MaxIn ==
  ASSUME NEW S \in SUBSET Nat, S # {}, NEW b \in Nat, \A x \in S : x <= b
  PROVE  Max(S) \in S
<1>1. PICK x \in S : \A y \in S : y <= x
  BY GreatestExists
<1>2. \A y \in S : x >= y
  BY <1>1
<1> QED BY <1>2 DEF Max

(* LatestAccepted of a history with an accepted commit is an accepted      *)
(* commit of that history.                                                 *)
LEMMA LatestAcceptedIn ==
  ASSUME NEW hist \in Seq(Nat), HasAccepted(hist)
  PROVE  \E i \in DOMAIN hist :
           LatestAccepted(hist) = hist[i] /\ log[hist[i]].accepted
<1> DEFINE taken == {i \in DOMAIN hist : log[hist[i]].accepted}
<1>1. taken \in SUBSET Nat /\ taken # {} /\ \A i \in taken : i <= Len(hist)
  BY DEF HasAccepted
<1>2. Max(taken) \in taken
  <2> HIDE DEF taken
  <2>1. Len(hist) \in Nat
    OBVIOUS
  <2> QED BY <1>1, <2>1, MaxIn
<1> QED BY <1>1, <1>2 DEF LatestAccepted

(* A history whose latest accepted commit is a real commit has one.        *)
LEMMA LatestAcceptedHas ==
  ASSUME NEW hist \in Seq(Nat), LatestAccepted(hist) # NoCommit
  PROVE  HasAccepted(hist)
BY DEF LatestAccepted, HasAccepted

(* Resolve picks a branch in memory.                                       *)
LEMMA ResolveIn ==
  ASSUME NEW branches \in Seq(MemoryType), NEW n \in Names, IsLoaded(branches, n)
  PROVE  Resolve(branches, n) \in DOMAIN branches
<1> DEFINE named == {i \in DOMAIN branches : branches[i].name = n}
           byName == Min(named)
           same == {i \in DOMAIN branches : branches[i].id = branches[byName].id}
<1>1. named \in SUBSET Nat /\ named # {}
  BY DEF IsLoaded
<1>2. byName \in named
  BY <1>1, MinIn
<1>3. same \in SUBSET Nat /\ same # {}
  <2> HIDE DEF byName
  <2>1. byName \in DOMAIN branches
    BY <1>2
  <2>2. byName \in same
    BY <2>1
  <2>3. DOMAIN branches \subseteq Nat
    OBVIOUS
  <2> QED BY <2>2, <2>3
<1>4. Min(same) \in same
  BY <1>3, MinIn
<1> QED BY <1>4 DEF Resolve

-----------------------------------------------------------------------------
(* Small facts about the records that sessions keep.                       *)
LEMMA NoPlanType == NoPlan \in PlanType
BY DEF NoPlan, PlanType, NoRef, NoBranch, RefType, BranchType, NoCommit

(* A session between two calls has a well-typed operation record: what Return *)
(* and Forget leave behind.                                                *)
LEMMA NoOpType == NoOp \in OpType
BY DEF NoOp, OpType, NoCommit

(* The plan that Open, Recover and RebuildBegin start a rebuild with is well *)
(* typed.                                                                  *)
LEMMA FreshPlanType ==
  ASSUME NEW then \in {"recover", "settle", "unlock", "idle"}, NEW torn \in BOOLEAN
  PROVE  [NoPlan EXCEPT !.then = then, !.torn = torn] \in PlanType
BY NoPlanType DEF PlanType

(* Recover only records in the plan whether the log was torn.              *)
LEMMA TornPlanType ==
  ASSUME NEW p \in PlanType
  PROVE  /\ p.torn \in BOOLEAN
         /\ \A torn \in BOOLEAN : [p EXCEPT !.torn = torn] \in PlanType
BY DEF PlanType

(* RebuildBranches drops the plan but keeps whether the log was torn.      *)
LEMMA TornNoPlanType ==
  ASSUME NEW torn \in BOOLEAN
  PROVE  [NoPlan EXCEPT !.torn = torn] \in PlanType
BY NoPlanType, TornPlanType

(* Repository::recover and rebuild_indexes start with a well-typed operation. *)
LEMMA RepairType == [NoOp EXCEPT !.kind = "repair"] \in OpType
BY NoOpType DEF OpType

(* Whether a commit is pending does not matter to a session that is idle.  *)
LEMMA IdleStored ==
  ASSUME NEW s \in Sessions, pc[s] \notin PendingPcs, NEW c, StoredFor(s, c)
  PROVE  Stored(c)
BY DEF StoredFor, Pending, NoCommit, Commits

(* The chain of a commit in the log consists of commits in the log.        *)
LEMMA ChainIn ==
  ASSUME TypeOK, LogOK, NEW c \in Commits
  PROVE  /\ Len(log) \in Nat /\ c \in 1..Len(log)
         /\ log[c] \in CommitRecord /\ Chain(c) \in Seq(Nat)
         /\ Len(Chain(c)) \in Nat \ {0}
         /\ \A i \in DOMAIN Chain(c) : Chain(c)[i] \in Commits
         /\ c \in Range(Chain(c))
<1>1. Len(log) \in Nat /\ c \in 1..Len(log) /\ log[c] \in CommitRecord
  BY DEF TypeOK, Commits
<1>2. Chain(c) \in Seq(Nat)
  BY <1>1 DEF CommitRecord, Chain
<1>3. Chain(c) # << >> /\ Chain(c)[Len(Chain(c))] = c
      /\ \A i \in DOMAIN Chain(c) : Chain(c)[i] \in 1..c
  BY DEF LogOK, ChainOK
<1>4. Len(Chain(c)) \in Nat \ {0} /\ DOMAIN Chain(c) = 1..Len(Chain(c))
  BY <1>2, <1>3, EmptySeq, LenProperties
<1>5. \A i \in DOMAIN Chain(c) : Chain(c)[i] \in Commits
  BY <1>1, <1>3 DEF Commits
<1>6. c \in Range(Chain(c))
  BY <1>3, <1>4 DEF Range
<1> QED BY <1>1, <1>2, <1>4, <1>5, <1>6

(* A stored commit and its ancestors can be read.                          *)
LEMMA StoredMaterializable ==
  ASSUME TypeOK, LogOK, NEW c, Stored(c)
  PROVE  Readable(c) /\ Materializable(c)
<1> DEFINE chain == Chain(c)
           taken == {i \in DOMAIN chain : log[chain[i]].checkpoint}
<1>1. c \in Commits /\ \A i \in DOMAIN chain : Held(chain[i])
  BY DEF Stored
<1>2. /\ chain \in Seq(Nat) /\ c \in Range(chain) /\ chain # << >>
      /\ log[chain[1]].checkpoint
  BY <1>1, ChainIn DEF LogOK, ChainOK
<1>3. DOMAIN chain = 1..Len(chain) /\ Len(chain) \in Nat \ {0}
  BY <1>2, LenProperties, EmptySeq
<1>4. Readable(c)
  BY <1>1, <1>2 DEF Readable, Held, Range
<1>5. \E i \in taken : \A j \in taken : j <= i
  <2>1. taken \in SUBSET Nat /\ taken # {} /\ \A i \in taken : i <= Len(chain)
    BY <1>2, <1>3
  <2> HIDE DEF taken
  <2> QED BY <2>1, <1>3, GreatestExists
<1>6. PICK i \in taken : \A j \in taken : j <= i
  BY <1>5
<1>7. \A j \in DOMAIN chain : j > i => ~log[chain[j]].checkpoint
  BY <1>3, <1>6
<1>8. Pages(chain[i]) \in objs
      /\ \A j \in DOMAIN chain : Payload(chain[j]) \in objs
      /\ \A d \in Range(chain) : Object(d) \in objs
  BY <1>1, <1>6 DEF Held, Range
<1> QED BY <1>4, <1>6, <1>7, <1>8 DEF Materializable

(* What materialising a branch gives: a memory of the right type, whose    *)
(* branches are all stored, that contains the branch.                      *)
LEMMA LoadedOK ==
  ASSUME IInv, NEW s \in Sessions, NEW n \in Names, pc[s] = "idle", CanLoad(s, n)
  PROVE  LET branches == Loaded(s, n)
         IN  /\ branches \in Seq(MemoryType)
             /\ IsLoaded(branches, n)
             /\ \A i \in DOMAIN branches :
                  /\ Stored(branches[i].head) /\ log[branches[i].head].accepted
                  /\ \A j \in DOMAIN branches[i].hist : Stored(branches[i].hist[j])
                  /\ HasAccepted(branches[i].hist)
                  /\ branches[i].id <= MaxId
             /\ NextIdAfterLoad(s, n) \in Nat
             /\ NextIdAfterLoad(s, n) <= MaxId + 1
<1> DEFINE entry == [name |-> n, id |-> branchIdx[n].id,
                     head |-> LatestAccepted(branchIdx[n].hist),
                     hist |-> branchIdx[n].hist, forced |-> FALSE]
           Good(b) == /\ Stored(b.head) /\ log[b.head].accepted
                      /\ \A j \in DOMAIN b.hist : Stored(b.hist[j])
                      /\ HasAccepted(b.hist)
                      /\ b.id <= MaxId
<1>1. mem[s] \in Seq(MemoryType) /\ nextId[s] \in Nat /\ branchIdx[n] \in BranchType
  BY DEF IInv, TypeOK
<1>2. \A i \in DOMAIN mem[s] : Good(mem[s][i])
  <2>1. \A c : StoredFor(s, c) => Stored(c)
    BY IdleStored DEF PendingPcs
  <2> QED BY <2>1 DEF IInv, MemoryOK, IdsBounded
<1>3. nextId[s] <= MaxId + 1 /\ branchIdx[n].id <= MaxId
  BY DEF IInv, IdsBounded
<1>4. branchIdx[n].id \in Nat /\ branchIdx[n].hist \in Seq(Nat)
  BY <1>1 DEF BranchType
<1>5. MaxId \in Nat
  BY DEF IInv, TypeOK, MaxId
<1>6. NextIdAfterLoad(s, n) \in Nat /\ NextIdAfterLoad(s, n) <= MaxId + 1
  BY <1>1, <1>3, <1>4, <1>5 DEF NextIdAfterLoad
<1>7. CASE IsLoaded(mem[s], n)
  BY <1>1, <1>2, <1>6, <1>7 DEF Loaded
<1>8. CASE ~IsLoaded(mem[s], n)
  <2>1. branchIdx[n] # NoBranch
    BY <1>8 DEF CanLoad, CanMaterialize
  <2>2. BranchOK(branchIdx[n])
    BY DEF IInv, DiskOK
  <2>3. /\ \A j \in DOMAIN branchIdx[n].hist : Stored(branchIdx[n].hist[j])
        /\ HasAccepted(branchIdx[n].hist)
    BY <2>1, <2>2 DEF BranchOK
  <2>4. PICK k \in DOMAIN branchIdx[n].hist :
          /\ LatestAccepted(branchIdx[n].hist) = branchIdx[n].hist[k]
          /\ log[branchIdx[n].hist[k]].accepted
    BY <1>4, <2>3, LatestAcceptedIn
  <2>5. branchIdx[n].hist[k] \in Nat
    BY <1>4
  <2>6. entry \in MemoryType
    BY <1>4, <2>4, <2>5 DEF MemoryType
  <2>7. Good(entry)
    BY <1>3, <2>3, <2>4
  <2>8. Loaded(s, n) = Append(mem[s], entry)
    BY <1>8 DEF Loaded
  <2>9. entry.name = n
    OBVIOUS
  <2> HIDE DEF entry, Good
  <2>10. /\ Append(mem[s], entry) \in Seq(MemoryType)
         /\ DOMAIN Append(mem[s], entry) = 1..(Len(mem[s]) + 1)
         /\ Append(mem[s], entry)[Len(mem[s]) + 1] = entry
         /\ \A i \in 1..Len(mem[s]) : Append(mem[s], entry)[i] = mem[s][i]
         /\ DOMAIN mem[s] = 1..Len(mem[s]) /\ Len(mem[s]) \in Nat
    BY <1>1, <2>6
  <2>11. \A i \in DOMAIN Append(mem[s], entry) : Good(Append(mem[s], entry)[i])
    BY <1>2, <2>7, <2>10
  <2>12. IsLoaded(Append(mem[s], entry), n)
    BY <2>9, <2>10 DEF IsLoaded
  <2>13. QED BY <1>6, <2>8, <2>10, <2>11, <2>12 DEF Good
<1> QED BY <1>7, <1>8

(* The history a rebuild settles on: a sequence of stored commits that     *)
(* contains an accepted one.                                               *)
LEMMA RebuiltOK ==
  ASSUME IInv, NEW s \in Sessions, NEW n \in Names, n \in plan[s].todo
  PROVE  LET hist == RebuiltHistory(s, n)
         IN  /\ hist \in Seq(Nat)
             /\ \A i \in DOMAIN hist : Stored(hist[i])
             /\ HasAccepted(hist)
             /\ plan[s].refs[n] \in RefType
             /\ Stored(plan[s].refs[n].head) /\ log[plan[s].refs[n].head].accepted
<1> DEFINE head == plan[s].refs[n].head
<1>1. plan[s].refs[n] \in RefType /\ Stored(head) /\ log[head].accepted
  <2>1. plan[s] \in PlanType
    BY DEF IInv, TypeOK
  <2>2. plan[s].refs[n] # NoRef /\ RefOK(plan[s].refs[n])
    BY DEF IInv, PlanOK
  <2> QED BY <2>1, <2>2 DEF PlanType, RefOK
<1>2. head \in Commits
  BY <1>1 DEF Stored
<1> HIDE DEF head
<1>3. /\ Chain(head) \in Seq(Nat) /\ head \in Range(Chain(head))
      /\ \A i \in DOMAIN Chain(head) : Chain(head)[i] \in Commits
  BY <1>2, ChainIn DEF IInv
<1>4. CASE RebuiltHistory(s, n) = mirror[n] /\ LatestAccepted(mirror[n]) = head
  <2>1. mirror[n] \in Seq(Nat) /\ \A i \in DOMAIN mirror[n] : Stored(mirror[n][i])
    BY DEF IInv, TypeOK, DiskOK
  <2>2. head # NoCommit
    BY <1>2 DEF Commits, NoCommit
  <2>3. HasAccepted(mirror[n])
    BY <2>1, <2>2, <1>4, LatestAcceptedHas
  <2> QED BY <1>1, <1>4, <2>1, <2>3 DEF head
<1>5. CASE RebuiltHistory(s, n) = Chain(head)
  <2>1. \A i \in DOMAIN Chain(head) : Stored(Chain(head)[i])
    <3> SUFFICES ASSUME NEW i \in DOMAIN Chain(head) PROVE Stored(Chain(head)[i])
      OBVIOUS
    <3> DEFINE d == Chain(head)[i]
    <3>1. d \in Commits /\ Range(Chain(d)) \subseteq Range(Chain(head))
      BY <1>2, <1>3 DEF IInv, LogOK, ChainOK
    <3>2. \A e \in Range(Chain(head)) : Held(e)
      BY <1>1 DEF Stored, Range, head
    <3>3. \A j \in DOMAIN Chain(d) : Chain(d)[j] \in Range(Chain(d))
      BY DEF Range
    <3> QED BY <3>1, <3>2, <3>3 DEF Stored
  <2>2. HasAccepted(Chain(head))
    BY <1>1, <1>3 DEF HasAccepted, Range, head
  <2> QED BY <1>1, <1>3, <1>5, <2>1, <2>2 DEF head
<1> QED BY <1>4, <1>5 DEF RebuiltHistory, head

-----------------------------------------------------------------------------
(* What steps do to the content table and the object store: both only grow.*)
LEMMA ContentGrows ==
  ASSUME [Next]_vars
  PROVE  objs \subseteq objs' /\ (log' = log \/ \E r : log' = Append(log, r))
<1>1. CASE UNCHANGED vars
  BY <1>1 DEF vars
<1>2. ASSUME NEW s \in Sessions, Call(s)
      PROVE  objs \subseteq objs' /\ (log' = log \/ \E r : log' = Append(log, r))
  <2>1. CASE Open(s) \/ Close(s) \/ RecoverBegin(s) \/ RebuildBegin(s)
    BY <2>1 DEF Open, Close, RecoverBegin, RebuildBegin, objects, memory
  <2>2. ASSUME NEW n \in CreateNames, CreateBegin(s, n)
        PROVE  objs' = objs /\ \E r : log' = Append(log, r)
    BY <2>2 DEF CreateBegin, objects
  <2>3. ASSUME NEW n \in Names, NEW accepted \in BOOLEAN, CommitBegin(s, n, accepted)
        PROVE  objs' = objs /\ \E r : log' = Append(log, r)
    BY <2>3, Zenon DEF CommitBegin, objects
  <2>4. ASSUME NEW n \in Names, NEW new \in ForkNames, ForkBegin(s, n, new)
        PROVE  objs' = objs /\ log' = log
    BY <2>4, Zenon DEF ForkBegin, objects
  <2>5. ASSUME NEW n \in Names, Materialize(s, n) PROVE objs' = objs /\ log' = log
    BY <2>5 DEF Materialize, objects
  <2> QED BY <1>2, <2>1, <2>2, <2>3, <2>4, <2>5 DEF Call
<1>3. ASSUME NEW s \in Sessions, Step(s) PROVE objs \subseteq objs' /\ log' = log
  BY <1>3 DEF Step, Recover, Settle, RebuildStart, RebuildBranch, RebuildCommits,
              RebuildBranches, WriteBegin, PutPayload, PutPages, PutObject, Put, IndexCommit,
              IndexEvents, IndexGraph, UpdateRef, UpdateBranchIndex, UpdateWorldIndex,
              WriteMirror, WriteEnd, Return, objects, memory
<1>4. ASSUME NEW s \in Sessions, Crash(s) PROVE objs \subseteq objs' /\ log' = log
  BY <1>4 DEF Crash, objects
<1>5. CASE ClearLock
  BY <1>5 DEF ClearLock, objects, memory
<1> QED BY <1>1, <1>2, <1>3, <1>4, <1>5 DEF Next

(* What was stored, or accepted, stays so.                                 *)
LEMMA StoredStays ==
  ASSUME IInv, [Next]_vars
  PROVE  /\ Len(log) \in Nat /\ Len(log') \in Nat /\ Len(log) <= Len(log')
         /\ \A c \in Commits : c \in Commits' /\ log'[c] = log[c]
         /\ \A c : Stored(c) => Stored(c)'
         /\ \A hist : (\A i \in DOMAIN hist : hist[i] \in Commits) /\ HasAccepted(hist)
                        => HasAccepted(hist)'
<1>0. log \in Seq(CommitRecord)
  BY DEF IInv, TypeOK
<1>1. /\ Len(log) \in Nat /\ Len(log') \in Nat /\ Len(log) <= Len(log')
      /\ \A c \in 1..Len(log) : log'[c] = log[c]
  BY <1>0, ContentGrows
<1>2. \A c \in Commits : c \in Commits' /\ log'[c] = log[c]
  BY <1>1 DEF Commits
<1>3. ASSUME NEW c, Stored(c) PROVE Stored(c)'
  <2>1. c \in Commits /\ Chain(c)' = Chain(c)
    BY <1>2, <1>3 DEF Stored, Chain
  <2>2. \A i \in DOMAIN Chain(c) : Chain(c)[i] \in Commits
    BY <2>1, ChainIn DEF IInv
  <2>3. ASSUME NEW d \in Commits, Held(d) PROVE Held(d)'
    BY <2>3, <1>2, ContentGrows DEF Held, Payload, Object, Pages
  <2> QED BY <1>2, <1>3, <2>1, <2>2, <2>3 DEF Stored
<1>4. ASSUME NEW hist, \A i \in DOMAIN hist : hist[i] \in Commits, HasAccepted(hist)
      PROVE  HasAccepted(hist)'
  BY <1>2, <1>4 DEF HasAccepted
<1> QED BY <1>1, <1>2, <1>3, <1>4

(* Which steps change the refs, the branch index and the mirrors.          *)
LEMMA DiskFrame ==
  ASSUME [Next]_vars
  PROVE  \/ UNCHANGED <<refs, branchIdx, mirror>>
         \/ \E s \in Sessions : \/ UpdateRef(s) \/ UpdateBranchIndex(s)
                                \/ WriteMirror(s) \/ RebuildBranches(s)
<1>1. CASE UNCHANGED vars
  BY <1>1 DEF vars
<1>2. ASSUME NEW s \in Sessions, Call(s) PROVE UNCHANGED <<refs, branchIdx, mirror>>
  BY <1>2 DEF Call, Open, Close, RecoverBegin, RebuildBegin, CreateBegin, CommitBegin,
              ForkBegin, Materialize, indexes
<1>3. ASSUME NEW s \in Sessions, Step(s)
      PROVE  \/ UNCHANGED <<refs, branchIdx, mirror>>
             \/ UpdateRef(s) \/ UpdateBranchIndex(s) \/ WriteMirror(s) \/ RebuildBranches(s)
  BY <1>3 DEF Step, Recover, Settle, RebuildStart, RebuildBranch, RebuildCommits,
              WriteBegin, PutPayload, PutPages, PutObject, Put, IndexCommit,
              IndexEvents, IndexGraph, UpdateWorldIndex, WriteEnd, Return, indexes
<1>4. ASSUME NEW s \in Sessions, Crash(s) PROVE UNCHANGED <<refs, branchIdx, mirror>>
  BY <1>4 DEF Crash, indexes
<1>5. CASE ClearLock
  BY <1>5 DEF ClearLock, indexes
<1> QED BY <1>1, <1>2, <1>3, <1>4, <1>5 DEF Next

(* No step of any session makes a ref or a branch index entry unreadable:  *)
(* objects are only added, and commits never change.                       *)
LEMMA EntriesStay ==
  ASSUME IInv, [Next]_vars
  PROVE  /\ \A ref : RefOK(ref) => RefOK(ref)'
         /\ \A branch : BranchOK(branch) => BranchOK(branch)'
<1>1. ASSUME NEW c, Stored(c), log[c].accepted PROVE Stored(c)' /\ log'[c].accepted
  BY <1>1, StoredStays DEF Stored
<1>2. ASSUME NEW ref, RefOK(ref) PROVE RefOK(ref)'
  BY <1>1, <1>2 DEF RefOK
<1>3. ASSUME NEW branch, BranchOK(branch) PROVE BranchOK(branch)'
  <2>1. CASE branch = NoBranch
    BY <2>1 DEF BranchOK
  <2>2. CASE branch # NoBranch
    <3>1. /\ Stored(branch.head) /\ log[branch.head].accepted
          /\ \A i \in DOMAIN branch.hist : Stored(branch.hist[i])
          /\ HasAccepted(branch.hist)
      BY <1>3, <2>2 DEF BranchOK
    <3>2. \A i \in DOMAIN branch.hist : branch.hist[i] \in Commits
      BY <3>1 DEF Stored
    <3>3. HasAccepted(branch.hist)'
      BY <3>1, <3>2, StoredStays
    <3>4. \A i \in DOMAIN branch.hist : Stored(branch.hist[i])'
      BY <3>1, StoredStays
    <3> QED BY <1>1, <3>1, <3>3, <3>4 DEF BranchOK
  <2> QED BY <2>1, <2>2
<1> QED BY <1>2, <1>3

(* What the operation of a session past its commit object may publish.     *)
LEMMA EntryStored ==
  ASSUME IInv, NEW s \in Sessions, pc[s] \in {"ref", "branch", "world", "mirror"}
  PROVE  /\ op[s] \in OpType /\ op[s].asked \in Names /\ op[s].target \in Names
         /\ \A i \in DOMAIN op[s].hist : Stored(op[s].hist[i])
         /\ HasAccepted(op[s].hist)
         /\ op[s].head # NoCommit => Stored(op[s].head) /\ log[op[s].head].accepted
         /\ pc[s] \in {"ref", "world"} => op[s].head # NoCommit
<1>1. EntryOK(s)
  BY DEF IInv, OpOK, EntryPcs
<1>2. \A c : StoredFor(s, c) => Stored(c)
  BY IdleStored DEF PendingPcs
<1>3. op[s] \in OpType
  BY DEF IInv, TypeOK
<1> QED BY <1>1, <1>2, <1>3 DEF EntryOK

(* Refs, branch index and mirrors name stored commits only.                *)
LEMMA DiskStep ==
  ASSUME IInv, [Next]_vars
  PROVE  DiskOK'
<1>0. /\ refs \in [Names -> RefType] /\ branchIdx \in [Names -> BranchType]
      /\ mirror \in [Names -> Seq(Nat)]
  BY DEF IInv, TypeOK
<1> DEFINE RefsGood == \A n \in Names : RefOK(refs[n])'
           BranchesGood == \A n \in Names : BranchOK(branchIdx[n])'
           MirrorsGood == \A n \in Names : \A i \in DOMAIN mirror'[n] : Stored(mirror[n][i])'
<1>2. (refs' = refs) => RefsGood
  BY EntriesStay DEF IInv, DiskOK
<1>3. (branchIdx' = branchIdx) => BranchesGood
  BY EntriesStay DEF IInv, DiskOK
<1>4. (mirror' = mirror) => MirrorsGood
  BY StoredStays DEF IInv, DiskOK
<1>5. CASE UNCHANGED <<refs, branchIdx, mirror>>
  BY <1>2, <1>3, <1>4, <1>5 DEF DiskOK
<1>6. ASSUME NEW s \in Sessions, UpdateRef(s) PROVE DiskOK'
  <2>1. /\ UNCHANGED <<branchIdx, mirror>> /\ pc[s] = "ref"
        /\ refs' = [refs EXCEPT ![op[s].target] = [id |-> op[s].id, head |-> op[s].head]]
    BY <1>6 DEF UpdateRef, Goto, indexes
  <2>2. RefOK([id |-> op[s].id, head |-> op[s].head])
    BY <2>1, EntryStored DEF RefOK
  <2>3. RefsGood
    <3> SUFFICES ASSUME NEW n \in Names PROVE RefOK(refs[n])'
      OBVIOUS
    <3>1. refs'[n] = refs[n] \/ refs'[n] = [id |-> op[s].id, head |-> op[s].head]
      BY <1>0, <2>1
    <3>2. RefOK(refs'[n])
      BY <2>2, <3>1 DEF IInv, DiskOK
    <3> QED BY <3>2, EntriesStay
  <2> QED BY <1>3, <1>4, <2>1, <2>3 DEF DiskOK
<1>7. ASSUME NEW s \in Sessions, UpdateBranchIndex(s) PROVE DiskOK'
  <2>1. UNCHANGED <<refs, mirror>> /\ pc[s] = "branch"
    BY <1>7 DEF UpdateBranchIndex, Goto
  <2>2. ASSUME NEW n \in Names PROVE BranchOK(branchIdx'[n])
    <3> DEFINE entry == [id |-> op[s].id, head |-> op[s].head, hist |-> op[s].hist]
    <3>1. BranchOK(branchIdx[n])
      BY DEF IInv, DiskOK
    <3>2. CASE op[s].head # NoCommit
      <4>1. BranchOK(entry)
        BY <2>1, <3>2, EntryStored DEF BranchOK
      <4>2. branchIdx'[n] = branchIdx[n] \/ branchIdx'[n] = entry
        BY <1>0, <1>7, <3>2 DEF UpdateBranchIndex
      <4> QED BY <3>1, <4>1, <4>2
    <3>3. CASE op[s].head = NoCommit
      <4>1. \/ branchIdx'[n] = branchIdx[n]
            \/ /\ branchIdx[n] # NoBranch
               /\ branchIdx'[n] = [branchIdx[n] EXCEPT !.hist = op[s].hist]
        BY <1>0, <1>7, <3>3 DEF UpdateBranchIndex
      <4>2. CASE branchIdx'[n] = branchIdx[n]
        BY <3>1, <4>2
      <4>3. CASE /\ branchIdx[n] # NoBranch
                 /\ branchIdx'[n] = [branchIdx[n] EXCEPT !.hist = op[s].hist]
        <5>1. branchIdx'[n].head = branchIdx[n].head /\ branchIdx'[n].hist = op[s].hist
          BY <1>0, <4>3 DEF BranchType
        <5>2. Stored(branchIdx[n].head) /\ log[branchIdx[n].head].accepted
          BY <3>1, <4>3 DEF BranchOK
        <5> QED BY <2>1, <5>1, <5>2, EntryStored DEF BranchOK
      <4> QED BY <4>1, <4>2, <4>3
    <3> QED BY <3>2, <3>3
  <2>3. BranchesGood
    BY <2>2, EntriesStay
  <2> QED BY <1>2, <1>4, <2>1, <2>3 DEF DiskOK
<1>8. ASSUME NEW s \in Sessions, WriteMirror(s) PROVE DiskOK'
  <2>1. /\ UNCHANGED <<refs, branchIdx>> /\ pc[s] = "mirror"
        /\ mirror' = [mirror EXCEPT ![op[s].asked] = op[s].hist]
    BY <1>8 DEF WriteMirror, Goto, indexes
  <2>2. \A n \in Names : mirror'[n] = mirror[n] \/ mirror'[n] = op[s].hist
    BY <1>0, <2>1
  <2>3. \A n \in Names : \A i \in DOMAIN mirror'[n] : Stored(mirror'[n][i])
    BY <2>1, <2>2, EntryStored DEF IInv, DiskOK
  <2>4. MirrorsGood
    BY <2>3, StoredStays
  <2> QED BY <1>2, <1>3, <2>1, <2>4 DEF DiskOK
<1>9. ASSUME NEW s \in Sessions, RebuildBranches(s) PROVE DiskOK'
  <2>1. UNCHANGED <<refs, mirror>> /\ branchIdx' = plan[s].branches
    BY <1>9 DEF RebuildBranches
  <2>2. \A n \in Names : BranchOK(branchIdx'[n])
    BY <2>1 DEF IInv, PlanOK
  <2>3. BranchesGood
    BY <2>2, EntriesStay
  <2> QED BY <1>2, <1>4, <2>1, <2>3 DEF DiskOK
<1> QED BY <1>5, <1>6, <1>7, <1>8, <1>9, DiskFrame

-----------------------------------------------------------------------------
(* The chain of a new commit's record consists of naturals.                *)
LEMMA NewChain ==
  ASSUME TypeOK, LogOK, NEW parent \in Commits \cup {NoCommit}
  PROVE  Append(IF parent = NoCommit THEN << >> ELSE Chain(parent), Len(log) + 1) \in Seq(Nat)
<1>1. Len(log) + 1 \in Nat
  BY DEF TypeOK
<1>2. parent \in Commits => Chain(parent) \in Seq(Nat)
  BY ChainIn
<1> QED BY <1>1, <1>2

(* Appending the record of a new commit c keeps the content table sound.   *)
LEMMA NewCommit ==
  ASSUME TypeOK, LogOK, NEW new \in CommitRecord,
         new.parent \in Commits \cup {NoCommit},
         new.parent = NoCommit => new.checkpoint,
         NEW c, c = Len(log) + 1,
         new.chain = Append(IF new.parent = NoCommit THEN << >> ELSE Chain(new.parent), c),
         log' = Append(log, new)
  PROVE  /\ log' \in Seq(CommitRecord) /\ LogOK'
         /\ Len(log') = c /\ c \in Commits' /\ c \in Nat /\ log'[c] = new
         /\ Len(new.chain) \in Nat \ {0} /\ DOMAIN new.chain = 1..Len(new.chain)
         /\ new.chain[Len(new.chain)] = c
         /\ \A i \in 1..(Len(new.chain) - 1) :
              new.parent # NoCommit /\ i \in DOMAIN Chain(new.parent)
              /\ new.chain[i] = Chain(new.parent)[i]
<1>0. log \in Seq(CommitRecord) /\ Len(log) \in Nat /\ c \in Nat
  BY DEF TypeOK
<1> DEFINE parent == new.parent
<1>1. PICK base : base = IF parent = NoCommit THEN << >> ELSE Chain(parent)
  OBVIOUS
<1>2. /\ base \in Seq(Nat)
      /\ \A i \in DOMAIN base : base[i] \in Commits
      /\ parent # NoCommit =>
           /\ base # << >> /\ log[base[1]].checkpoint /\ base = Chain(parent)
           /\ \A i \in DOMAIN base : Range(Chain(base[i])) \subseteq Range(base)
  <2>1. CASE parent = NoCommit
    BY <1>1, <2>1
  <2>2. CASE parent # NoCommit
    <3>1. parent \in Commits
      BY <2>2
    <3>2. base = Chain(parent)
      BY <1>1, <2>2
    <3> QED BY <2>2, <3>1, <3>2, ChainIn DEF LogOK, ChainOK
  <2> QED BY <2>1, <2>2
<1>3. PICK chain : chain = Append(base, c)
  OBVIOUS
<1>4. /\ chain \in Seq(Nat) /\ Len(chain) = Len(base) + 1 /\ Len(base) \in Nat
      /\ DOMAIN base = 1..Len(base) /\ DOMAIN chain = 1..Len(chain)
      /\ chain[Len(chain)] = c
      /\ \A i \in 1..Len(base) : chain[i] = base[i]
  BY <1>0, <1>2, <1>3
<1>5. new.chain = chain
  BY <1>1, <1>3
<1>8. /\ log' \in Seq(CommitRecord) /\ Len(log') = c
      /\ log'[c] = new /\ \A d \in Commits : log'[d] = log[d]
  BY <1>0 DEF Commits
<1>9. c \in Commits' /\ Commits' = Commits \cup {c} /\ c \notin Commits
  BY <1>0, <1>8 DEF Commits
<1>10. log'[c].chain = chain
  BY <1>5, <1>8
<1>11. ChainOK(c)'
  <2>1. chain # << >> /\ \A i \in DOMAIN chain : chain[i] \in 1..c
    <3>1. chain # << >>
      BY <1>4
    <3>2. \A i \in 1..Len(base) : chain[i] \in 1..c
      <4>1. \A i \in 1..Len(base) : chain[i] \in 1..Len(log)
        BY <1>2, <1>4 DEF Commits
      <4>2. 1..Len(log) \subseteq 1..c
        BY <1>0
      <4> QED BY <4>1, <4>2
    <3>3. \A i \in DOMAIN chain : i \in 1..Len(base) \/ i = Len(chain)
      BY <1>4
    <3>4. c \in 1..c
      BY <1>0
    <3> QED BY <1>4, <3>1, <3>2, <3>3, <3>4
  <2>2. log'[chain[1]].checkpoint
    <3>1. CASE parent = NoCommit
      <4>1. Len(chain) = 1
        BY <1>1, <1>4, <3>1
      <4>2. chain[1] = c
        BY <1>4, <4>1
      <4> QED BY <1>8, <3>1, <4>2
    <3>2. CASE parent # NoCommit
      <4>1. 1 \in 1..Len(base)
        BY <1>2, <1>4, <3>2, EmptySeq
      <4> QED BY <1>2, <1>4, <1>8, <3>2, <4>1
    <3> QED BY <3>1, <3>2
  <2>3. ASSUME NEW i \in DOMAIN chain PROVE Range(log'[chain[i]].chain) \subseteq Range(chain)
    <3>1. Range(base) \subseteq Range(chain)
      BY <1>4 DEF Range
    <3>2. CASE i = Len(chain)
      BY <1>4, <1>10, <3>2
    <3>3. CASE i # Len(chain)
      <4>1. i \in 1..Len(base) /\ chain[i] = base[i] /\ base[i] \in Commits
        BY <1>2, <1>4, <3>3
      <4>2. parent # NoCommit
        BY <1>1, <4>1
      <4>3. log'[chain[i]].chain = Chain(base[i])
        BY <1>8, <4>1 DEF Chain
      <4> QED BY <1>2, <1>4, <3>1, <4>1, <4>2, <4>3
    <3> QED BY <3>2, <3>3
  <2> DEFINE its == log'[c].chain
  <2>4. /\ its # << >> /\ its[Len(its)] = c
        /\ \A i \in DOMAIN its :
             its[i] \in 1..c /\ Range(log'[its[i]].chain) \subseteq Range(its)
        /\ log'[its[1]].checkpoint
    BY <1>4, <1>10, <2>1, <2>2, <2>3
  <2> QED BY <2>4 DEF ChainOK, Chain, Range
<1>12. ASSUME NEW d \in Commits PROVE ChainOK(d)'
  <2>1. \A i \in DOMAIN Chain(d) : Chain(d)[i] \in Commits
    BY ChainIn
  <2>2. 1 \in DOMAIN Chain(d)
    <3>1. Chain(d) \in Seq(Nat) /\ Len(Chain(d)) \in Nat \ {0}
      BY ChainIn
    <3>2. DOMAIN Chain(d) = 1..Len(Chain(d))
      BY <3>1, LenProperties
    <3> QED BY <3>1, <3>2
  <2>3. ChainOK(d)
    BY DEF LogOK
  <2>4. PICK its : its = log'[d].chain
    OBVIOUS
  <2>5. its = Chain(d) /\ \A i \in DOMAIN its : log'[its[i]].chain = Chain(its[i])
    BY <1>8, <2>1, <2>4 DEF Chain
  <2>6. log'[its[1]] = log[its[1]]
    BY <1>8, <2>1, <2>2, <2>5
  <2>7. ASSUME NEW i \in DOMAIN its
        PROVE  its[i] \in 1..d /\ Range(log'[its[i]].chain) \subseteq Range(its)
    <3>1. log'[its[i]].chain = Chain(its[i])
      BY <2>5
    <3>2. its[i] \in 1..d /\ Range(Chain(its[i])) \subseteq Range(its)
      BY <2>3, <2>5 DEF ChainOK
    <3> QED BY <3>1, <3>2
  <2>8. /\ its # << >> /\ its[Len(its)] = d
        /\ log'[its[1]].checkpoint
    BY <2>3, <2>5, <2>6 DEF ChainOK
  <2> DEFINE after == log'[d].chain
  <2>9. /\ after # << >> /\ after[Len(after)] = d
        /\ \A i \in DOMAIN after :
             after[i] \in 1..d /\ Range(log'[after[i]].chain) \subseteq Range(after)
        /\ log'[after[1]].checkpoint
    BY <2>4, <2>7, <2>8
  <2> QED BY <2>9 DEF ChainOK, Chain, Range
<1>13. LogOK'
  BY <1>9, <1>11, <1>12 DEF LogOK
<1>14. \A i \in 1..(Len(chain) - 1) : parent # NoCommit /\ i \in DOMAIN Chain(parent)
                                     /\ chain[i] = Chain(parent)[i]
  <2> SUFFICES ASSUME NEW i \in 1..(Len(chain) - 1)
               PROVE  parent # NoCommit /\ i \in DOMAIN Chain(parent)
                      /\ chain[i] = Chain(parent)[i]
    OBVIOUS
  <2>1. i \in 1..Len(base) /\ i \in DOMAIN base
    BY <1>4
  <2>2. parent # NoCommit
    BY <1>1, <2>1
  <2> QED BY <1>2, <1>4, <2>1, <2>2
<1>15. Len(chain) \in Nat \ {0}
  BY <1>4
<1> QED BY <1>0, <1>4, <1>5, <1>8, <1>9, <1>13, <1>14, <1>15

(* The branch that a commit extends.                                       *)
LEMMA CommitBase ==
  ASSUME IInv, NEW s \in Sessions, NEW n \in Names, pc[s] = "idle", CanLoad(s, n)
  PROVE  LET branches == Loaded(s, n)
             i == Resolve(branches, n)
             branch == branches[i]
         IN  /\ i \in DOMAIN branches /\ branches \in Seq(MemoryType)
             /\ branch \in MemoryType
             /\ branch.name \in Names /\ branch.id \in Nat /\ branch.hist \in Seq(Nat)
             /\ branch.forced \in BOOLEAN /\ branch.head \in Nat
             /\ branch.head \in Commits /\ log[branch.head].distance \in Int
             /\ branch.id <= MaxId
             /\ Stored(branch.head) /\ log[branch.head].accepted
             /\ \A j \in DOMAIN branch.hist : Stored(branch.hist[j])
             /\ HasAccepted(branch.hist)
<1>1. PICK branches : branches = Loaded(s, n)
  OBVIOUS
<1>2. /\ branches \in Seq(MemoryType) /\ IsLoaded(branches, n)
      /\ \A i \in DOMAIN branches :
           /\ Stored(branches[i].head) /\ log[branches[i].head].accepted
           /\ \A j \in DOMAIN branches[i].hist : Stored(branches[i].hist[j])
           /\ HasAccepted(branches[i].hist)
           /\ branches[i].id <= MaxId
  BY <1>1, LoadedOK
<1>3. PICK i : i = Resolve(branches, n)
  OBVIOUS
<1>4. i \in DOMAIN branches
  BY <1>2, <1>3, ResolveIn
<1>5. branches[i] \in MemoryType
  BY <1>2, <1>4
<1>6. /\ branches[i].name \in Names /\ branches[i].id \in Nat
      /\ branches[i].hist \in Seq(Nat) /\ branches[i].forced \in BOOLEAN
      /\ branches[i].head \in Nat
  BY <1>5 DEF MemoryType
<1>7. branches[i].head \in Commits
  BY <1>2, <1>4 DEF Stored
<1>8. log[branches[i].head].distance \in Int
  BY <1>7, ChainIn DEF IInv, CommitRecord
<1> QED BY <1>1, <1>2, <1>3, <1>4, <1>5, <1>6, <1>7, <1>8

(* A memory with one more branch, or with one branch changed.              *)
LEMMA MemoryAppend ==
  ASSUME NEW branches \in Seq(MemoryType), NEW entry \in MemoryType
  PROVE  /\ Append(branches, entry) \in Seq(MemoryType)
         /\ \A i \in DOMAIN Append(branches, entry) :
              \/ Append(branches, entry)[i] = entry
              \/ \E j \in DOMAIN branches : Append(branches, entry)[i] = branches[j]
OBVIOUS

(* Changing one materialised branch, as WorldStore::commit does, leaves the *)
(* others alone.                                                           *)
LEMMA MemoryChange ==
  ASSUME NEW branches \in Seq(MemoryType), NEW entry \in MemoryType, NEW i \in DOMAIN branches
  PROVE  /\ [branches EXCEPT ![i] = entry] \in Seq(MemoryType)
         /\ \A j \in DOMAIN [branches EXCEPT ![i] = entry] :
              \/ [branches EXCEPT ![i] = entry][j] = entry
              \/ j \in DOMAIN branches /\ [branches EXCEPT ![i] = entry][j] = branches[j]
OBVIOUS

(* A history with one more commit.                                         *)
LEMMA HistoryAppend ==
  ASSUME NEW hist \in Seq(Nat), NEW c \in Nat
  PROVE  /\ Append(hist, c) \in Seq(Nat)
         /\ DOMAIN Append(hist, c) = 1..(Len(hist) + 1) /\ DOMAIN hist = 1..Len(hist)
         /\ Len(hist) \in Nat
         /\ \A i \in DOMAIN hist : Append(hist, c)[i] = hist[i]
         /\ Append(hist, c)[Len(hist) + 1] = c
OBVIOUS

-----------------------------------------------------------------------------
(* The calls that begin a write.                                           *)
BranchGood(branch) ==
  /\ Stored(branch.head) /\ log[branch.head].accepted
  /\ \A j \in DOMAIN branch.hist : Stored(branch.hist[j])
  /\ HasAccepted(branch.hist)

(* What a stored branch may rely on stays true.                            *)
LEMMA GoodStays ==
  ASSUME IInv, [Next]_vars, NEW s \in Sessions, NEW branch, BranchGood(branch)
  PROVE  /\ StoredFor(s, branch.head)' /\ log'[branch.head].accepted
         /\ \A j \in DOMAIN branch.hist : StoredFor(s, branch.hist[j])'
         /\ HasAccepted(branch.hist)'
<1>1. Stored(branch.head)' /\ log'[branch.head].accepted
  BY StoredStays DEF BranchGood, Stored
<1>2. \A j \in DOMAIN branch.hist : Stored(branch.hist[j])'
  BY StoredStays DEF BranchGood
<1>3. \A j \in DOMAIN branch.hist : branch.hist[j] \in Commits
  BY DEF BranchGood, Stored
<1>4. HasAccepted(branch.hist)'
  BY <1>3, StoredStays DEF BranchGood
<1> QED BY <1>1, <1>2, <1>4 DEF StoredFor

(* A session's memory is what it holds afterwards, branch by branch.       *)
LEMMA MemoryFrom ==
  ASSUME NEW s \in Sessions, NEW branches, mem'[s] = branches,
         \A i \in DOMAIN branches :
           /\ StoredFor(s, branches[i].head)' /\ log'[branches[i].head].accepted
           /\ \A j \in DOMAIN branches[i].hist : StoredFor(s, branches[i].hist[j])'
           /\ HasAccepted(branches[i].hist)'
  PROVE  MemoryOK(s)'
BY DEF MemoryOK, StoredFor, HasAccepted, Stored, Held, Pending, Chain

(* What every begun write establishes for its session.                     *)
Begun(s, branches, next, doing) ==
  /\ pc[s] = "idle" /\ lock = Free /\ lock' = s
  /\ pc' = [pc EXCEPT ![s] = IF doing.kind = "fork" THEN "ref" ELSE "begin"]
  /\ UNCHANGED <<objs, wal, indexes, acked, crashes, refs, mirror, plan>>
  /\ log' \in Seq(CommitRecord) /\ LogOK'
  /\ mem' = [mem EXCEPT ![s] = branches] /\ branches \in Seq(MemoryType)
  /\ nextId' = [nextId EXCEPT ![s] = next] /\ next \in Nat
  /\ op' = [op EXCEPT ![s] = doing] /\ doing \in OpType
  /\ forks' \in Nat /\ MaxId' \in Nat /\ MaxId <= MaxId'
  /\ next <= MaxId' + 1 /\ doing.id <= MaxId'
  /\ \A i \in DOMAIN branches : branches[i].id <= MaxId'
  /\ MemoryOK(s)' /\ OpOK(s)'

(* Repository::create_branch begins a write with a new genesis commit.     *)
LEMMA CreateStep ==
  ASSUME IInv, [Next]_vars, NEW s \in Sessions, NEW n \in Names, CreateBegin(s, n)
  PROVE  \E branches, next, doing : Begun(s, branches, next, doing)
<1>1. PICK c : c = Len(log) + 1
  OBVIOUS
<1>2. PICK entry : entry = [name |-> n, id |-> nextId[s], head |-> c,
                            hist |-> <<c>>, forced |-> FALSE]
  OBVIOUS
<1>3. PICK doing : doing = [kind |-> "create", asked |-> n, target |-> n, id |-> nextId[s],
                            commit |-> c, head |-> c, hist |-> <<c>>]
  OBVIOUS
<1>4. PICK branches : branches = Append(mem[s], entry)
  OBVIOUS
<1>5. /\ pc[s] = "idle" /\ lock = Free /\ lock' = s
      /\ pc' = [pc EXCEPT ![s] = "begin"]
      /\ UNCHANGED <<objs, wal, indexes, acked, crashes, forks, refs, mirror, plan>>
      /\ log' = Append(log, Record(NoCommit, n, TRUE, TRUE, 0))
      /\ mem' = [mem EXCEPT ![s] = branches]
      /\ nextId' = [nextId EXCEPT ![s] = nextId[s] + 1]
      /\ op' = [op EXCEPT ![s] = doing]
  BY <1>1, <1>2, <1>3, <1>4 DEF CreateBegin, Goto, Acquire, objects, ghosts
<1>6. /\ nextId[s] \in Nat /\ mem[s] \in Seq(MemoryType) /\ forks \in Nat
      /\ op \in [Sessions -> OpType] /\ pc \in [Sessions -> PcValues]
      /\ mem \in [Sessions -> Seq(MemoryType)] /\ Len(log) \in Nat
  BY DEF IInv, TypeOK
<1>7. /\ log' \in Seq(CommitRecord) /\ LogOK'
      /\ Len(log') = c /\ c \in Commits' /\ c \in Nat
      /\ log'[c].accepted
      /\ \A i \in DOMAIN log'[c].chain : ~(i < Len(log'[c].chain))
  <2>1. PICK new : new = Record(NoCommit, n, TRUE, TRUE, 0)
    OBVIOUS
  <2>2. new = [parent |-> NoCommit, branch |-> n, accepted |-> TRUE, checkpoint |-> TRUE,
               distance |-> 0, chain |-> Append(<< >>, c)]
    BY <1>1, <2>1 DEF Record
  <2>3. TypeOK /\ LogOK /\ log' = Append(log, new)
    BY <1>5, <2>1 DEF IInv
  <2>4. c \in Nat /\ Append(<< >>, c) \in Seq(Nat)
    BY <1>1, <1>6
  <2>5. /\ new \in CommitRecord /\ new.accepted /\ new.checkpoint
        /\ new.parent = NoCommit /\ new.chain = Append(<< >>, c)
    BY <2>2, <2>4 DEF CommitRecord, NoCommit
  <2>6. new.chain = Append(IF new.parent = NoCommit THEN << >> ELSE Chain(new.parent), c)
    BY <2>5
  <2>7. /\ log' \in Seq(CommitRecord) /\ LogOK'
        /\ Len(log') = c /\ c \in Commits' /\ c \in Nat /\ log'[c] = new
        /\ Len(new.chain) \in Nat \ {0} /\ DOMAIN new.chain = 1..Len(new.chain)
        /\ \A i \in 1..(Len(new.chain) - 1) : new.parent # NoCommit
    BY <1>1, <2>3, <2>5, <2>6, NewCommit
  <2>8. \A i \in DOMAIN new.chain : i \notin 1..(Len(new.chain) - 1)
    BY <2>5, <2>7
  <2>9. \A i \in DOMAIN new.chain : ~(i < Len(new.chain))
    BY <2>7, <2>8
  <2> QED BY <2>5, <2>7, <2>9
<1>8. entry \in MemoryType /\ doing \in OpType
  BY <1>2, <1>3, <1>6, <1>7 DEF MemoryType, OpType
<1>9. /\ branches \in Seq(MemoryType)
      /\ \A i \in DOMAIN branches :
           branches[i] = entry \/ \E j \in DOMAIN mem[s] : branches[i] = mem[s][j]
  BY <1>4, <1>6, <1>8, MemoryAppend
<1>10. MaxId' = MaxId + 1 /\ MaxId \in Nat
  BY <1>1, <1>5, <1>6, <1>7 DEF MaxId
<1>11. /\ nextId[s] <= MaxId + 1 /\ \A j \in DOMAIN mem[s] : mem[s][j].id <= MaxId
       /\ \A j \in DOMAIN mem[s] : mem[s][j].id \in Nat
  <2>1. \A j \in DOMAIN mem[s] : mem[s][j] \in MemoryType
    BY <1>6
  <2>2. \A j \in DOMAIN mem[s] : mem[s][j].id \in Nat
    BY <2>1 DEF MemoryType
  <2> QED BY <2>2 DEF IInv, IdsBounded
<1>12. /\ nextId[s] + 1 \in Nat /\ nextId[s] + 1 <= MaxId' + 1 /\ doing.id <= MaxId'
       /\ \A i \in DOMAIN branches : branches[i].id <= MaxId'
  <2>1. nextId[s] + 1 \in Nat /\ nextId[s] + 1 <= MaxId' + 1 /\ doing.id <= MaxId'
    BY <1>3, <1>6, <1>10, <1>11
  <2>2. entry.id <= MaxId' /\ \A j \in DOMAIN mem[s] : mem[s][j].id <= MaxId'
    BY <1>2, <1>6, <1>10, <1>11
  <2>3. \A i \in DOMAIN branches : branches[i].id <= MaxId'
    BY <1>9, <2>2
  <2> QED BY <2>1, <2>3
<1>13. pc'[s] = "begin" /\ op'[s] = doing /\ mem'[s] = branches
  BY <1>5, <1>6
<1>14. StoredFor(s, c)' /\ HasAccepted(<<c>>)'
  <2>1. c \in Commits' /\ c = Pending(s)'
    BY <1>3, <1>7, <1>13 DEF Pending, PendingPcs
  <2>2. <<c>>[1] = c /\ 1 \in DOMAIN <<c>>
    OBVIOUS
  <2> QED BY <1>7, <2>1, <2>2 DEF StoredFor, HasAccepted
<1>15. MemoryOK(s)'
  <2> SUFFICES ASSUME NEW i \in DOMAIN branches
               PROVE  /\ StoredFor(s, branches[i].head)' /\ log'[branches[i].head].accepted
                      /\ \A j \in DOMAIN branches[i].hist : StoredFor(s, branches[i].hist[j])'
                      /\ HasAccepted(branches[i].hist)'
    BY <1>13, MemoryFrom
  <2>1. CASE branches[i] = entry
    <3>1. branches[i].head = c /\ branches[i].hist = <<c>>
      BY <1>2, <2>1
    <3>2. \A j \in DOMAIN <<c>> : <<c>>[j] = c
      OBVIOUS
    <3> QED BY <1>7, <1>14, <3>1, <3>2
  <2>2. CASE \E j \in DOMAIN mem[s] : branches[i] = mem[s][j]
    <3>1. PICK j \in DOMAIN mem[s] : branches[i] = mem[s][j]
      BY <2>2
    <3>2. \A x : StoredFor(s, x) => Stored(x)
      BY <1>5, IdleStored DEF PendingPcs
    <3>3. BranchGood(mem[s][j])
      BY <3>2 DEF BranchGood, IInv, MemoryOK
    <3> QED BY <3>1, <3>3, GoodStays
  <2> QED BY <1>9, <2>1, <2>2
<1>16. OpOK(s)'
  <2>1. CommitOK(s)'
    BY <1>3, <1>7, <1>13 DEF CommitOK, Chain, PendingPcs
  <2>2. EntryOK(s)'
    <3>1. \A j \in DOMAIN <<c>> : <<c>>[j] = c
      OBVIOUS
    <3>2. /\ op'[s].asked = n /\ op'[s].target = n /\ op'[s].head = c /\ op'[s].hist = <<c>>
      BY <1>3, <1>13
    <3> QED BY <1>7, <1>13, <1>14, <3>1, <3>2 DEF EntryOK
  <2> QED BY <2>1, <2>2 DEF OpOK
<1> QED
  <2>1. doing.kind = "create"
    BY <1>3
  <2>2. forks' \in Nat /\ MaxId' \in Nat /\ MaxId <= MaxId'
    BY <1>5, <1>6, <1>10
  <2>3. pc' = [pc EXCEPT ![s] = IF doing.kind = "fork" THEN "ref" ELSE "begin"]
    BY <1>5, <2>1
  <2>4. Begun(s, branches, nextId[s] + 1, doing)
    BY <1>5, <1>7, <1>8, <1>9, <1>12, <1>15, <1>16, <2>2, <2>3 DEF Begun
  <2> QED BY <2>4

(* The commit that CommitBegin computes, and what follows for the log.     *)
LEMMA CommitLog ==
  ASSUME IInv, [Next]_vars, NEW s \in Sessions, NEW n \in Names, NEW accepted \in BOOLEAN,
         CommitBegin(s, n, accepted), NEW branches, branches = Loaded(s, n),
         NEW i, i = Resolve(branches, n), NEW c, c = Len(log) + 1
  PROVE  /\ log' \in Seq(CommitRecord) /\ LogOK'
         /\ Len(log') = c /\ c \in Commits' /\ c \in Nat
         /\ accepted => log'[c].accepted
         /\ \A j \in DOMAIN log'[c].chain :
              j < Len(log'[c].chain) =>
                log'[c].chain[j] \in Commits /\ Held(log'[c].chain[j])
<1> DEFINE branch == branches[i]
           parent == branch.head
           distance == log[parent].distance + 1
           ckpt == accepted /\ ShouldCheckpoint(distance, branch.forced)
           left == IF ckpt THEN 0 ELSE IF accepted THEN distance ELSE distance - 1
<1>1. /\ branch.name \in Names /\ branch.forced \in BOOLEAN
      /\ parent \in Commits /\ parent \in Nat /\ parent # NoCommit
      /\ log[parent].distance \in Int /\ Stored(parent)
  <2>1. pc[s] = "idle" /\ CanLoad(s, n)
    BY DEF CommitBegin, Goto
  <2> QED BY <2>1, CommitBase DEF Commits, NoCommit
<1>2. PICK new : new = Record(parent, branch.name, accepted, ckpt, left)
  OBVIOUS
<1>3. log' = Append(log, new)
  BY <1>2 DEF CommitBegin
<1>4. TypeOK /\ LogOK
  BY DEF IInv
<1>5. Append(Chain(parent), c) \in Seq(Nat)
  BY <1>1, <1>4, NewChain
<1>6. left \in Int
  BY <1>1, <1>2, SMTT(20) DEF Record
<1>7. new = [parent |-> parent, branch |-> branch.name, accepted |-> accepted,
             checkpoint |-> ckpt, distance |-> left, chain |-> Append(Chain(parent), c)]
  BY <1>1, <1>2 DEF Record
<1>8. ckpt \in BOOLEAN
  BY <1>1 DEF ShouldCheckpoint
<1> HIDE DEF ckpt, left, parent
<1>9. /\ new \in CommitRecord /\ new.parent = parent
      /\ accepted => new.accepted
      /\ new.chain = Append(Chain(parent), c)
  BY <1>1, <1>5, <1>6, <1>7, <1>8 DEF CommitRecord
<1>10. new.chain = Append(IF new.parent = NoCommit THEN << >> ELSE Chain(new.parent), c)
  BY <1>1, <1>9
<1>11. /\ log' \in Seq(CommitRecord) /\ LogOK'
       /\ Len(log') = c /\ c \in Commits' /\ c \in Nat /\ log'[c] = new
       /\ Len(new.chain) \in Nat \ {0} /\ DOMAIN new.chain = 1..Len(new.chain)
       /\ \A j \in 1..(Len(new.chain) - 1) :
            j \in DOMAIN Chain(new.parent) /\ new.chain[j] = Chain(new.parent)[j]
  BY <1>1, <1>3, <1>4, <1>9, <1>10, NewCommit
<1>12. \A j \in DOMAIN new.chain : j < Len(new.chain) => j \in 1..(Len(new.chain) - 1)
  BY <1>11
<1>13. \A j \in DOMAIN new.chain : j < Len(new.chain) =>
         new.chain[j] \in Commits /\ Held(new.chain[j])
  <2>1. \A j \in DOMAIN Chain(parent) : Chain(parent)[j] \in Commits
    BY <1>1, <1>4, ChainIn
  <2> QED BY <1>1, <1>9, <1>11, <1>12, <2>1 DEF Stored
<1> QED BY <1>9, <1>11, <1>13

(* Repository::commit begins a write with a new commit on top of the branch *)
(* that WorldStore found, stored or already in memory.                     *)
LEMMA CommitStep ==
  ASSUME IInv, [Next]_vars, NEW s \in Sessions, NEW n \in Names, NEW accepted \in BOOLEAN,
         CommitBegin(s, n, accepted)
  PROVE  \E branches, next, doing : Begun(s, branches, next, doing)
<1>1. PICK old : old = Loaded(s, n)
  OBVIOUS
<1>2. PICK k : k = Resolve(old, n)
  OBVIOUS
<1>3. PICK branch : branch = old[k]
  OBVIOUS
<1>4. PICK c : c = Len(log) + 1
  OBVIOUS
<1>5. PICK hist : hist = Append(branch.hist, c)
  OBVIOUS
<1>6. PICK entry : entry = [branch EXCEPT !.hist = hist,
                                          !.head = IF accepted THEN c ELSE branch.head,
                                          !.forced = branch.forced /\ ~accepted]
  OBVIOUS
<1>7. PICK branches : branches = [old EXCEPT ![k] = entry]
  OBVIOUS
<1>8. PICK next : next = NextIdAfterLoad(s, n)
  OBVIOUS
<1>9. PICK doing : doing = [kind |-> "commit", asked |-> n, target |-> branch.name,
                            id |-> branch.id, commit |-> c,
                            head |-> IF accepted THEN c ELSE NoCommit, hist |-> hist]
  OBVIOUS
<1>10. /\ pc[s] = "idle" /\ CanLoad(s, n) /\ lock = Free /\ lock' = s
       /\ pc' = [pc EXCEPT ![s] = "begin"]
       /\ UNCHANGED <<objs, wal, indexes, acked, crashes, forks, refs, mirror, plan>>
       /\ mem' = [mem EXCEPT ![s] = branches]
       /\ nextId' = [nextId EXCEPT ![s] = next]
       /\ op' = [op EXCEPT ![s] = doing]
  BY <1>1, <1>2, <1>3, <1>4, <1>5, <1>6, <1>7, <1>8, <1>9
     DEF CommitBegin, Goto, Acquire, objects, ghosts
<1>11. /\ forks \in Nat /\ op \in [Sessions -> OpType] /\ pc \in [Sessions -> PcValues]
       /\ mem \in [Sessions -> Seq(MemoryType)] /\ Len(log) \in Nat
  BY DEF IInv, TypeOK
<1>12. /\ log' \in Seq(CommitRecord) /\ LogOK'
       /\ Len(log') = c /\ c \in Commits' /\ c \in Nat
       /\ accepted => log'[c].accepted
       /\ \A j \in DOMAIN log'[c].chain :
            j < Len(log'[c].chain) =>
              log'[c].chain[j] \in Commits /\ Held(log'[c].chain[j])
  BY <1>1, <1>2, <1>4, CommitLog
<1>13. /\ old \in Seq(MemoryType) /\ next \in Nat /\ next <= MaxId + 1
       /\ \A i \in DOMAIN old : BranchGood(old[i]) /\ old[i].id <= MaxId
  BY <1>1, <1>8, <1>10, LoadedOK DEF BranchGood
<1>14. /\ k \in DOMAIN old /\ branch \in MemoryType /\ BranchGood(branch)
       /\ branch.name \in Names /\ branch.id \in Nat /\ branch.hist \in Seq(Nat)
       /\ branch.forced \in BOOLEAN /\ branch.head \in Nat /\ branch.id <= MaxId
  BY <1>1, <1>2, <1>3, <1>10, CommitBase DEF BranchGood
<1>15. hist \in Seq(Nat)
  BY <1>5, <1>12, <1>14, HistoryAppend
<1>16. /\ entry \in MemoryType /\ entry.hist = hist /\ entry.id = branch.id
       /\ entry.head = IF accepted THEN c ELSE branch.head
  BY <1>6, <1>12, <1>14, <1>15 DEF MemoryType
<1>17. doing \in OpType
  BY <1>9, <1>12, <1>14, <1>15 DEF OpType, NoCommit
<1>18. /\ branches \in Seq(MemoryType)
       /\ \A i \in DOMAIN branches :
            branches[i] = entry \/ (i \in DOMAIN old /\ branches[i] = old[i])
  <2>1. old \in Seq(MemoryType) /\ k \in DOMAIN old /\ entry \in MemoryType
    BY <1>13, <1>14, <1>16
  <2> QED BY <1>7, <2>1
<1>19. MaxId' = MaxId + 1 /\ MaxId \in Nat
  BY <1>4, <1>10, <1>11, <1>12 DEF MaxId
<1>20. \A i \in DOMAIN branches : branches[i].id <= MaxId'
  <2>1. entry.id <= MaxId'
    BY <1>14, <1>16, <1>19
  <2>2. ASSUME NEW i \in DOMAIN old PROVE old[i].id <= MaxId'
    <3>1. old[i] \in MemoryType
      BY <1>13
    <3>2. old[i].id \in Nat
      BY <3>1 DEF MemoryType
    <3> QED BY <1>13, <1>19, <3>2
  <2> QED BY <1>18, <2>1, <2>2
<1>21. pc'[s] = "begin" /\ op'[s] = doing /\ mem'[s] = branches
  BY <1>10, <1>11
<1>22. StoredFor(s, c)'
  BY <1>9, <1>12, <1>21 DEF Pending, PendingPcs, StoredFor
<1>23. /\ \A j \in DOMAIN hist : StoredFor(s, hist[j])'
       /\ HasAccepted(hist)'
  <2>1. /\ DOMAIN hist = 1..(Len(branch.hist) + 1) /\ DOMAIN branch.hist = 1..Len(branch.hist)
        /\ Len(branch.hist) \in Nat /\ hist[Len(branch.hist) + 1] = c
        /\ \A j \in DOMAIN branch.hist : hist[j] = branch.hist[j]
    BY <1>5, <1>12, <1>14, HistoryAppend
  <2>2. /\ \A j \in DOMAIN branch.hist : StoredFor(s, branch.hist[j])'
        /\ HasAccepted(branch.hist)'
    BY <1>14, GoodStays
  <2>3. \A j \in DOMAIN hist : j \in DOMAIN branch.hist \/ j = Len(branch.hist) + 1
    BY <2>1
  <2>4. \A j \in DOMAIN hist : StoredFor(s, hist[j])'
    <3> SUFFICES ASSUME NEW j \in DOMAIN hist PROVE StoredFor(s, hist[j])'
      OBVIOUS
    <3>1. PICK d : d = hist[j]
      OBVIOUS
    <3>2. StoredFor(s, d)'
      BY <1>22, <2>1, <2>2, <2>3, <3>1
    <3> QED BY <3>1, <3>2
  <2>5. HasAccepted(hist)'
    <3>1. DOMAIN branch.hist \subseteq DOMAIN hist
      BY <2>1
    <3> QED BY <2>1, <2>2, <3>1 DEF HasAccepted
  <2> QED BY <2>4, <2>5
<1>24. StoredFor(s, entry.head)' /\ log'[entry.head].accepted
  BY <1>12, <1>14, <1>16, <1>22, GoodStays
<1>25. MemoryOK(s)'
  <2> SUFFICES ASSUME NEW i \in DOMAIN branches
               PROVE  /\ StoredFor(s, branches[i].head)' /\ log'[branches[i].head].accepted
                      /\ \A j \in DOMAIN branches[i].hist : StoredFor(s, branches[i].hist[j])'
                      /\ HasAccepted(branches[i].hist)'
    BY <1>21, MemoryFrom
  <2>1. CASE branches[i] = entry
    BY <1>16, <1>23, <1>24, <2>1
  <2>2. CASE i \in DOMAIN old /\ branches[i] = old[i]
    BY <1>13, <2>2, GoodStays
  <2> QED BY <1>18, <2>1, <2>2
<1>26. OpOK(s)'
  <2>1. op'[s].commit = c /\ op'[s].asked = n /\ op'[s].target = branch.name
        /\ op'[s].hist = hist /\ op'[s].head = IF accepted THEN c ELSE NoCommit
    BY <1>9, <1>21
  <2>2. CommitOK(s)'
    <3>1. PICK chain : chain = log'[c].chain
      OBVIOUS
    <3>2. ASSUME NEW j \in DOMAIN chain, j < Len(chain) PROVE Held(chain[j])'
      <4>1. chain[j] \in Commits /\ Held(chain[j])
        BY <1>12, <3>1, <3>2
      <4> QED BY <1>10, <4>1, StoredStays DEF Held
    <3> QED BY <1>12, <1>21, <2>1, <3>1, <3>2 DEF CommitOK, Chain, PendingPcs
  <2>3. EntryOK(s)'
    BY <1>12, <1>14, <1>21, <1>22, <1>23, <2>1 DEF EntryOK
  <2> QED BY <2>2, <2>3 DEF OpOK
<1> QED
  <2>1. doing.kind = "commit" /\ doing.id = branch.id
    BY <1>9
  <2>2. forks' \in Nat /\ MaxId' \in Nat /\ MaxId <= MaxId' /\ doing.id <= MaxId'
        /\ next <= MaxId' + 1
    BY <1>10, <1>11, <1>13, <1>14, <1>19, <2>1
  <2>3. pc' = [pc EXCEPT ![s] = IF doing.kind = "fork" THEN "ref" ELSE "begin"]
    BY <1>10, <2>1
  <2>4. Begun(s, branches, next, doing)
    BY <1>10, <1>12, <1>13, <1>17, <1>18, <1>20, <1>25, <1>26, <2>2, <2>3 DEF Begun
  <2> QED BY <2>4

(* A fork is made of commits that are already stored.                      *)
LEMMA ForkStep ==
  ASSUME IInv, [Next]_vars, NEW s \in Sessions, NEW n \in Names, NEW new \in Names,
         ForkBegin(s, n, new)
  PROVE  \E branches, next, doing : Begun(s, branches, next, doing)
<1>1. PICK old : old = Loaded(s, n)
  OBVIOUS
<1>2. PICK source : source = old[Resolve(old, n)]
  OBVIOUS
<1> DEFINE used == {branchIdx[m].id : m \in Names}
<1>3. PICK id : id = 1 + Max(used)
  OBVIOUS
<1>4. PICK known : known = NextIdAfterLoad(s, n)
  OBVIOUS
<1>5. PICK entry : entry = [name |-> new, id |-> id, head |-> source.head,
                            hist |-> source.hist, forced |-> TRUE]
  OBVIOUS
<1>6. PICK branches : branches = Append(old, entry)
  OBVIOUS
<1>7. PICK next : next = IF known > id THEN known ELSE id + 1
  OBVIOUS
<1>8. PICK doing : doing = [kind |-> "fork", asked |-> new, target |-> new, id |-> id,
                            commit |-> NoCommit, head |-> source.head, hist |-> source.hist]
  OBVIOUS
<1>9. /\ pc[s] = "idle" /\ CanLoad(s, n) /\ lock = Free /\ lock' = s
      /\ pc' = [pc EXCEPT ![s] = "ref"] /\ forks' = forks + 1
      /\ UNCHANGED <<log, objs, wal, indexes, acked, crashes, refs, mirror, plan>>
      /\ mem' = [mem EXCEPT ![s] = branches]
      /\ nextId' = [nextId EXCEPT ![s] = next]
      /\ op' = [op EXCEPT ![s] = doing]
  BY <1>1, <1>2, <1>3, <1>4, <1>5, <1>6, <1>7, <1>8
     DEF ForkBegin, Goto, Acquire, objects
<1>10. /\ forks \in Nat /\ op \in [Sessions -> OpType] /\ pc \in [Sessions -> PcValues]
       /\ mem \in [Sessions -> Seq(MemoryType)] /\ Len(log) \in Nat
       /\ branchIdx \in [Names -> BranchType] /\ log \in Seq(CommitRecord)
  BY DEF IInv, TypeOK
<1>11. MaxId' = MaxId + 1 /\ MaxId \in Nat
  BY <1>9, <1>10 DEF MaxId
<1>12. id \in Nat /\ id <= MaxId + 1
  <2>1. \A m \in Names : branchIdx[m].id \in Nat /\ branchIdx[m].id <= MaxId
    <3>1. \A m \in Names : branchIdx[m] \in BranchType
      BY <1>10
    <3> QED BY <3>1 DEF BranchType, IInv, IdsBounded
  <2>2. used \in SUBSET Nat /\ used # {} /\ \A x \in used : x <= MaxId
    BY <2>1
  <2> HIDE DEF used
  <2>3. Max(used) \in used
    BY <1>11, <2>2, MaxIn
  <2>4. PICK top \in used : id = 1 + top
    BY <1>3, <2>3
  <2> QED BY <1>11, <2>2, <2>4
<1>13. /\ old \in Seq(MemoryType) /\ known \in Nat /\ known <= MaxId + 1
       /\ \A i \in DOMAIN old : BranchGood(old[i]) /\ old[i].id <= MaxId
  BY <1>1, <1>4, <1>9, LoadedOK DEF BranchGood
<1>14. /\ BranchGood(source) /\ source.hist \in Seq(Nat) /\ source.head \in Nat
       /\ source.head # NoCommit
  BY <1>1, <1>2, <1>9, CommitBase DEF BranchGood, Commits, NoCommit
<1>15. entry \in MemoryType /\ doing \in OpType
  BY <1>5, <1>8, <1>12, <1>14 DEF MemoryType, OpType, NoCommit
<1>16. /\ branches \in Seq(MemoryType)
       /\ \A i \in DOMAIN branches :
            branches[i] = entry \/ \E j \in DOMAIN old : branches[i] = old[j]
  BY <1>6, <1>13, <1>15, MemoryAppend
<1>17. next \in Nat /\ next <= MaxId' + 1
  BY <1>7, <1>11, <1>12, <1>13
<1>18. \A i \in DOMAIN branches : branches[i].id <= MaxId'
  <2>1. entry.id <= MaxId'
    BY <1>5, <1>11, <1>12
  <2>2. ASSUME NEW i \in DOMAIN old PROVE old[i].id <= MaxId'
    <3>1. old[i] \in MemoryType
      BY <1>13
    <3>2. old[i].id \in Nat
      BY <3>1 DEF MemoryType
    <3> QED BY <1>11, <1>13, <3>2
  <2> QED BY <1>16, <2>1, <2>2
<1>19. pc'[s] = "ref" /\ op'[s] = doing /\ mem'[s] = branches
  BY <1>9, <1>10
<1>20. BranchGood(entry)
  BY <1>5, <1>14 DEF BranchGood
<1>21. MemoryOK(s)'
  <2> SUFFICES ASSUME NEW i \in DOMAIN branches
               PROVE  /\ StoredFor(s, branches[i].head)' /\ log'[branches[i].head].accepted
                      /\ \A j \in DOMAIN branches[i].hist : StoredFor(s, branches[i].hist[j])'
                      /\ HasAccepted(branches[i].hist)'
    BY <1>19, MemoryFrom
  <2>1. BranchGood(branches[i])
    BY <1>13, <1>16, <1>20
  <2> QED BY <2>1, GoodStays
<1>22. OpOK(s)'
  <2>1. /\ op'[s].asked = new /\ op'[s].target = new
        /\ op'[s].hist = source.hist /\ op'[s].head = source.head
    BY <1>8, <1>19
  <2>2. EntryOK(s)'
    BY <1>14, <1>19, <2>1, GoodStays DEF EntryOK
  <2> QED BY <1>19, <2>2 DEF OpOK, CommitPcs, PendingPcs
<1> QED
  <2>1. doing.kind = "fork" /\ doing.id = id
    BY <1>8
  <2>2. forks' \in Nat /\ MaxId' \in Nat /\ MaxId <= MaxId' /\ doing.id <= MaxId'
    BY <1>9, <1>10, <1>11, <1>12, <2>1
  <2>3. pc' = [pc EXCEPT ![s] = IF doing.kind = "fork" THEN "ref" ELSE "begin"]
    BY <1>9, <2>1
  <2>4. log' \in Seq(CommitRecord) /\ LogOK'
    BY <1>9, <1>10 DEF LogOK, ChainOK, Chain, Commits, IInv
  <2>5. Begun(s, branches, next, doing)
    BY <1>9, <1>15, <1>16, <1>17, <1>18, <1>21, <1>22, <2>2, <2>3, <2>4 DEF Begun
  <2> QED BY <2>5

-----------------------------------------------------------------------------
(* Type correctness.                                                       *)
LEMMA BegunType ==
  ASSUME IInv, NEW s \in Sessions, NEW branches, NEW next, NEW doing,
         Begun(s, branches, next, doing)
  PROVE  TypeOK'
<1>1. mem' \in [Sessions -> Seq(MemoryType)]
  BY DEF Begun, IInv, TypeOK
<1>2. nextId' \in [Sessions -> Nat]
  BY DEF Begun, IInv, TypeOK
<1>3. op' \in [Sessions -> OpType]
  BY DEF Begun, IInv, TypeOK
<1>4. pc' \in [Sessions -> PcValues]
  <2>1. (IF doing.kind = "fork" THEN "ref" ELSE "begin") \in PcValues
    BY DEF PcValues
  <2> QED BY <2>1 DEF Begun, IInv, TypeOK
<1> QED BY <1>1, <1>2, <1>3, <1>4 DEF Begun, IInv, TypeOK, indexes

(* The steps of opening, recovering and rebuilding.                        *)
LEMMA RecoveryType ==
  ASSUME TypeOK, NEW s \in Sessions,
         \/ Open(s) \/ Recover(s) \/ Settle(s) \/ RebuildStart(s) \/ RebuildCommits(s)
         \/ RebuildBranches(s) \/ RecoverBegin(s) \/ RebuildBegin(s)
  PROVE  TypeOK'
<1>0. /\ plan \in [Sessions -> PlanType] /\ plan[s] \in PlanType
      /\ op \in [Sessions -> OpType] /\ pc \in [Sessions -> PcValues]
      /\ plan[s].torn \in BOOLEAN
      /\ plan[s].then \in PcValues /\ plan[s].commits \subseteq Nat
      /\ plan[s].branches \in [Names -> BranchType]
  BY DEF TypeOK, PlanType, PcValues
<1>1. ASSUME Open(s) PROVE TypeOK'
  <2>1. [NoPlan EXCEPT !.then = "recover", !.torn = plan[s].torn] \in PlanType
    BY <1>0, FreshPlanType
  <2>2. plan' \in [Sessions -> PlanType]
    BY <1>0, <1>1, <2>1 DEF Open, Rebuild
  <2>3. pc' \in [Sessions -> PcValues]
    BY <1>0, <1>1 DEF Open, Goto, PcValues
  <2> QED BY <1>1, <2>2, <2>3 DEF TypeOK, Open, objects, indexes, memory, ghosts
<1>2. ASSUME Recover(s) PROVE TypeOK'
  <2>0. PICK torn \in BOOLEAN : torn = (wal = "begun")
    OBVIOUS
  <2>1. /\ [NoPlan EXCEPT !.then = "settle", !.torn = torn] \in PlanType
        /\ [plan[s] EXCEPT !.torn = torn] \in PlanType
    BY <1>0, FreshPlanType, TornPlanType
  <2>2. plan' \in [Sessions -> PlanType]
    <3>1. \/ plan' = [plan EXCEPT ![s] = [plan[s] EXCEPT !.torn = torn]]
          \/ plan' = [plan EXCEPT ![s] = [NoPlan EXCEPT !.then = "settle", !.torn = torn]]
      BY <1>0, <1>2, <2>0 DEF Recover
    <3> QED BY <1>0, <2>1, <3>1
  <2>3. pc' \in [Sessions -> PcValues]
    BY <1>0, <1>2 DEF Recover, Goto, PcValues
  <2> QED BY <1>2, <2>2, <2>3 DEF TypeOK, Recover, objects, indexes, memory, ghosts
<1>3. ASSUME Settle(s) PROVE TypeOK'
  <2>1. plan' \in [Sessions -> PlanType]
    BY <1>0, <1>3, NoPlanType DEF Settle
  <2>2. pc' \in [Sessions -> PcValues]
    BY <1>0, <1>3 DEF Settle, Goto, PcValues
  <2>3. wal' \in {"empty", "begun"}
    BY <1>3 DEF Settle, TypeOK
  <2> QED BY <1>3, <2>1, <2>2, <2>3 DEF TypeOK, Settle, indexes, memory, ghosts
<1>4. ASSUME RebuildStart(s) PROVE TypeOK'
  <2>0. refs \in [Names -> RefType]
    BY DEF TypeOK
  <2>1. [plan[s] EXCEPT !.refs = refs, !.todo = {n \in Names : refs[n] # NoRef}] \in PlanType
    BY <1>0, <2>0 DEF PlanType
  <2>2. plan' \in [Sessions -> PlanType]
    <3>1. plan' = [plan EXCEPT ![s] =
            [plan[s] EXCEPT !.refs = refs, !.todo = {n \in Names : refs[n] # NoRef}]]
      BY <1>0, <1>4 DEF RebuildStart
    <3> QED BY <1>0, <2>1, <3>1
  <2>3. pc' \in [Sessions -> PcValues]
    BY <1>0, <1>4 DEF RebuildStart, Goto, PcValues
  <2>4. worldIdx' \in [Names -> Nat]
    BY <1>4 DEF RebuildStart, NoCommit
  <2> QED BY <1>4, <2>2, <2>3, <2>4 DEF TypeOK, RebuildStart, objects, memory, ghosts
<1>5. ASSUME RebuildCommits(s) PROVE TypeOK'
  <2>1. pc' \in [Sessions -> PcValues]
    BY <1>0, <1>5 DEF RebuildCommits, Goto, PcValues
  <2> QED BY <1>0, <1>5, <2>1 DEF TypeOK, RebuildCommits, objects, memory, ghosts
<1>6. ASSUME RebuildBranches(s) PROVE TypeOK'
  <2>1. [NoPlan EXCEPT !.torn = plan[s].torn] \in PlanType
    BY <1>0, TornNoPlanType
  <2>2. plan' \in [Sessions -> PlanType]
    BY <1>0, <1>6, <2>1 DEF RebuildBranches
  <2>3. pc' \in [Sessions -> PcValues]
    BY <1>0, <1>6 DEF RebuildBranches, Goto
  <2> QED BY <1>0, <1>6, <2>2, <2>3 DEF TypeOK, RebuildBranches, objects, memory, ghosts
<1>7. ASSUME RecoverBegin(s) PROVE TypeOK'
  <2>1. op' \in [Sessions -> OpType]
    BY <1>0, <1>7, RepairType DEF RecoverBegin
  <2>2. pc' \in [Sessions -> PcValues]
    BY <1>0, <1>7 DEF RecoverBegin, Goto, PcValues
  <2> QED BY <1>7, <2>1, <2>2 DEF TypeOK, RecoverBegin, Acquire, objects, indexes, memory, ghosts
<1>8. ASSUME RebuildBegin(s) PROVE TypeOK'
  <2>1. op' \in [Sessions -> OpType]
    BY <1>0, <1>8, RepairType DEF RebuildBegin
  <2>2. pc' \in [Sessions -> PcValues]
    BY <1>0, <1>8 DEF RebuildBegin, Goto, PcValues
  <2>3. [NoPlan EXCEPT !.then = "unlock", !.torn = plan[s].torn] \in PlanType
    BY <1>0, FreshPlanType
  <2>4. plan' \in [Sessions -> PlanType]
    BY <1>0, <1>8, <2>3 DEF RebuildBegin, Rebuild
  <2> QED BY <1>8, <2>1, <2>2, <2>4 DEF TypeOK, RebuildBegin, Acquire, objects, indexes,
                                       memory, ghosts
<1> QED BY <1>1, <1>2, <1>3, <1>4, <1>5, <1>6, <1>7, <1>8

(* One turn of the loop of RepositoryEngine::rebuild_indexes keeps the types. *)
LEMMA RebuildBranchType ==
  ASSUME IInv, NEW s \in Sessions, NEW n \in Names, RebuildBranch(s, n)
  PROVE  TypeOK'
<1>1. PICK hist : hist = RebuiltHistory(s, n)
  OBVIOUS
<1>2. n \in plan[s].todo /\ plan[s] \in PlanType /\ plan \in [Sessions -> PlanType]
  BY DEF RebuildBranch, IInv, TypeOK
<1>3. hist \in Seq(Nat) /\ plan[s].refs[n] \in RefType
      /\ \A i \in DOMAIN hist : hist[i] \in Nat
  BY <1>1, <1>2, RebuiltOK
<1>4. Range(hist) \subseteq Nat
  BY <1>3 DEF Range
<1>5. PICK ids : ids = Range(hist)
  OBVIOUS
<1>6. PICK entry : entry = [id |-> plan[s].refs[n].id, head |-> plan[s].refs[n].head,
                            hist |-> hist]
  OBVIOUS
<1>7. entry \in BranchType /\ plan[s].refs[n].head \in Nat
  BY <1>3, <1>6 DEF BranchType, RefType
<1>8. /\ eventIdx' = eventIdx \cup {<<n, c>> : c \in ids}
      /\ graphIdx' = graphIdx \cup ids
      /\ worldIdx' = [worldIdx EXCEPT ![n] = plan[s].refs[n].head]
      /\ indexFiles' = {"events", "graph", "world"}
      /\ plan' = [plan EXCEPT
            ![s] = [plan[s] EXCEPT !.todo = plan[s].todo \ {n},
                                   !.commits = plan[s].commits \cup ids,
                                   !.branches = [plan[s].branches EXCEPT ![n] = entry]]]
      /\ UNCHANGED <<branchIdx, commitIdx, objects, memory, ghosts, refs, mirror, lock, pc, op>>
  BY <1>1, <1>2, <1>5, <1>6 DEF RebuildBranch
<1>9. ids \subseteq Nat
  BY <1>4, <1>5
<1>10. [plan[s] EXCEPT !.todo = plan[s].todo \ {n},
                       !.commits = plan[s].commits \cup ids,
                       !.branches = [plan[s].branches EXCEPT ![n] = entry]] \in PlanType
  BY <1>2, <1>7, <1>9 DEF PlanType
<1>11. plan' \in [Sessions -> PlanType]
  BY <1>2, <1>8, <1>10
<1>12. worldIdx' \in [Names -> Nat]
  BY <1>7, <1>8 DEF IInv, TypeOK
<1>13. eventIdx' \subseteq Names \X Nat /\ graphIdx' \subseteq Nat
  BY <1>8, <1>9 DEF IInv, TypeOK
<1> QED BY <1>8, <1>11, <1>12, <1>13 DEF IInv, TypeOK, objects, memory, ghosts

(* The steps of a write.                                                   *)
LEMMA WriteType ==
  ASSUME TypeOK, NEW s \in Sessions,
         (* what the entries name *)
         pc[s] \in {"ref", "branch", "world", "mirror"} =>
           op[s].asked \in Names /\ op[s].target \in Names,
         pc[s] = "events" => op[s].asked \in Names,
         \/ WriteBegin(s) \/ PutPayload(s) \/ PutPages(s) \/ PutObject(s)
         \/ IndexCommit(s) \/ IndexEvents(s) \/ IndexGraph(s)
         \/ UpdateRef(s) \/ UpdateBranchIndex(s) \/ UpdateWorldIndex(s)
         \/ WriteMirror(s) \/ WriteEnd(s)
  PROVE  TypeOK'
<1>0. /\ op[s] \in OpType /\ pc \in [Sessions -> PcValues]
      /\ op[s].commit \in Nat /\ op[s].head \in Nat /\ op[s].id \in Nat
      /\ op[s].hist \in Seq(Nat)
  BY DEF TypeOK, OpType
<1>1. ASSUME WriteBegin(s) PROVE TypeOK'
  <2>1. pc' \in [Sessions -> PcValues]
    BY <1>0, <1>1 DEF WriteBegin, Goto, PcValues
  <2> QED BY <1>1, <2>1 DEF TypeOK, WriteBegin, indexes, memory, ghosts
<1>2. ASSUME NEW object \in {"payload", "pages", "commit"} \X Nat, NEW here,
             NEW there \in PcValues, Put(s, object, here, there)
      PROVE  TypeOK'
  <2>1. pc' \in [Sessions -> PcValues]
    BY <1>0, <1>2 DEF Put, Goto
  <2> QED BY <1>2, <2>1 DEF TypeOK, Put, indexes, memory, ghosts
<1>3. /\ PutPayload(s) => TypeOK'
      /\ PutPages(s) => TypeOK'
      /\ PutObject(s) => TypeOK'
  <2>1. /\ Payload(op[s].commit) \in {"payload", "pages", "commit"} \X Nat
        /\ Pages(op[s].commit) \in {"payload", "pages", "commit"} \X Nat
        /\ Object(op[s].commit) \in {"payload", "pages", "commit"} \X Nat
    BY <1>0 DEF Payload, Pages, Object
  <2>2. /\ "object" \in PcValues /\ "pages" \in PcValues /\ "commits" \in PcValues
        /\ (IF log[op[s].commit].checkpoint THEN "pages" ELSE "object") \in PcValues
    BY DEF PcValues
  <2> QED BY <1>2, <2>1, <2>2 DEF PutPayload, PutPages, PutObject
<1>4. ASSUME IndexCommit(s) PROVE TypeOK'
  <2>1. pc' \in [Sessions -> PcValues]
    BY <1>0, <1>4 DEF IndexCommit, Goto, PcValues
  <2> QED BY <1>0, <1>4, <2>1 DEF TypeOK, IndexCommit, objects, memory, ghosts
<1>5. ASSUME IndexEvents(s) PROVE TypeOK'
  <2>1. pc' \in [Sessions -> PcValues]
    BY <1>0, <1>5 DEF IndexEvents, Goto, PcValues
  <2>2. op[s].asked \in Names
    BY <1>5 DEF IndexEvents, Goto
  <2>3. <<op[s].asked, op[s].commit>> \in Names \X Nat
    BY <1>0, <2>2
  <2>4. eventIdx' \subseteq Names \X Nat
    BY <1>5, <2>3 DEF TypeOK, IndexEvents
  <2> QED BY <1>5, <2>1, <2>4 DEF TypeOK, IndexEvents, objects, memory, ghosts
<1>6. ASSUME IndexGraph(s) PROVE TypeOK'
  <2>1. pc' \in [Sessions -> PcValues]
    BY <1>0, <1>6 DEF IndexGraph, Goto, PcValues
  <2> QED BY <1>0, <1>6, <2>1 DEF TypeOK, IndexGraph, objects, memory, ghosts
<1>7. ASSUME UpdateRef(s) PROVE TypeOK'
  <2>1. pc' \in [Sessions -> PcValues]
    BY <1>0, <1>7 DEF UpdateRef, Goto, PcValues
  <2>2. [id |-> op[s].id, head |-> op[s].head] \in RefType
    BY <1>0 DEF RefType
  <2>3. refs' \in [Names -> RefType]
    BY <1>7, <2>2 DEF TypeOK, UpdateRef
  <2> QED BY <1>7, <2>1, <2>3 DEF TypeOK, UpdateRef, objects, indexes, memory, ghosts
<1>8. ASSUME UpdateBranchIndex(s) PROVE TypeOK'
  <2>1. pc' \in [Sessions -> PcValues]
    BY <1>0, <1>8 DEF UpdateBranchIndex, Goto, PcValues
  <2>2. branchIdx \in [Names -> BranchType] /\ op[s].asked \in Names /\ op[s].target \in Names
    BY <1>8 DEF TypeOK, UpdateBranchIndex, Goto
  <2>3. [id |-> op[s].id, head |-> op[s].head, hist |-> op[s].hist] \in BranchType
    BY <1>0 DEF BranchType
  <2>4. [branchIdx[op[s].asked] EXCEPT !.hist = op[s].hist] \in BranchType
    <3>1. branchIdx[op[s].asked] \in BranchType
      BY <2>2
    <3> QED BY <1>0, <3>1 DEF BranchType
  <2>5. branchIdx' \in [Names -> BranchType]
    <3>1. \/ branchIdx' = branchIdx
          \/ branchIdx' = [branchIdx EXCEPT ![op[s].target] =
                             [id |-> op[s].id, head |-> op[s].head, hist |-> op[s].hist]]
          \/ branchIdx' = [branchIdx EXCEPT ![op[s].asked] =
                             [branchIdx[op[s].asked] EXCEPT !.hist = op[s].hist]]
      BY <1>8, <2>2 DEF UpdateBranchIndex
    <3> QED BY <2>2, <2>3, <2>4, <3>1
  <2> QED BY <1>8, <2>1, <2>5 DEF TypeOK, UpdateBranchIndex, objects, memory, ghosts
<1>9. ASSUME UpdateWorldIndex(s) PROVE TypeOK'
  <2>1. pc' \in [Sessions -> PcValues]
    BY <1>0, <1>9 DEF UpdateWorldIndex, Goto, PcValues
  <2>2. worldIdx' \in [Names -> Nat]
    BY <1>0, <1>9 DEF TypeOK, UpdateWorldIndex
  <2> QED BY <1>9, <2>1, <2>2 DEF TypeOK, UpdateWorldIndex, objects, memory, ghosts
<1>10. ASSUME WriteMirror(s) PROVE TypeOK'
  <2>1. pc' \in [Sessions -> PcValues]
    BY <1>0, <1>10 DEF WriteMirror, Goto, PcValues
  <2>2. mirror' \in [Names -> Seq(Nat)]
    BY <1>0, <1>10 DEF TypeOK, WriteMirror
  <2> QED BY <1>10, <2>1, <2>2 DEF TypeOK, WriteMirror, objects, indexes, memory, ghosts
<1>11. ASSUME WriteEnd(s) PROVE TypeOK'
  <2>1. pc' \in [Sessions -> PcValues]
    BY <1>0, <1>11 DEF WriteEnd, Goto, PcValues
  <2> QED BY <1>11, <2>1 DEF TypeOK, WriteEnd, indexes, memory, ghosts
<1> QED BY <1>1, <1>3, <1>4, <1>5, <1>6, <1>7, <1>8, <1>9, <1>10, <1>11

(* The end of a call, of a process, a read and the removal of a lock file  *)
(* keep the types.                                                         *)
LEMMA RestType ==
  ASSUME IInv, NEW s \in Sessions,
         \/ Return(s) \/ Close(s) \/ Crash(s) \/ ClearLock
         \/ \E n \in Names : Materialize(s, n)
  PROVE  TypeOK'
<1>0. /\ pc \in [Sessions -> PcValues] /\ op \in [Sessions -> OpType]
      /\ op[s] \in OpType /\ plan \in [Sessions -> PlanType]
      /\ mem \in [Sessions -> Seq(MemoryType)] /\ nextId \in [Sessions -> Nat]
      /\ << >> \in Seq(MemoryType) /\ {"down", "idle"} \subseteq PcValues
  BY DEF IInv, TypeOK, PcValues
<1>1. ASSUME Return(s) PROVE TypeOK'
  <2>1. op' \in [Sessions -> OpType]
    BY <1>0, <1>1, NoOpType DEF Return
  <2>2. pc' \in [Sessions -> PcValues]
    BY <1>0, <1>1 DEF Return, Goto
  <2>3. acked' \subseteq (Names \cup {"none"}) \X Nat
    <3>1. op[s].asked \in Names \cup {"none"} /\ op[s].commit \in Nat
      BY <1>0 DEF OpType
    <3> QED BY <1>1, <3>1 DEF Return, IInv, TypeOK
  <2> QED BY <1>1, <2>1, <2>2, <2>3 DEF IInv, TypeOK, Return, objects, indexes, memory
<1>2. ASSUME Forget(s) PROVE /\ op' \in [Sessions -> OpType] /\ plan' \in [Sessions -> PlanType]
                             /\ mem' \in [Sessions -> Seq(MemoryType)]
                             /\ nextId' \in [Sessions -> Nat]
  BY <1>0, <1>2, NoOpType, NoPlanType DEF Forget
<1>3. ASSUME Close(s) PROVE TypeOK'
  <2>1. pc' \in [Sessions -> PcValues]
    BY <1>0, <1>3 DEF Close, Goto
  <2>2. Forget(s)
    BY <1>3 DEF Close
  <2> QED BY <1>2, <1>3, <2>1, <2>2 DEF IInv, TypeOK, Close, objects, indexes, ghosts
<1>4. ASSUME Crash(s) PROVE TypeOK'
  <2>1. pc' \in [Sessions -> PcValues]
    BY <1>0, <1>4 DEF Crash
  <2>2. Forget(s)
    BY <1>4 DEF Crash
  <2>3. crashes' \in Nat /\ lock' \in Sessions \cup {Free, Stale}
    BY <1>4 DEF Crash, IInv, TypeOK
  <2> QED BY <1>2, <1>4, <2>1, <2>2, <2>3 DEF IInv, TypeOK, Crash, objects, indexes
<1>5. ASSUME ClearLock PROVE TypeOK'
  BY <1>5 DEF IInv, TypeOK, ClearLock, objects, indexes, memory, ghosts
<1>6. ASSUME NEW n \in Names, Materialize(s, n) PROVE TypeOK'
  <2>1. pc[s] = "idle" /\ CanLoad(s, n)
    BY <1>6 DEF Materialize, CanLoad
  <2>2. Loaded(s, n) \in Seq(MemoryType) /\ NextIdAfterLoad(s, n) \in Nat
    BY <2>1, LoadedOK
  <2>3. mem' \in [Sessions -> Seq(MemoryType)] /\ nextId' \in [Sessions -> Nat]
    BY <1>0, <1>6, <2>2 DEF Materialize
  <2> QED BY <1>6, <2>3 DEF IInv, TypeOK, Materialize, objects, indexes, ghosts
<1> QED BY <1>1, <1>3, <1>4, <1>5, <1>6

(* Every step keeps the type invariant.                                    *)
LEMMA TypeStep ==
  ASSUME IInv, [Next]_vars
  PROVE  TypeOK'
<1>1. CASE UNCHANGED vars
  BY <1>1 DEF vars, IInv, TypeOK
<1>2. ASSUME NEW s \in Sessions, Call(s) PROVE TypeOK'
  <2>1. ASSUME NEW n \in CreateNames, CreateBegin(s, n) PROVE TypeOK'
    <3>1. n \in Names
      BY NamesAssumption
    <3> QED BY <2>1, <3>1, CreateStep, BegunType
  <2>2. ASSUME NEW n \in Names, NEW accepted \in BOOLEAN, CommitBegin(s, n, accepted)
        PROVE  TypeOK'
    BY <2>2, CommitStep, BegunType
  <2>3. ASSUME NEW n \in Names, NEW new \in ForkNames, ForkBegin(s, n, new) PROVE TypeOK'
    <3>1. new \in Names
      BY NamesAssumption
    <3> QED BY <2>3, <3>1, ForkStep, BegunType
  <2>4. CASE Open(s) \/ RecoverBegin(s) \/ RebuildBegin(s)
    BY <2>4, RecoveryType DEF IInv
  <2>5. CASE Close(s) \/ \E n \in Names : Materialize(s, n)
    BY <2>5, RestType
  <2> QED BY <1>2, <2>1, <2>2, <2>3, <2>4, <2>5 DEF Call
<1>3. ASSUME NEW s \in Sessions, Step(s) PROVE TypeOK'
  <2>1. CASE \/ Recover(s) \/ Settle(s) \/ RebuildStart(s) \/ RebuildCommits(s)
             \/ RebuildBranches(s)
    BY <2>1, RecoveryType DEF IInv
  <2>2. CASE \E n \in Names : RebuildBranch(s, n)
    BY <2>2, RebuildBranchType
  <2>3. CASE \/ WriteBegin(s) \/ PutPayload(s) \/ PutPages(s) \/ PutObject(s)
             \/ IndexCommit(s) \/ IndexEvents(s) \/ IndexGraph(s)
             \/ UpdateRef(s) \/ UpdateBranchIndex(s) \/ UpdateWorldIndex(s)
             \/ WriteMirror(s) \/ WriteEnd(s)
    <3>1. pc[s] \in {"events", "ref", "branch", "world", "mirror"} =>
            op[s].asked \in Names /\ op[s].target \in Names
      BY DEF IInv, OpOK, EntryOK, EntryPcs, CommitPcs
    <3> QED BY <2>3, <3>1, WriteType DEF IInv
  <2>4. CASE Return(s)
    BY <2>4, RestType
  <2> QED BY <1>3, <2>1, <2>2, <2>3, <2>4 DEF Step
<1>4. ASSUME NEW s \in Sessions, Crash(s) PROVE TypeOK'
  BY <1>4, RestType
<1>5. CASE ClearLock
  <2>1. TypeOK
    BY DEF IInv
  <2> QED BY <1>5, <2>1 DEF TypeOK, ClearLock, objects, indexes, memory, ghosts
<1> QED BY <1>1, <1>2, <1>3, <1>4, <1>5 DEF Next

-----------------------------------------------------------------------------
(* Which steps begin a write, and what the others leave alone.             *)
LEMMA BeginOrRest ==
  ASSUME IInv, [Next]_vars
  PROVE  \/ \E s \in Sessions : \E branches, next, doing : Begun(s, branches, next, doing)
         \/ UNCHANGED <<log, forks>>
<1>1. CASE UNCHANGED vars
  BY <1>1 DEF vars
<1>2. ASSUME NEW s \in Sessions, Call(s)
      PROVE  \/ \E branches, next, doing : Begun(s, branches, next, doing)
             \/ UNCHANGED <<log, forks>>
  <2>1. ASSUME NEW n \in CreateNames, CreateBegin(s, n)
        PROVE  \E branches, next, doing : Begun(s, branches, next, doing)
    <3>1. n \in Names
      BY NamesAssumption
    <3> QED BY <2>1, <3>1, CreateStep
  <2>2. ASSUME NEW n \in Names, NEW accepted \in BOOLEAN, CommitBegin(s, n, accepted)
        PROVE  \E branches, next, doing : Begun(s, branches, next, doing)
    BY <2>2, CommitStep
  <2>3. ASSUME NEW n \in Names, NEW new \in ForkNames, ForkBegin(s, n, new)
        PROVE  \E branches, next, doing : Begun(s, branches, next, doing)
    <3>1. new \in Names
      BY NamesAssumption
    <3> QED BY <2>3, <3>1, ForkStep
  <2>4. CASE Open(s) \/ Close(s) \/ RecoverBegin(s) \/ RebuildBegin(s)
             \/ \E n \in Names : Materialize(s, n)
    BY <2>4 DEF Open, Close, RecoverBegin, RebuildBegin, Materialize, memory, ghosts
  <2> QED BY <1>2, <2>1, <2>2, <2>3, <2>4 DEF Call
<1>3. ASSUME NEW s \in Sessions, Step(s) PROVE UNCHANGED <<log, forks>>
  BY <1>3 DEF Step, Recover, Settle, RebuildStart, RebuildBranch, RebuildCommits,
              RebuildBranches, WriteBegin, PutPayload, PutPages, PutObject, Put, IndexCommit,
              IndexEvents, IndexGraph, UpdateRef, UpdateBranchIndex, UpdateWorldIndex,
              WriteMirror, WriteEnd, Return, memory, ghosts
<1>4. ASSUME NEW s \in Sessions, Crash(s) PROVE UNCHANGED <<log, forks>>
  BY <1>4 DEF Crash
<1>5. CASE ClearLock
  BY <1>5 DEF ClearLock, memory, ghosts
<1> QED BY <1>1, <1>2, <1>3, <1>4, <1>5 DEF Next

(* The content table stays sound and ids never run ahead of it.            *)
LEMMA LogStep ==
  ASSUME IInv, [Next]_vars
  PROVE  LogOK' /\ MaxId \in Nat /\ MaxId' \in Nat /\ MaxId <= MaxId'
<1>1. MaxId \in Nat
  BY DEF IInv, TypeOK, MaxId
<1>2. CASE \E s \in Sessions : \E branches, next, doing : Begun(s, branches, next, doing)
  BY <1>1, <1>2 DEF Begun
<1>3. CASE UNCHANGED <<log, forks>>
  <2>1. log' = log /\ MaxId' = MaxId
    BY <1>3 DEF MaxId
  <2>2. \A c : ChainOK(c) => ChainOK(c)'
    BY <2>1 DEF ChainOK, Chain
  <2>3. LogOK'
    BY <2>1, <2>2 DEF IInv, LogOK, Commits
  <2> QED BY <1>1, <2>1, <2>3
<1> QED BY <1>2, <1>3, BeginOrRest

-----------------------------------------------------------------------------
(* What a step does to one session: nothing, unless it is that session's.  *)
Untouched(s) ==
  /\ pc'[s] = pc[s] /\ op'[s] = op[s] /\ mem'[s] = mem[s]
  /\ nextId'[s] = nextId[s] /\ plan'[s] = plan[s]

(* In a step, each session either acts or is left untouched.               *)
LEMMA OneActs ==
  ASSUME IInv, [Next]_vars, NEW t \in Sessions
  PROVE  Untouched(t) \/ Call(t) \/ Step(t) \/ Crash(t)
<1>0. /\ pc \in [Sessions -> PcValues] /\ op \in [Sessions -> OpType]
      /\ mem \in [Sessions -> Seq(MemoryType)] /\ nextId \in [Sessions -> Nat]
      /\ plan \in [Sessions -> PlanType]
  BY DEF IInv, TypeOK
<1>1. CASE UNCHANGED vars
  BY <1>1 DEF vars, Untouched
<1>2. ASSUME NEW s \in Sessions, s # t, Call(s) PROVE Untouched(t)
  <2>1. CASE Open(s) \/ Close(s) \/ RecoverBegin(s) \/ RebuildBegin(s)
    BY <1>0, <1>2, <2>1
       DEF Open, Close, RecoverBegin, RebuildBegin, Rebuild, Forget, Goto, memory, Untouched
  <2>2. ASSUME NEW n \in CreateNames, CreateBegin(s, n) PROVE Untouched(t)
    BY <1>0, <1>2, <2>2 DEF CreateBegin, Goto, Untouched
  <2>3. ASSUME NEW n \in Names, NEW accepted \in BOOLEAN, CommitBegin(s, n, accepted)
        PROVE  Untouched(t)
    BY <1>0, <1>2, <2>3 DEF CommitBegin, Goto, Untouched
  <2>4. ASSUME NEW n \in Names, NEW new \in ForkNames, ForkBegin(s, n, new)
        PROVE  Untouched(t)
    BY <1>0, <1>2, <2>4 DEF ForkBegin, Goto, Untouched
  <2>5. ASSUME NEW n \in Names, Materialize(s, n) PROVE Untouched(t)
    BY <1>0, <1>2, <2>5 DEF Materialize, Untouched
  <2> QED BY <1>2, <2>1, <2>2, <2>3, <2>4, <2>5 DEF Call
<1>3. ASSUME NEW s \in Sessions, s # t, Step(s) PROVE Untouched(t)
  BY <1>0, <1>3
     DEF Step, Recover, Settle, RebuildStart, RebuildBranch, RebuildCommits,
         RebuildBranches, WriteBegin, PutPayload, PutPages, PutObject, Put, IndexCommit,
         IndexEvents, IndexGraph, UpdateRef, UpdateBranchIndex, UpdateWorldIndex,
         WriteMirror, WriteEnd, Return, Goto, memory, Untouched
<1>4. ASSUME NEW s \in Sessions, s # t, Crash(s) PROVE Untouched(t)
  BY <1>0, <1>4 DEF Crash, Forget, Untouched
<1>5. CASE ClearLock
  BY <1>5 DEF ClearLock, memory, Untouched
<1> QED BY <1>1, <1>2, <1>3, <1>4, <1>5 DEF Next

(* A commit that a session may rely on stays so while it is written.       *)
LEMMA StoredForKept ==
  ASSUME IInv, [Next]_vars, NEW t \in Sessions,
         NEW d, d = op[t].commit,
         pc[t] \in PendingPcs =>
           (pc'[t] \in PendingPcs /\ op'[t].commit = d) \/ Stored(d)'
  PROVE  \A c : StoredFor(t, c) => StoredFor(t, c)'
<1> SUFFICES ASSUME NEW c, StoredFor(t, c) PROVE StoredFor(t, c)'
  OBVIOUS
<1>1. CASE Stored(c)
  BY <1>1, StoredStays DEF StoredFor
<1>2. CASE c \in Commits /\ c = Pending(t)
  <2>1. pc[t] \in PendingPcs /\ c = op[t].commit
    BY <1>2 DEF Pending, Commits, NoCommit
  <2>2. c \in Commits'
    BY <1>2, StoredStays
  <2>3. CASE pc'[t] \in PendingPcs /\ op'[t].commit = d
    BY <2>1, <2>2, <2>3 DEF Pending, StoredFor
  <2>4. CASE Stored(d)'
    BY <2>1, <2>4 DEF StoredFor
  <2> QED BY <2>1, <2>3, <2>4
<1> QED BY <1>1, <1>2 DEF StoredFor

(* A session whose memory does not change keeps MemoryOK: what is stored for *)
(* it, by the writes of any session, stays stored.                         *)
LEMMA MemoryKept ==
  ASSUME IInv, [Next]_vars, NEW t \in Sessions, mem'[t] = mem[t],
         \A c : StoredFor(t, c) => StoredFor(t, c)'
  PROVE  MemoryOK(t)'
<1>1. \A c : StoredFor(t, c) => c \in Commits
  BY DEF StoredFor, Stored
<1>2. PICK branches : branches = mem[t]
  OBVIOUS
<1>3. \A i \in DOMAIN branches :
        /\ StoredFor(t, branches[i].head) /\ log[branches[i].head].accepted
        /\ \A j \in DOMAIN branches[i].hist : StoredFor(t, branches[i].hist[j])
        /\ HasAccepted(branches[i].hist)
  BY <1>2 DEF IInv, MemoryOK
<1> SUFFICES ASSUME NEW i \in DOMAIN branches
             PROVE  /\ StoredFor(t, branches[i].head)' /\ log'[branches[i].head].accepted
                    /\ \A j \in DOMAIN branches[i].hist : StoredFor(t, branches[i].hist[j])'
                    /\ HasAccepted(branches[i].hist)'
  <2>1. mem'[t] = branches
    BY <1>2
  <2> QED BY <2>1, MemoryFrom
<1>4. log'[branches[i].head] = log[branches[i].head]
  BY <1>1, <1>3, StoredStays
<1>5. HasAccepted(branches[i].hist)'
  BY <1>1, <1>3, StoredStays
<1> QED BY <1>3, <1>4, <1>5

(* A session keeps EntryOK between the writes of write_commit that need the *)
(* entry of its branch.                                                    *)
LEMMA EntryKept ==
  ASSUME IInv, [Next]_vars, NEW t \in Sessions, op'[t] = op[t], EntryOK(t),
         pc'[t] \in {"ref", "world"} => op[t].head # NoCommit,
         \A c : StoredFor(t, c) => StoredFor(t, c)'
  PROVE  EntryOK(t)'
<1>1. \A c : StoredFor(t, c) => c \in Commits
  BY DEF StoredFor, Stored
<1>2. PICK doing : doing = op[t]
  OBVIOUS
<1>3. /\ doing.asked \in Names /\ doing.target \in Names
      /\ \A i \in DOMAIN doing.hist : StoredFor(t, doing.hist[i])
      /\ HasAccepted(doing.hist)
      /\ doing.head # NoCommit => StoredFor(t, doing.head) /\ log[doing.head].accepted
  BY <1>2 DEF EntryOK
<1>4. HasAccepted(doing.hist)'
  BY <1>1, <1>3, StoredStays
<1>5. doing.head # NoCommit => StoredFor(t, doing.head)' /\ log'[doing.head].accepted
  BY <1>1, <1>3, StoredStays
<1>6. \A i \in DOMAIN doing.hist : StoredFor(t, doing.hist[i])'
  BY <1>3
<1>7. op'[t] = doing
  BY <1>2
<1>8. doing.head # NoCommit => log'[doing.head].accepted /\ StoredFor(t, doing.head)'
  BY <1>5
<1>9. \E i \in DOMAIN doing.hist : log'[doing.hist[i]].accepted
  BY <1>4 DEF HasAccepted
<1>10. pc'[t] \in {"ref", "world"} => doing.head # NoCommit
  BY <1>2
<1> QED BY <1>3, <1>6, <1>7, <1>8, <1>9, <1>10
        DEF EntryOK, StoredFor, HasAccepted, Stored, Held, Pending, Chain, NoCommit

(* A session keeps CommitOK from one durable write of write_commit to the  *)
(* next, given what the write has just put on disk.                        *)
LEMMA CommitKept ==
  ASSUME IInv, [Next]_vars, NEW t \in Sessions, op'[t] = op[t], CommitOK(t),
         NEW c, c = op[t].commit,
         pc'[t] \in {"pages", "object"} => Payload(c) \in objs',
         pc'[t] = "object" /\ log[c].checkpoint => Pages(c) \in objs',
         pc'[t] \notin PendingPcs => Stored(c)'
  PROVE  CommitOK(t)'
<1>1. c \in Commits /\ c \in Commits' /\ log'[c] = log[c]
  BY StoredStays DEF CommitOK
<1>2. PICK chain : chain = log[c].chain
  OBVIOUS
<1>3. \A i \in DOMAIN chain : chain[i] \in Commits
  BY <1>1, <1>2, ChainIn DEF IInv, Chain
<1>4. ASSUME NEW d \in Commits, Held(d) PROVE Held(d)'
  BY <1>4, StoredStays, ContentGrows DEF Held, Payload, Object, Pages
<1>5. \A i \in DOMAIN chain : i < Len(chain) => Held(chain[i])'
  BY <1>2, <1>3, <1>4 DEF CommitOK, Chain
<1> QED BY <1>1, <1>2, <1>5 DEF CommitOK, Chain, Stored, Held, Payload, Pages

-----------------------------------------------------------------------------
(* Recovery and rebuild plans.                                             *)
LEMMA PlanKept ==
  ASSUME IInv, [Next]_vars, NEW t \in Sessions,
         plan'[t].refs = plan[t].refs, plan'[t].todo = plan[t].todo,
         plan'[t].branches = plan[t].branches
  PROVE  PlanOK(t)'
<1>1. PICK its : its = plan[t]
  OBVIOUS
<1>2. /\ \A n \in Names : RefOK(its.refs[n])' /\ BranchOK(its.branches[n])'
      /\ \A n \in its.todo : its.refs[n] # NoRef
  BY <1>1, EntriesStay DEF IInv, PlanOK
<1>3. plan'[t].refs = its.refs /\ plan'[t].todo = its.todo /\ plan'[t].branches = its.branches
  BY <1>1
<1> QED BY <1>2, <1>3 DEF PlanOK

(* An empty rebuild plan is a good one.                                    *)
LEMMA PlanFresh ==
  ASSUME NEW t \in Sessions,
         plan'[t].refs = NoPlan.refs, plan'[t].todo = {}, plan'[t].branches = NoPlan.branches
  PROVE  PlanOK(t)'
<1>1. \A n \in Names : plan'[t].refs[n] = NoRef /\ plan'[t].branches[n] = NoBranch
  BY DEF NoPlan
<1>2. RefOK(NoRef)' /\ BranchOK(NoBranch)'
  BY DEF RefOK, BranchOK
<1> QED BY <1>1, <1>2 DEF PlanOK

(* What a step may make of a plan.                                         *)
LEMMA PlanSteps ==
  ASSUME IInv, [Next]_vars, NEW t \in Sessions
  PROVE  \/ plan'[t] = plan[t] \/ plan'[t] = NoPlan
         \/ \E then, torn : plan'[t] = [NoPlan EXCEPT !.then = then, !.torn = torn]
         \/ \E torn : \/ plan'[t] = [NoPlan EXCEPT !.torn = torn]
                      \/ plan'[t] = [plan[t] EXCEPT !.torn = torn]
         \/ RebuildStart(t) \/ \E n \in Names : RebuildBranch(t, n)
<1>0. plan \in [Sessions -> PlanType] /\ plan[t] \in PlanType
  BY DEF IInv, TypeOK
<1>1. ASSUME Call(t)
      PROVE  \/ plan'[t] = plan[t] \/ plan'[t] = NoPlan
             \/ \E then, torn : plan'[t] = [NoPlan EXCEPT !.then = then, !.torn = torn]
  <2>1. CASE Open(t)
    <3>1. \/ plan'[t] = plan[t]
          \/ plan'[t] = [NoPlan EXCEPT !.then = "recover", !.torn = plan[t].torn]
      BY <1>0, <2>1 DEF Open, Rebuild
    <3> QED BY <3>1
  <2>2. CASE RebuildBegin(t)
    <3>1. plan'[t] = [NoPlan EXCEPT !.then = "unlock", !.torn = plan[t].torn]
      BY <1>0, <2>2 DEF RebuildBegin, Rebuild
    <3> QED BY <3>1
  <2>3. CASE Close(t)
    BY <1>0, <2>3 DEF Close, Forget
  <2>4. CASE \/ RecoverBegin(t)
             \/ \E n \in CreateNames : CreateBegin(t, n)
             \/ \E n \in Names, accepted \in BOOLEAN : CommitBegin(t, n, accepted)
             \/ \E n \in Names, new \in ForkNames : ForkBegin(t, n, new)
             \/ \E n \in Names : Materialize(t, n)
    <3>1. plan' = plan
      BY <2>4 DEF RecoverBegin, CreateBegin, CommitBegin, ForkBegin, Materialize
    <3> QED BY <3>1
  <2> QED BY <1>1, <2>1, <2>2, <2>3, <2>4 DEF Call
<1>2. ASSUME Step(t)
      PROVE  \/ plan'[t] = plan[t] \/ plan'[t] = NoPlan
             \/ \E then, torn : plan'[t] = [NoPlan EXCEPT !.then = then, !.torn = torn]
             \/ \E torn : \/ plan'[t] = [NoPlan EXCEPT !.torn = torn]
                          \/ plan'[t] = [plan[t] EXCEPT !.torn = torn]
             \/ RebuildStart(t) \/ \E n \in Names : RebuildBranch(t, n)
  <2>1. CASE Recover(t)
    <3>1. PICK torn : torn = (wal = "begun")
      OBVIOUS
    <3>2. \/ plan'[t] = [plan[t] EXCEPT !.torn = torn]
          \/ plan'[t] = [NoPlan EXCEPT !.then = "settle", !.torn = torn]
      BY <1>0, <2>1, <3>1 DEF Recover
    <3> QED BY <3>2
  <2>2. CASE Settle(t) \/ RebuildBranches(t)
    BY <1>0, <2>2 DEF Settle, RebuildBranches
  <2>3. CASE \/ RebuildCommits(t)
             \/ WriteBegin(t) \/ PutPayload(t) \/ PutPages(t) \/ PutObject(t)
             \/ IndexCommit(t) \/ IndexEvents(t) \/ IndexGraph(t)
             \/ UpdateRef(t) \/ UpdateBranchIndex(t) \/ UpdateWorldIndex(t)
             \/ WriteMirror(t) \/ WriteEnd(t) \/ Return(t)
    BY <2>3 DEF RebuildCommits, WriteBegin, PutPayload, PutPages, PutObject, Put, IndexCommit,
                IndexEvents, IndexGraph, UpdateRef, UpdateBranchIndex, UpdateWorldIndex,
                WriteMirror, WriteEnd, Return
  <2> QED BY <1>2, <2>1, <2>2, <2>3 DEF Step
<1>3. ASSUME Crash(t) PROVE plan'[t] = NoPlan
  BY <1>0, <1>3 DEF Crash, Forget
<1> QED BY <1>1, <1>2, <1>3, OneActs DEF Untouched

(* Every step of a recovery or rebuild keeps PlanOK: what rebuild_indexes  *)
(* collects is stored.                                                     *)
LEMMA PlanStep ==
  ASSUME IInv, [Next]_vars, NEW t \in Sessions
  PROVE  PlanOK(t)'
<1>0. /\ plan \in [Sessions -> PlanType] /\ plan[t] \in PlanType
      /\ refs \in [Names -> RefType]
  BY DEF IInv, TypeOK
<1>1. CASE plan'[t] = plan[t]
  BY <1>1, PlanKept
<1>2. CASE plan'[t] = NoPlan
  BY <1>2, PlanFresh DEF NoPlan
<1>3. ASSUME NEW then, NEW torn, plan'[t] = [NoPlan EXCEPT !.then = then, !.torn = torn]
      PROVE  PlanOK(t)'
  BY <1>3, PlanFresh DEF NoPlan
<1>4. ASSUME NEW torn, plan'[t] = [NoPlan EXCEPT !.torn = torn]
      PROVE  PlanOK(t)'
  BY <1>4, PlanFresh DEF NoPlan
<1>5. ASSUME NEW torn, plan'[t] = [plan[t] EXCEPT !.torn = torn]
      PROVE  PlanOK(t)'
  <2>1. /\ plan'[t].refs = plan[t].refs /\ plan'[t].todo = plan[t].todo
        /\ plan'[t].branches = plan[t].branches
    BY <1>0, <1>5 DEF PlanType
  <2> QED BY <2>1, PlanKept
<1>6. ASSUME RebuildStart(t) PROVE PlanOK(t)'
  <2>1. plan'[t] = [plan[t] EXCEPT !.refs = refs, !.todo = {n \in Names : refs[n] # NoRef}]
    BY <1>0, <1>6 DEF RebuildStart
  <2>2. /\ plan'[t].refs = refs /\ plan'[t].todo = {n \in Names : refs[n] # NoRef}
        /\ plan'[t].branches = plan[t].branches
    BY <1>0, <2>1 DEF PlanType
  <2>3. PICK branches : branches = plan[t].branches
    OBVIOUS
  <2>4. PICK old : old = refs
    OBVIOUS
  <2>5. \A n \in Names : RefOK(old[n])' /\ BranchOK(branches[n])'
    BY <2>3, <2>4, EntriesStay DEF IInv, PlanOK, DiskOK
  <2>6. /\ plan'[t].refs = old /\ plan'[t].branches = branches
        /\ \A n \in plan'[t].todo : old[n] # NoRef
    BY <2>2, <2>3, <2>4
  <2> QED BY <2>5, <2>6 DEF PlanOK
<1>7. ASSUME NEW n \in Names, RebuildBranch(t, n) PROVE PlanOK(t)'
  <2>1. n \in plan[t].todo
    BY <1>7 DEF RebuildBranch
  <2>2. PICK hist : hist = RebuiltHistory(t, n)
    OBVIOUS
  <2>3. PICK entry : entry = [id |-> plan[t].refs[n].id, head |-> plan[t].refs[n].head,
                              hist |-> hist]
    OBVIOUS
  <2>4. plan'[t] = [plan[t] EXCEPT !.todo = plan[t].todo \ {n},
                      !.commits = plan[t].commits \cup Range(hist),
                      !.branches = [plan[t].branches EXCEPT ![n] = entry]]
    BY <1>0, <1>7, <2>2, <2>3 DEF RebuildBranch
  <2>5. /\ plan'[t].refs = plan[t].refs /\ plan'[t].todo = plan[t].todo \ {n}
        /\ plan'[t].branches = [plan[t].branches EXCEPT ![n] = entry]
    BY <1>0, <2>4 DEF PlanType
  <2>6. BranchOK(entry)
    BY <2>1, <2>2, <2>3, RebuiltOK DEF BranchOK
  <2>7. PICK its : its = plan[t]
    OBVIOUS
  <2>8. \A m \in Names : plan'[t].branches[m] = its.branches[m] \/ plan'[t].branches[m] = entry
    BY <1>0, <2>5, <2>7 DEF PlanType
  <2>9. \A m \in Names : RefOK(its.refs[m])' /\ BranchOK(its.branches[m])' /\ BranchOK(entry)'
    BY <2>6, <2>7, EntriesStay DEF IInv, PlanOK
  <2>10. \A m \in its.todo : its.refs[m] # NoRef
    BY <2>7 DEF IInv, PlanOK
  <2>11. plan'[t].refs = its.refs /\ plan'[t].todo \subseteq its.todo
    BY <2>5, <2>7
  <2>12. PICK after : after = plan'[t]
    OBVIOUS
  <2>13. /\ \A m \in Names : RefOK(after.refs[m])' /\ BranchOK(after.branches[m])'
         /\ \A m \in after.todo : after.refs[m] # NoRef
    BY <2>8, <2>9, <2>10, <2>11, <2>12
  <2> QED BY <2>12, <2>13 DEF PlanOK
<1> QED BY <1>1, <1>2, <1>3, <1>4, <1>5, <1>6, <1>7, PlanSteps

-----------------------------------------------------------------------------
(* What a session holds and what it is writing.                            *)
LEMMA RestingStep ==
  ASSUME IInv, [Next]_vars, NEW t \in Sessions, mem'[t] = mem[t],
         pc[t] \notin PendingPcs, pc'[t] \notin EntryPcs
  PROVE  MemoryOK(t)' /\ OpOK(t)'
<1>1. PICK c : c = op[t].commit
  OBVIOUS
<1>2. MemoryOK(t)'
  BY <1>1, StoredForKept, MemoryKept
<1> QED BY <1>2 DEF OpOK, EntryPcs

(* A session that another session's step leaves untouched keeps what it knows *)
(* about its memory and its operation.                                     *)
LEMMA UntouchedStep ==
  ASSUME IInv, [Next]_vars, NEW t \in Sessions, Untouched(t)
  PROVE  MemoryOK(t)' /\ OpOK(t)'
<1>1. PICK c : c = op[t].commit
  OBVIOUS
<1>2. \A d : StoredFor(t, d) => StoredFor(t, d)'
  BY <1>1, StoredForKept DEF Untouched
<1>3. MemoryOK(t)'
  BY <1>2, MemoryKept DEF Untouched
<1>4. ASSUME pc[t] \in CommitPcs PROVE CommitOK(t)'
  <2>1. CommitOK(t)
    BY <1>4 DEF IInv, OpOK
  <2>2. c \in Commits /\ log'[c] = log[c]
    BY <1>1, <2>1, StoredStays DEF CommitOK
  <2>3. /\ pc'[t] \in {"pages", "object"} => Payload(c) \in objs'
        /\ pc'[t] = "object" /\ log[c].checkpoint => Pages(c) \in objs'
    BY <1>1, <2>1, ContentGrows DEF CommitOK, Untouched
  <2>4. pc'[t] \notin PendingPcs => Stored(c)'
    BY <1>1, <2>1, StoredStays DEF CommitOK, Untouched
  <2> QED BY <1>1, <2>1, <2>3, <2>4, CommitKept DEF Untouched
<1>5. ASSUME pc[t] \in EntryPcs PROVE EntryOK(t)'
  <2>1. EntryOK(t)
    BY <1>5 DEF IInv, OpOK
  <2>2. pc'[t] \in {"ref", "world"} => op[t].head # NoCommit
    BY <2>1 DEF EntryOK, Untouched
  <2> QED BY <1>2, <2>1, <2>2, EntryKept DEF Untouched
<1> QED BY <1>3, <1>4, <1>5 DEF OpOK, Untouched

(* The steps of a write, in order: each leaves on disk what the next ones  *)
(* count on.                                                               *)
LEMMA WriteStep ==
  ASSUME IInv, [Next]_vars, NEW t \in Sessions,
         \/ WriteBegin(t) \/ PutPayload(t) \/ PutPages(t) \/ PutObject(t)
         \/ IndexCommit(t) \/ IndexEvents(t) \/ IndexGraph(t)
         \/ UpdateRef(t) \/ UpdateBranchIndex(t) \/ UpdateWorldIndex(t)
         \/ WriteMirror(t) \/ WriteEnd(t)
  PROVE  MemoryOK(t)' /\ OpOK(t)'
<1>0. /\ op'[t] = op[t] /\ mem'[t] = mem[t] /\ log' = log /\ objs \subseteq objs'
      /\ pc \in [Sessions -> PcValues]
  BY DEF WriteBegin, PutPayload, PutPages, PutObject, Put, IndexCommit,
         IndexEvents, IndexGraph, UpdateRef, UpdateBranchIndex, UpdateWorldIndex,
         WriteMirror, WriteEnd, objects, memory, IInv, TypeOK
<1>1. PICK c : c = op[t].commit
  OBVIOUS
<1>2. /\ pc[t] = "begin"   => pc'[t] = "payload"
      /\ pc[t] = "payload" => /\ pc'[t] = IF log[c].checkpoint THEN "pages" ELSE "object"
                              /\ Payload(c) \in objs'
      /\ pc[t] = "pages"   => pc'[t] = "object" /\ Pages(c) \in objs'
      /\ pc[t] = "object"  => pc'[t] = "commits" /\ Object(c) \in objs'
      /\ pc[t] = "commits" => pc'[t] = "events"
      /\ pc[t] = "events"  => pc'[t] = "graph"
      /\ pc[t] = "graph"   => pc'[t] = IF op[t].head # NoCommit THEN "ref" ELSE "branch"
      /\ pc[t] = "ref"     => pc'[t] = "branch"
      /\ pc[t] = "branch"  => pc'[t] = IF op[t].head # NoCommit THEN "world" ELSE "mirror"
      /\ pc[t] = "world"   => pc'[t] = "mirror"
      /\ pc[t] = "mirror"  => pc'[t] \in {"unlock", "end"}
      /\ pc[t] = "end"     => pc'[t] = "unlock"
      /\ pc[t] \in EntryPcs \cup {"end"}
  BY <1>0, <1>1
     DEF WriteBegin, PutPayload, PutPages, PutObject, Put, IndexCommit,
         IndexEvents, IndexGraph, UpdateRef, UpdateBranchIndex, UpdateWorldIndex,
         WriteMirror, WriteEnd, Goto, EntryPcs, CommitPcs, PendingPcs
<1>3. pc[t] \in CommitPcs =>
        /\ c \in Commits
        /\ \A i \in DOMAIN Chain(c) : i < Len(Chain(c)) => Held(Chain(c)[i])
        /\ pc[t] \in {"pages", "object"} => Payload(c) \in objs
        /\ pc[t] = "object" /\ log[c].checkpoint => Pages(c) \in objs
        /\ pc[t] \notin PendingPcs => Stored(c)
  BY <1>1 DEF IInv, OpOK, CommitOK
<1>4. ASSUME pc[t] = "object" PROVE Stored(c)'
  <2>1. /\ c \in Commits /\ Payload(c) \in objs' /\ Object(c) \in objs'
        /\ log[c].checkpoint => Pages(c) \in objs'
    BY <1>0, <1>2, <1>3, <1>4 DEF CommitPcs, PendingPcs
  <2>2. Held(c)'
    BY <1>0, <2>1 DEF Held, Payload, Object, Pages
  <2>3. PICK chain : chain = log[c].chain
    OBVIOUS
  <2>4. /\ DOMAIN chain = 1..Len(chain) /\ Len(chain) \in Nat \ {0}
        /\ chain[Len(chain)] = c /\ \A i \in DOMAIN chain : chain[i] \in Commits
    <3>1. /\ Chain(c) \in Seq(Nat) /\ Len(Chain(c)) \in Nat \ {0}
          /\ \A i \in DOMAIN Chain(c) : Chain(c)[i] \in Commits
      BY <2>1, ChainIn DEF IInv
    <3>2. Chain(c)[Len(Chain(c))] = c
      BY <2>1 DEF IInv, LogOK, ChainOK
    <3>3. DOMAIN Chain(c) = 1..Len(Chain(c))
      BY <3>1, LenProperties
    <3> QED BY <2>3, <3>1, <3>2, <3>3 DEF Chain
  <2>5. ASSUME NEW i \in DOMAIN chain PROVE Held(chain[i])'
    <3>1. CASE i = Len(chain)
      BY <2>2, <2>4, <3>1
    <3>2. CASE i # Len(chain)
      <4>1. i < Len(chain)
        BY <2>4, <3>2
      <4>2. Held(chain[i])
        BY <1>3, <1>4, <2>3, <4>1 DEF CommitPcs, PendingPcs, Chain
      <4> QED BY <1>0, <4>2 DEF Held, Payload, Object, Pages
    <3> QED BY <3>1, <3>2
  <2>6. c \in Commits'
    BY <2>1, StoredStays
  <2>7. log'[c].chain = chain
    BY <1>0, <2>3
  <2> QED BY <2>5, <2>6, <2>7 DEF Stored, Chain
<1>5. \A d : StoredFor(t, d) => StoredFor(t, d)'
  <2>1. pc[t] \in PendingPcs => (pc'[t] \in PendingPcs /\ op'[t].commit = c) \/ Stored(c)'
    BY <1>0, <1>1, <1>2, <1>4 DEF PendingPcs
  <2> QED BY <1>1, <2>1, StoredForKept
<1>6. MemoryOK(t)'
  BY <1>0, <1>5, MemoryKept
<1>7. ASSUME pc'[t] \in CommitPcs PROVE CommitOK(t)'
  <2>1. pc[t] \in CommitPcs
    BY <1>2, <1>7 DEF CommitPcs, PendingPcs, EntryPcs
  <2>2. CommitOK(t)
    BY <2>1 DEF IInv, OpOK
  <2>3. pc'[t] \in {"pages", "object"} => Payload(c) \in objs'
    BY <1>0, <1>2, <1>3, <2>1 DEF CommitPcs, PendingPcs
  <2>4. pc'[t] = "object" /\ log[c].checkpoint => Pages(c) \in objs'
    BY <1>0, <1>2, <1>3, <2>1 DEF CommitPcs, PendingPcs
  <2>5. pc'[t] \notin PendingPcs => Stored(c)'
    BY <1>2, <1>3, <1>4, <2>1, StoredStays DEF CommitPcs, PendingPcs
  <2> QED BY <1>0, <1>1, <2>2, <2>3, <2>4, <2>5, CommitKept
<1>8. ASSUME pc'[t] \in EntryPcs PROVE EntryOK(t)'
  <2>1. pc[t] \in EntryPcs
    BY <1>2, <1>8 DEF CommitPcs, PendingPcs, EntryPcs
  <2>2. EntryOK(t)
    BY <2>1 DEF IInv, OpOK
  <2>3. pc'[t] \in {"ref", "world"} => op[t].head # NoCommit
    BY <1>2, <2>1 DEF CommitPcs, PendingPcs, EntryPcs
  <2> QED BY <1>0, <1>5, <2>2, <2>3, EntryKept
<1> QED BY <1>6, <1>7, <1>8 DEF OpOK

(* A process that ends holds nothing in memory and does nothing.           *)
LEMMA ForgetStep ==
  ASSUME IInv, NEW t \in Sessions, Forget(t), pc'[t] = "down"
  PROVE  MemoryOK(t)' /\ OpOK(t)'
<1>1. mem'[t] = << >>
  BY DEF Forget, IInv, TypeOK
<1>2. DOMAIN mem'[t] = {}
  BY <1>1
<1> QED BY <1>2 DEF MemoryOK, OpOK, EntryPcs, CommitPcs, PendingPcs

(* Materialising a branch brings only stored commits into memory.          *)
LEMMA MaterializeStep ==
  ASSUME IInv, [Next]_vars, NEW t \in Sessions, NEW n \in Names, Materialize(t, n)
  PROVE  MemoryOK(t)' /\ OpOK(t)'
<1>1. /\ pc[t] = "idle" /\ pc' = pc /\ CanLoad(t, n) /\ mem'[t] = Loaded(t, n)
  BY DEF Materialize, CanLoad, IInv, TypeOK
<1>2. PICK branches : branches = Loaded(t, n)
  OBVIOUS
<1>3. \A i \in DOMAIN branches : BranchGood(branches[i])
  BY <1>1, <1>2, LoadedOK DEF BranchGood
<1>4. MemoryOK(t)'
  <2> SUFFICES ASSUME NEW i \in DOMAIN branches
               PROVE  /\ StoredFor(t, branches[i].head)' /\ log'[branches[i].head].accepted
                      /\ \A j \in DOMAIN branches[i].hist : StoredFor(t, branches[i].hist[j])'
                      /\ HasAccepted(branches[i].hist)'
    <3>1. mem'[t] = branches
      BY <1>1, <1>2
    <3> QED BY <3>1, MemoryFrom
  <2> QED BY <1>3, GoodStays
<1> QED BY <1>1, <1>4 DEF OpOK, EntryPcs, CommitPcs, PendingPcs

(* Every step keeps MemoryOK and OpOK: the writes of write_commit come in  *)
(* an order in which each finds on disk what it refers to.                 *)
LEMMA SessionStep ==
  ASSUME IInv, [Next]_vars, NEW t \in Sessions
  PROVE  MemoryOK(t)' /\ OpOK(t)'
<1>0. /\ pc \in [Sessions -> PcValues] /\ plan[t] \in PlanType
      /\ mem \in [Sessions -> Seq(MemoryType)]
  BY DEF IInv, TypeOK
<1>1. CASE Untouched(t)
  BY <1>1, UntouchedStep
<1>2. CASE Crash(t) \/ Close(t)
  BY <1>0, <1>2, ForgetStep DEF Crash, Close, Goto
<1>3. CASE \/ Open(t) \/ RecoverBegin(t) \/ RebuildBegin(t)
           \/ Recover(t) \/ Settle(t) \/ RebuildStart(t) \/ RebuildCommits(t)
           \/ RebuildBranches(t) \/ Return(t) \/ \E n \in Names : RebuildBranch(t, n)
  <2>1. mem'[t] = mem[t]
    BY <1>3 DEF Open, RecoverBegin, RebuildBegin, Recover, Settle, RebuildStart,
                RebuildCommits, RebuildBranches, Return, RebuildBranch, memory
  <2>2. plan[t].then \in {"recover", "settle", "unlock", "idle"}
    BY <1>0 DEF PlanType
  <2>3. /\ pc[t] \in {"down", "idle", "recover", "settle", "rebuild", "collect", "replace",
                      "unlock"}
        /\ pc'[t] \in {"recover", "settle", "rebuild", "collect", "replace", "unlock", "idle"}
    BY <1>0, <1>3, <2>2
       DEF Open, RecoverBegin, RebuildBegin, Recover, Settle, RebuildStart,
           RebuildCommits, RebuildBranches, Return, RebuildBranch, Goto
  <2>4. pc[t] \notin PendingPcs /\ pc'[t] \notin EntryPcs
    BY <2>3 DEF PendingPcs, CommitPcs, EntryPcs
  <2> QED BY <2>1, <2>4, RestingStep
<1>4. CASE \E n \in Names : Materialize(t, n)
  BY <1>4, MaterializeStep
<1>5. CASE \/ WriteBegin(t) \/ PutPayload(t) \/ PutPages(t) \/ PutObject(t)
           \/ IndexCommit(t) \/ IndexEvents(t) \/ IndexGraph(t)
           \/ UpdateRef(t) \/ UpdateBranchIndex(t) \/ UpdateWorldIndex(t)
           \/ WriteMirror(t) \/ WriteEnd(t)
  BY <1>5, WriteStep
<1>6. ASSUME NEW n \in CreateNames, CreateBegin(t, n) PROVE MemoryOK(t)' /\ OpOK(t)'
  <2>1. n \in Names
    BY NamesAssumption
  <2>2. \E branches, next, doing : Begun(t, branches, next, doing)
    BY <1>6, <2>1, CreateStep
  <2> QED BY <2>2 DEF Begun
<1>7. ASSUME NEW n \in Names, NEW accepted \in BOOLEAN, CommitBegin(t, n, accepted)
      PROVE  MemoryOK(t)' /\ OpOK(t)'
  <2>1. \E branches, next, doing : Begun(t, branches, next, doing)
    BY <1>7, CommitStep
  <2> QED BY <2>1 DEF Begun
<1>8. ASSUME NEW n \in Names, NEW new \in ForkNames, ForkBegin(t, n, new)
      PROVE  MemoryOK(t)' /\ OpOK(t)'
  <2>1. new \in Names
    BY NamesAssumption
  <2>2. \E branches, next, doing : Begun(t, branches, next, doing)
    BY <1>8, <2>1, ForkStep
  <2> QED BY <2>2 DEF Begun
<1>9. CASE Call(t)
  BY <1>2, <1>3, <1>4, <1>6, <1>7, <1>8, <1>9 DEF Call
<1>10. CASE Step(t)
  BY <1>3, <1>5, <1>10 DEF Step
<1> QED BY <1>1, <1>2, <1>9, <1>10, OneActs

-----------------------------------------------------------------------------
(* The write lock.                                                         *)
LEMMA LockFrame ==
  ASSUME IInv, [Next]_vars, NEW t \in Sessions, lock = t, lock' # t
  PROVE  pc'[t] \in {"idle", "down"}
<1>0. pc \in [Sessions -> PcValues] /\ lock # Free /\ lock # Stale
  BY LockAssumption DEF IInv, TypeOK
<1>1. CASE UNCHANGED vars
  BY <1>1 DEF vars
<1>2. ASSUME NEW s \in Sessions, Call(s) PROVE FALSE
  BY <1>0, <1>2 DEF Call, Open, Close, RecoverBegin, RebuildBegin, CreateBegin, CommitBegin,
                    ForkBegin, Materialize, Acquire
<1>3. ASSUME NEW s \in Sessions, Step(s) PROVE pc'[t] \in {"idle", "down"}
  <2>1. CASE Return(s)
    <3>1. pc[s] = "unlock" /\ pc'[s] = "idle"
      BY <1>0, <2>1 DEF Return, Goto
    <3>2. lock = s
      BY <3>1 DEF IInv, LockOK, WriterPcs
    <3> QED BY <3>1, <3>2
  <2>2. CASE ~Return(s)
    BY <1>3, <2>2
       DEF Step, Recover, Settle, RebuildStart, RebuildBranch, RebuildCommits,
           RebuildBranches, WriteBegin, PutPayload, PutPages, PutObject, Put, IndexCommit,
           IndexEvents, IndexGraph, UpdateRef, UpdateBranchIndex, UpdateWorldIndex,
           WriteMirror, WriteEnd
  <2> QED BY <2>1, <2>2
<1>4. ASSUME NEW s \in Sessions, Crash(s) PROVE pc'[t] \in {"idle", "down"}
  BY <1>0, <1>4 DEF Crash
<1>5. CASE ClearLock
  BY <1>0, <1>5 DEF ClearLock
<1> QED BY <1>1, <1>2, <1>3, <1>4, <1>5 DEF Next

(* Every step keeps LockOK: only the holder of the lock writes, and only the *)
(* holder gives it back.                                                   *)
LEMMA LockStep ==
  ASSUME IInv, [Next]_vars, NEW t \in Sessions
  PROVE  LockOK(t)'
<1>0. /\ pc \in [Sessions -> PcValues] /\ plan \in [Sessions -> PlanType]
      /\ plan[t] \in PlanType /\ op \in [Sessions -> OpType]
  BY DEF IInv, TypeOK
<1> DEFINE Rebuilding == pc[t] \in {"rebuild", "collect", "replace"} /\ plan[t].then = "unlock"
<1>1. /\ pc[t] \in WriterPcs => lock = t
      /\ Rebuilding => lock = t
  BY DEF IInv, LockOK
<1> SUFFICES ASSUME lock' # t
             PROVE  /\ pc'[t] \notin WriterPcs
                    /\ ~(pc'[t] \in {"rebuild", "collect", "replace"}
                         /\ plan'[t].then = "unlock")
  BY DEF LockOK
<1>2. CASE lock = t
  BY <1>2, LockFrame DEF WriterPcs
<1>3. CASE lock # t
  <2>1. pc[t] \notin WriterPcs /\ ~Rebuilding
    BY <1>1, <1>3
  <2>2. CASE Untouched(t)
    BY <2>1, <2>2 DEF Untouched
  <2>3. CASE Open(t)
    <3>1. /\ pc'[t] \in {"recover", "rebuild"}
          /\ pc'[t] = "rebuild" => plan'[t].then = "recover"
      BY <1>0, <2>3 DEF Open, Goto, Rebuild, NoPlan
    <3> QED BY <3>1 DEF WriterPcs
  <2>4. CASE Recover(t)
    <3>1. /\ pc'[t] \in {"settle", "rebuild"}
          /\ pc'[t] = "rebuild" => plan'[t].then = "settle"
      BY <1>0, <2>4 DEF Recover, Goto, NoPlan
    <3> QED BY <3>1 DEF WriterPcs
  <2>5. CASE Settle(t) \/ Close(t) \/ Crash(t)
    BY <1>0, <1>3, <2>5 DEF Settle, Close, Crash, Goto, WriterPcs
  <2>6. CASE RebuildStart(t) \/ RebuildCommits(t) \/ \E n \in Names : RebuildBranch(t, n)
    <3>1. /\ pc[t] \in {"rebuild", "collect"} /\ pc'[t] \in {"collect", "replace"}
      BY <1>0, <2>6 DEF RebuildStart, RebuildCommits, RebuildBranch, Goto
    <3>2. CASE RebuildCommits(t)
      BY <2>1, <3>1, <3>2 DEF WriterPcs, RebuildCommits
    <3>3. CASE RebuildStart(t)
      <4>1. plan'[t] = [plan[t] EXCEPT !.refs = refs, !.todo = {n \in Names : refs[n] # NoRef}]
        BY <1>0, <3>3 DEF RebuildStart
      <4>2. plan'[t].then = plan[t].then
        BY <1>0, <4>1 DEF PlanType
      <4> QED BY <2>1, <3>1, <4>2 DEF WriterPcs
    <3>4. ASSUME NEW n \in Names, RebuildBranch(t, n) PROVE plan'[t].then = plan[t].then
      <4>1. \E todo, commits, branches :
              plan'[t] = [plan[t] EXCEPT !.todo = todo, !.commits = commits,
                                         !.branches = branches]
        BY <1>0, <3>4 DEF RebuildBranch
      <4> QED BY <1>0, <4>1 DEF PlanType
    <3> QED BY <2>1, <2>6, <3>1, <3>2, <3>3, <3>4 DEF WriterPcs
  <2>7. CASE RebuildBranches(t)
    <3>1. pc[t] = "replace" /\ pc'[t] = plan[t].then
      BY <1>0, <2>7 DEF RebuildBranches, Goto
    <3>2. plan[t].then \in {"recover", "settle", "idle"}
      BY <1>0, <2>1, <3>1 DEF PlanType
    <3> QED BY <3>1, <3>2 DEF WriterPcs
  <2>8. CASE \E n \in Names : Materialize(t, n)
    BY <2>1, <2>8 DEF Materialize
  <2>9. CASE RecoverBegin(t) \/ RebuildBegin(t)
    BY <2>9 DEF RecoverBegin, RebuildBegin, Acquire
  <2>10. CASE \/ \E n \in CreateNames : CreateBegin(t, n)
              \/ \E n \in Names, accepted \in BOOLEAN : CommitBegin(t, n, accepted)
              \/ \E n \in Names, new \in ForkNames : ForkBegin(t, n, new)
    BY <2>10 DEF CreateBegin, CommitBegin, ForkBegin, Acquire
  <2>11. CASE \/ WriteBegin(t) \/ PutPayload(t) \/ PutPages(t) \/ PutObject(t)
              \/ IndexCommit(t) \/ IndexEvents(t) \/ IndexGraph(t)
              \/ UpdateRef(t) \/ UpdateBranchIndex(t) \/ UpdateWorldIndex(t)
              \/ WriteMirror(t) \/ WriteEnd(t) \/ Return(t)
    <3>1. pc[t] \in WriterPcs
      BY <2>11 DEF WriteBegin, PutPayload, PutPages, PutObject, Put, IndexCommit,
                   IndexEvents, IndexGraph, UpdateRef, UpdateBranchIndex, UpdateWorldIndex,
                   WriteMirror, WriteEnd, Return, Goto, WriterPcs
    <3> QED BY <2>1, <3>1
  <2> QED BY <2>2, <2>3, <2>4, <2>5, <2>6, <2>7, <2>8, <2>9, <2>10, <2>11, OneActs
          DEF Call, Step
<1> QED BY <1>2, <1>3

-----------------------------------------------------------------------------
(* Ids.                                                                    *)
LEMMA EntryIds ==
  ASSUME IInv, [Next]_vars
  PROVE  \A n \in Names : refs'[n].id <= MaxId /\ branchIdx'[n].id <= MaxId
<1>0. /\ refs \in [Names -> RefType] /\ branchIdx \in [Names -> BranchType]
      /\ \A n \in Names : branchIdx[n] \in BranchType
      /\ \A n \in Names : refs[n].id <= MaxId /\ branchIdx[n].id <= MaxId
      /\ \A s \in Sessions :
           /\ op[s].id <= MaxId
           /\ \A n \in Names : plan[s].branches[n].id <= MaxId
  BY DEF IInv, TypeOK, IdsBounded
<1>1. CASE UNCHANGED <<refs, branchIdx, mirror>>
  BY <1>0, <1>1
<1>2. ASSUME NEW s \in Sessions, UpdateRef(s)
      PROVE  \A n \in Names : refs'[n].id <= MaxId /\ branchIdx'[n].id <= MaxId
  <2>1. branchIdx' = branchIdx
    BY <1>2 DEF UpdateRef, indexes
  <2>2. \A n \in Names : refs'[n] = refs[n] \/ refs'[n].id = op[s].id
    BY <1>0, <1>2 DEF UpdateRef
  <2> QED BY <1>0, <2>1, <2>2
<1>3. ASSUME NEW s \in Sessions, UpdateBranchIndex(s)
      PROVE  \A n \in Names : refs'[n].id <= MaxId /\ branchIdx'[n].id <= MaxId
  <2>1. refs' = refs
    BY <1>3 DEF UpdateBranchIndex
  <2>2. \A n \in Names : \/ branchIdx'[n] = branchIdx[n] \/ branchIdx'[n].id = op[s].id
                         \/ branchIdx'[n] = [branchIdx[n] EXCEPT !.hist = op[s].hist]
    BY <1>0, <1>3 DEF UpdateBranchIndex
  <2>3. \A n \in Names : [branchIdx[n] EXCEPT !.hist = op[s].hist].id = branchIdx[n].id
    BY <1>0 DEF BranchType
  <2>4. \A n \in Names : branchIdx'[n].id = branchIdx[n].id \/ branchIdx'[n].id = op[s].id
    BY <2>2, <2>3
  <2> QED BY <1>0, <2>1, <2>4
<1>4. ASSUME NEW s \in Sessions, WriteMirror(s) \/ RebuildBranches(s)
      PROVE  \A n \in Names : refs'[n].id <= MaxId /\ branchIdx'[n].id <= MaxId
  BY <1>0, <1>4 DEF WriteMirror, RebuildBranches, indexes
<1> QED BY <1>1, <1>2, <1>3, <1>4, DiskFrame

(* Every step keeps the ids of a rebuild plan bounded: they are read off the *)
(* refs.                                                                   *)
LEMMA PlanIds ==
  ASSUME IInv, [Next]_vars, NEW t \in Sessions
  PROVE  \A n \in Names : plan'[t].refs[n].id <= MaxId /\ plan'[t].branches[n].id <= MaxId
<1>0. /\ plan \in [Sessions -> PlanType] /\ plan[t] \in PlanType
      /\ \A n \in Names : /\ plan[t].refs[n].id <= MaxId /\ plan[t].branches[n].id <= MaxId
                          /\ refs[n].id <= MaxId
      /\ MaxId \in Nat
  BY LogStep DEF IInv, TypeOK, IdsBounded
<1>1. CASE plan'[t].refs = plan[t].refs /\ plan'[t].branches = plan[t].branches
  BY <1>0, <1>1
<1>2. CASE plan'[t].refs = NoPlan.refs /\ plan'[t].branches = NoPlan.branches
  <2>1. \A n \in Names : plan'[t].refs[n].id = 0 /\ plan'[t].branches[n].id = 0
    BY <1>2 DEF NoPlan, NoRef, NoBranch
  <2> QED BY <1>0, <2>1
<1>3. ASSUME RebuildStart(t)
      PROVE  \A n \in Names : plan'[t].refs[n].id <= MaxId /\ plan'[t].branches[n].id <= MaxId
  <2>1. plan'[t] = [plan[t] EXCEPT !.refs = refs, !.todo = {n \in Names : refs[n] # NoRef}]
    BY <1>0, <1>3 DEF RebuildStart
  <2>2. plan'[t].refs = refs /\ plan'[t].branches = plan[t].branches
    BY <1>0, <2>1 DEF PlanType
  <2> QED BY <1>0, <2>2
<1>4. ASSUME NEW n \in Names, RebuildBranch(t, n)
      PROVE  \A m \in Names : plan'[t].refs[m].id <= MaxId /\ plan'[t].branches[m].id <= MaxId
  <2>1. PICK entry : entry = [id |-> plan[t].refs[n].id, head |-> plan[t].refs[n].head,
                              hist |-> RebuiltHistory(t, n)]
    OBVIOUS
  <2>2. plan'[t] = [plan[t] EXCEPT !.todo = plan[t].todo \ {n},
                      !.commits = plan[t].commits \cup Range(RebuiltHistory(t, n)),
                      !.branches = [plan[t].branches EXCEPT ![n] = entry]]
    BY <1>0, <1>4, <2>1 DEF RebuildBranch
  <2>3. /\ plan'[t].refs = plan[t].refs
        /\ plan'[t].branches = [plan[t].branches EXCEPT ![n] = entry]
    BY <1>0, <2>2 DEF PlanType
  <2>4. \A m \in Names : plan'[t].branches[m] = plan[t].branches[m]
                         \/ plan'[t].branches[m] = entry
    BY <1>0, <2>3 DEF PlanType
  <2>5. entry.id = plan[t].refs[n].id
    BY <2>1
  <2> QED BY <1>0, <2>3, <2>4, <2>5
<1>5. CASE plan'[t] = plan[t] \/ plan'[t] = NoPlan
  BY <1>1, <1>2, <1>5
<1>6. ASSUME NEW then, NEW torn,
             \/ plan'[t] = [NoPlan EXCEPT !.then = then, !.torn = torn]
             \/ plan'[t] = [NoPlan EXCEPT !.torn = torn]
      PROVE  plan'[t].refs = NoPlan.refs /\ plan'[t].branches = NoPlan.branches
  BY <1>6 DEF NoPlan
<1>7. ASSUME NEW torn, plan'[t] = [plan[t] EXCEPT !.torn = torn]
      PROVE  plan'[t].refs = plan[t].refs /\ plan'[t].branches = plan[t].branches
  BY <1>0, <1>7 DEF PlanType
<1> QED BY <1>1, <1>2, <1>3, <1>4, <1>5, <1>6, <1>7, PlanSteps

(* Every step keeps the ids that a session knows bounded by the number of  *)
(* branches created and forked.                                            *)
LEMMA SessionIds ==
  ASSUME IInv, [Next]_vars, NEW t \in Sessions
  PROVE  /\ nextId'[t] <= MaxId' + 1 /\ op'[t].id <= MaxId'
         /\ \A i \in DOMAIN mem'[t] : mem'[t][i].id <= MaxId'
<1>0. /\ op \in [Sessions -> OpType] /\ mem \in [Sessions -> Seq(MemoryType)]
      /\ nextId \in [Sessions -> Nat] /\ pc \in [Sessions -> PcValues]
      /\ MaxId \in Nat /\ MaxId' \in Nat /\ MaxId <= MaxId'
      /\ nextId[t] <= MaxId + 1 /\ op[t].id <= MaxId
      /\ \A i \in DOMAIN mem[t] : mem[t][i].id <= MaxId
      /\ op[t].id \in Nat /\ nextId[t] \in Nat
      /\ \A i \in DOMAIN mem[t] : mem[t][i].id \in Nat
  <2>1. op[t] \in OpType /\ \A i \in DOMAIN mem[t] : mem[t][i] \in MemoryType
    BY DEF IInv, TypeOK
  <2>2. op[t].id \in Nat /\ \A i \in DOMAIN mem[t] : mem[t][i].id \in Nat
    BY <2>1 DEF OpType, MemoryType
  <2> QED BY <2>2, LogStep DEF IInv, TypeOK, IdsBounded
<1>1. CASE mem'[t] = mem[t] /\ nextId'[t] = nextId[t] /\ (op'[t] = op[t] \/ op'[t].id = 0)
  BY <1>0, <1>1
<1>2. CASE \E branches, next, doing : Begun(t, branches, next, doing)
  BY <1>0, <1>2 DEF Begun
<1>3. ASSUME NEW n \in Names, Materialize(t, n)
      PROVE  /\ nextId'[t] <= MaxId' + 1 /\ op'[t].id <= MaxId'
             /\ \A i \in DOMAIN mem'[t] : mem'[t][i].id <= MaxId'
  <2>1. /\ pc[t] = "idle" /\ CanLoad(t, n) /\ mem'[t] = Loaded(t, n)
        /\ nextId'[t] = NextIdAfterLoad(t, n) /\ op' = op
    BY <1>0, <1>3 DEF Materialize, CanLoad
  <2>2. PICK branches : branches = Loaded(t, n)
    OBVIOUS
  <2>3. PICK next : next = NextIdAfterLoad(t, n)
    OBVIOUS
  <2>4. /\ branches \in Seq(MemoryType) /\ \A i \in DOMAIN branches : branches[i].id <= MaxId
        /\ next \in Nat /\ next <= MaxId + 1
    BY <2>1, <2>2, <2>3, LoadedOK
  <2>5. \A i \in DOMAIN branches : branches[i].id \in Nat
    <3>1. \A i \in DOMAIN branches : branches[i] \in MemoryType
      BY <2>4
    <3> QED BY <3>1 DEF MemoryType
  <2> QED BY <1>0, <2>1, <2>2, <2>3, <2>4, <2>5
<1>4. ASSUME Forget(t)
      PROVE  /\ nextId'[t] <= MaxId' + 1 /\ op'[t].id <= MaxId'
             /\ \A i \in DOMAIN mem'[t] : mem'[t][i].id <= MaxId'
  <2>1. nextId'[t] = 1 /\ mem'[t] = << >> /\ op'[t] = NoOp
    BY <1>0, <1>4 DEF Forget
  <2>2. DOMAIN mem'[t] = {} /\ op'[t].id = 0
    BY <2>1 DEF NoOp
  <2> QED BY <1>0, <2>1, <2>2
<1>5. CASE Call(t)
  <2>1. CASE Open(t) \/ RecoverBegin(t) \/ RebuildBegin(t)
    BY <1>0, <1>1, <2>1 DEF Open, RecoverBegin, RebuildBegin, memory, NoOp
  <2>2. CASE Close(t)
    BY <1>4, <2>2 DEF Close
  <2>3. ASSUME NEW n \in CreateNames, CreateBegin(t, n)
        PROVE  \E branches, next, doing : Begun(t, branches, next, doing)
    <3>1. n \in Names
      BY NamesAssumption
    <3> QED BY <2>3, <3>1, CreateStep
  <2>4. ASSUME NEW n \in Names, NEW accepted \in BOOLEAN, CommitBegin(t, n, accepted)
        PROVE  \E branches, next, doing : Begun(t, branches, next, doing)
    BY <2>4, CommitStep
  <2>5. ASSUME NEW n \in Names, NEW new \in ForkNames, ForkBegin(t, n, new)
        PROVE  \E branches, next, doing : Begun(t, branches, next, doing)
    <3>1. new \in Names
      BY NamesAssumption
    <3> QED BY <2>5, <3>1, ForkStep
  <2> QED BY <1>2, <1>3, <1>5, <2>1, <2>2, <2>3, <2>4, <2>5 DEF Call
<1>6. CASE Step(t)
  <2>1. mem'[t] = mem[t] /\ nextId'[t] = nextId[t]
    BY <1>6 DEF Step, Recover, Settle, RebuildStart, RebuildBranch, RebuildCommits,
       RebuildBranches, WriteBegin, PutPayload, PutPages, PutObject, Put, IndexCommit,
       IndexEvents, IndexGraph, UpdateRef, UpdateBranchIndex, UpdateWorldIndex,
       WriteMirror, WriteEnd, Return, memory
  <2>2. ASSUME ~Return(t) PROVE op' = op
    BY <1>6, <2>2 DEF Step, Recover, Settle, RebuildStart, RebuildBranch, RebuildCommits,
       RebuildBranches, WriteBegin, PutPayload, PutPages, PutObject, Put, IndexCommit,
       IndexEvents, IndexGraph, UpdateRef, UpdateBranchIndex, UpdateWorldIndex,
       WriteMirror, WriteEnd
  <2>3. ASSUME Return(t) PROVE op'[t].id = 0
    BY <1>0, <2>3 DEF Return, NoOp
  <2> QED BY <1>1, <2>1, <2>2, <2>3
<1>7. CASE Crash(t)
  BY <1>4, <1>7 DEF Crash
<1>8. CASE Untouched(t)
  BY <1>1, <1>8 DEF Untouched
<1> QED BY <1>5, <1>6, <1>7, <1>8, OneActs

(* Every step keeps IdsBounded.                                            *)
LEMMA IdsStep ==
  ASSUME IInv, [Next]_vars
  PROVE  IdsBounded'
<1>0. /\ refs' \in [Names -> RefType] /\ branchIdx' \in [Names -> BranchType]
      /\ plan' \in [Sessions -> PlanType] /\ MaxId \in Nat /\ MaxId' \in Nat /\ MaxId <= MaxId'
  BY TypeStep, LogStep DEF TypeOK
<1>1. ASSUME NEW n \in Names PROVE refs'[n].id <= MaxId' /\ branchIdx'[n].id <= MaxId'
  <2>1. refs'[n].id \in Nat /\ branchIdx'[n].id \in Nat
    BY <1>0 DEF RefType, BranchType
  <2> QED BY <1>0, <2>1, EntryIds
<1>2. ASSUME NEW s \in Sessions, NEW n \in Names
      PROVE  plan'[s].refs[n].id <= MaxId' /\ plan'[s].branches[n].id <= MaxId'
  <2>1. plan'[s] \in PlanType
    BY <1>0
  <2>2. plan'[s].refs[n] \in RefType /\ plan'[s].branches[n] \in BranchType
    BY <2>1 DEF PlanType
  <2>3. plan'[s].refs[n].id \in Nat /\ plan'[s].branches[n].id \in Nat
    BY <2>2 DEF RefType, BranchType
  <2> QED BY <1>0, <2>3, PlanIds
<1> QED BY <1>1, <1>2, SessionIds DEF IdsBounded

-----------------------------------------------------------------------------
(* The inductive invariant.                                                *)
LEMMA InitIInv == Init => IInv
<1> SUFFICES ASSUME Init PROVE IInv
  OBVIOUS
<1>1. TypeOK
  <2>1. /\ plan \in [Sessions -> PlanType] /\ op \in [Sessions -> OpType]
        /\ pc \in [Sessions -> PcValues]
    BY NoPlanType, NoOpType DEF Init, PcValues
  <2>2. refs \in [Names -> RefType] /\ branchIdx \in [Names -> BranchType]
    BY DEF Init, NoRef, NoBranch, RefType, BranchType, NoCommit
  <2>3. /\ log \in Seq(CommitRecord) /\ mem \in [Sessions -> Seq(MemoryType)]
        /\ mirror \in [Names -> Seq(Nat)]
    BY DEF Init
  <2> QED BY <2>1, <2>2, <2>3 DEF Init, TypeOK, NoCommit
<1>2. Len(log) = 0 /\ MaxId = 0 /\ Commits = {}
  BY DEF Init, MaxId, Commits
<1>3. \A s \in Sessions : DOMAIN mem[s] = {}
  BY DEF Init
<1>4. IdsBounded
  <2>1. \A s \in Sessions : op[s].id = 0 /\ nextId[s] = 1
    BY DEF Init, NoOp
  <2>2. \A n \in Names : refs[n].id = 0 /\ branchIdx[n].id = 0
    BY DEF Init, NoRef, NoBranch
  <2>3. \A s \in Sessions, n \in Names :
          plan[s].refs[n].id = 0 /\ plan[s].branches[n].id = 0
    BY DEF Init, NoPlan, NoRef, NoBranch
  <2> QED BY <1>2, <1>3, <2>1, <2>2, <2>3 DEF IdsBounded
<1>5. LogOK
  BY <1>2 DEF LogOK
<1>6. DiskOK
  <2>1. \A n \in Names : mirror[n] = << >>
    BY DEF Init
  <2>2. \A n \in Names : DOMAIN mirror[n] = {}
    BY <2>1
  <2> QED BY <2>2 DEF Init, DiskOK, RefOK, BranchOK
<1>7. ASSUME NEW s \in Sessions PROVE MemoryOK(s) /\ OpOK(s) /\ PlanOK(s) /\ LockOK(s)
  <2>1. MemoryOK(s)
    BY <1>3 DEF MemoryOK
  <2>2. OpOK(s) /\ LockOK(s)
    BY DEF Init, OpOK, LockOK, WriterPcs, EntryPcs, CommitPcs, PendingPcs
  <2>3. PlanOK(s)
    BY DEF Init, PlanOK, NoPlan, RefOK, BranchOK
  <2> QED BY <2>1, <2>2, <2>3
<1> QED BY <1>1, <1>4, <1>5, <1>6, <1>7 DEF IInv

(* The inductive invariant is preserved by every step of every session.    *)
LEMMA NextIInv == IInv /\ [Next]_vars => IInv'
<1> SUFFICES ASSUME IInv, [Next]_vars PROVE IInv'
  OBVIOUS
<1>1. TypeOK' /\ IdsBounded' /\ LogOK' /\ DiskOK'
  BY TypeStep, IdsStep, LogStep, DiskStep
<1>2. \A s \in Sessions : MemoryOK(s)' /\ OpOK(s)' /\ PlanOK(s)' /\ LockOK(s)'
  BY SessionStep, PlanStep, LockStep
<1> QED BY <1>1, <1>2 DEF IInv

(* What is published is stored (with its ancestors), what sessions hold in *)
(* memory is stored or being written, and each durable write of            *)
(* write_commit finds on disk what the writes before it put there:         *)
(* whatever sessions, crashes and rebuilds interleave.                     *)
THEOREM Invariance == Spec => []IInv
BY InitIInv, NextIInv, PTL DEF Spec

(* Every variable keeps its type: ids, histories, index entries and the    *)
(* records of operations and plans are what the handlers build.            *)
THEOREM TypeCorrect == Spec => []TypeOK
<1>1. IInv => TypeOK
  BY DEF IInv
<1> QED BY <1>1, Invariance, PTL

(* Mutual exclusion of writers: between the BeginCommit of write_commit    *)
(* and the return of the call, RepositoryWriteLock is held by the session  *)
(* that writes, so no two sessions are in a write at once.                 *)
THEOREM WritersExclude == Spec => []WriterHoldsLock
<1>1. IInv => WriterHoldsLock
  BY DEF IInv, LockOK, WriterHoldsLock, WriterPcs
<1> QED BY <1>1, Invariance, PTL

(* Whatever a ref, the branch index or a history mirror names can be read  *)
(* back and its world materialised: write_commit puts every object of a    *)
(* commit before it publishes the commit, forks publish stored commits     *)
(* only, and a rebuild collects histories from stored commits.             *)
THEOREM PublishedCanBeRead == Spec => []PublishedReadable
<1>1. ASSUME IInv, NEW n \in Names, NEW c \in Published(n) PROVE Stored(c)
  <2>1. RefOK(refs[n]) /\ BranchOK(branchIdx[n])
        /\ \A i \in DOMAIN mirror[n] : Stored(mirror[n][i])
    BY <1>1 DEF IInv, DiskOK
  <2>2. CASE c = refs[n].head /\ c # NoCommit
    BY <2>1, <2>2 DEF RefOK, NoRef
  <2>3. CASE c = branchIdx[n].head /\ c # NoCommit
    BY <2>1, <2>3 DEF BranchOK, NoBranch
  <2>4. CASE c \in Range(branchIdx[n].hist)
    <3>1. CASE branchIdx[n] = NoBranch
      <4>1. Range(<< >>) = {}
        BY DEF Range
      <4> QED BY <2>4, <3>1, <4>1 DEF NoBranch
    <3>2. CASE branchIdx[n] # NoBranch
      BY <2>1, <2>4, <3>2 DEF BranchOK, Range
    <3> QED BY <3>1, <3>2
  <2>5. CASE c \in Range(mirror[n])
    BY <2>1, <2>5 DEF Range
  <2> QED BY <1>1, <2>2, <2>3, <2>4, <2>5 DEF Published
<1>2. IInv => PublishedReadable
  BY <1>1, StoredMaterializable DEF PublishedReadable, IInv
<1> QED BY <1>2, Invariance, PTL


-----------------------------------------------------------------------------
(* Commits.                                                                *)

(* What the new commit of create_branch adds to the log.                   *)
LEMMA CreateRecord ==
  ASSUME IInv, NEW s \in Sessions, NEW n \in Names, CreateBegin(s, n),
         NEW c, c = Len(log) + 1
  PROVE  /\ c \in Nat /\ c \notin Commits /\ Len(log') = c /\ Commits' = Commits \cup {c}
         /\ \A d \in Commits : log'[d] = log[d]
         /\ log'[c].accepted /\ log'[c].checkpoint /\ log'[c].distance = 0
         /\ log'[c].chain = <<c>>
<1>1. log \in Seq(CommitRecord) /\ Len(log) \in Nat
  BY DEF IInv, TypeOK
<1>2. PICK new : new = Record(NoCommit, n, TRUE, TRUE, 0)
  OBVIOUS
<1>3. /\ new = [parent |-> NoCommit, branch |-> n, accepted |-> TRUE, checkpoint |-> TRUE,
                distance |-> 0, chain |-> Append(<< >>, c)]
      /\ Append(<< >>, c) = <<c>>
  BY <1>2 DEF Record
<1>4. log' = Append(log, new)
  BY <1>2 DEF CreateBegin
<1>5. Len(log') = c /\ log'[c] = new /\ \A d \in 1..Len(log) : log'[d] = log[d]
  BY <1>1, <1>4
<1> QED BY <1>1, <1>3, <1>5 DEF Commits

(* What the new commit of Repository::commit adds to the log.              *)
LEMMA CommitRecordAdded ==
  ASSUME IInv, NEW s \in Sessions, NEW n \in Names, NEW accepted \in BOOLEAN,
         CommitBegin(s, n, accepted), NEW c, c = Len(log) + 1,
         NEW branch, branch = Loaded(s, n)[Resolve(Loaded(s, n), n)]
  PROVE  /\ c \in Nat /\ c \notin Commits /\ Len(log') = c /\ Commits' = Commits \cup {c}
         /\ \A d \in Commits : log'[d] = log[d]
         /\ branch.head \in Commits /\ log[branch.head].accepted
         /\ log'[c].accepted = accepted
         /\ log'[c].chain = Append(Chain(branch.head), c)
         /\ accepted =>
              \/ log'[c].checkpoint /\ log'[c].distance = 0
              \/ /\ log'[c].distance = log[branch.head].distance + 1
                 /\ ~(log'[c].distance >= CheckpointEvery)
<1> DEFINE parent == branch.head
           distance == log[parent].distance + 1
           ckpt == accepted /\ ShouldCheckpoint(distance, branch.forced)
           left == IF ckpt THEN 0 ELSE IF accepted THEN distance ELSE distance - 1
<1>1. /\ parent \in Commits /\ parent # NoCommit /\ log[parent].accepted
      /\ branch.forced \in BOOLEAN
  <2>1. pc[s] = "idle" /\ CanLoad(s, n)
    BY DEF CommitBegin, Goto
  <2> QED BY <2>1, CommitBase DEF Commits, NoCommit
<1>2. log \in Seq(CommitRecord) /\ Len(log) \in Nat
  BY DEF IInv, TypeOK
<1>3. PICK new : new = Record(parent, branch.name, accepted, ckpt, left)
  OBVIOUS
<1>4. log' = Append(log, new)
  BY <1>3 DEF CommitBegin
<1>5. Len(log') = c /\ log'[c] = new /\ \A d \in 1..Len(log) : log'[d] = log[d]
  BY <1>2, <1>4
<1>6. new = [parent |-> parent, branch |-> branch.name, accepted |-> accepted,
             checkpoint |-> ckpt, distance |-> left, chain |-> Append(Chain(parent), c)]
  BY <1>1, <1>3 DEF Record
<1>7. /\ new.accepted = accepted /\ new.checkpoint = ckpt /\ new.distance = left
      /\ new.chain = Append(Chain(parent), c)
  BY <1>6
<1>8. accepted => \/ ckpt /\ left = 0
                  \/ left = distance /\ ~(distance >= CheckpointEvery)
  BY <1>1 DEF ShouldCheckpoint
<1> HIDE DEF ckpt, left
<1>9. accepted => \/ log'[c].checkpoint /\ log'[c].distance = 0
                  \/ /\ log'[c].distance = log[parent].distance + 1
                     /\ ~(log'[c].distance >= CheckpointEvery)
  BY <1>5, <1>7, <1>8
<1> QED BY <1>1, <1>2, <1>5, <1>7, <1>9 DEF Commits

(* A commit computed earlier keeps its place in the checkpoint policy and  *)
(* its lineage.                                                            *)
LEMMA CommitStays ==
  ASSUME IInv, [Next]_vars, NEW c \in Commits
  PROVE  /\ LineageOK(c) => LineageOK(c)'
         /\ DistanceOK(c) => DistanceOK(c)'
<1>1. /\ Chain(c) \in Seq(Nat) /\ Len(Chain(c)) \in Nat \ {0}
      /\ \A i \in DOMAIN Chain(c) : Chain(c)[i] \in Commits
  BY ChainIn DEF IInv
<1>2. \A d \in Commits : log'[d] = log[d]
  BY StoredStays
<1>3. Chain(c)' = Chain(c) /\ log'[c] = log[c]
  BY <1>2 DEF Chain
<1>4. DOMAIN Chain(c) = 1..Len(Chain(c))
  BY <1>1, LenProperties
<1>5. ASSUME LineageOK(c) PROVE LineageOK(c)'
  BY <1>1, <1>2, <1>3, <1>5 DEF LineageOK, InOrder
<1>6. ASSUME DistanceOK(c) PROVE DistanceOK(c)'
  <2>1. PICK d : d = log[c].distance
    OBVIOUS
  <2>2. /\ d \in 0..(CheckpointEvery - 1) /\ d < Len(Chain(c))
        /\ log[Chain(c)[Len(Chain(c)) - d]].checkpoint
    BY <1>6, <2>1 DEF DistanceOK
  <2>3. Len(Chain(c)) - d \in DOMAIN Chain(c)
    BY <1>1, <1>4, <2>2, BoundsAssumption
  <2> QED BY <1>1, <1>2, <1>3, <2>1, <2>2, <2>3 DEF DistanceOK
<1> QED BY <1>5, <1>6

(* A commit on top of an accepted one: its chain is longer by itself.      *)
LEMMA ExtendedOK ==
  ASSUME IInv, [Next]_vars, NEW p \in Commits, LineageOK(p), DistanceOK(p), log[p].accepted,
         NEW c, c = Len(log) + 1,
         log'[c].chain = Append(Chain(p), c)
  PROVE  /\ LineageOK(c)'
         /\ log'[c].checkpoint /\ log'[c].distance = 0 => DistanceOK(c)'
         /\ /\ log'[c].distance = log[p].distance + 1
            /\ ~(log'[c].distance >= CheckpointEvery)
            => DistanceOK(c)'
<1>0. Len(log) \in Nat /\ c \in Nat /\ \A d \in Commits : log'[d] = log[d]
  BY StoredStays
<1>1. PICK base : base = Chain(p)
  OBVIOUS
<1>2. /\ base \in Seq(Nat) /\ Len(base) \in Nat \ {0} /\ DOMAIN base = 1..Len(base)
      /\ \A i \in DOMAIN base : base[i] \in Commits
      /\ base[Len(base)] = p
  BY <1>1, ChainIn, LenProperties DEF IInv, LogOK, ChainOK
<1>3. PICK chain : chain = Append(base, c)
  OBVIOUS
<1>4. /\ chain \in Seq(Nat) /\ Len(chain) = Len(base) + 1 /\ DOMAIN chain = 1..Len(chain)
      /\ chain[Len(chain)] = c /\ \A i \in DOMAIN base : chain[i] = base[i]
  BY <1>0, <1>2, <1>3
<1>5. Chain(c)' = chain
  BY <1>1, <1>3 DEF Chain
<1>6. \A i \in DOMAIN chain : i # Len(chain) =>
        i \in DOMAIN base /\ chain[i] = base[i] /\ log'[chain[i]] = log[base[i]]
  BY <1>0, <1>2, <1>4
<1>7. LineageOK(c)'
  <2>1. \A i, j \in DOMAIN chain : i < j => chain[i] < chain[j]
    <3> SUFFICES ASSUME NEW i \in DOMAIN chain, NEW j \in DOMAIN chain, i < j
                 PROVE  chain[i] < chain[j]
      OBVIOUS
    <3>1. i \in DOMAIN base /\ chain[i] = base[i]
      BY <1>2, <1>4
    <3>2. CASE j = Len(chain)
      <4>1. base[i] < c
        BY <1>0, <1>2, <3>1 DEF Commits
      <4> QED BY <1>4, <3>1, <3>2, <4>1
    <3>3. CASE j # Len(chain)
      <4>1. j \in DOMAIN base /\ chain[j] = base[j]
        BY <1>6, <3>3
      <4> QED BY <1>1, <3>1, <4>1 DEF LineageOK, InOrder
    <3> QED BY <3>2, <3>3
  <2>2. ASSUME NEW i \in DOMAIN chain, i < Len(chain) PROVE log'[chain[i]].accepted
    <3>1. i \in DOMAIN base /\ log'[chain[i]] = log[base[i]]
      BY <1>2, <1>4, <1>6, <2>2
    <3>2. CASE i = Len(base)
      BY <1>2, <3>1, <3>2
    <3>3. CASE i # Len(base)
      <4>1. i < Len(base)
        BY <1>2, <3>1, <3>3
      <4> QED BY <1>1, <3>1, <4>1 DEF LineageOK
    <3> QED BY <3>2, <3>3
  <2> QED BY <1>5, <2>1, <2>2 DEF LineageOK, InOrder
<1>8. ASSUME log'[c].checkpoint, log'[c].distance = 0 PROVE DistanceOK(c)'
  <2>1. 0 \in 0..(CheckpointEvery - 1)
    BY BoundsAssumption
  <2>2. 0 < Len(chain) /\ Len(chain) - 0 = Len(chain)
    BY <1>2, <1>4
  <2> QED BY <1>4, <1>5, <1>8, <2>1, <2>2 DEF DistanceOK
<1>9. ASSUME log'[c].distance = log[p].distance + 1, ~(log'[c].distance >= CheckpointEvery)
      PROVE  DistanceOK(c)'
  <2>1. PICK d : d = log[p].distance
    OBVIOUS
  <2>2. /\ d \in 0..(CheckpointEvery - 1) /\ d < Len(base)
        /\ log[base[Len(base) - d]].checkpoint
    BY <1>1, <2>1 DEF DistanceOK
  <2>3. log'[c].distance = d + 1 /\ ~(d + 1 >= CheckpointEvery)
    BY <1>9, <2>1
  <2>4. PICK k : k = Len(base) - d
    OBVIOUS
  <2>5. /\ k \in DOMAIN base /\ Len(chain) - (d + 1) = k
        /\ d + 1 \in 0..(CheckpointEvery - 1) /\ d + 1 < Len(chain)
    <3>1. d \in Nat /\ d + 1 \in 0..(CheckpointEvery - 1)
      BY <2>2, <2>3, BoundsAssumption
    <3>2. Len(base) \in Nat /\ DOMAIN base = 1..Len(base) /\ Len(chain) = Len(base) + 1
      BY <1>2, <1>4
    <3> QED BY <2>2, <2>4, <3>1, <3>2
  <2>6. log[base[k]].checkpoint
    BY <2>2, <2>4
  <2>7. log'[chain[k]].checkpoint
    BY <1>0, <1>2, <1>4, <2>5, <2>6
  <2> QED BY <1>5, <2>3, <2>5, <2>7 DEF DistanceOK
<1> QED BY <1>7, <1>8, <1>9

(* The log changes only where a creation or a commit begins.               *)
LEMMA LogFrame ==
  ASSUME [Next]_vars
  PROVE  \/ log' = log
         \/ \E s \in Sessions : \E n \in Names : CreateBegin(s, n)
         \/ \E s \in Sessions : \E n \in Names, accepted \in BOOLEAN : CommitBegin(s, n, accepted)
<1>1. CASE UNCHANGED vars
  BY <1>1 DEF vars
<1>2. ASSUME NEW s \in Sessions, Call(s)
      PROVE  \/ log' = log
             \/ \E n \in Names : CreateBegin(s, n)
             \/ \E n \in Names, accepted \in BOOLEAN : CommitBegin(s, n, accepted)
  <2>1. CASE Open(s) \/ Close(s) \/ RecoverBegin(s) \/ RebuildBegin(s)
    BY <2>1 DEF Open, Close, RecoverBegin, RebuildBegin, memory
  <2>2. CASE \E n \in CreateNames : CreateBegin(s, n)
    BY <2>2, NamesAssumption
  <2>3. CASE \E n \in Names, accepted \in BOOLEAN : CommitBegin(s, n, accepted)
    BY <2>3
  <2>4. ASSUME NEW n \in Names, NEW new \in ForkNames, ForkBegin(s, n, new)
        PROVE  log' = log
    BY <2>4, Zenon DEF ForkBegin
  <2>5. ASSUME NEW n \in Names, Materialize(s, n) PROVE log' = log
    BY <2>5 DEF Materialize
  <2> QED BY <1>2, <2>1, <2>2, <2>3, <2>4, <2>5 DEF Call
<1>3. ASSUME NEW s \in Sessions, Step(s) PROVE log' = log
  BY <1>3 DEF Step, Recover, Settle, RebuildStart, RebuildBranch, RebuildCommits,
              RebuildBranches, WriteBegin, PutPayload, PutPages, PutObject, Put, IndexCommit,
              IndexEvents, IndexGraph, UpdateRef, UpdateBranchIndex, UpdateWorldIndex,
              WriteMirror, WriteEnd, Return, memory
<1>4. ASSUME NEW s \in Sessions, Crash(s) PROVE log' = log
  BY <1>4 DEF Crash
<1>5. CASE ClearLock
  BY <1>5 DEF ClearLock, memory
<1> QED BY <1>1, <1>2, <1>3, <1>4, <1>5 DEF Next

(* Every commit computed, by whatever session, keeps the checkpoint policy.*)
LEMMA CommitsStep ==
  ASSUME IInv, CommitsOK, [Next]_vars
  PROVE  CommitsOK'
<1>1. \A d \in Commits : /\ LineageOK(d)' /\ log'[d] = log[d]
                         /\ log[d].accepted => DistanceOK(d)'
  BY CommitStays, StoredStays DEF CommitsOK
<1>2. CASE log' = log
  BY <1>1, <1>2 DEF CommitsOK, Commits
<1>3. ASSUME NEW s \in Sessions, NEW n \in Names, CreateBegin(s, n) PROVE CommitsOK'
  <2>1. PICK c : c = Len(log) + 1
    OBVIOUS
  <2>2. /\ c \in Nat /\ Commits' = Commits \cup {c}
        /\ log'[c].checkpoint /\ log'[c].distance = 0 /\ log'[c].chain = <<c>>
    BY <1>3, <2>1, CreateRecord
  <2>3. LineageOK(c)' /\ DistanceOK(c)'
    BY <2>2, BoundsAssumption DEF LineageOK, DistanceOK, InOrder, Chain
  <2> QED BY <1>1, <2>2, <2>3 DEF CommitsOK
<1>4. ASSUME NEW s \in Sessions, NEW n \in Names, NEW accepted \in BOOLEAN,
             CommitBegin(s, n, accepted)
      PROVE  CommitsOK'
  <2>1. PICK c, branch : /\ c = Len(log) + 1
                         /\ branch = Loaded(s, n)[Resolve(Loaded(s, n), n)]
    OBVIOUS
  <2>2. /\ Commits' = Commits \cup {c}
        /\ branch.head \in Commits /\ log[branch.head].accepted
        /\ log'[c].accepted = accepted
        /\ log'[c].chain = Append(Chain(branch.head), c)
        /\ accepted =>
              \/ log'[c].checkpoint /\ log'[c].distance = 0
              \/ /\ log'[c].distance = log[branch.head].distance + 1
                 /\ ~(log'[c].distance >= CheckpointEvery)
    BY <1>4, <2>1, CommitRecordAdded
  <2>3. LineageOK(branch.head) /\ DistanceOK(branch.head)
    BY <2>2 DEF CommitsOK
  <2>4. LineageOK(c)' /\ (log'[c].accepted => DistanceOK(c)')
    BY <2>1, <2>2, <2>3, ExtendedOK
  <2> QED BY <1>1, <2>2, <2>4 DEF CommitsOK
<1> QED BY <1>2, <1>3, <1>4, LogFrame

(* The checkpoint policy holds of every commit, and every ancestor of a    *)
(* commit was accepted, whoever computed it and whatever has crashed.      *)
THEOREM CommitsHold == Spec => [](IInv /\ CommitsOK)
<1>1. Init => IInv /\ CommitsOK
  <2>1. Init => Commits = {}
    BY DEF Init, Commits
  <2> QED BY <2>1, InitIInv DEF CommitsOK
<1>2. IInv /\ CommitsOK /\ [Next]_vars => (IInv /\ CommitsOK)'
  BY NextIInv, CommitsStep
<1> QED BY <1>1, <1>2, PTL DEF Spec

(* should_checkpoint: a published head is fewer than CheckpointEvery       *)
(* deltas away from a checkpoint, for any sessions: forks force one, and a *)
(* rejected commit does not count.                                         *)
THEOREM DeltaChainsAreBounded == Spec => []DeltaChainBounded
<1>1. ASSUME IInv, CommitsOK PROVE DeltaChainBounded
  <2> SUFFICES ASSUME NEW n \in Names, refs[n] # NoRef
               PROVE  \E i \in DOMAIN Chain(refs[n].head) :
                        /\ log[Chain(refs[n].head)[i]].checkpoint
                        /\ Len(Chain(refs[n].head)) - i < CheckpointEvery
    BY DEF DeltaChainBounded
  <2>1. PICK c : c = refs[n].head
    OBVIOUS
  <2>2. c \in Commits /\ log[c].accepted
    BY <1>1, <2>1 DEF IInv, DiskOK, RefOK, Stored
  <2>3. PICK d : d = log[c].distance
    OBVIOUS
  <2>4. /\ d \in 0..(CheckpointEvery - 1) /\ d < Len(Chain(c))
        /\ log[Chain(c)[Len(Chain(c)) - d]].checkpoint
    BY <1>1, <2>2, <2>3 DEF CommitsOK, DistanceOK
  <2>5. /\ Chain(c) \in Seq(Nat) /\ Len(Chain(c)) \in Nat \ {0}
        /\ DOMAIN Chain(c) = 1..Len(Chain(c))
    BY <1>1, <2>2, ChainIn, LenProperties DEF IInv
  <2>6. /\ Len(Chain(c)) - d \in DOMAIN Chain(c)
        /\ Len(Chain(c)) - (Len(Chain(c)) - d) < CheckpointEvery
    BY <2>4, <2>5, BoundsAssumption
  <2> QED BY <2>1, <2>4, <2>6
<1> QED BY <1>1, CommitsHold, PTL

-----------------------------------------------------------------------------
(* Histories.                                                              *)

(* Max of a bounded set is its greatest element.                           *)
LEMMA MaxIs ==
  ASSUME NEW S \in SUBSET Nat, NEW m \in S, \A x \in S : x <= m
  PROVE  Max(S) = m
<1>1. \E x \in S : \A y \in S : x >= y
  OBVIOUS
<1>2. Max(S) \in S /\ \A y \in S : Max(S) >= y
  BY <1>1 DEF Max
<1>3. PICK g : g = Max(S)
  OBVIOUS
<1>4. g \in Nat /\ m \in Nat /\ g >= m /\ g <= m
  BY <1>2, <1>3
<1> QED BY <1>3, <1>4

(* The last accepted commit of a history that tells the ancestry of x is x.*)
LEMMA TellsLatest ==
  ASSUME IInv, NEW hist \in Seq(Nat), NEW x, Tells(hist, x)
  PROVE  LatestAccepted(hist) = x
<1> DEFINE taken == {i \in DOMAIN hist : log[hist[i]].accepted}
<1>1. /\ x \in Commits /\ InOrder(hist)
      /\ {hist[i] : i \in taken} = Range(Chain(x))
  BY DEF Tells
<1>2. /\ x \in Range(Chain(x)) /\ x \in Nat /\ \A y \in Range(Chain(x)) : y \in Nat /\ y <= x
  <2>1. Chain(x) \in Seq(Nat) /\ x \in Range(Chain(x)) /\ x \in Nat
    BY <1>1, ChainIn DEF IInv, Commits
  <2>2. \A i \in DOMAIN Chain(x) : Chain(x)[i] \in 1..x
    BY <1>1 DEF IInv, LogOK, ChainOK
  <2> QED BY <2>1, <2>2 DEF Range
<1>3. PICK m \in taken : hist[m] = x
  BY <1>1, <1>2
<1>4. taken \in SUBSET Nat /\ taken \subseteq DOMAIN hist /\ DOMAIN hist \subseteq Nat
  OBVIOUS
<1>5. ASSUME NEW i \in taken PROVE i <= m
  <2>1. hist[i] \in Range(Chain(x))
    BY <1>1
  <2>2. hist[i] <= x /\ hist[i] \in Nat
    BY <1>2, <2>1
  <2>3. i \in Nat /\ m \in Nat /\ i \in DOMAIN hist /\ m \in DOMAIN hist
    BY <1>4
  <2>4. ~(m < i)
    BY <1>1, <1>2, <1>3, <2>2, <2>3 DEF InOrder
  <2> QED BY <2>3, <2>4
<1>6. Max(taken) = m
  <2> HIDE DEF taken
  <2> QED BY <1>4, <1>5, MaxIs
<1>7. taken # {}
  BY <1>3
<1> QED BY <1>3, <1>6, <1>7 DEF LatestAccepted

(* What a history tells does not change while it does.                     *)
LEMMA TellsStays ==
  ASSUME IInv, [Next]_vars
  PROVE  \A hist, x : Tells(hist, x) => Tells(hist, x)'
<1> SUFFICES ASSUME NEW hist, NEW x, Tells(hist, x) PROVE Tells(hist, x)'
  OBVIOUS
<1>1. \A c \in Commits : c \in Commits' /\ log'[c] = log[c]
  BY StoredStays
<1>2. /\ x \in Commits /\ \A i \in DOMAIN hist : hist[i] \in Commits
      /\ InOrder(hist) /\ InOrder(Chain(x))
      /\ {hist[i] : i \in {j \in DOMAIN hist : log[hist[j]].accepted}} = Range(Chain(x))
  BY DEF Tells
<1>3. Chain(x)' = Chain(x) /\ x \in Commits' /\ \A i \in DOMAIN hist : hist[i] \in Commits'
  BY <1>1, <1>2 DEF Chain
<1>4. {hist[i] : i \in {j \in DOMAIN hist : log'[hist[j]].accepted}}
        = {hist[i] : i \in {j \in DOMAIN hist : log[hist[j]].accepted}}
  BY <1>1, <1>2
<1>5. PICK chain : chain = Chain(x)
  OBVIOUS
<1>6. InOrder(chain) /\ Range(chain) = Range(Chain(x)) /\ Chain(x)' = chain
  BY <1>2, <1>3, <1>5
<1> QED BY <1>2, <1>3, <1>4, <1>6 DEF Tells, InOrder, Range

(* A history tells something only if it is not empty, of a commit that was *)
(* accepted.                                                               *)
LEMMA TellsAccepted ==
  ASSUME IInv, NEW hist, NEW x, Tells(hist, x)
  PROVE  x \in Commits /\ log[x].accepted /\ x # NoCommit /\ hist # << >>
<1>1. x \in Commits /\ x \in Range(Chain(x))
  BY ChainIn DEF Tells, IInv
<1>2. PICK i \in DOMAIN hist : hist[i] = x /\ log[hist[i]].accepted
  BY <1>1 DEF Tells
<1>3. x # NoCommit
  BY <1>1 DEF Commits, NoCommit
<1>4. hist # << >>
  BY <1>2
<1> QED BY <1>1, <1>2, <1>3, <1>4

(* The parent chain of an accepted commit tells its ancestry.              *)
LEMMA TellsChain ==
  ASSUME IInv, CommitsOK, NEW c \in Commits, log[c].accepted
  PROVE  Tells(Chain(c), c)
<1>1. PICK chain : chain = Chain(c)
  OBVIOUS
<1>2. /\ chain \in Seq(Nat) /\ Len(chain) \in Nat \ {0} /\ DOMAIN chain = 1..Len(chain)
      /\ chain[Len(chain)] = c /\ \A i \in DOMAIN chain : chain[i] \in Commits
  BY <1>1, ChainIn, LenProperties DEF IInv, LogOK, ChainOK
<1>3. InOrder(chain) /\ \A i \in DOMAIN chain : i < Len(chain) => log[chain[i]].accepted
  BY <1>1 DEF CommitsOK, LineageOK
<1>4. \A i \in DOMAIN chain : log[chain[i]].accepted
  BY <1>2, <1>3
<1>5. {chain[i] : i \in {j \in DOMAIN chain : log[chain[j]].accepted}} = Range(chain)
  BY <1>4 DEF Range
<1> QED BY <1>1, <1>2, <1>3, <1>5 DEF Tells

(* The history of a new branch is its genesis commit.                      *)
LEMMA TellsGenesis ==
  ASSUME NEW c \in Nat, c \in Commits', log'[c].accepted, log'[c].chain = <<c>>
  PROVE  Tells(<<c>>, c)'
<1>1. Chain(c)' = <<c>>
  BY DEF Chain
<1>2. InOrder(<<c>>) /\ Range(<<c>>) = {c} /\ \A i \in DOMAIN <<c>> : <<c>>[i] = c
  BY DEF InOrder, Range
<1>3. {<<c>>[i] : i \in {j \in DOMAIN <<c>> : log'[<<c>>[j]].accepted}} = {c}
  BY <1>2
<1>4. PICK hist : hist = <<c>>
  OBVIOUS
<1>5. /\ InOrder(hist) /\ Range(hist) = {c} /\ Chain(c)' = hist
      /\ \A i \in DOMAIN hist : hist[i] \in Commits'
      /\ {hist[i] : i \in {j \in DOMAIN hist : log'[hist[j]].accepted}} = {c}
  BY <1>1, <1>2, <1>3, <1>4
<1> QED BY <1>4, <1>5 DEF Tells, InOrder, Range

(* A commit lengthens the history; if it was accepted, it is what the      *)
(* longer history tells.                                                   *)
LEMMA TellsMore ==
  ASSUME IInv, [Next]_vars, NEW hist \in Seq(Nat), NEW p, Tells(hist, p),
         NEW c, c = Len(log) + 1, c \in Commits',
         log'[c].chain = Append(Chain(p), c)
  PROVE  /\ log'[c].accepted => Tells(Append(hist, c), c)'
         /\ ~log'[c].accepted => Tells(Append(hist, c), p)'
<1> DEFINE Kept(h) == {h[i] : i \in {j \in DOMAIN h : log'[h[j]].accepted}}
<1>0. Len(log) \in Nat /\ c \in Nat /\ \A d \in Commits : d \in Commits' /\ log'[d] = log[d]
  BY StoredStays
<1>1. /\ p \in Commits /\ \A i \in DOMAIN hist : hist[i] \in Commits
      /\ InOrder(hist) /\ InOrder(Chain(p))
      /\ {hist[i] : i \in {j \in DOMAIN hist : log[hist[j]].accepted}} = Range(Chain(p))
  BY DEF Tells
<1>2. PICK base : base = Chain(p)
  OBVIOUS
<1>3. /\ base \in Seq(Nat) /\ \A i \in DOMAIN base : base[i] \in Commits
      /\ InOrder(base) /\ Kept(hist) = Range(base)
  BY <1>0, <1>1, <1>2, ChainIn DEF IInv
<1>4. ASSUME NEW h \in Seq(Nat), \A i \in DOMAIN h : h[i] \in Commits, InOrder(h)
      PROVE  /\ InOrder(Append(h, c)) /\ \A i \in DOMAIN Append(h, c) : Append(h, c)[i] \in Commits'
             /\ Range(Append(h, c)) = Range(h) \cup {c}
             /\ log'[c].accepted => Kept(Append(h, c)) = Kept(h) \cup {c}
             /\ ~log'[c].accepted => Kept(Append(h, c)) = Kept(h)
  <2>1. PICK more : more = Append(h, c)
    OBVIOUS
  <2>2. /\ DOMAIN more = DOMAIN h \cup {Len(h) + 1} /\ Len(h) \in Nat /\ DOMAIN h = 1..Len(h)
        /\ more[Len(h) + 1] = c /\ \A i \in DOMAIN h : more[i] = h[i]
    BY <1>0, <2>1
  <2>3. \A i \in DOMAIN h : h[i] \in Nat /\ h[i] < c
    BY <1>0, <1>4 DEF Commits
  <2>4. InOrder(more)
    BY <1>0, <1>4, <2>2, <2>3 DEF InOrder
  <2>5. Range(more) = Range(h) \cup {c}
    BY <2>2 DEF Range
  <2>6. \A i \in DOMAIN more : more[i] \in Commits'
    BY <1>0, <1>4, <2>2
  <2>7. log'[c].accepted => Kept(more) = Kept(h) \cup {c}
    BY <2>2
  <2>8. ~log'[c].accepted => Kept(more) = Kept(h)
    BY <2>2
  <2> HIDE DEF Kept
  <2> QED BY <2>1, <2>4, <2>5, <2>6, <2>7, <2>8
<1>5. PICK longer : longer = Append(hist, c)
  OBVIOUS
<1>6. PICK chain : chain = Append(base, c)
  OBVIOUS
<1>7. /\ InOrder(longer) /\ \A i \in DOMAIN longer : longer[i] \in Commits'
      /\ log'[c].accepted => Kept(longer) = Range(base) \cup {c}
      /\ ~log'[c].accepted => Kept(longer) = Range(base)
  <2> HIDE DEF Kept
  <2> QED BY <1>1, <1>3, <1>4, <1>5
<1>8. InOrder(chain) /\ Range(chain) = Range(base) \cup {c} /\ Chain(c)' = chain
  <2>1. InOrder(chain) /\ Range(chain) = Range(base) \cup {c}
    BY <1>3, <1>4, <1>6
  <2> QED BY <1>2, <1>6, <2>1 DEF Chain
<1>9. Chain(p)' = base /\ p \in Commits'
  BY <1>0, <1>1, <1>2 DEF Chain
<1>10. ASSUME log'[c].accepted PROVE Tells(longer, c)'
  BY <1>7, <1>8, <1>10 DEF Tells, InOrder, Range
<1>11. ASSUME ~log'[c].accepted PROVE Tells(longer, p)'
  BY <1>3, <1>7, <1>9, <1>11 DEF Tells, InOrder, Range
<1> QED BY <1>5, <1>10, <1>11

-----------------------------------------------------------------------------
(* One session: what its steps leave as it was.                            *)

(* The variables of one session and of the disk have their types.          *)
LEMMA SessionTypes ==
  ASSUME IInv, NEW s \in Sessions
  PROVE  /\ log \in Seq(CommitRecord) /\ Len(log) \in Nat /\ wal \in {"empty", "begun"}
         /\ refs \in [Names -> RefType] /\ branchIdx \in [Names -> BranchType]
         /\ mirror \in [Names -> Seq(Nat)]
         /\ pc \in [Sessions -> PcValues] /\ op \in [Sessions -> OpType] /\ op[s] \in OpType
         /\ mem \in [Sessions -> Seq(MemoryType)] /\ mem[s] \in Seq(MemoryType)
         /\ nextId \in [Sessions -> Nat] /\ plan \in [Sessions -> PlanType] /\ plan[s] \in PlanType
         /\ \A i \in DOMAIN mem[s] :
              mem[s][i].name \in Names /\ mem[s][i].id \in Nat /\ mem[s][i].head \in Nat
<1>1. /\ log \in Seq(CommitRecord) /\ wal \in {"empty", "begun"}
      /\ refs \in [Names -> RefType] /\ branchIdx \in [Names -> BranchType]
      /\ mirror \in [Names -> Seq(Nat)]
      /\ pc \in [Sessions -> PcValues] /\ op \in [Sessions -> OpType]
      /\ mem \in [Sessions -> Seq(MemoryType)]
      /\ nextId \in [Sessions -> Nat] /\ plan \in [Sessions -> PlanType]
  BY DEF IInv, TypeOK
<1>2. \A i \in DOMAIN mem[s] : mem[s][i] \in MemoryType
  BY <1>1
<1>3. \A i \in DOMAIN mem[s] :
        mem[s][i].name \in Names /\ mem[s][i].id \in Nat /\ mem[s][i].head \in Nat
  BY <1>2 DEF MemoryType
<1>4. Len(log) \in Nat /\ op[s] \in OpType /\ mem[s] \in Seq(MemoryType) /\ plan[s] \in PlanType
  BY <1>1
<1> QED BY <1>1, <1>3, <1>4

(* The invariant of a memory given branch by branch.                       *)
LEMMA MemoryAgreesFrom ==
  ASSUME NEW s, NEW its, mem'[s] = its,
         \A i \in DOMAIN its : /\ [id |-> its[i].id, head |-> its[i].head] = NextRef(s, its[i].name)'
                               /\ Tells(its[i].hist, its[i].head)',
         \A i, j \in DOMAIN its : its[i].name = its[j].name => i = j
  PROVE  MemoryAgrees(s)'
BY DEF MemoryAgrees

(* A step that leaves the branches' next refs and the memory alone.        *)
LEMMA ViewKept ==
  ASSUME IInv, [Next]_vars, NEW s \in Sessions, \A n \in Names : NextRef(s, n)' = NextRef(s, n),
         DistinctIds(s), MemoryAgrees(s), mem'[s] = mem[s]
  PROVE  DistinctIds(s)' /\ MemoryAgrees(s)'
<1>1. DistinctIds(s)'
  <2> SUFFICES ASSUME NEW m \in Names, NEW n \in Names,
                      NextRef(s, m)' # NoRef, NextRef(s, n)' # NoRef,
                      NextRef(s, m)'.id = NextRef(s, n)'.id
               PROVE  m = n
    BY DEF DistinctIds, NextRef, NoRef, NoCommit
  <2> QED BY DEF DistinctIds
<1>2. PICK its : its = mem[s]
  OBVIOUS
<1>3. /\ \A i \in DOMAIN its : /\ its[i].name \in Names
                               /\ [id |-> its[i].id, head |-> its[i].head] = NextRef(s, its[i].name)
                               /\ Tells(its[i].hist, its[i].head)
      /\ \A i, j \in DOMAIN its : its[i].name = its[j].name => i = j
  BY <1>2, SessionTypes DEF MemoryAgrees
<1>4. \A i \in DOMAIN its : /\ [id |-> its[i].id, head |-> its[i].head] = NextRef(s, its[i].name)'
                            /\ Tells(its[i].hist, its[i].head)'
  BY <1>3, TellsStays
<1>5. MemoryAgrees(s)'
  BY <1>2, <1>3, <1>4, MemoryAgreesFrom
<1> QED BY <1>1, <1>5

(* What the branch index and the mirrors tell stays true while they and    *)
(* the refs are left alone; so does what has been acknowledged.            *)
LEMMA DiskKept ==
  ASSUME IInv, [Next]_vars
  PROVE  /\ IndexSelf /\ refs' = refs /\ branchIdx' = branchIdx => IndexSelf'
         /\ MirrorSelf /\ mirror' = mirror => MirrorSelf'
         /\ AckedOK /\ refs' = refs /\ acked' = acked => AckedOK'
<1>0. \A c \in Commits : c \in Commits' /\ log'[c] = log[c]
  BY StoredStays
<1>1. ASSUME IndexSelf, refs' = refs, branchIdx' = branchIdx PROVE IndexSelf'
  <2> SUFFICES ASSUME NEW n \in Names, branchIdx[n] # NoBranch
               PROVE  /\ branchIdx'[n].id = refs'[n].id
                      /\ Tells(branchIdx[n].hist, branchIdx[n].head)'
    BY <1>1 DEF IndexSelf, NoBranch, NoCommit
  <2>1. branchIdx[n].id = refs[n].id /\ Tells(branchIdx[n].hist, branchIdx[n].head)
    BY <1>1 DEF IndexSelf
  <2>2. PICK hist, x : hist = branchIdx[n].hist /\ x = branchIdx[n].head
    OBVIOUS
  <2>3. Tells(hist, x)' /\ branchIdx'[n].hist = hist /\ branchIdx'[n].head = x
    BY <1>1, <2>1, <2>2, TellsStays
  <2> QED BY <1>1, <2>1, <2>3 DEF Tells, InOrder, Range
<1>2. ASSUME MirrorSelf, mirror' = mirror PROVE MirrorSelf'
  <2> SUFFICES ASSUME NEW n \in Names, mirror[n] # << >>
               PROVE  \E x \in Commits' : Tells(mirror[n], x)'
    BY <1>2 DEF MirrorSelf
  <2>1. PICK x \in Commits : Tells(mirror[n], x)
    BY <1>2 DEF MirrorSelf
  <2>2. PICK hist : hist = mirror[n]
    OBVIOUS
  <2>3. Tells(hist, x)' /\ mirror'[n] = hist
    BY <1>2, <2>1, <2>2, TellsStays
  <2> QED BY <1>0, <2>1, <2>3
<1>3. ASSUME AckedOK, refs' = refs, acked' = acked PROVE AckedOK'
  <2> SUFFICES ASSUME NEW call \in acked
               PROVE  /\ call[2] \in Commits'
                      /\ log'[call[2]].accepted =>
                           /\ call[1] \in Names /\ refs[call[1]] # NoRef
                           /\ call[2] \in Range(Chain(refs[call[1]].head)')
    BY <1>3 DEF AckedOK, NoRef, NoCommit, Chain, Range
  <2>1. /\ call[2] \in Commits /\ log'[call[2]] = log[call[2]] /\ call[2] \in Commits'
        /\ log[call[2]].accepted =>
             /\ call[1] \in Names /\ refs[call[1]] # NoRef
             /\ call[2] \in Range(Chain(refs[call[1]].head))
    BY <1>0, <1>3 DEF AckedOK
  <2>2. ASSUME NEW n \in Names, refs[n] # NoRef
        PROVE  Chain(refs[n].head)' = Chain(refs[n].head)
    <3>1. refs[n].head \in Commits
      BY <2>2 DEF IInv, DiskOK, RefOK, Stored
    <3> QED BY <1>0, <1>3, <3>1 DEF Chain
  <2> QED BY <2>1, <2>2
<1> QED BY <1>1, <1>2, <1>3

-----------------------------------------------------------------------------
(* One process: each of its steps keeps AloneInv.                          *)

(* Where the writes of write_commit lead, but for those of the ref and the *)
(* branch index, and what of the log and the mirror they change.           *)
QuietMove(s) ==
  \/ pc[s] = "begin" /\ pc'[s] = "payload" /\ wal' = "begun" /\ mirror' = mirror
  \/ /\ pc[s] \in {"payload", "pages", "object", "commits", "events"}
     /\ pc'[s] \in {"pages", "object", "commits", "events", "graph"}
     /\ wal' = wal /\ mirror' = mirror
  \/ /\ pc[s] = "graph" /\ pc'[s] = IF op[s].head # NoCommit THEN "ref" ELSE "branch"
     /\ wal' = wal /\ mirror' = mirror
  \/ pc[s] = "world" /\ pc'[s] = "mirror" /\ wal' = wal /\ mirror' = mirror
  \/ /\ pc[s] = "mirror" /\ pc'[s] = IF op[s].kind = "fork" THEN "unlock" ELSE "end"
     /\ wal' = wal /\ mirror' = [mirror EXCEPT ![op[s].asked] = op[s].hist]
  \/ pc[s] = "end" /\ pc'[s] = "unlock" /\ wal' = "empty" /\ mirror' = mirror

LEMMA QuietMoves ==
  ASSUME IInv, NEW s \in Sessions,
         \/ WriteBegin(s) \/ PutPayload(s) \/ PutPages(s) \/ PutObject(s)
         \/ IndexCommit(s) \/ IndexEvents(s) \/ IndexGraph(s) \/ UpdateWorldIndex(s)
         \/ WriteMirror(s) \/ WriteEnd(s)
  PROVE  /\ UNCHANGED <<log, refs, branchIdx, acked, op, mem, plan, nextId>>
         /\ QuietMove(s)
<1>1. pc \in [Sessions -> PcValues]
  BY SessionTypes
<1>2. CASE WriteBegin(s) \/ WriteEnd(s)
  BY <1>1, <1>2 DEF WriteBegin, WriteEnd, Goto, indexes, memory, ghosts, QuietMove
<1>3. CASE PutPayload(s) \/ PutPages(s) \/ PutObject(s)
  BY <1>1, <1>3 DEF PutPayload, PutPages, PutObject, Put, Goto, indexes, memory, ghosts, QuietMove
<1>4. CASE IndexCommit(s) \/ IndexEvents(s) \/ IndexGraph(s) \/ UpdateWorldIndex(s)
  BY <1>1, <1>4 DEF IndexCommit, IndexEvents, IndexGraph, UpdateWorldIndex, Goto, objects,
                    memory, ghosts, QuietMove
<1>5. CASE WriteMirror(s)
  BY <1>1, <1>5 DEF WriteMirror, Goto, objects, indexes, memory, ghosts, QuietMove
<1> QED BY <1>2, <1>3, <1>4, <1>5

LEMMA QuietAlone ==
  ASSUME IInv, [Next]_vars, NEW s \in Sessions, AloneInv(s), QuietMove(s),
         UNCHANGED <<log, refs, branchIdx, acked, op, mem, plan, nextId>>
  PROVE  AloneInv(s)'
<1> USE DEF BeforeRef, AfterRef, CommitPcs, PendingPcs, WriterPcs
<1>0. /\ Len(log) <= MaxCommits
      /\ DistinctIds(s) /\ MemoryAgrees(s) /\ IndexSelf /\ MirrorSelf /\ IndexAgrees(s)
      /\ PlanAgrees(s) /\ LogSettled(s) /\ OpAgrees(s) /\ AckedOK
  BY DEF AloneInv
<1>1. DistinctIds(s)' /\ MemoryAgrees(s)' /\ IndexSelf' /\ AckedOK'
  <2>1. \A n \in Names : NextRef(s, n)' = NextRef(s, n)
    BY DEF NextRef, QuietMove
  <2>2. mem'[s] = mem[s]
    OBVIOUS
  <2> QED BY <1>0, <2>1, <2>2, ViewKept, DiskKept
<1>2. MirrorSelf'
  <2>1. CASE mirror' = mirror
    BY <1>0, <2>1, DiskKept
  <2>2. CASE mirror' # mirror
    <3>1. pc[s] = "mirror" /\ mirror' = [mirror EXCEPT ![op[s].asked] = op[s].hist]
      BY <2>2 DEF QuietMove
    <3>2. PICK x \in Commits : Tells(op[s].hist, x)
      BY <1>0, <3>1 DEF OpAgrees
    <3>3. ASSUME NEW n \in Names, mirror'[n] # << >> PROVE \E y \in Commits' : Tells(mirror[n], y)'
      <4>1. mirror'[n] = mirror[n] \/ mirror'[n] = op[s].hist
        BY <3>1, SessionTypes
      <4>2. PICK y \in Commits : Tells(mirror'[n], y)
        BY <1>0, <3>2, <3>3, <4>1 DEF MirrorSelf
      <4>3. PICK hist : hist = mirror'[n]
        OBVIOUS
      <4> QED BY <4>2, <4>3, TellsStays, StoredStays
    <3> QED BY <3>3 DEF MirrorSelf
  <2> QED BY <2>1, <2>2
<1>3. IndexAgrees(s)' /\ PlanAgrees(s)'
  BY <1>0 DEF IndexAgrees, PlanAgrees, RebuildPcs, QuietMove
<1>4. LogSettled(s)'
  <2>1. pc[s] = "graph" => op[s].kind # "fork"
    <3>1. pc[s] = "graph" => op[s].commit \in Commits
      BY DEF IInv, OpOK, CommitOK
    <3> QED BY <1>0, <3>1 DEF OpAgrees, ForkCopies, Commits, NoCommit
  <2> QED BY <1>0, <2>1, SessionTypes DEF LogSettled, RebuildPcs, QuietMove
<1>5. OpAgrees(s)'
  <2>1. op[s].asked = op[s].target /\ op[s].asked \in Names /\ op[s].kind \in {"create", "commit", "fork"}
    BY <1>0 DEF OpAgrees, QuietMove
  <2>2. op[s].head # NoCommit => Tells(op[s].hist, op[s].head)'
    <3>1. op[s].head # NoCommit => Tells(op[s].hist, op[s].head)
      BY <1>0 DEF OpAgrees, QuietMove
    <3>2. PICK hist, x : hist = op[s].hist /\ x = op[s].head
      OBVIOUS
    <3> QED BY <3>1, <3>2, TellsStays
  <2>3. \E x \in Commits' : Tells(op[s].hist, x)'
    <3>1. PICK x \in Commits : Tells(op[s].hist, x)
      BY <1>0 DEF OpAgrees, QuietMove
    <3>2. PICK hist : hist = op[s].hist
      OBVIOUS
    <3> QED BY <3>1, <3>2, TellsStays, StoredStays
  <2>4. ASSUME pc'[s] \in BeforeRef \cup {"branch"}, op[s].head = NoCommit
        PROVE  refs[op[s].asked] # NoRef /\ Tells(op[s].hist, refs[op[s].asked].head)'
    <3>1. pc[s] \in BeforeRef
      BY <2>4 DEF QuietMove
    <3>2. refs[op[s].asked] # NoRef /\ Tells(op[s].hist, refs[op[s].asked].head)
      BY <1>0, <2>4, <3>1 DEF OpAgrees
    <3>3. PICK hist, x : hist = op[s].hist /\ x = refs[op[s].asked].head
      OBVIOUS
    <3> QED BY <3>2, <3>3, TellsStays
  <2>5. pc[s] \in BeforeRef /\ op[s].kind # "fork" => CommitExtends(s)
    BY <1>0 DEF OpAgrees
  <2>6. CommitExtends(s) => CommitExtends(s)'
    BY DEF CommitExtends, Chain, NoRef, NoCommit
  <2>7. pc'[s] \in BeforeRef => pc[s] \in BeforeRef
    BY DEF QuietMove
  <2>8. pc[s] \in BeforeRef /\ op[s].kind = "fork" => ForkCopies(s)
    BY <1>0 DEF OpAgrees
  <2>9. ForkCopies(s) => ForkCopies(s)'
    BY DEF ForkCopies, NoRef, NoCommit
  <2>10. pc'[s] \in {"branch", "world"} => op[s].head = NoCommit
    BY DEF QuietMove
  <2>11. ASSUME pc'[s] \in AfterRef, op[s].commit # NoCommit
         PROVE  /\ op[s].commit \in Commits
                /\ log[op[s].commit].accepted => refs[op[s].asked].head = op[s].commit
    <3>1. CASE pc[s] \in AfterRef
      BY <1>0, <2>11, <3>1 DEF OpAgrees
    <3>2. CASE pc[s] = "graph"
      <4>1. op[s].commit \in Commits
        BY <3>2 DEF IInv, OpOK, CommitOK
      <4>2. op[s].head = NoCommit
        BY <2>11, <3>2 DEF QuietMove
      <4>3. op[s].kind # "fork"
        BY <2>8, <2>11, <3>2 DEF ForkCopies
      <4> QED BY <2>5, <2>11, <3>2, <4>1, <4>2, <4>3 DEF CommitExtends
    <3> QED BY <2>11, <3>1, <3>2 DEF QuietMove
  <2>12. pc'[s] \in WriterPcs
    BY DEF QuietMove
  <2>13. Commits' = Commits
    BY DEF Commits
  <2> HIDE DEF BeforeRef, AfterRef, CommitPcs, PendingPcs, WriterPcs
  <2> QED BY <2>1, <2>2, <2>3, <2>4, <2>5, <2>6, <2>7, <2>8, <2>9, <2>10, <2>11, <2>12, <2>13
          DEF OpAgrees, NoRef, NoCommit
<1> QED BY <1>0, <1>1, <1>2, <1>3, <1>4, <1>5 DEF AloneInv

(* refs.update moves the ref of the call's branch where the call announced.*)
LEMMA RefAlone ==
  ASSUME IInv, CommitsOK, [Next]_vars, NEW s \in Sessions, AloneInv(s), UpdateRef(s)
  PROVE  AloneInv(s)'
<1> USE DEF BeforeRef, AfterRef, CommitPcs, PendingPcs, WriterPcs
<1>0. /\ Len(log) <= MaxCommits
      /\ DistinctIds(s) /\ MemoryAgrees(s) /\ IndexSelf /\ MirrorSelf /\ IndexAgrees(s)
      /\ PlanAgrees(s) /\ LogSettled(s) /\ OpAgrees(s) /\ AckedOK
  BY DEF AloneInv
<1>1. PICK n : n = op[s].target
  OBVIOUS
<1>2. PICK new : new = [id |-> op[s].id, head |-> op[s].head]
  OBVIOUS
<1>3. /\ pc[s] = "ref" /\ pc'[s] = "branch" /\ refs' = [refs EXCEPT ![n] = new]
      /\ UNCHANGED <<log, objs, wal, branchIdx, acked, op, mem, plan, nextId, mirror>>
  BY <1>1, <1>2, SessionTypes DEF UpdateRef, Goto, objects, indexes, memory, ghosts
<1>4. /\ op[s].asked = n /\ n \in Names /\ op[s].head # NoCommit
      /\ op[s].kind \in {"create", "commit", "fork"} /\ Tells(op[s].hist, op[s].head)
      /\ new.head = op[s].head /\ new.id = op[s].id /\ new # NoRef
  BY <1>0, <1>1, <1>2, <1>3, EntryStored DEF OpAgrees, NoRef
<1>5. refs'[n] = new /\ \A m \in Names : m # n => refs'[m] = refs[m]
  BY <1>3, <1>4, SessionTypes
<1>6. DistinctIds(s)' /\ MemoryAgrees(s)'
  <2>1. \A m \in Names : NextRef(s, m)' = NextRef(s, m)
    BY <1>1, <1>2, <1>3, <1>4, <1>5 DEF NextRef
  <2> QED BY <1>0, <1>3, <2>1, ViewKept
<1>7. refs[n] # NoRef =>
        /\ refs[n].id = op[s].id /\ op[s].commit = op[s].head /\ op[s].commit \in Commits
        /\ Chain(op[s].commit) = Append(Chain(refs[n].head), op[s].commit)
  <2>1. op[s].head \in Commits
    BY <1>4, TellsAccepted
  <2> QED BY <1>0, <1>1, <1>3, <1>4, <2>1 DEF OpAgrees, CommitExtends, ForkCopies
<1>8. IndexSelf'
  <2>1. ASSUME NEW m \in Names, branchIdx[m] # NoBranch PROVE refs'[m].id = branchIdx[m].id
    <3>1. CASE m = n
      <4>1. branchIdx[n].head = refs[n].head
        BY <1>0, <1>3, <1>4 DEF IndexAgrees
      <4>2. branchIdx[n].head \in Commits /\ refs[n].id = branchIdx[n].id
        BY <1>0, <2>1, <3>1, TellsAccepted DEF IndexSelf
      <4>3. refs[n] # NoRef
        BY <4>1, <4>2 DEF Commits, NoRef, NoCommit
      <4> QED BY <1>4, <1>5, <1>7, <3>1, <4>2, <4>3
    <3>2. CASE m # n
      BY <1>0, <1>5, <2>1, <3>2 DEF IndexSelf
    <3> QED BY <3>1, <3>2
  <2>2. ASSUME NEW m \in Names, branchIdx[m] # NoBranch
        PROVE  Tells(branchIdx[m].hist, branchIdx[m].head)'
    <3>1. PICK hist, x : hist = branchIdx[m].hist /\ x = branchIdx[m].head
      OBVIOUS
    <3> QED BY <1>0, <1>3, <2>2, <3>1, TellsStays DEF IndexSelf
  <2> QED BY <1>3, <2>1, <2>2 DEF IndexSelf, NoBranch, NoCommit
<1>9. MirrorSelf'
  BY <1>0, <1>3, DiskKept
<1>10. IndexAgrees(s)' /\ PlanAgrees(s)' /\ LogSettled(s)'
  <2>1. IndexAgrees(s)'
    BY <1>0, <1>1, <1>3, <1>4, <1>5 DEF IndexAgrees
  <2>2. PlanAgrees(s)' /\ LogSettled(s)'
    BY <1>0, <1>3 DEF PlanAgrees, LogSettled, RebuildPcs
  <2> QED BY <2>1, <2>2
<1>11. OpAgrees(s)'
  <2>1. Tells(op[s].hist, op[s].head)' /\ op[s].head \in Commits'
    <3>1. PICK hist, x : hist = op[s].hist /\ x = op[s].head
      OBVIOUS
    <3>2. x \in Commits /\ Tells(hist, x)
      BY <1>4, <3>1, TellsAccepted
    <3> QED BY <1>3, <3>1, <3>2, TellsStays, StoredStays
  <2>2. op[s].commit # NoCommit => op[s].commit \in Commits /\ op[s].head = op[s].commit
    <3>1. op[s].kind # "fork" => op[s].head = op[s].commit
      BY <1>0, <1>3, <1>4 DEF OpAgrees, CommitExtends
    <3>2. op[s].kind = "fork" => op[s].commit = NoCommit
      BY <1>0, <1>3 DEF OpAgrees, ForkCopies
    <3> QED BY <1>4, <3>1, <3>2, TellsAccepted
  <2>3. op' = op /\ Commits' = Commits /\ log' = log
    BY <1>3 DEF Commits
  <2> HIDE DEF BeforeRef, AfterRef, CommitPcs, PendingPcs
  <2>4. pc'[s] = "branch" /\ "branch" \notin BeforeRef /\ "branch" \in WriterPcs
    BY <1>3 DEF BeforeRef, CommitPcs, PendingPcs
  <2> QED BY <1>1, <1>2, <1>4, <1>5, <2>1, <2>2, <2>3, <2>4 DEF OpAgrees
<1>12. AckedOK'
  <2> SUFFICES ASSUME NEW call \in acked
               PROVE  /\ call[2] \in Commits'
                      /\ log[call[2]].accepted =>
                           /\ call[1] \in Names /\ refs'[call[1]] # NoRef
                           /\ call[2] \in Range(Chain(refs'[call[1]].head))
    BY <1>3 DEF AckedOK, Chain, Range, NoRef, NoCommit
  <2>1. /\ call[2] \in Commits
        /\ log[call[2]].accepted =>
             /\ call[1] \in Names /\ refs[call[1]] # NoRef
             /\ call[2] \in Range(Chain(refs[call[1]].head))
    BY <1>0 DEF AckedOK
  <2>2. ASSUME call[1] = n, refs[n] # NoRef
        PROVE  Range(Chain(refs[n].head)) \subseteq Range(Chain(refs'[n].head))
    <3>1. refs'[n].head = op[s].commit
      BY <1>4, <1>5, <1>7, <2>2
    <3>2. PICK base : base = Chain(refs[n].head)
      OBVIOUS
    <3>3. refs[n].head \in Commits
      BY <1>4, <2>2 DEF IInv, DiskOK, RefOK, Stored
    <3>4. base \in Seq(Nat) /\ op[s].commit \in Nat
      BY <1>7, <2>2, <3>2, <3>3, ChainIn DEF IInv, Commits
    <3>5. Range(base) \subseteq Range(Append(base, op[s].commit))
      BY <3>4 DEF Range
    <3> QED BY <1>7, <2>2, <3>1, <3>2, <3>5
  <2> QED BY <1>3, <1>4, <1>5, <2>1, <2>2 DEF Commits
<1> QED BY <1>0, <1>3, <1>6, <1>8, <1>9, <1>10, <1>11, <1>12 DEF AloneInv

(* The operation of a session past its ref goes on telling the same.       *)
LEMMA OpTells ==
  ASSUME IInv, [Next]_vars, NEW s \in Sessions, op' = op,
         pc[s] \in WriterPcs \ {"unlock"}, OpAgrees(s)
  PROVE  /\ op[s].asked = op[s].target /\ op[s].asked \in Names
         /\ op[s].kind \in {"create", "commit", "fork"}
         /\ op[s].head # NoCommit => Tells(op[s].hist, op[s].head)'
         /\ \E x \in Commits' : Tells(op[s].hist, x)'
<1>1. /\ op[s].asked = op[s].target /\ op[s].asked \in Names
      /\ op[s].kind \in {"create", "commit", "fork"}
      /\ op[s].head # NoCommit => Tells(op[s].hist, op[s].head)
  BY DEF OpAgrees
<1>2. PICK x \in Commits : Tells(op[s].hist, x)
  BY DEF OpAgrees
<1>3. PICK hist, y : hist = op[s].hist /\ y = op[s].head
  OBVIOUS
<1> QED BY <1>1, <1>2, <1>3, TellsStays, StoredStays

(* The branch index follows the ref of an accepted commit, and lengthens   *)
(* the history of a branch whose commit was rejected.                      *)
LEMMA IndexAlone ==
  ASSUME IInv, [Next]_vars, NEW s \in Sessions, AloneInv(s), UpdateBranchIndex(s)
  PROVE  AloneInv(s)'
<1>0. /\ Len(log) <= MaxCommits
      /\ DistinctIds(s) /\ MemoryAgrees(s) /\ IndexSelf /\ MirrorSelf /\ IndexAgrees(s)
      /\ PlanAgrees(s) /\ LogSettled(s) /\ OpAgrees(s) /\ AckedOK
  BY DEF AloneInv
<1>1. PICK n : n = op[s].target
  OBVIOUS
<1>2. PICK head, hist : head = op[s].head /\ hist = op[s].hist
  OBVIOUS
<1>3. /\ pc[s] = "branch" /\ pc'[s] = IF head # NoCommit THEN "world" ELSE "mirror"
      /\ UNCHANGED <<log, objs, wal, refs, acked, op, mem, plan, nextId, mirror>>
  BY <1>2, SessionTypes DEF UpdateBranchIndex, Goto, objects, memory, ghosts
<1>4. /\ op[s].asked = n /\ n \in Names /\ op[s].kind \in {"create", "commit", "fork"}
      /\ head # NoCommit => Tells(hist, head)' /\ refs[n] = [id |-> op[s].id, head |-> head]
      /\ head = NoCommit => refs[n] # NoRef /\ Tells(hist, refs[n].head)
  BY <1>0, <1>1, <1>2, <1>3, OpTells DEF OpAgrees, WriterPcs
<1>5. /\ \A m \in Names : m # n => branchIdx'[m] = branchIdx[m]
      /\ head # NoCommit =>
           /\ branchIdx'[n].id = op[s].id /\ branchIdx'[n].head = head
           /\ branchIdx'[n].hist = hist
      /\ head = NoCommit =>
           /\ branchIdx'[n].id = branchIdx[n].id /\ branchIdx'[n].head = branchIdx[n].head
           /\ branchIdx[n] = NoBranch => branchIdx'[n] = NoBranch
           /\ branchIdx[n] # NoBranch => branchIdx'[n].hist = hist
  <2>1. branchIdx \in [Names -> BranchType] /\ branchIdx[n] \in BranchType
    BY <1>4, SessionTypes
  <2> QED BY <1>1, <1>2, <1>4, <2>1 DEF UpdateBranchIndex, BranchType
<1>6. "branch" \notin BeforeRef /\ "world" \notin BeforeRef /\ "mirror" \notin BeforeRef
  BY DEF BeforeRef, CommitPcs, PendingPcs
<1>7. DistinctIds(s)' /\ MemoryAgrees(s)'
  <2>1. \A m \in Names : NextRef(s, m)' = NextRef(s, m)
    BY <1>3, <1>6 DEF NextRef
  <2> QED BY <1>0, <1>3, <2>1, ViewKept
<1>8. head = NoCommit => \A m \in Names : branchIdx[m].head = refs[m].head
  BY <1>0, <1>2, <1>3 DEF IndexAgrees, WriterPcs
<1>9. IndexSelf'
  <2>1. ASSUME NEW m \in Names, branchIdx'[m] # NoBranch
        PROVE  branchIdx'[m].id = refs'[m].id /\ Tells(branchIdx[m].hist, branchIdx[m].head)'
    <3>1. CASE m = n /\ head # NoCommit
      BY <1>3, <1>4, <1>5, <3>1
    <3>2. CASE m = n /\ head = NoCommit
      <4>1. branchIdx[n] # NoBranch
        BY <1>5, <2>1, <3>2
      <4>2. PICK x : x = refs[n].head
        OBVIOUS
      <4>3. Tells(hist, x)'
        BY <1>4, <3>2, <4>2, TellsStays
      <4> QED BY <1>0, <1>3, <1>5, <1>8, <3>2, <4>1, <4>2, <4>3 DEF IndexSelf
    <3>3. CASE m # n
      <4>1. PICK old, x : old = branchIdx[m].hist /\ x = branchIdx[m].head
        OBVIOUS
      <4>2. branchIdx[m].id = refs[m].id /\ Tells(old, x)'
        BY <1>0, <1>5, <2>1, <3>3, <4>1, TellsStays DEF IndexSelf
      <4> QED BY <1>3, <1>5, <3>3, <4>1, <4>2
    <3> QED BY <3>1, <3>2, <3>3
  <2> QED BY <2>1 DEF IndexSelf, NoBranch, NoCommit
<1>10. MirrorSelf' /\ AckedOK'
  BY <1>0, <1>3, DiskKept
<1>11. IndexAgrees(s)'
  <2>1. \A m \in Names : branchIdx'[m].head = refs'[m].head
    <3> SUFFICES ASSUME NEW m \in Names PROVE branchIdx'[m].head = refs[m].head
      BY <1>3
    <3>1. head # NoCommit /\ m # n => branchIdx[m].head = refs[m].head
      BY <1>0, <1>1, <1>3 DEF IndexAgrees, WriterPcs
    <3>2. head # NoCommit => refs[n].head = head
      BY <1>4
    <3> QED BY <1>5, <1>8, <3>1, <3>2
  <2> QED BY <2>1 DEF IndexAgrees
<1>12. PlanAgrees(s)' /\ LogSettled(s)'
  BY <1>0, <1>3 DEF PlanAgrees, LogSettled, RebuildPcs
<1>13. OpAgrees(s)'
  <2>1. /\ op' = op /\ Commits' = Commits /\ log' = log /\ refs' = refs
        /\ pc'[s] \in {"world", "mirror"} /\ pc'[s] \in WriterPcs
        /\ pc'[s] = "world" => op[s].head # NoCommit
    BY <1>2, <1>3 DEF Commits, WriterPcs
  <2>2. /\ op[s].asked = op[s].target
        /\ op[s].head # NoCommit => Tells(op[s].hist, op[s].head)'
        /\ \E x \in Commits' : Tells(op[s].hist, x)'
    BY <1>0, <1>3, OpTells DEF WriterPcs
  <2>3. op[s].commit # NoCommit =>
          /\ op[s].commit \in Commits
          /\ log[op[s].commit].accepted => refs[op[s].asked].head = op[s].commit
    BY <1>0, <1>3 DEF OpAgrees, AfterRef
  <2>4. op[s].head # NoCommit => refs[op[s].target] = [id |-> op[s].id, head |-> op[s].head]
    BY <1>1, <1>2, <1>4
  <2> QED BY <1>1, <1>4, <1>6, <2>1, <2>2, <2>3, <2>4 DEF OpAgrees
<1> QED BY <1>0, <1>3, <1>7, <1>9, <1>10, <1>11, <1>12, <1>13 DEF AloneInv

(* The call returns and its commit is acknowledged.                        *)
LEMMA ReturnAlone ==
  ASSUME IInv, [Next]_vars, NEW s \in Sessions, AloneInv(s), Return(s)
  PROVE  AloneInv(s)'
<1>0. /\ Len(log) <= MaxCommits
      /\ DistinctIds(s) /\ MemoryAgrees(s) /\ IndexSelf /\ MirrorSelf /\ IndexAgrees(s)
      /\ PlanAgrees(s) /\ LogSettled(s) /\ OpAgrees(s) /\ AckedOK
  BY DEF AloneInv
<1>1. /\ pc[s] = "unlock" /\ pc'[s] = "idle" /\ op'[s] = NoOp
      /\ acked' = IF op[s].commit # NoCommit
                  THEN acked \cup {<<op[s].asked, op[s].commit>>} ELSE acked
      /\ UNCHANGED <<log, objs, wal, refs, branchIdx, mem, plan, nextId, mirror>>
  BY SessionTypes DEF Return, Goto, objects, indexes, memory
<1>2. "unlock" \notin BeforeRef /\ "idle" \notin BeforeRef
  BY DEF BeforeRef, CommitPcs, PendingPcs
<1>3. DistinctIds(s)' /\ MemoryAgrees(s)' /\ IndexSelf' /\ MirrorSelf'
  <2>1. \A m \in Names : NextRef(s, m)' = NextRef(s, m)
    BY <1>1, <1>2 DEF NextRef
  <2> QED BY <1>0, <1>1, <2>1, ViewKept, DiskKept
<1>4. IndexAgrees(s)' /\ PlanAgrees(s)' /\ LogSettled(s)'
  BY <1>0, <1>1 DEF IndexAgrees, PlanAgrees, LogSettled, RebuildPcs, WriterPcs
<1>5. OpAgrees(s)'
  <2>1. op'[s].commit = NoCommit /\ pc'[s] \notin WriterPcs \cup AfterRef \cup {"branch"}
    BY <1>1 DEF WriterPcs, AfterRef, NoOp
  <2> QED BY <1>1, <1>2, <2>1 DEF OpAgrees
<1>6. AckedOK'
  <2> SUFFICES ASSUME NEW call \in acked'
               PROVE  /\ call[2] \in Commits
                      /\ log[call[2]].accepted =>
                           /\ call[1] \in Names /\ refs[call[1]] # NoRef
                           /\ call[2] \in Range(Chain(refs[call[1]].head))
    BY <1>1 DEF AckedOK, Chain, Range, Commits, NoRef, NoCommit
  <2>1. CASE call \in acked
    BY <1>0, <2>1 DEF AckedOK
  <2>2. CASE call \notin acked
    <3>1. op[s].commit # NoCommit /\ call = <<op[s].asked, op[s].commit>>
      BY <1>1, <2>2
    <3>2. /\ op[s].commit \in Commits /\ op[s].asked \in Names
          /\ log[op[s].commit].accepted => refs[op[s].asked].head = op[s].commit
      BY <1>0, <1>1, <3>1 DEF OpAgrees, AfterRef
    <3>3. call[1] = op[s].asked /\ call[2] = op[s].commit
      BY <3>1
    <3>4. op[s].commit \in Range(Chain(op[s].commit))
      BY <3>2, ChainIn DEF IInv
    <3> QED BY <3>1, <3>2, <3>3, <3>4 DEF NoRef
  <2> QED BY <2>1, <2>2
<1> QED BY <1>0, <1>1, <1>3, <1>4, <1>5, <1>6 DEF AloneInv

(* The refs of two branches never have the same id.                        *)
LEMMA RefIds ==
  ASSUME IInv, NEW s \in Sessions, DistinctIds(s), OpAgrees(s)
  PROVE  \A m, n \in Names : refs[m] # NoRef /\ refs[n] # NoRef /\ refs[m].id = refs[n].id => m = n
<1>1. ASSUME NEW n \in Names, refs[n] # NoRef
      PROVE  NextRef(s, n) # NoRef /\ NextRef(s, n).id = refs[n].id
  <2>1. CASE NextRef(s, n) = refs[n]
    BY <1>1, <2>1
  <2>2. CASE NextRef(s, n) # refs[n]
    <3>1. /\ pc[s] \in BeforeRef /\ op[s].head # NoCommit /\ n = op[s].target
          /\ NextRef(s, n) = [id |-> op[s].id, head |-> op[s].head]
      BY <2>2 DEF NextRef
    <3>2. op[s].kind \in {"create", "commit", "fork"}
      BY <3>1 DEF OpAgrees, BeforeRef, WriterPcs, CommitPcs, PendingPcs
    <3>3. refs[n].id = op[s].id
      BY <1>1, <3>1, <3>2 DEF OpAgrees, CommitExtends, ForkCopies
    <3> QED BY <3>1, <3>3 DEF NoRef
  <2> QED BY <2>1, <2>2
<1> QED BY <1>1 DEF DistinctIds

(* The process closes or dies: its memory is gone, what is on disk is not. *)
LEMMA DownAlone ==
  ASSUME IInv, [Next]_vars, NEW s \in Sessions, AloneInv(s), Close(s) \/ Crash(s)
  PROVE  AloneInv(s)'
<1>0. /\ Len(log) <= MaxCommits
      /\ DistinctIds(s) /\ MemoryAgrees(s) /\ IndexSelf /\ MirrorSelf /\ IndexAgrees(s)
      /\ PlanAgrees(s) /\ LogSettled(s) /\ OpAgrees(s) /\ AckedOK
  BY DEF AloneInv
<1>1. /\ pc'[s] = "down" /\ mem'[s] = << >> /\ op'[s] = NoOp /\ plan'[s] = NoPlan
      /\ UNCHANGED <<log, wal, refs, branchIdx, mirror, acked>>
  BY SessionTypes DEF Close, Crash, Goto, Forget, objects, indexes, ghosts
<1>2. "down" \notin BeforeRef \cup WriterPcs \cup AfterRef \cup RebuildPcs
  BY DEF BeforeRef, CommitPcs, PendingPcs, WriterPcs, AfterRef, RebuildPcs
<1>3. DistinctIds(s)'
  <2>1. \A n \in Names : NextRef(s, n)' = refs[n]
    BY <1>1, <1>2 DEF NextRef
  <2>2. \A m, n \in Names : refs[m] # NoRef /\ refs[n] # NoRef /\ refs[m].id = refs[n].id => m = n
    BY <1>0, RefIds
  <2> SUFFICES ASSUME NEW m \in Names, NEW n \in Names,
                      NextRef(s, m)' # NoRef, NextRef(s, n)' # NoRef,
                      NextRef(s, m)'.id = NextRef(s, n)'.id
               PROVE  m = n
    BY DEF DistinctIds, NextRef, NoRef, NoCommit
  <2> QED BY <2>1, <2>2
<1>4. MemoryAgrees(s)'
  <2>1. DOMAIN << >> = {}
    OBVIOUS
  <2> QED BY <1>1, <2>1 DEF MemoryAgrees
<1>5. IndexSelf' /\ MirrorSelf' /\ AckedOK'
  BY <1>0, <1>1, DiskKept
<1>6. IndexAgrees(s)' /\ PlanAgrees(s)' /\ LogSettled(s)'
  BY <1>0, <1>1, <1>2 DEF IndexAgrees, PlanAgrees, LogSettled, RebuildPcs, WriterPcs
<1>7. OpAgrees(s)'
  BY <1>1, <1>2 DEF OpAgrees, NoOp, NoCommit
<1> QED BY <1>0, <1>1, <1>3, <1>4, <1>5, <1>6, <1>7 DEF AloneInv

(* A step outside a write: the view, the disk and the operation.           *)
LEMMA RestAlone ==
  ASSUME IInv, [Next]_vars, NEW s \in Sessions, AloneInv(s),
         UNCHANGED <<log, refs, mirror, acked>>, mem'[s] = mem[s],
         pc[s] \notin BeforeRef, pc'[s] \notin WriterPcs \ {"unlock"}, op'[s].commit = NoCommit
  PROVE  /\ Len(log') <= MaxCommits
         /\ DistinctIds(s)' /\ MemoryAgrees(s)' /\ MirrorSelf' /\ AckedOK'
         /\ OpAgrees(s)' /\ (branchIdx' = branchIdx => IndexSelf')
<1>0. /\ Len(log) <= MaxCommits
      /\ DistinctIds(s) /\ MemoryAgrees(s) /\ IndexSelf /\ MirrorSelf /\ AckedOK
  BY DEF AloneInv
<1>1. pc'[s] \notin BeforeRef \cup {"branch", "world"}
  BY DEF BeforeRef, CommitPcs, PendingPcs, WriterPcs
<1>2. \A n \in Names : NextRef(s, n)' = NextRef(s, n)
  BY <1>1 DEF NextRef
<1>3. OpAgrees(s)'
  BY <1>1 DEF OpAgrees
<1> QED BY <1>0, <1>2, <1>3, ViewKept, DiskKept

(* What check_indexes accepts names the heads of the refs.                 *)
LEMMA CleanHeads ==
  ASSUME IndexesClean, NEW n \in Names
  PROVE  branchIdx[n].head = refs[n].head
BY DEF IndexesClean, IndexesAgree, NoBranch, NoRef, NoCommit

(* The steps that begin a recovery or a rebuild.                           *)
LEMMA OpeningAlone ==
  ASSUME IInv, [Next]_vars, NEW s \in Sessions, AloneInv(s),
         Open(s) \/ Recover(s) \/ RecoverBegin(s) \/ RebuildBegin(s)
  PROVE  AloneInv(s)'
<1>0. LogSettled(s) /\ PlanAgrees(s) /\ OpAgrees(s)
  BY DEF AloneInv
<1>1. /\ UNCHANGED <<log, wal, refs, branchIdx, mirror, mem, acked>>
      /\ pc[s] \in {"down", "recover", "idle"} /\ pc'[s] \in {"recover", "settle", "rebuild"}
  BY SessionTypes DEF Open, Recover, RecoverBegin, RebuildBegin, Goto, objects, indexes,
                      memory, ghosts
<1>2. op'[s].commit = NoCommit
  <2>1. op[s].commit = NoCommit
    BY <1>0, <1>1 DEF OpAgrees, WriterPcs
  <2>2. op'[s] = op[s] \/ op'[s] = [NoOp EXCEPT !.kind = "repair"]
    BY SessionTypes DEF Open, Recover, RecoverBegin, RebuildBegin
  <2>3. [NoOp EXCEPT !.kind = "repair"].commit = NoCommit
    BY DEF NoOp
  <2> QED BY <2>1, <2>2, <2>3
<1>3. /\ Len(log') <= MaxCommits
      /\ DistinctIds(s)' /\ MemoryAgrees(s)' /\ IndexSelf' /\ MirrorSelf' /\ AckedOK'
      /\ OpAgrees(s)'
  <2>1. pc[s] \notin BeforeRef /\ pc'[s] \notin WriterPcs \ {"unlock"} /\ mem'[s] = mem[s]
    BY <1>1 DEF BeforeRef, CommitPcs, PendingPcs, WriterPcs
  <2> QED BY <1>1, <1>2, <2>1, RestAlone
<1>4. IndexAgrees(s)'
  <2>1. pc'[s] = "settle" => IndexesClean
    BY SessionTypes DEF Open, Recover, RecoverBegin, RebuildBegin, Goto
  <2> QED BY <1>1, <2>1, CleanHeads DEF IndexAgrees, WriterPcs
<1>5. ASSUME NEW then \in {"recover", "settle", "unlock"}, NEW torn \in BOOLEAN,
             plan'[s] = [NoPlan EXCEPT !.then = then, !.torn = torn], pc'[s] = "rebuild",
             then = "unlock" => wal = "empty",
             then = "settle" => (wal = "begun" <=> torn)
      PROVE  PlanAgrees(s)' /\ LogSettled(s)'
  <2>1. /\ plan'[s].branches = NoPlan.branches /\ plan'[s].then = then
        /\ plan'[s].torn = torn
    BY <1>5 DEF NoPlan
  <2>2. NoPlan.branches' = NoPlan.branches
    BY DEF NoPlan
  <2> QED BY <1>1, <1>5, <2>1, <2>2 DEF PlanAgrees, LogSettled, RebuildPcs
<1>6. plan[s].torn \in BOOLEAN
  BY SessionTypes DEF PlanType
<1>7. CASE Open(s)
  <2>1. CASE "graph" \in indexFiles /\ IndexesClean
    <3>1. pc'[s] = "recover"
      BY <1>7, <2>1, SessionTypes DEF Open, Goto
    <3> QED BY <1>1, <1>3, <1>4, <3>1 DEF AloneInv, PlanAgrees, LogSettled, RebuildPcs
  <2>2. CASE ~("graph" \in indexFiles /\ IndexesClean)
    <3>1. /\ pc'[s] = "rebuild"
          /\ plan'[s] = [NoPlan EXCEPT !.then = "recover", !.torn = plan[s].torn]
      BY <1>7, <2>2, SessionTypes DEF Open, Goto, Rebuild
    <3> QED BY <1>1, <1>3, <1>4, <1>5, <1>6, <3>1 DEF AloneInv
  <2> QED BY <2>1, <2>2
<1>8. CASE Recover(s)
  <2>1. CASE IndexesClean
    <3>1. pc'[s] = "settle" /\ plan' = [plan EXCEPT ![s].torn = (wal = "begun")]
      BY <1>8, <2>1, SessionTypes DEF Recover, Goto
    <3>2. plan'[s].torn = (wal = "begun")
      BY <3>1, SessionTypes DEF PlanType
    <3> QED BY <1>1, <1>3, <1>4, <3>1, <3>2 DEF AloneInv, PlanAgrees, LogSettled, RebuildPcs
  <2>2. CASE ~IndexesClean
    <3>1. /\ pc'[s] = "rebuild"
          /\ plan'[s] = [NoPlan EXCEPT !.then = "settle", !.torn = (wal = "begun")]
      BY <1>8, <2>2, SessionTypes DEF Recover, Goto
    <3> QED BY <1>1, <1>3, <1>4, <1>5, <3>1 DEF AloneInv
  <2> QED BY <2>1, <2>2
<1>9. CASE RecoverBegin(s)
  <2>1. pc'[s] = "recover"
    BY <1>9, SessionTypes DEF RecoverBegin, Goto
  <2> QED BY <1>1, <1>3, <1>4, <2>1 DEF AloneInv, PlanAgrees, LogSettled, RebuildPcs
<1>10. CASE RebuildBegin(s)
  <2>1. /\ pc[s] = "idle" /\ pc'[s] = "rebuild"
        /\ plan'[s] = [NoPlan EXCEPT !.then = "unlock", !.torn = plan[s].torn]
    BY <1>10, SessionTypes DEF RebuildBegin, Goto, Rebuild
  <2>2. wal = "empty"
    BY <1>0, <2>1 DEF LogSettled
  <2> QED BY <1>1, <1>3, <1>4, <1>5, <1>6, <2>1, <2>2 DEF AloneInv
<1> QED BY <1>7, <1>8, <1>9, <1>10

(* Recovery empties a log that it found begun, once the indexes agree.     *)
LEMMA SettleAlone ==
  ASSUME IInv, [Next]_vars, NEW s \in Sessions, AloneInv(s), Settle(s)
  PROVE  AloneInv(s)'
<1>0. LogSettled(s) /\ IndexAgrees(s) /\ OpAgrees(s)
  BY DEF AloneInv
<1>1. /\ UNCHANGED <<log, refs, branchIdx, mirror, mem, acked, op>>
      /\ pc[s] = "settle" /\ pc'[s] \in {"unlock", "idle"}
      /\ wal' = IF plan[s].torn THEN "empty" ELSE wal
  BY SessionTypes DEF Settle, Goto, indexes, memory, ghosts
<1>2. op'[s].commit = NoCommit
  BY <1>0, <1>1 DEF OpAgrees, WriterPcs
<1>3. /\ Len(log') <= MaxCommits
      /\ DistinctIds(s)' /\ MemoryAgrees(s)' /\ IndexSelf' /\ MirrorSelf' /\ AckedOK'
      /\ OpAgrees(s)'
  <2>1. pc[s] \notin BeforeRef /\ pc'[s] \notin WriterPcs \ {"unlock"} /\ mem'[s] = mem[s]
    BY <1>1 DEF BeforeRef, CommitPcs, PendingPcs, WriterPcs
  <2> QED BY <1>1, <1>2, <2>1, RestAlone
<1>4. IndexAgrees(s)' /\ PlanAgrees(s)'
  BY <1>0, <1>1 DEF IndexAgrees, PlanAgrees, RebuildPcs
<1>5. wal' = "empty"
  BY <1>0, <1>1, SessionTypes DEF LogSettled
<1>6. LogSettled(s)'
  BY <1>1, <1>5 DEF LogSettled, RebuildPcs
<1> QED BY <1>3, <1>4, <1>6 DEF AloneInv

(* A rebuild drops the derived indexes and reads the refs; once it has     *)
(* collected every branch it replaces the commit index.                    *)
LEMMA RebuildingAlone ==
  ASSUME IInv, [Next]_vars, NEW s \in Sessions, AloneInv(s), RebuildStart(s) \/ RebuildCommits(s)
  PROVE  AloneInv(s)'
<1>0. LogSettled(s) /\ PlanAgrees(s) /\ OpAgrees(s)
  BY DEF AloneInv
<1>1. /\ UNCHANGED <<log, wal, refs, branchIdx, mirror, mem, acked, op>>
      /\ pc[s] \in {"rebuild", "collect"} /\ pc'[s] \in {"collect", "replace"}
  BY SessionTypes DEF RebuildStart, RebuildCommits, Goto, objects, memory, ghosts
<1>2. op'[s].commit = NoCommit
  BY <1>0, <1>1 DEF OpAgrees, WriterPcs
<1>3. /\ Len(log') <= MaxCommits
      /\ DistinctIds(s)' /\ MemoryAgrees(s)' /\ IndexSelf' /\ MirrorSelf' /\ AckedOK'
      /\ OpAgrees(s)'
  <2>1. pc[s] \notin BeforeRef /\ pc'[s] \notin WriterPcs \ {"unlock"} /\ mem'[s] = mem[s]
    BY <1>1 DEF BeforeRef, CommitPcs, PendingPcs, WriterPcs
  <2> QED BY <1>1, <1>2, <2>1, RestAlone
<1>4. IndexAgrees(s)'
  BY <1>1 DEF IndexAgrees, WriterPcs
<1>5. CASE RebuildStart(s)
  <2>1. /\ pc[s] = "rebuild" /\ pc'[s] = "collect"
        /\ plan'[s].refs = refs /\ plan'[s].todo = {n \in Names : refs[n] # NoRef}
        /\ plan'[s].then = plan[s].then /\ plan'[s].torn = plan[s].torn
        /\ plan'[s].branches = plan[s].branches
    BY <1>5, SessionTypes DEF RebuildStart, Goto, PlanType
  <2>2. plan[s].branches = [n \in Names |-> NoBranch]
    BY <1>0, <2>1 DEF PlanAgrees, NoPlan
  <2>3. \A n \in Names \ plan'[s].todo : refs[n] = NoRef /\ plan'[s].branches[n] = NoBranch
    BY <2>1, <2>2
  <2>4. LogSettled(s)'
    BY <1>0, <1>1, <2>1 DEF LogSettled, RebuildPcs
  <2>5. PlanAgrees(s)'
    BY <1>0, <1>1, <2>1, <2>3 DEF PlanAgrees, RebuildPcs, NoRef, NoBranch, NoCommit
  <2> QED BY <1>3, <1>4, <2>4, <2>5 DEF AloneInv
<1>6. CASE RebuildCommits(s)
  <2>1. pc[s] = "collect" /\ pc'[s] = "replace" /\ plan' = plan /\ plan[s].todo = {}
    BY <1>6, SessionTypes DEF RebuildCommits, Goto
  <2>2. LogSettled(s)'
    BY <1>0, <1>1, <2>1 DEF LogSettled, RebuildPcs
  <2>3. \A n \in Names :
          LET b == plan[s].branches[n] IN
          /\ b.id = refs[n].id /\ b.head = refs[n].head
          /\ refs[n] # NoRef => Tells(b.hist, b.head)'
          /\ refs[n] = NoRef => b = NoBranch
    <3> SUFFICES ASSUME NEW n \in Names, NEW b, b = plan[s].branches[n]
                 PROVE  /\ b.id = refs[n].id /\ b.head = refs[n].head
                        /\ refs[n] # NoRef => Tells(b.hist, b.head)'
                        /\ refs[n] = NoRef => b = NoBranch
      BY <2>1
    <3> QED BY <1>0, <2>1, TellsStays DEF PlanAgrees
  <2>4. PlanAgrees(s)'
    BY <1>0, <1>1, <2>1, <2>3 DEF PlanAgrees, RebuildPcs, NoRef, NoBranch, NoCommit
  <2> QED BY <1>3, <1>4, <2>2, <2>4 DEF AloneInv
<1> QED BY <1>5, <1>6

(* The history a rebuild settles on tells the ancestry of the ref's head.  *)
LEMMA RebuiltTells ==
  ASSUME IInv, CommitsOK, MirrorSelf, NEW s \in Sessions, NEW n \in Names, n \in plan[s].todo
  PROVE  Tells(RebuiltHistory(s, n), plan[s].refs[n].head)
<1> DEFINE head == plan[s].refs[n].head
<1>1. head \in Commits /\ log[head].accepted
  BY RebuiltOK DEF Stored
<1>2. CASE /\ RebuiltHistory(s, n) = mirror[n] /\ mirror[n] # << >>
           /\ LatestAccepted(mirror[n]) = head
  <2>1. PICK x \in Commits : Tells(mirror[n], x)
    BY <1>2 DEF MirrorSelf
  <2>2. LatestAccepted(mirror[n]) = x
    BY <2>1, SessionTypes, TellsLatest
  <2> QED BY <1>2, <2>1, <2>2
<1>3. CASE RebuiltHistory(s, n) = Chain(head)
  BY <1>1, <1>3, TellsChain
<1> QED BY <1>2, <1>3 DEF RebuiltHistory

(* A rebuild collects the branches one by one.                             *)
LEMMA CollectAlone ==
  ASSUME IInv, CommitsOK, [Next]_vars, NEW s \in Sessions, AloneInv(s),
         NEW n \in Names, RebuildBranch(s, n)
  PROVE  AloneInv(s)'
<1>0. LogSettled(s) /\ PlanAgrees(s) /\ OpAgrees(s) /\ MirrorSelf
  BY DEF AloneInv
<1>1. /\ UNCHANGED <<log, wal, refs, branchIdx, mirror, mem, acked, op, pc>>
      /\ pc[s] = "collect" /\ n \in plan[s].todo
  BY DEF RebuildBranch, objects, memory, ghosts
<1>2. PICK hist, ref : hist = RebuiltHistory(s, n) /\ ref = plan[s].refs[n]
  OBVIOUS
<1>3. PICK entry : entry = [id |-> ref.id, head |-> ref.head, hist |-> hist]
  OBVIOUS
<1>4. /\ plan'[s].refs = plan[s].refs /\ plan'[s].todo = plan[s].todo \ {n}
      /\ plan'[s].then = plan[s].then /\ plan'[s].torn = plan[s].torn
      /\ plan'[s].branches = [plan[s].branches EXCEPT ![n] = entry]
  BY <1>2, <1>3, SessionTypes DEF RebuildBranch, PlanType
<1>5. plan[s].refs = refs /\ ref = refs[n] /\ ref # NoRef
  <2>1. plan[s].refs = refs
    BY <1>0, <1>1 DEF PlanAgrees
  <2> QED BY <1>1, <1>2, <2>1 DEF IInv, PlanOK
<1>6. Tells(hist, ref.head)
  BY <1>0, <1>1, <1>2, RebuiltTells
<1>7. /\ Len(log') <= MaxCommits
      /\ DistinctIds(s)' /\ MemoryAgrees(s)' /\ IndexSelf' /\ MirrorSelf' /\ AckedOK'
      /\ OpAgrees(s)'
  <2>1. pc[s] \notin BeforeRef \cup WriterPcs
    BY <1>1 DEF BeforeRef, CommitPcs, PendingPcs, WriterPcs
  <2>2. op'[s].commit = NoCommit
    BY <1>0, <1>1, <2>1 DEF OpAgrees
  <2> QED BY <1>1, <2>1, <2>2, RestAlone
<1>8. IndexAgrees(s)' /\ LogSettled(s)'
  BY <1>0, <1>1, <1>4 DEF IndexAgrees, LogSettled, WriterPcs, RebuildPcs
<1>9. PICK its : its = plan'[s]
  OBVIOUS
<1>10. ASSUME NEW m \in Names, m \notin its.todo
       PROVE  /\ its.branches[m].id = refs[m].id /\ its.branches[m].head = refs[m].head
              /\ refs[m] # NoRef => Tells(its.branches[m].hist, its.branches[m].head)'
              /\ refs[m] = NoRef => its.branches[m] = NoBranch
  <2>1. plan[s].branches \in [Names -> BranchType]
    BY SessionTypes DEF PlanType
  <2>2. PICK b : b = its.branches[m]
    OBVIOUS
  <2>3. CASE m = n
    <3>1. b = entry
      BY <1>4, <1>9, <2>1, <2>2, <2>3
    <3>2. b.id = ref.id /\ b.head = ref.head /\ b.hist = hist
      BY <1>3, <3>1
    <3>3. Tells(hist, ref.head)'
      <4>1. PICK x : x = ref.head
        OBVIOUS
      <4> QED BY <1>6, <4>1, TellsStays
    <3> QED BY <1>5, <2>2, <2>3, <3>2, <3>3
  <2>4. CASE m # n
    <3>1. b = plan[s].branches[m] /\ m \notin plan[s].todo
      BY <1>4, <1>9, <1>10, <2>1, <2>2, <2>4
    <3>2. /\ b.id = refs[m].id /\ b.head = refs[m].head
          /\ refs[m] # NoRef => Tells(b.hist, b.head)
          /\ refs[m] = NoRef => b = NoBranch
      BY <1>0, <1>1, <3>1 DEF PlanAgrees
    <3> QED BY <2>2, <3>2, TellsStays
  <2> QED BY <2>3, <2>4
<1>11. PlanAgrees(s)'
  <2>1. /\ pc'[s] = "collect" /\ its.refs = refs' /\ its.then # "idle"
        /\ NoRef' = NoRef /\ NoBranch' = NoBranch /\ refs' = refs
    BY <1>0, <1>1, <1>4, <1>5, <1>9 DEF PlanAgrees, RebuildPcs, NoRef, NoBranch, NoCommit
  <2> QED BY <1>9, <1>10, <2>1 DEF PlanAgrees
<1> QED BY <1>7, <1>8, <1>11 DEF AloneInv

(* The last write of a rebuild replaces the branch index.                  *)
LEMMA ReplaceAlone ==
  ASSUME IInv, [Next]_vars, NEW s \in Sessions, AloneInv(s), RebuildBranches(s)
  PROVE  AloneInv(s)'
<1>0. LogSettled(s) /\ PlanAgrees(s) /\ OpAgrees(s)
  BY DEF AloneInv
<1>1. /\ UNCHANGED <<log, wal, refs, mirror, mem, acked, op>>
      /\ pc[s] = "replace" /\ pc'[s] = plan[s].then
      /\ branchIdx' = plan[s].branches
      /\ plan'[s] = [NoPlan EXCEPT !.torn = plan[s].torn]
  BY SessionTypes DEF RebuildBranches, Goto, objects, memory, ghosts
<1>2. plan[s].then \in {"recover", "settle", "unlock"}
  BY <1>0, <1>1, SessionTypes DEF PlanAgrees, RebuildPcs, PlanType
<1>3. \A n \in Names :
        /\ branchIdx'[n].id = refs[n].id /\ branchIdx'[n].head = refs[n].head
        /\ refs[n] # NoRef => Tells(branchIdx'[n].hist, branchIdx'[n].head)
        /\ refs[n] = NoRef => branchIdx'[n] = NoBranch
  BY <1>0, <1>1 DEF PlanAgrees
<1>4. IndexSelf'
  <2>1. ASSUME NEW n \in Names, branchIdx'[n] # NoBranch
        PROVE  branchIdx'[n].id = refs'[n].id /\ Tells(branchIdx[n].hist, branchIdx[n].head)'
    <3>1. PICK hist, x : hist = branchIdx'[n].hist /\ x = branchIdx'[n].head
      OBVIOUS
    <3>2. Tells(hist, x)'
      BY <1>3, <2>1, <3>1, TellsStays
    <3> QED BY <1>1, <1>3, <3>1, <3>2
  <2> QED BY <2>1 DEF IndexSelf, NoBranch, NoCommit
<1>5. /\ Len(log') <= MaxCommits
      /\ DistinctIds(s)' /\ MemoryAgrees(s)' /\ MirrorSelf' /\ AckedOK'
      /\ OpAgrees(s)'
  <2>1. /\ pc[s] \notin BeforeRef \cup WriterPcs
        /\ pc'[s] \notin WriterPcs \ {"unlock"}
    BY <1>1, <1>2 DEF BeforeRef, CommitPcs, PendingPcs, WriterPcs
  <2>2. op'[s].commit = NoCommit
    BY <1>0, <1>1, <2>1 DEF OpAgrees
  <2> QED BY <1>1, <2>1, <2>2, RestAlone
<1>6. IndexAgrees(s)'
  BY <1>1, <1>3 DEF IndexAgrees
<1>7. PlanAgrees(s)'
  BY <1>1, <1>2 DEF PlanAgrees, RebuildPcs
<1>8. LogSettled(s)'
  <2>1. plan'[s].torn = plan[s].torn
    BY <1>1 DEF NoPlan
  <2> QED BY <1>0, <1>1, <1>2, <2>1 DEF LogSettled, RebuildPcs
<1> QED BY <1>4, <1>5, <1>6, <1>7, <1>8 DEF AloneInv

(* In an idle session the branches in memory, with the one it may load,    *)
(* are those of the refs, and a name resolves to the branch of that name.  *)
LEMMA LoadedAgrees ==
  ASSUME IInv, NEW s \in Sessions, AloneInv(s), pc[s] = "idle", NEW n \in Names, CanLoad(s, n),
         NEW branches, branches = Loaded(s, n)
  PROVE  /\ branches \in Seq(MemoryType) /\ Resolve(branches, n) \in DOMAIN branches
         /\ branches[Resolve(branches, n)].name = n
         /\ \A i \in DOMAIN branches :
              /\ branches[i].name \in Names /\ branches[i].hist \in Seq(Nat)
              /\ [id |-> branches[i].id, head |-> branches[i].head] = refs[branches[i].name]
              /\ refs[branches[i].name] # NoRef
              /\ Tells(branches[i].hist, branches[i].head)
         /\ \A i, j \in DOMAIN branches : branches[i].name = branches[j].name => i = j
<1>0. DistinctIds(s) /\ MemoryAgrees(s) /\ IndexSelf /\ IndexAgrees(s)
  BY DEF AloneInv
<1>1. \A m : NextRef(s, m) = refs[m]
  BY DEF NextRef, BeforeRef, CommitPcs, PendingPcs
<1>2. branches \in Seq(MemoryType) /\ IsLoaded(branches, n)
  BY LoadedOK
<1>3. Resolve(branches, n) \in DOMAIN branches
  BY <1>2, ResolveIn
<1> DEFINE Agrees(b) == /\ [id |-> b.id, head |-> b.head] = refs[b.name]
                        /\ Tells(b.hist, b.head)
<1>4. \A i \in DOMAIN mem[s] : Agrees(mem[s][i])
  BY <1>0, <1>1 DEF MemoryAgrees
<1>5. \A i, j \in DOMAIN mem[s] : mem[s][i].name = mem[s][j].name => i = j
  BY <1>0 DEF MemoryAgrees
<1>6. /\ \A i \in DOMAIN branches : Agrees(branches[i])
      /\ \A i, j \in DOMAIN branches : branches[i].name = branches[j].name => i = j
  <2>1. CASE IsLoaded(mem[s], n)
    BY <1>4, <1>5, <2>1 DEF Loaded
  <2>2. CASE ~IsLoaded(mem[s], n)
    <3>1. PICK hist, head : hist = branchIdx[n].hist /\ head = branchIdx[n].head
      OBVIOUS
    <3>2. branchIdx[n] # NoBranch
      BY <2>2 DEF CanLoad, CanMaterialize
    <3>3. /\ Tells(hist, head) /\ branchIdx[n].id = refs[n].id /\ head = refs[n].head
      BY <1>0, <3>1, <3>2 DEF IndexSelf, IndexAgrees
    <3>4. LatestAccepted(hist) = head
      BY <3>1, <3>3, SessionTypes, TellsLatest DEF BranchType
    <3>5. PICK entry : entry = [name |-> n, id |-> branchIdx[n].id,
                                head |-> LatestAccepted(branchIdx[n].hist),
                                hist |-> branchIdx[n].hist, forced |-> FALSE]
      OBVIOUS
    <3>6. branches = Append(mem[s], entry)
      BY <2>2, <3>5 DEF Loaded
    <3>7. refs[n] = [id |-> refs[n].id, head |-> refs[n].head]
      BY SessionTypes DEF RefType
    <3>8. entry.name = n /\ Agrees(entry)
      BY <3>1, <3>3, <3>4, <3>5, <3>7
    <3>9. /\ DOMAIN branches = 1..(Len(mem[s]) + 1) /\ DOMAIN mem[s] = 1..Len(mem[s])
          /\ Len(mem[s]) \in Nat /\ branches[Len(mem[s]) + 1] = entry
          /\ \A i \in DOMAIN mem[s] : branches[i] = mem[s][i]
      BY <3>6, SessionTypes
    <3>10. \A i \in DOMAIN mem[s] : mem[s][i].name # n
      BY <2>2 DEF IsLoaded
    <3>11. \A i \in DOMAIN branches : i \in DOMAIN mem[s] \/ i = Len(mem[s]) + 1
      BY <3>9
    <3> HIDE DEF Agrees
    <3>12. \A i \in DOMAIN branches : Agrees(branches[i])
      BY <1>4, <3>8, <3>9, <3>11
    <3>13. \A i, j \in DOMAIN branches : branches[i].name = branches[j].name => i = j
      BY <1>5, <3>8, <3>9, <3>10, <3>11
    <3> QED BY <3>12, <3>13
  <2> QED BY <2>1, <2>2
<1>7. \A i \in DOMAIN branches : /\ branches[i].name \in Names /\ branches[i].id \in Nat
                                 /\ branches[i].hist \in Seq(Nat)
  <2>1. \A i \in DOMAIN branches : branches[i] \in MemoryType
    BY <1>2
  <2> QED BY <2>1 DEF MemoryType
<1>8. ASSUME NEW i \in DOMAIN branches
       PROVE  refs[branches[i].name].id = branches[i].id /\ refs[branches[i].name].head = branches[i].head
  <2>1. PICK b : b = branches[i]
    OBVIOUS
  <2>2. PICK r : r = [id |-> b.id, head |-> b.head]
    OBVIOUS
  <2>3. r.id = b.id /\ r.head = b.head
    BY <2>2
  <2>4. r = refs[b.name]
    BY <1>6, <2>1, <2>2
  <2> QED BY <2>1, <2>3, <2>4
<1>9. \A i \in DOMAIN branches : refs[branches[i].name] # NoRef
  <2> SUFFICES ASSUME NEW i \in DOMAIN branches PROVE refs[branches[i].name] # NoRef
    OBVIOUS
  <2>1. PICK hist, x : hist = branches[i].hist /\ x = branches[i].head
    OBVIOUS
  <2>2. Tells(hist, x) /\ x = refs[branches[i].name].head
    BY <1>6, <1>8, <2>1
  <2> QED BY <2>2, TellsAccepted DEF NoRef
<1>10. branches[Resolve(branches, n)].name = n
  <2> DEFINE named == {i \in DOMAIN branches : branches[i].name = n}
             byName == Min(named)
             same == {i \in DOMAIN branches : branches[i].id = branches[byName].id}
  <2>0. DOMAIN branches \subseteq Nat
    BY <1>2
  <2>1. byName \in named
    <3>1. named # {} /\ named \in SUBSET Nat
      BY <1>2, <2>0 DEF IsLoaded
    <3> HIDE DEF named
    <3> QED BY <3>1, MinIn
  <2>2. Min(same) \in same
    <3>1. same # {} /\ same \in SUBSET Nat
      BY <2>0, <2>1
    <3> HIDE DEF same
    <3> QED BY <3>1, MinIn
  <2>3. Resolve(branches, n) = Min(same)
    BY DEF Resolve
  <2>4. PICK i, j : i = Resolve(branches, n) /\ j = byName
    OBVIOUS
  <2>5. /\ i \in DOMAIN branches /\ j \in DOMAIN branches /\ branches[j].name = n
        /\ branches[i].id = branches[j].id
    BY <2>1, <2>2, <2>3, <2>4
  <2>6. refs[branches[i].name].id = branches[i].id /\ refs[branches[j].name].id = branches[j].id
    BY <1>8, <2>5
  <2>7. branches[i].name = branches[j].name
    BY <1>0, <1>1, <1>7, <1>9, <2>5, <2>6 DEF DistinctIds
  <2> QED BY <2>4, <2>5, <2>7
<1> QED BY <1>2, <1>3, <1>6, <1>7, <1>9, <1>10

(* Reading a branch loads what its ref names.                              *)
LEMMA MaterializeAlone ==
  ASSUME IInv, [Next]_vars, NEW s \in Sessions, AloneInv(s), NEW n \in Names, Materialize(s, n)
  PROVE  AloneInv(s)'
<1>0. /\ Len(log) <= MaxCommits
      /\ DistinctIds(s) /\ MemoryAgrees(s) /\ IndexSelf /\ MirrorSelf /\ IndexAgrees(s)
      /\ PlanAgrees(s) /\ LogSettled(s) /\ OpAgrees(s) /\ AckedOK
  BY DEF AloneInv
<1>1. PICK branches : branches = Loaded(s, n)
  OBVIOUS
<1>2. /\ pc[s] = "idle" /\ CanLoad(s, n) /\ mem'[s] = branches
      /\ UNCHANGED <<log, wal, refs, branchIdx, mirror, acked, pc, op, plan>>
  BY <1>1, SessionTypes DEF Materialize, CanLoad, objects, indexes, ghosts
<1>3. /\ \A i \in DOMAIN branches :
           /\ branches[i].name \in Names
           /\ [id |-> branches[i].id, head |-> branches[i].head] = refs[branches[i].name]
           /\ Tells(branches[i].hist, branches[i].head)
      /\ \A i, j \in DOMAIN branches : branches[i].name = branches[j].name => i = j
  BY <1>1, <1>2, LoadedAgrees
<1>4. pc[s] \notin BeforeRef /\ \A m : NextRef(s, m) = refs[m] /\ NextRef(s, m)' = refs[m]
  BY <1>2 DEF NextRef, BeforeRef, CommitPcs, PendingPcs
<1>5. MemoryAgrees(s)'
  <2>1. \A i \in DOMAIN branches :
          /\ [id |-> branches[i].id, head |-> branches[i].head] = NextRef(s, branches[i].name)'
          /\ Tells(branches[i].hist, branches[i].head)'
    BY <1>3, <1>4, TellsStays
  <2> QED BY <1>2, <1>3, <2>1, MemoryAgreesFrom
<1>6. DistinctIds(s)'
  <2> SUFFICES ASSUME NEW m \in Names, NEW k \in Names,
                      NextRef(s, m)' # NoRef, NextRef(s, k)' # NoRef,
                      NextRef(s, m)'.id = NextRef(s, k)'.id
               PROVE  m = k
    BY DEF DistinctIds, NextRef, NoRef, NoCommit
  <2> QED BY <1>0, <1>4 DEF DistinctIds
<1>7. IndexSelf' /\ MirrorSelf' /\ AckedOK'
  BY <1>0, <1>2, DiskKept
<1>8. IndexAgrees(s)' /\ PlanAgrees(s)' /\ LogSettled(s)'
  BY <1>0, <1>2 DEF IndexAgrees, PlanAgrees, LogSettled, RebuildPcs
<1>9. OpAgrees(s)'
  <2>1. op'[s].commit = NoCommit /\ pc'[s] \notin WriterPcs \cup AfterRef \cup BeforeRef
    BY <1>0, <1>2, <1>4 DEF OpAgrees, WriterPcs, AfterRef
  <2>2. pc'[s] \notin {"branch", "world"}
    BY <1>2
  <2> QED BY <2>1, <2>2 DEF OpAgrees
<1> QED BY <1>0, <1>2, <1>5, <1>6, <1>7, <1>8, <1>9 DEF AloneInv

(* A write that begins leaves what is on disk, and the plan, as they were. *)
LEMMA BeginRest ==
  ASSUME IInv, [Next]_vars, NEW s \in Sessions, AloneInv(s),
         pc[s] = "idle", pc'[s] \in {"begin", "ref"},
         UNCHANGED <<wal, refs, branchIdx, mirror, acked, plan>>
  PROVE  /\ IndexSelf' /\ MirrorSelf' /\ AckedOK'
         /\ IndexAgrees(s)' /\ PlanAgrees(s)' /\ LogSettled(s)'
<1>0. IndexSelf /\ MirrorSelf /\ IndexAgrees(s) /\ PlanAgrees(s) /\ LogSettled(s) /\ AckedOK
  BY DEF AloneInv
<1>1. IndexSelf' /\ MirrorSelf' /\ AckedOK'
  BY <1>0, DiskKept
<1>2. IndexAgrees(s)'
  BY <1>0 DEF IndexAgrees
<1>3. PlanAgrees(s)' /\ LogSettled(s)'
  BY <1>0 DEF PlanAgrees, LogSettled, RebuildPcs
<1> QED BY <1>1, <1>2, <1>3

(* What a write that begins owes to OpAgrees.                              *)
LEMMA BeginOp ==
  ASSUME NEW s, NEW doing, op'[s] = doing, pc'[s] \in {"begin", "ref"},
         doing.asked = doing.target, doing.asked \in Names,
         doing.kind \in {"create", "commit", "fork"},
         doing.head # NoCommit => Tells(doing.hist, doing.head)',
         \E x \in Commits' : Tells(doing.hist, x)',
         doing.head = NoCommit => refs'[doing.asked] # NoRef /\ Tells(doing.hist, refs[doing.asked].head)',
         doing.kind # "fork" => CommitExtends(s)',
         doing.kind = "fork" => ForkCopies(s)'
  PROVE  OpAgrees(s)'
<1>1. /\ pc'[s] \in WriterPcs /\ pc'[s] \in BeforeRef
      /\ pc'[s] \notin AfterRef /\ pc'[s] \notin {"branch", "world"}
      /\ NoRef' = NoRef /\ NoCommit' = NoCommit
  BY DEF WriterPcs, BeforeRef, CommitPcs, PendingPcs, AfterRef, NoRef, NoCommit
<1> QED BY <1>1 DEF OpAgrees

(* A branch is added to the memory, as its ref will be when it is written. *)
LEMMA AppendAgrees ==
  ASSUME IInv, [Next]_vars, NEW s \in Sessions, NEW branches \in Seq(MemoryType),
         NEW entry, entry.name \in Names, NEW n, n = entry.name,
         mem'[s] = Append(branches, entry), refs' = refs,
         \A i \in DOMAIN branches :
           /\ branches[i].name \in Names /\ branches[i].name # n
           /\ [id |-> branches[i].id, head |-> branches[i].head] = refs[branches[i].name]
           /\ Tells(branches[i].hist, branches[i].head),
         \A i, j \in DOMAIN branches : branches[i].name = branches[j].name => i = j,
         Tells(entry.hist, entry.head)',
         \A m \in Names : NextRef(s, m)' = IF m = n THEN [id |-> entry.id, head |-> entry.head]
                                           ELSE refs[m]
  PROVE  MemoryAgrees(s)'
<1>1. PICK its : its = Append(branches, entry)
  OBVIOUS
<1>2. /\ DOMAIN its = 1..(Len(branches) + 1) /\ DOMAIN branches = 1..Len(branches)
      /\ Len(branches) \in Nat /\ its[Len(branches) + 1] = entry
      /\ \A i \in DOMAIN branches : its[i] = branches[i]
  BY <1>1
<1>3. \A i \in DOMAIN its : i \in DOMAIN branches \/ i = Len(branches) + 1
  BY <1>2
<1>4. ASSUME NEW i \in DOMAIN its
      PROVE  /\ [id |-> its[i].id, head |-> its[i].head] = NextRef(s, its[i].name)'
             /\ Tells(its[i].hist, its[i].head)'
  <2>1. CASE i \in DOMAIN branches
    <3>1. its[i] = branches[i]
      BY <1>2, <2>1
    <3> QED BY <2>1, <3>1, TellsStays
  <2>2. CASE i = Len(branches) + 1
    BY <1>2, <2>2
  <2> QED BY <1>3, <2>1, <2>2
<1>5. \A i, j \in DOMAIN its : its[i].name = its[j].name => i = j
  BY <1>2, <1>3
<1> QED BY <1>1, <1>4, <1>5, MemoryAgreesFrom

(* create_branch begins: the new branch is its genesis commit.             *)
LEMMA CreateAlone ==
  ASSUME IInv, [Next]_vars, NEW s \in Sessions, AloneInv(s), NEW n \in Names, CreateBegin(s, n),
         \A m \in Names : refs[m] # NoRef => refs[m].id # nextId[s]
  PROVE  AloneInv(s)'
<1>0. DistinctIds(s) /\ MemoryAgrees(s) /\ Len(log) <= MaxCommits
  BY DEF AloneInv
<1>1. PICK c, id, hist : c = Len(log) + 1 /\ id = nextId[s] /\ hist = <<c>>
  OBVIOUS
<1>2. PICK entry : entry = [name |-> n, id |-> id, head |-> c, hist |-> hist, forced |-> FALSE]
  OBVIOUS
<1>3. PICK doing : doing = [kind |-> "create", asked |-> n, target |-> n, id |-> id,
                            commit |-> c, head |-> c, hist |-> hist]
  OBVIOUS
<1>4. /\ pc[s] = "idle" /\ pc'[s] = "begin" /\ c <= MaxCommits
      /\ ~HasBranch(n) /\ ~IsLoaded(mem[s], n)
      /\ mem'[s] = Append(mem[s], entry) /\ op'[s] = doing
      /\ UNCHANGED <<wal, refs, branchIdx, mirror, acked, plan>>
  BY <1>1, <1>2, <1>3, SessionTypes DEF CreateBegin, Goto, objects, indexes, ghosts
<1>5. /\ c \in Nat /\ c \notin Commits /\ Len(log') = c /\ c \in Commits'
      /\ log'[c].accepted /\ log'[c].chain = <<c>>
  BY <1>1, CreateRecord
<1>6. Tells(hist, c)'
  BY <1>1, <1>5, TellsGenesis
<1>7. refs[n] = NoRef /\ c # NoCommit
  BY <1>1, <1>4, SessionTypes DEF HasBranch, NoCommit
<1>8. /\ entry.name = n /\ entry.id = id /\ entry.head = c /\ entry.hist = hist
      /\ doing.kind = "create" /\ doing.asked = n /\ doing.target = n /\ doing.id = id
      /\ doing.commit = c /\ doing.head = c /\ doing.hist = hist
  BY <1>2, <1>3
<1>9. "idle" \notin BeforeRef /\ "begin" \in BeforeRef
  BY DEF BeforeRef, CommitPcs, PendingPcs
<1>10. /\ \A m : NextRef(s, m) = refs[m]
       /\ \A m : NextRef(s, m)' = IF m = n THEN [id |-> id, head |-> c] ELSE refs[m]
  BY <1>4, <1>7, <1>8, <1>9 DEF NextRef, NoCommit
<1>11. DistinctIds(s)'
  <2> SUFFICES ASSUME NEW m \in Names, NEW k \in Names,
                      NextRef(s, m)' # NoRef, NextRef(s, k)' # NoRef,
                      NextRef(s, m)'.id = NextRef(s, k)'.id
               PROVE  m = k
    BY DEF DistinctIds, NextRef, NoRef, NoCommit
  <2> QED BY <1>0, <1>1, <1>10 DEF DistinctIds
<1>12. MemoryAgrees(s)'
  <2>1. PICK branches : branches = mem[s]
    OBVIOUS
  <2>2. /\ branches \in Seq(MemoryType)
        /\ \A i \in DOMAIN branches :
             /\ branches[i].name \in Names /\ branches[i].name # n
             /\ [id |-> branches[i].id, head |-> branches[i].head] = refs[branches[i].name]
             /\ Tells(branches[i].hist, branches[i].head)
        /\ \A i, j \in DOMAIN branches : branches[i].name = branches[j].name => i = j
    BY <1>0, <1>4, <1>10, <2>1, SessionTypes DEF MemoryAgrees, IsLoaded
  <2>3. \A m \in Names : NextRef(s, m)' = IF m = n THEN [id |-> entry.id, head |-> entry.head]
                                           ELSE refs[m]
    BY <1>8, <1>10
  <2>4. Tells(entry.hist, entry.head)'
    BY <1>6, <1>8
  <2>5. /\ mem'[s] = Append(branches, entry) /\ entry.name \in Names /\ n = entry.name
        /\ refs' = refs
    BY <1>4, <1>8, <2>1
  <2> QED BY <2>2, <2>3, <2>4, <2>5, AppendAgrees
<1>13. OpAgrees(s)'
  <2>1. CommitExtends(s)'
    <3>1. Chain(c)' = <<c>>
      BY <1>5 DEF Chain
    <3>2. \A m \in Names : refs[m].head < c
      <4>1. \A m \in Names : refs[m] = NoRef \/ refs[m].head \in Commits
        BY DEF IInv, DiskOK, RefOK, Stored
      <4>2. NoRef.head = 0 /\ Len(log) \in Nat
        BY SessionTypes DEF NoRef, NoCommit
      <4> QED BY <1>1, <4>1, <4>2 DEF Commits
    <3> QED BY <1>4, <1>5, <1>7, <1>8, <3>1, <3>2 DEF CommitExtends, NoRef, NoCommit
  <2> QED BY <1>4, <1>5, <1>6, <1>7, <1>8, <2>1, BeginOp
<1>14. Len(log') <= MaxCommits
  BY <1>4, <1>5
<1> QED BY <1>4, <1>11, <1>12, <1>13, <1>14, BeginRest DEF AloneInv

(* The refs name commits computed before the next one.                     *)
LEMMA HeadsBefore ==
  ASSUME IInv, NEW c, c = Len(log) + 1
  PROVE  \A m \in Names : refs[m].head < c
<1>1. \A m \in Names : refs[m] = NoRef \/ refs[m].head \in Commits
  BY DEF IInv, DiskOK, RefOK, Stored
<1>2. NoRef.head = 0 /\ Len(log) \in Nat
  BY DEF NoRef, NoCommit, IInv, TypeOK
<1> QED BY <1>1, <1>2 DEF Commits

(* Repository::commit begins: the branch in memory grows by the commit, as *)
(* its ref will if the commit was accepted.                                *)
LEMMA CommitAlone ==
  ASSUME IInv, [Next]_vars, NEW s \in Sessions, AloneInv(s), NEW n \in Names,
         NEW accepted \in BOOLEAN, CommitBegin(s, n, accepted)
  PROVE  AloneInv(s)'
<1>0. DistinctIds(s) /\ Len(log) <= MaxCommits
  BY DEF AloneInv
<1>1. PICK branches, i, c : /\ branches = Loaded(s, n) /\ i = Resolve(branches, n)
                            /\ c = Len(log) + 1
  OBVIOUS
<1>2. PICK branch : branch = branches[i]
  OBVIOUS
<1>3. PICK p, id, hist : p = branch.head /\ id = branch.id /\ hist = Append(branch.hist, c)
  OBVIOUS
<1>4. PICK entry : entry = [branch EXCEPT !.hist = hist, !.head = IF accepted THEN c ELSE p,
                                          !.forced = branch.forced /\ ~accepted]
  OBVIOUS
<1>5. PICK doing : doing = [kind |-> "commit", asked |-> n, target |-> branch.name, id |-> id,
                            commit |-> c, head |-> IF accepted THEN c ELSE NoCommit,
                            hist |-> hist]
  OBVIOUS
<1>6. /\ pc[s] = "idle" /\ pc'[s] = "begin" /\ c <= MaxCommits /\ CanLoad(s, n)
      /\ mem'[s] = [branches EXCEPT ![i] = entry] /\ op'[s] = doing
      /\ UNCHANGED <<wal, refs, branchIdx, mirror, acked, plan>>
  BY <1>1, <1>2, <1>3, <1>4, <1>5, SessionTypes, Zenon
     DEF CommitBegin, Goto, objects, indexes, ghosts
<1>7. /\ c \in Nat /\ c \notin Commits /\ Len(log') = c /\ c \in Commits'
      /\ p \in Commits /\ log[p].accepted /\ log'[c].accepted = accepted
      /\ log'[c].chain = Append(Chain(p), c)
  BY <1>1, <1>2, <1>3, CommitRecordAdded
<1>8. /\ branches \in Seq(MemoryType) /\ i \in DOMAIN branches /\ branch.name = n
      /\ \A j \in DOMAIN branches :
           /\ branches[j].name \in Names /\ branches[j].hist \in Seq(Nat)
           /\ [id |-> branches[j].id, head |-> branches[j].head] = refs[branches[j].name]
           /\ refs[branches[j].name] # NoRef
           /\ Tells(branches[j].hist, branches[j].head)
      /\ \A j, k \in DOMAIN branches : branches[j].name = branches[k].name => j = k
  BY <1>1, <1>2, <1>6, LoadedAgrees
<1>9. PICK old : old = branch.hist
  OBVIOUS
<1>10. /\ refs[n] = [id |-> id, head |-> p] /\ refs[n] # NoRef /\ refs[n].id = id /\ refs[n].head = p
       /\ old \in Seq(Nat) /\ Tells(old, p) /\ hist = Append(old, c)
  <2>1. refs[n] = [id |-> id, head |-> p]
    BY <1>2, <1>3, <1>8
  <2> QED BY <1>2, <1>3, <1>8, <1>9, <2>1
<1>11. IF accepted THEN Tells(hist, c)' ELSE Tells(hist, p)'
  BY <1>1, <1>7, <1>10, TellsMore
<1>12. /\ entry.name = n /\ entry.id = id /\ entry.hist = hist
       /\ entry.head = IF accepted THEN c ELSE p
  <2>1. branch \in MemoryType
    BY <1>2, <1>8
  <2> QED BY <1>3, <1>4, <1>8, <2>1 DEF MemoryType
<1>13. /\ doing.kind = "commit" /\ doing.asked = n /\ doing.target = n /\ doing.id = id
       /\ doing.commit = c /\ doing.head = (IF accepted THEN c ELSE NoCommit) /\ doing.hist = hist
  BY <1>5, <1>8
<1>14. c # NoCommit
  BY <1>1, SessionTypes DEF NoCommit
<1>15. /\ \A m : NextRef(s, m) = refs[m]
       /\ \A m : NextRef(s, m)' = IF accepted /\ m = n THEN [id |-> id, head |-> c] ELSE refs[m]
  <2>1. "idle" \notin BeforeRef /\ "begin" \in BeforeRef
    BY DEF BeforeRef, CommitPcs, PendingPcs
  <2> QED BY <1>6, <1>13, <1>14, <2>1 DEF NextRef, NoCommit
<1>16. DistinctIds(s)'
  <2>1. \A m : NextRef(s, m)' # NoRef => refs[m] # NoRef /\ refs[m].id = NextRef(s, m)'.id
    BY <1>10, <1>15
  <2> SUFFICES ASSUME NEW m \in Names, NEW k \in Names,
                      NextRef(s, m)' # NoRef, NextRef(s, k)' # NoRef,
                      NextRef(s, m)'.id = NextRef(s, k)'.id
               PROVE  m = k
    BY DEF DistinctIds, NextRef, NoRef, NoCommit
  <2> QED BY <1>0, <1>15, <2>1 DEF DistinctIds
<1>17. MemoryAgrees(s)'
  <2>1. PICK its : its = [branches EXCEPT ![i] = entry]
    OBVIOUS
  <2>2. /\ DOMAIN its = DOMAIN branches /\ its[i] = entry
        /\ \A j \in DOMAIN branches : j # i => its[j] = branches[j]
    BY <1>8, <2>1
  <2>3. \A j \in DOMAIN branches : its[j].name = branches[j].name
    BY <1>2, <1>8, <1>12, <2>2
  <2>4. ASSUME NEW j \in DOMAIN its
        PROVE  /\ [id |-> its[j].id, head |-> its[j].head] = NextRef(s, its[j].name)'
               /\ Tells(its[j].hist, its[j].head)'
    <3>1. CASE j = i
      <4>1. [id |-> its[j].id, head |-> its[j].head] = NextRef(s, its[j].name)'
        BY <1>10, <1>12, <1>15, <2>2, <3>1
      <4> QED BY <1>11, <1>12, <2>2, <3>1, <4>1
    <3>2. CASE j # i
      <4>1. its[j] = branches[j] /\ branches[j].name # n
        BY <1>2, <1>8, <2>2, <3>2
      <4> QED BY <1>8, <1>15, <2>2, <4>1, TellsStays
    <3> QED BY <3>1, <3>2
  <2>5. \A j, k \in DOMAIN its : its[j].name = its[k].name => j = k
    BY <1>8, <2>2, <2>3
  <2>6. mem'[s] = its
    BY <1>6, <2>1
  <2> QED BY <2>4, <2>5, <2>6, MemoryAgreesFrom
<1>18. OpAgrees(s)'
  <2>1. CommitExtends(s)'
    <3>1. Chain(c)' = Append(Chain(p), c) /\ Chain(p)' = Chain(p)
      BY <1>7, StoredStays DEF Chain
    <3>2. \A m \in Names : refs[m].head < c
      BY <1>1, HeadsBefore
    <3> QED BY <1>6, <1>7, <1>10, <1>13, <1>14, <3>1, <3>2 DEF CommitExtends, NoRef, NoCommit
  <2>2. p \in Commits'
    BY <1>7, StoredStays
  <2>3. doing.head # NoCommit => Tells(doing.hist, doing.head)'
    BY <1>11, <1>13
  <2>4. \E x \in Commits' : Tells(doing.hist, x)'
    BY <1>7, <1>11, <1>13, <2>2
  <2>5. doing.head = NoCommit => refs'[doing.asked] # NoRef /\ Tells(doing.hist, refs[doing.asked].head)'
    BY <1>6, <1>10, <1>11, <1>13, <1>14
  <2> QED BY <1>6, <1>13, <2>1, <2>3, <2>4, <2>5, BeginOp
<1>19. Len(log') <= MaxCommits
  BY <1>6, <1>7
<1> QED BY <1>6, <1>16, <1>17, <1>18, <1>19, BeginRest DEF AloneInv

(* The id a fork gives is greater than those of the branches on disk.      *)
LEMMA FreshId ==
  ASSUME IInv, NEW s \in Sessions, AloneInv(s), pc[s] = "idle",
         NEW id, id = 1 + Max({branchIdx[m].id : m \in Names}), NEW n \in Names
  PROVE  /\ id \in Nat
         /\ \A m \in Names : refs[m] # NoRef => refs[m].id \in Nat /\ refs[m].id < id
<1>1. PICK used : used = {branchIdx[m].id : m \in Names}
  OBVIOUS
<1>2. /\ branchIdx \in [Names -> BranchType] /\ refs \in [Names -> RefType]
      /\ \A m \in Names : branchIdx[m].id \in Nat /\ branchIdx[m].id <= MaxId
      /\ MaxId \in Nat
  BY DEF IInv, TypeOK, IdsBounded, BranchType, MaxId
<1>3. used \in SUBSET Nat /\ used # {} /\ \A x \in used : x <= MaxId
  BY <1>1, <1>2
<1>4. PICK g \in used : \A x \in used : x <= g
  BY <1>2, <1>3, GreatestExists
<1>5. Max(used) = g /\ g \in Nat
  BY <1>3, <1>4, MaxIs
<1>6. ASSUME NEW m \in Names, refs[m] # NoRef PROVE refs[m].id \in used
  <2>1. IndexSelf /\ branchIdx[m].head = refs[m].head
    BY DEF AloneInv, IndexAgrees
  <2>2. refs[m].head \in Commits
    BY <1>6 DEF IInv, DiskOK, RefOK, Stored
  <2>3. branchIdx[m] # NoBranch
    BY <2>1, <2>2 DEF NoBranch, NoCommit, Commits
  <2> QED BY <1>1, <2>1, <2>3 DEF IndexSelf
<1>7. id = 1 + g
  BY <1>1, <1>5
<1>8. \A m \in Names : refs[m] # NoRef => refs[m].id \in Nat /\ refs[m].id <= g
  BY <1>3, <1>4, <1>6
<1>9. ASSUME NEW r \in Nat, r <= g PROVE r < 1 + g
  BY <1>5, <1>9
<1>10. 1 + g \in Nat
  BY <1>5
<1> QED BY <1>7, <1>8, <1>9, <1>10, Zenon

(* A fork begins: the new branch is a copy of its source.                  *)
LEMMA ForkAlone ==
  ASSUME IInv, [Next]_vars, NEW s \in Sessions, AloneInv(s), NEW n \in Names, NEW new \in Names,
         ForkBegin(s, n, new), ~HasBranch(new)
  PROVE  AloneInv(s)'
<1>0. DistinctIds(s) /\ Len(log) <= MaxCommits
  BY DEF AloneInv
<1>1. PICK branches, source : /\ branches = Loaded(s, n)
                              /\ source = branches[Resolve(branches, n)]
  OBVIOUS
<1>2. PICK id, head, hist : /\ id = 1 + Max({branchIdx[m].id : m \in Names})
                            /\ head = source.head /\ hist = source.hist
  OBVIOUS
<1>3. PICK entry : entry = [name |-> new, id |-> id, head |-> head, hist |-> hist, forced |-> TRUE]
  OBVIOUS
<1>4. PICK doing : doing = [kind |-> "fork", asked |-> new, target |-> new, id |-> id,
                            commit |-> NoCommit, head |-> head, hist |-> hist]
  OBVIOUS
<1>5. /\ pc[s] = "idle" /\ pc'[s] = "ref" /\ CanLoad(s, n) /\ ~IsLoaded(branches, new)
      /\ mem'[s] = Append(branches, entry) /\ op'[s] = doing
      /\ UNCHANGED <<log, wal, refs, branchIdx, mirror, acked, plan>>
  BY <1>1, <1>2, <1>3, <1>4, SessionTypes, Zenon DEF ForkBegin, Goto, objects, indexes
<1>6. /\ branches \in Seq(MemoryType) /\ Resolve(branches, n) \in DOMAIN branches
      /\ source.name = n
      /\ \A j \in DOMAIN branches :
           /\ branches[j].name \in Names /\ branches[j].hist \in Seq(Nat)
           /\ [id |-> branches[j].id, head |-> branches[j].head] = refs[branches[j].name]
           /\ refs[branches[j].name] # NoRef
           /\ Tells(branches[j].hist, branches[j].head)
      /\ \A j, k \in DOMAIN branches : branches[j].name = branches[k].name => j = k
  BY <1>1, <1>5, LoadedAgrees
<1>7. /\ refs[n] # NoRef /\ refs[n].head = head /\ Tells(hist, head)
  <2>1. refs[n] = [id |-> source.id, head |-> head] /\ refs[n] # NoRef /\ Tells(hist, head)
    BY <1>1, <1>2, <1>6
  <2> QED BY <2>1
<1>8. Tells(hist, head)' /\ head # NoCommit /\ head \in Commits'
  BY <1>7, TellsStays, TellsAccepted, StoredStays
<1>9. refs[new] = NoRef
  BY DEF HasBranch
<1>10. /\ entry.name = new /\ entry.id = id /\ entry.head = head /\ entry.hist = hist
       /\ doing.kind = "fork" /\ doing.asked = new /\ doing.target = new /\ doing.id = id
       /\ doing.commit = NoCommit /\ doing.head = head /\ doing.hist = hist
  BY <1>3, <1>4
<1>11. /\ \A m : NextRef(s, m) = refs[m]
       /\ \A m : NextRef(s, m)' = IF m = new THEN [id |-> id, head |-> head] ELSE refs[m]
  <2>1. "idle" \notin BeforeRef /\ "ref" \in BeforeRef
    BY DEF BeforeRef, CommitPcs, PendingPcs
  <2> QED BY <1>5, <1>8, <1>10, <2>1 DEF NextRef, NoCommit
<1>12. id \in Nat /\ \A m \in Names : refs[m] # NoRef => refs[m].id \in Nat /\ refs[m].id < id
  BY <1>2, <1>5, FreshId
<1>13. DistinctIds(s)'
  <2> SUFFICES ASSUME NEW m \in Names, NEW k \in Names,
                      NextRef(s, m)' # NoRef, NextRef(s, k)' # NoRef,
                      NextRef(s, m)'.id = NextRef(s, k)'.id
               PROVE  m = k
    BY DEF DistinctIds, NextRef, NoRef, NoCommit
  <2> QED BY <1>0, <1>11, <1>12 DEF DistinctIds
<1>14. MemoryAgrees(s)'
  <2>1. /\ \A i \in DOMAIN branches :
             /\ branches[i].name \in Names /\ branches[i].name # new
             /\ [id |-> branches[i].id, head |-> branches[i].head] = refs[branches[i].name]
             /\ Tells(branches[i].hist, branches[i].head)
        /\ \A i, j \in DOMAIN branches : branches[i].name = branches[j].name => i = j
    BY <1>5, <1>6 DEF IsLoaded
  <2>2. \A m \in Names : NextRef(s, m)' = IF m = new THEN [id |-> entry.id, head |-> entry.head]
                                           ELSE refs[m]
    BY <1>10, <1>11
  <2>3. Tells(entry.hist, entry.head)'
    BY <1>8, <1>10
  <2>4. /\ branches \in Seq(MemoryType) /\ entry.name \in Names /\ new = entry.name
        /\ mem'[s] = Append(branches, entry) /\ refs' = refs
    BY <1>5, <1>6, <1>10
  <2> QED BY <2>1, <2>2, <2>3, <2>4, AppendAgrees
<1>15. OpAgrees(s)'
  <2>1. ForkCopies(s)'
    BY <1>5, <1>7, <1>9, <1>10 DEF ForkCopies, NoRef, NoCommit
  <2> QED BY <1>5, <1>8, <1>10, <2>1, BeginOp
<1>16. Len(log') <= MaxCommits
  BY <1>0, <1>5
<1> QED BY <1>5, <1>13, <1>14, <1>15, <1>16, BeginRest DEF AloneInv

-----------------------------------------------------------------------------
(* One careful process: AloneInv is inductive on top of IInv and CommitsOK.*)
LEMMA AloneInit ==
  ASSUME NEW s, Sessions = {s}, Init
  PROVE  AloneInv(s)
<1>1. /\ pc[s] = "down" /\ mem[s] = << >> /\ op[s] = NoOp /\ plan[s] = NoPlan
      /\ log = << >> /\ wal = "empty" /\ acked = {}
      /\ \A n \in Names : refs[n] = NoRef /\ branchIdx[n] = NoBranch /\ mirror[n] = << >>
  BY DEF Init
<1>2. Len(log) <= MaxCommits
  BY <1>1, BoundsAssumption
<1>3. "down" \notin BeforeRef \cup WriterPcs \cup AfterRef \cup RebuildPcs
  BY DEF BeforeRef, CommitPcs, PendingPcs, WriterPcs, AfterRef, RebuildPcs
<1>4. DistinctIds(s)
  BY <1>1, <1>3 DEF DistinctIds, NextRef
<1>5. MemoryAgrees(s)
  <2>1. DOMAIN << >> = {}
    OBVIOUS
  <2> QED BY <1>1, <2>1 DEF MemoryAgrees
<1>6. IndexSelf /\ MirrorSelf /\ IndexAgrees(s) /\ PlanAgrees(s) /\ LogSettled(s) /\ AckedOK
  BY <1>1, <1>3 DEF IndexSelf, MirrorSelf, IndexAgrees, PlanAgrees, LogSettled, AckedOK,
                    RebuildPcs, WriterPcs
<1>7. OpAgrees(s)
  BY <1>1, <1>3 DEF OpAgrees, NoOp, NoCommit
<1> QED BY <1>2, <1>4, <1>5, <1>6, <1>7 DEF AloneInv

(* The lock is no part of AloneInv.                                        *)
LEMMA LockAlone ==
  ASSUME IInv, [Next]_vars, NEW s \in Sessions, AloneInv(s),
         UNCHANGED <<log, objs, wal, refs, branchIdx, mirror, pc, mem, op, plan, acked>>
  PROVE  AloneInv(s)'
<1>0. /\ Len(log) <= MaxCommits
      /\ DistinctIds(s) /\ MemoryAgrees(s) /\ IndexSelf /\ MirrorSelf /\ IndexAgrees(s)
      /\ PlanAgrees(s) /\ LogSettled(s) /\ OpAgrees(s) /\ AckedOK
  BY DEF AloneInv
<1>1. Len(log') <= MaxCommits
  BY <1>0
<1>2. DistinctIds(s)' /\ MemoryAgrees(s)' /\ IndexSelf' /\ MirrorSelf' /\ AckedOK'
  <2>1. \A n \in Names : NextRef(s, n)' = NextRef(s, n)
    BY DEF NextRef, NoCommit
  <2> QED BY <1>0, <2>1, ViewKept, DiskKept
<1>3. IndexAgrees(s)' /\ LogSettled(s)'
  BY <1>0 DEF IndexAgrees, LogSettled
<1>4. PlanAgrees(s)'
  <2>1. \A hist, x : Tells(hist, x) => Tells(hist, x)'
    BY TellsStays
  <2>2. NoPlan' = NoPlan /\ NoRef' = NoRef /\ NoBranch' = NoBranch
    BY DEF NoPlan, NoRef, NoBranch, NoCommit
  <2>3. PICK its : its = plan[s] /\ its = plan'[s]
    OBVIOUS
  <2>4. ASSUME NEW n \in Names, pc[s] \in {"collect", "replace"}, n \notin its.todo
        PROVE  LET b == its.branches[n] IN
               /\ b.id = refs[n].id /\ b.head = refs[n].head
               /\ refs[n] # NoRef => Tells(b.hist, b.head)'
               /\ refs[n] = NoRef => b = NoBranch
    BY <1>0, <2>1, <2>3, <2>4 DEF PlanAgrees
  <2> QED BY <1>0, <2>2, <2>3, <2>4 DEF PlanAgrees
<1>5. OpAgrees(s)'
  <2>1. CommitExtends(s) => CommitExtends(s)'
    BY DEF CommitExtends, Chain, NoRef, NoCommit
  <2>2. ForkCopies(s) => ForkCopies(s)'
    BY DEF ForkCopies, NoRef, NoCommit
  <2>3. \A hist, x : Tells(hist, x) => Tells(hist, x)'
    BY TellsStays
  <2>4. Commits' = Commits /\ NoRef' = NoRef
    BY DEF Commits, NoRef, NoCommit
  <2>5. PICK doing : doing = op[s] /\ doing = op'[s]
    OBVIOUS
  <2>6. /\ pc'[s] = pc[s] /\ refs' = refs /\ log' = log
    OBVIOUS
  <2> QED BY <1>0, <2>1, <2>2, <2>3, <2>4, <2>5, <2>6 DEF OpAgrees
<1> QED BY <1>0, <1>1, <1>2, <1>3, <1>4, <1>5 DEF AloneInv

LEMMA AloneStep ==
  ASSUME NEW s, Sessions = {s}, IInv, CommitsOK, AloneInv(s), [Next]_vars, [Careful]_vars
  PROVE  AloneInv(s)'
<1>0. s \in Sessions
  OBVIOUS
<1>1. CASE UNCHANGED vars
  <2>1. UNCHANGED <<log, objs, wal, refs, branchIdx, mirror, pc, mem, op, plan, acked>>
    BY <1>1 DEF vars
  <2> QED BY <1>0, <2>1, LockAlone
<1>2. CASE ClearLock
  <2>1. UNCHANGED <<log, objs, wal, refs, branchIdx, mirror, pc, mem, op, plan, acked>>
    BY <1>2 DEF ClearLock, objects, indexes, memory, ghosts
  <2> QED BY <1>0, <2>1, LockAlone
<1>3. CASE Crash(s)
  BY <1>0, <1>3, DownAlone
<1>4. CASE Call(s) /\ Careful
  <2>1. CASE Close(s)
    BY <1>0, <2>1, DownAlone
  <2>2. CASE Open(s) \/ RecoverBegin(s) \/ RebuildBegin(s)
    BY <1>0, <2>2, OpeningAlone
  <2>3. ASSUME NEW n \in CreateNames, CreateBegin(s, n) PROVE AloneInv(s)'
    <3>1. n \in Names
      BY NamesAssumption
    <3>2. \A m \in Names : refs[m] # NoRef => refs[m].id # nextId[s]
      BY <1>0, <1>4, <2>3 DEF Careful
    <3> QED BY <1>0, <2>3, <3>1, <3>2, CreateAlone
  <2>4. ASSUME NEW n \in Names, NEW accepted \in BOOLEAN, CommitBegin(s, n, accepted)
        PROVE  AloneInv(s)'
    BY <1>0, <2>4, CommitAlone
  <2>5. ASSUME NEW n \in Names, NEW new \in ForkNames, ForkBegin(s, n, new) PROVE AloneInv(s)'
    <3>1. new \in Names
      BY NamesAssumption
    <3>2. ~HasBranch(new)
      BY <1>0, <1>4, <2>5 DEF Careful
    <3> QED BY <1>0, <2>5, <3>1, <3>2, ForkAlone
  <2>6. ASSUME NEW n \in Names, Materialize(s, n) PROVE AloneInv(s)'
    BY <1>0, <2>6, MaterializeAlone
  <2> QED BY <1>4, <2>1, <2>2, <2>3, <2>4, <2>5, <2>6 DEF Call
<1>5. CASE Step(s)
  <2>1. CASE Recover(s)
    BY <1>0, <2>1, OpeningAlone
  <2>2. CASE Settle(s)
    BY <1>0, <2>2, SettleAlone
  <2>3. CASE RebuildStart(s) \/ RebuildCommits(s)
    BY <1>0, <2>3, RebuildingAlone
  <2>4. ASSUME NEW n \in Names, RebuildBranch(s, n) PROVE AloneInv(s)'
    BY <1>0, <2>4, CollectAlone
  <2>5. CASE RebuildBranches(s)
    BY <1>0, <2>5, ReplaceAlone
  <2>6. CASE \/ WriteBegin(s) \/ PutPayload(s) \/ PutPages(s) \/ PutObject(s)
             \/ IndexCommit(s) \/ IndexEvents(s) \/ IndexGraph(s) \/ UpdateWorldIndex(s)
             \/ WriteMirror(s) \/ WriteEnd(s)
    <3>1. QuietMove(s) /\ UNCHANGED <<log, refs, branchIdx, acked, op, mem, plan, nextId>>
      BY <1>0, <2>6, QuietMoves
    <3> QED BY <1>0, <3>1, QuietAlone
  <2>7. CASE UpdateRef(s)
    BY <1>0, <2>7, RefAlone
  <2>8. CASE UpdateBranchIndex(s)
    BY <1>0, <2>8, IndexAlone
  <2>9. CASE Return(s)
    BY <1>0, <2>9, ReturnAlone
  <2> QED BY <1>5, <2>1, <2>2, <2>3, <2>4, <2>5, <2>6, <2>7, <2>8, <2>9 DEF Step
<1>6. \/ UNCHANGED vars \/ ClearLock \/ Crash(s) \/ Step(s) \/ (Call(s) /\ Careful)
  BY DEF Next
<1> QED BY <1>1, <1>2, <1>3, <1>4, <1>5, <1>6

(* AloneInv: what one process, alone with the repository, keeps true of    *)
(* its memory, the refs, the indexes, the mirrors and the log.             *)
THEOREM AloneHolds ==
  ASSUME NEW s, Sessions = {s}
  PROVE  Spec /\ [][Careful]_vars => [](IInv /\ CommitsOK /\ AloneInv(s))
<1>1. Init => AloneInv(s)
  BY AloneInit
<1>2. IInv /\ CommitsOK /\ AloneInv(s) /\ [Next]_vars /\ [Careful]_vars => AloneInv(s)'
  BY AloneStep
<1> QED BY <1>1, <1>2, CommitsHold, PTL DEF Spec

(* engine open and recover(true): a repository opened by one process, not  *)
(* in a call, has an empty write-ahead log and indexes that agree with the *)
(* refs, wherever earlier runs of the process have crashed.                *)
THEOREM RecoverySettles ==
  ASSUME NEW s, Sessions = {s}
  PROVE  Spec /\ [][Careful]_vars => []SettledWhenIdle
<1>1. ASSUME IInv, AloneInv(s) PROVE SettledWhenIdle
  <2> SUFFICES ASSUME pc[s] = "idle" PROVE IndexesAgree /\ wal = "empty"
    BY DEF SettledWhenIdle
  <2>1. IndexSelf /\ wal = "empty" /\ \A n \in Names : branchIdx[n].head = refs[n].head
    BY <1>1 DEF AloneInv, IndexAgrees, LogSettled
  <2>2. ASSUME NEW n \in Names, branchIdx[n] # NoBranch
        PROVE  branchIdx[n].head \in Range(branchIdx[n].hist)
    <3>1. PICK hist, x : hist = branchIdx[n].hist /\ x = branchIdx[n].head
      OBVIOUS
    <3>2. Tells(hist, x)
      BY <2>1, <2>2, <3>1 DEF IndexSelf
    <3>3. x \in Commits /\ x \in Range(Chain(x))
      BY <1>1, <3>2, TellsAccepted, ChainIn DEF IInv
    <3>4. x \in Range(hist)
      BY <3>2, <3>3 DEF Tells, Range
    <3> QED BY <3>1, <3>4
  <2>3. ASSUME NEW n \in Names, refs[n] # NoRef PROVE branchIdx[n] # NoBranch
    <3>1. refs[n].head \in Commits
      BY <1>1, <2>3 DEF IInv, DiskOK, RefOK, Stored
    <3> QED BY <2>1, <3>1 DEF NoBranch, NoCommit, Commits
  <2> QED BY <2>1, <2>2, <2>3 DEF IndexesAgree
<1> QED BY <1>1, AloneHolds, PTL

(* Repository::commit, then any crashes and rebuilds: an accepted commit   *)
(* that was acknowledged stays in the ancestry of its branch's head.       *)
THEOREM AcceptedCommitsAreKept ==
  ASSUME NEW s, Sessions = {s}
  PROVE  Spec /\ [][Careful]_vars => []AcceptedKept
<1>1. AloneInv(s) => AcceptedKept
  BY DEF AloneInv, AckedOK, AcceptedKept
<1> QED BY <1>1, AloneHolds, PTL

(* The memory of the process, the mirrors and the parent chain a rebuild   *)
(* falls back to: whichever the branch index was last written from, its    *)
(* accepted commits are the ancestry of the head, in order.                *)
THEOREM IndexTellsAncestry ==
  ASSUME NEW s, Sessions = {s}
  PROVE  Spec /\ [][Careful]_vars => []HistoryIsAncestry
<1>1. AloneInv(s) => HistoryIsAncestry
  BY DEF AloneInv, IndexSelf, HistoryIsAncestry
<1> QED BY <1>1, AloneHolds, PTL

-----------------------------------------------------------------------------
(* The refinement: the ref of a branch stands for the ancestry of its head.*)
History == [n \in Names |-> IF refs[n] = NoRef THEN << >> ELSE Chain(refs[n].head)]

(* A step that moves no ref is a stutter of the abstract specification.    *)
LEMMA HistoryStays ==
  ASSUME IInv, [Next]_vars
  PROVE  \A n \in Names : refs'[n] = refs[n] => History'[n] = History[n]
<1> SUFFICES ASSUME NEW n \in Names, refs'[n] = refs[n] PROVE History'[n] = History[n]
  OBVIOUS
<1>1. NoRef' = NoRef
  BY DEF NoRef, NoCommit
<1>2. refs[n] # NoRef => Chain(refs[n].head)' = Chain(refs[n].head)
  <2>1. refs[n] # NoRef => refs[n].head \in Commits
    BY DEF IInv, DiskOK, RefOK, Stored
  <2> QED BY <2>1, StoredStays DEF Chain
<1> QED BY <1>1, <1>2 DEF History

(* The commit of a call that has yet to move its ref is in no branch.      *)
LEMMA CommitUnused ==
  ASSUME IInv, NEW c, \A n \in Names : refs[n].head < c, c \in Nat
  PROVE  \A n \in Names : \A i \in DOMAIN History[n] : History[n][i] # c
<1> SUFFICES ASSUME NEW n \in Names, NEW i \in DOMAIN History[n], History[n][i] = c PROVE FALSE
  OBVIOUS
<1>1. PICK chain : chain = Chain(refs[n].head)
  OBVIOUS
<1>2. refs[n] # NoRef /\ History[n] = chain
  BY <1>1 DEF History
<1>3. refs[n].head \in Commits
  BY <1>2 DEF IInv, DiskOK, RefOK, Stored
<1>4. i \in DOMAIN chain /\ chain[i] \in 1..refs[n].head /\ refs[n].head \in Nat
  BY <1>1, <1>2, <1>3, SessionTypes DEF IInv, LogOK, ChainOK, Commits, TypeOK
<1> QED BY <1>2, <1>4

(* A branch that has a ref has a history that is not empty.                *)
LEMMA HistoryBegun ==
  ASSUME IInv, NEW n \in Names
  PROVE  /\ refs[n] = NoRef => History[n] = << >>
         /\ refs[n] # NoRef => History[n] # << >> /\ History[n] = Chain(refs[n].head)
<1>1. refs[n] # NoRef => Chain(refs[n].head) # << >>
  BY DEF IInv, DiskOK, RefOK, Stored, LogOK, ChainOK
<1> QED BY <1>1 DEF History

(* Moving the ref creates, extends or forks the abstract branch.           *)
LEMMA RefHistory ==
  ASSUME IInv, CommitsOK, [Next]_vars, NEW s \in Sessions, AloneInv(s), UpdateRef(s)
  PROVE  \/ \E n \in Names, c \in 1..MaxCommits :
              /\ \A m \in Names : \A i \in DOMAIN History[m] : History[m][i] # c
              /\ \/ History[n] = << >> /\ History' = [History EXCEPT ![n] = <<c>>]
                 \/ /\ History[n] # << >>
                    /\ History' = [History EXCEPT ![n] = Append(@, c)]
         \/ \E n, new \in Names :
              /\ History[n] # << >> /\ History[new] = << >>
              /\ History' = [History EXCEPT ![new] = History[n]]
<1>0. Len(log) <= MaxCommits /\ OpAgrees(s)
  BY DEF AloneInv
<1>1. PICK n, head, new : n = op[s].target /\ head = op[s].head /\ new = [id |-> op[s].id, head |-> head]
  OBVIOUS
<1>2. pc[s] = "ref" /\ refs' = [refs EXCEPT ![n] = new] /\ log' = log
  BY <1>1 DEF UpdateRef, Goto, memory
<1>3. /\ n \in Names /\ op[s].asked = n /\ op[s].kind \in {"create", "commit", "fork"}
      /\ head # NoCommit /\ Tells(op[s].hist, head)
      /\ op[s].kind # "fork" => CommitExtends(s)
      /\ op[s].kind = "fork" => ForkCopies(s)
  BY <1>0, <1>1, <1>2, EntryStored DEF OpAgrees, WriterPcs, BeforeRef
<1>4. head \in Commits /\ new.head = head /\ new # NoRef
  BY <1>1, <1>3, TellsAccepted DEF NoRef
<1>5. /\ DOMAIN History = Names /\ DOMAIN History' = Names
      /\ refs'[n] = new /\ \A m \in Names : m # n => History'[m] = History[m]
  BY <1>2, <1>3, HistoryStays, SessionTypes DEF History
<1>6. History'[n] = Chain(head)
  BY <1>2, <1>3, <1>4, <1>5 DEF History, Chain, NoRef, NoCommit
<1>7. ASSUME NEW hist, Chain(head) = hist PROVE History' = [History EXCEPT ![n] = hist]
  BY <1>3, <1>5, <1>6, <1>7 DEF History
<1>8. head \in 1..MaxCommits
  BY <1>0, <1>4, SessionTypes, BoundsAssumption DEF Commits
<1>9. ASSUME op[s].kind # "fork"
      PROVE  /\ op[s].commit = head
             /\ \A m \in Names : \A i \in DOMAIN History[m] : History[m][i] # head
  <2>1. op[s].commit = head
    BY <1>1, <1>3, <1>9 DEF CommitExtends
  <2>2. \A m \in Names : refs[m].head < head
    BY <1>3, <1>9, <2>1 DEF CommitExtends
  <2>3. head \in Nat
    BY <1>4 DEF Commits
  <2> QED BY <2>1, <2>2, <2>3, CommitUnused
<1>10. CASE op[s].kind = "create"
  <2>1. refs[n] = NoRef /\ Chain(head) = <<head>>
    BY <1>1, <1>3, <1>9, <1>10 DEF CommitExtends
  <2>2. History[n] = << >> /\ History' = [History EXCEPT ![n] = <<head>>]
    BY <1>3, <1>7, <2>1, HistoryBegun
  <2> QED BY <1>3, <1>8, <1>9, <1>10, <2>2
<1>11. CASE op[s].kind = "commit"
  <2>1. refs[n] # NoRef /\ Chain(head) = Append(Chain(refs[n].head), head)
    BY <1>1, <1>3, <1>9, <1>11 DEF CommitExtends
  <2>2. History[n] # << >> /\ Chain(head) = Append(History[n], head)
    BY <1>3, <2>1, HistoryBegun
  <2>3. History' = [History EXCEPT ![n] = Append(@, head)]
    BY <1>7, <2>2
  <2> QED BY <1>3, <1>8, <1>9, <1>11, <2>2, <2>3
<1>12. CASE op[s].kind = "fork"
  <2>1. refs[n] = NoRef /\ \E m \in Names : refs[m] # NoRef /\ refs[m].head = head
    BY <1>1, <1>3, <1>12 DEF ForkCopies
  <2>2. PICK m \in Names : refs[m] # NoRef /\ refs[m].head = head
    BY <2>1
  <2>3. History[n] = << >> /\ History[m] # << >> /\ History[m] = Chain(head)
    BY <1>3, <2>1, <2>2, HistoryBegun
  <2>4. History' = [History EXCEPT ![n] = History[m]]
    BY <1>7, <2>3
  <2> QED BY <1>3, <2>3, <2>4
<1> QED BY <1>3, <1>10, <1>11, <1>12

(* Only refs.update moves a ref.                                           *)
LEMMA RefFrame ==
  ASSUME [Next]_vars
  PROVE  refs' = refs \/ \E s \in Sessions : UpdateRef(s)
<1>1. ASSUME NEW s \in Sessions, UpdateBranchIndex(s) \/ WriteMirror(s) \/ RebuildBranches(s)
      PROVE  refs' = refs
  BY <1>1 DEF UpdateBranchIndex, WriteMirror, RebuildBranches
<1> QED BY <1>1, DiskFrame

(* The repository implements BranchHistory: seen through its refs, every   *)
(* handler of a careful process either leaves the branches alone or        *)
(* creates, extends or forks one, once, whatever crashes come between.     *)
THEOREM StoreImplementsHistory ==
  ASSUME NEW s, Sessions = {s}
  PROVE  Spec /\ [][Careful]_vars => ImplementsHistory
<1>1. Init => Abstract!Init
  BY DEF Init, Abstract!Init
<1>2. ASSUME IInv, CommitsOK, AloneInv(s), [Next]_vars
      PROVE  [Abstract!Next]_History
  <2>1. CASE refs' = refs
    <3>1. History' = History
      BY <1>2, <2>1, HistoryStays DEF History
    <3> QED BY <3>1
  <2>2. ASSUME UpdateRef(s) PROVE Abstract!Next
    <3>1. CASE \E n \in Names, c \in 1..MaxCommits :
                 /\ \A m \in Names : \A i \in DOMAIN History[m] : History[m][i] # c
                 /\ \/ History[n] = << >> /\ History' = [History EXCEPT ![n] = <<c>>]
                    \/ /\ History[n] # << >>
                       /\ History' = [History EXCEPT ![n] = Append(@, c)]
      <4>1. PICK n \in Names, c \in 1..MaxCommits :
                 /\ \A m \in Names : \A i \in DOMAIN History[m] : History[m][i] # c
                 /\ \/ History[n] = << >> /\ History' = [History EXCEPT ![n] = <<c>>]
                    \/ /\ History[n] # << >>
                       /\ History' = [History EXCEPT ![n] = Append(@, c)]
        BY <3>1
      <4>2. c \notin Abstract!Used
        BY <4>1 DEF Abstract!Used, History
      <4>3. Abstract!Create(n, c) \/ Abstract!Extend(n, c)
        BY <4>1, <4>2 DEF Abstract!Create, Abstract!Extend, History
      <4> QED BY <4>3 DEF Abstract!Next
    <3>2. CASE \E n, new \in Names :
                 /\ History[n] # << >> /\ History[new] = << >>
                 /\ History' = [History EXCEPT ![new] = History[n]]
      BY <3>2 DEF Abstract!Next, Abstract!Fork, History
    <3> QED BY <1>2, <2>2, <3>1, <3>2, RefHistory
  <2> QED BY <1>2, <2>1, <2>2, RefFrame
<1>3. IInv /\ CommitsOK /\ AloneInv(s) /\ [Next]_vars => [Abstract!Next]_History
  BY <1>2
<1> QED BY <1>1, <1>3, AloneHolds, PTL DEF Spec, ImplementsHistory, Abstract!Spec, History
=============================================================================

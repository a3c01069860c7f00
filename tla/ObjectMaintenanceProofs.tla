---------------------- MODULE ObjectMaintenanceProofs ----------------------
(***************************************************************************)
(* Proofs about ObjectMaintenance, for any commits, calls and damage.  For *)
(* any number of processes, whichever die: what the files are, and that    *)
(* packs are whole.  When one process works at a time, or none dies: that  *)
(* no object of a published commit is lost.                                *)
(***************************************************************************)
EXTENDS ObjectMaintenance, WellFoundedInduction, TLAPS

All == AllOf(DOMAIN Needs)

(* What a call may be, over the ref and the packs.                         *)
CallOK(c, head, packs) ==
  \/ c \in {Closed, Idle}
  \/ /\ c.op = "commit" /\ c = Committing(c.commit, c.todo)
     /\ c.commit \in DOMAIN Needs /\ c.todo \in Seq(Range(Needs[c.commit]))
     /\ \/ c.commit = head + 1
        \/ c.commit = head /\ c.todo = << >>
  \/ /\ c.op = "compact" /\ c = Compacting(c.list, c.number)
     /\ c.list \subseteq All /\ c.number \in Nat \ {0}
     /\ IF c.number \in DOMAIN packs THEN packs[c.number] = c.list
        ELSE DOMAIN packs = 1..(c.number - 1)
  \/ c.op = "gc" /\ c = Collecting(c.garbage)
  \/ /\ c.op \in {"look", "loose", "packed"} /\ c = Reading(c.op, c.todo, c.commit)
     /\ c.todo \in Seq(AllOf(1..head))
     /\ c.op # "look" => c.todo # << >>

Writes(c) == c.op \in {"commit", "compact", "gc"}

\* One call that writes at most: the one of the session that holds the lock.
CallsOf(calls, holder, head, packs) ==
  /\ calls = [s \in Sessions |-> calls[s]]
  /\ \A s \in Sessions :
       CallOK(calls[s], head, packs) /\ (Writes(calls[s]) => holder = s)

(* Packs are numbered without a gap, whether they have an index or not.    *)
PacksOf(packs, indexes) ==
  /\ \E k \in Nat : DOMAIN packs = 1..k
  /\ \A n \in DOMAIN packs : packs[n] \subseteq All
  /\ \A n \in DOMAIN indexes : n \in DOMAIN packs /\ indexes[n] = packs[n]

LeftOK ==
  /\ left = [calls |-> left.calls, crashes |-> left.crashes, damage |-> left.damage]
  /\ left.calls \in Nat
  /\ left.crashes \in 0..MaxCrashes
  /\ left.damage \in 0..MaxDamage
  /\ damaged # {} => left.damage < MaxDamage

FilesInv ==
  /\ loose \subseteq All /\ partial \subseteq All /\ quarantine \subseteq All
  /\ ref \in 0..Len(Needs) /\ index \in 0..ref
  /\ lock \in Sessions \cup {Nobody, Stale}
  /\ PacksOf(pvp, idx) /\ LeftOK /\ CallsOf(call, lock, ref, pvp)
  /\ \A f \in failed : f[2] \in AllOf(1..ref)

-----------------------------------------------------------------------------
(* One process at a time, or none that dies.                               *)
Undisturbed == MaxCrashes = 0 \/ \E s : Sessions = {s}

(* What some file should hold.                                             *)
Stored == loose \cup UNION {idx[n] : n \in DOMAIN idx}

(* What a call has stored, or will not touch.                              *)
CallKeeps(c, stored, head) ==
  /\ c.op = "commit" => Range(Needs[c.commit]) \subseteq Range(c.todo) \cup stored
  /\ c.op = "gc" => c.garbage \cap AllOf(1..head) = {}

(* The ref is before the index only in a commit, or when all are dead.     *)
IndexBehind ==
  index # ref =>
    \/ \E s \in Sessions : call[s].op = "commit" /\ call[s].commit = ref
    \/ \A s \in Sessions : call[s] = Closed

KeptInv ==
  /\ FilesInv
  /\ AllOf(1..ref) \subseteq Stored
  /\ \A s \in Sessions : CallKeeps(call[s], Stored, ref)
  /\ IndexBehind

-----------------------------------------------------------------------------
(* The operators                                                           *)

\* A nonempty set of numbers has a least one.
LEMMA LeastNumber ==
  ASSUME NEW S \in SUBSET Nat, S # {}
  PROVE  \E n \in S : \A m \in S : n <= m
PROOF
<1>1. PICK n \in S : \A m \in S : ~(<<m, n>> \in OpToRel(<, Nat))
  BY NatLessThanWellFounded, WFMin
<1>2. \A m \in S : ~(m < n) BY <1>1 DEF OpToRel
<1> QED BY <1>2

\* The objects of the first commits, more with each of them.
LEMMA MoreCommits ==
  ASSUME MaintenanceAssumption, NEW m \in Nat, NEW n \in Nat, m <= n
  PROVE  /\ AllOf(1..m) \subseteq AllOf(1..n)
         /\ n <= Len(Needs) => AllOf(1..n) \subseteq All
PROOF
<1>1. DOMAIN Needs = 1..Len(Needs) BY DEF MaintenanceAssumption
<1>2. Len(Needs) \in Nat BY DEF MaintenanceAssumption
<1>3. AllOf(1..m) \subseteq AllOf(1..n) BY DEF AllOf
<1>4. n <= Len(Needs) => AllOf(1..n) \subseteq All BY <1>1, <1>2 DEF AllOf, All
<1> QED BY <1>3, <1>4

LEMMA NextCommit ==
  ASSUME NEW n \in Nat
  PROVE  AllOf(1..(n + 1)) = AllOf(1..n) \cup Range(Needs[n + 1])
PROOF
<1>1. 1..(n + 1) = (1..n) \cup {n + 1} OBVIOUS
<1> QED BY <1>1 DEF AllOf

LEMMA Wider ==
  ASSUME NEW S, NEW T, S \subseteq T, NEW q \in Seq(S)
  PROVE  q \in Seq(T)
PROOF
<1>1. \A i \in 1..Len(q) : q[i] \in T OBVIOUS
<1> QED BY <1>1

LEMMA Rest ==
  ASSUME NEW S, NEW q \in Seq(S), q # << >>
  PROVE  /\ Head(q) \in S /\ Tail(q) \in Seq(S)
         /\ Range(q) \subseteq {Head(q)} \cup Range(Tail(q))
PROOF
<1>1. Head(q) \in S /\ Tail(q) \in Seq(S) /\ Head(q) = q[1] /\ Len(q) # 0
  OBVIOUS
<1>2. ASSUME NEW i \in 1..Len(q), i # 1
      PROVE  q[i] \in Range(Tail(q))
  <2>1. i - 1 \in 1..Len(Tail(q)) /\ Tail(q)[i - 1] = q[i] BY <1>1, <1>2
  <2>2. DOMAIN Tail(q) = 1..Len(Tail(q)) BY <1>1
  <2> QED BY <2>1, <2>2 DEF Range
<1>3. DOMAIN q = 1..Len(q) OBVIOUS
<1> QED BY <1>1, <1>2, <1>3 DEF Range

\* What materialising a published commit reads.
LEMMA ReadsAreNeeds ==
  ASSUME MaintenanceAssumption, NEW c \in 0..Len(Needs), NEW n \in Nat, c <= n
  PROVE  ReadsOf(c) \in Seq(AllOf(1..n)) /\ Range(ReadsOf(c)) \subseteq AllOf(1..n)
PROOF
<1>0. Len(Needs) \in Nat /\ DOMAIN Needs = 1..Len(Needs) BY DEF MaintenanceAssumption
<1>1. ReadsOf(c) \in Seq(AllOf(1..c))
  <2>1. CASE c = 0 BY <2>1 DEF ReadsOf
  <2>2. CASE c # 0
    <3>1. c \in DOMAIN Needs BY <1>0, <2>2
    <3>2. Reads[c] \in Seq(AllOf(1..c)) BY <3>1 DEF MaintenanceAssumption
    <3> QED BY <2>2, <3>2 DEF ReadsOf
  <2> QED BY <2>1, <2>2
<1>2. c \in Nat BY <1>0
<1>3. AllOf(1..c) \subseteq AllOf(1..n) BY <1>2, MoreCommits
<1>4. PICK r : r = ReadsOf(c) OBVIOUS
<1>5. r \in Seq(AllOf(1..n)) BY <1>1, <1>3, <1>4, Wider
<1>6. Range(r) \subseteq AllOf(1..n) BY <1>5 DEF Range
<1> QED BY <1>4, <1>5, <1>6

\* The number of a new pack.
LEMMA NewPack ==
  ASSUME NEW k \in Nat, DOMAIN pvp = 1..k
  PROVE  NextPackNumber = k + 1
PROOF
<1>1. k \in {0} \cup DOMAIN pvp /\ \A m \in DOMAIN pvp : m <= k OBVIOUS
<1>2. \A n \in {0} \cup DOMAIN pvp : (\A m \in DOMAIN pvp : m <= n) => n = k
  OBVIOUS
<1>3. (CHOOSE n \in {0} \cup DOMAIN pvp : \A m \in DOMAIN pvp : m <= n) = k
  BY <1>1, <1>2
<1>4. NextPackNumber = 1 + k
  BY <1>3, Zenon DEF NextPackNumber
<1> QED BY <1>4

-----------------------------------------------------------------------------
(* One call of one session                                                 *)

\* A session moves on; the others' calls are still what they may be.
LEMMA OneCall ==
  ASSUME NEW calls, NEW holder, NEW head, NEW packs,
         NEW s \in Sessions, NEW c, NEW holder2, NEW head2, NEW packs2,
         CallsOf(calls, holder, head, packs),
         CallOK(c, head2, packs2), Writes(c) => holder2 = s,
         holder2 = holder \/ holder = s \/ holder \notin Sessions,
         \A t \in Sessions \ {s} : CallOK(calls[t], head2, packs2)
  PROVE  CallsOf([calls EXCEPT ![s] = c], holder2, head2, packs2)
PROOF
<1> DEFINE next == [calls EXCEPT ![s] = c]
<1>1. next = [t \in Sessions |-> next[t]] BY DEF CallsOf
<1>2. next[s] = c /\ \A t \in Sessions \ {s} : next[t] = calls[t] BY DEF CallsOf
<1>3. ASSUME NEW t \in Sessions
      PROVE  CallOK(next[t], head2, packs2) /\ (Writes(next[t]) => holder2 = t)
  <2>1. CASE t = s BY <1>2, <2>1
  <2>2. CASE t # s
    <3>1. Writes(calls[t]) => holder = t BY DEF CallsOf
    <3> QED BY <1>2, <2>2, <3>1
  <2> QED BY <2>1, <2>2
<1> HIDE DEF next
<1>4. CallsOf(next, holder2, head2, packs2) BY <1>1, <1>3 DEF CallsOf
<1> QED BY <1>4 DEF next

\* A later ref or another pack matters to the calls that write only.
LEMMA OtherCalls ==
  ASSUME MaintenanceAssumption,
         NEW c, NEW head \in Nat, NEW packs, NEW head2 \in Nat, NEW packs2,
         CallOK(c, head, packs), ~Writes(c), head <= head2
  PROVE  CallOK(c, head2, packs2)
PROOF
<1>1. CASE c \in {Closed, Idle} BY <1>1 DEF CallOK
<1>2. CASE c \notin {Closed, Idle}
  <2>1. /\ c.op \in {"look", "loose", "packed"} /\ c = Reading(c.op, c.todo, c.commit)
        /\ c.todo \in Seq(AllOf(1..head))
        /\ c.op # "look" => c.todo # << >>
    BY <1>2 DEF CallOK, Writes
  <2>2. AllOf(1..head) \subseteq AllOf(1..head2) BY MoreCommits
  <2>3. PICK q : q = c.todo OBVIOUS
  <2>4. q \in Seq(AllOf(1..head2)) BY <2>1, <2>2, <2>3, Wider
  <2>5. c.todo \in Seq(AllOf(1..head2)) BY <2>3, <2>4
  <2> QED BY <2>1, <2>5 DEF CallOK
<1> QED BY <1>1, <1>2

-----------------------------------------------------------------------------
(* Files: every step                                                       *)

LEMMA CallUsed ==
  ASSUME FilesInv, Use("calls"), UNCHANGED damaged
  PROVE  LeftOK'
PROOF
<1>1. LeftOK BY DEF FilesInv
<1>2. /\ left'.calls = left.calls - 1 /\ left'.crashes = left.crashes
      /\ left'.damage = left.damage /\ left.calls > 0
      /\ left' = [calls |-> left'.calls, crashes |-> left'.crashes, damage |-> left'.damage]
  BY <1>1 DEF LeftOK, Use
<1> QED BY <1>1, <1>2 DEF LeftOK

LEMMA CrashUsed ==
  ASSUME MaintenanceAssumption, FilesInv, Use("crashes"), UNCHANGED damaged
  PROVE  LeftOK'
PROOF
<1>1. LeftOK BY DEF FilesInv
<1>2. /\ left'.calls = left.calls /\ left'.crashes = left.crashes - 1
      /\ left'.damage = left.damage /\ left.crashes > 0
      /\ left' = [calls |-> left'.calls, crashes |-> left'.crashes, damage |-> left'.damage]
  BY <1>1 DEF LeftOK, Use
<1>3. left'.crashes \in 0..MaxCrashes
  BY <1>1, <1>2 DEF LeftOK, MaintenanceAssumption
<1> QED BY <1>1, <1>2, <1>3 DEF LeftOK

LEMMA DamageUsed ==
  ASSUME FilesInv, Use("damage"), MaintenanceAssumption
  PROVE  LeftOK'
PROOF
<1>1. LeftOK BY DEF FilesInv
<1>2. /\ left'.calls = left.calls /\ left'.crashes = left.crashes
      /\ left'.damage = left.damage - 1 /\ left.damage > 0
      /\ left' = [calls |-> left'.calls, crashes |-> left'.crashes, damage |-> left'.damage]
  BY <1>1 DEF LeftOK, Use
<1>3. left'.damage \in 0..MaxDamage /\ left'.damage < MaxDamage
  BY <1>1, <1>2 DEF LeftOK, MaintenanceAssumption
<1> QED BY <1>1, <1>2, <1>3 DEF LeftOK

LEMMA LeftAlone ==
  ASSUME FilesInv, UNCHANGED left, damaged' \subseteq damaged
  PROVE  LeftOK'
BY DEF FilesInv, LeftOK

\* A step of a session that leaves the packs and the ref.
LEMMA SessionStep ==
  ASSUME MaintenanceAssumption, FilesInv,
         NEW s \in Sessions, NEW c, Become(s, c), CallOK(c, ref, pvp),
         Writes(c) => lock' = s,
         lock' = lock \/ lock = Nobody \/ lock = s, lock' \in Sessions \cup {Nobody, Stale},
         (loose \cup partial \cup quarantine)' \subseteq All,
         UNCHANGED <<pvp, idx, ref>>, index' \in {index, ref}, LeftOK',
         \A f \in failed' : f[2] \in AllOf(1..ref)
  PROVE  FilesInv'
PROOF
<1>1. CallsOf(call, lock, ref, pvp) BY DEF FilesInv
<1>2. lock' = lock \/ lock = s \/ lock \notin Sessions BY DEF MaintenanceAssumption
<1>3. \A t \in Sessions \ {s} : CallOK(call[t], ref, pvp) BY <1>1 DEF CallsOf
<1>4. CallsOf([call EXCEPT ![s] = c], lock', ref, pvp) BY <1>1, <1>2, <1>3, OneCall
<1>5. CallsOf(call', lock', ref', pvp') BY <1>4 DEF Become
<1>6. index' \in 0..ref BY DEF FilesInv
<1>7. PacksOf(pvp', idx') BY DEF FilesInv
<1> QED BY <1>5, <1>6, <1>7 DEF FilesInv

\* A step that moves files about only.
LEMMA FilesStep ==
  ASSUME FilesInv, (loose \cup partial \cup quarantine)' \subseteq All,
         UNCHANGED <<pvp, idx, ref, index, lock, call, failed>>, LeftOK'
  PROVE  FilesInv'
BY DEF FilesInv

LEMMA OnlyCalls ==
  ASSUME MaintenanceAssumption, FilesInv,
         NEW s \in Sessions, NEW c, Become(s, c), CallOK(c, ref, pvp),
         Writes(c) => lock' = s,
         lock' = lock \/ lock = Nobody \/ lock = s, lock' \in Sessions \cup {Nobody, Stale},
         UNCHANGED <<files, ref, failed>>, index' \in {index, ref}, LeftOK'
  PROVE  FilesInv'
PROOF
<1>1. /\ (loose \cup partial \cup quarantine)' \subseteq All
      /\ \A f \in failed' : f[2] \in AllOf(1..ref)
  BY DEF FilesInv, files
<1> QED BY <1>1, SessionStep DEF files

\* A call that a step takes further, or ends.
LEMMA TheCall ==
  ASSUME FilesInv, NEW s \in Sessions
  PROVE  /\ CallOK(call[s], ref, pvp)
         /\ Writes(call[s]) => lock = s
         /\ Writes(call[s]) => \A t \in Sessions \ {s} : ~Writes(call[t])
         /\ lock = Nobody => Nobody \in Sessions \/ \A t \in Sessions : ~Writes(call[t])
BY DEF FilesInv, CallsOf

LEMMA Ended ==
  ASSUME MaintenanceAssumption, FilesInv, NEW s \in Sessions, End(s),
         lock = s \/ lock' = lock \/ lock = Nobody,
         UNCHANGED <<files, ref, failed>>, index' \in {index, ref}, LeftOK'
  PROVE  FilesInv'
PROOF
<1>1. Become(s, Idle) /\ lock' = Nobody BY DEF End
<1>2. CallOK(Idle, ref, pvp) /\ ~Writes(Idle) BY DEF CallOK, Writes, Idle
<1> QED BY <1>1, <1>2, OnlyCalls

LEMMA OpenStep ==
  ASSUME MaintenanceAssumption, FilesInv, NEW s \in Sessions, Open(s)
  PROVE  FilesInv'
PROOF
<1>1. LeftOK' BY LeftAlone DEF Open
<1>2. CallOK(Idle, ref, pvp) /\ ~Writes(Idle) BY DEF CallOK, Writes, Idle
<1>3. lock' = lock /\ lock \in Sessions \cup {Nobody, Stale} BY DEF Open, FilesInv
<1> QED BY <1>1, <1>2, <1>3, OnlyCalls DEF Open

LEMMA CommitBeginStep ==
  ASSUME MaintenanceAssumption, FilesInv, NEW s \in Sessions, CommitBegin(s)
  PROVE  FilesInv'
PROOF
<1>0. LeftOK' BY CallUsed DEF CommitBegin
<1>1. PICK c : c = Committing(ref + 1, Needs[ref + 1]) OBVIOUS
<1>2. c.op = "commit" /\ c.commit = ref + 1 /\ c.todo = Needs[ref + 1]
  BY <1>1 DEF Committing
<1>3. ref + 1 \in DOMAIN Needs
  BY DEF CommitBegin, FilesInv, MaintenanceAssumption
<1>4. Needs[ref + 1] \in Seq(Range(Needs[ref + 1])) BY <1>3 DEF MaintenanceAssumption
<1>5. CallOK(c, ref, pvp) BY <1>1, <1>2, <1>3, <1>4 DEF CallOK
<1>6. Become(s, c) /\ lock = Nobody /\ lock' = s BY <1>1 DEF CommitBegin, Free, Take
<1> QED BY <1>0, <1>5, <1>6, OnlyCalls DEF CommitBegin

\* A commit goes on to its next object.
LEMMA NextObject ==
  ASSUME FilesInv, NEW s \in Sessions, Putting(s), PutNext(s)
  PROVE  \E c : Become(s, c) /\ CallOK(c, ref, pvp) /\ c.op = "commit"
PROOF
<1>1. call[s].op = "commit" /\ call[s].todo # << >> BY DEF Putting
<1>2. PICK c : c = Committing(call[s].commit, Tail(call[s].todo)) OBVIOUS
<1>3. c.op = "commit" /\ c.commit = call[s].commit /\ c.todo = Tail(call[s].todo)
  BY <1>2 DEF Committing
<1>4. /\ call[s].commit \in DOMAIN Needs
      /\ call[s].todo \in Seq(Range(Needs[call[s].commit]))
      /\ call[s].commit = ref + 1
  BY <1>1, TheCall DEF CallOK, Closed, Idle
<1>5. /\ Head(call[s].todo) \in Range(Needs[call[s].commit])
      /\ Tail(call[s].todo) \in Seq(Range(Needs[call[s].commit]))
  BY <1>1, <1>4, Rest
<1>6. CallOK(c, ref, pvp) BY <1>2, <1>3, <1>4, <1>5 DEF CallOK
<1> QED BY <1>2, <1>3, <1>6 DEF PutNext

LEMMA NextIsNeeded ==
  ASSUME FilesInv, NEW s \in Sessions, Putting(s)
  PROVE  NextPut(s) \in All
PROOF
<1>1. call[s].op = "commit" /\ call[s].todo # << >> BY DEF Putting
<1>2. /\ call[s].commit \in DOMAIN Needs
      /\ call[s].todo \in Seq(Range(Needs[call[s].commit]))
  BY <1>1, TheCall DEF CallOK, Closed, Idle
<1>3. Head(call[s].todo) \in Range(Needs[call[s].commit]) BY <1>1, <1>2, Rest
<1> QED BY <1>2, <1>3 DEF NextPut, All, AllOf

LEMMA PutExistingStep ==
  ASSUME MaintenanceAssumption, FilesInv, NEW s \in Sessions, PutExisting(s)
  PROVE  FilesInv'
PROOF
<1>0. LeftOK' BY LeftAlone DEF PutExisting
<1>1. Writes(call[s]) /\ lock = s BY TheCall DEF PutExisting, Putting, Writes
<1>2. CASE End(s) BY <1>0, <1>1, <1>2, Ended DEF PutExisting
<1>3. CASE PutNext(s) /\ UNCHANGED lock
  <2>1. PICK c : Become(s, c) /\ CallOK(c, ref, pvp) BY <1>3, NextObject DEF PutExisting
  <2>2. lock \in Sessions \cup {Nobody, Stale} BY DEF FilesInv
  <2> QED BY <1>0, <1>1, <1>3, <2>1, <2>2, OnlyCalls DEF PutExisting
<1> QED BY <1>2, <1>3 DEF PutExisting

LEMMA PutTempStep ==
  ASSUME FilesInv, NEW s \in Sessions, PutTemp(s)
  PROVE  FilesInv'
PROOF
<1>1. NextPut(s) \in All BY NextIsNeeded DEF PutTemp
<1>2. (loose \cup partial \cup quarantine)' \subseteq All BY <1>1 DEF FilesInv, PutTemp
<1>3. LeftOK' BY LeftAlone DEF PutTemp
<1> QED BY <1>2, <1>3, FilesStep DEF PutTemp

LEMMA PutRenameStep ==
  ASSUME MaintenanceAssumption, FilesInv, NEW s \in Sessions, PutRename(s)
  PROVE  FilesInv'
PROOF
<1>1. NextPut(s) \in All BY NextIsNeeded DEF PutRename
<1>2. (loose \cup partial \cup quarantine)' \subseteq All BY <1>1 DEF FilesInv, PutRename
<1>3. LeftOK' BY LeftAlone DEF PutRename
<1>4. Writes(call[s]) /\ lock = s BY TheCall DEF PutRename, Putting, Writes
<1>5. PICK c : Become(s, c) /\ CallOK(c, ref, pvp) BY NextObject DEF PutRename
<1>6. lock \in Sessions \cup {Nobody, Stale} /\ \A f \in failed : f[2] \in AllOf(1..ref)
  BY DEF FilesInv
<1> QED BY <1>2, <1>3, <1>4, <1>5, <1>6, SessionStep DEF PutRename

\* The session that writes is still what it may be, and the others do not.
LEMMA OtherFiles ==
  ASSUME MaintenanceAssumption, FilesInv, NEW s \in Sessions, Writes(call[s]),
         NEW head \in Nat, NEW packs, ref <= head, CallOK(call[s], head, packs)
  PROVE  CallsOf(call, lock, head, packs)
PROOF
<1>1. ref \in Nat BY DEF FilesInv, MaintenanceAssumption
<1>2. ASSUME NEW t \in Sessions
      PROVE  CallOK(call[t], head, packs)
  <2>1. CASE t = s BY <2>1
  <2>2. CASE t # s
    <3>1. ~Writes(call[t]) BY <2>2, TheCall
    <3>2. CallOK(call[t], ref, pvp) BY TheCall
    <3> QED BY <1>1, <3>1, <3>2, OtherCalls
  <2> QED BY <2>1, <2>2
<1> QED BY <1>2 DEF FilesInv, CallsOf

LEMMA PublishRefStep ==
  ASSUME MaintenanceAssumption, FilesInv, NEW s \in Sessions, PublishRef(s)
  PROVE  FilesInv'
PROOF
<1>1. call[s].op = "commit" /\ call[s].todo = << >> /\ ref < call[s].commit
  BY DEF PublishRef
<1>2. /\ call[s] = Committing(call[s].commit, call[s].todo)
      /\ call[s].commit \in DOMAIN Needs
      /\ call[s].todo \in Seq(Range(Needs[call[s].commit]))
      /\ call[s].commit = ref + 1
  BY <1>1, TheCall DEF CallOK, Closed, Idle, FilesInv, MaintenanceAssumption
<1>3. ref \in Nat /\ ref' = ref + 1 /\ ref' \in 0..Len(Needs)
  BY <1>2 DEF PublishRef, FilesInv, MaintenanceAssumption
<1>4. CallOK(call[s], ref + 1, pvp) BY <1>1, <1>2 DEF CallOK
<1>5. Writes(call[s]) BY <1>1 DEF Writes
<1>6. CallsOf(call, lock, ref + 1, pvp) BY <1>3, <1>4, <1>5, OtherFiles
<1>7. AllOf(1..ref) \subseteq AllOf(1..(ref + 1)) BY <1>3, MoreCommits
<1>8. LeftOK' BY LeftAlone DEF PublishRef
<1>9. CallsOf(call', lock', ref', pvp') BY <1>3, <1>6 DEF PublishRef, files
<1>10. \A f \in failed' : f[2] \in AllOf(1..ref') BY <1>3, <1>7 DEF PublishRef, FilesInv
<1>11. index' \in 0..ref' BY <1>3 DEF PublishRef, FilesInv
<1> QED BY <1>3, <1>8, <1>9, <1>10, <1>11 DEF FilesInv, PublishRef, files

LEMMA PublishIndexStep ==
  ASSUME MaintenanceAssumption, FilesInv, NEW s \in Sessions, PublishIndex(s)
  PROVE  FilesInv'
PROOF
<1>1. Writes(call[s]) /\ lock = s BY TheCall DEF PublishIndex, Writes
<1>2. LeftOK' BY LeftAlone DEF PublishIndex
<1> QED BY <1>1, <1>2, Ended DEF PublishIndex

\* A session begins a call, or gives it up at once.
LEMMA CompactBeginStep ==
  ASSUME MaintenanceAssumption, FilesInv, NEW s \in Sessions, CompactBegin(s)
  PROVE  FilesInv'
PROOF
<1>1. LeftOK' BY CallUsed DEF CompactBegin
<1>2. CASE UNCHANGED <<call, lock>>
  <2>1. Become(s, call[s]) BY <1>2 DEF Become, FilesInv, CallsOf
  <2>2. PICK c : c = call[s] OBVIOUS
  <2>3. /\ CallOK(c, ref, pvp) /\ (Writes(c) => lock' = s)
        /\ lock \in Sessions \cup {Nobody, Stale}
    BY <1>2, <2>2, TheCall DEF FilesInv
  <2>4. index' \in {index, ref} BY DEF CompactBegin
  <2> QED BY <1>1, <1>2, <2>1, <2>2, <2>3, <2>4, OnlyCalls DEF CompactBegin
<1>3. CASE ~UNCHANGED <<call, lock>>
  <2>1. Take(s) /\ Become(s, Compacting(loose, NextPackNumber)) /\ index' = ref
    BY <1>3 DEF CompactBegin
  <2>2. PICK k \in Nat : DOMAIN pvp = 1..k BY DEF FilesInv, PacksOf
  <2>3. NextPackNumber = k + 1 BY <2>2, NewPack
  <2>4. PICK c : c = Compacting(loose, NextPackNumber) OBVIOUS
  <2>5. c.op = "compact" /\ c.list = loose /\ c.number = k + 1
    BY <2>3, <2>4 DEF Compacting
  <2>6. CallOK(c, ref, pvp)
    <3>1. k + 1 \notin 1..k /\ k + 1 \in Nat \ {0} /\ (k + 1) - 1 = k OBVIOUS
    <3>2. loose \subseteq All BY DEF FilesInv
    <3> QED BY <2>2, <2>4, <2>5, <2>3, <3>1, <3>2 DEF CallOK
  <2>7. Become(s, c) /\ lock' = s /\ lock = Nobody
    BY <2>1, <2>4 DEF Take, CompactBegin, Free
  <2> QED BY <1>1, <2>1, <2>6, <2>7, OnlyCalls DEF CompactBegin
<1> QED BY <1>2, <1>3

\* What a compaction is.
LEMMA TheCompaction ==
  ASSUME FilesInv, NEW s \in Sessions, call[s].op = "compact"
  PROVE  /\ Writes(call[s]) /\ lock = s
         /\ call[s] = Compacting(call[s].list, call[s].number)
         /\ call[s].list \subseteq All /\ call[s].number \in Nat \ {0}
         /\ IF call[s].number \in DOMAIN pvp THEN pvp[call[s].number] = call[s].list
            ELSE DOMAIN pvp = 1..(call[s].number - 1)
PROOF
<1>1. Writes(call[s]) BY DEF Writes
<1> QED BY <1>1, TheCall DEF CallOK, Closed, Idle

LEMMA WritePackStep ==
  ASSUME MaintenanceAssumption, FilesInv, NEW s \in Sessions, WritePack(s)
  PROVE  FilesInv'
PROOF
<1>1. LeftOK' BY LeftAlone DEF WritePack
<1>2. call[s].op = "compact" /\ call[s].number \notin DOMAIN pvp BY DEF WritePack
<1>3. CASE End(s) /\ UNCHANGED pvp
  <2>1. UNCHANGED <<files, ref, failed, index>> BY <1>3 DEF WritePack, files
  <2> QED BY <1>1, <1>2, <1>3, <2>1, TheCompaction, Ended
<1>4. CASE pvp' = With(pvp, call[s].number, call[s].list) /\ UNCHANGED <<call, lock>>
  <2> DEFINE n == call[s].number  l == call[s].list
  <2>1. n \in Nat \ {0} /\ DOMAIN pvp = 1..(n - 1) /\ l \subseteq All
    BY <1>2, TheCompaction
  <2>2. /\ DOMAIN pvp' = 1..n /\ pvp'[n] = l
        /\ \A m \in DOMAIN pvp : pvp'[m] = pvp[m]
    <3>1. pvp' = [m \in DOMAIN pvp \cup {n} |-> IF m = n THEN l ELSE pvp[m]]
      BY <1>4 DEF With
    <3>2. DOMAIN pvp \cup {n} = 1..n BY <2>1
    <3> QED BY <1>2, <3>1, <3>2
  <2>3. call[s] = Compacting(l, n) /\ call[s].op = "compact"
    BY <1>2, TheCompaction
  <2> HIDE DEF n, l
  <2>4. PacksOf(pvp', idx')
    <3>1. UNCHANGED idx BY DEF WritePack
    <3>2. \A m \in DOMAIN pvp : pvp[m] \subseteq All BY DEF FilesInv, PacksOf
    <3>3. \A m \in DOMAIN idx : m \in DOMAIN pvp /\ idx[m] = pvp[m]
      BY DEF FilesInv, PacksOf
    <3>4. \A m \in DOMAIN pvp' : pvp'[m] \subseteq All
      <4> SUFFICES ASSUME NEW m \in DOMAIN pvp' PROVE pvp'[m] \subseteq All
        OBVIOUS
      <4>1. m = n \/ m \in DOMAIN pvp BY <2>1, <2>2
      <4> QED BY <2>1, <2>2, <3>2, <4>1
    <3>5. \A m \in DOMAIN idx' : m \in DOMAIN pvp' /\ idx'[m] = pvp'[m]
      <4>1. DOMAIN pvp \subseteq DOMAIN pvp' BY <2>1, <2>2
      <4> QED BY <2>2, <3>1, <3>3, <4>1
    <3> QED BY <2>1, <2>2, <3>4, <3>5 DEF PacksOf
  <2>5. CallOK(call[s], ref, pvp')
    <3>1. call[s].list = l /\ call[s].number = n BY DEF n, l
    <3>2. n \in DOMAIN pvp' BY <2>1, <2>2
    <3> QED BY <2>1, <2>2, <2>3, <3>1, <3>2 DEF CallOK
  <2>6. ref \in Nat /\ ref <= ref BY DEF FilesInv, MaintenanceAssumption
  <2>7. Writes(call[s]) BY <1>2 DEF Writes
  <2>8. PICK packs : packs = pvp' OBVIOUS
  <2>9. CallsOf(call, lock, ref, packs) BY <2>5, <2>6, <2>7, <2>8, OtherFiles
  <2>10. CallsOf(call', lock', ref', pvp') BY <1>4, <2>8, <2>9 DEF WritePack
  <2>11. UNCHANGED <<loose, partial, quarantine, ref, index, lock, failed>>
    BY <1>4 DEF WritePack
  <2> QED BY <1>1, <2>4, <2>10, <2>11 DEF FilesInv
<1> QED BY <1>3, <1>4 DEF WritePack

LEMMA WritePackIndexStep ==
  ASSUME MaintenanceAssumption, FilesInv, NEW s \in Sessions, WritePackIndex(s)
  PROVE  FilesInv'
PROOF
<1>1. LeftOK' BY LeftAlone DEF WritePackIndex
<1>2. PacksOf(pvp', idx')
  <2> DEFINE n == call[s].number
  <2>1. n \in DOMAIN pvp /\ pvp[n] = call[s].list
    BY TheCompaction DEF WritePackIndex
  <2>2. idx' = [m \in DOMAIN idx \cup {n} |-> IF m = n THEN pvp[n] ELSE idx[m]]
    BY <2>1 DEF WritePackIndex, With
  <2> HIDE DEF n
  <2>3. \A m \in DOMAIN idx : m \in DOMAIN pvp /\ idx[m] = pvp[m]
    BY DEF FilesInv, PacksOf
  <2>4. \A m \in DOMAIN idx' : m \in DOMAIN pvp /\ idx'[m] = pvp[m]
    BY <2>1, <2>2, <2>3
  <2> QED BY <2>4 DEF FilesInv, PacksOf, WritePackIndex
<1> QED BY <1>1, <1>2 DEF FilesInv, WritePackIndex

LEMMA RemoveLooseStep ==
  ASSUME FilesInv, NEW s \in Sessions, RemoveLoose(s)
  PROVE  FilesInv'
PROOF
<1>1. LeftOK' BY LeftAlone DEF RemoveLoose
<1>2. (loose \cup partial \cup quarantine)' \subseteq All BY DEF FilesInv, RemoveLoose
<1> QED BY <1>1, <1>2, FilesStep DEF RemoveLoose

LEMMA CompactEndStep ==
  ASSUME MaintenanceAssumption, FilesInv, NEW s \in Sessions, CompactEnd(s)
  PROVE  FilesInv'
PROOF
<1>1. LeftOK' BY LeftAlone DEF CompactEnd
<1> QED BY <1>1, TheCompaction, Ended DEF CompactEnd

LEMMA QuarantineBeginStep ==
  ASSUME MaintenanceAssumption, FilesInv, NEW s \in Sessions, QuarantineBegin(s)
  PROVE  FilesInv'
PROOF
<1>1. LeftOK' BY CallUsed DEF QuarantineBegin
<1>2. CASE UNCHANGED <<call, lock>>
  <2>1. UNCHANGED <<files, ref, index, failed>> BY DEF QuarantineBegin
  <2> QED BY <1>1, <1>2, <2>1 DEF FilesInv, files
<1>3. CASE ~UNCHANGED <<call, lock>>
  <2>1. PICK c : c = Collecting(loose \ Reachable) OBVIOUS
  <2>2. c.op = "gc" /\ c.garbage = loose \ Reachable BY <2>1 DEF Collecting
  <2>3. CallOK(c, ref, pvp) BY <2>1, <2>2 DEF CallOK
  <2>4. Become(s, c) /\ lock' = s /\ lock = Nobody
    BY <1>3, <2>1 DEF QuarantineBegin, Take, Free
  <2> QED BY <1>1, <2>3, <2>4, OnlyCalls DEF QuarantineBegin
<1> QED BY <1>2, <1>3

LEMMA QuarantineStep ==
  ASSUME FilesInv, NEW s \in Sessions, Quarantine(s)
  PROVE  FilesInv'
PROOF
<1>1. LeftOK' BY LeftAlone DEF Quarantine
<1>2. (loose \cup partial \cup quarantine)' \subseteq All BY DEF FilesInv, Quarantine
<1> QED BY <1>1, <1>2, FilesStep DEF Quarantine

LEMMA QuarantineEndStep ==
  ASSUME MaintenanceAssumption, FilesInv, NEW s \in Sessions, QuarantineEnd(s)
  PROVE  FilesInv'
PROOF
<1>1. LeftOK' BY LeftAlone DEF QuarantineEnd
<1>2. lock = s BY TheCall DEF QuarantineEnd, Writes
<1> QED BY <1>1, <1>2, Ended DEF QuarantineEnd

LEMMA PruneStep ==
  ASSUME FilesInv, NEW s \in Sessions, Prune(s)
  PROVE  FilesInv'
PROOF
<1>1. LeftOK' BY LeftAlone DEF Prune
<1>2. (loose \cup partial \cup quarantine)' \subseteq All BY DEF FilesInv, Prune
<1> QED BY <1>1, <1>2, FilesStep DEF Prune

LEMMA ReadBeginStep ==
  ASSUME MaintenanceAssumption, FilesInv, NEW s \in Sessions, ReadBegin(s)
  PROVE  FilesInv'
PROOF
<1>1. LeftOK' BY CallUsed DEF ReadBegin
<1>2. PICK c : c = Reading("look", ReadsOf(index), index) OBVIOUS
<1>3. c.op = "look" /\ c.todo = ReadsOf(index) /\ c.commit = index
  BY <1>2 DEF Reading
<1>4. ref \in Nat /\ index \in 0..Len(Needs) /\ index <= ref
  BY DEF FilesInv, MaintenanceAssumption
<1>5. ReadsOf(index) \in Seq(AllOf(1..ref)) BY <1>4, ReadsAreNeeds
<1>6. CallOK(c, ref, pvp) /\ ~Writes(c) BY <1>2, <1>3, <1>5 DEF CallOK, Writes
<1>7. Become(s, c) BY <1>2 DEF ReadBegin
<1>8. lock' = lock /\ lock \in Sessions \cup {Nobody, Stale} BY DEF ReadBegin, FilesInv
<1> QED BY <1>1, <1>6, <1>7, <1>8, OnlyCalls DEF ReadBegin

\* What a read is.
LEMMA TheRead ==
  ASSUME FilesInv, NEW s \in Sessions, call[s].op \in {"look", "loose", "packed"}
  PROVE  /\ call[s].todo \in Seq(AllOf(1..ref)) /\ ~Writes(call[s])
         /\ call[s].op # "look" => call[s].todo # << >>
BY TheCall DEF CallOK, Closed, Idle, Writes

LEMMA LookLooseStep ==
  ASSUME MaintenanceAssumption, FilesInv, NEW s \in Sessions, LookLoose(s)
  PROVE  FilesInv'
PROOF
<1>1. LeftOK' BY LeftAlone DEF LookLoose
<1>2. PICK op : op = IF Head(call[s].todo) \in loose THEN "loose" ELSE "packed" OBVIOUS
<1>3. PICK c : c = Reading(op, call[s].todo, call[s].commit) OBVIOUS
<1>4. c.op = op /\ c.todo = call[s].todo /\ c.commit = call[s].commit
      /\ op \in {"loose", "packed"}
  BY <1>2, <1>3 DEF Reading
<1>5. c.todo \in Seq(AllOf(1..ref)) /\ c.todo # << >>
  BY <1>4, TheRead DEF LookLoose
<1>6. CallOK(c, ref, pvp) /\ ~Writes(c) BY <1>3, <1>4, <1>5 DEF CallOK, Writes
<1>7. Become(s, c) BY <1>2, <1>3 DEF LookLoose
<1>8. lock' = lock /\ lock \in Sessions \cup {Nobody, Stale} BY DEF LookLoose, FilesInv
<1> QED BY <1>1, <1>6, <1>7, <1>8, OnlyCalls DEF LookLoose

LEMMA ReadObjectStep ==
  ASSUME MaintenanceAssumption, FilesInv, NEW s \in Sessions, ReadObject(s)
  PROVE  FilesInv'
PROOF
<1>1. LeftOK' BY LeftAlone DEF ReadObject
<1>2. call[s].todo \in Seq(AllOf(1..ref)) /\ call[s].todo # << >>
  BY TheRead DEF ReadObject
<1>3. Head(call[s].todo) \in AllOf(1..ref) /\ Tail(call[s].todo) \in Seq(AllOf(1..ref))
  BY <1>2, Rest
<1>4. (loose \cup partial \cup quarantine)' \subseteq All
  BY DEF FilesInv, ReadObject, files
<1>5. lock' = lock /\ lock \in Sessions \cup {Nobody, Stale} BY DEF ReadObject, FilesInv
<1>6. UNCHANGED <<pvp, idx, ref, index>> BY DEF ReadObject, files
<1>7. CASE Become(s, Reading("look", Tail(call[s].todo), call[s].commit))
           /\ UNCHANGED failed
  <2>1. PICK c : c = Reading("look", Tail(call[s].todo), call[s].commit) OBVIOUS
  <2>2. c.op = "look" /\ c.todo = Tail(call[s].todo) /\ c.commit = call[s].commit
    BY <2>1 DEF Reading
  <2>3. CallOK(c, ref, pvp) /\ ~Writes(c) BY <1>3, <2>1, <2>2 DEF CallOK, Writes
  <2>4. \A f \in failed' : f[2] \in AllOf(1..ref) BY <1>7 DEF FilesInv
  <2>5. Become(s, c) BY <1>7, <2>1
  <2> QED BY <1>1, <1>4, <1>5, <1>6, <2>3, <2>4, <2>5, SessionStep
<1>8. CASE /\ Become(s, Idle)
           /\ failed' = failed \cup {<<call[s].commit, Head(call[s].todo)>>}
  <2>1. CallOK(Idle, ref, pvp) /\ ~Writes(Idle) BY DEF CallOK, Writes, Idle
  <2>2. \A f \in failed' : f[2] \in AllOf(1..ref) BY <1>3, <1>8 DEF FilesInv
  <2> QED BY <1>1, <1>4, <1>5, <1>6, <1>8, <2>1, <2>2, SessionStep
<1> QED BY <1>7, <1>8 DEF ReadObject

LEMMA ReadEndStep ==
  ASSUME MaintenanceAssumption, FilesInv, NEW s \in Sessions, ReadEnd(s)
  PROVE  FilesInv'
PROOF
<1>1. LeftOK' BY LeftAlone DEF ReadEnd
<1>2. CallOK(Idle, ref, pvp) /\ ~Writes(Idle) BY DEF CallOK, Writes, Idle
<1>3. lock' = lock /\ lock \in Sessions \cup {Nobody, Stale} BY DEF ReadEnd, FilesInv
<1> QED BY <1>1, <1>2, <1>3, OnlyCalls DEF ReadEnd

LEMMA CrashStep ==
  ASSUME MaintenanceAssumption, FilesInv, NEW s \in Sessions, Crash(s)
  PROVE  FilesInv'
PROOF
<1>1. LeftOK' BY CrashUsed DEF Crash
<1>2. CallOK(Closed, ref, pvp) /\ ~Writes(Closed) BY DEF CallOK, Writes, Closed
<1>3. lock' = lock \/ lock = s BY DEF Crash
<1>4. lock' \in Sessions \cup {Nobody, Stale} BY DEF Crash, FilesInv
<1> QED BY <1>1, <1>2, <1>3, <1>4, OnlyCalls DEF Crash

LEMMA ClearLockStep ==
  ASSUME MaintenanceAssumption, FilesInv, ClearLock
  PROVE  FilesInv'
PROOF
<1>1. LeftOK' BY LeftAlone DEF ClearLock
<1>2. CallsOf(call, Nobody, ref, pvp)
  <2>1. \A s \in Sessions : ~Writes(call[s])
    BY TheCall DEF ClearLock, MaintenanceAssumption
  <2> QED BY <2>1 DEF FilesInv, CallsOf
<1>3. CallsOf(call', lock', ref', pvp') BY <1>2 DEF ClearLock, files
<1> QED BY <1>1, <1>3 DEF FilesInv, ClearLock, files

LEMMA DamageStep ==
  ASSUME MaintenanceAssumption, FilesInv, Damage \/ DamagePack
  PROVE  FilesInv'
PROOF
<1>1. LeftOK' BY DamageUsed DEF Damage, DamagePack
<1>2. UNCHANGED <<files, ref, index, lock, call, failed>> BY DEF Damage, DamagePack
<1> QED BY <1>1, <1>2 DEF FilesInv, files

\* No step makes more of the files than what they are.
LEMMA FilesNext ==
  ASSUME MaintenanceAssumption, FilesInv, [Next]_vars
  PROVE  FilesInv'
PROOF
<1>1. CASE UNCHANGED vars
  BY <1>1 DEF vars, files, FilesInv, LeftOK
<1>2. CASE ClearLock \/ Damage \/ DamagePack
  BY <1>2, ClearLockStep, DamageStep
<1>3. ASSUME NEW s \in Sessions,
             \/ Open(s) \/ CommitBegin(s) \/ PutExisting(s) \/ PutTemp(s)
             \/ PutRename(s) \/ PublishRef(s) \/ PublishIndex(s)
      PROVE  FilesInv'
  BY <1>3, OpenStep, CommitBeginStep, PutExistingStep, PutTempStep,
     PutRenameStep, PublishRefStep, PublishIndexStep
<1>4. ASSUME NEW s \in Sessions,
             \/ CompactBegin(s) \/ WritePack(s) \/ WritePackIndex(s)
             \/ RemoveLoose(s) \/ CompactEnd(s)
             \/ QuarantineBegin(s) \/ Quarantine(s) \/ QuarantineEnd(s) \/ Prune(s)
      PROVE  FilesInv'
  BY <1>4, CompactBeginStep, WritePackStep, WritePackIndexStep, RemoveLooseStep,
     CompactEndStep, QuarantineBeginStep, QuarantineStep, QuarantineEndStep,
     PruneStep
<1>5. ASSUME NEW s \in Sessions,
             \/ ReadBegin(s) \/ LookLoose(s) \/ ReadObject(s) \/ ReadEnd(s)
             \/ Crash(s)
      PROVE  FilesInv'
  BY <1>5, ReadBeginStep, LookLooseStep, ReadObjectStep, ReadEndStep, CrashStep
<1> QED BY <1>1, <1>2, <1>3, <1>4, <1>5 DEF Next

LEMMA FilesInit ==
  ASSUME MaintenanceAssumption, Init
  PROVE  FilesInv
PROOF
<1>1. Len(Needs) \in Nat BY DEF MaintenanceAssumption
<1>2. CallsOf(call, lock, ref, pvp)
  BY DEF Init, CallsOf, CallOK, Writes, Closed
<1>3. PacksOf(pvp, idx)
  <2>1. DOMAIN pvp = 1..0 /\ DOMAIN idx = {} BY DEF Init
  <2> QED BY <2>1 DEF PacksOf
<1>4. LeftOK BY DEF Init, LeftOK, MaintenanceAssumption
<1> QED BY <1>1, <1>2, <1>3, <1>4 DEF Init, FilesInv

-----------------------------------------------------------------------------
(* Nothing is lost: every step                                             *)

\* A stored object can be read, or one of its files is damaged.
LEMMA StoredReads ==
  ASSUME FilesInv, NEW object \in Stored
  PROVE  Readable(object) \/ \E d \in damaged : d[2] = object
PROOF
<1>1. CASE object \in loose
  BY <1>1 DEF Readable, ReadableLoose, Loose
<1>2. CASE object \notin loose
  <2>1. PacksWith(object) # {} BY <1>2 DEF Stored, PacksWith
  <2>2. \A n \in DOMAIN idx : n \in DOMAIN pvp /\ idx[n] = pvp[n]
    BY DEF FilesInv, PacksOf
  <2>3. PICK k \in Nat : DOMAIN pvp = 1..k BY DEF FilesInv, PacksOf
  <2>4. PacksWith(object) \in SUBSET Nat BY <2>2, <2>3 DEF PacksWith
  <2>5. PICK n \in PacksWith(object) : \A m \in PacksWith(object) : n <= m
    BY <2>1, <2>4, LeastNumber
  <2>6. n \in DOMAIN pvp /\ object \in pvp[n] BY <2>2, <2>5 DEF PacksWith
  <2>7. ReadablePacked(object) \/ <<n, object>> \in damaged
    BY <2>5, <2>6 DEF ReadablePacked
  <2> QED BY <1>2, <2>7 DEF Readable
<1> QED BY <1>1, <1>2

\* Nothing is stored any less, and a session goes on with what it keeps.
LEMMA GoesOn ==
  ASSUME KeptInv, FilesInv', NEW s \in Sessions, NEW c, Become(s, c),
         Stored \subseteq Stored', ref' = ref, CallKeeps(c, Stored', ref), IndexBehind'
  PROVE  KeptInv'
PROOF
<1>1. call'[s] = c /\ \A t \in Sessions \ {s} : call'[t] = call[t]
  BY DEF Become, KeptInv, FilesInv, CallsOf
<1>2. ASSUME NEW t \in Sessions
      PROVE  CallKeeps(call'[t], Stored', ref')
  <2>1. CASE t = s BY <1>1, <2>1
  <2>2. CASE t # s
    <3>1. CallKeeps(call[t], Stored, ref) BY DEF KeptInv
    <3> QED BY <1>1, <2>2, <3>1 DEF CallKeeps
  <2> QED BY <2>1, <2>2
<1>3. AllOf(1..ref') \subseteq Stored' BY DEF KeptInv
<1> QED BY <1>2, <1>3 DEF KeptInv

LEMMA StaysStored ==
  ASSUME KeptInv, FilesInv', UNCHANGED <<ref, index, call>>, Stored \subseteq Stored'
  PROVE  KeptInv'
PROOF
<1>1. \A t \in Sessions : CallKeeps(call'[t], Stored', ref') BY DEF KeptInv, CallKeeps
<1>2. IndexBehind' BY DEF KeptInv, IndexBehind
<1>3. AllOf(1..ref') \subseteq Stored' BY DEF KeptInv
<1> QED BY <1>1, <1>2, <1>3 DEF KeptInv

\* The index falls behind with no session but one that has published its ref.
LEMMA BehindStays ==
  ASSUME KeptInv, NEW s \in Sessions, NEW c, Become(s, c), call[s] # Closed,
         ~(call[s].op = "commit" /\ call[s].commit = ref),
         ref' = ref, index' \in {index, ref}
  PROVE  IndexBehind'
PROOF
<1>1. \A t \in Sessions \ {s} : call'[t] = call[t]
  BY DEF Become, KeptInv, FilesInv, CallsOf
<1>2. SUFFICES ASSUME index' # ref'
               PROVE  \E t \in Sessions : call'[t].op = "commit" /\ call'[t].commit = ref'
  BY DEF IndexBehind
<1>3. index # ref BY <1>2
<1>4. PICK t \in Sessions : call[t].op = "commit" /\ call[t].commit = ref
  BY <1>3 DEF KeptInv, IndexBehind
<1>5. t # s BY <1>4
<1> QED BY <1>1, <1>4, <1>5

\* A session that neither reads nor writes keeps all.
LEMMA RestsIdle ==
  ASSUME KeptInv, FilesInv', NEW s \in Sessions, NEW c, Become(s, c),
         c.op \notin {"commit", "gc"}, call[s] # Closed,
         ~(call[s].op = "commit" /\ call[s].commit = ref),
         UNCHANGED <<files, ref>>, index' \in {index, ref}
  PROVE  KeptInv'
PROOF
<1>1. Stored' = Stored BY DEF Stored, files
<1>2. CallKeeps(c, Stored', ref) BY DEF CallKeeps
<1>3. IndexBehind' BY BehindStays
<1> QED BY <1>1, <1>2, <1>3, GoesOn

LEMMA OpenKeeps ==
  ASSUME KeptInv, FilesInv', NEW s \in Sessions, Open(s)
  PROVE  KeptInv'
PROOF
<1>1. Stored' = Stored BY DEF Stored, files, Open
<1>2. CallKeeps(Idle, Stored', ref) BY DEF CallKeeps, Idle
<1>3. IndexBehind' BY DEF IndexBehind, Open
<1> QED BY <1>1, <1>2, <1>3, GoesOn DEF Open

LEMMA CommitBeginKeeps ==
  ASSUME KeptInv, FilesInv', NEW s \in Sessions, CommitBegin(s)
  PROVE  KeptInv'
PROOF
<1>1. PICK c : c = Committing(ref + 1, Needs[ref + 1]) OBVIOUS
<1>2. c.op = "commit" /\ c.commit = ref + 1 /\ c.todo = Needs[ref + 1]
  BY <1>1 DEF Committing
<1>3. Stored' = Stored BY DEF Stored, files, CommitBegin
<1>4. CallKeeps(c, Stored', ref) BY <1>2 DEF CallKeeps
<1>5. Become(s, c) /\ ref' = ref BY <1>1 DEF CommitBegin
<1>6. IndexBehind' BY DEF IndexBehind, CommitBegin
<1> QED BY <1>3, <1>4, <1>5, <1>6, GoesOn

\* The object put last is stored: what the commit keeps for the rest.
LEMMA PutKeeps ==
  ASSUME KeptInv, FilesInv', NEW s \in Sessions, Putting(s), PutNext(s),
         Stored \cup {NextPut(s)} \subseteq Stored', UNCHANGED <<ref, index>>
  PROVE  KeptInv'
PROOF
<1>1. call[s].op = "commit" /\ call[s].todo # << >> BY DEF Putting
<1>2. PICK c : c = Committing(call[s].commit, Tail(call[s].todo)) OBVIOUS
<1>3. c.op = "commit" /\ c.commit = call[s].commit /\ c.todo = Tail(call[s].todo)
  BY <1>2 DEF Committing
<1>4. /\ call[s].todo \in Seq(Range(Needs[call[s].commit]))
      /\ call[s].commit = ref + 1
  BY <1>1, TheCall DEF CallOK, Closed, Idle, KeptInv
<1>5. Range(call[s].todo) \subseteq {NextPut(s)} \cup Range(c.todo)
  BY <1>1, <1>3, <1>4, Rest DEF NextPut
<1>6. Range(Needs[c.commit]) \subseteq Range(call[s].todo) \cup Stored
  BY <1>1, <1>3 DEF KeptInv, CallKeeps
<1>7. CallKeeps(c, Stored', ref) BY <1>3, <1>5, <1>6 DEF CallKeeps
<1>8. Become(s, c) BY <1>2 DEF PutNext
<1>9. call[s].commit # ref /\ call[s] # Closed
  BY <1>1, <1>4 DEF Closed, KeptInv, FilesInv
<1>10. IndexBehind' BY <1>8, <1>9, BehindStays
<1> QED BY <1>7, <1>8, <1>10, GoesOn

LEMMA PutExistingKeeps ==
  ASSUME KeptInv, FilesInv', NEW s \in Sessions, PutExisting(s)
  PROVE  KeptInv'
PROOF
<1>1. NextPut(s) \in loose /\ UNCHANGED <<files, ref, index>> /\ Putting(s)
  BY DEF PutExisting
<1>2. Stored' = Stored /\ NextPut(s) \in Stored BY <1>1 DEF Stored, files
<1>3. CASE PutNext(s) BY <1>1, <1>2, <1>3, PutKeeps
<1>4. CASE Become(s, Idle)
  <2>1. call[s].op = "commit" /\ call[s].commit = ref + 1
    BY <1>1, TheCall DEF CallOK, Closed, Idle, KeptInv, Putting
  <2>2. call[s] # Closed /\ call[s].commit # ref
    BY <2>1 DEF Closed, KeptInv, FilesInv
  <2>3. Idle.op \notin {"commit", "gc"} BY DEF Idle
  <2> QED BY <1>1, <1>4, <2>2, <2>3, RestsIdle
<1> QED BY <1>3, <1>4 DEF PutExisting, End

LEMMA PutRenameKeeps ==
  ASSUME KeptInv, FilesInv', NEW s \in Sessions, PutRename(s)
  PROVE  KeptInv'
PROOF
<1>1. Stored \cup {NextPut(s)} \subseteq Stored' BY DEF Stored, PutRename
<1> QED BY <1>1, PutKeeps DEF PutRename

LEMMA PublishRefKeeps ==
  ASSUME MaintenanceAssumption, KeptInv, FilesInv', NEW s \in Sessions, PublishRef(s)
  PROVE  KeptInv'
PROOF
<1>1. call[s].op = "commit" /\ call[s].todo = << >> /\ ref < call[s].commit
  BY DEF PublishRef
<1>2. call[s].commit = ref + 1 /\ ref \in Nat
  <2>1. FilesInv /\ ref \in Nat BY DEF KeptInv, FilesInv, MaintenanceAssumption
  <2> QED BY <1>1, <2>1, TheCall DEF CallOK, Closed, Idle
<1>3. Stored' = Stored /\ call' = call /\ ref' = ref + 1
  BY <1>2 DEF PublishRef, Stored, files
<1>4. AllOf(1..ref') \subseteq Stored'
  <2>1. Range(call[s].todo) = {} BY <1>1 DEF Range
  <2>2. Range(Needs[ref + 1]) \subseteq Stored
    BY <1>1, <1>2, <2>1 DEF KeptInv, CallKeeps
  <2>3. AllOf(1..(ref + 1)) = AllOf(1..ref) \cup Range(Needs[ref + 1])
    BY <1>2, NextCommit
  <2> QED BY <1>3, <2>2, <2>3 DEF KeptInv
<1>5. ASSUME NEW t \in Sessions
      PROVE  CallKeeps(call'[t], Stored', ref')
  <2>1. CASE t = s
    <3>1. CallKeeps(call[s], Stored, ref) BY DEF KeptInv
    <3> QED BY <1>1, <1>3, <2>1, <3>1 DEF CallKeeps
  <2>2. CASE t # s
    <3>1. ~Writes(call[t]) BY <1>1, <2>2, TheCall DEF Writes, KeptInv
    <3> QED BY <1>3, <3>1 DEF CallKeeps, Writes
  <2> QED BY <2>1, <2>2
<1>6. IndexBehind' BY <1>1, <1>2, <1>3 DEF IndexBehind
<1> QED BY <1>4, <1>5, <1>6 DEF KeptInv

LEMMA PublishIndexKeeps ==
  ASSUME KeptInv, FilesInv', NEW s \in Sessions, PublishIndex(s)
  PROVE  KeptInv'
PROOF
<1>1. Stored' = Stored BY DEF Stored, files, PublishIndex
<1>2. CallKeeps(Idle, Stored', ref) BY DEF CallKeeps, Idle
<1>3. IndexBehind' BY DEF IndexBehind, PublishIndex
<1> QED BY <1>1, <1>2, <1>3, GoesOn DEF PublishIndex, End

LEMMA CompactBeginKeeps ==
  ASSUME KeptInv, FilesInv', NEW s \in Sessions, CompactBegin(s)
  PROVE  KeptInv'
PROOF
<1>1. UNCHANGED <<files, ref>> /\ index' \in {index, ref} BY DEF CompactBegin
<1>2. call[s].op = "idle" /\ call[s] # Closed BY DEF CompactBegin, Idle, Closed
<1>3. CASE UNCHANGED <<call, lock>>
  <2>1. Become(s, Idle) BY <1>3 DEF Become, CompactBegin, KeptInv, FilesInv, CallsOf
  <2>2. Idle.op \notin {"commit", "gc"} BY DEF Idle
  <2> QED BY <1>1, <1>2, <2>1, <2>2, RestsIdle
<1>4. CASE Become(s, Compacting(loose, NextPackNumber))
  <2>1. PICK c : c = Compacting(loose, NextPackNumber) OBVIOUS
  <2>2. Become(s, c) /\ c.op \notin {"commit", "gc"} BY <1>4, <2>1 DEF Compacting
  <2> QED BY <1>1, <1>2, <2>2, RestsIdle
<1> QED BY <1>3, <1>4 DEF CompactBegin

LEMMA WritePackKeeps ==
  ASSUME KeptInv, FilesInv', NEW s \in Sessions, WritePack(s)
  PROVE  KeptInv'
PROOF
<1>1. Stored' = Stored BY DEF Stored, WritePack
<1>2. CASE UNCHANGED call BY <1>1, <1>2, StaysStored DEF WritePack
<1>3. CASE Become(s, Idle)
  <2>1. CallKeeps(Idle, Stored', ref) BY DEF CallKeeps, Idle
  <2>2. call[s].op = "compact" /\ UNCHANGED <<ref, index>> BY DEF WritePack
  <2>3. call[s] # Closed BY <2>2 DEF Closed
  <2>4. IndexBehind' BY <1>3, <2>2, <2>3, BehindStays
  <2> QED BY <1>1, <1>3, <2>1, <2>2, <2>4, GoesOn
<1> QED BY <1>2, <1>3 DEF WritePack, End

LEMMA WritePackIndexKeeps ==
  ASSUME KeptInv, FilesInv', NEW s \in Sessions, WritePackIndex(s)
  PROVE  KeptInv'
PROOF
<1>1. /\ DOMAIN idx \subseteq DOMAIN idx'
      /\ \A n \in DOMAIN idx : idx'[n] = idx[n]
  BY DEF WritePackIndex, With
<1>2. Stored \subseteq Stored' BY <1>1 DEF Stored, WritePackIndex
<1> QED BY <1>2, StaysStored DEF WritePackIndex

\* A loose file goes when the index of the pack has its object.
LEMMA RemoveLooseKeeps ==
  ASSUME KeptInv, FilesInv', NEW s \in Sessions, RemoveLoose(s)
  PROVE  KeptInv'
PROOF
<1>0. FilesInv BY DEF KeptInv
<1>1. PICK object \in call[s].list \cap loose : loose' = loose \ {object}
  BY DEF RemoveLoose
<1>2. call[s].number \in DOMAIN idx /\ UNCHANGED idx BY DEF RemoveLoose
<1>3. idx[call[s].number] = call[s].list
  BY <1>0, <1>2, TheCompaction DEF RemoveLoose, FilesInv, PacksOf
<1>4. object \in UNION {idx[n] : n \in DOMAIN idx} BY <1>1, <1>2, <1>3
<1>5. Stored \subseteq Stored' BY <1>1, <1>2, <1>4 DEF Stored
<1> QED BY <1>5, StaysStored DEF RemoveLoose

LEMMA CompactEndKeeps ==
  ASSUME KeptInv, FilesInv', NEW s \in Sessions, CompactEnd(s)
  PROVE  KeptInv'
PROOF
<1>1. Become(s, Idle) /\ call[s].op = "compact" /\ Idle.op = "idle"
  BY DEF CompactEnd, End, Idle
<1>2. call[s] # Closed BY <1>1 DEF Closed
<1> QED BY <1>1, <1>2, RestsIdle DEF CompactEnd

\* The index is not behind when the lock is free: what no branch of the index
\* reaches, the ref does not reach.
LEMMA QuarantineBeginKeeps ==
  ASSUME MaintenanceAssumption, KeptInv, FilesInv', NEW s \in Sessions,
         QuarantineBegin(s)
  PROVE  KeptInv'
PROOF
<1>0. FilesInv BY DEF KeptInv
<1>1. Stored' = Stored BY DEF Stored, files, QuarantineBegin
<1>2. call[s].op = "idle" /\ call[s] # Closed BY DEF QuarantineBegin, Idle, Closed
<1>3. CASE UNCHANGED <<call, lock>>
  BY <1>1, <1>3, StaysStored DEF QuarantineBegin
<1>4. CASE Become(s, Collecting(loose \ Reachable))
  <2>1. \A t \in Sessions : ~Writes(call[t])
    BY <1>0, TheCall DEF QuarantineBegin, Free, MaintenanceAssumption
  <2>2. index = ref BY <1>2, <2>1 DEF KeptInv, IndexBehind, Writes
  <2>3. PICK c : c = Collecting(loose \ Reachable) OBVIOUS
  <2>4. c.op = "gc" /\ c.garbage = loose \ Reachable BY <2>3 DEF Collecting
  <2>5. CallKeeps(c, Stored', ref) BY <2>2, <2>4 DEF CallKeeps, Reachable
  <2>6. Become(s, c) /\ UNCHANGED <<ref, index>> BY <1>4, <2>3 DEF QuarantineBegin
  <2>7. IndexBehind' BY <2>2, <2>6 DEF IndexBehind
  <2> QED BY <1>1, <2>5, <2>6, <2>7, GoesOn
<1> QED BY <1>3, <1>4 DEF QuarantineBegin

\* What goes to quarantine no ref reaches, and no commit is under way.
LEMMA QuarantineKeeps ==
  ASSUME KeptInv, FilesInv', NEW s \in Sessions, Quarantine(s)
  PROVE  KeptInv'
PROOF
<1>0. FilesInv BY DEF KeptInv
<1>1. PICK object \in call[s].garbage \cap loose : loose' = loose \ {object}
  BY DEF Quarantine
<1>2. call[s].op = "gc" /\ UNCHANGED <<idx, ref, index, call>> BY DEF Quarantine
<1>3. call[s].garbage \cap AllOf(1..ref) = {} BY <1>2 DEF KeptInv, CallKeeps
<1>4. Stored \ {object} \subseteq Stored' BY <1>1, <1>2 DEF Stored
<1>5. AllOf(1..ref') \subseteq Stored' BY <1>1, <1>2, <1>3, <1>4 DEF KeptInv
<1>6. ASSUME NEW t \in Sessions
      PROVE  CallKeeps(call'[t], Stored', ref')
  <2>1. CASE t = s BY <1>2, <1>3, <2>1 DEF CallKeeps
  <2>2. CASE t # s
    <3>1. ~Writes(call[t]) BY <1>0, <1>2, <2>2, TheCall DEF Writes
    <3> QED BY <1>2, <3>1 DEF CallKeeps, Writes
  <2> QED BY <2>1, <2>2
<1>7. IndexBehind' BY <1>2 DEF KeptInv, IndexBehind
<1> QED BY <1>5, <1>6, <1>7 DEF KeptInv

LEMMA QuarantineEndKeeps ==
  ASSUME KeptInv, FilesInv', NEW s \in Sessions, QuarantineEnd(s)
  PROVE  KeptInv'
PROOF
<1>1. Become(s, Idle) /\ call[s].op = "gc" /\ Idle.op = "idle"
  BY DEF QuarantineEnd, End, Idle
<1>2. call[s] # Closed BY <1>1 DEF Closed
<1> QED BY <1>1, <1>2, RestsIdle DEF QuarantineEnd

\* The steps that touch neither stored files nor calls.
LEMMA AsideKeeps ==
  ASSUME KeptInv, FilesInv', NEW s,
         PutTemp(s) \/ Prune(s) \/ ClearLock \/ Damage \/ DamagePack
  PROVE  KeptInv'
PROOF
<1>1. UNCHANGED <<loose, idx, ref, index, call>>
  BY DEF PutTemp, Prune, ClearLock, Damage, DamagePack, files
<1>2. Stored' = Stored BY <1>1 DEF Stored
<1> QED BY <1>1, <1>2, StaysStored

LEMMA ReadKeeps ==
  ASSUME KeptInv, FilesInv', NEW s \in Sessions,
         ReadBegin(s) \/ LookLoose(s) \/ ReadObject(s) \/ ReadEnd(s)
  PROVE  KeptInv'
PROOF
<1>1. call[s].op \in {"idle", "look", "loose", "packed"} /\ UNCHANGED <<files, ref, index>>
  BY DEF ReadBegin, LookLoose, ReadObject, ReadEnd, Idle
<1>2. call[s] # Closed BY <1>1 DEF Closed
<1>3. \E c : Become(s, c) /\ c.op \notin {"commit", "gc"}
  <2>1. \A op, todo, commit : Reading(op, todo, commit).op = op BY DEF Reading
  <2>2. Idle.op = "idle" BY DEF Idle
  <2> QED BY <2>1, <2>2 DEF ReadBegin, LookLoose, ReadObject, ReadEnd
<1> QED BY <1>1, <1>2, <1>3, RestsIdle

\* Only where one process works: then all are dead.
LEMMA CrashKeeps ==
  ASSUME MaintenanceAssumption, Undisturbed, KeptInv, FilesInv',
         NEW s \in Sessions, Crash(s)
  PROVE  KeptInv'
PROOF
<1>1. MaxCrashes # 0
  BY DEF Crash, Use, KeptInv, FilesInv, LeftOK, MaintenanceAssumption
<1>2. Sessions = {s} BY <1>1 DEF Undisturbed
<1>3. Become(s, Closed) /\ UNCHANGED <<files, ref>> BY DEF Crash
<1>4. call'[s] = Closed BY <1>3 DEF Become, KeptInv, FilesInv, CallsOf
<1>5. IndexBehind' BY <1>2, <1>4 DEF IndexBehind
<1>6. CallKeeps(Closed, Stored', ref) BY DEF CallKeeps, Closed
<1>7. Stored' = Stored BY <1>3 DEF Stored, files
<1> QED BY <1>3, <1>5, <1>6, <1>7, GoesOn

LEMMA KeptNext ==
  ASSUME MaintenanceAssumption, Undisturbed, KeptInv, [Next]_vars
  PROVE  KeptInv'
PROOF
<1>1. FilesInv' BY FilesNext DEF KeptInv
<1>2. CASE UNCHANGED vars
  <2>1. UNCHANGED <<loose, idx, ref, index, call>> BY <1>2 DEF vars, files
  <2>2. Stored' = Stored BY <2>1 DEF Stored
  <2> QED BY <1>1, <2>1, <2>2, StaysStored
<1>3. CASE ClearLock \/ Damage \/ DamagePack
  BY <1>1, <1>3, AsideKeeps
<1>4. ASSUME NEW s \in Sessions,
             \/ Open(s) \/ CommitBegin(s) \/ PutExisting(s) \/ PutTemp(s)
             \/ PutRename(s) \/ PublishRef(s) \/ PublishIndex(s)
      PROVE  KeptInv'
  BY <1>1, <1>4, OpenKeeps, CommitBeginKeeps, PutExistingKeeps, AsideKeeps,
     PutRenameKeeps, PublishRefKeeps, PublishIndexKeeps
<1>5. ASSUME NEW s \in Sessions,
             \/ CompactBegin(s) \/ WritePack(s) \/ WritePackIndex(s)
             \/ RemoveLoose(s) \/ CompactEnd(s)
             \/ QuarantineBegin(s) \/ Quarantine(s) \/ QuarantineEnd(s) \/ Prune(s)
      PROVE  KeptInv'
  BY <1>1, <1>5, CompactBeginKeeps, WritePackKeeps, WritePackIndexKeeps,
     RemoveLooseKeeps, CompactEndKeeps, QuarantineBeginKeeps, QuarantineKeeps,
     QuarantineEndKeeps, AsideKeeps
<1>6. ASSUME NEW s \in Sessions,
             \/ ReadBegin(s) \/ LookLoose(s) \/ ReadObject(s) \/ ReadEnd(s)
             \/ Crash(s)
      PROVE  KeptInv'
  BY <1>1, <1>6, ReadKeeps, CrashKeeps
<1> QED BY <1>2, <1>3, <1>4, <1>5, <1>6 DEF Next

LEMMA KeptInit ==
  ASSUME MaintenanceAssumption, Init
  PROVE  KeptInv
PROOF
<1>1. FilesInv BY FilesInit
<1>2. AllOf(1..ref) = {} BY DEF Init, AllOf
<1>3. \A s \in Sessions : CallKeeps(call[s], Stored, ref) BY DEF Init, CallKeeps, Closed
<1>4. IndexBehind BY DEF Init, IndexBehind
<1> QED BY <1>1, <1>2, <1>3, <1>4 DEF KeptInv

-----------------------------------------------------------------------------
(* What the files keep                                                     *)

LEMMA FilesSay ==
  ASSUME MaintenanceAssumption, FilesInv
  PROVE  TypeOK /\ PackIndexWhole
PROOF
<1>1. index \in 0..Len(Needs) /\ ref \in 0..Len(Needs)
  BY DEF FilesInv, MaintenanceAssumption
<1>2. \A s \in Sessions : call[s].op \in {"commit", "compact", "gc"} => lock = s
  BY DEF FilesInv, CallsOf, Writes
<1>3. PackIndexWhole BY DEF FilesInv, PacksOf, PackIndexWhole
<1> QED BY <1>1, <1>2, <1>3 DEF FilesInv, PacksOf, TypeOK, All

\* Every published object has its file, so a fault is damage.
LEMMA KeptSays ==
  ASSUME MaintenanceAssumption, KeptInv
  PROVE  /\ NothingIndexedLost /\ FsckIsTruthful
         /\ FailedReadIsTransient /\ RefsStayReadable
PROOF
<1>1. FilesInv BY DEF KeptInv
<1>2. \A object \in AllOf(1..ref) : Readable(object) \/ \E d \in damaged : d[2] = object
  BY <1>1, StoredReads DEF KeptInv
<1>3. ref \in Nat /\ index \in Nat /\ index <= ref /\ ref <= Len(Needs)
  BY <1>1 DEF FilesInv, MaintenanceAssumption
<1>4. AllOf(1..index) \subseteq AllOf(1..ref) BY <1>3, MoreCommits
<1>5. NothingIndexedLost BY <1>2, <1>4 DEF NothingIndexedLost
<1>6. FsckIsTruthful
  <2> SUFFICES ASSUME damaged = {} PROVE FsckErrors = {}
    BY DEF FsckIsTruthful
  <2>1. ASSUME NEW c \in 1..index
        PROVE  CanMaterialize(c)
    <3>1. c \in 0..Len(Needs) /\ c <= ref BY <1>3
    <3>2. Range(ReadsOf(c)) \subseteq AllOf(1..ref) BY <1>3, <3>1, ReadsAreNeeds
    <3> QED BY <1>2, <3>2 DEF CanMaterialize
  <2> QED BY <2>1 DEF FsckErrors
<1>7. FailedReadIsTransient
  BY <1>1, <1>2 DEF FailedReadIsTransient, FilesInv, LeftOK
<1>8. RefsStayReadable BY <1>2 DEF RefsStayReadable
<1> QED BY <1>5, <1>6, <1>7, <1>8

-----------------------------------------------------------------------------
(* Theorems                                                                *)

(* Files: the files hold objects that commits need, a call that changes    *)
(* files holds the write lock, and a pack that has an index is whole, for  *)
(* any processes that die anywhere and any damage.                         *)
THEOREM PacksAreWhole ==
  ASSUME MaintenanceAssumption
  PROVE  Spec => [](TypeOK /\ PackIndexWhole)
PROOF
<1>1. Init => FilesInv BY FilesInit
<1>2. FilesInv /\ [Next]_vars => FilesInv' BY FilesNext
<1>3. FilesInv => TypeOK /\ PackIndexWhole BY FilesSay
<1> QED BY <1>1, <1>2, <1>3, PTL DEF Spec

(* Objects: with one process, that dies anywhere, or many of which none    *)
(* dies, no commit, compaction or collection makes an object of a published *)
(* commit unreadable, fsck complains of damage only, and what a reader     *)
(* without the lock does not find is there.                                *)
THEOREM NothingIsLost ==
  ASSUME MaintenanceAssumption, Undisturbed
  PROVE  Spec => [](/\ NothingIndexedLost /\ FsckIsTruthful
                    /\ FailedReadIsTransient /\ RefsStayReadable)
PROOF
<1>1. Init => KeptInv BY KeptInit
<1>2. KeptInv /\ [Next]_vars => KeptInv' BY KeptNext
<1>3. KeptInv => /\ NothingIndexedLost /\ FsckIsTruthful
                 /\ FailedReadIsTransient /\ RefsStayReadable
  BY KeptSays
<1> QED BY <1>1, <1>2, <1>3, PTL DEF Spec
=============================================================================

-------------------------- MODULE ObjectMaintenance --------------------------
(***************************************************************************)
(* The objects of a repository, file by file: commits put them            *)
(* (content_store.cpp, chunked_snapshot_store.cpp), compaction moves the   *)
(* loose ones into a pack (pack_store.cpp), garbage collection moves the   *)
(* unreachable ones away (repository_gc.cpp), readers look for them        *)
(* without a lock (snapshot_materializer.cpp) and fsck checks them         *)
(* (integrity.cpp).  A process may die between any two file operations.    *)
(*                                                                         *)
(* One branch; its commits are 1, 2, ... in order, and an object is known  *)
(* by its hash.  What an open does to the indexes is one step here: its    *)
(* races with writers are RepositoryStore's.                               *)
(***************************************************************************)
EXTENDS Integers, Sequences, FiniteSets, Functions

CONSTANTS
  Sessions, Nobody,
  Needs,      \* per commit, its objects in the order they are put
  Reads,      \* per commit, what materialising it reads, in order
  CommitOf,   \* per commit, the object that is the stored commit
  MaxCalls, MaxCrashes, MaxDamage

VARIABLES
  loose,      \* objects/: the loose files
  partial,    \* objects/: the .tmp files
  pvp, idx,   \* packs/: number -> the objects in the pack, in its index
  quarantine, \* quarantine/objects/
  damaged,    \* <<where, object>> whose bytes no longer have the hash
  ref, index, \* the commit the ref and the branch index name; 0 is none
  lock,       \* the write lock: Nobody, a session, or "stale"
  call,       \* per session: "closed", or the call it is in
  failed,     \* reads that threw, as <<commit, object>>
  left        \* calls, crashes and damages still allowed

files == <<loose, partial, pvp, idx, quarantine>>
vars == <<files, damaged, ref, index, lock, call, failed, left>>

Closed == [op |-> "closed"]
Idle == [op |-> "idle"]
Committing(commit, todo) == [op |-> "commit", commit |-> commit, todo |-> todo]
Compacting(list, number) == [op |-> "compact", list |-> list, number |-> number]
Collecting(garbage) == [op |-> "gc", garbage |-> garbage]
Reading(op, todo, commit) == [op |-> op, todo |-> todo, commit |-> commit]
Stale == "stale"
Loose == 0                      \* as a place; a pack is its number

-----------------------------------------------------------------------------
(* ContentStore and PackedContentStore *)

PacksWith(object) == {n \in DOMAIN idx : object \in idx[n]}

\* PackedContentStore::get_bytes: the first index entry decides.
ReadablePacked(object) ==
  \E n \in PacksWith(object) :
    /\ n \in DOMAIN pvp /\ object \in pvp[n]
    /\ <<n, object>> \notin damaged
    /\ \A m \in PacksWith(object) : n <= m

ReadableLoose(object) == object \in loose /\ <<Loose, object>> \notin damaged

\* ContentStore::get_bytes: a loose file is believed before a pack.
Readable(object) ==
  IF object \in loose THEN ReadableLoose(object) ELSE ReadablePacked(object)

AllOf(commits) == UNION {Range(Needs[c]) : c \in commits}

\* What a materialisation reads is stored with the commits up to its own; a
\* morphism path is never asked for.
MaintenanceAssumption ==
  /\ Needs \in Seq(Range(Needs))
  /\ \A c \in DOMAIN Needs :
       /\ Needs[c] \in Seq(Range(Needs[c]))
       /\ Reads[c] \in Seq(AllOf(1..c))
  /\ Nobody # Stale /\ {Nobody, Stale} \cap Sessions = {}
  /\ MaxCalls \in Nat /\ MaxCrashes \in Nat /\ MaxDamage \in Nat

ReadsOf(c) == IF c = 0 THEN << >> ELSE Reads[c]
CanMaterialize(c) == \A object \in Range(ReadsOf(c)) : Readable(object)

With(packs, number, list) ==
  [n \in DOMAIN packs \cup {number} |-> IF n = number THEN list ELSE packs[n]]

\* next_pack_number: after the last pack file, whether it has an index or not.
NextPackNumber ==
  1 + CHOOSE n \in {0} \cup DOMAIN pvp : \A m \in DOMAIN pvp : m <= n

\* RepositoryGc::reachable: from the branch index, every part a commit names.
Reachable == AllOf(1..index)

-----------------------------------------------------------------------------
(* Calls *)

Use(counter) == left[counter] > 0 /\ left' = [left EXCEPT ![counter] = @ - 1]
Become(s, c) == call' = [call EXCEPT ![s] = c]
Free == lock = Nobody
Take(s) == lock' = s
End(s) == Become(s, Idle) /\ lock' = Nobody

\* RepositoryEngine::open: an index behind the ref is rebuilt, which reads
\* every commit; it throws if one cannot be read.
Open(s) ==
  /\ call[s] = Closed
  /\ index # ref => CanMaterialize(ref)
  /\ index' = ref /\ Become(s, Idle)
  /\ UNCHANGED <<files, damaged, ref, lock, failed, left>>

\* Repository::commit up to the first put.
CommitBegin(s) ==
  /\ call[s] = Idle /\ Free /\ Use("calls")
  /\ ref < Len(Needs) /\ ref = index
  /\ Take(s)
  /\ Become(s, Committing(ref + 1, Needs[ref + 1]))
  /\ UNCHANGED <<files, damaged, ref, index, failed>>

Putting(s) == call[s].op = "commit" /\ call[s].todo # << >>
NextPut(s) == Head(call[s].todo)
PutNext(s) == Become(s, Committing(call[s].commit, Tail(call[s].todo)))

\* put_bytes: the file is there.  Its bytes are read; a bad hash throws.
PutExisting(s) ==
  /\ Putting(s) /\ NextPut(s) \in loose
  /\ IF ReadableLoose(NextPut(s)) THEN PutNext(s) /\ UNCHANGED lock
     ELSE End(s)
  /\ UNCHANGED <<files, damaged, ref, index, failed, left>>

PutTemp(s) ==
  /\ Putting(s) /\ NextPut(s) \notin loose \cup partial
  /\ partial' = partial \cup {NextPut(s)}
  /\ UNCHANGED <<loose, pvp, idx, quarantine, damaged, ref, index, lock, call,
                 failed, left>>

PutRename(s) ==
  /\ Putting(s) /\ NextPut(s) \in partial \ loose
  /\ loose' = loose \cup {NextPut(s)} /\ partial' = partial \ {NextPut(s)}
  /\ PutNext(s)
  /\ UNCHANGED <<pvp, idx, quarantine, damaged, ref, index, lock, failed, left>>

PublishRef(s) ==
  /\ call[s].op = "commit" /\ call[s].todo = << >> /\ ref < call[s].commit
  /\ ref' = call[s].commit
  /\ UNCHANGED <<files, damaged, index, lock, call, failed, left>>

PublishIndex(s) ==
  /\ call[s].op = "commit" /\ ref = call[s].commit
  /\ index' = ref /\ End(s)
  /\ UNCHANGED <<files, damaged, ref, failed, left>>

\* Repository::compact: the indexes are rebuilt, then the loose files listed.
CompactBegin(s) ==
  /\ call[s] = Idle /\ Free /\ Use("calls")
  /\ IF CanMaterialize(ref)
     THEN /\ index' = ref
          /\ IF loose = {} THEN UNCHANGED <<call, lock>>
             ELSE /\ Take(s)
                  /\ Become(s, Compacting(loose, NextPackNumber))
     ELSE UNCHANGED <<index, call, lock>>
  /\ UNCHANGED <<files, damaged, ref, failed>>

\* Every file of the list is read and its hash checked; then the rename.
WritePack(s) ==
  /\ call[s].op = "compact" /\ call[s].number \notin DOMAIN pvp
  /\ IF \A object \in call[s].list : ReadableLoose(object)
     THEN pvp' = With(pvp, call[s].number, call[s].list)
          /\ UNCHANGED <<call, lock>>
     ELSE End(s) /\ UNCHANGED pvp
  /\ UNCHANGED <<loose, partial, idx, quarantine, damaged, ref, index, failed,
                 left>>

WritePackIndex(s) ==
  /\ call[s].op = "compact" /\ call[s].number \in DOMAIN pvp \ DOMAIN idx
  /\ idx' = With(idx, call[s].number, call[s].list)
  /\ UNCHANGED <<loose, partial, pvp, quarantine, damaged, ref, index, lock,
                 call, failed, left>>

\* Mutant: a loose file goes as soon as it is in the pack file.
RemoveLooseBeforeIndex(s) ==
  /\ call[s].op = "compact" /\ call[s].number \in DOMAIN pvp
  /\ \E object \in call[s].list \cap loose : loose' = loose \ {object}
  /\ damaged' = {d \in damaged : d[1] # Loose \/ d[2] \in loose'}
  /\ UNCHANGED <<partial, pvp, idx, quarantine, ref, index, lock, call, failed,
                 left>>

RemoveLoose(s) ==
  /\ call[s].op = "compact" /\ call[s].number \in DOMAIN idx
  /\ \E object \in call[s].list \cap loose : loose' = loose \ {object}
  /\ damaged' = {d \in damaged : d[1] # Loose \/ d[2] \in loose'}
  /\ UNCHANGED <<partial, pvp, idx, quarantine, ref, index, lock, call, failed,
                 left>>

CompactEnd(s) ==
  /\ call[s].op = "compact" /\ call[s].number \in DOMAIN idx
  /\ call[s].list \cap loose = {} /\ End(s)
  /\ UNCHANGED <<files, damaged, ref, index, failed, left>>

\* Repository::gc_quarantine: mark reads the stored commits of the index.
QuarantineBegin(s) ==
  /\ call[s] = Idle /\ Free /\ Use("calls")
  /\ IF \A c \in 1..index : Readable(CommitOf[c])
     THEN Take(s) /\ Become(s, Collecting(loose \ Reachable))
     ELSE UNCHANGED <<call, lock>>
  /\ UNCHANGED <<files, damaged, ref, index, failed>>

Quarantine(s) ==
  /\ call[s].op = "gc"
  /\ \E object \in call[s].garbage \cap loose :
       /\ loose' = loose \ {object} /\ quarantine' = quarantine \cup {object}
  /\ damaged' = {d \in damaged : d[1] # Loose \/ d[2] \in loose'}
  /\ UNCHANGED <<partial, pvp, idx, ref, index, lock, call, failed, left>>

QuarantineEnd(s) ==
  /\ call[s].op = "gc" /\ call[s].garbage \cap loose = {} /\ End(s)
  /\ UNCHANGED <<files, damaged, ref, index, failed, left>>

\* Repository::gc_prune.
Prune(s) ==
  /\ call[s] = Idle /\ Free /\ quarantine # {}
  /\ quarantine' = {}
  /\ UNCHANGED <<loose, partial, pvp, idx, damaged, ref, index, lock, call,
                 failed, left>>

\* A read of the branch's head: exists(path) and the open that follows are
\* two steps, with no lock.
ReadBegin(s) ==
  /\ call[s] = Idle /\ index > 0 /\ Use("calls")
  /\ Become(s, Reading("look", ReadsOf(index), index))
  /\ UNCHANGED <<files, damaged, ref, index, lock, failed>>

LookLoose(s) ==
  /\ call[s].op = "look" /\ call[s].todo # << >>
  /\ Become(s, Reading(IF Head(call[s].todo) \in loose THEN "loose" ELSE "packed",
                       call[s].todo, call[s].commit))
  /\ UNCHANGED <<files, damaged, ref, index, lock, failed, left>>

ReadObject(s) ==
  /\ call[s].op \in {"loose", "packed"}
  /\ LET object == Head(call[s].todo)
     IN IF \/ call[s].op = "loose" /\ ReadableLoose(object)
           \/ call[s].op = "packed" /\ ReadablePacked(object)
        THEN /\ Become(s, Reading("look", Tail(call[s].todo), call[s].commit))
             /\ UNCHANGED failed
        ELSE /\ Become(s, Idle)
             /\ failed' = failed \cup {<<call[s].commit, object>>}
  /\ UNCHANGED <<files, damaged, ref, index, lock, left>>

ReadEnd(s) ==
  /\ call[s].op = "look" /\ call[s].todo = << >> /\ Become(s, Idle)
  /\ UNCHANGED <<files, damaged, ref, index, lock, failed, left>>

-----------------------------------------------------------------------------
(* The environment *)

Crash(s) ==
  /\ call[s] \notin {Closed, Idle} /\ Use("crashes")
  /\ Become(s, Closed)
  /\ lock' = IF lock = s THEN Stale ELSE lock
  /\ UNCHANGED <<files, damaged, ref, index, failed>>

\* Somebody deletes the lock of a dead process.
ClearLock ==
  /\ lock = Stale /\ lock' = Nobody
  /\ UNCHANGED <<files, damaged, ref, index, call, failed, left>>

Damage ==
  /\ Use("damage")
  /\ \E object \in loose : damaged' = damaged \cup {<<Loose, object>>}
  /\ UNCHANGED <<files, ref, index, lock, call, failed>>

DamagePack ==
  /\ Use("damage")
  /\ \E n \in DOMAIN pvp : \E object \in pvp[n] :
       damaged' = damaged \cup {<<n, object>>}
  /\ UNCHANGED <<files, ref, index, lock, call, failed>>

Init ==
  /\ loose = {} /\ partial = {} /\ quarantine = {}
  /\ pvp = << >> /\ idx = << >>
  /\ damaged = {} /\ ref = 0 /\ index = 0 /\ lock = Nobody
  /\ call = [s \in Sessions |-> Closed]
  /\ failed = {}
  /\ left = [calls |-> MaxCalls, crashes |-> MaxCrashes, damage |-> MaxDamage]

Next ==
  \/ \E s \in Sessions :
       \/ Open(s) \/ CommitBegin(s) \/ PutExisting(s) \/ PutTemp(s)
       \/ PutRename(s) \/ PublishRef(s) \/ PublishIndex(s)
       \/ CompactBegin(s) \/ WritePack(s) \/ WritePackIndex(s)
       \/ RemoveLoose(s) \/ CompactEnd(s)
       \/ QuarantineBegin(s) \/ Quarantine(s) \/ QuarantineEnd(s) \/ Prune(s)
       \/ ReadBegin(s) \/ LookLoose(s) \/ ReadObject(s) \/ ReadEnd(s)
       \/ Crash(s)
  \/ ClearLock \/ Damage \/ DamagePack

Spec == Init /\ [][Next]_vars

-----------------------------------------------------------------------------
(* IntegrityChecker::check_repository *)

FsckErrors ==
  {<<"blob", d[2]>> : d \in {e \in damaged : e[1] = Loose /\ e[2] \in loose}}
    \cup {<<"commit", c>> : c \in {d \in 1..index : ~CanMaterialize(d)}}

-----------------------------------------------------------------------------

\* The files hold objects that commits need, and a call that changes files
\* holds the write lock to its end.
TypeOK ==
  /\ loose \subseteq AllOf(DOMAIN Needs)
  /\ partial \subseteq AllOf(DOMAIN Needs)
  /\ quarantine \subseteq AllOf(DOMAIN Needs)
  /\ \A n \in DOMAIN pvp : pvp[n] \subseteq AllOf(DOMAIN Needs)
  /\ ref \in 0..Len(Needs) /\ index \in 0..Len(Needs)
  /\ lock \in Sessions \cup {Nobody, Stale}
  /\ \A s \in Sessions : call[s].op \in {"commit", "compact", "gc"} => lock = s

\* No file operation of a commit, a compaction or a collection, and no death
\* between two of them, makes an object unreadable that the branch index
\* reaches: only damage to a file of its own does.
NothingIndexedLost ==
  \A object \in AllOf(1..index) :
    Readable(object) \/ \E d \in damaged : d[2] = object

\* The integrity check finds fault only with damage: no commit, compaction or
\* collection, and no death in one, leaves a repository it complains of.
FsckIsTruthful == FsckErrors # {} => damaged # {}

\* A reader without the lock can lose its file to a compaction between
\* looking for it and opening it; then the object is in a pack by now.
FailedReadIsTransient ==
  \A f \in failed : Readable(f[2]) \/ left.damage < MaxDamage

\* A pack has an index only when it is whole, and no two compactions write
\* the same pack: an index entry finds its object in the pack it names.
PackIndexWhole ==
  \A n \in DOMAIN idx : n \in DOMAIN pvp /\ idx[n] = pvp[n]

\* Garbage collection moves only what no branch reaches: what the refs name
\* can be read.
RefsStayReadable ==
  damaged = {} => \A object \in AllOf(1..ref) : Readable(object)
=============================================================================

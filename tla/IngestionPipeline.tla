-------------------------- MODULE IngestionPipeline -------------------------
(***************************************************************************)
(* Ingesting event files: processes that read a file event by event, check *)
(* each against the index of events already seen and against the rules,    *)
(* commit it to a branch, and only then mark it as seen.                   *)
(*                                                                         *)
(* The agent-log pipeline and the graph importer take the same steps; they *)
(* differ in the transaction of an event.  A commit is atomic here (what   *)
(* happens inside of one is RepositoryStore's matter), and a process keeps *)
(* the branch as it loaded it, whatever others commit meanwhile.           *)
(***************************************************************************)
EXTENDS LawChecks, SequencesExt

CONSTANTS
  Sessions,    \* the processes
  Commands,    \* what they are started with: [audit, strict, branch, events]
  Key,         \* the (source, id) of each event, or Invalid
  Normal,      \* the relation an event stands for: << >> if the adapter throws
  Rules,       \* the rules of the verifier
  Branches,    \* the branches
  Cuts,        \* where an append to the index may be cut off
  MaxFaults,   \* bound on crashes and failing appends
  Invalid      \* a key that is empty or holds a tab or newline

CutsAssumption == Cuts \subseteq {"source", "id", "hash", "whole"}
EventsAssumption ==
  \A c \in Commands : c.branch \in Branches /\ Range(c.events) \subseteq DOMAIN Key

VARIABLES
  disk,        \* the history of each branch: << >> until it is created
  index,       \* index/evidence: the keys on it, its last line if that is cut off
  proc,        \* each process
  faults

vars == <<disk, index, proc, faults>>

Down == [pc |-> "down"]
EmptyWorld == [epoch |-> 0, types |-> << >>, pointers |-> << >>]
World(history) == IF history = << >> THEN EmptyWorld ELSE Last(history).world

-----------------------------------------------------------------------------
(* The index is a text file of lines that are only ever appended.  A line  *)
(* that was cut off before its end makes the next load throw; the next     *)
(* append continues it, which spoils the line, or hides the new key when   *)
(* the cut is inside of the first field.                                   *)

EmptyIndex == [keys |-> {}, tail |-> "clean", last |-> Invalid, broken |-> FALSE]

Loads(idx) == ~idx.broken /\ idx.tail \in {"clean", "whole"}
LoadedKeys(idx) == idx.keys \cup (IF idx.tail = "whole" THEN {idx.last} \ {Invalid} ELSE {})

Appended(idx, key) ==
  CASE idx.tail = "clean"  -> [idx EXCEPT !.keys = @ \cup {key}]
    [] idx.tail = "source" -> [idx EXCEPT !.tail = "clean"]
    [] OTHER               -> [idx EXCEPT !.tail = "clean", !.broken = TRUE]

CutOff(idx, key, cut) ==
  CASE idx.tail = "clean"  -> [idx EXCEPT !.tail = cut, !.last = key]
    [] idx.tail = "source" -> [idx EXCEPT !.tail = cut, !.last = Invalid]
    [] OTHER               -> [idx EXCEPT !.broken = TRUE]

-----------------------------------------------------------------------------
(* An object that the world already has is used as it is, whatever type    *)
(* the event gives it.                                                     *)
EnsureObjects(world, named) == [o \in DOMAIN named \ DOMAIN world.types |-> named[o]]

(* The audit pipeline adds an evidence object, named by the key, that      *)
(* backs the relation.                                                     *)
Transaction(world, e, audit) ==
  LET n      == Normal[e][1]
      proof  == Key[e]
      named  == [o \in {n.from, n.to} \cup (IF audit THEN {proof} ELSE {}) |->
                   CASE o = n.from             -> n.from_type
                     [] o = n.to /\ o # n.from -> n.to_type
                     [] OTHER                  -> "Evidence"]
      link(from, relation, to) == [from |-> from, to |-> to, relation |-> relation, weight |-> 100]
  IN  [types   |-> EnsureObjects(world, named),
       links   |-> LET relation == link(n.from, n.relation, n.to) IN
                   IF audit THEN <<relation, link(proof, "backs", n.to)>> ELSE <<relation>>,
       unlinks |-> {}]

Verifier(strict) ==
  [mode |-> IF strict THEN "strict" ELSE "observe", rules |-> Rules, laws |-> {}, tolerance |-> 0]

(* Mutant: only the audit pipeline prepares its transactions first.        *)
RefusedByAudit(history, e, command) ==
  LET world == World(history)
      delta == Transaction(world, e, command.audit)
  IN  command.audit /\ command.strict
        /\ ~Check(Verifier(command.strict), world, After(world, delta), delta).accepted

Refused(history, e, command) ==
  LET world == World(history)
      delta == Transaction(world, e, command.audit)
  IN  command.strict /\ ~Check(Verifier(command.strict), world, After(world, delta), delta).accepted

-----------------------------------------------------------------------------
Init ==
  /\ disk = [b \in Branches |-> << >>]
  /\ index = EmptyIndex
  /\ proc = [s \in Sessions |-> Down]
  /\ faults = 0

NoCount == [accepted |-> 0, skipped |-> 0, rejected |-> 0, errors |-> 0]

(* A process opens the repository, and with it every branch.               *)
Start(s, command) ==
  /\ proc[s].pc = "down"
  /\ proc' = [proc EXCEPT ![s] = [pc |-> "index", command |-> command, seen |-> {},
                                  history |-> disk[command.branch], at |-> 1, count |-> NoCount]]
  /\ UNCHANGED <<disk, index, faults>>

(* It loads the index, or ends there.                                      *)
LoadIndex(s) ==
  /\ proc[s].pc = "index"
  /\ proc' = IF Loads(index) THEN [proc EXCEPT ![s].pc = "branch", ![s].seen = LoadedKeys(index)]
             ELSE [proc EXCEPT ![s] = Down]
  /\ UNCHANGED <<disk, index, faults>>

(* It creates the branch if it found none when it opened the repository.   *)
EnsureBranch(s) ==
  LET p == proc[s] IN
  /\ p.pc = "branch"
  /\ disk' = IF p.history = << >> THEN [disk EXCEPT ![p.command.branch] = << << >> >>] ELSE disk
  /\ proc' = [proc EXCEPT ![s].pc = "next",
                          ![s].history = IF @ = << >> THEN << >> ELSE @[1]]
  /\ UNCHANGED <<index, faults>>

Reads(s, e) ==
  /\ proc[s].pc = "next" /\ proc[s].at \in DOMAIN proc[s].command.events
  /\ e = proc[s].command.events[proc[s].at]

Counted(s, result) == [proc[s] EXCEPT !.at = @ + 1, !.count[result] = @ + 1]

Invalidates(s, e) == Key[e] = Invalid \/ (Key[e] \notin proc[s].seen /\ Normal[e] = << >>)
Fresh(s, e) == Key[e] \notin proc[s].seen /\ ~Invalidates(s, e)

Fail(s, e) ==
  /\ Reads(s, e) /\ Invalidates(s, e)
  /\ proc' = [proc EXCEPT ![s] = Counted(s, "errors")]
  /\ UNCHANGED <<disk, index, faults>>

Skip(s, e) ==
  /\ Reads(s, e) /\ Key[e] \in proc[s].seen
  /\ proc' = [proc EXCEPT ![s] = Counted(s, "skipped")]
  /\ UNCHANGED <<disk, index, faults>>

(* Mutant: a rejected event counts as seen.                                *)
RejectMarking(s, e) ==
  /\ Reads(s, e) /\ Fresh(s, e)
  /\ Refused(proc[s].history, e, proc[s].command)
  /\ proc' = [proc EXCEPT ![s] = Counted(s, "rejected")]
  /\ index' = Appended(index, Key[e])
  /\ UNCHANGED <<disk, faults>>

(* In strict mode the transaction is prepared first: one that the rules    *)
(* refuse never reaches the repository and is not marked.                  *)
Reject(s, e) ==
  /\ Reads(s, e) /\ Fresh(s, e)
  /\ Refused(proc[s].history, e, proc[s].command)
  /\ proc' = [proc EXCEPT ![s] = Counted(s, "rejected")]
  /\ UNCHANGED <<disk, index, faults>>

(* The commit goes on top of the branch as this process knows it; the      *)
(* world of the branch is kept with its last commit.                       *)
Commit(s, e) ==
  LET p       == proc[s]
      delta   == Transaction(World(p.history), e, p.command.audit)
      commit  == [event |-> e, audit |-> p.command.audit, strict |-> p.command.strict,
                  delta |-> delta, world |-> After(World(p.history), delta)]
      history == Append(p.history, commit)
  IN  /\ Reads(s, e) /\ Fresh(s, e)
      /\ ~Refused(p.history, e, p.command)
      /\ disk' = [disk EXCEPT ![p.command.branch] = <<history>>]
      /\ proc' = [proc EXCEPT ![s].pc = "mark", ![s].history = history]
      /\ UNCHANGED <<index, faults>>

(* The write lock is taken, by another process or by one that died.        *)
CommitLocked(s, e) ==
  /\ Reads(s, e) /\ Fresh(s, e) /\ faults < MaxFaults
  /\ ~Refused(proc[s].history, e, proc[s].command)
  /\ faults' = faults + 1
  /\ proc' = [proc EXCEPT ![s] = Counted(s, "errors")]
  /\ UNCHANGED <<disk, index>>

Marking(s) == proc[s].command.events[proc[s].at]

(* mark_seen: a line is appended, and the entry kept in memory.            *)
Mark(s) ==
  /\ proc[s].pc = "mark"
  /\ index' = Appended(index, Key[Marking(s)])
  /\ proc' = [proc EXCEPT ![s] = [Counted(s, "accepted") EXCEPT
                                    !.pc = "next", !.seen = @ \cup {Key[Marking(s)]}]]
  /\ UNCHANGED <<disk, faults>>

(* The append fails: the event is committed and counted as an error.       *)
MarkFails(s, cut) ==
  /\ proc[s].pc = "mark" /\ faults < MaxFaults
  /\ faults' = faults + 1
  /\ index' = CutOff(index, Key[Marking(s)], cut)
  /\ proc' = [proc EXCEPT ![s] = [Counted(s, "errors") EXCEPT !.pc = "next"]]
  /\ UNCHANGED disk

Finish(s) ==
  /\ proc[s].pc = "next" /\ proc[s].at > Len(proc[s].command.events)
  /\ proc' = [proc EXCEPT ![s] = Down]
  /\ UNCHANGED <<disk, index, faults>>

(* A crash, also in the middle of an append.                               *)
Crash(s) ==
  /\ proc[s].pc # "down" /\ faults < MaxFaults
  /\ faults' = faults + 1
  /\ \/ UNCHANGED index
     \/ /\ proc[s].pc = "mark"
        /\ \E cut \in Cuts : index' = CutOff(index, Key[Marking(s)], cut)
  /\ proc' = [proc EXCEPT ![s] = Down]
  /\ UNCHANGED disk

Event(s) == \E e \in DOMAIN Key : Fail(s, e) \/ Skip(s, e) \/ Reject(s, e) \/ Commit(s, e)
Progress(s) == LoadIndex(s) \/ EnsureBranch(s) \/ Event(s) \/ Mark(s) \/ Finish(s)

Next ==
  \E s \in Sessions :
    \/ \E command \in Commands : Start(s, command)
    \/ Progress(s)
    \/ \E e \in DOMAIN Key : CommitLocked(s, e)
    \/ \E cut \in Cuts : MarkFails(s, cut)
    \/ Crash(s)

Spec == Init /\ [][Next]_vars

(* A process that runs goes on, and each file is ingested again and again. *)
Fairness ==
  \A s \in Sessions :
    /\ WF_vars(Progress(s))
    /\ \A command \in Commands : SF_vars(Start(s, command))
FairSpec == Spec /\ Fairness

-----------------------------------------------------------------------------
History(b) == IF disk[b] = << >> THEN << >> ELSE disk[b][1]
Copies(b, key) == Cardinality({i \in DOMAIN History(b) : Key[History(b)[i].event] = key})
Stored(key) == \E b \in Branches : Copies(b, key) > 0

(* What the index says was seen is committed: mark_seen comes after the    *)
(* commit, and never for an event that was rejected or failed.             *)
SeenIsStored == \A key \in LoadedKeys(index) : Stored(key)

(* No event is ingested twice into a branch unless something failed, not   *)
(* even one that stands twice in a file or in several files.  A failure    *)
(* costs at most two repeats: its own key is not marked, and a torn line   *)
(* takes the key that is marked next with it.                              *)
TwiceOnlyAfterFaults ==
  \A b \in Branches : \A i \in DOMAIN History(b) :
    Copies(b, Key[History(b)[i].event]) <= 1 + 2 * faults

(* Each event read ends up under exactly one heading of the report.        *)
ReportAddsUp ==
  \A s \in Sessions : proc[s].pc = "next" =>
    LET c == proc[s].count IN c.accepted + c.skipped + c.rejected + c.errors = proc[s].at - 1

(* In whatever order files are ingested, strictly or not, and whatever was *)
(* lost on the way: a write that strict mode let into a branch has a read  *)
(* of the same file, by the same agent, before it in that branch.          *)
Typed(b, from, to) ==
  LET types == World(History(b)).types IN types[from] = "Agent" /\ types[to] = "File"
StrictWritesFollowReads ==
  \A b \in Branches : \A i \in DOMAIN History(b) :
    LET c == History(b)[i]
        w == c.delta.links[1]
    IN  c.strict /\ w.relation = "modifies" /\ Typed(b, w.from, w.to) =>
          \E j \in 1..(i - 1) : LET r == History(b)[j].delta.links[1] IN
            r.relation = "reads" /\ r.from = w.from /\ r.to = w.to

(* An event is in the end stored, or it still has something against it:    *)
(* one that was rejected is taken in as soon as what it lacked is there.   *)
Settled(command, e) ==
  \/ Key[e] = Invalid \/ Normal[e] = << >> \/ Stored(Key[e])
  \/ Refused(History(command.branch), e, command)

(* docs/ROADMAP.md:40 calls ingestion idempotent by event id.              *)
IdempotentByEventId ==
  \A b \in Branches : \A i \in DOMAIN History(b) : Copies(b, Key[History(b)[i].event]) = 1
=============================================================================

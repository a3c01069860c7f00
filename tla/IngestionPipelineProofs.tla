----------------------- MODULE IngestionPipelineProofs ----------------------
(***************************************************************************)
(* Proofs about IngestionPipeline: the report of a process, however many   *)
(* run; and, for one that has the repository to itself, that the index     *)
(* names only what is committed, and that an event is ingested again only  *)
(* after something failed, twice per failure at the most.  And about       *)
(* EventNormalization: a line means the same whichever way it takes.       *)
(***************************************************************************)
EXTENDS IngestionPipeline, EventNormalization, FiniteSetTheorems, TLAPS

-----------------------------------------------------------------------------
(* The process: what is known of each, whatever the others do.             *)

Counts == [accepted : Nat, skipped : Nat, rejected : Nat, errors : Nat]
Total(c) == c.accepted + c.skipped + c.rejected + c.errors

Running(q) ==
  /\ q \in [pc : {"index", "branch", "next", "mark"}, command : Commands, seen : {q.seen},
            history : {q.history}, at : Nat \ {0}, count : Counts]
  /\ Total(q.count) = q.at - 1
  /\ q.pc = "mark" => q.at \in DOMAIN q.command.events

ProcessesOK == proc = [s \in Sessions |-> proc[s]] /\ \A s \in Sessions : proc[s] = Down \/ Running(proc[s])

-----------------------------------------------------------------------------
(* The branches, and what the one process that runs knows of them.         *)

Told(h) == h \in Seq(Range(h)) /\ \A i \in DOMAIN h : h[i].event \in DOMAIN Key

DiskOK ==
  /\ disk = [b \in Branches |-> disk[b]]
  /\ \A b \in Branches : disk[b] = << >> \/ (disk[b] = <<disk[b][1]>> /\ Told(disk[b][1]))

(* What the process knows of its branch is what the branch is, and the     *)
(* commit it is about to mark is the last one on it.                       *)
KnowsBranch(q) ==
  LET b == q.command.branch IN
  /\ q.pc \in {"index", "branch"} => q.history = disk[b]
  /\ q.pc \in {"next", "mark"} => disk[b] = <<q.history>>
  /\ q.pc = "mark" =>
       /\ q.history # << >>
       /\ q.history[Len(q.history)].event = q.command.events[q.at]
       /\ Key[q.command.events[q.at]] # Invalid

IndexOK ==
  index \in [keys : SUBSET (Range(Key) \ {Invalid}), tail : {"clean", "source", "id", "hash", "whole"},
             last : Range(Key) \cup {Invalid}, broken : BOOLEAN]

(* Every key that stands on the index, also on its torn last line, is that *)
(* of a commit.                                                            *)
IndexStored == \A key \in index.keys \cup ({index.last} \ {Invalid}) : Stored(key)

-----------------------------------------------------------------------------
(* How often a key was committed, against how often something failed.      *)

(* A line torn inside of its first field takes the next key with it: a     *)
(* repeat that is still to come.                                           *)
Due == IF index.tail = "source" /\ ~index.broken THEN 1 ELSE 0

(* The next process that gets past the index knows the key, or none does.  *)
Known(key) == key \in LoadedKeys(index) \/ index.broken \/ index.tail \in {"id", "hash"}

Marks(q, key) == q.pc = "mark" /\ Key[q.command.events[q.at]] = key

RepeatsBounded(q) ==
  \A b \in Branches, key \in Range(Key) :
    /\ Copies(b, key) + Due <= 2 * faults + (IF Known(key) \/ Marks(q, key) THEN 1 ELSE 0)
    /\ q.pc \in {"branch", "next", "mark"} /\ key \notin q.seen /\ ~Marks(q, key) =>
         Copies(b, key) + Due <= 2 * faults

(* The invariant of one process p.                                         *)
AloneInv(p) ==
  /\ ProcessesOK
  /\ faults \in Nat
  /\ DiskOK
  /\ IndexOK
  /\ IndexStored
  /\ proc[p] # Down => KnowsBranch(proc[p])
  /\ RepeatsBounded(proc[p])

-----------------------------------------------------------------------------
(* The reports.                                                            *)

(* The next state replaces one process.                                    *)
LEMMA OneProcess ==
  ASSUME ProcessesOK, NEW s \in Sessions, NEW r, r = Down \/ Running(r),
         proc' = [proc EXCEPT ![s] = r]
  PROVE  ProcessesOK' /\ proc'[s] = r
<1>1. proc'[s] = r /\ \A t \in Sessions : t # s => proc'[t] = proc[t]
  BY DEF ProcessesOK
<1>2. proc' = [t \in Sessions |-> proc'[t]]
  BY DEF ProcessesOK
<1>3. \A t \in Sessions : proc'[t] = Down \/ Running(proc'[t])
  BY <1>1 DEF ProcessesOK
<1> QED BY <1>1, <1>2, <1>3 DEF ProcessesOK

LEMMA RunningFields ==
  ASSUME NEW q, Running(q)
  PROVE  /\ q = [pc |-> q.pc, command |-> q.command, seen |-> q.seen,
                 history |-> q.history, at |-> q.at, count |-> q.count]
         /\ q.pc \in {"index", "branch", "next", "mark"} /\ q.command \in Commands
         /\ q.at \in Nat \ {0} /\ q.count \in Counts /\ Total(q.count) = q.at - 1
         /\ q # Down /\ q.pc # "down"
BY DEF Running, Down

(* Counting an event under one heading moves the total along with at.      *)
LEMMA CountingAdds ==
  ASSUME NEW q, NEW result \in {"accepted", "skipped", "rejected", "errors"}, Running(q), NEW seen,
         NEW r, r = [pc |-> "next", command |-> q.command, seen |-> seen, history |-> q.history,
                     at |-> q.at + 1, count |-> [q.count EXCEPT ![result] = @ + 1]]
  PROVE  /\ Running(r) /\ r.pc = "next" /\ r.seen = seen /\ r.command = q.command
         /\ r.history = q.history /\ r.at = q.at + 1
<1> DEFINE count == [q.count EXCEPT ![result] = @ + 1]
<1>1. q.count \in Counts /\ q.at \in Nat \ {0} /\ q.command \in Commands
      /\ Total(q.count) = q.at - 1
  BY RunningFields
<1>2. count \in Counts /\ Total(count) = Total(q.count) + 1
  BY <1>1 DEF Counts, Total
<1> HIDE DEF count
<1>3. /\ r.pc = "next" /\ r.seen = seen /\ r.command = q.command /\ r.history = q.history
      /\ r.at = q.at + 1 /\ r.count = count
  BY DEF count
<1>4. r \in [pc : {"index", "branch", "next", "mark"}, command : Commands, seen : {r.seen},
             history : {r.history}, at : Nat \ {0}, count : Counts]
  <2>1. r = [pc |-> "next", command |-> q.command, seen |-> seen, history |-> q.history,
             at |-> q.at + 1, count |-> count]
    BY DEF count
  <2> QED BY <1>1, <1>2, <1>3, <2>1
<1>5. Total(r.count) = r.at - 1
  BY <1>1, <1>2, <1>3
<1>6. Running(r)
  BY <1>3, <1>4, <1>5 DEF Running
<1> QED BY <1>3, <1>6

LEMMA CountedFields ==
  ASSUME NEW s, NEW result, NEW q, q = proc[s], Running(q)
  PROVE  Counted(s, result) =
           [pc |-> q.pc, command |-> q.command, seen |-> q.seen, history |-> q.history,
            at |-> q.at + 1, count |-> [q.count EXCEPT ![result] = @ + 1]]
<1>1. q = [pc |-> q.pc, command |-> q.command, seen |-> q.seen,
           history |-> q.history, at |-> q.at, count |-> q.count]
  BY RunningFields
<1>2. PICK new : new = Counted(s, result)
  OBVIOUS
<1>3. new = [pc |-> q.pc, command |-> q.command, seen |-> q.seen, history |-> q.history,
             at |-> q.at + 1, count |-> [q.count EXCEPT ![result] = @ + 1]]
  BY <1>1, <1>2 DEF Counted
<1> QED BY <1>2, <1>3

LEMMA ProcessesInit ==
  ASSUME Init
  PROVE  ProcessesOK
BY DEF Init, ProcessesOK

(* What a step of the next-state relation is.                              *)
LEMMA Steps ==
  ASSUME Next
  PROVE  \E s \in Sessions :
           \/ \E command \in Commands : Start(s, command)
           \/ LoadIndex(s)
           \/ EnsureBranch(s)
           \/ \E e \in DOMAIN Key : Fail(s, e)
           \/ \E e \in DOMAIN Key : Skip(s, e)
           \/ \E e \in DOMAIN Key : Reject(s, e)
           \/ \E e \in DOMAIN Key : Commit(s, e)
           \/ \E e \in DOMAIN Key : CommitLocked(s, e)
           \/ Mark(s)
           \/ \E cut \in Cuts : MarkFails(s, cut)
           \/ Finish(s)
           \/ Crash(s)
BY DEF Next, Progress, Event

(* What becomes of the process that takes each step.                       *)
LEMMA StartEffect ==
  ASSUME NEW s \in Sessions, NEW command \in Commands, Start(s, command)
  PROVE  \E r : /\ proc' = [proc EXCEPT ![s] = r] /\ Running(r)
                /\ r.pc = "index" /\ r.command = command /\ r.history = disk[command.branch]
                /\ r.at = 1
<1> PICK history : history = disk[command.branch]
  OBVIOUS
<1> PICK r : r = [pc |-> "index", command |-> command, seen |-> {}, history |-> history,
                  at |-> 1, count |-> NoCount]
  OBVIOUS
<1>1. NoCount \in Counts /\ Total(NoCount) = 0
  BY DEF NoCount, Counts, Total
<1>2. /\ r.pc = "index" /\ r.command = command /\ r.seen = {} /\ r.history = history
      /\ r.at = 1 /\ r.count = NoCount
  OBVIOUS
<1>3. r \in [pc : {"index", "branch", "next", "mark"}, command : Commands, seen : {r.seen},
             history : {r.history}, at : Nat \ {0}, count : Counts]
  BY <1>1, <1>2
<1>4. Running(r)
  BY <1>1, <1>2, <1>3 DEF Running
<1>5. proc' = [proc EXCEPT ![s] = r]
  BY DEF Start
<1> QED BY <1>2, <1>4, <1>5

(* A step that only moves the program counter, and may change what the     *)
(* process has in memory.                                                  *)
LEMMA Moves ==
  ASSUME NEW q, Running(q), NEW pc2 \in {"branch", "next", "mark"}, NEW seen, NEW history,
         pc2 = "mark" => q.at \in DOMAIN q.command.events,
         NEW r, r = [pc |-> pc2, command |-> q.command, seen |-> seen, history |-> history,
                     at |-> q.at, count |-> q.count]
  PROVE  /\ Running(r) /\ r.pc = pc2 /\ r.seen = seen /\ r.history = history
         /\ r.command = q.command /\ r.at = q.at
<1>1. /\ q.command \in Commands
      /\ q.at \in Nat \ {0} /\ q.count \in Counts /\ Total(q.count) = q.at - 1
  BY RunningFields
<1>3. /\ r.pc = pc2 /\ r.seen = seen /\ r.history = history
      /\ r.command = q.command /\ r.at = q.at /\ r.count = q.count
  OBVIOUS
<1>4. r \in [pc : {"index", "branch", "next", "mark"}, command : Commands, seen : {r.seen},
             history : {r.history}, at : Nat \ {0}, count : Counts]
  BY <1>1, <1>3
<1>5. Running(r)
  BY <1>1, <1>3, <1>4 DEF Running
<1> QED BY <1>3, <1>5

LEMMA LoadIndexEffect ==
  ASSUME ProcessesOK, NEW s \in Sessions, LoadIndex(s)
  PROVE  /\ Running(proc[s])
         /\ \/ ~Loads(index) /\ proc' = [proc EXCEPT ![s] = Down]
            \/ \E r : /\ Loads(index) /\ proc' = [proc EXCEPT ![s] = r] /\ Running(r)
                      /\ r.pc = "branch" /\ r.command = proc[s].command /\ r.at = proc[s].at
                      /\ r.seen = LoadedKeys(index) /\ r.history = proc[s].history
<1> PICK q : q = proc[s]
  OBVIOUS
<1>1. q.pc = "index"
  BY DEF LoadIndex
<1>2. Running(q) /\ Running(proc[s])
  BY <1>1 DEF ProcessesOK, Down
<1>3. CASE ~Loads(index)
  BY <1>2, <1>3 DEF LoadIndex
<1>4. CASE Loads(index)
  <2> PICK seen : seen = LoadedKeys(index)
    OBVIOUS
  <2> PICK r : r = [pc |-> "branch", command |-> q.command, seen |-> seen, history |-> q.history,
                    at |-> q.at, count |-> q.count]
    OBVIOUS
  <2>1. q = [pc |-> q.pc, command |-> q.command, seen |-> q.seen,
             history |-> q.history, at |-> q.at, count |-> q.count]
    BY <1>2, RunningFields
  <2>2. r = [q EXCEPT !.pc = "branch", !.seen = seen]
    <3>1. PICK mid : mid = [q EXCEPT !.pc = "branch"]
      OBVIOUS
    <3>2. mid = [pc |-> "branch", command |-> q.command, seen |-> q.seen,
                 history |-> q.history, at |-> q.at, count |-> q.count]
      BY <2>1, <3>1
    <3>3. [mid EXCEPT !.seen = seen] = r
      BY <3>2
    <3> QED BY <3>1, <3>3
  <2>3. proc' = [proc EXCEPT ![s].pc = "branch", ![s].seen = seen]
    BY <1>4 DEF LoadIndex
  <2>4. proc' = [proc EXCEPT ![s] = r]
    BY <2>2, <2>3 DEF ProcessesOK
  <2>5. /\ Running(r) /\ r.pc = "branch" /\ r.seen = seen /\ r.history = q.history
        /\ r.command = q.command /\ r.at = q.at
    BY <1>2, Moves
  <2> QED BY <1>2, <1>4, <2>4, <2>5
<1> QED BY <1>3, <1>4

LEMMA EnsureBranchEffect ==
  ASSUME ProcessesOK, NEW s \in Sessions, EnsureBranch(s)
  PROVE  /\ Running(proc[s])
         /\ \E r : /\ proc' = [proc EXCEPT ![s] = r] /\ Running(r) /\ r.pc = "next"
                   /\ r.command = proc[s].command /\ r.at = proc[s].at /\ r.seen = proc[s].seen
                   /\ r.history = IF proc[s].history = << >> THEN << >> ELSE proc[s].history[1]
<1> PICK q : q = proc[s]
  OBVIOUS
<1> PICK h : h = q.history
  OBVIOUS
<1> PICK history : history = IF h = << >> THEN << >> ELSE h[1]
  OBVIOUS
<1>1. q.pc = "branch"
  BY DEF EnsureBranch
<1>2. Running(q) /\ Running(proc[s])
  BY <1>1 DEF ProcessesOK, Down
<1> PICK r : r = [pc |-> "next", command |-> q.command, seen |-> q.seen, history |-> history,
                  at |-> q.at, count |-> q.count]
  OBVIOUS
<1>3. q = [pc |-> q.pc, command |-> q.command, seen |-> q.seen,
           history |-> h, at |-> q.at, count |-> q.count]
  BY <1>2, RunningFields
<1>4. r = [q EXCEPT !.pc = "next", !.history = history]
  <2>1. PICK mid : mid = [q EXCEPT !.pc = "next"]
    OBVIOUS
  <2>2. mid = [pc |-> "next", command |-> q.command, seen |-> q.seen,
               history |-> h, at |-> q.at, count |-> q.count]
    BY <1>3, <2>1
  <2>3. [mid EXCEPT !.history = history] = r
    BY <2>2
  <2> QED BY <2>1, <2>3
<1>5. proc' = [proc EXCEPT ![s] = [q EXCEPT !.pc = "next", !.history = history]]
  BY DEF EnsureBranch, ProcessesOK
<1>6. proc' = [proc EXCEPT ![s] = r]
  BY <1>4, <1>5
<1>7. /\ Running(r) /\ r.pc = "next" /\ r.seen = q.seen /\ r.history = history
      /\ r.command = q.command /\ r.at = q.at
  BY <1>2, Moves
<1> QED BY <1>2, <1>6, <1>7

(* An event that is counted under the heading result, seen being what the  *)
(* process takes for seen after it.                                        *)
Counting(s, result, seen) ==
  /\ Running(proc[s])
  /\ \E r : /\ proc' = [proc EXCEPT ![s] = r] /\ Running(r) /\ r.pc = "next" /\ r.seen = seen
            /\ r.command = proc[s].command /\ r.history = proc[s].history
            /\ r.at = proc[s].at + 1

LEMMA CountedEffect ==
  ASSUME ProcessesOK, NEW s \in Sessions, proc[s].pc = "next",
         NEW result \in {"accepted", "skipped", "rejected", "errors"},
         proc' = [proc EXCEPT ![s] = Counted(s, result)]
  PROVE  Counting(s, result, proc[s].seen)
<1>1. PICK q : q = proc[s]
  OBVIOUS
<1>2. Running(q) /\ q.pc = "next"
  BY <1>1 DEF ProcessesOK, Down
<1>3. PICK r : r = [pc |-> "next", command |-> q.command, seen |-> q.seen, history |-> q.history,
                    at |-> q.at + 1, count |-> [q.count EXCEPT ![result] = @ + 1]]
  OBVIOUS
<1>4. /\ Running(r) /\ r.pc = "next" /\ r.seen = q.seen /\ r.command = q.command
      /\ r.history = q.history /\ r.at = q.at + 1
  BY <1>2, <1>3, CountingAdds
<1>5. Counted(s, result) = r
  BY <1>1, <1>2, <1>3, CountedFields
<1> QED BY <1>1, <1>2, <1>4, <1>5 DEF Counting

LEMMA MarkEffect ==
  ASSUME ProcessesOK, NEW s \in Sessions, Mark(s)
  PROVE  Counting(s, "accepted", proc[s].seen \cup {Key[Marking(s)]})
<1>1. PICK q : q = proc[s]
  OBVIOUS
<1>2. Running(q)
  BY <1>1 DEF ProcessesOK, Down, Mark
<1>3. PICK seen : seen = q.seen \cup {Key[Marking(s)]}
  OBVIOUS
<1> DEFINE count == [q.count EXCEPT !["accepted"] = @ + 1]
<1>4. PICK r : r = [pc |-> "next", command |-> q.command, seen |-> seen, history |-> q.history,
                    at |-> q.at + 1, count |-> count]
  OBVIOUS
<1>5. /\ Running(r) /\ r.pc = "next" /\ r.seen = seen /\ r.command = q.command
      /\ r.history = q.history /\ r.at = q.at + 1
  BY <1>2, <1>4, CountingAdds
<1>6. PICK counted : counted = Counted(s, "accepted")
  OBVIOUS
<1>7. counted = [pc |-> q.pc, command |-> q.command, seen |-> q.seen, history |-> q.history,
                 at |-> q.at + 1, count |-> count]
  BY <1>1, <1>2, <1>6, CountedFields
<1> HIDE DEF count
<1>8. PICK mid : mid = [counted EXCEPT !.pc = "next"]
  OBVIOUS
<1>9. mid = [pc |-> "next", command |-> q.command, seen |-> q.seen, history |-> q.history,
             at |-> q.at + 1, count |-> count]
  BY <1>7, <1>8
<1>10. [mid EXCEPT !.seen = @ \cup {Key[Marking(s)]}] = r
  BY <1>3, <1>4, <1>9
<1>11. proc' = [proc EXCEPT ![s] = r]
  BY <1>6, <1>8, <1>10 DEF Mark
<1> QED BY <1>1, <1>2, <1>3, <1>5, <1>11 DEF Counting

LEMMA MarkFailsEffect ==
  ASSUME ProcessesOK, NEW s \in Sessions, NEW cut, MarkFails(s, cut)
  PROVE  Counting(s, "errors", proc[s].seen)
<1>1. PICK q : q = proc[s]
  OBVIOUS
<1>2. Running(q)
  BY <1>1 DEF ProcessesOK, Down, MarkFails
<1> DEFINE count == [q.count EXCEPT !["errors"] = @ + 1]
<1>4. PICK r : r = [pc |-> "next", command |-> q.command, seen |-> q.seen, history |-> q.history,
                    at |-> q.at + 1, count |-> count]
  OBVIOUS
<1>5. /\ Running(r) /\ r.pc = "next" /\ r.seen = q.seen /\ r.command = q.command
      /\ r.history = q.history /\ r.at = q.at + 1
  BY <1>2, <1>4, CountingAdds
<1>6. PICK counted : counted = Counted(s, "errors")
  OBVIOUS
<1>7. counted = [pc |-> q.pc, command |-> q.command, seen |-> q.seen, history |-> q.history,
                 at |-> q.at + 1, count |-> count]
  BY <1>1, <1>2, <1>6, CountedFields
<1> HIDE DEF count
<1>8. [counted EXCEPT !.pc = "next"] = r
  BY <1>4, <1>7
<1>9. proc' = [proc EXCEPT ![s] = r]
  BY <1>6, <1>8 DEF MarkFails
<1> QED BY <1>1, <1>2, <1>5, <1>9 DEF Counting

(* The commit of an event, as far as the process goes.                     *)
LEMMA CommitEffect ==
  ASSUME ProcessesOK, NEW s \in Sessions, NEW e \in DOMAIN Key, Commit(s, e)
  PROVE  /\ Running(proc[s]) /\ Marking(s) = e
         /\ \E c, r : /\ c.event = e
                      /\ disk' = [disk EXCEPT ![proc[s].command.branch] = <<Append(proc[s].history, c)>>]
                      /\ proc' = [proc EXCEPT ![s] = r] /\ Running(r) /\ r.pc = "mark"
                      /\ r.seen = proc[s].seen /\ r.command = proc[s].command
                      /\ r.history = Append(proc[s].history, c) /\ r.at = proc[s].at
<1>1. PICK q : q = proc[s]
  OBVIOUS
<1>2. PICK c : c = [event |-> e, audit |-> q.command.audit, strict |-> q.command.strict,
                    delta |-> Transaction(World(q.history), e, q.command.audit),
                    world |-> After(World(q.history),
                                    Transaction(World(q.history), e, q.command.audit))]
  OBVIOUS
<1>3. PICK history : history = Append(q.history, c)
  OBVIOUS
<1>4. /\ Reads(s, e)
      /\ disk' = [disk EXCEPT ![q.command.branch] = <<history>>]
      /\ proc' = [proc EXCEPT ![s].pc = "mark", ![s].history = history]
  BY <1>1, <1>2, <1>3, Zenon DEF Commit
<1>5. /\ q.pc = "next" /\ q.at \in DOMAIN q.command.events /\ e = q.command.events[q.at]
  BY <1>1, <1>4 DEF Reads
<1>6. Running(q) /\ Running(proc[s])
  BY <1>1, <1>5 DEF ProcessesOK, Down
<1>7. PICK r : r = [pc |-> "mark", command |-> q.command, seen |-> q.seen, history |-> history,
                    at |-> q.at, count |-> q.count]
  OBVIOUS
<1>8. /\ Running(r) /\ r.pc = "mark" /\ r.seen = q.seen /\ r.history = history
      /\ r.command = q.command /\ r.at = q.at
  BY <1>5, <1>6, <1>7, Moves
<1>9. r = [q EXCEPT !.pc = "mark", !.history = history]
  <2>1. q = [pc |-> q.pc, command |-> q.command, seen |-> q.seen,
             history |-> q.history, at |-> q.at, count |-> q.count]
    BY <1>6, RunningFields
  <2>2. PICK mid : mid = [q EXCEPT !.pc = "mark"]
    OBVIOUS
  <2>3. mid = [pc |-> "mark", command |-> q.command, seen |-> q.seen,
               history |-> q.history, at |-> q.at, count |-> q.count]
    BY <2>1, <2>2
  <2>4. [mid EXCEPT !.history = history] = r
    BY <1>7, <2>3
  <2> QED BY <2>2, <2>4
<1>10. proc' = [proc EXCEPT ![s] = r]
  BY <1>1, <1>4, <1>9 DEF ProcessesOK
<1>11. c.event = e
  BY <1>2
<1>12. disk' = [disk EXCEPT ![proc[s].command.branch] = <<Append(proc[s].history, c)>>]
  BY <1>1, <1>3, <1>4
<1>13. /\ r.seen = proc[s].seen /\ r.command = proc[s].command
       /\ r.history = Append(proc[s].history, c) /\ r.at = proc[s].at
  BY <1>1, <1>3, <1>8
<1>14. Marking(s) = e
  BY <1>1, <1>5 DEF Marking
<1> QED BY <1>6, <1>8, <1>10, <1>11, <1>12, <1>13, <1>14

LEMMA ProcessesStep ==
  ASSUME ProcessesOK, [Next]_vars
  PROVE  ProcessesOK'
<1>1. CASE UNCHANGED vars
  BY <1>1 DEF vars, ProcessesOK, Running, Counts, Total, Down
<1>2. CASE Next
  <2>1. PICK s \in Sessions :
           \/ \E command \in Commands : Start(s, command)
           \/ LoadIndex(s)
           \/ EnsureBranch(s)
           \/ \E e \in DOMAIN Key : Fail(s, e)
           \/ \E e \in DOMAIN Key : Skip(s, e)
           \/ \E e \in DOMAIN Key : Reject(s, e)
           \/ \E e \in DOMAIN Key : Commit(s, e)
           \/ \E e \in DOMAIN Key : CommitLocked(s, e)
           \/ Mark(s)
           \/ \E cut \in Cuts : MarkFails(s, cut)
           \/ Finish(s)
           \/ Crash(s)
    BY <1>2, Steps
  <2>2. \E r : (r = Down \/ Running(r)) /\ proc' = [proc EXCEPT ![s] = r]
    <3>1. CASE \E command \in Commands : Start(s, command)
      BY <3>1, StartEffect
    <3>2. CASE LoadIndex(s)
      BY <3>2, LoadIndexEffect
    <3>3. CASE EnsureBranch(s)
      BY <3>3, EnsureBranchEffect
    <3>4. CASE \E e \in DOMAIN Key : Fail(s, e) \/ Skip(s, e) \/ Reject(s, e) \/ CommitLocked(s, e)
      <4>1. PICK result \in {"errors", "skipped", "rejected"} :
               proc[s].pc = "next" /\ proc' = [proc EXCEPT ![s] = Counted(s, result)]
        BY <3>4 DEF Fail, Skip, Reject, CommitLocked, Reads
      <4>2. Counting(s, result, proc[s].seen)
        BY <4>1, CountedEffect
      <4> QED BY <4>2 DEF Counting
    <3>5. CASE \E e \in DOMAIN Key : Commit(s, e)
      BY <3>5, CommitEffect
    <3>6. CASE Mark(s)
      BY <3>6, MarkEffect DEF Counting
    <3>7. CASE \E cut \in Cuts : MarkFails(s, cut)
      BY <3>7, MarkFailsEffect DEF Counting
    <3>8. CASE Finish(s) \/ Crash(s)
      BY <3>8 DEF Finish, Crash
    <3> QED BY <2>1, <3>1, <3>2, <3>3, <3>4, <3>5, <3>6, <3>7, <3>8
  <2> QED BY <2>2, OneProcess
<1> QED BY <1>1, <1>2

LEMMA ReportAdds ==
  ASSUME ProcessesOK
  PROVE  ReportAddsUp
BY RunningFields DEF ProcessesOK, ReportAddsUp, Total, Down

(* Each event that is read ends up under exactly one heading of the        *)
(* report, whichever way its turn ends, and however many processes run.    *)
THEOREM ReportsAddUp == Spec => []ReportAddsUp
<1>1. Init => ProcessesOK
  BY ProcessesInit
<1>2. ProcessesOK /\ [Next]_vars => ProcessesOK'
  BY ProcessesStep
<1>3. ProcessesOK => ReportAddsUp
  BY ReportAdds
<1> QED BY <1>1, <1>2, <1>3, PTL DEF Spec

-----------------------------------------------------------------------------
(* What strict mode lets into a branch.                                    *)

AgentOnFile(relation) == [from_type |-> "Agent", relation |-> relation, to_type |-> "File"]
ReadBefore ==
  [pattern |-> AgentOnFile("reads"), from_binding |-> "from", to_binding |-> "to",
   search |-> "before", forbidden |-> FALSE]
ReadBeforeWrite ==
  [name |-> "no_write_without_read", severity |-> "error", trigger |-> AgentOnFile("modifies"),
   requirements |-> <<ReadBefore>>]

LEMMA FunctionIsSequence ==
  ASSUME NEW R, NEW n \in Nat, NEW f \in [1..n -> R]
  PROVE  f \in Seq(R)
OBVIOUS

LEMMA InItsRange ==
  ASSUME NEW S, NEW u \in Seq(S)
  PROVE  u \in Seq(Range(u)) /\ Range(u) \subseteq S
<1>1. Len(u) \in Nat /\ DOMAIN u = 1..Len(u)
  OBVIOUS
<1>2. PICK n \in Nat : n = Len(u) /\ u = [i \in 1..n |-> u[i]]
  BY <1>1
<1>3. \A i \in 1..n : u[i] \in Range(u) /\ u[i] \in S
  BY <1>1, <1>2 DEF Range
<1>4. PICK R : R = Range(u)
  OBVIOUS
<1>5. u \in [1..n -> R]
  BY <1>2, <1>3, <1>4
<1>6. u \in Seq(R)
  BY <1>5
<1>7. Range(u) \subseteq S
  BY <1>1, <1>2, <1>3 DEF Range
<1> QED BY <1>4, <1>6, <1>7

LEMMA Concatenated ==
  ASSUME NEW s, NEW t, s \in Seq(Range(s)), t \in Seq(Range(t))
  PROVE  /\ s \o t \in Seq(Range(s \o t))
         /\ Range(s \o t) \subseteq Range(s) \cup Range(t)
<1>1. s \in Seq(Range(s) \cup Range(t)) /\ t \in Seq(Range(s) \cup Range(t))
  OBVIOUS
<1>2. s \o t \in Seq(Range(s) \cup Range(t))
  BY <1>1
<1> QED BY <1>2, InItsRange

(* The transaction of an event: its relation first, and what backs it.     *)
LEMMA TransactionOf ==
  ASSUME NEW w, NEW e, NEW audit, NEW n, n = Normal[e][1], NEW delta, delta = Transaction(w, e, audit)
  PROVE  /\ delta.links \in Seq(Range(delta.links)) /\ delta.links # << >> /\ 1 \in DOMAIN delta.links
         /\ delta.links[1] \in Range(delta.links)
         /\ delta.links[1].from = n.from /\ delta.links[1].to = n.to
         /\ delta.links[1].relation = n.relation
         /\ \A l \in Range(delta.links) : l = delta.links[1] \/ l.relation = "backs"
         /\ delta.unlinks = {}
         /\ DOMAIN delta.types \cap DOMAIN w.types = {}
         /\ {n.from, n.to} \subseteq DOMAIN delta.types \cup DOMAIN w.types
<1> DEFINE link(from, relation, to) == [from |-> from, to |-> to, relation |-> relation, weight |-> 100]
           types == [o \in {n.from, n.to} \cup (IF audit THEN {Key[e]} ELSE {}) |->
                       CASE o = n.from             -> n.from_type
                         [] o = n.to /\ o # n.from -> n.to_type
                         [] OTHER                  -> "Evidence"]
<1>1. PICK first, second : /\ first = link(n.from, n.relation, n.to)
                           /\ second = link(Key[e], "backs", n.to)
  OBVIOUS
<1>2. PICK named : named = types
  OBVIOUS
<1>2a. {n.from, n.to} \subseteq DOMAIN named
  BY <1>2
<1>2b. delta = [types |-> EnsureObjects(w, named),
                links |-> IF audit THEN <<first, second>> ELSE <<first>>, unlinks |-> {}]
  BY <1>1, <1>2, Zenon DEF Transaction
<1>3. delta.links = <<first>> \/ delta.links = <<first, second>>
  BY <1>2b
<1>3a. delta.types = EnsureObjects(w, named) /\ delta.unlinks = {}
  BY <1>2b
<1>4. /\ first.from = n.from /\ first.to = n.to /\ first.relation = n.relation
      /\ second.relation = "backs"
  BY <1>1
<1>5. /\ delta.links[1] = first /\ delta.links # << >> /\ 1 \in DOMAIN delta.links
      /\ Range(delta.links) \subseteq {first, second} /\ first \in Range(delta.links)
  BY <1>3 DEF Range
<1>6. delta.links \in Seq(Range(delta.links))
  BY <1>3 DEF Range
<1>7. DOMAIN delta.types = DOMAIN named \ DOMAIN w.types
  BY <1>3a DEF EnsureObjects
<1> QED BY <1>2a, <1>3a, <1>4, <1>5, <1>6, <1>7

(* A world with a transaction's pointers and objects added to it.          *)
Follows(v, w, delta) ==
  /\ v.pointers \in Seq(Range(v.pointers))
  /\ \A p \in Range(v.pointers) :
       \/ p \in Range(w.pointers)
       \/ \E l \in Range(delta.links) : p.from = l.from /\ p.to = l.to /\ p.relation = l.relation
  /\ DOMAIN v.types = DOMAIN delta.types \cup DOMAIN w.types
  /\ \A o \in DOMAIN w.types : v.types[o] = w.types[o]

(* The world after it: no object changes its type, and what points is what *)
(* did before or what the transaction links.                               *)
LEMMA WorldAfter ==
  ASSUME NEW w, w.pointers \in Seq(Range(w.pointers)), NEW delta,
         delta.links \in Seq(Range(delta.links)), delta.unlinks = {},
         DOMAIN delta.types \cap DOMAIN w.types = {}, NEW v, v = After(w, delta)
  PROVE  Follows(v, w, delta)
<1> DEFINE epoch == w.epoch + 1
           kept(i) == IF i \in delta.unlinks THEN [w.pointers[i] EXCEPT !.expires = epoch]
                                             ELSE w.pointers[i]
           born(l) == [from |-> l.from, to |-> l.to, relation |-> l.relation,
                       weight |-> l.weight, born |-> epoch, expires |-> 0]
           old == [i \in DOMAIN w.pointers |-> kept(i)]
           new == [i \in DOMAIN delta.links |-> born(delta.links[i])]
<1>1. /\ v.types = Over(delta.types, w.types) /\ v.pointers = old \o new
  BY DEF After
<1>2. old = w.pointers
  OBVIOUS
<1>3. \A l : (born(l)).from = l.from /\ (born(l)).to = l.to /\ (born(l)).relation = l.relation
  OBVIOUS
<1> HIDE DEF old, born
<1>4. new \in Seq(Range(new))
  <2>1. PICK n \in Nat : DOMAIN delta.links = 1..n
    OBVIOUS
  <2>2. PICK R : R = Range(new)
    OBVIOUS
  <2>3. \A i \in 1..n : new[i] \in R
    BY <2>1, <2>2 DEF Range
  <2>4. new \in [1..n -> R]
    BY <2>1, <2>3
  <2> HIDE DEF new
  <2>5. new \in Seq(R)
    BY <2>4, FunctionIsSequence
  <2> QED BY <2>2, <2>5
<1>5. \A p \in Range(new) : \E l \in Range(delta.links) :
        p.from = l.from /\ p.to = l.to /\ p.relation = l.relation
  <2> SUFFICES ASSUME NEW p \in Range(new)
               PROVE  \E l \in Range(delta.links) :
                        p.from = l.from /\ p.to = l.to /\ p.relation = l.relation
    OBVIOUS
  <2>1. PICK i \in DOMAIN new : p = new[i]
    BY DEF Range
  <2>2. i \in DOMAIN delta.links /\ p = born(delta.links[i])
    BY <2>1
  <2>3. PICK l : l = delta.links[i]
    OBVIOUS
  <2>4. l \in Range(delta.links)
    BY <2>2, <2>3 DEF Range
  <2> QED BY <1>3, <2>2, <2>3, <2>4
<1> HIDE DEF new
<1>6. v.pointers \in Seq(Range(v.pointers)) /\ Range(v.pointers) \subseteq Range(w.pointers) \cup Range(new)
  BY <1>1, <1>2, <1>4, Concatenated
<1>7. /\ DOMAIN v.types = DOMAIN delta.types \cup DOMAIN w.types
      /\ \A o \in DOMAIN w.types : v.types[o] = w.types[o]
  BY <1>1 DEF Over
<1> QED BY <1>5, <1>6, <1>7 DEF Follows

(* What the rule asks of a strict write.                                   *)
LEMMA ReadRequired ==
  ASSUME ReadBeforeWrite \in Rules, NEW h, NEW e, NEW command, command.strict,
         ~Refused(h, e, command), NEW w, w = World(h),
         NEW delta, delta = Transaction(w, e, command.audit), NEW v, v = After(w, delta),
         NEW l, l \in Range(delta.links), delta.links # << >>, l.relation = "modifies",
         {l.from, l.to} \subseteq DOMAIN v.types, v.types[l.from] = "Agent", v.types[l.to] = "File"
  PROVE  \E p \in Range(w.pointers) : p.relation = "reads" /\ p.from = l.from /\ p.to = l.to
<1>1. PICK verifier : verifier = Verifier(command.strict)
  OBVIOUS
<1>2. verifier.mode = "strict" /\ verifier.rules = Rules
  BY <1>1 DEF Verifier
<1>3. Check(verifier, w, v, delta).accepted
  BY <1>1 DEF Refused
<1>4. \A x \in Violations(verifier, w, v, delta) : ~RejectsTransition(x.severity)
  BY <1>2, <1>3 DEF Check
<1>5. PICK rule : rule = ReadBeforeWrite
  OBVIOUS
<1>6. PatternLaw(rule, w, v, delta) \subseteq Violations(verifier, w, v, delta)
  BY <1>2, <1>5 DEF Violations
<1>7. /\ rule.severity = "error" /\ rule.trigger = AgentOnFile("modifies")
      /\ rule.requirements = <<ReadBefore>>
  BY <1>5 DEF ReadBeforeWrite
<1>8. \A match \in TriggerMatches(v, delta, rule.trigger) :
        \A requirement \in Range(rule.requirements) :
          requirement.forbidden # RequirementExists(w, v, match, requirement)
  <2> SUFFICES ASSUME NEW match \in TriggerMatches(v, delta, rule.trigger),
                      ~\A requirement \in Range(rule.requirements) :
                          requirement.forbidden # RequirementExists(w, v, match, requirement)
               PROVE  FALSE
    OBVIOUS
  <2>1. Violation(rule.name, rule.severity, match) \in PatternLaw(rule, w, v, delta)
    BY DEF PatternLaw
  <2>2. Violation(rule.name, rule.severity, match).severity = "error"
    BY <1>7 DEF Violation
  <2> QED BY <1>4, <1>6, <2>1, <2>2 DEF RejectsTransition
<1>9. l \in TriggerMatches(v, delta, rule.trigger)
  BY <1>7 DEF TriggerMatches, MatchesRelationPattern, WildcardOrEqual, AgentOnFile
<1>10. ReadBefore \in Range(rule.requirements)
  BY <1>7 DEF Range
<1>11. PICK r : r = ReadBefore
  OBVIOUS
<1>12. r.forbidden # RequirementExists(w, v, l, r)
  BY <1>8, <1>9, <1>10, <1>11
<1>13. /\ r.forbidden = FALSE /\ r.search = "before" /\ r.from_binding = "from" /\ r.to_binding = "to"
       /\ r.pattern = AgentOnFile("reads")
  BY <1>11 DEF ReadBefore
<1>14. RelationExists(w, l, r)
  BY <1>12, <1>13 DEF RequirementExists
<1>15. PICK p \in Active(w) : /\ EndpointAllowed("from", p.from, l) /\ EndpointAllowed("to", p.to, l)
                              /\ MatchesRelationPattern(w, AgentOnFile("reads"), p)
  BY <1>13, <1>14 DEF RelationExists
<1>16. p \in Range(w.pointers)
  BY DEF Active, Range
<1>17. p.from = l.from /\ p.to = l.to
  BY <1>15 DEF EndpointAllowed
<1>18. p.relation = "reads"
  BY <1>15 DEF MatchesRelationPattern, WildcardOrEqual, AgentOnFile
<1> QED BY <1>16, <1>17, <1>18

Relation(c) == c.delta.links[1]
Says(c, relation, from, to) ==
  Relation(c).relation = relation /\ Relation(c).from = from /\ Relation(c).to = to

(* A write that strict mode let into the history follows a read, the types *)
(* being those of the world at its end.                                    *)
ReadComesFirst(h, i) ==
  LET l == Relation(h[i]) types == World(h).types IN
  h[i].strict /\ l.relation = "modifies" /\ types[l.from] = "Agent" /\ types[l.to] = "File" =>
    \E j \in 1..(i - 1) : Says(h[j], "reads", l.from, l.to)

(* A history whose world is the work of its commits, and its strict writes *)
(* follow reads.                                                           *)
Explained(h) ==
  /\ h \in Seq(Range(h))
  /\ World(h).pointers \in Seq(Range(World(h).pointers))
  /\ \A p \in Range(World(h).pointers) : p.relation = "reads" =>
       \E j \in DOMAIN h : Says(h[j], "reads", p.from, p.to)
  /\ \A i \in DOMAIN h : {Relation(h[i]).from, Relation(h[i]).to} \subseteq DOMAIN World(h).types
  /\ \A i \in DOMAIN h : ReadComesFirst(h, i)

LEMMA ExplainedEmpty == Explained(<< >>)
<1>1. << >> \in Seq(Range(<< >>)) /\ DOMAIN << >> = {}
  OBVIOUS
<1>2. World(<< >>).pointers = << >>
  BY DEF World, EmptyWorld
<1>3. Range(<< >>) = {}
  BY DEF Range
<1> QED BY <1>1, <1>2, <1>3 DEF Explained

LEMMA ExplainedAppend ==
  ASSUME ReadBeforeWrite \in Rules, NEW h, Explained(h), NEW e, NEW command,
         command.strict => ~Refused(h, e, command),
         NEW delta, delta = Transaction(World(h), e, command.audit),
         NEW c, c = [event |-> e, audit |-> command.audit, strict |-> command.strict,
                     delta |-> delta, world |-> After(World(h), delta)]
  PROVE  Explained(Append(h, c))
<1>1. PICK w, v : w = World(h) /\ v = After(w, delta)
  OBVIOUS
<1>2. PICK n : n = Normal[e][1]
  OBVIOUS
<1>3. /\ delta.links \in Seq(Range(delta.links)) /\ delta.links # << >>
      /\ delta.links[1] \in Range(delta.links)
      /\ delta.links[1].from = n.from /\ delta.links[1].to = n.to
      /\ \A l \in Range(delta.links) : l = delta.links[1] \/ l.relation = "backs"
      /\ delta.unlinks = {}
      /\ DOMAIN delta.types \cap DOMAIN w.types = {}
      /\ {n.from, n.to} \subseteq DOMAIN delta.types \cup DOMAIN w.types
  BY <1>1, <1>2, TransactionOf
<1>4. /\ h \in Seq(Range(h)) /\ Len(h) \in Nat /\ DOMAIN h = 1..Len(h)
      /\ w.pointers \in Seq(Range(w.pointers))
  BY <1>1 DEF Explained
<1>5. /\ v.pointers \in Seq(Range(v.pointers))
      /\ \A p \in Range(v.pointers) :
           \/ p \in Range(w.pointers)
           \/ \E l \in Range(delta.links) : p.from = l.from /\ p.to = l.to /\ p.relation = l.relation
      /\ DOMAIN v.types = DOMAIN delta.types \cup DOMAIN w.types
      /\ \A o \in DOMAIN w.types : v.types[o] = w.types[o]
  <2>1. /\ DOMAIN delta.types \cap DOMAIN w.types = {} /\ delta.unlinks = {}
        /\ delta.links \in Seq(Range(delta.links)) /\ w.pointers \in Seq(Range(w.pointers))
    BY <1>3, <1>4
  <2>2. v = After(w, delta)
    BY <1>1
  <2>3. Follows(v, w, delta)
    BY <2>1, <2>2, WorldAfter
  <2> QED BY <2>3 DEF Follows
<1>6. PICK g, k : g = Append(h, c) /\ k = Len(h) + 1
  OBVIOUS
<1>7. /\ g \in Seq(Range(g)) /\ DOMAIN g = 1..k /\ Len(g) = k /\ g[k] = c /\ k \in Nat
      /\ \A i \in 1..Len(h) : g[i] = h[i]
  <2>1. h \in Seq(Range(h) \cup {c})
    BY <1>4
  <2>2. g \in Seq(Range(h) \cup {c})
    BY <1>6, <2>1
  <2>3. g \in Seq(Range(g))
    BY <2>2, InItsRange
  <2> QED BY <1>4, <1>6, <2>1, <2>2, <2>3
<1>8. /\ c.delta = delta /\ c.strict = command.strict /\ c.world = v /\ Relation(c) = delta.links[1]
  BY <1>1 DEF Relation
<1>9. World(g) = v
  <2>1. k > 0 /\ Len(g) = k
    BY <1>4, <1>6, <1>7
  <2>2. g # << >>
    BY <2>1
  <2>3. Last(g) = c
    BY <1>7 DEF Last
  <2>4. World(g) = Last(g).world
    BY <2>2 DEF World
  <2> QED BY <1>8, <2>3, <2>4
<1>10. ASSUME NEW p \in Range(v.pointers), p.relation = "reads"
       PROVE  \E j \in DOMAIN g : Says(g[j], "reads", p.from, p.to)
  <2>1. CASE p \in Range(w.pointers)
    <3>1. PICK j \in DOMAIN h : Says(h[j], "reads", p.from, p.to)
      BY <1>1, <1>10, <2>1 DEF Explained
    <3>2. j \in DOMAIN g /\ g[j] = h[j]
      BY <1>4, <1>6, <1>7
    <3> QED BY <3>1, <3>2
  <2>2. CASE \E l \in Range(delta.links) : p.from = l.from /\ p.to = l.to /\ p.relation = l.relation
    <3>1. PICK l \in Range(delta.links) : p.from = l.from /\ p.to = l.to /\ p.relation = l.relation
      BY <2>2
    <3>2. l = delta.links[1]
      BY <1>3, <1>10, <3>1
    <3>3. Says(c, "reads", p.from, p.to)
      BY <1>8, <1>10, <3>1, <3>2 DEF Says
    <3>4. k \in DOMAIN g
      BY <1>4, <1>6, <1>7
    <3> QED BY <1>7, <3>3, <3>4
  <2> QED BY <1>5, <2>1, <2>2
<1>11. ASSUME NEW i \in DOMAIN g
       PROVE  {Relation(g[i]).from, Relation(g[i]).to} \subseteq DOMAIN v.types
  <2>1. CASE i = k
    BY <1>2, <1>3, <1>5, <1>7, <1>8, <2>1
  <2>2. CASE i # k
    <3>1. i \in DOMAIN h /\ g[i] = h[i]
      BY <1>4, <1>6, <1>7, <2>2
    <3>2. {Relation(h[i]).from, Relation(h[i]).to} \subseteq DOMAIN w.types
      BY <1>1, <3>1 DEF Explained
    <3> QED BY <1>5, <3>1, <3>2
  <2> QED BY <2>1, <2>2
<1>12. ASSUME NEW i \in DOMAIN g
       PROVE  ReadComesFirst(g, i)
  <2>1. PICK l : l = Relation(g[i])
    OBVIOUS
  <2> SUFFICES ASSUME g[i].strict, l.relation = "modifies",
                      v.types[l.from] = "Agent", v.types[l.to] = "File"
               PROVE  \E j \in 1..(i - 1) : Says(g[j], "reads", l.from, l.to)
    BY <1>9, <2>1 DEF ReadComesFirst
  <2>2. CASE i = k
    <3>1. l = delta.links[1] /\ command.strict
      BY <1>7, <1>8, <2>1, <2>2
    <3>2. l \in Range(delta.links)
      BY <1>3, <3>1
    <3>3. {l.from, l.to} \subseteq DOMAIN v.types
      BY <1>11, <2>1
    <3>4. ~Refused(h, e, command)
      BY <3>1
    <3>5. delta = Transaction(w, e, command.audit)
      BY <1>1
    <3>6. \E p \in Range(w.pointers) : p.relation = "reads" /\ p.from = l.from /\ p.to = l.to
      BY <1>1, <1>3, <3>1, <3>2, <3>3, <3>4, <3>5, ReadRequired
    <3>7. PICK j \in DOMAIN h : Says(h[j], "reads", l.from, l.to)
      BY <1>1, <3>6 DEF Explained
    <3>8. j \in 1..(i - 1) /\ g[j] = h[j]
      BY <1>4, <1>6, <1>7, <2>2
    <3> QED BY <3>7, <3>8
  <2>3. CASE i # k
    <3>1. i \in DOMAIN h /\ g[i] = h[i] /\ i \in 1..Len(h)
      BY <1>4, <1>6, <1>7, <2>3
    <3>2. {l.from, l.to} \subseteq DOMAIN w.types
      BY <1>1, <2>1, <3>1 DEF Explained
    <3>3. w.types[l.from] = "Agent" /\ w.types[l.to] = "File"
      BY <1>5, <3>2
    <3>4. ReadComesFirst(h, i)
      BY <3>1 DEF Explained
    <3>5. PICK j \in 1..(i - 1) : Says(h[j], "reads", l.from, l.to)
      BY <1>1, <2>1, <3>1, <3>3, <3>4 DEF ReadComesFirst
    <3>6. g[j] = h[j]
      BY <1>4, <1>7, <3>1
    <3> QED BY <3>5, <3>6
  <2> QED BY <2>2, <2>3
<1>13. Explained(g)
  BY <1>5, <1>7, <1>9, <1>10, <1>11, <1>12 DEF Explained
<1> QED BY <1>6, <1>13

(* Every history there is, on a branch or in the memory of a process, is   *)
(* explained; a process may know one that is not on the branch any more.   *)
Boxed(d) == d = << >> \/ (d = <<d[1]>> /\ Explained(d[1]))
AllExplained ==
  /\ disk = [b \in Branches |-> disk[b]] /\ \A b \in Branches : Boxed(disk[b])
  /\ \A s \in Sessions : proc[s] # Down =>
       /\ proc[s].pc \in {"index", "branch"} => Boxed(proc[s].history)
       /\ proc[s].pc \in {"next", "mark"} => Explained(proc[s].history)

LEMMA AllExplainedInit ==
  ASSUME Init
  PROVE  AllExplained
BY DEF Init, AllExplained, Boxed

(* A step that changes one process and leaves the branches alone.          *)
LEMMA MemoryChanges ==
  ASSUME ProcessesOK, AllExplained, UNCHANGED disk, NEW s \in Sessions, NEW r,
         proc' = [proc EXCEPT ![s] = r],
         r # Down => /\ r.pc \in {"index", "branch"} => Boxed(r.history)
                     /\ r.pc \in {"next", "mark"} => Explained(r.history)
  PROVE  AllExplained'
<1>1. proc'[s] = r /\ \A t \in Sessions : t # s => proc'[t] = proc[t]
  BY DEF ProcessesOK
<1>2. disk' = [b \in Branches |-> disk'[b]] /\ \A b \in Branches : Boxed(disk'[b])
  BY DEF AllExplained
<1>3. \A t \in Sessions : proc'[t] # Down =>
        /\ proc'[t].pc \in {"index", "branch"} => Boxed(proc'[t].history)
        /\ proc'[t].pc \in {"next", "mark"} => Explained(proc'[t].history)
  BY <1>1 DEF AllExplained
<1> QED BY <1>2, <1>3 DEF AllExplained, Boxed

LEMMA BranchChanges ==
  ASSUME ProcessesOK, AllExplained, NEW s \in Sessions, NEW r, NEW b, NEW h, Explained(h),
         disk' = [disk EXCEPT ![b] = <<h>>], proc' = [proc EXCEPT ![s] = r],
         r.pc \in {"next", "mark"}, r.history = h
  PROVE  AllExplained'
<1>1. proc'[s] = r /\ \A t \in Sessions : t # s => proc'[t] = proc[t]
  BY DEF ProcessesOK
<1>2. \A x \in Branches : disk'[x] = disk[x] \/ disk'[x] = <<h>>
  BY DEF AllExplained
<1>3. Boxed(<<h>>)
  BY DEF Boxed
<1>4. disk' = [x \in Branches |-> disk'[x]] /\ \A x \in Branches : Boxed(disk'[x])
  BY <1>2, <1>3 DEF AllExplained
<1>5. \A t \in Sessions : proc'[t] # Down =>
        /\ proc'[t].pc \in {"index", "branch"} => Boxed(proc'[t].history)
        /\ proc'[t].pc \in {"next", "mark"} => Explained(proc'[t].history)
  BY <1>1 DEF AllExplained
<1> QED BY <1>4, <1>5 DEF AllExplained, Boxed

LEMMA AllExplainedStep ==
  ASSUME ReadBeforeWrite \in Rules, EventsAssumption, ProcessesOK, AllExplained, [Next]_vars
  PROVE  AllExplained'
<1>1. CASE UNCHANGED vars
  BY <1>1 DEF vars, AllExplained, Boxed
<1>2. CASE Next
  <2>1. PICK s \in Sessions :
           \/ \E command \in Commands : Start(s, command)
           \/ LoadIndex(s)
           \/ EnsureBranch(s)
           \/ \E e \in DOMAIN Key : Fail(s, e)
           \/ \E e \in DOMAIN Key : Skip(s, e)
           \/ \E e \in DOMAIN Key : Reject(s, e)
           \/ \E e \in DOMAIN Key : Commit(s, e)
           \/ \E e \in DOMAIN Key : CommitLocked(s, e)
           \/ Mark(s)
           \/ \E cut \in Cuts : MarkFails(s, cut)
           \/ Finish(s)
           \/ Crash(s)
    BY <1>2, Steps
  <2>2. PICK q : q = proc[s]
    OBVIOUS
  <2>3. /\ q.pc \in {"index", "branch"} => Boxed(q.history)
        /\ q.pc \in {"next", "mark"} => Explained(q.history)
    BY <2>2 DEF AllExplained, Down
  <2>4. ASSUME NEW command \in Commands, Start(s, command)
        PROVE  AllExplained'
    <3>1. PICK r : /\ proc' = [proc EXCEPT ![s] = r] /\ r.pc = "index"
                   /\ r.history = disk[command.branch]
      BY <2>4, StartEffect
    <3>2. Boxed(r.history)
      BY <3>1 DEF AllExplained, EventsAssumption
    <3>3. UNCHANGED disk
      BY <2>4 DEF Start
    <3> QED BY <3>1, <3>2, <3>3, MemoryChanges
  <2>5. ASSUME LoadIndex(s)
        PROVE  AllExplained'
    <3>1. UNCHANGED disk /\ q.pc = "index"
      BY <2>2, <2>5 DEF LoadIndex
    <3>2. CASE proc' = [proc EXCEPT ![s] = Down]
      BY <3>1, <3>2, MemoryChanges
    <3>3. CASE \E r : proc' = [proc EXCEPT ![s] = r] /\ r.pc = "branch" /\ r.history = q.history
      <4>1. PICK r : proc' = [proc EXCEPT ![s] = r] /\ r.pc = "branch" /\ r.history = q.history
        BY <3>3
      <4>2. Boxed(r.history)
        BY <2>3, <3>1, <4>1
      <4> QED BY <3>1, <4>1, <4>2, MemoryChanges
    <3> QED BY <2>2, <2>5, <3>2, <3>3, LoadIndexEffect
  <2>6. ASSUME EnsureBranch(s)
        PROVE  AllExplained'
    <3>1. PICK h : h = IF q.history = << >> THEN << >> ELSE q.history[1]
      OBVIOUS
    <3>2. PICK r : proc' = [proc EXCEPT ![s] = r] /\ r.pc = "next" /\ r.history = h
      BY <2>2, <2>6, <3>1, EnsureBranchEffect
    <3>3. /\ q.pc = "branch"
          /\ disk' = IF q.history = << >> THEN [disk EXCEPT ![q.command.branch] = << << >> >>] ELSE disk
      BY <2>2, <2>6 DEF EnsureBranch
    <3>4. Explained(h)
      BY <2>3, <3>1, <3>3, ExplainedEmpty DEF Boxed
    <3>5. CASE q.history = << >>
      <4>1. h = << >> /\ disk' = [disk EXCEPT ![q.command.branch] = <<h>>]
        BY <3>1, <3>3, <3>5
      <4> QED BY <3>2, <3>4, <4>1, BranchChanges
    <3>6. CASE q.history # << >>
      <4>1. UNCHANGED disk
        BY <3>3, <3>6
      <4>2. Explained(r.history)
        BY <3>2, <3>4
      <4> QED BY <3>2, <4>1, <4>2, MemoryChanges
    <3> QED BY <3>5, <3>6
  <2>7. ASSUME NEW result, NEW seen, Counting(s, result, seen), UNCHANGED disk,
               q.pc \in {"next", "mark"}
        PROVE  AllExplained'
    <3>1. PICK r : proc' = [proc EXCEPT ![s] = r] /\ r.pc = "next" /\ r.history = q.history
      BY <2>2, <2>7 DEF Counting
    <3>2. Explained(r.history)
      BY <2>3, <2>7, <3>1
    <3> QED BY <2>7, <3>1, <3>2, MemoryChanges
  <2>8. ASSUME NEW e \in DOMAIN Key, Fail(s, e) \/ Skip(s, e) \/ Reject(s, e) \/ CommitLocked(s, e)
        PROVE  AllExplained'
    <3>1. UNCHANGED disk /\ proc[s].pc = "next"
      BY <2>8 DEF Fail, Skip, Reject, CommitLocked, Reads
    <3>2. PICK result \in {"errors", "skipped", "rejected"} :
             proc' = [proc EXCEPT ![s] = Counted(s, result)]
      BY <2>8 DEF Fail, Skip, Reject, CommitLocked
    <3>3. Counting(s, result, proc[s].seen)
      BY <3>1, <3>2, CountedEffect
    <3> QED BY <2>2, <2>7, <3>1, <3>3
  <2>9. ASSUME NEW e \in DOMAIN Key, Commit(s, e)
        PROVE  AllExplained'
    <3>1. PICK delta : delta = Transaction(World(q.history), e, q.command.audit)
      OBVIOUS
    <3>2. PICK c : c = [event |-> e, audit |-> q.command.audit, strict |-> q.command.strict,
                        delta |-> delta, world |-> After(World(q.history), delta)]
      OBVIOUS
    <3>3. PICK h : h = Append(q.history, c)
      OBVIOUS
    <3>4. disk' = [disk EXCEPT ![q.command.branch] = <<h>>]
      BY <2>2, <2>9, <3>1, <3>2, <3>3, Zenon DEF Commit
    <3>5. PICK r : proc' = [proc EXCEPT ![s] = r] /\ r.pc = "mark" /\ r.history = h
      <4>1. PICK c2, r : /\ disk' = [disk EXCEPT ![q.command.branch] = <<Append(q.history, c2)>>]
                         /\ proc' = [proc EXCEPT ![s] = r] /\ r.pc = "mark"
                         /\ r.command = q.command /\ r.history = Append(q.history, c2)
        BY <2>2, <2>9, CommitEffect
      <4>2. q.command.branch \in Branches
        BY <2>2, <2>9, CommitEffect, RunningFields DEF EventsAssumption
      <4>3. disk'[q.command.branch] = <<h>> /\ disk'[q.command.branch] = <<Append(q.history, c2)>>
        BY <3>4, <4>1, <4>2 DEF AllExplained
      <4>4. PICK last : last = Append(q.history, c2)
        OBVIOUS
      <4>5. h = last
        BY <4>3, <4>4
      <4> QED BY <4>1, <4>4, <4>5
    <3>6. /\ q.pc = "next" /\ ~Refused(q.history, e, q.command)
      BY <2>2, <2>9 DEF Commit, Reads
    <3>7. Explained(q.history)
      BY <2>3, <3>6
    <3>8. Explained(h)
      <4>1. PICK command : command = q.command
        OBVIOUS
      <4> QED BY <3>1, <3>2, <3>3, <3>6, <3>7, <4>1, ExplainedAppend
    <3> QED BY <3>4, <3>5, <3>8, BranchChanges
  <2>10. CASE Mark(s)
    BY <2>2, <2>7, <2>10, MarkEffect DEF Mark
  <2>11. ASSUME NEW cut \in Cuts, MarkFails(s, cut)
         PROVE  AllExplained'
    BY <2>2, <2>7, <2>11, MarkFailsEffect DEF MarkFails
  <2>12. CASE Finish(s) \/ Crash(s)
    <3>1. UNCHANGED disk /\ proc' = [proc EXCEPT ![s] = Down]
      BY <2>12 DEF Finish, Crash
    <3> QED BY <3>1, MemoryChanges
  <2> QED BY <2>1, <2>4, <2>5, <2>6, <2>8, <2>9, <2>10, <2>11, <2>12
<1> QED BY <1>1, <1>2

LEMMA ExplainedSays ==
  ASSUME AllExplained
  PROVE  StrictWritesFollowReads
<1> SUFFICES ASSUME NEW b \in Branches, NEW i \in DOMAIN History(b)
             PROVE  LET c == History(b)[i]
                        w == c.delta.links[1]
                    IN  c.strict /\ w.relation = "modifies" /\ Typed(b, w.from, w.to) =>
                          \E j \in 1..(i - 1) : LET r == History(b)[j].delta.links[1] IN
                            r.relation = "reads" /\ r.from = w.from /\ r.to = w.to
  BY DEF StrictWritesFollowReads
<1>1. Explained(History(b))
  BY ExplainedEmpty DEF AllExplained, Boxed, History
<1>2. ReadComesFirst(History(b), i)
  BY <1>1 DEF Explained
<1> QED BY <1>2 DEF ReadComesFirst, Typed, Says, Relation

(* Under the rule that asks for it, a write that strict mode let into a    *)
(* branch has a read of the same file, by the same agent, before it in     *)
(* that branch: in whatever order files are ingested, by any number of     *)
(* processes, strictly or not, audit logs or graph logs, and whatever      *)
(* failed, crashed or was overwritten on the way.                          *)
THEOREM StrictWritesAreExplained ==
  ASSUME ReadBeforeWrite \in Rules, EventsAssumption
  PROVE  Spec => []StrictWritesFollowReads
<1>1. Init => ProcessesOK /\ AllExplained
  BY ProcessesInit, AllExplainedInit
<1>2. ProcessesOK /\ AllExplained /\ [Next]_vars => (ProcessesOK /\ AllExplained)'
  BY ProcessesStep, AllExplainedStep
<1>3. AllExplained => StrictWritesFollowReads
  BY ExplainedSays
<1> QED BY <1>1, <1>2, <1>3, PTL DEF Spec

-----------------------------------------------------------------------------
(* Counting the commits of a key.                                          *)

TimesStored(h, key) == Cardinality({i \in DOMAIN h : Key[h[i].event] = key})

LEMMA CopiesCount ==
  ASSUME NEW h, Told(h), NEW key
  PROVE  /\ IsFiniteSet({i \in DOMAIN h : Key[h[i].event] = key})
         /\ TimesStored(h, key) \in Nat
<1> DEFINE copies == {i \in DOMAIN h : Key[h[i].event] = key}
<1>1. DOMAIN h = 1..Len(h) /\ Len(h) \in Nat
  BY DEF Told
<1>2. IsFiniteSet(1..Len(h))
  BY <1>1, FS_Interval
<1>3. copies \in SUBSET (1..Len(h))
  BY <1>1
<1>4. IsFiniteSet(copies)
  BY <1>2, <1>3, FS_Subset
<1> QED BY <1>4, FS_CardinalityType DEF TimesStored

LEMMA CopiesNone ==
  ASSUME NEW key
  PROVE  TimesStored(<< >>, key) = 0
<1>1. {i \in DOMAIN << >> : Key[<< >>[i].event] = key} = {}
  OBVIOUS
<1> QED BY <1>1, FS_EmptySet DEF TimesStored

LEMMA CopiesAppend ==
  ASSUME NEW h, Told(h), NEW c, c.event \in DOMAIN Key, NEW key
  PROVE  /\ Told(Append(h, c))
         /\ TimesStored(Append(h, c), key)
              = TimesStored(h, key) + (IF Key[c.event] = key THEN 1 ELSE 0)
<1> DEFINE n == Len(h) + 1
           old == {i \in DOMAIN h : Key[h[i].event] = key}
           new == {i \in DOMAIN Append(h, c) : Key[Append(h, c)[i].event] = key}
<1>1. /\ h \in Seq(Range(h)) /\ Len(h) \in Nat /\ DOMAIN h = 1..Len(h)
      /\ \A i \in DOMAIN h : h[i].event \in DOMAIN Key
  BY DEF Told
<1>2. PICK g : g = Append(h, c)
  OBVIOUS
<1>3. /\ DOMAIN g = 1..n /\ g[n] = c /\ \A i \in 1..Len(h) : g[i] = h[i]
  <2>1. h \in Seq(Range(h) \cup {c})
    BY <1>1
  <2> QED BY <1>1, <1>2, <2>1
<1>4. Told(g)
  <2>1. g \in Seq(Range(h) \cup {c})
    BY <1>1, <1>2
  <2>2. \A i \in DOMAIN g : g[i] \in Range(g)
    BY DEF Range
  <2>3. Len(g) = n /\ n \in Nat
    BY <1>1, <1>3, <2>1
  <2>4. g = [i \in 1..n |-> g[i]]
    BY <1>3, <2>1
  <2>5. g \in [1..n -> Range(g)]
    BY <1>3, <2>2, <2>4
  <2>6. g \in Seq(Range(g))
    BY <2>3, <2>5
  <2>7. \A i \in DOMAIN g : g[i].event \in DOMAIN Key
    BY <1>1, <1>3
  <2> QED BY <2>6, <2>7 DEF Told
<1>5. IsFiniteSet(old) /\ Cardinality(old) \in Nat
  BY CopiesCount DEF TimesStored
<1>6. n \notin old
  BY <1>1
<1>7. new = IF Key[c.event] = key THEN old \cup {n} ELSE old
  BY <1>1, <1>2, <1>3
<1>8. Cardinality(old \cup {n}) = Cardinality(old) + 1
  BY <1>5, <1>6, FS_AddElement
<1>9. Cardinality(new) = Cardinality(old) + (IF Key[c.event] = key THEN 1 ELSE 0)
  <2> HIDE DEF old, new, n
  <2>1. CASE Key[c.event] = key
    BY <1>7, <1>8, <2>1
  <2>2. CASE Key[c.event] # key
    BY <1>5, <1>7, <2>2
  <2> QED BY <2>1, <2>2
<1> QED BY <1>2, <1>4, <1>9 DEF TimesStored

(* A commit of the key, wherever it stands, is a copy.                     *)
LEMMA CopyThere ==
  ASSUME NEW h, Told(h), NEW i \in DOMAIN h
  PROVE  TimesStored(h, Key[h[i].event]) > 0
<1> DEFINE copies == {j \in DOMAIN h : Key[h[j].event] = Key[h[i].event]}
<1>1. IsFiniteSet(copies) /\ i \in copies /\ Cardinality(copies) \in Nat
  BY CopiesCount DEF TimesStored
<1>2. Cardinality(copies) # 0
  BY <1>1, FS_EmptySet
<1> QED BY <1>1, <1>2 DEF TimesStored

LEMMA HistoryTold ==
  ASSUME DiskOK, NEW b \in Branches
  PROVE  Told(History(b)) /\ \A key : Copies(b, key) = TimesStored(History(b), key)
<1>1. Told(<< >>)
  BY DEF Told
<1> QED BY <1>1 DEF DiskOK, History, Copies, TimesStored

LEMMA CopiesNumber ==
  ASSUME DiskOK, NEW b \in Branches, NEW key
  PROVE  Copies(b, key) \in Nat
<1>1. Told(History(b)) /\ Copies(b, key) = TimesStored(History(b), key)
  BY HistoryTold
<1>2. TimesStored(History(b), key) \in Nat
  BY <1>1, CopiesCount
<1> QED BY <1>1, <1>2

-----------------------------------------------------------------------------
(* The branches under the steps of the process that knows them.            *)

Sound(q) == q # Down => KnowsBranch(q)

LEMMA EnsureBranchKeeps ==
  ASSUME EventsAssumption, ProcessesOK, DiskOK, NEW p \in Sessions, Sound(proc[p]), EnsureBranch(p)
  PROVE  /\ DiskOK' /\ \A b \in Branches : History(b)' = History(b)
         /\ Sound(proc[p])'
<1>1. PICK q : q = proc[p]
  OBVIOUS
<1>2. PICK b : b = q.command.branch
  OBVIOUS
<1>3. PICK history : history = IF q.history = << >> THEN << >> ELSE q.history[1]
  OBVIOUS
<1>4. PICK r : /\ proc' = [proc EXCEPT ![p] = r] /\ Running(r) /\ r.pc = "next"
               /\ r.command = q.command /\ r.history = history
  BY <1>1, <1>3, EnsureBranchEffect
<1>5. Running(q) /\ q.pc = "branch" /\ q # Down
  <2>1. Running(q)
    BY <1>1, EnsureBranchEffect
  <2> QED BY <1>1, <2>1, RunningFields DEF EnsureBranch
<1>6. b \in Branches
  BY <1>2, <1>5, RunningFields DEF EventsAssumption
<1>7. q.history = disk[b]
  BY <1>1, <1>2, <1>5 DEF Sound, KnowsBranch
<1>8. disk' = IF q.history = << >> THEN [disk EXCEPT ![b] = << << >> >>] ELSE disk
  BY <1>1, <1>2 DEF EnsureBranch
<1>9. proc'[p] = r
  BY <1>4 DEF ProcessesOK
<1>10. disk'[b] = <<history>> /\ Told(history) /\ history = History(b)
  <2>1. CASE q.history = << >>
    <3>1. Told(<< >>)
      BY DEF Told
    <3>2. disk'[b] = << << >> >>
      BY <1>6, <1>8, <2>1 DEF DiskOK
    <3> QED BY <1>3, <1>7, <2>1, <3>1, <3>2 DEF History
  <2>2. CASE q.history # << >>
    <3>1. disk' = disk
      BY <1>8, <2>2
    <3> QED BY <1>3, <1>6, <1>7, <2>2, <3>1 DEF History, DiskOK
  <2> QED BY <2>1, <2>2
<1>11. \A x \in Branches : x # b => disk'[x] = disk[x]
  BY <1>8 DEF DiskOK
<1>12. disk' = [x \in Branches |-> disk'[x]]
  BY <1>8 DEF DiskOK
<1>13. disk'[b][1] = history /\ disk'[b] # << >>
  BY <1>10
<1>14. DiskOK'
  BY <1>10, <1>11, <1>12, <1>13 DEF DiskOK
<1>15. \A x \in Branches : History(x)' = History(x)
  BY <1>10, <1>11, <1>13 DEF History
<1>16. Sound(proc[p])'
  <2>1. disk'[r.command.branch] = <<r.history>>
    BY <1>2, <1>4, <1>10
  <2> QED BY <1>4, <1>9, <2>1 DEF Sound, KnowsBranch
<1> QED BY <1>14, <1>15, <1>16

LEMMA CommitKeeps ==
  ASSUME EventsAssumption, ProcessesOK, DiskOK, NEW p \in Sessions, Sound(proc[p]),
         NEW e \in DOMAIN Key, Commit(p, e)
  PROVE  /\ DiskOK' /\ Sound(proc[p])'
         /\ Key[e] \notin proc[p].seen /\ Key[e] # Invalid /\ Key[e] \in Range(Key)
         /\ proc[p].pc = "next" /\ proc[p] # Down
         /\ proc'[p].pc = "mark" /\ proc'[p].seen = proc[p].seen
         /\ proc'[p].command.events[proc'[p].at] = e
         /\ proc'[p].command = proc[p].command /\ proc[p].command.branch \in Branches
         /\ \A b \in Branches : \A key :
              Copies(b, key)' = Copies(b, key)
                + (IF b = proc[p].command.branch /\ Key[e] = key THEN 1 ELSE 0)
<1>1. PICK q : q = proc[p]
  OBVIOUS
<1>2. PICK b : b = q.command.branch
  OBVIOUS
<1>3. PICK c, r : /\ c.event = e
                  /\ disk' = [disk EXCEPT ![b] = <<Append(q.history, c)>>]
                  /\ proc' = [proc EXCEPT ![p] = r] /\ Running(r) /\ r.pc = "mark"
                  /\ r.seen = q.seen /\ r.command = q.command
                  /\ r.history = Append(q.history, c) /\ r.at = q.at
  BY <1>1, <1>2, CommitEffect
<1>4. /\ Running(q) /\ q.command.events[q.at] = e
      /\ q # Down /\ q.pc = "next" /\ Key[e] \notin q.seen /\ Key[e] # Invalid
  <2>1. Running(q) /\ Reads(p, e) /\ Fresh(p, e)
    BY <1>1, CommitEffect DEF Commit
  <2> QED BY <1>1, <2>1, RunningFields DEF Reads, Fresh, Invalidates
<1>5. b \in Branches
  BY <1>2, <1>4, RunningFields DEF EventsAssumption
<1>6. disk[b] = <<q.history>>
  BY <1>1, <1>2, <1>4 DEF Sound, KnowsBranch
<1>7. q.history = History(b) /\ Told(q.history)
  BY <1>5, <1>6, HistoryTold DEF History
<1>8. PICK history : history = Append(q.history, c)
  OBVIOUS
<1>9. /\ Told(history)
      /\ \A key : TimesStored(history, key)
                    = TimesStored(q.history, key) + (IF Key[e] = key THEN 1 ELSE 0)
  <2>1. Told(q.history) /\ c.event = e /\ c.event \in DOMAIN Key
    BY <1>3, <1>7
  <2> QED BY <1>8, <2>1, CopiesAppend
<1>10. /\ disk' = [x \in Branches |-> disk'[x]] /\ disk'[b] = <<history>>
       /\ \A x \in Branches : x # b => disk'[x] = disk[x]
  BY <1>3, <1>5, <1>8 DEF DiskOK
<1>11. disk'[b][1] = history /\ disk'[b] # << >>
  BY <1>10
<1>12. DiskOK'
  BY <1>9, <1>10, <1>11 DEF DiskOK
<1>13. History(b)' = history /\ \A x \in Branches : x # b => History(x)' = History(x)
  BY <1>10, <1>11 DEF History
<1>14. proc'[p] = r
  BY <1>3 DEF ProcessesOK
<1>15. Sound(proc[p])'
  <2>1. disk'[r.command.branch] = <<r.history>>
    BY <1>2, <1>3, <1>8, <1>10
  <2>2. history # << >> /\ history[Len(history)].event = e
    BY <1>3, <1>7, <1>8 DEF Told
  <2>3. r.command.events[r.at] = e
    BY <1>3, <1>4
  <2> QED BY <1>3, <1>4, <1>8, <1>14, <2>1, <2>2, <2>3 DEF Sound, KnowsBranch
<1>16. ASSUME NEW x \in Branches, NEW key
       PROVE  Copies(x, key)' = Copies(x, key) + (IF x = b /\ Key[e] = key THEN 1 ELSE 0)
  <2>1. CASE x = b
    <3>1. Copies(b, key)' = TimesStored(history, key)
      BY <1>13 DEF Copies, TimesStored
    <3>2. Copies(b, key) = TimesStored(q.history, key)
      BY <1>7 DEF Copies, TimesStored
    <3> QED BY <1>9, <2>1, <3>1, <3>2
  <2>2. CASE x # b
    <3>1. Copies(x, key)' = Copies(x, key)
      BY <1>13, <2>2 DEF Copies
    <3>2. Copies(x, key) \in Nat
      BY CopiesNumber
    <3> QED BY <2>2, <3>1, <3>2
  <2> QED BY <2>1, <2>2
<1>17. Key[e] \in Range(Key)
  BY DEF Range
<1>18. /\ r.pc = "mark" /\ r.seen = q.seen /\ r.command = q.command
       /\ r.command.events[r.at] = e
  BY <1>3, <1>4
<1> QED BY <1>1, <1>2, <1>4, <1>5, <1>12, <1>14, <1>15, <1>16, <1>17, <1>18

-----------------------------------------------------------------------------
(* The index under an append, whole or cut off.                            *)

LEMMA IndexFields ==
  ASSUME IndexOK
  PROVE  /\ index = [keys |-> index.keys, tail |-> index.tail, last |-> index.last, broken |-> index.broken]
         /\ index.keys \in SUBSET (Range(Key) \ {Invalid})
         /\ index.tail \in {"clean", "source", "id", "hash", "whole"}
         /\ index.last \in Range(Key) \cup {Invalid} /\ index.broken \in BOOLEAN
         /\ Due \in {0, 1}
BY DEF IndexOK, Due

LEMMA AppendedIndex ==
  ASSUME IndexOK, NEW key \in Range(Key) \ {Invalid}, index' = Appended(index, key)
  PROVE  /\ IndexOK' /\ index'.keys \subseteq index.keys \cup {key} /\ index'.last = index.last
         /\ Due' = 0 /\ (Due = 0 => Known(key)')
         /\ \A k : Known(k) => Known(k)'
<1>1. PICK keys, tail, last, broken :
        /\ index = [keys |-> keys, tail |-> tail, last |-> last, broken |-> broken]
        /\ keys \in SUBSET (Range(Key) \ {Invalid}) /\ broken \in BOOLEAN
        /\ tail \in {"clean", "source", "id", "hash", "whole"} /\ last \in Range(Key) \cup {Invalid}
  BY IndexFields
<1>2. index.keys = keys /\ index.tail = tail /\ index.last = last /\ index.broken = broken
  BY <1>1
<1>3. PICK new : new = Appended(index, key)
  OBVIOUS
<1>4. CASE tail = "clean"
  <2>1. new = [keys |-> keys \cup {key}, tail |-> tail, last |-> last, broken |-> broken]
    BY <1>1, <1>2, <1>3, <1>4 DEF Appended
  <2>2. index' = new
    BY <1>3
  <2>3. /\ index'.keys = keys \cup {key} /\ index'.tail = "clean" /\ index'.last = last
        /\ index'.broken = broken
    BY <1>4, <2>1, <2>2
  <2>4. IndexOK'
    BY <1>1, <1>4, <2>1, <2>2 DEF IndexOK
  <2> QED BY <1>2, <1>4, <2>3, <2>4 DEF Due, Known, LoadedKeys
<1>5. CASE tail = "source"
  <2>1. new = [keys |-> keys, tail |-> "clean", last |-> last, broken |-> broken]
    BY <1>1, <1>2, <1>3, <1>5 DEF Appended
  <2>2. index' = new
    BY <1>3
  <2>3. /\ index'.keys = keys /\ index'.tail = "clean" /\ index'.last = last
        /\ index'.broken = broken
    BY <1>5, <2>1, <2>2
  <2>4. IndexOK'
    BY <1>1, <2>1, <2>2 DEF IndexOK
  <2> QED BY <1>1, <1>2, <1>5, <2>3, <2>4 DEF Due, Known, LoadedKeys
<1>6. CASE tail \notin {"clean", "source"}
  <2>0. PICK true : true = TRUE
    OBVIOUS
  <2>1. new = [keys |-> keys, tail |-> "clean", last |-> last, broken |-> true]
    <3>1. new = [index EXCEPT !.tail = "clean", !.broken = true]
      BY <1>2, <1>3, <1>6, <2>0 DEF Appended
    <3>2. PICK mid : mid = [index EXCEPT !.tail = "clean"]
      OBVIOUS
    <3>3. mid = [keys |-> keys, tail |-> "clean", last |-> last, broken |-> broken]
      BY <1>1, <3>2
    <3>4. [mid EXCEPT !.broken = true] = [keys |-> keys, tail |-> "clean", last |-> last, broken |-> true]
      BY <3>3
    <3> QED BY <3>1, <3>2, <3>4
  <2>2. index' = new
    BY <1>3
  <2>3. /\ index'.keys = keys /\ index'.tail = "clean" /\ index'.last = last
        /\ index'.broken = true
    <3>1. new.keys = keys /\ new.tail = "clean" /\ new.last = last /\ new.broken = true
      BY <2>1
    <3> QED BY <2>2, <3>1
  <2>4. true \in BOOLEAN
    BY <2>0
  <2>5. IndexOK'
    <3>1. index' = [keys |-> keys, tail |-> "clean", last |-> last, broken |-> true]
      BY <2>1, <2>2
    <3> QED BY <1>1, <2>4, <3>1 DEF IndexOK
  <2> QED BY <1>1, <1>2, <1>6, <2>0, <2>3, <2>5 DEF Due, Known, LoadedKeys
<1> QED BY <1>4, <1>5, <1>6

LEMMA CutIndex ==
  ASSUME IndexOK, NEW key \in Range(Key) \ {Invalid}, NEW cut \in {"source", "id", "hash", "whole"},
         index' = CutOff(index, key, cut)
  PROVE  /\ IndexOK' /\ index'.keys = index.keys /\ index'.last \in {index.last, key, Invalid}
         /\ Due' \in {0, 1}
         /\ \A k : Known(k) => Known(k)'
<1>1. PICK keys, tail, last, broken :
        /\ index = [keys |-> keys, tail |-> tail, last |-> last, broken |-> broken]
        /\ keys \in SUBSET (Range(Key) \ {Invalid}) /\ broken \in BOOLEAN
        /\ tail \in {"clean", "source", "id", "hash", "whole"} /\ last \in Range(Key) \cup {Invalid}
  BY IndexFields
<1>2. index.keys = keys /\ index.tail = tail /\ index.last = last /\ index.broken = broken
  BY <1>1
<1>3. PICK new : new = CutOff(index, key, cut)
  OBVIOUS
<1>4. PICK tail2, last2, broken2 :
        /\ index' = [keys |-> keys, tail |-> tail2, last |-> last2, broken |-> broken2]
        /\ \/ /\ tail \in {"clean", "source"} /\ tail2 = cut /\ last2 \in {key, Invalid}
              /\ broken2 = broken
           \/ /\ tail \notin {"clean", "source"} /\ tail2 = tail /\ last2 = last /\ broken2 = TRUE
  <2>1. CASE tail \in {"clean", "source"}
    <3>1. PICK last2 \in {key, Invalid} : new = [index EXCEPT !.tail = cut, !.last = last2]
      BY <1>2, <1>3, <2>1 DEF CutOff
    <3>2. PICK mid : mid = [index EXCEPT !.tail = cut]
      OBVIOUS
    <3>3. mid = [keys |-> keys, tail |-> cut, last |-> last, broken |-> broken]
      BY <1>1, <3>2
    <3>4. [mid EXCEPT !.last = last2] = [keys |-> keys, tail |-> cut, last |-> last2, broken |-> broken]
      BY <3>3
    <3>5. new = [keys |-> keys, tail |-> cut, last |-> last2, broken |-> broken]
      BY <3>1, <3>2, <3>4
    <3> QED BY <1>3, <2>1, <3>5
  <2>2. CASE tail \notin {"clean", "source"}
    <3>1. new = [index EXCEPT !.broken = TRUE]
      BY <1>2, <1>3, <2>2 DEF CutOff
    <3>2. new = [keys |-> keys, tail |-> tail, last |-> last, broken |-> TRUE]
      BY <1>1, <3>1
    <3> QED BY <1>3, <2>2, <3>2
  <2> QED BY <2>1, <2>2
<1>5. index'.keys = keys /\ index'.tail = tail2 /\ index'.last = last2 /\ index'.broken = broken2
  BY <1>4
<1>6. IndexOK'
  <2>1. /\ tail2 \in {"clean", "source", "id", "hash", "whole"} /\ broken2 \in BOOLEAN
        /\ last2 \in Range(Key) \cup {Invalid}
    BY <1>1, <1>4
  <2> QED BY <1>1, <1>4, <2>1 DEF IndexOK
<1>7. \A k : Known(k) => Known(k)'
  BY <1>1, <1>2, <1>4, <1>5 DEF Known, LoadedKeys
<1>8. Due' \in {0, 1}
  BY DEF Due
<1> QED BY <1>1, <1>2, <1>4, <1>5, <1>6, <1>7, <1>8

-----------------------------------------------------------------------------
(* The repeats under each kind of step.                                    *)

LEMMA MoreFaults ==
  ASSUME NEW f \in Nat, NEW g \in Nat, f <= g, NEW n \in Nat
  PROVE  (n <= 2 * f => n <= 2 * g) /\ (n <= 2 * f + 1 => n <= 2 * g + 1)
OBVIOUS

(* The step commits nothing and leaves the index alone.                    *)
LEMMA QuietRepeats ==
  ASSUME DiskOK, IndexOK, faults \in Nat, NEW q, RepeatsBounded(q), NEW r,
         UNCHANGED index, \A b \in Branches : History(b)' = History(b),
         faults' \in Nat, faults' >= faults, q.pc = "mark" => faults' = faults + 1,
         r.pc \in {"branch", "next", "mark"} =>
           /\ r.pc # "mark"
           /\ \/ q.pc \in {"branch", "next"} /\ r.seen = q.seen
              \/ q.pc = "index" /\ Loads(index) /\ r.seen = LoadedKeys(index)
  PROVE  RepeatsBounded(r)'
<1> SUFFICES ASSUME NEW b \in Branches, NEW key \in Range(Key)
             PROVE  /\ Copies(b, key)' + Due' <= 2 * faults' + (IF Known(key)' \/ Marks(r, key) THEN 1 ELSE 0)
                    /\ r.pc \in {"branch", "next", "mark"} /\ key \notin r.seen /\ ~Marks(r, key) =>
                         Copies(b, key)' + Due' <= 2 * faults'
  BY DEF RepeatsBounded, Marks
<1>1. PICK n \in Nat : n = Copies(b, key) /\ n = Copies(b, key)'
  <2>1. Copies(b, key) \in Nat
    BY CopiesNumber
  <2>2. Copies(b, key)' = Copies(b, key)
    BY DEF Copies
  <2> QED BY <2>1, <2>2
<1>2. PICK due \in {0, 1} : due = Due /\ due = Due'
  <2>1. Due \in {0, 1}
    BY DEF Due
  <2>2. Due' = Due
    BY DEF Due
  <2> QED BY <2>1, <2>2
<1>3. Known(key)' <=> Known(key)
  BY DEF Known, LoadedKeys
<1>4. /\ n + due <= 2 * faults + (IF Known(key) \/ Marks(q, key) THEN 1 ELSE 0)
      /\ q.pc \in {"branch", "next", "mark"} /\ key \notin q.seen /\ ~Marks(q, key) =>
           n + due <= 2 * faults
  BY <1>1, <1>2 DEF RepeatsBounded
<1>5. PICK f \in Nat, g \in Nat : f = faults /\ g = faults' /\ f <= g
  OBVIOUS
<1>6. /\ n + due <= 2 * f + (IF Known(key) \/ Marks(q, key) THEN 1 ELSE 0)
      /\ q.pc \in {"branch", "next", "mark"} /\ key \notin q.seen /\ ~Marks(q, key) =>
           n + due <= 2 * f
  BY <1>4, <1>5
<1>6a. n + due \in Nat
  OBVIOUS
<1>7. n + due <= 2 * g + (IF Known(key) \/ Marks(r, key) THEN 1 ELSE 0)
  <2>1. CASE Marks(q, key)
    <3>1. g = f + 1
      BY <1>5, <2>1 DEF Marks
    <3>2. n + due <= 2 * f + 1
      BY <1>6, <2>1
    <3> QED BY <3>1, <3>2
  <2>2. CASE ~Marks(q, key) /\ Known(key)
    <3>1. n + due <= 2 * f + 1
      BY <1>6, <2>2
    <3>2. n + due <= 2 * g + 1
      BY <1>5, <1>6a, <3>1, MoreFaults
    <3> QED BY <2>2, <3>2
  <2>3. CASE ~Marks(q, key) /\ ~Known(key)
    <3>1. n + due <= 2 * f
      BY <1>6, <2>3
    <3>2. n + due <= 2 * g
      BY <1>5, <1>6a, <3>1, MoreFaults
    <3> QED BY <3>2
  <2> QED BY <2>1, <2>2, <2>3
<1>8. ASSUME r.pc \in {"branch", "next", "mark"}, key \notin r.seen, ~Marks(r, key)
      PROVE  n + due <= 2 * g
  <2>1. ~Marks(q, key)
    BY <1>8 DEF Marks
  <2>2. n + due <= 2 * f
    <3>1. CASE q.pc \in {"branch", "next"} /\ r.seen = q.seen
      BY <1>6, <1>8, <2>1, <3>1
    <3>2. CASE q.pc = "index" /\ Loads(index) /\ r.seen = LoadedKeys(index)
      <4>1. ~Known(key)
        BY <1>8, <3>2 DEF Known, Loads
      <4> QED BY <1>6, <2>1, <4>1
    <3> QED BY <1>8, <3>1, <3>2
  <2> QED BY <1>5, <1>6a, <2>2, MoreFaults
<1> QED BY <1>1, <1>2, <1>3, <1>5, <1>7, <1>8

(* The event e is committed to the branch.                                 *)
Gains(e, branch) ==
  \A b \in Branches : \A key :
    Copies(b, key)' = Copies(b, key) + (IF b = branch /\ Key[e] = key THEN 1 ELSE 0)

(* A commit of an event that the process has not seen.                     *)
LEMMA CommitRepeats ==
  ASSUME DiskOK, IndexOK, faults \in Nat, NEW q, RepeatsBounded(q), NEW r, NEW e, NEW branch,
         UNCHANGED <<index, faults>>,
         Gains(e, branch), q.pc = "next", Key[e] \notin q.seen,
         r.pc = "mark", r.seen = q.seen, r.command.events[r.at] = e
  PROVE  RepeatsBounded(r)'
<1> SUFFICES ASSUME NEW b \in Branches, NEW key \in Range(Key)
             PROVE  /\ Copies(b, key)' + Due' <= 2 * faults' + (IF Known(key)' \/ Marks(r, key) THEN 1 ELSE 0)
                    /\ r.pc \in {"branch", "next", "mark"} /\ key \notin r.seen /\ ~Marks(r, key) =>
                         Copies(b, key)' + Due' <= 2 * faults'
  BY DEF RepeatsBounded, Marks
<1>1. PICK n \in Nat : n = Copies(b, key)
  BY CopiesNumber
<1>2. PICK due \in {0, 1} : due = Due /\ due = Due'
  <2>1. Due \in {0, 1}
    BY DEF Due
  <2>2. Due' = Due
    BY DEF Due
  <2> QED BY <2>1, <2>2
<1>3. Known(key)' <=> Known(key)
  BY DEF Known, LoadedKeys
<1>4. /\ n + due <= 2 * faults + (IF Known(key) THEN 1 ELSE 0)
      /\ key \notin q.seen => n + due <= 2 * faults
  BY <1>1, <1>2 DEF RepeatsBounded, Marks
<1>5. Marks(r, key) <=> key = Key[e]
  BY DEF Marks
<1>6. CASE key = Key[e]
  <2>1. n + due <= 2 * faults /\ Marks(r, key)
    BY <1>4, <1>5, <1>6
  <2>2. PICK m \in Nat : m = Copies(b, key)' /\ m <= n + 1
    BY <1>1 DEF Gains
  <2> QED BY <1>2, <2>1, <2>2
<1>7. CASE key # Key[e]
  <2>1. Copies(b, key)' = n
    BY <1>1, <1>7 DEF Gains
  <2>2. n + due <= 2 * faults' + (IF Known(key)' THEN 1 ELSE 0)
    BY <1>3, <1>4
  <2>3. key \notin r.seen => n + due <= 2 * faults'
    BY <1>4
  <2>4. ~Marks(r, key)
    BY <1>5, <1>7
  <2> QED BY <1>2, <2>1, <2>2, <2>3, <2>4
<1> QED BY <1>6, <1>7

(* The mark is written: the key is known from here, unless the line before *)
(* it was torn, which is then made up for.                                 *)
LEMMA MarkRepeats ==
  ASSUME DiskOK, IndexOK, faults \in Nat, NEW q, RepeatsBounded(q), NEW r, NEW k,
         UNCHANGED faults, \A b \in Branches : History(b)' = History(b),
         q.pc = "mark", Key[q.command.events[q.at]] = k,
         Due' = 0, Due = 0 => Known(k)', \A key : Known(key) => Known(key)',
         r.pc = "next", r.seen = q.seen \cup {k}
  PROVE  RepeatsBounded(r)'
<1> SUFFICES ASSUME NEW b \in Branches, NEW key \in Range(Key)
             PROVE  /\ Copies(b, key)' + Due' <= 2 * faults' + (IF Known(key)' \/ Marks(r, key) THEN 1 ELSE 0)
                    /\ r.pc \in {"branch", "next", "mark"} /\ key \notin r.seen /\ ~Marks(r, key) =>
                         Copies(b, key)' + Due' <= 2 * faults'
  BY DEF RepeatsBounded, Marks
<1>1. PICK n \in Nat : n = Copies(b, key) /\ n = Copies(b, key)'
  <2>1. Copies(b, key) \in Nat
    BY CopiesNumber
  <2>2. Copies(b, key)' = Copies(b, key)
    BY DEF Copies
  <2> QED BY <2>1, <2>2
<1>2. PICK due \in {0, 1} : due = Due
  BY DEF Due
<1>3. Marks(q, key) <=> key = k
  BY DEF Marks
<1>4. /\ n + due <= 2 * faults + (IF Known(key) \/ key = k THEN 1 ELSE 0)
      /\ key \notin q.seen /\ key # k => n + due <= 2 * faults
  BY <1>1, <1>2, <1>3 DEF RepeatsBounded
<1>5. n <= 2 * faults + (IF Known(key)' THEN 1 ELSE 0)
  <2>1. CASE Known(key)
    <3>1. Known(key)'
      BY <2>1
    <3>2. n + due <= 2 * faults + 1
      BY <1>4
    <3> QED BY <3>1, <3>2
  <2>2. CASE ~Known(key) /\ key = k /\ due = 0
    <3>1. Known(key)'
      BY <1>2, <2>2
    <3>2. n + due <= 2 * faults + 1
      BY <1>4
    <3> QED BY <3>1, <3>2
  <2>3. CASE key = k /\ due = 1
    BY <1>4, <2>3
  <2>4. CASE ~Known(key) /\ key # k
    BY <1>4, <2>4
  <2> QED BY <2>1, <2>2, <2>3, <2>4
<1>6. key \notin r.seen => n <= 2 * faults
  BY <1>4
<1>7. ~Marks(r, key)
  BY DEF Marks
<1> QED BY <1>1, <1>5, <1>6, <1>7

(* The mark is cut off: the failure accounts for the key, and for the one  *)
(* that a torn line may take with it.                                      *)
LEMMA CutRepeats ==
  ASSUME DiskOK, IndexOK, faults \in Nat, NEW q, RepeatsBounded(q), NEW r,
         faults' = faults + 1, \A b \in Branches : History(b)' = History(b),
         Due' \in {0, 1}, r.pc \in {"next", "down"}
  PROVE  RepeatsBounded(r)'
<1> SUFFICES ASSUME NEW b \in Branches, NEW key \in Range(Key)
             PROVE  /\ Copies(b, key)' + Due' <= 2 * faults' + (IF Known(key)' \/ Marks(r, key) THEN 1 ELSE 0)
                    /\ r.pc \in {"branch", "next", "mark"} /\ key \notin r.seen /\ ~Marks(r, key) =>
                         Copies(b, key)' + Due' <= 2 * faults'
  BY DEF RepeatsBounded, Marks
<1>1. PICK n \in Nat : n = Copies(b, key) /\ n = Copies(b, key)'
  <2>1. Copies(b, key) \in Nat
    BY CopiesNumber
  <2>2. Copies(b, key)' = Copies(b, key)
    BY DEF Copies
  <2> QED BY <2>1, <2>2
<1>2. PICK due \in {0, 1} : due = Due
  BY DEF Due
<1>3. n + due <= 2 * faults + 1
  <2>1. n + due <= 2 * faults + (IF Known(key) \/ Marks(q, key) THEN 1 ELSE 0)
    BY <1>1, <1>2 DEF RepeatsBounded
  <2>2. CASE Known(key) \/ Marks(q, key)
    BY <2>1, <2>2
  <2>3. CASE ~(Known(key) \/ Marks(q, key))
    BY <2>1, <2>3
  <2> QED BY <2>2, <2>3
<1>4. n + Due' <= 2 * faults'
  <2>1. PICK later \in {0, 1} : later = Due'
    OBVIOUS
  <2>2. n + later <= 2 * (faults + 1)
    BY <1>3
  <2> QED BY <2>1, <2>2
<1> QED BY <1>1, <1>4

-----------------------------------------------------------------------------
(* The invariant of one process.                                           *)

LEMMA AloneInit ==
  ASSUME Init, NEW p \in Sessions
  PROVE  AloneInv(p)
<1>1. ProcessesOK /\ proc[p] = Down /\ faults = 0
  BY DEF Init, ProcessesOK
<1>2. DiskOK
  BY DEF Init, DiskOK
<1>3. index = [keys |-> {}, tail |-> "clean", last |-> Invalid, broken |-> FALSE]
  BY DEF Init, EmptyIndex
<1>4. PICK false \in BOOLEAN : index = [keys |-> {}, tail |-> "clean", last |-> Invalid, broken |-> false]
  BY <1>3
<1>5. IndexOK
  BY <1>4 DEF IndexOK
<1>6. index.keys = {} /\ index.tail = "clean" /\ index.last = Invalid
  BY <1>4
<1>7. IndexStored
  BY <1>6 DEF IndexStored
<1>8. RepeatsBounded(proc[p])
  <2> SUFFICES ASSUME NEW b \in Branches, NEW key \in Range(Key)
               PROVE  /\ Copies(b, key) + Due <= 2 * faults + (IF Known(key) \/ Marks(proc[p], key) THEN 1 ELSE 0)
                      /\ ~(proc[p].pc \in {"branch", "next", "mark"})
    BY DEF RepeatsBounded
  <2>1. Copies(b, key) = 0
    <3>1. History(b) = << >>
      BY DEF Init, History
    <3> QED BY <1>2, <3>1, HistoryTold, CopiesNone
  <2>2. Due = 0
    BY <1>6 DEF Due
  <2> QED BY <1>1, <2>1, <2>2 DEF Down
<1> QED BY <1>1, <1>2, <1>5, <1>7, <1>8 DEF AloneInv

LEMMA StoredStays ==
  ASSUME DiskOK, \A b \in Branches : \A key : Copies(b, key)' = Copies(b, key) \/ Copies(b, key)' = Copies(b, key) + 1,
         NEW key, Stored(key)
  PROVE  Stored(key)'
<1>1. PICK b \in Branches : Copies(b, key) > 0
  BY DEF Stored
<1>2. Copies(b, key) \in Nat
  BY CopiesNumber
<1>3. Copies(b, key)' > 0
  BY <1>1, <1>2
<1> QED BY <1>3 DEF Stored

(* What a step of the process does, by what it does to the branches and to *)
(* the index.                                                              *)
QuietStep(p) ==
  /\ UNCHANGED index /\ \A b \in Branches : History(b)' = History(b)
  /\ faults' \in Nat /\ faults' >= faults /\ (proc[p].pc = "mark" => faults' = faults + 1)
  /\ proc'[p].pc \in {"branch", "next", "mark"} =>
       /\ proc'[p].pc # "mark"
       /\ \/ proc[p].pc \in {"branch", "next"} /\ proc'[p].seen = proc[p].seen
          \/ proc[p].pc = "index" /\ Loads(index) /\ proc'[p].seen = LoadedKeys(index)

CutStep(p) ==
  /\ UNCHANGED disk /\ faults' = faults + 1 /\ proc[p].pc = "mark"
  /\ \E cut \in Cuts : index' = CutOff(index, Key[Marking(p)], cut)
  /\ proc'[p].pc \in {"next", "down"}

LEMMA QuietKeeps ==
  ASSUME NEW p \in Sessions, AloneInv(p), ProcessesOK', DiskOK', Sound(proc[p])', QuietStep(p)
  PROVE  AloneInv(p)'
<1>1. IndexOK'
  BY DEF AloneInv, QuietStep, IndexOK
<1>2. \A b \in Branches : \A key : Copies(b, key)' = Copies(b, key)
  BY DEF QuietStep, Copies
<1>3. IndexStored'
  <2>1. \A key : Stored(key) => Stored(key)'
    BY <1>2, StoredStays DEF AloneInv
  <2> QED BY <2>1 DEF AloneInv, IndexStored, QuietStep
<1>4. PICK q, r : q = proc[p] /\ r = proc'[p]
  OBVIOUS
<1>5. RepeatsBounded(r)'
  <2>1. DiskOK /\ IndexOK /\ faults \in Nat /\ RepeatsBounded(q)
    BY <1>4 DEF AloneInv
  <2>2. /\ UNCHANGED index /\ \A b \in Branches : History(b)' = History(b)
        /\ faults' \in Nat /\ faults' >= faults /\ (q.pc = "mark" => faults' = faults + 1)
        /\ r.pc \in {"branch", "next", "mark"} =>
             /\ r.pc # "mark"
             /\ \/ q.pc \in {"branch", "next"} /\ r.seen = q.seen
                \/ q.pc = "index" /\ Loads(index) /\ r.seen = LoadedKeys(index)
    BY <1>4 DEF QuietStep
  <2> QED BY <2>1, <2>2, QuietRepeats
<1>6. RepeatsBounded(proc[p])'
  BY <1>4, <1>5 DEF RepeatsBounded, Marks
<1>7. faults' \in Nat
  BY DEF QuietStep
<1> QED BY <1>1, <1>3, <1>6, <1>7 DEF AloneInv, Sound

LEMMA CommitKeepsAlone ==
  ASSUME EventsAssumption, NEW p \in Sessions, AloneInv(p), ProcessesOK',
         NEW e \in DOMAIN Key, Commit(p, e)
  PROVE  AloneInv(p)'
<1>1. ProcessesOK /\ DiskOK /\ IndexOK /\ faults \in Nat /\ Sound(proc[p]) /\ RepeatsBounded(proc[p])
  BY DEF AloneInv, Sound
<1>2. PICK q, r, branch : q = proc[p] /\ r = proc'[p] /\ branch = proc[p].command.branch
  OBVIOUS
<1>3. /\ DiskOK' /\ Sound(proc[p])'
      /\ Key[e] \notin q.seen /\ q.pc = "next"
      /\ r.pc = "mark" /\ r.seen = q.seen /\ r.command.events[r.at] = e
      /\ \A b \in Branches : \A key :
           Copies(b, key)' = Copies(b, key) + (IF b = branch /\ Key[e] = key THEN 1 ELSE 0)
  BY <1>1, <1>2, CommitKeeps
<1>4. UNCHANGED <<index, faults>>
  BY DEF Commit
<1>5. IndexOK' /\ faults' \in Nat
  BY <1>1, <1>4 DEF IndexOK
<1>6. RepeatsBounded(r)'
  <2>1. RepeatsBounded(q)
    BY <1>1, <1>2
  <2>2. DiskOK /\ IndexOK /\ faults \in Nat
    BY <1>1
  <2>3. /\ Key[e] \notin q.seen /\ q.pc = "next"
        /\ r.pc = "mark" /\ r.seen = q.seen /\ r.command.events[r.at] = e
    BY <1>3
  <2>4. \A b \in Branches : \A key :
          Copies(b, key)' = Copies(b, key) + (IF b = branch /\ Key[e] = key THEN 1 ELSE 0)
    BY <1>3
  <2>5. Gains(e, branch)
    BY <2>4 DEF Gains
  <2> QED BY <1>4, <2>1, <2>2, <2>3, <2>5, CommitRepeats
<1>7. RepeatsBounded(proc[p])'
  BY <1>2, <1>6 DEF RepeatsBounded, Marks
<1>8. IndexStored'
  <2>1. ASSUME NEW b \in Branches, NEW key
        PROVE  Copies(b, key)' = Copies(b, key) \/ Copies(b, key)' = Copies(b, key) + 1
    <3>1. Copies(b, key) \in Nat
      BY <1>1, CopiesNumber
    <3> QED BY <1>3, <3>1
  <2>2. \A key : Stored(key) => Stored(key)'
    BY <1>1, <2>1, StoredStays
  <2> QED BY <1>4, <2>2 DEF AloneInv, IndexStored
<1> QED BY <1>3, <1>5, <1>7, <1>8 DEF AloneInv, Sound

(* The key that is about to be marked is that of the last commit.          *)
LEMMA MarkingIsStored ==
  ASSUME EventsAssumption, NEW p \in Sessions, AloneInv(p), proc[p].pc = "mark"
  PROVE  /\ Key[Marking(p)] \in Range(Key) \ {Invalid}
         /\ Stored(Key[Marking(p)])
<1>1. PICK q : q = proc[p]
  OBVIOUS
<1>2. q # Down
  BY <1>1 DEF Down
<1>3. Running(q) /\ KnowsBranch(q)
  BY <1>1, <1>2 DEF AloneInv, ProcessesOK
<1>4. PICK b : b = q.command.branch
  OBVIOUS
<1>5. /\ q.command \in Commands /\ q.at \in DOMAIN q.command.events
  BY <1>1, <1>3, RunningFields DEF Running
<1>6. b \in Branches /\ q.command.events[q.at] \in DOMAIN Key
  BY <1>4, <1>5 DEF EventsAssumption, Range
<1>7. PICK h : h = q.history
  OBVIOUS
<1>8. /\ disk[b] = <<h>> /\ h # << >> /\ h[Len(h)].event = q.command.events[q.at]
      /\ Key[q.command.events[q.at]] # Invalid
  BY <1>1, <1>3, <1>4, <1>7 DEF KnowsBranch
<1>9. History(b) = h
  BY <1>8 DEF History
<1>10. Told(h) /\ \A key : Copies(b, key) = TimesStored(h, key)
  BY <1>6, <1>9, HistoryTold DEF AloneInv
<1>11. Len(h) \in DOMAIN h
  BY <1>8, <1>10 DEF Told
<1>12. TimesStored(h, Key[h[Len(h)].event]) > 0
  BY <1>10, <1>11, CopyThere
<1>13. Marking(p) = q.command.events[q.at]
  BY <1>1 DEF Marking
<1>14. Stored(Key[Marking(p)])
  BY <1>6, <1>8, <1>10, <1>12, <1>13 DEF Stored
<1>15. Key[Marking(p)] \in Range(Key) \ {Invalid}
  BY <1>6, <1>8, <1>13 DEF Range
<1> QED BY <1>14, <1>15

LEMMA MarkKeeps ==
  ASSUME EventsAssumption, NEW p \in Sessions, AloneInv(p), ProcessesOK', Mark(p)
  PROVE  AloneInv(p)'
<1>1. PICK k : k = Key[Marking(p)]
  OBVIOUS
<1>2. /\ proc[p].pc = "mark" /\ index' = Appended(index, k) /\ UNCHANGED <<disk, faults>>
  BY <1>1 DEF Mark
<1>3. k \in Range(Key) \ {Invalid} /\ Stored(k)
  BY <1>1, <1>2, MarkingIsStored
<1>4. /\ ProcessesOK /\ DiskOK /\ IndexOK /\ IndexStored /\ faults \in Nat /\ RepeatsBounded(proc[p])
      /\ proc[p] # Down /\ KnowsBranch(proc[p])
  BY <1>2 DEF AloneInv, Down
<1>5. PICK q, r : q = proc[p] /\ r = proc'[p]
  OBVIOUS
<1>6. /\ Running(r) /\ r.pc = "next" /\ r.seen = q.seen \cup {k} /\ r.command = q.command
      /\ r.history = q.history
  <2>1. Counting(p, "accepted", proc[p].seen \cup {Key[Marking(p)]})
    BY <1>4, MarkEffect
  <2>2. PICK new : /\ proc' = [proc EXCEPT ![p] = new] /\ Running(new) /\ new.pc = "next"
                   /\ new.seen = proc[p].seen \cup {Key[Marking(p)]}
                   /\ new.command = proc[p].command /\ new.history = proc[p].history
    BY <2>1 DEF Counting
  <2>3. r = new
    BY <1>4, <1>5, <2>2 DEF ProcessesOK
  <2> QED BY <1>1, <1>5, <2>2, <2>3
<1>7. DiskOK' /\ faults' \in Nat /\ \A b \in Branches : History(b)' = History(b)
  BY <1>2, <1>4 DEF DiskOK, History
<1>8. Sound(proc[p])'
  BY <1>2, <1>4, <1>5, <1>6 DEF Sound, KnowsBranch
<1>9. /\ IndexOK' /\ index'.keys \subseteq index.keys \cup {k} /\ index'.last = index.last
      /\ Due' = 0 /\ (Due = 0 => Known(k)') /\ \A key : Known(key) => Known(key)'
  BY <1>2, <1>3, <1>4, AppendedIndex
<1>10. IndexStored'
  <2>1. \A key : Stored(key)' <=> Stored(key)
    BY <1>7 DEF Stored, Copies
  <2> QED BY <1>3, <1>4, <1>9, <2>1 DEF IndexStored
<1>11. RepeatsBounded(r)'
  <2>1. RepeatsBounded(q)
    BY <1>4, <1>5
  <2>2. q.pc = "mark" /\ Key[q.command.events[q.at]] = k
    BY <1>1, <1>2, <1>5 DEF Marking
  <2> QED BY <1>2, <1>4, <1>6, <1>7, <1>9, <2>1, <2>2, MarkRepeats
<1>12. RepeatsBounded(proc[p])'
  BY <1>5, <1>11 DEF RepeatsBounded, Marks
<1> QED BY <1>7, <1>8, <1>9, <1>10, <1>12 DEF AloneInv, Sound

LEMMA CutKeeps ==
  ASSUME EventsAssumption, CutsAssumption, NEW p \in Sessions, AloneInv(p), ProcessesOK',
         Sound(proc[p])', CutStep(p)
  PROVE  AloneInv(p)'
<1>1. PICK k : k = Key[Marking(p)]
  OBVIOUS
<1>2. PICK cut \in Cuts : /\ proc[p].pc = "mark" /\ index' = CutOff(index, k, cut)
                          /\ UNCHANGED disk /\ faults' = faults + 1
  BY <1>1 DEF CutStep
<1>3. k \in Range(Key) \ {Invalid} /\ Stored(k)
  BY <1>1, <1>2, MarkingIsStored
<1>4. /\ DiskOK /\ IndexOK /\ IndexStored /\ faults \in Nat /\ RepeatsBounded(proc[p])
  BY DEF AloneInv
<1>5. PICK q, r : q = proc[p] /\ r = proc'[p]
  OBVIOUS
<1>7. DiskOK' /\ faults' \in Nat /\ \A b \in Branches : History(b)' = History(b)
  BY <1>2, <1>4 DEF DiskOK, History
<1>9. /\ IndexOK' /\ index'.keys = index.keys /\ index'.last \in {index.last, k, Invalid}
      /\ Due' \in {0, 1}
  <2>1. cut \in {"source", "id", "hash", "whole"}
    BY DEF CutsAssumption
  <2> QED BY <1>2, <1>3, <1>4, <2>1, CutIndex
<1>10. IndexStored'
  <2>1. \A key : Stored(key)' <=> Stored(key)
    BY <1>7 DEF Stored, Copies
  <2> QED BY <1>3, <1>4, <1>9, <2>1 DEF IndexStored
<1>11. RepeatsBounded(r)'
  <2>1. RepeatsBounded(q) /\ r.pc \in {"next", "down"}
    BY <1>4, <1>5 DEF CutStep
  <2> QED BY <1>2, <1>4, <1>7, <1>9, <2>1, CutRepeats
<1>12. RepeatsBounded(proc[p])'
  BY <1>5, <1>11 DEF RepeatsBounded, Marks
<1> QED BY <1>7, <1>9, <1>10, <1>12 DEF AloneInv, Sound

(* A step that leaves the branches alone, and the process knowing what it  *)
(* knew, or nothing.                                                       *)
LEMMA KnowsStill ==
  ASSUME NEW p \in Sessions, Sound(proc[p]), proc[p] # Down, UNCHANGED disk,
         \/ proc'[p] = Down
         \/ /\ proc'[p].command = proc[p].command /\ proc'[p].history = proc[p].history
            /\ \/ proc[p].pc = "index" /\ proc'[p].pc = "branch"
               \/ proc[p].pc \in {"next", "mark"} /\ proc'[p].pc = "next"
  PROVE  Sound(proc[p])'
BY DEF Sound, KnowsBranch

LEMMA AloneStep ==
  ASSUME EventsAssumption, CutsAssumption, NEW p, Sessions = {p}, AloneInv(p), [Next]_vars
  PROVE  AloneInv(p)'
<1>1. ProcessesOK' /\ p \in Sessions
  BY ProcessesStep DEF AloneInv
<1>2. ProcessesOK /\ DiskOK /\ faults \in Nat /\ Sound(proc[p])
  BY DEF AloneInv, Sound
<1>3. CASE UNCHANGED vars
  <2>1. UNCHANGED <<disk, index, proc, faults>>
    BY <1>3 DEF vars
  <2>2. DiskOK' /\ IndexOK' /\ \A b \in Branches : History(b)' = History(b)
    BY <1>2, <2>1 DEF AloneInv, DiskOK, IndexOK, History
  <2>3. \A b \in Branches : \A key : Copies(b, key)' = Copies(b, key)
    BY <2>2 DEF Copies
  <2>4. IndexStored'
    BY <2>1, <2>3 DEF AloneInv, IndexStored, Stored
  <2>5. Due' = Due /\ \A key : Known(key)' <=> Known(key)
    BY <2>1 DEF Due, Known, LoadedKeys
  <2>6. RepeatsBounded(proc[p])'
    BY <2>1, <2>3, <2>5 DEF AloneInv, RepeatsBounded, Marks
  <2>7. Sound(proc[p])'
    BY <1>2, <2>1 DEF Sound, KnowsBranch
  <2> QED BY <1>1, <1>2, <2>1, <2>2, <2>4, <2>6, <2>7 DEF AloneInv, Sound
<1>4. CASE Next
  <2>1. \/ \E command \in Commands : Start(p, command)
        \/ LoadIndex(p)
        \/ EnsureBranch(p)
        \/ \E e \in DOMAIN Key : Fail(p, e)
        \/ \E e \in DOMAIN Key : Skip(p, e)
        \/ \E e \in DOMAIN Key : Reject(p, e)
        \/ \E e \in DOMAIN Key : Commit(p, e)
        \/ \E e \in DOMAIN Key : CommitLocked(p, e)
        \/ Mark(p)
        \/ \E cut \in Cuts : MarkFails(p, cut)
        \/ Finish(p)
        \/ Crash(p)
    BY <1>4, Steps
  <2>2. ASSUME NEW command \in Commands, Start(p, command)
        PROVE  AloneInv(p)'
    <3>1. PICK r : /\ proc' = [proc EXCEPT ![p] = r] /\ Running(r)
                   /\ r.pc = "index" /\ r.command = command /\ r.history = disk[command.branch]
      BY <1>1, <2>2, StartEffect
    <3>2. proc'[p] = r /\ proc[p].pc = "down"
      BY <1>1, <1>2, <2>2, <3>1 DEF ProcessesOK, Start
    <3>3. UNCHANGED <<disk, index, faults>>
      BY <2>2 DEF Start
    <3>4. DiskOK' /\ QuietStep(p)
      BY <1>2, <3>1, <3>2, <3>3 DEF QuietStep, DiskOK, History
    <3>5. Sound(proc[p])'
      BY <3>1, <3>2, <3>3 DEF Sound, KnowsBranch
    <3> QED BY <1>1, <3>4, <3>5, QuietKeeps
  <2>3. ASSUME LoadIndex(p)
        PROVE  AloneInv(p)'
    <3>1. UNCHANGED <<disk, index, faults>> /\ proc[p].pc = "index" /\ proc[p] # Down
      BY <2>3 DEF LoadIndex, Down
    <3>2. \/ proc'[p] = Down
          \/ /\ Loads(index) /\ proc'[p].pc = "branch" /\ proc'[p].seen = LoadedKeys(index)
             /\ proc'[p].command = proc[p].command /\ proc'[p].history = proc[p].history
      <4>1. \/ proc' = [proc EXCEPT ![p] = Down]
            \/ \E r : /\ Loads(index) /\ proc' = [proc EXCEPT ![p] = r]
                      /\ r.pc = "branch" /\ r.command = proc[p].command
                      /\ r.seen = LoadedKeys(index) /\ r.history = proc[p].history
        BY <1>1, <1>2, <2>3, LoadIndexEffect
      <4> QED BY <1>1, <1>2, <4>1 DEF ProcessesOK
    <3>3. DiskOK' /\ QuietStep(p)
      BY <1>2, <3>1, <3>2 DEF QuietStep, DiskOK, History, Down
    <3>4. Sound(proc[p])'
      BY <1>1, <1>2, <3>1, <3>2, KnowsStill
    <3> QED BY <1>1, <3>3, <3>4, QuietKeeps
  <2>4. ASSUME EnsureBranch(p)
        PROVE  AloneInv(p)'
    <3>1. UNCHANGED <<index, faults>> /\ proc[p].pc = "branch"
      BY <2>4 DEF EnsureBranch
    <3>2. DiskOK' /\ Sound(proc[p])' /\ \A b \in Branches : History(b)' = History(b)
      BY <1>1, <1>2, <2>4, EnsureBranchKeeps
    <3>3. proc'[p].pc = "next" /\ proc'[p].seen = proc[p].seen
      <4>1. PICK r : proc' = [proc EXCEPT ![p] = r] /\ r.pc = "next" /\ r.seen = proc[p].seen
        BY <1>1, <1>2, <2>4, EnsureBranchEffect
      <4> QED BY <1>1, <1>2, <4>1 DEF ProcessesOK
    <3>4. QuietStep(p)
      BY <1>2, <3>1, <3>2, <3>3 DEF QuietStep
    <3> QED BY <1>1, <3>2, <3>4, QuietKeeps
  <2>5. ASSUME NEW e \in DOMAIN Key, Fail(p, e) \/ Skip(p, e) \/ Reject(p, e) \/ CommitLocked(p, e)
        PROVE  AloneInv(p)'
    <3>1. /\ UNCHANGED <<disk, index>> /\ proc[p].pc = "next" /\ proc[p] # Down
          /\ faults' = faults \/ faults' = faults + 1
      BY <2>5 DEF Fail, Skip, Reject, CommitLocked, Reads, Down
    <3>2. PICK result \in {"errors", "skipped", "rejected"} :
             proc' = [proc EXCEPT ![p] = Counted(p, result)]
      BY <2>5 DEF Fail, Skip, Reject, CommitLocked
    <3>3. Counting(p, result, proc[p].seen)
      BY <1>1, <1>2, <3>1, <3>2, CountedEffect
    <3>4. /\ proc'[p].pc = "next" /\ proc'[p].seen = proc[p].seen
          /\ proc'[p].command = proc[p].command /\ proc'[p].history = proc[p].history
      BY <1>1, <1>2, <3>3 DEF Counting, ProcessesOK
    <3>5. DiskOK' /\ QuietStep(p)
      BY <1>2, <3>1, <3>4 DEF QuietStep, DiskOK, History
    <3>6. Sound(proc[p])'
      BY <1>1, <1>2, <3>1, <3>4, KnowsStill
    <3> QED BY <1>1, <3>5, <3>6, QuietKeeps
  <2>6. ASSUME NEW e \in DOMAIN Key, Commit(p, e)
        PROVE  AloneInv(p)'
    BY <1>1, <2>6, CommitKeepsAlone
  <2>7. ASSUME Mark(p)
        PROVE  AloneInv(p)'
    BY <1>1, <2>7, MarkKeeps
  <2>8. ASSUME NEW cut \in Cuts, MarkFails(p, cut)
        PROVE  AloneInv(p)'
    <3>1. /\ UNCHANGED disk /\ proc[p].pc = "mark" /\ proc[p] # Down /\ faults' = faults + 1
          /\ index' = CutOff(index, Key[Marking(p)], cut)
      BY <2>8 DEF MarkFails, Down
    <3>2. Counting(p, "errors", proc[p].seen)
      BY <1>1, <1>2, <2>8, MarkFailsEffect
    <3>3. /\ proc'[p].pc = "next"
          /\ proc'[p].command = proc[p].command /\ proc'[p].history = proc[p].history
      BY <1>1, <1>2, <3>2 DEF Counting, ProcessesOK
    <3>4. Sound(proc[p])'
      BY <1>1, <1>2, <3>1, <3>3, KnowsStill
    <3>5. CutStep(p)
      BY <3>1, <3>3 DEF CutStep
    <3> QED BY <1>1, <3>4, <3>5, CutKeeps
  <2>9. ASSUME Finish(p) \/ Crash(p)
        PROVE  AloneInv(p)'
    <3>1. /\ UNCHANGED disk /\ proc' = [proc EXCEPT ![p] = Down] /\ proc[p].pc # "down"
          /\ \/ UNCHANGED index /\ (faults' = faults + 1 \/ (proc[p].pc = "next" /\ UNCHANGED faults))
             \/ /\ proc[p].pc = "mark" /\ faults' = faults + 1
                /\ \E cut \in Cuts : index' = CutOff(index, Key[Marking(p)], cut)
      BY <2>9 DEF Finish, Crash
    <3>2. proc'[p] = Down /\ proc[p] # Down
      BY <1>1, <1>2, <3>1 DEF ProcessesOK, Down
    <3>3. Sound(proc[p])'
      BY <1>1, <1>2, <3>1, <3>2, KnowsStill
    <3>4. CASE UNCHANGED index /\ (faults' = faults + 1 \/ (proc[p].pc = "next" /\ UNCHANGED faults))
      <4>1. DiskOK' /\ QuietStep(p)
        BY <1>2, <3>1, <3>2, <3>4 DEF QuietStep, DiskOK, History, Down
      <4> QED BY <1>1, <3>3, <4>1, QuietKeeps
    <3>5. CASE /\ proc[p].pc = "mark" /\ faults' = faults + 1
               /\ \E cut \in Cuts : index' = CutOff(index, Key[Marking(p)], cut)
      <4>1. CutStep(p)
        BY <3>1, <3>2, <3>5 DEF CutStep, Down
      <4> QED BY <1>1, <3>3, <4>1, CutKeeps
    <3> QED BY <3>1, <3>4, <3>5
  <2> QED BY <2>1, <2>2, <2>3, <2>4, <2>5, <2>6, <2>7, <2>8, <2>9
<1> QED BY <1>3, <1>4

(* What the invariant of one process says.                                 *)
LEMMA AloneSays ==
  ASSUME NEW p \in Sessions, AloneInv(p)
  PROVE  SeenIsStored /\ TwiceOnlyAfterFaults
<1>1. SeenIsStored
  BY DEF AloneInv, IndexStored, SeenIsStored, LoadedKeys
<1>2. TwiceOnlyAfterFaults
  <2> SUFFICES ASSUME NEW b \in Branches, NEW i \in DOMAIN History(b)
               PROVE  Copies(b, Key[History(b)[i].event]) <= 1 + 2 * faults
    BY DEF TwiceOnlyAfterFaults
  <2>1. PICK key \in Range(Key) : key = Key[History(b)[i].event]
    <3>1. Told(History(b))
      BY HistoryTold DEF AloneInv
    <3>2. History(b)[i].event \in DOMAIN Key
      BY <3>1 DEF Told
    <3> QED BY <3>2 DEF Range
  <2>2. PICK n \in Nat : n = Copies(b, key)
    BY CopiesNumber DEF AloneInv
  <2>3. PICK due \in {0, 1} : due = Due
    BY DEF Due
  <2>4. n + due <= 2 * faults + 1 /\ faults \in Nat
    <3>1. n + due <= 2 * faults + (IF Known(key) \/ Marks(proc[p], key) THEN 1 ELSE 0)
      BY <2>2, <2>3 DEF AloneInv, RepeatsBounded
    <3>2. faults \in Nat
      BY DEF AloneInv
    <3>3. CASE Known(key) \/ Marks(proc[p], key)
      BY <3>1, <3>2, <3>3
    <3>4. CASE ~(Known(key) \/ Marks(proc[p], key))
      BY <3>1, <3>2, <3>4
    <3> QED BY <3>2, <3>3, <3>4
  <2> QED BY <2>1, <2>2, <2>4
<1> QED BY <1>1, <1>2

(* One process that ingests file after file, whatever fails or crashes on  *)
(* the way: a key on the index is that of a commit, and an event is        *)
(* ingested into a branch again only after a failure, twice for each.      *)
THEOREM IngestionByOne ==
  ASSUME EventsAssumption, CutsAssumption, NEW p, Sessions = {p}
  PROVE  Spec => [](SeenIsStored /\ TwiceOnlyAfterFaults)
<1>1. Init => AloneInv(p)
  BY AloneInit
<1>2. AloneInv(p) /\ [Next]_vars => AloneInv(p)'
  BY AloneStep
<1>3. AloneInv(p) => SeenIsStored /\ TwiceOnlyAfterFaults
  BY AloneSays
<1> QED BY <1>1, <1>2, <1>3, PTL DEF Spec

-----------------------------------------------------------------------------
(* The lines of events.                                                    *)

(* A value as a JSON reader gives it, and a line of such values.           *)
IsValue(v) ==
  /\ v = [kind |-> v.kind, text |-> v.text, number |-> v.number]
  /\ v.kind \in {"string", "unsigned", "negative", "nested", "null"}
IsLine(object) == \A n \in DOMAIN object : IsValue(object[n])

LEMMA LineStays ==
  ASSUME FieldsAssumption, IsLine(line), [AddField]_line
  PROVE  IsLine(line)'
<1>1. CASE UNCHANGED line
  BY <1>1 DEF IsLine
<1>2. CASE AddField
  <2>1. PICK f \in Fields :
          line' = [n \in DOMAIN line \cup {f[1]} |-> IF n = f[1] THEN f[2] ELSE line[n]]
    BY <1>2 DEF AddField
  <2>2. IsValue(f[2])
    BY DEF FieldsAssumption, IsValue
  <2>3. IsLine(line')
    BY <2>1, <2>2 DEF IsLine
  <2> QED BY <2>3 DEF IsLine
<1> QED BY <1>1, <1>2

(* Readers: the field of the least place.                                  *)
SaysText(object, n) == n \in DOMAIN object /\ object[n].kind = "string"

LEMMA SmallestPlace ==
  ASSUME NEW S, S \subseteq Nat, NEW i \in S, \A j \in S : i <= j
  PROVE  Earliest(S) = i
<1>1. PICK k : k = Earliest(S)
  OBVIOUS
<1>2. k \in S /\ \A j \in S : k <= j
  BY <1>1 DEF Earliest
<1>3. k <= i /\ i <= k /\ i \in Nat /\ k \in Nat
  BY <1>2
<1> QED BY <1>1, <1>3

LEMMA FieldIs ==
  ASSUME NEW object, NEW names, DOMAIN names \subseteq Nat, NEW i \in DOMAIN names,
         SaysText(object, names[i]), \A j \in DOMAIN names : j < i => ~SaysText(object, names[j])
  PROVE  StringField(object, names) = object[names[i]].text
<1>1. PICK S : S = Places(object, {"string"}, names)
  OBVIOUS
<1>2. \A j : j \in S <=> j \in DOMAIN names /\ SaysText(object, names[j])
  BY <1>1 DEF Places, SaysText
<1>3. \A j \in S : i <= j
  BY <1>2
<1>4. S \subseteq Nat /\ i \in S
  BY <1>2
<1>5. Earliest(S) = i
  BY <1>3, <1>4, SmallestPlace
<1>6. S # {}
  BY <1>4
<1> QED BY <1>1, <1>5, <1>6 DEF StringField

LEMMA FieldIsNot ==
  ASSUME NEW object, NEW names, \A j \in DOMAIN names : ~SaysText(object, names[j])
  PROVE  StringField(object, names) = ""
<1>1. Places(object, {"string"}, names) = {}
  BY DEF Places, SaysText
<1> QED BY <1>1 DEF StringField

LEMMA OneField ==
  ASSUME NEW object, NEW n
  PROVE  StringField(object, <<n>>) = IF SaysText(object, n) THEN object[n].text ELSE ""
<1>1. PICK names : names = <<n>>
  OBVIOUS
<1>2. DOMAIN names = {1} /\ names[1] = n
  BY <1>1
<1>3. CASE SaysText(object, n)
  <2>1. StringField(object, names) = object[names[1]].text
    BY <1>2, <1>3, FieldIs
  <2> QED BY <1>1, <1>2, <1>3, <2>1
<1>4. CASE ~SaysText(object, n)
  <2>1. StringField(object, names) = ""
    BY <1>2, <1>4, FieldIsNot
  <2> QED BY <1>1, <1>4, <2>1
<1> QED BY <1>3, <1>4

(* The source route: the event a line gives, and what its file gives back. *)
EventOf(id, source, kind, actor, subject, relation, observed, attributes) ==
  [id |-> id, source |-> source, kind |-> kind, actor |-> actor, subject |-> subject,
   relation |-> relation, observed |-> observed, attributes |-> attributes]

IsCanonical(e, object) ==
  /\ \E id, source, kind, actor, subject, relation, observed :
       e = EventOf(id, source, kind, actor, subject, relation, observed,
                   Attributes(object, SourceReserved))
  /\ ValidCanonical(e)

LEMMA CanonicalSays ==
  ASSUME NEW object, Canonical(object) # << >>
  PROVE  \E e : Canonical(object) = <<e>> /\ IsCanonical(e, object)
BY DEF Canonical, IsCanonical, EventOf

LEMMA JsonSays ==
  ASSUME NEW id, NEW source, NEW kind, NEW actor, NEW subject, NEW relation, NEW observed,
         NEW attributes,
         NEW e, e = EventOf(id, source, kind, actor, subject, relation, observed, attributes),
         ValidCanonical(e), RereadAll(attributes) = attributes
  PROVE  CanonicalFromJson(CanonicalJson(e), attributes) = <<e>>
<1>1. PICK json : json = CanonicalJson(e)
  OBVIOUS
<1>2. json = [id |-> String(id), source |-> String(source), kind |-> String(kind),
              actor |-> String(actor), subject |-> String(subject),
              relation |-> String(relation), observed_at_ms |-> Integer(observed)]
  BY <1>1 DEF CanonicalJson, EventOf
<1>3. \A t : String(t).kind = "string" /\ String(t).text = t
  BY DEF String
<1>4. /\ SaysText(json, "id") /\ json["id"].text = id
      /\ SaysText(json, "source") /\ json["source"].text = source
      /\ SaysText(json, "kind") /\ json["kind"].text = kind
      /\ SaysText(json, "actor") /\ json["actor"].text = actor
      /\ SaysText(json, "subject") /\ json["subject"].text = subject
      /\ SaysText(json, "relation") /\ json["relation"].text = relation
  BY <1>2, <1>3 DEF SaysText
<1>5. /\ StringField(json, <<"id">>) = id
      /\ StringField(json, <<"source">>) = source
      /\ StringField(json, <<"kind">>) = kind
      /\ StringField(json, <<"actor">>) = actor
      /\ StringField(json, <<"subject">>) = subject
      /\ StringField(json, <<"relation">>) = relation
  BY <1>4, OneField
<1>6. json["observed_at_ms"].number = observed
  BY <1>2 DEF Integer, Negative, Unsigned
<1>7. PICK f : f = EventOf(StringField(json, <<"id">>), StringField(json, <<"source">>),
                           StringField(json, <<"kind">>), StringField(json, <<"actor">>),
                           StringField(json, <<"subject">>),
                           StringField(json, <<"relation">>),
                           json["observed_at_ms"].number, RereadAll(attributes))
  OBVIOUS
<1>8. f = e
  BY <1>5, <1>6, <1>7
<1>9. CanonicalFromJson(json, attributes) = IF ValidCanonical(f) THEN <<f>> ELSE << >>
  BY <1>7 DEF CanonicalFromJson, EventOf
<1> QED BY <1>1, <1>8, <1>9

LEMMA AttributesAreReread ==
  ASSUME NEW object, IsLine(object), NEW dropped,
         NEW attributes, attributes = Attributes(object, dropped)
  PROVE  /\ RereadAll(attributes) = attributes
         /\ \A n \in DOMAIN attributes : IsValue(attributes[n])
<1>1. \A n \in DOMAIN attributes : n \in DOMAIN object /\ attributes[n] = object[n]
  BY DEF Attributes
<1>2. \A n \in DOMAIN attributes : IsValue(attributes[n])
  BY <1>1 DEF IsLine
<1>3. \A n \in DOMAIN attributes : Reread(attributes[n]) = attributes[n]
  BY <1>2 DEF IsValue, Reread
<1>4. attributes = [n \in DOMAIN attributes |-> attributes[n]]
  BY DEF Attributes
<1> QED BY <1>2, <1>3, <1>4 DEF RereadAll

LEMMA FileGivesBack ==
  ASSUME NEW object, IsLine(object), NEW e, IsCanonical(e, object)
  PROVE  CanonicalFromJson(CanonicalJson(e), e.attributes) = <<e>>
<1>1. PICK attributes : attributes = Attributes(object, SourceReserved)
  OBVIOUS
<1>2. PICK id, source, kind, actor, subject, relation, observed :
        e = EventOf(id, source, kind, actor, subject, relation, observed, attributes)
  BY <1>1 DEF IsCanonical
<1>3. RereadAll(attributes) = attributes
  BY <1>1, AttributesAreReread
<1>4. e.attributes = attributes
  BY <1>2 DEF EventOf
<1>5. ValidCanonical(e)
  BY DEF IsCanonical
<1>6. CanonicalFromJson(CanonicalJson(e), attributes) = <<e>>
  BY <1>2, <1>3, <1>5, JsonSays
<1> QED BY <1>4, <1>6

LEMMA RawIsEncoded ==
  ASSUME NEW object, IsLine(object)
  PROVE  \/ Canonical(object) = << >> /\ Raw(object) = << >>
            /\ ThroughCanonicalFile(object) = << >> /\ ThroughBothFiles(object) = << >>
         \/ \E e : /\ IsCanonical(e, object) /\ Canonical(object) = <<e>>
                   /\ Raw(object) = <<Encode(e)>>
                   /\ ThroughCanonicalFile(object) = <<Encode(e)>>
                   /\ ThroughBothFiles(object) = GraphFromJson(Encode(e))
<1>1. CASE Canonical(object) = << >>
  BY <1>1 DEF Raw, Then, ThroughCanonicalFile, ThroughBothFiles
<1>2. CASE Canonical(object) # << >>
  <2>1. PICK e : Canonical(object) = <<e>> /\ IsCanonical(e, object)
    BY <1>2, CanonicalSays
  <2>2. <<e>> # << >> /\ <<e>>[1] = e
    OBVIOUS
  <2>3. Raw(object) = <<Encode(e)>>
    BY <2>1, <2>2 DEF Raw, Then
  <2>4. CanonicalFromJson(CanonicalJson(e), e.attributes) = <<e>>
    BY <2>1, FileGivesBack
  <2>5. ThroughCanonicalFile(object) = <<Encode(e)>>
    BY <2>1, <2>2, <2>4 DEF ThroughCanonicalFile, Then
  <2>6. PICK g : g = Encode(e)
    OBVIOUS
  <2>7. <<g>> # << >> /\ <<g>>[1] = g
    OBVIOUS
  <2>8. ThroughBothFiles(object) = GraphFromJson(g)
    BY <2>5, <2>6, <2>7 DEF ThroughBothFiles, Then
  <2> QED BY <2>1, <2>3, <2>5, <2>6, <2>8
<1> QED BY <1>1, <1>2

(* The values a graph event carries, the line's own and the provenance, as *)
(* its file gives them back.                                               *)
LEMMA ExactIsReread ==
  /\ \A v : IsValue(v) => Reread(v) = Exact(v) /\ Exact(v).text = v.text
  /\ \A t : IsValue(String(t))
  /\ \A n : Reread(Int64(n)) = Exact(Int64(n))
<1>1. \A v : IsValue(v) => Reread(v) = Exact(v) /\ Exact(v).text = v.text
  BY DEF IsValue, Reread, Exact
<1>2. \A t : IsValue(String(t))
  BY DEF String, IsValue
<1>3. ASSUME NEW n
      PROVE  Reread(Int64(n)) = Exact(Int64(n))
  <2>1. PICK k, t, m : Integer(n) = [kind |-> k, text |-> t, number |-> m] /\ t = ToString(n) /\ m = n
    BY DEF Integer, Negative, Unsigned
  <2>2. Int64(n) = [kind |-> "int64", text |-> t, number |-> n]
    BY <2>1 DEF Int64
  <2>3. Reread(Int64(n)) = Integer(n)
    BY <2>2 DEF Reread
  <2>4. Exact(Int64(n)) = [kind |-> k, text |-> t, number |-> n]
    BY <2>1, <2>2 DEF Exact
  <2> QED BY <2>1, <2>3, <2>4
<1> QED BY <1>1, <1>2, <1>3

LEMMA EncodedAttributes ==
  ASSUME NEW object, IsLine(object), NEW e, IsCanonical(e, object),
         NEW attributes, attributes = Emplaced(Kept(e), Provenance(e))
  PROVE  /\ attributes = [n \in DOMAIN attributes |-> attributes[n]]
         /\ \A n \in DOMAIN attributes : Reread(attributes[n]) = Exact(attributes[n])
         /\ \A n \in DOMAIN object \ (SourceReserved \cup EncoderReserved) :
              object[n].kind \notin {"null", "nested"} =>
                n \in DOMAIN attributes /\ attributes[n] = object[n]
<1>1. e.attributes = Attributes(object, SourceReserved)
  BY DEF IsCanonical, EventOf
<1>2. PICK kept : kept = Kept(e)
  OBVIOUS
<1>3. /\ DOMAIN kept = DOMAIN e.attributes \ EncoderReserved
      /\ \A n \in DOMAIN kept : kept[n] = e.attributes[n]
  BY <1>2 DEF Kept
<1>4. \A n \in DOMAIN kept : n \in DOMAIN object /\ kept[n] = object[n]
  BY <1>1, <1>3 DEF Attributes
<1>5. PICK more : more = Provenance(e)
  OBVIOUS
<1>6. \A n \in DOMAIN more : Reread(more[n]) = Exact(more[n])
  <2>1. \E s, k, o : more = [canonical_source |-> String(s), canonical_kind |-> String(k),
                             observed_at_ms |-> Int64(o)]
    BY <1>5 DEF Provenance
  <2>2. \A n \in DOMAIN more : \E t : more[n] = String(t) \/ more[n] = Int64(t)
    BY <2>1
  <2> QED BY <2>2, ExactIsReread
<1>7. /\ DOMAIN attributes = DOMAIN kept \cup DOMAIN more
      /\ \A n \in DOMAIN attributes :
           attributes[n] = IF n \in DOMAIN kept THEN kept[n] ELSE more[n]
      /\ attributes = [n \in DOMAIN attributes |-> attributes[n]]
  BY <1>2, <1>5 DEF Emplaced
<1>8. \A n \in DOMAIN kept : Reread(kept[n]) = Exact(kept[n])
  BY <1>4, ExactIsReread DEF IsLine
<1>9. \A n \in DOMAIN attributes : Reread(attributes[n]) = Exact(attributes[n])
  BY <1>6, <1>7, <1>8
<1>10. ASSUME NEW n \in DOMAIN object \ (SourceReserved \cup EncoderReserved),
              object[n].kind \notin {"null", "nested"}
       PROVE  n \in DOMAIN attributes /\ attributes[n] = object[n]
  <2>1. n \in DOMAIN kept
    BY <1>1, <1>3, <1>10 DEF Attributes
  <2> QED BY <1>4, <1>7, <2>1
<1> QED BY <1>7, <1>9, <1>10

(* A graph event, up to the kind of the integers it carries.               *)
ExactGraph(g) ==
  [g EXCEPT !.attributes = [n \in DOMAIN g.attributes |-> Exact(g.attributes[n])]]

LEMMA ElseIsSomething ==
  ASSUME NEW value, NEW default, default # ""
  PROVE  Else(value, default) # "" /\ Else(Else(value, default), default) = Else(value, default)
BY DEF Else

LEMMA SetToItself ==
  ASSUME NEW g, g = [x \in DOMAIN g |-> g[x]], NEW k, NEW v, g[k] = v
  PROVE  [g EXCEPT ![k] = v] = g
OBVIOUS

LEMMA GraphFileGivesBack ==
  ASSUME NEW object, IsLine(object), NEW e, IsCanonical(e, object), NEW g, g = Encode(e)
  PROVE  GraphFromJson(g) = <<ExactGraph(g)>>
<1>1. PICK as : as = Emplaced(Kept(e), Provenance(e))
  OBVIOUS
<1>2. PICK ft, tt, ro, w :
        /\ ft = Else(StringAttribute(e, "actor_type"), "Entity")
        /\ tt = Else(StringAttribute(e, "subject_type"), "Entity")
        /\ ro = Else(StringAttribute(e, "role"), "Structural")
        /\ w = NumericAttribute(e, "weight", 1)
  OBVIOUS
<1>3. PICK id, so, fr, to, re :
        /\ id = e.id /\ so = e.source /\ fr = e.actor /\ to = e.subject /\ re = e.relation
  OBVIOUS
<1>4. g = [id |-> id, source |-> so, from |-> fr, to |-> to, relation |-> re, from_type |-> ft,
           to_type |-> tt, role |-> ro, weight |-> w, attributes |-> as]
  BY <1>1, <1>2, <1>3 DEF Encode, Encoded
<1>5. /\ ValidKey(id) /\ ValidKey(so) /\ fr # "" /\ to # "" /\ re # "" /\ so # ""
  BY <1>3 DEF IsCanonical, ValidCanonical, ValidKey
<1>6. /\ Else(so, "graph-log") = so
      /\ Else(ft, "Entity") = ft /\ Else(tt, "Entity") = tt
      /\ Else(ro, "Structural") = ro
  BY <1>2, <1>5, ElseIsSomething DEF Else
<1>7. PICK bs : bs = [n \in DOMAIN as |-> Exact(as[n])]
  OBVIOUS
<1>8. RereadAll(as) = bs
  BY <1>1, <1>7, EncodedAttributes DEF RereadAll
<1>9. PICK h : h = [id |-> id, source |-> so, from |-> fr, to |-> to, relation |-> re,
                    from_type |-> ft, to_type |-> tt, role |-> ro, weight |-> w, attributes |-> bs]
  OBVIOUS
<1>14. g.source = so /\ g.from_type = ft /\ g.to_type = tt /\ g.role = ro /\ g.attributes = as
  BY <1>4
<1>15. g = [x \in DOMAIN g |-> g[x]]
  BY <1>4
<1>16. /\ [g EXCEPT !["source"] = so] = g /\ [g EXCEPT !["from_type"] = ft] = g
       /\ [g EXCEPT !["to_type"] = tt] = g /\ [g EXCEPT !["role"] = ro] = g
  <2>1. g["source"] = so /\ g["from_type"] = ft /\ g["to_type"] = tt /\ g["role"] = ro
    BY <1>14
  <2>2. [g EXCEPT !["source"] = so] = g
    BY <1>15, <2>1, SetToItself
  <2>3. [g EXCEPT !["from_type"] = ft] = g
    BY <1>15, <2>1, SetToItself
  <2>4. [g EXCEPT !["to_type"] = tt] = g
    BY <1>15, <2>1, SetToItself
  <2>5. [g EXCEPT !["role"] = ro] = g
    BY <1>15, <2>1, SetToItself
  <2> QED BY <2>2, <2>3, <2>4, <2>5
<1>17. [g EXCEPT !["attributes"] = bs] = h
  BY <1>4, <1>9
<1>18. [[[[[g EXCEPT !["source"] = so] EXCEPT !["from_type"] = ft] EXCEPT !["to_type"] = tt]
         EXCEPT !["role"] = ro] EXCEPT !["attributes"] = bs] = h
  BY <1>16, <1>17
<1>10. [g EXCEPT !.source = Else(@, "graph-log"), !.from_type = Else(@, "Entity"),
                 !.to_type = Else(@, "Entity"), !.role = Else(@, "Structural"),
                 !.attributes = RereadAll(@)] = h
  BY <1>6, <1>8, <1>14, <1>18
<1>11. ValidGraph(h)
  BY <1>5, <1>9 DEF ValidGraph
<1>12. GraphFromJson(g) = <<h>>
  BY <1>10, <1>11 DEF GraphFromJson
<1>13. ExactGraph(g) = h
  <2>1. [g EXCEPT !.attributes = bs] = h
    BY <1>4, <1>9
  <2> QED BY <1>7, <1>14, <2>1 DEF ExactGraph
<1> QED BY <1>12, <1>13

LEMMA StagesDoAgree ==
  ASSUME IsLine(line)
  PROVE  StagesAgree
<1>1. CASE Canonical(line) = << >>
  <2>1. Raw(line) = << >> /\ ThroughCanonicalFile(line) = << >>
        /\ ThroughBothFiles(line) = << >>
    BY <1>1, RawIsEncoded
  <2> QED BY <2>1 DEF StagesAgree, Then
<1>2. CASE Canonical(line) # << >>
  <2>1. PICK e : /\ IsCanonical(e, line)
                 /\ Raw(line) = <<Encode(e)>>
                 /\ ThroughCanonicalFile(line) = <<Encode(e)>>
                 /\ ThroughBothFiles(line) = GraphFromJson(Encode(e))
    BY <1>2, RawIsEncoded
  <2>2. PICK g : g = Encode(e)
    OBVIOUS
  <2>3. GraphFromJson(g) = <<ExactGraph(g)>>
    BY <2>1, <2>2, GraphFileGivesBack
  <2>4. <<g>> # << >> /\ <<g>>[1] = g
    OBVIOUS
  <2>5. ThroughCanonicalFile(line) = Raw(line)
    BY <2>1
  <2>6. Raw(line) = <<g>> /\ ThroughBothFiles(line) = <<ExactGraph(g)>>
    BY <2>1, <2>2, <2>3
  <2> QED BY <2>4, <2>5, <2>6 DEF StagesAgree, Then, ExactGraph
<1> QED BY <1>1, <1>2

LEMMA FieldsStay ==
  ASSUME IsLine(line)
  PROVE  FieldsAreKept
<1> SUFFICES ASSUME NEW gs \in {Raw(line), ThroughBothFiles(line)} \ {<< >>},
                    NEW n \in DOMAIN line \ (SourceReserved \cup EncoderReserved),
                    line[n].kind \notin {"null", "nested"}
             PROVE  n \in DOMAIN gs[1].attributes /\ gs[1].attributes[n].text = line[n].text
  BY DEF FieldsAreKept
<1>1. PICK e : /\ IsCanonical(e, line)
               /\ Raw(line) = <<Encode(e)>>
               /\ ThroughBothFiles(line) = GraphFromJson(Encode(e))
  BY RawIsEncoded
<1>2. PICK g : g = Encode(e)
  OBVIOUS
<1>3. PICK as : as = Emplaced(Kept(e), Provenance(e))
  OBVIOUS
<1>4. g.attributes = as
  BY <1>2, <1>3 DEF Encode, Encoded
<1>5. n \in DOMAIN as /\ as[n] = line[n]
  BY <1>1, <1>3, EncodedAttributes
<1>6. gs = <<g>> \/ gs = <<ExactGraph(g)>>
  BY <1>1, <1>2, GraphFileGivesBack
<1>7. CASE gs = <<g>>
  BY <1>4, <1>5, <1>7
<1>8. CASE gs = <<ExactGraph(g)>>
  <2>1. ExactGraph(g).attributes = [m \in DOMAIN as |-> Exact(as[m])]
    <3>1. \E x : g = x /\ "attributes" \in DOMAIN g
      BY <1>2 DEF Encode, Encoded
    <3> QED BY <1>4, <3>1 DEF ExactGraph
  <2>2. IsValue(line[n])
    BY DEF IsLine
  <2>3. Exact(as[n]).text = line[n].text
    BY <1>5, <2>2, ExactIsReread
  <2> QED BY <1>5, <1>8, <2>1, <2>3
<1> QED BY <1>6, <1>7, <1>8

LEMMA TimesAgree == RoutesAgreeOnTime
<1> SUFFICES ASSUME \A n \in DOMAIN line : line[n].kind # "negative"
             PROVE  EvidenceTime(line) = SourceTime(line)
  BY DEF RoutesAgreeOnTime
<1>1. \A names : Places(line, {"unsigned"}, names)
                   = Places(line, {"unsigned", "negative"}, names)
  BY DEF Places
<1> QED BY <1>1 DEF EvidenceTime, SourceTime, Timestamp

(* Two lists of names in which only two say something, in the same order.  *)
TwoFirst(object, names, i, j, x, y) ==
  /\ DOMAIN names \subseteq Nat /\ i \in DOMAIN names /\ j \in DOMAIN names /\ i < j
  /\ names[i] = x /\ names[j] = y
  /\ \A k \in DOMAIN names : k < j /\ k # i => ~SaysText(object, names[k])

TwoOnly(object, names, i, j, x, y) ==
  /\ TwoFirst(object, names, i, j, x, y)
  /\ \A k \in DOMAIN names : k # i /\ k # j => ~SaysText(object, names[k])

GivesAs(object, as, bs) ==
  StringField(object, as) = "" \/ StringField(object, bs) = StringField(object, as)

LEMMA TwoFields ==
  ASSUME NEW object, NEW names, NEW i, NEW j, NEW x, NEW y, TwoFirst(object, names, i, j, x, y),
         SaysText(object, x) \/ SaysText(object, y)
  PROVE  StringField(object, names) = IF SaysText(object, x) THEN object[x].text ELSE object[y].text
<1>0. /\ DOMAIN names \subseteq Nat /\ i \in DOMAIN names /\ j \in DOMAIN names /\ i < j
      /\ names[i] = x /\ names[j] = y
      /\ \A k \in DOMAIN names : k < j /\ k # i => ~SaysText(object, names[k])
  BY DEF TwoFirst
<1>1. CASE SaysText(object, names[i])
  <2>1. ASSUME NEW k \in DOMAIN names, k < i
        PROVE  ~SaysText(object, names[k])
    <3>1. k < j /\ k # i
      BY <1>0, <2>1
    <3> QED BY <1>0, <3>1
  <2>2. StringField(object, names) = object[names[i]].text
    BY <1>0, <1>1, <2>1, FieldIs
  <2> QED BY <1>0, <1>1, <2>2
<1>2. CASE ~SaysText(object, names[i])
  <2>0. SaysText(object, names[j])
    BY <1>0, <1>2
  <2>1. ASSUME NEW k \in DOMAIN names, k < j
        PROVE  ~SaysText(object, names[k])
    BY <1>0, <1>2, <2>1
  <2>2. StringField(object, names) = object[names[j]].text
    BY <1>0, <2>0, <2>1, FieldIs
  <2> QED BY <1>0, <1>2, <2>2
<1> QED BY <1>1, <1>2

LEMMA SameEnd ==
  ASSUME NEW object, NEW x, NEW y,
         NEW as, NEW i, NEW j, TwoOnly(object, as, i, j, x, y),
         NEW bs, NEW m, NEW n, TwoFirst(object, bs, m, n, x, y)
  PROVE  GivesAs(object, as, bs)
<1>1. TwoFirst(object, as, i, j, x, y)
  BY DEF TwoOnly
<1>2. CASE SaysText(object, x) \/ SaysText(object, y)
  <2>1. StringField(object, as) = IF SaysText(object, x) THEN object[x].text ELSE object[y].text
    BY <1>1, <1>2, TwoFields
  <2>2. StringField(object, bs) = IF SaysText(object, x) THEN object[x].text ELSE object[y].text
    BY <1>2, TwoFields
  <2> QED BY <2>1, <2>2 DEF GivesAs
<1>3. CASE ~SaysText(object, x) /\ ~SaysText(object, y)
  <2>1. \A k \in DOMAIN as : ~SaysText(object, as[k])
    BY <1>3 DEF TwoOnly, TwoFirst
  <2>2. StringField(object, as) = ""
    BY <2>1, FieldIsNot
  <2> QED BY <2>2 DEF GivesAs
<1> QED BY <1>2, <1>3

LEMMA EndsAgree ==
  ASSUME IsLine(line), SourceAssumption
  PROVE  RoutesAgreeOnEnds
<1> SUFFICES ASSUME DOMAIN line \cap {"source", "actor", "agent", "user", "tool", "subject", "target",
                                      "edge"} = {},
                    Legacy(line) # << >>
             PROVE  /\ Raw(line) # << >>
                    /\ \A field \in {"id", "from", "to", "relation", "role", "weight"} :
                         Raw(line)[1][field] = Legacy(line)[1][field]
  BY DEF RoutesAgreeOnEnds
<1>0. \A n \in {"source", "actor", "agent", "user", "tool", "subject", "target", "edge"} : ~SaysText(line, n)
  BY DEF SaysText
<1>1. PICK id, from, to, relation, role, weight :
        /\ id = StringField(line, <<"id", "event_id">>)
        /\ from = StringField(line, <<"from", "source_object">>)
        /\ to = StringField(line, <<"to", "target_object">>)
        /\ relation = StringField(line, <<"relation", "rel", "edge">>)
        /\ role = Else(StringField(line, <<"role">>), "Structural")
        /\ weight = IF Places(line, {"unsigned", "negative"}, <<"weight">>) = {} THEN 1
                    ELSE line["weight"].number
  OBVIOUS
<1>2. /\ Legacy(line)[1].id = id /\ Legacy(line)[1].from = from
      /\ Legacy(line)[1].to = to /\ Legacy(line)[1].relation = relation
      /\ Legacy(line)[1].role = role /\ Legacy(line)[1].weight = weight
      /\ ValidKey(id) /\ from # "" /\ to # "" /\ relation # ""
  <2>1. PICK ft, tt, as, g :
          /\ g = [id |-> id, source |-> "graph-log", from |-> from, to |-> to, relation |-> relation,
                  from_type |-> ft, to_type |-> tt, role |-> role, weight |-> weight,
                  attributes |-> as]
          /\ Legacy(line) = IF ValidGraph(g) THEN <<g>> ELSE << >>
    BY <1>1 DEF Legacy, LegacyFrom
  <2>2. ValidGraph(g) /\ Legacy(line)[1] = g
    BY <2>1
  <2>3. /\ g.id = id /\ g.from = from /\ g.to = to /\ g.relation = relation /\ g.role = role
        /\ g.weight = weight
    BY <2>1
  <2> QED BY <2>2, <2>3 DEF ValidGraph
<1>3. PICK bs : bs = <<"actor", "agent", "user", "tool", "from", "source_object">>
  OBVIOUS
<1>4. PICK cs : cs = <<"subject", "target", "to", "target_object", "path", "file",
                       "resource", "repo", "repository", "pr", "pull_request">>
  OBVIOUS
<1>5. PICK ds : ds = <<"relation", "rel", "action", "event">>
  OBVIOUS
<1>6. StringField(line, bs) = from
  <2>1. PICK as : as = <<"from", "source_object">>
    OBVIOUS
  <2>2. DOMAIN as = 1..2 /\ as[1] = "from" /\ as[2] = "source_object"
    BY <2>1
  <2>3. /\ DOMAIN bs = 1..6 /\ bs[5] = "from" /\ bs[6] = "source_object"
        /\ bs[1] = "actor" /\ bs[2] = "agent" /\ bs[3] = "user" /\ bs[4] = "tool"
    BY <1>3
  <2>4. \A k \in DOMAIN bs : k < 6 /\ k # 5 => ~SaysText(line, bs[k])
    <3> SUFFICES ASSUME NEW k \in 1..6, k < 6, k # 5
                 PROVE  ~SaysText(line, bs[k])
      BY <2>3
    <3>1. k \in {1, 2, 3, 4}
      OBVIOUS
    <3> QED BY <1>0, <2>3, <3>1
  <2>5. \A k \in DOMAIN as : k \in {1, 2}
    BY <2>2
  <2>6. from = StringField(line, as)
    BY <1>1, <2>1
  <2>7. DOMAIN as \subseteq Nat /\ DOMAIN bs \subseteq Nat
        /\ 1 \in DOMAIN as /\ 2 \in DOMAIN as /\ 5 \in DOMAIN bs /\ 6 \in DOMAIN bs
    BY <2>2, <2>3
  <2>8. TwoFirst(line, as, 1, 2, "from", "source_object")
    <3>1. \A k \in DOMAIN as : ~(k < 2 /\ k # 1)
      BY <2>2
    <3> QED BY <2>2, <2>7, <3>1 DEF TwoFirst
  <2>9. TwoOnly(line, as, 1, 2, "from", "source_object")
    BY <2>5, <2>8 DEF TwoOnly
  <2>10. TwoFirst(line, bs, 5, 6, "from", "source_object")
    BY <2>3, <2>4, <2>7 DEF TwoFirst
  <2>11. GivesAs(line, as, bs)
    BY <2>9, <2>10, SameEnd
  <2> QED BY <1>2, <2>6, <2>11 DEF GivesAs
<1>7. StringField(line, cs) = to
  <2>1. PICK as : as = <<"to", "target_object">>
    OBVIOUS
  <2>2. DOMAIN as = 1..2 /\ as[1] = "to" /\ as[2] = "target_object"
    BY <2>1
  <2>3. /\ DOMAIN cs = 1..11 /\ cs[3] = "to" /\ cs[4] = "target_object"
        /\ cs[1] = "subject" /\ cs[2] = "target"
    BY <1>4
  <2>4. \A k \in DOMAIN cs : k < 4 /\ k # 3 => ~SaysText(line, cs[k])
    <3> SUFFICES ASSUME NEW k \in 1..11, k < 4, k # 3
                 PROVE  ~SaysText(line, cs[k])
      BY <2>3
    <3>1. k \in {1, 2}
      OBVIOUS
    <3> QED BY <1>0, <2>3, <3>1
  <2>5. \A k \in DOMAIN as : k \in {1, 2}
    BY <2>2
  <2>6. to = StringField(line, as)
    BY <1>1, <2>1
  <2>7. DOMAIN as \subseteq Nat /\ DOMAIN cs \subseteq Nat
        /\ 1 \in DOMAIN as /\ 2 \in DOMAIN as /\ 3 \in DOMAIN cs /\ 4 \in DOMAIN cs
    BY <2>2, <2>3
  <2>8. TwoFirst(line, as, 1, 2, "to", "target_object")
    <3>1. \A k \in DOMAIN as : ~(k < 2 /\ k # 1)
      BY <2>2
    <3> QED BY <2>2, <2>7, <3>1 DEF TwoFirst
  <2>9. TwoOnly(line, as, 1, 2, "to", "target_object")
    BY <2>5, <2>8 DEF TwoOnly
  <2>10. TwoFirst(line, cs, 3, 4, "to", "target_object")
    BY <2>3, <2>4, <2>7 DEF TwoFirst
  <2>11. GivesAs(line, as, cs)
    BY <2>9, <2>10, SameEnd
  <2> QED BY <1>2, <2>6, <2>11 DEF GivesAs
<1>8. StringField(line, ds) = relation
  <2>1. PICK as : as = <<"relation", "rel", "edge">>
    OBVIOUS
  <2>2. DOMAIN as = 1..3 /\ as[1] = "relation" /\ as[2] = "rel" /\ as[3] = "edge"
    BY <2>1
  <2>3. DOMAIN ds = 1..4 /\ ds[1] = "relation" /\ ds[2] = "rel"
    BY <1>5
  <2>4. \A k \in DOMAIN ds : ~(k < 2 /\ k # 1)
    BY <2>3
  <2>5. \A k \in DOMAIN as : k \notin {1, 2} => ~SaysText(line, as[k])
    <3>1. \A k \in DOMAIN as : k \notin {1, 2} => k = 3
      BY <2>2
    <3> QED BY <1>0, <2>2, <3>1
  <2>6. relation = StringField(line, as)
    BY <1>1, <2>1
  <2>7. DOMAIN as \subseteq Nat /\ DOMAIN ds \subseteq Nat
        /\ 1 \in DOMAIN as /\ 2 \in DOMAIN as /\ 1 \in DOMAIN ds /\ 2 \in DOMAIN ds
    BY <2>2, <2>3
  <2>8. TwoFirst(line, as, 1, 2, "relation", "rel")
    <3>1. \A k \in DOMAIN as : ~(k < 2 /\ k # 1)
      BY <2>2
    <3> QED BY <2>2, <2>7, <3>1 DEF TwoFirst
  <2>9. TwoOnly(line, as, 1, 2, "relation", "rel")
    BY <2>5, <2>8 DEF TwoOnly
  <2>10. TwoFirst(line, ds, 1, 2, "relation", "rel")
    BY <2>3, <2>4, <2>7 DEF TwoFirst
  <2>11. GivesAs(line, as, ds)
    BY <2>9, <2>10, SameEnd
  <2> QED BY <1>2, <2>6, <2>11 DEF GivesAs
<1>9. Else(StringField(line, <<"source">>), "jsonl") = "jsonl"
  <2>1. StringField(line, <<"source">>) = ""
    BY <1>0, OneField
  <2> QED BY <2>1 DEF Else
<1>10. PICK as : as = Attributes(line, SourceReserved)
  OBVIOUS
<1>11. PICK kind, observed, e :
         /\ e = EventOf(id, "jsonl", kind, from, to, relation, observed, as)
         /\ Canonical(line) = IF ValidCanonical(e) THEN <<e>> ELSE << >>
  BY <1>1, <1>3, <1>4, <1>5, <1>6, <1>7, <1>8, <1>9, <1>10 DEF Canonical, EventOf
<1>12. e.id = id /\ e.source = "jsonl" /\ e.actor = from /\ e.subject = to /\ e.relation = relation
       /\ e.attributes = as
  BY <1>11 DEF EventOf
<1>13. ValidCanonical(e)
  BY <1>2, <1>12 DEF ValidCanonical, ValidKey, SourceAssumption
<1>14. PICK g : g = Encode(e)
  OBVIOUS
<1>15. Raw(line) = <<g>>
  <2>1. Canonical(line) = <<e>>
    BY <1>11, <1>13
  <2>2. <<e>> # << >> /\ <<e>>[1] = e
    OBVIOUS
  <2> QED BY <1>14, <2>1, <2>2 DEF Raw, Then
<1>16. Else(StringAttribute(e, "role"), "Structural") = role
  <2>1. "role" \notin SourceReserved
    BY DEF SourceReserved
  <2>2. SaysText(line, "role") <=> "role" \in DOMAIN as /\ as["role"].kind = "string"
    BY <1>10, <2>1 DEF Attributes, SaysText
  <2>3. SaysText(line, "role") => as["role"] = line["role"]
    BY <1>10, <2>1, <2>2 DEF Attributes
  <2>4. StringAttribute(e, "role") = StringField(line, <<"role">>)
    BY <1>12, <2>2, <2>3, OneField DEF StringAttribute
  <2> QED BY <1>1, <2>4
<1>17. NumericAttribute(e, "weight", 1) = weight
  <2>1. "weight" \notin SourceReserved
    BY DEF SourceReserved
  <2>2. PICK ws : ws = <<"weight">>
    OBVIOUS
  <2>3. DOMAIN ws = {1} /\ ws[1] = "weight"
    BY <2>2
  <2>4. Places(line, {"unsigned", "negative"}, ws) # {}
          <=> "weight" \in DOMAIN line /\ line["weight"].kind \in {"unsigned", "negative"}
    BY <2>3 DEF Places
  <2>5. "weight" \in DOMAIN line => line["weight"].kind # "int64"
    BY DEF IsLine, IsValue
  <2>6. "weight" \in DOMAIN as => "weight" \in DOMAIN line /\ as["weight"] = line["weight"]
    BY <1>10 DEF Attributes
  <2>7. "weight" \in DOMAIN line /\ line["weight"].kind \in {"unsigned", "negative"}
          => "weight" \in DOMAIN as
    BY <1>10, <2>1 DEF Attributes
  <2>8. weight = IF Places(line, {"unsigned", "negative"}, ws) = {} THEN 1
                 ELSE line["weight"].number
    BY <1>1, <2>2
  <2> QED BY <1>12, <2>4, <2>5, <2>6, <2>7, <2>8 DEF NumericAttribute
<1>18. /\ g.id = id /\ g.from = from /\ g.to = to /\ g.relation = relation /\ g.role = role
       /\ g.weight = weight
  BY <1>12, <1>14, <1>16, <1>17 DEF Encode, Encoded
<1>19. Raw(line) # << >> /\ Raw(line)[1] = g
  BY <1>15
<1>20. \A field \in {"id", "from", "to", "relation", "role", "weight"} :
         Raw(line)[1][field] = Legacy(line)[1][field]
  BY <1>2, <1>18, <1>19
<1> QED BY <1>19, <1>20

LEMMA LinesMeanTheSame ==
  ASSUME IsLine(line), SourceAssumption
  PROVE  StagesAgree /\ FieldsAreKept /\ RoutesAgreeOnTime /\ RoutesAgreeOnEnds
BY StagesDoAgree, FieldsStay, TimesAgree, EndsAgree

(* EventNormalization: a line is the same event at once and through the    *)
(* files, keeps what it says, and means the same on every route.           *)
THEOREM LinesAgree ==
  ASSUME SourceAssumption, FieldsAssumption
  PROVE  LineSpec => [](StagesAgree /\ FieldsAreKept /\ RoutesAgreeOnTime /\ RoutesAgreeOnEnds)
<1>1. LineInit => IsLine(line)
  BY DEF LineInit, IsLine
<1>2. IsLine(line) /\ [AddField]_line => IsLine(line)'
  BY LineStays
<1>3. IsLine(line) => StagesAgree /\ FieldsAreKept /\ RoutesAgreeOnTime /\ RoutesAgreeOnEnds
  BY LinesMeanTheSame
<1> QED BY <1>1, <1>2, <1>3, PTL DEF LineSpec
=============================================================================

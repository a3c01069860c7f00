---------------------------- MODULE WriteAheadLog ----------------------------
(***************************************************************************)
(* The log that write_commit keeps (wal.cpp), line by line, with the files *)
(* it brackets: a commit is a script of appends, puts and temporary files  *)
(* renamed into place.  A write may fail half-way and throw, a process may *)
(* die in one, and an opening process removes the temporary files and      *)
(* truncates the log without the lock (recovery.cpp).  The session whose   *)
(* write threw goes on, with the commit in its memory.                     *)
(*                                                                         *)
(* One branch; commits are numbered as sessions make them.                 *)
(***************************************************************************)
EXTENDS Integers, Sequences, FiniteSets, SequencesExt

CONSTANTS
  Sessions, Nobody,
  MaxCommits, MaxFaults, MaxCrashes,
  TornAppends       \* whether a dying append may leave part of its line

VARIABLES
  log,      \* current.log: <<operation, state of the line>>
  objects,  \* the commits whose objects are all stored
  parent,   \* per commit made, the commit before it
  file,     \* per published file, the commit it names
  temp,     \* the temporary files there are
  lock,
  session,  \* per session: its head, the commit it writes, and how far
  faults, crashes

disk == <<log, objects, parent, file, temp>>
vars == <<disk, lock, session, faults, crashes>>

Files == {"commits", "ref", "branches", "history"}
Closed == [open |-> FALSE, head |-> 0, commit |-> 0, script |-> << >>, step |-> 0]
OpenAt(head) == [open |-> TRUE, head |-> head, commit |-> 0, script |-> << >>, step |-> 0]

\* Nobody holds the lock when no session does.
NobodyAssumption == Nobody \notin Sessions

-----------------------------------------------------------------------------
(* Wal *)

\* read_all throws at a line that is not whole.  A line without its end of
\* line is read; the next append then continues it.
Readable(lines) == \A i \in DOMAIN lines : lines[i][2] # "junk"

Appended(lines, op, state) ==
  IF lines # << >> /\ Last(lines)[2] \in {"bare", "junk"}
  THEN [lines EXCEPT ![Len(lines)][2] = "junk"]
  ELSE Append(lines, <<op, state>>)

\* Wal::append reads the log first, for the next sequence number.
\* Mutant: it writes without reading.
AppendBlind(op) == log' = Appended(log, op, "whole")
AppendLine(op) == Readable(log) /\ log' = Appended(log, op, "whole")

\* Wal::recover: a begin with no end after it.
Incomplete ==
  \E i \in DOMAIN log :
    /\ log[i][1] = "begin"
    /\ \A j \in i..Len(log) : log[j][1] # "end"

-----------------------------------------------------------------------------
(* RepositoryTransactionWriter::write_commit *)

LogLine(op) == <<"append", op>>
Put == <<"put", "all">>
Temp(name) == <<"temp", name>>
Rename(name) == <<"rename", name>>
Rewrite(name) == <<"rewrite", name>>   \* the file gets what it held before
Truncate == <<"truncate", "log">>

\* Mutant: the ref is moved before the objects are put.
ScriptRefFirst ==
  <<LogLine("begin"), Temp("ref"), Rename("ref"), Put, LogLine("line"),
    Temp("commits"), Rename("commits"), Temp("branches"), Rename("branches"),
    Temp("history"), Rename("history"), LogLine("end"), Truncate>>
Script ==
  <<LogLine("begin"), Put, LogLine("line"),
    Temp("commits"), Rename("commits"), Temp("ref"), Rename("ref"),
    Temp("branches"), Rename("branches"), LogLine("line"),
    Temp("history"), Rename("history"), LogLine("end"), Truncate>>
RejectedScript ==
  <<LogLine("begin"), Put, LogLine("line"),
    Temp("commits"), Rename("commits"), Temp("branches"), Rewrite("branches"),
    Temp("history"), Rename("history"), LogLine("end"), Truncate>>

\* The step of its script that a session takes next, 0 when it does not write.
Writing(s) == session[s].step > 0
Current(s) == session[s].script[session[s].step]
At(s, kind) == Writing(s) /\ Current(s)[1] = kind
What(s) == Current(s)[2]

\* The exception leaves the call: the lock is released, the memory stays.
Throw(s) ==
  /\ session' = [session EXCEPT ![s].step = 0]
  /\ lock' = Nobody

Advance(s) ==
  LET last == session[s].step = Len(session[s].script)
  IN /\ session' = [session EXCEPT ![s].step = IF last THEN 0 ELSE @ + 1]
     /\ lock' = IF last THEN Nobody ELSE lock

\* Repository::commit: WorldStore::commit has changed the memory already.  A
\* rejected commit is stored and moves neither the head nor the ref.
Commit(s) ==
  /\ session[s].open /\ ~Writing(s) /\ lock = Nobody
  /\ Len(parent) < MaxCommits
  /\ parent' = Append(parent, session[s].head)
  /\ \E accepted \in BOOLEAN :
       session' = [session EXCEPT ![s] =
         [open |-> TRUE,
          head |-> IF accepted THEN Len(parent) + 1 ELSE session[s].head,
          commit |-> Len(parent) + 1,
          script |-> IF accepted THEN Script ELSE RejectedScript,
          step |-> 1]]
  /\ lock' = s
  /\ UNCHANGED <<log, objects, file, temp, faults, crashes>>

StepAppend(s) ==
  /\ At(s, "append") /\ AppendLine(What(s)) /\ Advance(s)
  /\ UNCHANGED <<objects, parent, file, temp, faults, crashes>>

\* The log cannot be read: the append throws and writes nothing.
AppendThrows(s) ==
  /\ At(s, "append") /\ ~Readable(log)
  /\ Throw(s) /\ UNCHANGED <<disk, faults, crashes>>

StepPut(s) ==
  /\ At(s, "put") /\ objects' = objects \cup {session[s].commit} /\ Advance(s)
  /\ UNCHANGED <<log, parent, file, temp, faults, crashes>>

StepTemp(s) ==
  /\ At(s, "temp") /\ temp' = temp \cup {What(s)} /\ Advance(s)
  /\ UNCHANGED <<log, objects, parent, file, faults, crashes>>

StepRename(s) ==
  /\ At(s, "rename") /\ What(s) \in temp
  /\ file' = [file EXCEPT ![What(s)] = session[s].commit]
  /\ temp' = temp \ {What(s)} /\ Advance(s)
  /\ UNCHANGED <<log, objects, parent, faults, crashes>>

\* The branch index with the head it has: a rejected commit is in its history.
StepRewrite(s) ==
  /\ At(s, "rewrite") /\ What(s) \in temp
  /\ temp' = temp \ {What(s)} /\ Advance(s)
  /\ UNCHANGED <<log, objects, parent, file, faults, crashes>>

\* The temporary file was removed by a process that opened the repository.
RenameThrows(s) ==
  /\ (At(s, "rename") \/ At(s, "rewrite")) /\ What(s) \notin temp
  /\ Throw(s) /\ UNCHANGED <<disk, faults, crashes>>

StepTruncate(s) ==
  /\ At(s, "truncate") /\ log' = << >> /\ Advance(s)
  /\ UNCHANGED <<objects, parent, file, temp, faults, crashes>>

\* A write fails, as when the disk is full; part of a line may be there.
WriteFails(s) ==
  /\ faults < MaxFaults /\ faults' = faults + 1
  /\ \/ At(s, "append") /\ Readable(log) /\ log' = Appended(log, What(s), "junk")
     \/ (At(s, "put") \/ At(s, "temp")) /\ UNCHANGED log
  /\ Throw(s) /\ UNCHANGED <<objects, parent, file, temp, crashes>>

\* The process dies, and the operator removes its lock.
Die(s) ==
  /\ crashes < MaxCrashes /\ crashes' = crashes + 1
  /\ Writing(s)
  /\ session' = [session EXCEPT ![s] = Closed]
  /\ lock' = Nobody
  /\ UNCHANGED <<objects, parent, file, temp, faults>>

Crash(s) == Die(s) /\ UNCHANGED log

\* It dies in an append: part of the line, or all but its end, is written.
CrashInAppend(s) ==
  /\ TornAppends /\ At(s, "append") /\ Readable(log) /\ Die(s)
  /\ \E state \in {"bare", "junk"} : log' = Appended(log, What(s), state)

-----------------------------------------------------------------------------
(* Repository::open with recover(true) *)

Follow[c \in 0..Len(parent)] ==
  IF c = 0 THEN {} ELSE {c} \cup Follow[parent[c]]
Materializable(c) == Follow[c] \subseteq objects

\* check_indexes compares the branch index with the ref.
IndexesClean == file["branches"] = file["ref"]

Recovered ==
  IF IndexesClean THEN file
  ELSE [file EXCEPT !["commits"] = file["ref"], !["branches"] = file["ref"]]

Open(s) ==
  /\ ~session[s].open /\ Readable(log)
  /\ Materializable(file["ref"])
  /\ file' = Recovered /\ temp' = {}
  /\ log' = IF Incomplete THEN << >> ELSE log
  /\ session' = [session EXCEPT ![s] = OpenAt(Recovered["branches"])]
  /\ UNCHANGED <<objects, parent, lock, faults, crashes>>

Close(s) ==
  /\ session[s].open /\ ~Writing(s)
  /\ session' = [session EXCEPT ![s] = Closed]
  /\ UNCHANGED <<disk, lock, faults, crashes>>

Init ==
  /\ log = << >> /\ objects = {} /\ parent = << >> /\ temp = {}
  /\ file = [name \in Files |-> 0]
  /\ lock = Nobody /\ faults = 0 /\ crashes = 0
  /\ session = [s \in Sessions |-> Closed]

Next == \E s \in Sessions :
  \/ Commit(s) \/ StepAppend(s) \/ AppendThrows(s) \/ StepPut(s) \/ StepTemp(s)
  \/ StepRename(s) \/ StepRewrite(s) \/ RenameThrows(s) \/ StepTruncate(s)
  \/ WriteFails(s) \/ Crash(s) \/ CrashInAppend(s)
  \/ Open(s) \/ Close(s)

Spec == Init /\ [][Next]_vars

-----------------------------------------------------------------------------

Quiet == \A s \in Sessions : ~Writing(s)

\* Every commit the ref stands on is stored, whatever a recovery in another
\* process removed and whatever rename failed for it.
RefStandsOnStored == Materializable(file["ref"])

\* A commit that stopped between its ref and its branch index is still in the
\* log as incomplete when nobody writes, so that recovery looks for it.
InterruptedIsLogged ==
  (Quiet /\ Readable(log) /\ file["ref"] # file["branches"]) => Incomplete

\* Once a line cannot be read no commit is published any more: every append
\* comes first and throws.
UnreadableHolds == ~Readable(log) => file'["ref"] = file["ref"]
=============================================================================

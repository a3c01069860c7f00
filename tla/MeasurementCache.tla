-------------------------- MODULE MeasurementCache --------------------------
(***************************************************************************)
(* Measurements kept beside a repository (measure/measurement_store.cpp):  *)
(* content addressed objects and three index files, the rows of            *)
(* measurements, their projections and the names of frozen baselines.      *)
(* Nothing here takes the write lock.  The processes of Procs measure one  *)
(* branch while it grows, is collected (gc) and is indexed anew.           *)
(*                                                                         *)
(* A measurement stands for all its components and its evidence: what it   *)
(* tells is its commit, its spec and the commits it took as the past.      *)
(***************************************************************************)
EXTENDS Integers, Sequences, SequencesExt, FiniteSets

CONSTANTS Procs, Specs,
          Operations,            \* the calls made, of "measure", "rebuild", "freeze"
          LegacyRows,            \* may the index start as one of the first version
          MaxCommits, MaxCollections, MaxDamage, MaxCrashes,
          MaxDrops               \* times the history loses its rejected commits
BoundsAssumption ==
  /\ MaxCommits \in Nat \ {0}
  /\ MaxCollections \in Nat /\ MaxDamage \in Nat /\ MaxCrashes \in Nat /\ MaxDrops \in Nat

VARIABLES history,               \* of the branch: ids of commits
          rejected,              \* those the laws refused
          objects, damaged,      \* loose objects, and those with other bytes
          files,                 \* content of each index file
          temps,                 \* of its temporary, << >> when there is none
          procs,
          budget                 \* what may still happen, by kind
vars == <<history, rejected, objects, damaged, files, temps, procs, budget>>

Files == {"measurements", "projections", "baselines"}

-----------------------------------------------------------------------------
(* Measuring *)

\* Mutant: commits after the measured one count as its past.
PriorAll(commit) == Len(history)
\* HistorySurpriseMeasure: the records before the commit, rejected ones too.
Prior(commit) ==
  LET before == {i \in DOMAIN history : \A j \in 1..i : history[j] # commit}
  IN Cardinality(before)

Fresh(commit, spec) == <<commit, spec, Prior(commit)>>
Evidence(value) == <<"evidence", value>>
Component(value) == <<"component", value>>
Record(value) == <<"record", value>>
PartsOf(value) == {Evidence(value), Component(value), Record(value)}

Readable(object) == object \in objects /\ object \notin damaged
\* put_bytes: an object that is there is read, and throws if it is not itself.
CanPut(some) == some \cap damaged = {}

Rows(file) == files[file].rows
RowsWith(rows, key) == {r \in rows : r.key = key}
Upsert(rows, row) == (rows \ RowsWith(rows, row.key)) \cup {row}
Row(value, stale) ==
  [key |-> <<value[1], value[2]>>, data |-> [value |-> value, stale |-> stale]]

\* Every object of a record is decoded and hashed again.
Intact(value) == \A part \in PartsOf(value) : Readable(part)

\* load_cached: the values it returns, at most one.
Cached(commit, spec) ==
  IF ~files["measurements"].ok THEN {}
  ELSE {r.data.value : r \in {s \in RowsWith(Rows("measurements"), <<commit, spec>>) :
                                ~s.data.stale /\ Intact(s.data.value)}}

-----------------------------------------------------------------------------
(* Processes: [pc, op, spec, todo, value, hit, got, io, quiet] *)

NoIo == [stage |-> "none"]
Idle == [pc |-> "idle", op |-> "none", spec |-> 0, todo |-> << >>,
         value |-> << >>, hit |-> FALSE, got |-> << >>, io |-> NoIo,
         quiet |-> FALSE]
Unquiet(all) == [p \in Procs |-> [all[p] EXCEPT !.quiet = FALSE]]
Goto(p, state) == procs' = [procs EXCEPT ![p] = state]
Fail(p) == Goto(p, [procs[p] EXCEPT !.pc = "failed", !.io = NoIo])
At(p, pc) == procs[p].pc = pc /\ procs[p].io.stage = "none"
\* An upsert begins by reading the file.
Write(file, row) == [stage |-> "read", file |-> file, row |-> row]

Init ==
  /\ history = <<1>> /\ rejected = {} /\ objects = {} /\ damaged = {}
  /\ \E rows \in {{}} \cup IF LegacyRows
                          THEN {{Row(<<1, s, 9>>, TRUE) : s \in Specs}} ELSE {} :
       files = [f \in Files |-> [ok |-> TRUE,
                                 rows |-> IF f = "measurements" THEN rows ELSE {}]]
  /\ temps = [f \in Files |-> << >>]
  /\ procs = [p \in Procs |-> Idle]
  /\ budget = [commit |-> MaxCommits - 1, gc |-> MaxCollections,
               damage |-> MaxDamage, crash |-> MaxCrashes, drop |-> MaxDrops]

\* put_spec and the history; a rebuild first strips the rows of its spec.
Begin(p, op, spec) ==
  LET spec_object == <<"spec", spec>>
      alone == \A q \in Procs \ {p} : procs[q].pc \in {"idle", "done", "failed"}
  IN /\ procs[p].pc \in {"idle", "done", "failed"}
     /\ CanPut({spec_object})
     /\ objects' = objects \cup {spec_object}
     /\ procs' = [(IF alone THEN procs ELSE Unquiet(procs)) EXCEPT
                    ![p] = [Idle EXCEPT !.op = op, !.spec = spec, !.quiet = alone,
                              !.todo = history,
                              !.pc = IF op = "rebuild" THEN "strip" ELSE "look"]]
     /\ UNCHANGED <<history, rejected, damaged, files, temps, budget>>

\* remove_branch_spec: reads, and writes without the rows.
Strip(p) ==
  /\ At(p, "strip")
  /\ IF files["measurements"].ok
     THEN Goto(p, [procs[p] EXCEPT !.pc = "look",
                    !.io = [stage |-> "open", file |-> "measurements",
                            rows |-> {r \in Rows("measurements") :
                                        r.key[2] # procs[p].spec}]])
     ELSE Fail(p)
  /\ UNCHANGED <<history, rejected, objects, damaged, files, temps, budget>>

ProjectionRow(value) == [key |-> value, data |-> <<"projection", value>>]

\* The next commit of the history: a hit has only its projection to write,
\* a miss is computed and all its objects put.
Look(p) ==
  LET me == procs[p]
      commit == Head(me.todo)
      cached == Cached(commit, me.spec)
  IN /\ At(p, "look") /\ me.todo # << >> /\ cached # {}
     /\ LET value == CHOOSE v \in cached : TRUE
        IN IF CanPut({<<"projection", value>>}) /\ files["projections"].ok
           THEN /\ objects' = objects \cup {<<"projection", value>>}
                /\ Goto(p, [me EXCEPT !.pc = "next", !.value = value, !.hit = TRUE,
                             !.io = Write("projections", ProjectionRow(value))])
           ELSE /\ Goto(p, [me EXCEPT !.pc = "compute"])
                /\ UNCHANGED objects
     /\ UNCHANGED <<history, rejected, damaged, files, temps, budget>>
Miss(p) ==
  /\ At(p, "look") /\ procs[p].todo # << >>
  /\ Cached(Head(procs[p].todo), procs[p].spec) = {}
  /\ Goto(p, [procs[p] EXCEPT !.pc = "compute"])
  /\ UNCHANGED <<history, rejected, objects, damaged, files, temps, budget>>

\* compute_and_store up to the row of the measurement.
Compute(p) ==
  LET me == procs[p]
      value == Fresh(Head(me.todo), me.spec)
      put == PartsOf(value) \cup {<<"projection", value>>}
  IN /\ At(p, "compute")
     /\ IF CanPut(put)
        THEN /\ objects' = objects \cup put
             /\ Goto(p, [me EXCEPT !.pc = "index", !.value = value, !.hit = FALSE,
                          !.io = Write("projections", ProjectionRow(value))])
        ELSE Fail(p) /\ UNCHANGED objects
     /\ UNCHANGED <<history, rejected, damaged, files, temps, budget>>
Index(p) ==
  /\ At(p, "index")
  /\ Goto(p, [procs[p] EXCEPT !.pc = "next",
               !.io = Write("measurements", Row(procs[p].value, FALSE))])
  /\ UNCHANGED <<history, rejected, objects, damaged, files, temps, budget>>
NextCommit(p) ==
  /\ At(p, "next")
  /\ Goto(p, [procs[p] EXCEPT !.pc = "look", !.todo = Tail(procs[p].todo),
               !.got = Append(procs[p].got, procs[p].value)])
  /\ UNCHANGED <<history, rejected, objects, damaged, files, temps, budget>>

\* The end of the history; CalibrationStore::create then stores its sample.
Finish(p) ==
  LET me == procs[p]
      baseline == <<"baseline", me.got>>
  IN /\ At(p, "look") /\ me.todo = << >>
     /\ IF me.op # "freeze"
        THEN Goto(p, [me EXCEPT !.pc = "done"]) /\ UNCHANGED objects
        ELSE IF CanPut({baseline})
        THEN /\ objects' = objects \cup {baseline}
             /\ Goto(p, [me EXCEPT !.pc = "saved",
                          !.io = Write("baselines", [key |-> "name", data |-> baseline])])
        ELSE Fail(p) /\ UNCHANGED objects
     /\ UNCHANGED <<history, rejected, damaged, files, temps, budget>>
Saved(p) ==
  /\ At(p, "saved")
  /\ Goto(p, [procs[p] EXCEPT !.pc = "done"])
  /\ UNCHANGED <<history, rejected, objects, damaged, files, temps, budget>>

-----------------------------------------------------------------------------
(* IndexStore::write_payload: the temporary has the name of the file, so   *)
(* two writers share it, and one may fill what the other has renamed.      *)

Partial == [ok |-> FALSE, rows |-> {}]
IoFails(p) ==
  \* load_cached takes an exception for a miss
  IF procs[p].hit /\ procs[p].pc = "next"
  THEN Goto(p, [procs[p] EXCEPT !.pc = "compute", !.io = NoIo, !.hit = FALSE])
  ELSE Fail(p)

ReadRows(p) ==
  LET io == procs[p].io
  IN /\ io.stage = "read"
     /\ IF files[io.file].ok
        THEN Goto(p, [procs[p] EXCEPT !.io =
                        [stage |-> "open", file |-> io.file,
                         rows |-> Upsert(Rows(io.file), io.row)]])
        ELSE IoFails(p)
     /\ UNCHANGED <<history, rejected, objects, damaged, files, temps, budget>>

OpenTemp(p, io) ==
  /\ temps' = [temps EXCEPT ![io.file] = <<Partial>>]
  /\ Goto(p, [procs[p] EXCEPT !.io = [stage |-> "fill", file |-> io.file,
                                       rows |-> io.rows, at |-> "temp"]])
  /\ UNCHANGED files
Open(p) ==
  /\ procs[p].io.stage = "open"
  /\ OpenTemp(p, procs[p].io)
  /\ UNCHANGED <<history, rejected, objects, damaged, budget>>

\* A shorter content leaves the end of a longer one behind it.
Filled(content, rows) ==
  IF content.ok /\ Cardinality(content.rows) > Cardinality(rows)
  THEN Partial ELSE [ok |-> TRUE, rows |-> rows]
Fill(p) ==
  LET io == procs[p].io
  IN /\ io.stage = "fill"
     /\ temps' = IF io.at # "temp" THEN temps
                 ELSE [temps EXCEPT ![io.file] = <<Filled(@[1], io.rows)>>]
     /\ files' = IF io.at # "file" THEN files
                 ELSE [files EXCEPT ![io.file] = Filled(@, io.rows)]
     /\ Goto(p, [procs[p] EXCEPT !.io = [stage |-> "rename", file |-> io.file]])
     /\ UNCHANGED <<history, rejected, objects, damaged, budget>>

Moved(io, file) ==
  IF io.stage = "fill" /\ io.file = file
  THEN [io EXCEPT !.at = IF @ = "temp" THEN "file" ELSE "gone"] ELSE io
Rename(p) ==
  LET file == procs[p].io.file
  IN /\ procs[p].io.stage = "rename"
     /\ IF temps[file] = << >>
        THEN IoFails(p) /\ UNCHANGED <<files, temps>>
        ELSE /\ files' = [files EXCEPT ![file] = temps[file][1]]
             /\ temps' = [temps EXCEPT ![file] = << >>]
             /\ procs' = [q \in Procs |->
                            [procs[q] EXCEPT !.io = IF q = p THEN NoIo
                                                    ELSE Moved(@, file)]]
     /\ UNCHANGED <<history, rejected, objects, damaged, budget>>

-----------------------------------------------------------------------------
(* What goes on around them *)

Spend(kind) == budget[kind] > 0 /\ budget' = [budget EXCEPT ![kind] = @ - 1]

Commit ==
  /\ Spend("commit")
  /\ LET commit == MaxCommits - budget["commit"] + 1
     IN /\ history' = Append(history, commit)
        /\ \E refused \in SUBSET {commit} : rejected' = rejected \cup refused
  /\ procs' = Unquiet(procs)
  /\ UNCHANGED <<objects, damaged, files, temps>>

\* Indexes rebuilt after a crash: the history is what the head reaches; with
\* no rejected commit that is all of it.
DropRejected ==
  /\ Spend("drop")
  /\ rejected # {}
  /\ history' = SelectSeq(history, LAMBDA commit : commit \notin rejected)
  /\ procs' = Unquiet(procs)
  /\ UNCHANGED <<rejected, objects, damaged, files, temps>>

\* RepositoryGc::reachable begins at the branches and ends at the parts of
\* their commits: no object of a measurement is among them.
Collect ==
  /\ Spend("gc")
  /\ objects' = {} /\ damaged' = {}
  /\ procs' = Unquiet(procs)
  /\ UNCHANGED <<history, rejected, files, temps>>

Damage(object) ==
  /\ Spend("damage")
  /\ damaged' = damaged \cup {object}
  /\ procs' = Unquiet(procs)
  /\ UNCHANGED <<history, rejected, objects, files, temps>>

Crash(p) ==
  /\ Spend("crash")
  /\ procs[p].pc \notin {"idle", "done", "failed"}
  /\ Goto(p, Idle)
  /\ UNCHANGED <<history, rejected, objects, damaged, files, temps>>

Next ==
  \/ \E p \in Procs :
       \/ \E op \in Operations, spec \in Specs : Begin(p, op, spec)
       \/ Strip(p) \/ Look(p) \/ Miss(p) \/ Compute(p) \/ Index(p)
       \/ NextCommit(p) \/ Finish(p) \/ Saved(p)
       \/ ReadRows(p) \/ Open(p) \/ Fill(p) \/ Rename(p) \/ Crash(p)
  \/ Commit \/ DropRejected \/ Collect
  \/ \E object \in objects : Damage(object)
Spec == Init /\ [][Next]_vars

-----------------------------------------------------------------------------
(* MeasurementVerifier::verify_branch with a strict cache *)

Sound(row, spec) ==
  /\ ~row.data.stale
  /\ Intact(row.data.value)
  /\ row.data.value = Fresh(row.key[1], spec)
Clean(spec) ==
  /\ Readable(<<"spec", spec>>)
  /\ files["measurements"].ok
  /\ \A row \in Rows("measurements") : row.key[2] = spec => Sound(row, spec)

-----------------------------------------------------------------------------
(* Properties *)

Done(p, op) == procs[p].pc = "done" /\ procs[p].op = op

\* No history has lost a rejected commit.
Lossless == rejected = {} \/ budget["drop"] = MaxDrops

\* Every measurement an index row names is the one that would be computed
\* now, for the commit and the spec of the row, as long as the history of
\* the branch has only grown.
RowsAreFresh ==
  Lossless => \A row \in Rows("measurements") :
    ~row.data.stale => /\ row.key[1] \in Range(history)
                       /\ row.data.value = Fresh(row.key[1], row.key[2])

\* A measurement taken from the cache is the one that would be computed, and
\* can be read and hashed to the last of its objects.
HitIsFresh ==
  \A p \in Procs :
    procs[p].pc = "look" /\ procs[p].todo # << >> /\ procs'[p].hit
      /\ procs'[p].pc = "next" /\ procs[p].io.stage = "none" =>
        /\ procs'[p].value = Fresh(Head(procs[p].todo), procs[p].spec)
        /\ \A part \in PartsOf(procs'[p].value) : Readable(part)

\* A branch measured while nothing else went on verifies, and has a row for
\* every commit: collected objects were put again, old rows replaced.
MeasuredIsVerified ==
  \A p \in Procs :
    procs[p].pc = "done" /\ procs[p].quiet =>
      /\ Clean(procs[p].spec)
      /\ \A c \in Range(history) :
           Cardinality(RowsWith(Rows("measurements"), <<c, procs[p].spec>>)) = 1

\* tests/measure/measurement_store_tests.cpp:97 "measurement cache rebuild
\* rewrites branch entries": there is no state of the index file from which
\* a rebuild throws.
IndexReadable == \A f \in Files : files[f].ok
=============================================================================

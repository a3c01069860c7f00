------------------------ MODULE MeasurementCacheProofs ------------------------
(***************************************************************************)
(* Proofs about measurements.  MeasurementCache: rows and hits are what    *)
(* would be computed now, however many processes share the index without a *)
(* lock, as long as the history has lost nothing; and for a process that   *)
(* has the index to itself, the files stay readable and a branch it        *)
(* measured verifies.  RiskProjection: the scores of measurements grow     *)
(* with them, whatever the policy, its calibration and its overflow.       *)
(* GuardRuns: what a strict run passes is calm by its baseline, and every  *)
(* commit is measured by one run.                                          *)
(***************************************************************************)
EXTENDS MeasurementCache, RiskProjection, GuardRuns, FiniteSetTheorems, WellFoundedInduction, TLAPS

M == "measurements"

-----------------------------------------------------------------------------
(* Any number of processes: the shape of each, and rows that are fresh.    *)

Pcs == {"idle", "strip", "look", "compute", "index", "next", "saved", "done", "failed"}

IoOK(io) ==
  \/ io = NoIo
  \/ /\ io.stage = "read" /\ io.file \in Files
     /\ io = [stage |-> "read", file |-> io.file, row |-> io.row]
  \/ /\ io.stage = "open" /\ io.file \in Files
     /\ io = [stage |-> "open", file |-> io.file, rows |-> io.rows]
  \/ /\ io.stage = "fill" /\ io.file \in Files /\ io.at \in {"temp", "file", "gone"}
     /\ io = [stage |-> "fill", file |-> io.file, rows |-> io.rows, at |-> io.at]
  \/ /\ io.stage = "rename" /\ io.file \in Files
     /\ io = [stage |-> "rename", file |-> io.file]

ProcOK(me) ==
  /\ me = [pc |-> me.pc, op |-> me.op, spec |-> me.spec, todo |-> me.todo,
           value |-> me.value, hit |-> me.hit, got |-> me.got, io |-> me.io,
           quiet |-> me.quiet]
  /\ me.pc \in Pcs /\ me.hit \in BOOLEAN /\ me.quiet \in BOOLEAN
  /\ me.todo \in Seq(Nat)
  /\ me.pc \in {"compute", "index", "next"} => me.todo # << >>
  /\ IoOK(me.io)

FilesOK ==
  /\ files = [f \in Files |-> [ok |-> files[f].ok, rows |-> files[f].rows]]
  /\ \A f \in Files : files[f].ok \in BOOLEAN
  /\ temps = [f \in Files |-> temps[f]]
  /\ \A f \in Files : temps[f] # << >> =>
       temps[f] = << [ok |-> temps[f][1].ok, rows |-> temps[f][1].rows] >>
         /\ temps[f][1].ok \in BOOLEAN

BudgetOK ==
  /\ budget \in [{"commit", "gc", "damage", "crash", "drop"} -> Nat]
  /\ budget["commit"] < MaxCommits /\ budget["drop"] <= MaxDrops

ShapesOK ==
  /\ history \in Seq(Nat)
  /\ FilesOK
  /\ procs = [p \in Procs |-> procs[p]]
  /\ \A p \in Procs : ProcOK(procs[p])

FreshRow(row) ==
  ~row.data.stale => /\ row.key[1] \in Range(history)
                     /\ row.data.value = Fresh(row.key[1], row.key[2])
FreshRows(rows) == \A row \in rows : FreshRow(row)

(* What a process writes next is fresh, and what it measures is of the     *)
(* history.                                                                *)
IoFresh(io) ==
  /\ io.stage = "read" /\ io.file = M => FreshRow(io.row)
  /\ io.stage \in {"open", "fill"} /\ io.file = M => FreshRows(io.rows)
ProcFresh(me) ==
  /\ Range(me.todo) \subseteq Range(history)
  /\ me.pc = "index" => me.value = Fresh(Head(me.todo), me.spec)
  /\ IoFresh(me.io)

FreshInv ==
  /\ ShapesOK
  /\ FreshRows(Rows(M))
  /\ temps[M] # << >> => FreshRows(temps[M][1].rows)
  /\ \A p \in Procs : ProcFresh(procs[p])

(* A history that lost its rejected commits is not spoken of.              *)
GrownInv == BudgetOK /\ (Lossless => FreshInv)

-----------------------------------------------------------------------------
(* One process.                                                            *)

(* What the measurements will be when its write is done.                   *)
Pending(io) ==
  CASE io.stage = "read" /\ io.file = M -> Upsert(Rows(M), io.row)
    [] io.stage \in {"open", "fill"} /\ io.file = M -> io.rows
    [] io.stage = "rename" /\ io.file = M -> temps[M][1].rows
    [] OTHER -> Rows(M)

(* Rows: at most one per key, and about commits of the history.            *)
Keyed(rows) ==
  /\ \A r \in rows : r.key = <<r.key[1], r.key[2]>> /\ r.key[1] \in Range(history)
  /\ \A r1, r2 \in rows : r1.key = r2.key => r1 = r2

(* Its files: nothing but a process that died leaves half a temporary, and *)
(* the next write begins with a new one.                                   *)
FilesAlone(io) ==
  /\ \A f \in Files : files[f].ok
  /\ io.stage = "fill" => io.at = "temp" /\ temps[io.file] = <<Partial>>
  /\ io.stage = "rename" => temps[io.file] # << >> /\ temps[io.file][1].ok
  /\ Keyed(Rows(M)) /\ Keyed(Pending(io))

(* A commit that was measured: its row is there and sound.                 *)
Settled(rows, commit, spec) ==
  \E r \in rows : r.key = <<commit, spec>> /\ Sound(r, spec)

(* How many commits of the history a process has behind it.                *)
Behind(me) == Len(history) - Len(me.todo)

(* While nothing else went on, the commits behind it are settled: also the *)
(* one it works on, once its row is written.                               *)
QuietOK(me) ==
  me.quiet /\ me.pc \notin {"idle", "failed"} =>
    /\ Behind(me) \in Nat
    /\ \A i \in 1..Len(me.todo) : me.todo[i] = history[Behind(me) + i]
    /\ me.pc \in {"done", "saved"} => me.todo = << >>
    /\ me.pc = "done" => me.io = NoIo
    /\ me.pc = "strip" => Behind(me) = 0
    /\ Readable(<<"spec", me.spec>>)
    /\ \A i \in 1..Behind(me) : Settled(Pending(me.io), history[i], me.spec)
    /\ me.pc = "index" => Intact(me.value)
    /\ me.pc = "next" => Settled(Pending(me.io), Head(me.todo), me.spec)

AloneInv(p) ==
  /\ FreshInv
  /\ FilesAlone(procs[p].io)
  /\ QuietOK(procs[p])

-----------------------------------------------------------------------------
(* The processes.                                                          *)

Me(pc, op, spec, todo, value, hit, got, io, quiet) ==
  [pc |-> pc, op |-> op, spec |-> spec, todo |-> todo, value |-> value,
   hit |-> hit, got |-> got, io |-> io, quiet |-> quiet]

LEMMA MeFields ==
  ASSUME NEW pc, NEW op, NEW spec, NEW todo, NEW value, NEW hit, NEW got, NEW io, NEW quiet,
         NEW me, me = Me(pc, op, spec, todo, value, hit, got, io, quiet)
  PROVE  /\ me.pc = pc /\ me.op = op /\ me.spec = spec /\ me.todo = todo /\ me.value = value
         /\ me.hit = hit /\ me.got = got /\ me.io = io /\ me.quiet = quiet
BY DEF Me

LEMMA ProcSays ==
  ASSUME NEW me, ProcOK(me)
  PROVE  /\ me = Me(me.pc, me.op, me.spec, me.todo, me.value, me.hit, me.got, me.io, me.quiet)
         /\ me.pc \in Pcs /\ me.hit \in BOOLEAN /\ me.quiet \in BOOLEAN
         /\ me.todo \in Seq(Nat) /\ IoOK(me.io)
         /\ me.pc \in {"compute", "index", "next"} => me.todo # << >>
BY DEF ProcOK, Me

LEMMA MeIsProc ==
  ASSUME NEW pc \in Pcs, NEW op, NEW spec, NEW todo \in Seq(Nat), NEW value,
         NEW hit \in BOOLEAN, NEW got, NEW io, IoOK(io), NEW quiet \in BOOLEAN,
         pc \in {"compute", "index", "next"} => todo # << >>,
         NEW me, me = Me(pc, op, spec, todo, value, hit, got, io, quiet)
  PROVE  ProcOK(me)
<1>1. /\ me.pc = pc /\ me.op = op /\ me.spec = spec /\ me.todo = todo /\ me.value = value
      /\ me.hit = hit /\ me.got = got /\ me.io = io /\ me.quiet = quiet
  BY MeFields
<1>2. me = [pc |-> me.pc, op |-> me.op, spec |-> me.spec, todo |-> me.todo,
           value |-> me.value, hit |-> me.hit, got |-> me.got, io |-> me.io,
           quiet |-> me.quiet]
  BY <1>1 DEF Me
<1> QED BY <1>1, <1>2 DEF ProcOK

(* What depends on the history stays while it does.                        *)
LEMMA SameHistory ==
  ASSUME UNCHANGED history
  PROVE  /\ \A commit, spec : Fresh(commit, spec)' = Fresh(commit, spec)
         /\ \A row : FreshRow(row)' <=> FreshRow(row)
         /\ \A rows : FreshRows(rows)' <=> FreshRows(rows)
         /\ \A io : IoFresh(io)' <=> IoFresh(io)
         /\ \A me : ProcFresh(me)' <=> ProcFresh(me)
<1>1. \A commit, spec : Fresh(commit, spec)' = Fresh(commit, spec)
  BY DEF Fresh, Prior
<1>2. \A row : FreshRow(row)' <=> FreshRow(row)
  BY <1>1 DEF FreshRow
<1>3. \A rows : FreshRows(rows)' <=> FreshRows(rows)
  BY <1>2 DEF FreshRows
<1>4. \A io : IoFresh(io)' <=> IoFresh(io)
  BY <1>2, <1>3 DEF IoFresh
<1>5. \A me : ProcFresh(me)' <=> ProcFresh(me)
  BY <1>1, <1>4 DEF ProcFresh
<1> QED BY <1>1, <1>2, <1>3, <1>4, <1>5

(* A step that keeps the history.                                          *)
LEMMA FreshStep ==
  ASSUME FreshInv, UNCHANGED history, FilesOK',
         procs' = [q \in Procs |-> procs'[q]],
         \A q \in Procs : ProcOK(procs'[q]),
         FreshRows(files'[M].rows),
         temps'[M] # << >> => FreshRows(temps'[M][1].rows),
         \A q \in Procs : ProcFresh(procs'[q])
  PROVE  FreshInv'
<1>1. ShapesOK'
  BY DEF FreshInv, ShapesOK
<1>2. ASSUME NEW q \in Procs
      PROVE  ProcFresh(procs[q])'
  <2>1. ProcFresh(procs'[q])
    OBVIOUS
  <2> QED BY <2>1, SameHistory
<1>3. FreshRows(Rows(M))' /\ (temps'[M] # << >> => FreshRows(temps[M][1].rows)')
  BY SameHistory DEF Rows
<1> QED BY <1>1, <1>2, <1>3 DEF FreshInv

LEMMA Goes ==
  ASSUME FreshInv, NEW p \in Procs, NEW r, Goto(p, r), ProcOK(r), ProcFresh(r)
  PROVE  /\ procs' = [q \in Procs |-> procs'[q]]
         /\ \A q \in Procs : ProcOK(procs'[q])
         /\ \A q \in Procs : ProcFresh(procs'[q])
<1>1. /\ procs' = [q \in Procs |-> procs'[q]] /\ procs'[p] = r
      /\ \A q \in Procs : q # p => procs'[q] = procs[q]
  BY DEF Goto, FreshInv, ShapesOK
<1> QED BY <1>1 DEF FreshInv, ShapesOK

(* One process goes on, the files stay.                                    *)
LEMMA FreshProcess ==
  ASSUME FreshInv, NEW p \in Procs, NEW r, Goto(p, r), ProcOK(r),
         ProcFresh(r),
         UNCHANGED <<history, files, temps>>
  PROVE  FreshInv'
<1>1. FilesOK'
  BY DEF FreshInv, ShapesOK, FilesOK
<1>2. FreshRows(files'[M].rows) /\ (temps'[M] # << >> => FreshRows(temps'[M][1].rows))
  BY DEF FreshInv, Rows
<1> QED BY <1>1, <1>2, Goes, FreshStep

LEMMA NoIoOK == IoOK(NoIo) /\ NoIo.stage = "none" /\ IoFresh(NoIo)
BY DEF IoOK, NoIo, IoFresh

LEMMA ReadOK ==
  ASSUME NEW file \in Files, NEW row, NEW io, io = [stage |-> "read", file |-> file, row |-> row]
  PROVE  IoOK(io) /\ io.stage = "read" /\ io.file = file /\ io.row = row
BY DEF IoOK

LEMMA OpenOK ==
  ASSUME NEW file \in Files, NEW rows, NEW io, io = [stage |-> "open", file |-> file, rows |-> rows]
  PROVE  IoOK(io) /\ io.stage = "open" /\ io.file = file /\ io.rows = rows
BY DEF IoOK

LEMMA FillOK ==
  ASSUME NEW file \in Files, NEW rows, NEW at \in {"temp", "file", "gone"}, NEW io,
         io = [stage |-> "fill", file |-> file, rows |-> rows, at |-> at]
  PROVE  IoOK(io) /\ io.stage = "fill" /\ io.file = file /\ io.rows = rows /\ io.at = at
BY DEF IoOK

LEMMA RenameOK ==
  ASSUME NEW file \in Files, NEW io, io = [stage |-> "rename", file |-> file]
  PROVE  IoOK(io) /\ io.stage = "rename" /\ io.file = file
BY DEF IoOK

(* A process at rest between two writes.                                   *)
LEMMA AtSays ==
  ASSUME FreshInv, NEW p \in Procs, NEW pc, At(p, pc)
  PROVE  /\ ProcOK(procs[p]) /\ procs[p].pc = pc /\ procs[p].io = NoIo
         /\ ProcFresh(procs[p])
BY DEF FreshInv, ShapesOK, At, ProcOK, IoOK, NoIo

LEMMA FreshFails ==
  ASSUME FreshInv, NEW p \in Procs, Fail(p),
         UNCHANGED <<history, files, temps>>
  PROVE  FreshInv'
<1>1. PICK me : me = procs[p]
  OBVIOUS
<1>2. ProcOK(me) /\ ProcFresh(me)
  BY <1>1 DEF FreshInv, ShapesOK
<1>3. PICK r : r = [me EXCEPT !.pc = "failed", !.io = NoIo]
  OBVIOUS
<1>4. r = Me("failed", me.op, me.spec, me.todo, me.value, me.hit, me.got, NoIo, me.quiet)
  <2>1. me = Me(me.pc, me.op, me.spec, me.todo, me.value, me.hit, me.got, me.io, me.quiet)
    BY <1>2, ProcSays
  <2> QED BY ONLY <1>3, <2>1 DEF Me
<1>5. ProcOK(r)
  BY <1>2, <1>4, ProcSays, NoIoOK, MeIsProc DEF Pcs
<1>6. ProcFresh(r)
  BY <1>2, <1>4, NoIoOK, MeFields DEF ProcFresh
<1> QED BY <1>1, <1>3, <1>5, <1>6, FreshProcess DEF Fail

-----------------------------------------------------------------------------
(* Each action keeps FreshInv.  First those of one process that write no   *)
(* file: what it will write is fresh.                                      *)

LEMMA MeIsFresh ==
  ASSUME NEW pc, NEW op, NEW spec, NEW todo, NEW value, NEW hit, NEW got, NEW io, NEW quiet,
         Range(todo) \subseteq Range(history),
         pc = "index" => value = Fresh(Head(todo), spec),
         IoFresh(io),
         NEW me, me = Me(pc, op, spec, todo, value, hit, got, io, quiet)
  PROVE  ProcFresh(me)
BY MeFields DEF ProcFresh

LEMMA TailStays ==
  ASSUME NEW todo \in Seq(Nat), todo # << >>
  PROVE  Tail(todo) \in Seq(Nat) /\ Range(Tail(todo)) \subseteq Range(todo)
         /\ Head(todo) \in Range(todo) /\ Head(todo) \in Nat
<1>1. Tail(todo) \in Seq(Nat) /\ Head(todo) \in Nat
  OBVIOUS
<1>2. DOMAIN Tail(todo) = 1..(Len(todo) - 1)
      /\ \A i \in 1..(Len(todo) - 1) : Tail(todo)[i] = todo[i + 1] /\ i + 1 \in 1..Len(todo)
  OBVIOUS
<1>3. Head(todo) = todo[1] /\ 1 \in DOMAIN todo /\ DOMAIN todo = 1..Len(todo)
  OBVIOUS
<1> QED BY <1>1, <1>2, <1>3 DEF Range

LEMMA WritesProjection ==
  ASSUME NEW value, NEW io, io = Write("projections", ProjectionRow(value))
  PROVE  IoOK(io) /\ IoFresh(io) /\ io.stage = "read" /\ io.file = "projections"
<1>1. "projections" \in Files /\ "projections" # M
  BY DEF Files, M
<1> QED BY <1>1, ReadOK DEF Write, IoFresh

(* A process at rest, taken apart.                                         *)
LEMMA AtRest ==
  ASSUME FreshInv, NEW p \in Procs, NEW pc, At(p, pc), NEW me, me = procs[p]
  PROVE  /\ me = Me(pc, me.op, me.spec, me.todo, me.value, me.hit, me.got, NoIo, me.quiet)
         /\ pc \in Pcs /\ me.hit \in BOOLEAN /\ me.quiet \in BOOLEAN
         /\ me.todo \in Seq(Nat)
         /\ pc \in {"compute", "index", "next"} => me.todo # << >>
         /\ Range(me.todo) \subseteq Range(history)
         /\ pc = "index" => me.value = Fresh(Head(me.todo), me.spec)
<1>1. /\ ProcOK(me) /\ me.pc = pc /\ me.io = NoIo
      /\ ProcFresh(me)
  BY AtSays
<1> QED BY <1>1, ProcSays DEF ProcFresh

LEMMA FreshStrip ==
  ASSUME FreshInv, NEW p \in Procs, Strip(p)
  PROVE  FreshInv'
<1>1. PICK me : me = procs[p]
  OBVIOUS
<1>2. At(p, "strip") /\ UNCHANGED <<history, files, temps>>
  BY DEF Strip
<1>3. CASE files["measurements"].ok
  <2>1. PICK rows : rows = {r \in Rows("measurements") : r.key[2] # me.spec}
    OBVIOUS
  <2>2. PICK io : io = [stage |-> "open", file |-> M, rows |-> rows]
    OBVIOUS
  <2>3. PICK r : r = [me EXCEPT !.pc = "look", !.io = io]
    OBVIOUS
  <2>4. Goto(p, r)
    BY <1>1, <1>3, <2>1, <2>2, <2>3 DEF Strip, M
  <2>5. r = Me("look", me.op, me.spec, me.todo, me.value, me.hit, me.got, io, me.quiet)
    <3>1. me = Me("strip", me.op, me.spec, me.todo, me.value, me.hit, me.got, NoIo, me.quiet)
      BY <1>1, <1>2, AtRest
    <3> QED BY ONLY <2>3, <3>1 DEF Me
  <2>6. IoOK(io) /\ io.stage = "open" /\ io.rows = rows
    <3>1. M \in Files
      BY DEF M, Files
    <3> QED BY <2>2, <3>1, OpenOK
  <2>7. IoFresh(io)
    BY <2>1, <2>6 DEF FreshInv, FreshRows, M, IoFresh
  <2>8. ProcOK(r)
    BY <1>1, <1>2, <2>5, <2>6, AtRest, MeIsProc DEF Pcs
  <2>9. ProcFresh(r)
    BY <1>1, <1>2, <2>5, <2>7, AtRest, MeIsFresh
  <2> QED BY <1>2, <2>4, <2>8, <2>9, FreshProcess
<1>4. CASE ~files["measurements"].ok
  BY <1>2, <1>4, FreshFails DEF Strip
<1> QED BY <1>3, <1>4

LEMMA FreshLook ==
  ASSUME FreshInv, NEW p \in Procs, Look(p) \/ Miss(p)
  PROVE  FreshInv'
<1>1. PICK me : me = procs[p]
  OBVIOUS
<1>2. At(p, "look") /\ UNCHANGED <<history, files, temps>> /\ me.todo # << >>
  BY <1>1 DEF Look, Miss
<1>3. me = Me("look", me.op, me.spec, me.todo, me.value, me.hit, me.got, NoIo, me.quiet)
  BY <1>1, <1>2, AtRest
<1>99. /\ me.hit \in BOOLEAN /\ me.quiet \in BOOLEAN /\ me.todo \in Seq(Nat)
      /\ Range(me.todo) \subseteq Range(history)
  BY <1>1, <1>2, AtRest
<1>4. ASSUME NEW value, NEW io, io = Write("projections", ProjectionRow(value)),
             Goto(p, [me EXCEPT !.pc = "next", !.value = value, !.hit = TRUE, !.io = io])
      PROVE  FreshInv'
  <2>1. PICK r : r = [me EXCEPT !.pc = "next", !.value = value, !.hit = TRUE, !.io = io]
    OBVIOUS
  <2>2. r = Me("next", me.op, me.spec, me.todo, value, TRUE, me.got, io, me.quiet)
    BY ONLY <1>3, <2>1 DEF Me
  <2>3. IoOK(io) /\ IoFresh(io)
    BY <1>4, WritesProjection
  <2>4. ProcOK(r)
    BY <1>2, <1>99, <2>2, <2>3, MeIsProc DEF Pcs
  <2>5. ProcFresh(r)
    BY <1>99, <2>2, <2>3, MeIsFresh
  <2> QED BY <1>2, <1>4, <2>1, <2>4, <2>5, FreshProcess
<1>5. ASSUME Goto(p, [me EXCEPT !.pc = "compute"])
      PROVE  FreshInv'
  <2>1. PICK r : r = [me EXCEPT !.pc = "compute"]
    OBVIOUS
  <2>2. r = Me("compute", me.op, me.spec, me.todo, me.value, me.hit, me.got, NoIo, me.quiet)
    BY ONLY <1>3, <2>1 DEF Me
  <2>4. ProcOK(r)
    BY <1>2, <1>99, <2>2, NoIoOK, MeIsProc DEF Pcs
  <2>5. ProcFresh(r)
    BY <1>99, <2>2, NoIoOK, MeIsFresh
  <2> QED BY <1>2, <1>5, <2>1, <2>4, <2>5, FreshProcess
<1>6. CASE Miss(p)
  BY <1>1, <1>5, <1>6 DEF Miss
<1>7. CASE Look(p)
  <2>1. PICK value : value = CHOOSE v \in Cached(Head(me.todo), me.spec) : TRUE
    OBVIOUS
  <2>2. PICK io : io = Write("projections", ProjectionRow(value))
    OBVIOUS
  <2>3. \/ Goto(p, [me EXCEPT !.pc = "next", !.value = value, !.hit = TRUE, !.io = io])
        \/ Goto(p, [me EXCEPT !.pc = "compute"])
    BY <1>1, <1>7, <2>1, <2>2 DEF Look
  <2> QED BY <1>4, <1>5, <2>2, <2>3
<1> QED BY <1>6, <1>7

LEMMA FreshCompute ==
  ASSUME FreshInv, NEW p \in Procs, Compute(p)
  PROVE  FreshInv'
<1>1. PICK me : me = procs[p]
  OBVIOUS
<1>2. At(p, "compute") /\ UNCHANGED <<history, files, temps>>
  BY DEF Compute
<1>3. me = Me("compute", me.op, me.spec, me.todo, me.value, me.hit, me.got, NoIo, me.quiet)
  BY <1>1, <1>2, AtRest
<1>4. /\ me.hit \in BOOLEAN /\ me.quiet \in BOOLEAN /\ me.todo \in Seq(Nat)
      /\ Range(me.todo) \subseteq Range(history)
      /\ me.todo # << >>
  BY <1>1, <1>2, AtRest
<1>5. PICK value : value = Fresh(Head(me.todo), me.spec)
  OBVIOUS
<1>6. PICK io : io = Write("projections", ProjectionRow(value))
  OBVIOUS
<1>7. PICK r : r = [me EXCEPT !.pc = "index", !.value = value, !.hit = FALSE, !.io = io]
  OBVIOUS
<1>8. Goto(p, r) \/ Fail(p)
  BY <1>1, <1>5, <1>6, <1>7 DEF Compute
<1>9. r = Me("index", me.op, me.spec, me.todo, value, FALSE, me.got, io, me.quiet)
  BY ONLY <1>3, <1>7 DEF Me
<1>10. IoOK(io) /\ IoFresh(io)
  BY <1>6, WritesProjection
<1>11. ProcOK(r)
  BY <1>4, <1>9, <1>10, MeIsProc DEF Pcs
<1>12. ProcFresh(r)
  BY <1>4, <1>5, <1>9, <1>10, MeIsFresh
<1>13. CASE Goto(p, r)
  BY <1>2, <1>11, <1>12, <1>13, FreshProcess
<1>14. CASE Fail(p)
  BY <1>2, <1>14, FreshFails
<1> QED BY <1>8, <1>13, <1>14

LEMMA FreshIndex ==
  ASSUME FreshInv, NEW p \in Procs, Index(p)
  PROVE  FreshInv'
<1>1. PICK me : me = procs[p]
  OBVIOUS
<1>2. At(p, "index") /\ UNCHANGED <<history, files, temps>>
  BY DEF Index
<1>3. me = Me("index", me.op, me.spec, me.todo, me.value, me.hit, me.got, NoIo, me.quiet)
  BY <1>1, <1>2, AtRest
<1>4. /\ me.hit \in BOOLEAN /\ me.quiet \in BOOLEAN /\ me.todo \in Seq(Nat)
      /\ Range(me.todo) \subseteq Range(history)
      /\ me.todo # << >>
      /\ me.value = Fresh(Head(me.todo), me.spec)
  BY <1>1, <1>2, AtRest
<1>5. PICK row : row = Row(me.value, FALSE)
  OBVIOUS
<1>6. PICK io : io = Write(M, row)
  OBVIOUS
<1>7. PICK r : r = [me EXCEPT !.pc = "next", !.io = io]
  OBVIOUS
<1>8. Goto(p, r)
  BY <1>1, <1>5, <1>6, <1>7 DEF Index, M
<1>9. r = Me("next", me.op, me.spec, me.todo, me.value, me.hit, me.got, io, me.quiet)
  BY ONLY <1>3, <1>7 DEF Me
<1>10. IoOK(io) /\ io.stage = "read" /\ io.row = row
  <2>1. M \in Files
    BY DEF M, Files
  <2> QED BY <1>6, <2>1, ReadOK DEF Write
<1>11. ProcOK(r)
  BY <1>4, <1>9, <1>10, MeIsProc DEF Pcs
<1>12. IoFresh(io)
  <2>1. SUFFICES FreshRow(row)
    BY <1>10 DEF IoFresh
  <2>2. Head(me.todo) \in Range(history)
    BY <1>4, <2>1, TailStays
  <2>3. me.value[1] = Head(me.todo) /\ me.value[2] = me.spec
    BY <1>4, <2>1 DEF Fresh
  <2>4. row.data.value = me.value /\ row.key[1] = me.value[1] /\ row.key[2] = me.value[2]
    BY <1>5 DEF Row
  <2> QED BY <1>4, <2>1, <2>2, <2>3, <2>4 DEF FreshRow
<1>13. ProcFresh(r)
  BY <1>4, <1>9, <1>12, MeIsFresh
<1> QED BY <1>2, <1>8, <1>11, <1>13, FreshProcess

LEMMA FreshNextCommit ==
  ASSUME FreshInv, NEW p \in Procs, NextCommit(p)
  PROVE  FreshInv'
<1>1. PICK me : me = procs[p]
  OBVIOUS
<1>2. At(p, "next") /\ UNCHANGED <<history, files, temps>>
  BY DEF NextCommit
<1>3. me = Me("next", me.op, me.spec, me.todo, me.value, me.hit, me.got, NoIo, me.quiet)
  BY <1>1, <1>2, AtRest
<1>4. /\ me.hit \in BOOLEAN /\ me.quiet \in BOOLEAN /\ me.todo \in Seq(Nat)
      /\ Range(me.todo) \subseteq Range(history)
      /\ me.todo # << >>
  BY <1>1, <1>2, AtRest
<1>5. PICK rest : rest = Tail(me.todo)
  OBVIOUS
<1>6. PICK all : all = Append(me.got, me.value)
  OBVIOUS
<1>7. PICK r : r = [me EXCEPT !.pc = "look", !.todo = rest, !.got = all]
  OBVIOUS
<1>8. Goto(p, r)
  BY <1>1, <1>5, <1>6, <1>7 DEF NextCommit
<1>9. r = Me("look", me.op, me.spec, rest, me.value, me.hit, all, NoIo, me.quiet)
  <2>1. PICK op, spec, todo, value, hit, got, io, quiet :
          /\ op = me.op /\ spec = me.spec /\ todo = me.todo /\ value = me.value
          /\ hit = me.hit /\ got = me.got /\ io = NoIo /\ quiet = me.quiet
    OBVIOUS
  <2>2. me = Me("next", op, spec, todo, value, hit, got, io, quiet)
    BY <1>3, <2>1
  <2>3. r = Me("look", op, spec, rest, value, hit, all, io, quiet)
    BY ONLY <1>7, <2>2 DEF Me
  <2> QED BY <2>1, <2>3
<1>10. rest \in Seq(Nat) /\ Range(rest) \subseteq Range(history)
  BY <1>4, <1>5, TailStays
<1>11. ProcOK(r)
  BY <1>4, <1>9, <1>10, NoIoOK, MeIsProc DEF Pcs
<1>12. ProcFresh(r)
  BY <1>9, <1>10, NoIoOK, MeIsFresh
<1> QED BY <1>2, <1>8, <1>11, <1>12, FreshProcess

LEMMA FreshFinish ==
  ASSUME FreshInv, NEW p \in Procs, Finish(p)
  PROVE  FreshInv'
<1>1. PICK me : me = procs[p]
  OBVIOUS
<1>2. At(p, "look") /\ UNCHANGED <<history, files, temps>>
  BY DEF Finish
<1>3. me = Me("look", me.op, me.spec, me.todo, me.value, me.hit, me.got, NoIo, me.quiet)
  BY <1>1, <1>2, AtRest
<1>4. /\ me.hit \in BOOLEAN /\ me.quiet \in BOOLEAN /\ me.todo \in Seq(Nat)
      /\ Range(me.todo) \subseteq Range(history)
  BY <1>1, <1>2, AtRest
<1>5. CASE Goto(p, [me EXCEPT !.pc = "done"])
  <2>1. PICK r : r = [me EXCEPT !.pc = "done"]
    OBVIOUS
  <2>2. r = Me("done", me.op, me.spec, me.todo, me.value, me.hit, me.got, NoIo, me.quiet)
    BY ONLY <1>3, <2>1 DEF Me
  <2>3. ProcOK(r)
    BY <1>4, <2>2, NoIoOK, MeIsProc DEF Pcs
  <2>4. ProcFresh(r)
    BY <1>4, <2>2, NoIoOK, MeIsFresh
  <2> QED BY <1>2, <1>5, <2>1, <2>3, <2>4, FreshProcess
<1>6. CASE Fail(p)
  BY <1>2, <1>6, FreshFails
<1>7. PICK row : row = [key |-> "name", data |-> <<"baseline", me.got>>]
  OBVIOUS
<1>8. PICK io : io = Write("baselines", row)
  OBVIOUS
<1>9. CASE Goto(p, [me EXCEPT !.pc = "saved", !.io = io])
  <2>1. PICK r : r = [me EXCEPT !.pc = "saved", !.io = io]
    OBVIOUS
  <2>2. r = Me("saved", me.op, me.spec, me.todo, me.value, me.hit, me.got, io, me.quiet)
    BY ONLY <1>3, <2>1 DEF Me
  <2>3. IoOK(io) /\ IoFresh(io)
    <3>1. "baselines" \in Files /\ "baselines" # M
      BY DEF Files, M
    <3> QED BY <1>8, <3>1, ReadOK DEF Write, IoFresh
  <2>4. ProcOK(r)
    BY <1>4, <2>2, <2>3, MeIsProc DEF Pcs
  <2>5. ProcFresh(r)
    BY <1>4, <2>2, <2>3, MeIsFresh
  <2> QED BY <1>2, <1>9, <2>1, <2>4, <2>5, FreshProcess
<1> QED BY <1>1, <1>5, <1>6, <1>7, <1>8, <1>9 DEF Finish

LEMMA FreshSaved ==
  ASSUME FreshInv, NEW p \in Procs, Saved(p)
  PROVE  FreshInv'
<1>1. PICK me : me = procs[p]
  OBVIOUS
<1>2. At(p, "saved") /\ UNCHANGED <<history, files, temps>>
  BY DEF Saved
<1>3. me = Me("saved", me.op, me.spec, me.todo, me.value, me.hit, me.got, NoIo, me.quiet)
  BY <1>1, <1>2, AtRest
<1>4. /\ me.hit \in BOOLEAN /\ me.quiet \in BOOLEAN /\ me.todo \in Seq(Nat)
      /\ Range(me.todo) \subseteq Range(history)
  BY <1>1, <1>2, AtRest
<1>5. PICK r : r = [me EXCEPT !.pc = "done"]
  OBVIOUS
<1>6. Goto(p, r)
  BY <1>1, <1>5 DEF Saved
<1>7. r = Me("done", me.op, me.spec, me.todo, me.value, me.hit, me.got, NoIo, me.quiet)
  BY ONLY <1>3, <1>5 DEF Me
<1>8. ProcOK(r)
  BY <1>4, <1>7, NoIoOK, MeIsProc DEF Pcs
<1>9. ProcFresh(r)
  BY <1>4, <1>7, NoIoOK, MeIsFresh
<1> QED BY <1>2, <1>6, <1>8, <1>9, FreshProcess

(* A process between two writes, or in the middle of one: only its write   *)
(* changes.                                                                *)
LEMMA OtherIo ==
  ASSUME NEW me, ProcOK(me), NEW io, IoOK(io), NEW r, r = [me EXCEPT !.io = io]
  PROVE  ProcOK(r) /\ r.io = io /\ (ProcFresh(me) /\ IoFresh(io) => ProcFresh(r))
<1>1. me = Me(me.pc, me.op, me.spec, me.todo, me.value, me.hit, me.got, me.io, me.quiet)
  BY ProcSays
<1>2. r = Me(me.pc, me.op, me.spec, me.todo, me.value, me.hit, me.got, io, me.quiet)
  BY ONLY <1>1, r = [me EXCEPT !.io = io] DEF Me
<1>3. /\ me.pc \in Pcs /\ me.hit \in BOOLEAN /\ me.quiet \in BOOLEAN /\ me.todo \in Seq(Nat)
      /\ me.pc \in {"compute", "index", "next"} => me.todo # << >>
  BY ProcSays
<1>4. ProcOK(r)
  BY <1>2, <1>3, MeIsProc
<1>5. ProcFresh(me) /\ IoFresh(io) => ProcFresh(r)
  BY <1>2, MeIsFresh DEF ProcFresh
<1>6. r.io = io
  BY <1>2, MeFields
<1> QED BY <1>4, <1>5, <1>6

LEMMA FreshIoFails ==
  ASSUME FreshInv, NEW p \in Procs, IoFails(p),
         UNCHANGED <<history, files, temps>>
  PROVE  FreshInv'
<1>1. PICK me : me = procs[p]
  OBVIOUS
<1>2. ProcOK(me) /\ ProcFresh(me)
  BY <1>1 DEF FreshInv, ShapesOK
<1>3. PICK r : r = [me EXCEPT !.pc = "compute", !.io = NoIo, !.hit = FALSE]
  OBVIOUS
<1>4. (Goto(p, r) /\ me.pc = "next") \/ Fail(p)
  BY <1>1, <1>3 DEF IoFails
<1>5. r = Me("compute", me.op, me.spec, me.todo, me.value, FALSE, me.got, NoIo, me.quiet)
  <2>1. me = Me(me.pc, me.op, me.spec, me.todo, me.value, me.hit, me.got, me.io, me.quiet)
    BY <1>2, ProcSays
  <2> QED BY ONLY <1>3, <2>1 DEF Me
<1>6. CASE Goto(p, r) /\ me.pc = "next"
  <2>1. /\ me.hit \in BOOLEAN /\ me.quiet \in BOOLEAN /\ me.todo \in Seq(Nat)
        /\ me.todo # << >>
    BY <1>2, <1>6, ProcSays
  <2>2. Range(me.todo) \subseteq Range(history)
    BY <1>2 DEF ProcFresh
  <2>3. ProcOK(r)
    BY <1>5, <2>1, NoIoOK, MeIsProc DEF Pcs
  <2>4. ProcFresh(r)
    BY <1>5, <2>2, NoIoOK, MeIsFresh
  <2> QED BY <1>6, <2>3, <2>4, FreshProcess
<1>7. CASE Fail(p)
  BY <1>7, FreshFails
<1> QED BY <1>4, <1>6, <1>7

LEMMA FreshReadRows ==
  ASSUME FreshInv, NEW p \in Procs, ReadRows(p)
  PROVE  FreshInv'
<1>1. PICK me, io : me = procs[p] /\ io = me.io
  OBVIOUS
<1>2. ProcOK(me) /\ ProcFresh(me) /\ io.stage = "read" /\ io.file \in Files
  <2>1. ProcOK(me) /\ ProcFresh(me) /\ io.stage = "read"
    BY <1>1 DEF FreshInv, ShapesOK, ReadRows
  <2>2. IoOK(io)
    BY <1>1, <2>1, ProcSays
  <2> QED BY <2>1, <2>2 DEF IoOK, NoIo
<1>3. UNCHANGED <<history, files, temps>>
  BY DEF ReadRows
<1>4. CASE files[io.file].ok
  <2>1. PICK rows : rows = Upsert(Rows(io.file), io.row)
    OBVIOUS
  <2>2. PICK next : next = [stage |-> "open", file |-> io.file, rows |-> rows]
    OBVIOUS
  <2>3. PICK r : r = [me EXCEPT !.io = next]
    OBVIOUS
  <2>4. Goto(p, r)
    BY <1>1, <1>4, <2>1, <2>2, <2>3 DEF ReadRows
  <2>5. IoOK(next) /\ next.stage = "open" /\ next.file = io.file /\ next.rows = rows
    BY <1>2, <2>2, OpenOK
  <2>6. IoFresh(next)
    <3>1. SUFFICES ASSUME io.file = M PROVE FreshRows(rows)
      BY <2>5 DEF IoFresh
    <3>2. FreshRow(io.row) /\ FreshRows(Rows(M))
      BY <1>1, <1>2, <3>1 DEF ProcFresh, IoFresh, FreshInv
    <3> QED BY <2>1, <3>1, <3>2 DEF FreshRows, Upsert
  <2>7. ProcOK(r) /\ ProcFresh(r)
    BY <1>2, <2>3, <2>5, <2>6, OtherIo
  <2> QED BY <1>3, <2>4, <2>7, FreshProcess
<1>5. CASE ~files[io.file].ok
  <2>1. IoFails(p)
    BY <1>1, <1>5 DEF ReadRows
  <2> QED BY <1>3, <2>1, FreshIoFails
<1> QED BY <1>4, <1>5

LEMMA FreshOpen ==
  ASSUME FreshInv, NEW p \in Procs, Open(p)
  PROVE  FreshInv'
<1>1. PICK me, io : me = procs[p] /\ io = me.io
  OBVIOUS
<1>2. ProcOK(me) /\ ProcFresh(me) /\ io.stage = "open" /\ io.file \in Files
  <2>1. ProcOK(me) /\ ProcFresh(me) /\ io.stage = "open"
    BY <1>1 DEF FreshInv, ShapesOK, Open
  <2>2. IoOK(io)
    BY <1>1, <2>1, ProcSays
  <2> QED BY <2>1, <2>2 DEF IoOK, NoIo
<1>3. PICK next : next = [stage |-> "fill", file |-> io.file, rows |-> io.rows, at |-> "temp"]
  OBVIOUS
<1>4. PICK r : r = [me EXCEPT !.io = next]
  OBVIOUS
<1>5. /\ Goto(p, r) /\ temps' = [temps EXCEPT ![io.file] = <<Partial>>]
      /\ UNCHANGED <<history, files>>
  BY <1>1, <1>3, <1>4 DEF Open, OpenTemp
<1>6. IoOK(next) /\ next.stage = "fill" /\ next.file = io.file /\ next.rows = io.rows
  BY <1>2, <1>3, FillOK
<1>7. IoFresh(next)
  BY <1>1, <1>2, <1>6 DEF ProcFresh, IoFresh
<1>8. ProcOK(r) /\ ProcFresh(r)
  BY <1>2, <1>4, <1>6, <1>7, OtherIo
<1>9. FilesOK'
  BY <1>2, <1>5 DEF FreshInv, ShapesOK, FilesOK, Partial
<1>10. FreshRows(files'[M].rows)
  BY <1>5 DEF FreshInv, Rows
<1>11. (temps'[M] # << >> => FreshRows(temps'[M][1].rows))
  <2>1. temps'[M] = temps[M] \/ temps'[M] = <<Partial>>
    BY <1>5 DEF FreshInv, ShapesOK, FilesOK
  <2> QED BY <2>1 DEF FreshInv, FreshRows, Partial
<1> QED BY <1>5, <1>8, <1>9, <1>10, <1>11, Goes, FreshStep

(* A file filled: half of it, or the rows of the writer.                   *)
LEMMA FilledSays ==
  ASSUME NEW content, NEW rows, NEW filled, filled = Filled(content, rows)
  PROVE  /\ filled = [ok |-> filled.ok, rows |-> filled.rows] /\ filled.ok \in BOOLEAN
         /\ FreshRows(rows) => FreshRows(filled.rows)
BY DEF Filled, Partial, FreshRows

LEMMA FreshFill ==
  ASSUME FreshInv, NEW p \in Procs, Fill(p)
  PROVE  FreshInv'
<1>1. PICK me, io : me = procs[p] /\ io = me.io
  OBVIOUS
<1>2. ProcOK(me) /\ ProcFresh(me) /\ io.stage = "fill" /\ io.file \in Files
  <2>1. ProcOK(me) /\ ProcFresh(me) /\ io.stage = "fill"
    BY <1>1 DEF FreshInv, ShapesOK, Fill
  <2>2. IoOK(io)
    BY <1>1, <2>1, ProcSays
  <2> QED BY <2>1, <2>2 DEF IoOK, NoIo
<1>3. PICK next : next = [stage |-> "rename", file |-> io.file]
  OBVIOUS
<1>4. PICK r : r = [me EXCEPT !.io = next]
  OBVIOUS
<1>5. Goto(p, r) /\ UNCHANGED history
  BY <1>1, <1>3, <1>4 DEF Fill
<1>6. IoOK(next) /\ IoFresh(next)
  BY <1>2, <1>3, RenameOK DEF IoFresh
<1>7. ProcOK(r) /\ ProcFresh(r)
  BY <1>2, <1>4, <1>6, OtherIo
<1>8. io.file = M => FreshRows(io.rows)
  BY <1>1, <1>2 DEF ProcFresh, IoFresh
<1>9. \/ UNCHANGED temps
      \/ \E filled : /\ filled = Filled(temps[io.file][1], io.rows)
                     /\ temps' = [temps EXCEPT ![io.file] = <<filled>>]
  BY <1>1 DEF Fill
<1>10. \/ UNCHANGED files
       \/ \E filled : /\ filled = Filled(files[io.file], io.rows)
                      /\ files' = [files EXCEPT ![io.file] = filled]
  BY <1>1 DEF Fill
<1>11. /\ temps' = [f \in Files |-> temps'[f]]
       /\ \A f \in Files : temps'[f] # << >> =>
            temps'[f] = << [ok |-> temps'[f][1].ok, rows |-> temps'[f][1].rows] >>
              /\ temps'[f][1].ok \in BOOLEAN
       /\ (temps'[M] # << >> => FreshRows(temps'[M][1].rows))
  <2>1. CASE UNCHANGED temps
    BY <2>1 DEF FreshInv, ShapesOK, FilesOK
  <2>2. ASSUME NEW filled, filled = Filled(temps[io.file][1], io.rows),
               temps' = [temps EXCEPT ![io.file] = <<filled>>]
        PROVE  <1>11!:
    <3>1. /\ filled = [ok |-> filled.ok, rows |-> filled.rows] /\ filled.ok \in BOOLEAN
          /\ FreshRows(io.rows) => FreshRows(filled.rows)
      BY <2>2, FilledSays
    <3>2. temps'[io.file] = <<filled>> /\ \A f \in Files : f # io.file => temps'[f] = temps[f]
      BY <1>2, <2>2 DEF FreshInv, ShapesOK, FilesOK
    <3>3. temps' = [f \in Files |-> temps'[f]]
      BY <2>2 DEF FreshInv, ShapesOK, FilesOK
    <3>4. \A f \in Files : temps'[f] # << >> =>
            temps'[f] = << [ok |-> temps'[f][1].ok, rows |-> temps'[f][1].rows] >>
              /\ temps'[f][1].ok \in BOOLEAN
      <4>1. temps'[io.file][1] = filled
        BY <3>2
      <4>2. temps'[io.file] = << [ok |-> temps'[io.file][1].ok, rows |-> temps'[io.file][1].rows] >>
              /\ temps'[io.file][1].ok \in BOOLEAN
        BY <3>1, <3>2, <4>1
      <4>3. \A f \in Files : temps[f] # << >> =>
              temps[f] = << [ok |-> temps[f][1].ok, rows |-> temps[f][1].rows] >>
                /\ temps[f][1].ok \in BOOLEAN
        BY DEF FreshInv, ShapesOK, FilesOK
      <4> QED BY <3>2, <4>2, <4>3
    <3>5. (temps'[M] # << >> => FreshRows(temps'[M][1].rows))
      <4>1. M \in Files
        BY DEF M, Files
      <4> QED BY <1>8, <3>1, <3>2, <4>1 DEF FreshInv
    <3> QED BY <3>3, <3>4, <3>5
  <2> QED BY <1>9, <2>1, <2>2
<1>12. /\ files' = [f \in Files |-> [ok |-> files'[f].ok, rows |-> files'[f].rows]]
       /\ \A f \in Files : files'[f].ok \in BOOLEAN
       /\ FreshRows(files'[M].rows)
  <2>1. CASE UNCHANGED files
    BY <2>1 DEF FreshInv, ShapesOK, FilesOK, Rows
  <2>2. ASSUME NEW filled, filled = Filled(files[io.file], io.rows),
               files' = [files EXCEPT ![io.file] = filled]
        PROVE  <1>12!:
    <3>1. /\ filled = [ok |-> filled.ok, rows |-> filled.rows] /\ filled.ok \in BOOLEAN
          /\ FreshRows(io.rows) => FreshRows(filled.rows)
      BY <2>2, FilledSays
    <3>2. files'[io.file] = filled /\ \A f \in Files : f # io.file => files'[f] = files[f]
      BY <1>2, <2>2 DEF FreshInv, ShapesOK, FilesOK
    <3>3. files' = [f \in Files |-> files'[f]]
      BY <2>2 DEF FreshInv, ShapesOK, FilesOK
    <3>4. \A f \in Files : files'[f] = [ok |-> files'[f].ok, rows |-> files'[f].rows]
                            /\ files'[f].ok \in BOOLEAN
      <4>1. \A f \in Files : /\ files[f] = [ok |-> files[f].ok, rows |-> files[f].rows]
                             /\ files[f].ok \in BOOLEAN
        BY DEF FreshInv, ShapesOK, FilesOK
      <4>2. \A f \in Files : files'[f] = filled \/ files'[f] = files[f]
        BY <3>2
      <4> QED BY <3>1, <4>1, <4>2
    <3>5. FreshRows(files'[M].rows)
      <4>1. M \in Files
        BY DEF M, Files
      <4> QED BY <1>8, <3>1, <3>2, <4>1 DEF FreshInv, Rows
    <3> QED BY <3>3, <3>4, <3>5
  <2> QED BY <1>10, <2>1, <2>2
<1>13. FilesOK'
  BY <1>11, <1>12 DEF FilesOK
<1> QED BY <1>5, <1>7, <1>11, <1>12, <1>13, Goes, FreshStep

LEMMA MovedSays ==
  ASSUME NEW io, IoOK(io), NEW file, NEW moved, moved = Moved(io, file)
  PROVE  IoOK(moved) /\ (IoFresh(io) => IoFresh(moved))
<1>1. CASE io.stage = "fill" /\ io.file = file
  <2>1. /\ io.file \in Files /\ io.at \in {"temp", "file", "gone"}
        /\ io = [stage |-> "fill", file |-> io.file, rows |-> io.rows, at |-> io.at]
    BY <1>1 DEF IoOK, NoIo
  <2>2. PICK at : at = IF io.at = "temp" THEN "file" ELSE "gone"
    OBVIOUS
  <2>3. moved = [stage |-> "fill", file |-> io.file, rows |-> io.rows, at |-> at]
    <3>1. moved = [io EXCEPT !.at = at]
      BY <1>1, <2>2 DEF Moved
    <3> QED BY ONLY <3>1, <2>1
  <2>4. /\ IoOK(moved) /\ moved.stage = "fill" /\ moved.file = io.file
        /\ moved.rows = io.rows
    BY <2>1, <2>2, <2>3, FillOK
  <2> QED BY <1>1, <2>4 DEF IoFresh
<1>2. CASE ~(io.stage = "fill" /\ io.file = file)
  <2>1. moved = io
    BY <1>2 DEF Moved
  <2> QED BY <2>1
<1> QED BY <1>1, <1>2

LEMMA FreshRename ==
  ASSUME FreshInv, NEW p \in Procs, Rename(p)
  PROVE  FreshInv'
<1>1. PICK file : file = procs[p].io.file
  OBVIOUS
<1>2. file \in Files /\ UNCHANGED history
  <2>1. ProcOK(procs[p]) /\ procs[p].io.stage = "rename"
    BY DEF FreshInv, ShapesOK, Rename
  <2>2. IoOK(procs[p].io)
    BY <2>1, ProcSays
  <2> QED BY <1>1, <2>1, <2>2 DEF IoOK, NoIo, Rename
<1>3. CASE temps[file] = << >>
  BY <1>1, <1>2, <1>3, FreshIoFails DEF Rename
<1>4. CASE temps[file] # << >>
  <2>1. /\ files' = [files EXCEPT ![file] = temps[file][1]]
        /\ temps' = [temps EXCEPT ![file] = << >>]
        /\ procs' = [q \in Procs |-> [procs[q] EXCEPT !.io = IF q = p THEN NoIo
                                                           ELSE Moved(@, file)]]
    BY <1>1, <1>4 DEF Rename
  <2>2. ASSUME NEW q \in Procs
        PROVE  ProcOK(procs'[q]) /\ ProcFresh(procs'[q])
    <3>1. PICK me : me = procs[q]
      OBVIOUS
    <3>2. ProcOK(me) /\ ProcFresh(me)
      BY <3>1 DEF FreshInv, ShapesOK
    <3>3. PICK io : io = IF q = p THEN NoIo ELSE Moved(me.io, file)
      OBVIOUS
    <3>4. procs'[q] = [me EXCEPT !.io = io]
      BY <2>1, <3>1, <3>3
    <3>5. IoOK(io) /\ IoFresh(io)
      <4>1. IoOK(me.io) /\ IoFresh(me.io)
        BY <3>2, ProcSays DEF ProcFresh
      <4> QED BY <3>3, <4>1, NoIoOK, MovedSays
    <3> QED BY <3>2, <3>4, <3>5, OtherIo
  <2>3. procs' = [q \in Procs |-> procs'[q]]
    BY <2>1
  <2>4. files'[file] = temps[file][1] /\ \A f \in Files : f # file => files'[f] = files[f]
    BY <1>2, <2>1 DEF FreshInv, ShapesOK, FilesOK
  <2>5. temps'[file] = << >> /\ \A f \in Files : f # file => temps'[f] = temps[f]
    BY <1>2, <2>1 DEF FreshInv, ShapesOK, FilesOK
  <2>6. FilesOK'
    <3>1. \A f \in Files : temps'[f] # << >> =>
            temps'[f] = << [ok |-> temps'[f][1].ok, rows |-> temps'[f][1].rows] >>
              /\ temps'[f][1].ok \in BOOLEAN
      BY <2>5 DEF FreshInv, ShapesOK, FilesOK
    <3>2. temps' = [f \in Files |-> temps'[f]] /\ files' = [f \in Files |-> files'[f]]
      BY <2>1 DEF FreshInv, ShapesOK, FilesOK
    <3>3. PICK content : content = temps[file][1]
      OBVIOUS
    <3>4. content = [ok |-> content.ok, rows |-> content.rows] /\ content.ok \in BOOLEAN
      <4>1. temps[file] = << [ok |-> content.ok, rows |-> content.rows] >> /\ content.ok \in BOOLEAN
        BY <1>2, <1>4, <3>3 DEF FreshInv, ShapesOK, FilesOK
      <4> QED BY <3>3, <4>1
    <3>5. \A f \in Files : files'[f] = [ok |-> files'[f].ok, rows |-> files'[f].rows]
                            /\ files'[f].ok \in BOOLEAN
      <4> SUFFICES ASSUME NEW f \in Files
                   PROVE  /\ files'[f] = [ok |-> files'[f].ok, rows |-> files'[f].rows]
                          /\ files'[f].ok \in BOOLEAN
        OBVIOUS
      <4>1. CASE f = file
        <5>1. files'[f] = content
          BY <2>4, <3>3, <4>1
        <5> QED BY <3>4, <5>1
      <4>2. CASE f # file
        <5>1. files'[f] = files[f]
          BY <2>4, <4>2
        <5>2. files[f] = [ok |-> files[f].ok, rows |-> files[f].rows] /\ files[f].ok \in BOOLEAN
          BY DEF FreshInv, ShapesOK, FilesOK
        <5> QED BY <5>1, <5>2
      <4> QED BY <4>1, <4>2
    <3> QED BY <3>1, <3>2, <3>5 DEF FilesOK
  <2>7. FreshRows(files'[M].rows) /\ (temps'[M] # << >> => FreshRows(temps'[M][1].rows))
    <3>1. M \in Files
      BY DEF M, Files
    <3> QED BY <1>4, <2>4, <2>5, <3>1 DEF FreshInv, Rows
  <2> QED BY <1>2, <2>2, <2>3, <2>6, <2>7, FreshStep
<1> QED BY <1>3, <1>4

(* Whether a process was alone says nothing of its rows.                   *)
LEMMA UnquietSays ==
  ASSUME NEW me, ProcOK(me), NEW r, r = [me EXCEPT !.quiet = FALSE]
  PROVE  ProcOK(r) /\ (ProcFresh(me) => ProcFresh(r)) /\ r.quiet = FALSE
         /\ r.io = me.io /\ r.pc = me.pc
<1>1. me = Me(me.pc, me.op, me.spec, me.todo, me.value, me.hit, me.got, me.io, me.quiet)
  BY ProcSays
<1>2. PICK quiet \in BOOLEAN : quiet = FALSE
  OBVIOUS
<1>3. r = Me(me.pc, me.op, me.spec, me.todo, me.value, me.hit, me.got, me.io, quiet)
  BY ONLY <1>1, <1>2, r = [me EXCEPT !.quiet = FALSE] DEF Me
<1>4. /\ me.pc \in Pcs /\ me.hit \in BOOLEAN /\ me.todo \in Seq(Nat) /\ IoOK(me.io)
      /\ me.pc \in {"compute", "index", "next"} => me.todo # << >>
  BY ProcSays
<1>5. ProcOK(r)
  BY <1>2, <1>4, <1>3, MeIsProc
<1>6. ProcFresh(me) => ProcFresh(r)
  BY <1>3, MeIsFresh DEF ProcFresh
<1>7. r.io = me.io /\ r.pc = me.pc /\ r.quiet = FALSE
  BY <1>2, <1>3, MeFields
<1> QED BY <1>5, <1>6, <1>7

LEMMA UnquietStays ==
  ASSUME FreshInv, NEW all, all = Unquiet(procs)
  PROVE  /\ all = [q \in Procs |-> all[q]]
         /\ \A q \in Procs : ProcOK(all[q]) /\ all[q].quiet = FALSE
         /\ \A q \in Procs : ProcFresh(all[q])
<1>1. all = [q \in Procs |-> [procs[q] EXCEPT !.quiet = FALSE]]
  BY DEF Unquiet
<1>2. ASSUME NEW q \in Procs
      PROVE  ProcOK(all[q]) /\ all[q].quiet = FALSE /\ ProcFresh(all[q])
  <2>1. ProcOK(procs[q]) /\ ProcFresh(procs[q])
    BY DEF FreshInv, ShapesOK
  <2>2. all[q] = [procs[q] EXCEPT !.quiet = FALSE]
    BY <1>1
  <2> QED BY <2>1, <2>2, UnquietSays
<1> QED BY <1>1, <1>2

LEMMA SpendSays ==
  ASSUME BoundsAssumption, BudgetOK, NEW kind \in {"commit", "gc", "damage", "crash", "drop"}, Spend(kind)
  PROVE  /\ BudgetOK' /\ budget'[kind] = budget[kind] - 1
         /\ kind # "drop" => budget'["drop"] = budget["drop"]
<1>1. /\ budget[kind] > 0 /\ budget \in [{"commit", "gc", "damage", "crash", "drop"} -> Nat]
      /\ budget' = [budget EXCEPT ![kind] = budget[kind] - 1]
      /\ budget["commit"] < MaxCommits /\ budget["drop"] <= MaxDrops
  BY DEF BudgetOK, Spend
<1>2. PICK rest \in Nat : rest = budget[kind] - 1 /\ rest < budget[kind]
  BY <1>1
<1>3. budget' = [budget EXCEPT ![kind] = rest]
  BY <1>1, <1>2
<1>4. /\ budget' \in [{"commit", "gc", "damage", "crash", "drop"} -> Nat]
      /\ \A k \in {"commit", "gc", "damage", "crash", "drop"} :
           budget'[k] = IF k = kind THEN rest ELSE budget[k]
  BY <1>1, <1>3
<1>5. budget'["commit"] < MaxCommits /\ budget'["drop"] <= MaxDrops
  BY <1>1, <1>2, <1>4 DEF BoundsAssumption
<1> QED BY <1>2, <1>4, <1>5 DEF BudgetOK

LEMMA IdleOK == ProcOK(Idle) /\ ProcFresh(Idle)
<1>1. PICK idle : idle = Me("idle", "none", 0, << >>, << >>, FALSE, << >>, NoIo, FALSE)
  OBVIOUS
<1>2. idle = Idle
  BY <1>1 DEF Me, Idle
<1>3. << >> \in Seq(Nat) /\ Range(<< >>) \subseteq Range(history)
  BY DEF Range
<1>4. ProcOK(idle)
  BY <1>1, <1>3, NoIoOK, MeIsProc DEF Pcs
<1>5. ProcFresh(idle)
  BY <1>1, <1>3, NoIoOK, MeIsFresh
<1> QED BY <1>2, <1>4, <1>5

LEMMA FreshCrash ==
  ASSUME FreshInv, NEW p \in Procs, Crash(p)
  PROVE  FreshInv'
BY IdleOK, FreshProcess DEF Crash

(* Collections and damage: of objects, that no row is said to be of.       *)
LEMMA FreshAround ==
  ASSUME FreshInv, procs' = Unquiet(procs), UNCHANGED <<history, files, temps>>
  PROVE  FreshInv'
<1>1. FilesOK'
  BY DEF FreshInv, ShapesOK, FilesOK
<1>2. FreshRows(files'[M].rows) /\ (temps'[M] # << >> => FreshRows(temps'[M][1].rows))
  BY DEF FreshInv, Rows
<1>3. /\ procs' = [q \in Procs |-> procs'[q]]
      /\ \A q \in Procs : ProcOK(procs'[q])
      /\ \A q \in Procs : ProcFresh(procs'[q])
  BY UnquietStays
<1> QED BY <1>1, <1>2, <1>3, FreshStep

(* A process that begins has the whole history before it.                  *)
LEMMA FreshBegin ==
  ASSUME FreshInv, NEW p \in Procs, NEW op, NEW spec, Begin(p, op, spec)
  PROVE  FreshInv'
<1>1. PICK alone \in BOOLEAN :
        alone = \A q \in Procs \ {p} : procs[q].pc \in {"idle", "done", "failed"}
  OBVIOUS
<1>2. PICK all : all = IF alone THEN procs ELSE Unquiet(procs)
  OBVIOUS
<1>3. PICK pc \in {"strip", "look"} : pc = IF op = "rebuild" THEN "strip" ELSE "look"
  OBVIOUS
<1>4. PICK r : r = [Idle EXCEPT !.op = op, !.spec = spec, !.quiet = alone,
                      !.todo = history, !.pc = pc]
  OBVIOUS
<1>5. procs' = [all EXCEPT ![p] = r] /\ UNCHANGED <<history, files, temps>>
  BY <1>1, <1>2, <1>3, <1>4 DEF Begin
<1>6. r = Me(pc, op, spec, history, << >>, FALSE, << >>, NoIo, alone)
  BY ONLY <1>4 DEF Me, Idle
<1>7. ProcOK(r) /\ ProcFresh(r)
  <2>1. history \in Seq(Nat) /\ pc \in Pcs /\ pc \notin {"compute", "index", "next"}
    BY <1>3 DEF FreshInv, ShapesOK, Pcs
  <2>2. PICK hit \in BOOLEAN : hit = FALSE
    OBVIOUS
  <2>3. r = Me(pc, op, spec, history, << >>, hit, << >>, NoIo, alone)
    BY <1>6, <2>2
  <2>4. ProcOK(r)
    BY <2>1, <2>3, NoIoOK, MeIsProc
  <2>5. ProcFresh(r)
    BY <2>1, <2>3, NoIoOK, MeIsFresh
  <2> QED BY <2>4, <2>5
<1>8. /\ all = [q \in Procs |-> all[q]]
      /\ \A q \in Procs : ProcOK(all[q]) /\ ProcFresh(all[q])
  <2>1. CASE alone
    BY <1>2, <2>1 DEF FreshInv, ShapesOK
  <2>2. CASE ~alone
    BY <1>2, <2>2, UnquietStays
  <2> QED BY <2>1, <2>2
<1>9. /\ procs' = [q \in Procs |-> procs'[q]]
      /\ \A q \in Procs : ProcOK(procs'[q]) /\ ProcFresh(procs'[q])
  BY <1>5, <1>7, <1>8
<1>10. FilesOK'
  BY <1>5 DEF FreshInv, ShapesOK, FilesOK
<1>11. FreshRows(files'[M].rows) /\ (temps'[M] # << >> => FreshRows(temps'[M][1].rows))
  BY <1>5 DEF FreshInv, Rows
<1> QED BY <1>5, <1>9, <1>10, <1>11, FreshStep

(* What comes after a commit of the history is not of its past.            *)
LEMMA PriorStays ==
  ASSUME history \in Seq(Nat), NEW new \in Nat, history' = Append(history, new)
  PROVE  /\ history' \in Seq(Nat) /\ Range(history) \subseteq Range(history')
         /\ \A commit \in Range(history) : \A spec : Fresh(commit, spec)' = Fresh(commit, spec)
<1>1. PICK n \in Nat : n = Len(history)
  OBVIOUS
<1>2. /\ DOMAIN history = 1..n /\ DOMAIN history' = 1..(n + 1)
      /\ \A i \in 1..n : history'[i] = history[i]
      /\ history' \in Seq(Nat)
  BY <1>1
<1>3. Range(history) \subseteq Range(history')
  BY <1>2 DEF Range
<1>4. ASSUME NEW commit \in Range(history)
      PROVE  {i \in DOMAIN history' : \A j \in 1..i : history'[j] # commit}
               = {i \in DOMAIN history : \A j \in 1..i : history[j] # commit}
  <2>1. PICK k \in 1..n : history[k] = commit
    BY <1>2 DEF Range
  <2>2. ASSUME NEW i \in 1..(n + 1), \A j \in 1..i : history'[j] # commit
        PROVE  i \in 1..n /\ \A j \in 1..i : history[j] # commit
    <3>1. ~(k \in 1..i)
      BY <1>2, <2>1, <2>2
    <3>2. i \in 1..n
      BY <2>1, <3>1
    <3>3. \A j \in 1..i : j \in 1..n
      BY <3>2
    <3> QED BY <1>2, <2>2, <3>2, <3>3
  <2>3. ASSUME NEW i \in 1..n, \A j \in 1..i : history[j] # commit
        PROVE  i \in 1..(n + 1) /\ \A j \in 1..i : history'[j] # commit
    <3>1. \A j \in 1..i : j \in 1..n
      OBVIOUS
    <3> QED BY <1>2, <2>3, <3>1
  <2> QED BY <1>2, <2>2, <2>3
<1>5. \A commit \in Range(history) : Prior(commit)' = Prior(commit)
  BY <1>4 DEF Prior
<1>6. \A commit \in Range(history) : \A spec : Fresh(commit, spec)' = Fresh(commit, spec)
  BY <1>5 DEF Fresh
<1> QED BY <1>2, <1>3, <1>6

LEMMA FreshCommit ==
  ASSUME BoundsAssumption, FreshInv, BudgetOK, Commit
  PROVE  FreshInv'
<1>1. PICK new \in Nat : history' = Append(history, new)
  <2>1. MaxCommits - budget["commit"] + 1 \in Nat
    BY DEF BoundsAssumption, BudgetOK
  <2> QED BY <2>1 DEF Commit
<1>2. procs' = Unquiet(procs) /\ UNCHANGED <<files, temps>>
  BY DEF Commit
<1>3. /\ history' \in Seq(Nat) /\ Range(history) \subseteq Range(history')
      /\ \A commit \in Range(history) : \A spec : Fresh(commit, spec)' = Fresh(commit, spec)
  BY <1>1, PriorStays DEF FreshInv, ShapesOK
<1>4. \A row : FreshRow(row) => FreshRow(row)'
  BY <1>3 DEF FreshRow
<1>5. \A rows : FreshRows(rows) => FreshRows(rows)'
  BY <1>4 DEF FreshRows
<1>6. \A io : IoFresh(io) => IoFresh(io)'
  BY <1>4, <1>5 DEF IoFresh
<1>7. ASSUME NEW me, ProcOK(me), ProcFresh(me)
      PROVE  ProcFresh(me)'
  <2>1. Range(me.todo) \subseteq Range(history) /\ IoFresh(me.io)
    BY <1>7 DEF ProcFresh
  <2>2. ASSUME me.pc = "index"
        PROVE  me.value = Fresh(Head(me.todo), me.spec)'
    <3>1. me.todo \in Seq(Nat) /\ me.todo # << >>
      BY <1>7, <2>2, ProcSays
    <3>2. Head(me.todo) \in Range(history)
      BY <2>1, <3>1, TailStays
    <3> QED BY <1>3, <1>7, <2>2, <3>2 DEF ProcFresh
  <2> QED BY <1>3, <1>6, <2>1, <2>2 DEF ProcFresh
<1>8. /\ procs' = [q \in Procs |-> procs'[q]]
      /\ \A q \in Procs : ProcOK(procs'[q]) /\ ProcFresh(procs'[q])
  BY <1>2, UnquietStays
<1>9. ShapesOK'
  BY <1>2, <1>3, <1>8 DEF FreshInv, ShapesOK, FilesOK
<1>10. \A q \in Procs : ProcFresh(procs[q])'
  BY <1>7, <1>8
<1>11. FreshRows(Rows(M))' /\ (temps'[M] # << >> => FreshRows(temps[M][1].rows)')
  BY <1>2, <1>5 DEF FreshInv, Rows
<1> QED BY <1>9, <1>10, <1>11 DEF FreshInv

-----------------------------------------------------------------------------
(* Rows and hits of any processes.                                         *)

LEMMA GrownInit ==
  ASSUME BoundsAssumption, Init
  PROVE  GrownInv
<1>1. history \in Seq(Nat) /\ Range(history) = {1} /\ history = <<1>>
  BY DEF Init, Range
<1>2. PICK rows \in {{}} \cup (IF LegacyRows THEN {{Row(<<1, s, 9>>, TRUE) : s \in Specs}} ELSE {}) :
        files = [f \in Files |-> [ok |-> TRUE, rows |-> IF f = "measurements" THEN rows ELSE {}]]
  BY DEF Init
<1>3. \A row \in rows : row.data.stale
  BY <1>2 DEF Row
<1>4. /\ \A f \in Files : files[f].ok = TRUE /\ files[f] = [ok |-> files[f].ok, rows |-> files[f].rows]
      /\ files = [f \in Files |-> files[f]]
  BY <1>2
<1>5. FilesOK
  BY <1>4 DEF Init, FilesOK
<1>6. M \in Files
  BY DEF M, Files
<1>7. FreshRows(Rows(M)) /\ temps[M] = << >>
  BY <1>2, <1>3, <1>6 DEF Init, FreshRows, FreshRow, Rows, M
<1>8. BudgetOK
  BY DEF BoundsAssumption, Init, BudgetOK
<1>9. procs = [p \in Procs |-> Idle]
  BY DEF Init
<1> QED BY <1>1, <1>5, <1>7, <1>8, <1>9, IdleOK DEF GrownInv, FreshInv, ShapesOK

LEMMA FreshNext ==
  ASSUME BoundsAssumption, FreshInv, BudgetOK, Next, ~DropRejected
  PROVE  FreshInv'
<1>1. ASSUME NEW p \in Procs, NEW op \in Operations, NEW spec \in Specs, Begin(p, op, spec)
      PROVE  FreshInv'
  BY <1>1, FreshBegin
<1>2. ASSUME NEW p \in Procs, Strip(p) \/ Look(p) \/ Miss(p) \/ Compute(p) \/ Index(p)
      PROVE  FreshInv'
  BY <1>2, FreshStrip, FreshLook, FreshCompute, FreshIndex
<1>3. ASSUME NEW p \in Procs, NextCommit(p) \/ Finish(p) \/ Saved(p) \/ Crash(p)
      PROVE  FreshInv'
  BY <1>3, FreshNextCommit, FreshFinish, FreshSaved, FreshCrash
<1>4. ASSUME NEW p \in Procs, ReadRows(p) \/ Open(p) \/ Fill(p) \/ Rename(p)
      PROVE  FreshInv'
  BY <1>4, FreshReadRows, FreshOpen, FreshFill, FreshRename
<1>5. ASSUME Commit
      PROVE  FreshInv'
  BY <1>5, FreshCommit
<1>6. ASSUME Collect \/ \E object \in objects : Damage(object)
      PROVE  FreshInv'
  BY <1>6, FreshAround DEF Collect, Damage
<1> QED BY <1>1, <1>2, <1>3, <1>4, <1>5, <1>6 DEF Next

(* Every step leaves the budget or spends of it.                           *)
LEMMA BudgetStays ==
  ASSUME BoundsAssumption, BudgetOK, [Next]_vars
  PROVE  BudgetOK'
<1>1. UNCHANGED budget => BudgetOK'
  BY DEF BudgetOK
<1>2. \A kind \in {"commit", "gc", "damage", "crash", "drop"} : Spend(kind) => BudgetOK'
  BY SpendSays
<1>3. ASSUME NEW p \in Procs, NEW op, NEW spec,
             \/ Begin(p, op, spec) \/ Strip(p) \/ Look(p) \/ Miss(p) \/ Compute(p) \/ Index(p)
             \/ NextCommit(p) \/ Finish(p) \/ Saved(p)
             \/ ReadRows(p) \/ Open(p) \/ Fill(p) \/ Rename(p)
      PROVE  UNCHANGED budget
  BY <1>3 DEF Begin, Strip, Look, Miss, Compute, Index, NextCommit, Finish, Saved,
              ReadRows, Open, Fill, Rename
<1>4. \A p \in Procs : Crash(p) => Spend("crash")
  BY DEF Crash
<1>5. /\ Commit => Spend("commit")
      /\ DropRejected => Spend("drop")
      /\ Collect => Spend("gc")
      /\ \A object \in objects : Damage(object) => Spend("damage")
  BY DEF Commit, DropRejected, Collect, Damage
<1>6. CASE Next
  BY <1>1, <1>2, <1>3, <1>4, <1>5, <1>6 DEF Next
<1>7. CASE UNCHANGED vars
  BY <1>1, <1>7 DEF vars
<1> QED BY <1>6, <1>7

(* Once lossy, a history is so for ever.                                   *)
LEMMA LosslessWas ==
  ASSUME BoundsAssumption, BudgetOK, Lossless', [Next]_vars
  PROVE  Lossless /\ ~DropRejected
<1>1. ~DropRejected
  <2>1. SUFFICES ASSUME DropRejected PROVE ~Lossless'
    OBVIOUS
  <2>2. budget'["drop"] = budget["drop"] - 1 /\ rejected' # {}
    BY <2>1, SpendSays DEF DropRejected
  <2>3. budget["drop"] \in Nat /\ budget["drop"] <= MaxDrops
    BY DEF BudgetOK
  <2> QED BY <2>2, <2>3 DEF BoundsAssumption, Lossless
<1>2. ASSUME Next
      PROVE  rejected \subseteq rejected'
  BY <1>2 DEF Next, Begin, Strip, Look, Miss, Compute, Index, NextCommit, Finish, Saved,
              ReadRows, Open, Fill, Rename, Crash, Commit, DropRejected, Collect, Damage
<1>3. ASSUME Next
      PROVE  budget'["drop"] = budget["drop"]
  <2>1. \A kind \in {"commit", "gc", "damage", "crash"} :
          Spend(kind) => budget'["drop"] = budget["drop"]
    BY SpendSays
  <2>2. ASSUME NEW p \in Procs, NEW op, NEW spec,
               \/ Begin(p, op, spec) \/ Strip(p) \/ Look(p) \/ Miss(p) \/ Compute(p) \/ Index(p)
               \/ NextCommit(p) \/ Finish(p) \/ Saved(p)
               \/ ReadRows(p) \/ Open(p) \/ Fill(p) \/ Rename(p)
        PROVE  UNCHANGED budget
    BY <2>2 DEF Begin, Strip, Look, Miss, Compute, Index, NextCommit, Finish, Saved,
                ReadRows, Open, Fill, Rename
  <2>3. \A p \in Procs : Crash(p) => Spend("crash")
    BY DEF Crash
  <2>4. /\ Commit => Spend("commit")
        /\ Collect => Spend("gc")
        /\ \A object \in objects : Damage(object) => Spend("damage")
    BY DEF Commit, Collect, Damage
  <2> QED BY <1>1, <1>3, <2>1, <2>2, <2>3, <2>4 DEF Next
<1>4. CASE Next
  BY <1>1, <1>2, <1>3, <1>4 DEF Lossless
<1>5. CASE UNCHANGED vars
  BY <1>1, <1>5 DEF vars, Lossless
<1> QED BY <1>4, <1>5

LEMMA FreshSame ==
  ASSUME FreshInv, UNCHANGED vars
  PROVE  FreshInv'
<1>1. FilesOK'
  BY DEF FreshInv, ShapesOK, FilesOK, vars
<1>2. FreshRows(files'[M].rows) /\ (temps'[M] # << >> => FreshRows(temps'[M][1].rows))
  BY DEF FreshInv, Rows, vars
<1>3. UNCHANGED <<history, procs>>
  BY DEF vars
<1>4. /\ procs' = [q \in Procs |-> procs'[q]]
      /\ \A q \in Procs : ProcOK(procs'[q])
      /\ \A q \in Procs : ProcFresh(procs'[q])
  BY <1>3 DEF FreshInv, ShapesOK
<1> QED BY <1>1, <1>2, <1>3, <1>4, FreshStep

LEMMA GrownStep ==
  ASSUME BoundsAssumption, GrownInv, [Next]_vars
  PROVE  GrownInv'
BY BudgetStays, LosslessWas, FreshNext, FreshSame DEF GrownInv

(* What the cache returns: the value of a row.                             *)
LEMMA CachedSays ==
  ASSUME FreshInv, NEW commit, NEW spec, NEW value \in Cached(commit, spec)
  PROVE  value = Fresh(commit, spec) /\ Intact(value)
<1>1. PICK row \in Rows(M) :
        row.key = <<commit, spec>> /\ ~row.data.stale /\ value = row.data.value
          /\ Intact(row.data.value)
  BY DEF Cached, RowsWith, M
<1>2. FreshRow(row)
  BY <1>1 DEF FreshInv, FreshRows
<1>3. row.key[1] = commit /\ row.key[2] = spec
  BY <1>1
<1> QED BY <1>1, <1>2, <1>3 DEF FreshRow

(* Only a look at the cache makes a process go on without computing.       *)
LEMMA OnlyLook ==
  ASSUME FreshInv, NEW p \in Procs, [Next]_vars,
         At(p, "look"), procs'[p].pc = "next"
  PROVE  Look(p)
<1>1. procs[p].pc = "look" /\ procs[p].io.stage = "none"
  BY DEF At
<1>2. ProcOK(procs[p]) /\ procs = [q \in Procs |-> procs[q]]
  BY DEF FreshInv, ShapesOK
<1>3. ASSUME NEW q \in Procs, q # p, \E r : Goto(q, r)
      PROVE  FALSE
  BY <1>1, <1>2, <1>3 DEF Goto
<1>4. \A all : all = Unquiet(procs) => all = [q \in Procs |-> all[q]] /\ all[p].pc = "look"
  <2>1. \A r : r = [procs[p] EXCEPT !.quiet = FALSE] => r.pc = "look"
    BY <1>1, <1>2, UnquietSays
  <2> QED BY <2>1 DEF Unquiet
<1>5. ASSUME NEW q \in Procs, NEW op, NEW spec, Begin(q, op, spec)
      PROVE  FALSE
  <2>1. q # p
    BY <1>1, <1>5 DEF Begin
  <2>2. PICK all, r : procs' = [all EXCEPT ![q] = r] /\ (all = procs \/ all = Unquiet(procs))
    BY <1>5 DEF Begin
  <2>3. all = [o \in Procs |-> all[o]] /\ all[p].pc = "look"
    BY <1>1, <1>2, <1>4, <2>2
  <2>4. procs'[p] = all[p]
    BY <2>1, <2>2, <2>3
  <2> QED BY <2>3, <2>4
<1>6. ASSUME NEW q \in Procs, q # p,
             \/ Strip(q) \/ Look(q) \/ Miss(q) \/ Compute(q) \/ Index(q) \/ NextCommit(q)
             \/ Finish(q) \/ Saved(q) \/ ReadRows(q) \/ Open(q) \/ Fill(q) \/ Crash(q)
      PROVE  FALSE
  <2>1. IoFails(q) \/ Fail(q) => \E r : Goto(q, r)
    BY DEF IoFails, Fail
  <2>2. \/ Strip(q) \/ Look(q) \/ Miss(q) \/ Compute(q) \/ Index(q) \/ NextCommit(q) => \E r : Goto(q, r)
    BY <2>1 DEF Strip, Look, Miss, Compute, Index, NextCommit
  <2>3. \/ Finish(q) \/ Saved(q) \/ ReadRows(q) \/ Open(q) \/ Fill(q) \/ Crash(q) => \E r : Goto(q, r)
    BY <2>1 DEF Finish, Saved, ReadRows, Open, OpenTemp, Fill, Crash
  <2> QED BY <1>3, <1>6, <2>2, <2>3
<1>7. ASSUME NEW q \in Procs, q # p, Rename(q)
      PROVE  FALSE
  <2>1. CASE temps[procs[q].io.file] = << >>
    BY <1>3, <1>7, <2>1 DEF Rename, IoFails, Fail
  <2>2. CASE temps[procs[q].io.file] # << >>
    <3>1. PICK io : procs'[p] = [procs[p] EXCEPT !.io = io]
      BY <1>7, <2>2 DEF Rename
    <3>2. procs'[p].pc = procs[p].pc
      BY <1>2, <3>1 DEF ProcOK
    <3> QED BY <1>1, <3>2
  <2> QED BY <2>1, <2>2
<1>8. ASSUME Strip(p) \/ Compute(p) \/ Index(p) \/ NextCommit(p) \/ Saved(p)
      PROVE  FALSE
  BY <1>1, <1>8 DEF Strip, Compute, Index, NextCommit, Saved, At
<1>9. ASSUME ReadRows(p) \/ Open(p) \/ Fill(p) \/ Rename(p)
      PROVE  FALSE
  BY <1>1, <1>9 DEF ReadRows, Open, Fill, Rename
<1>10. ASSUME NEW r, Goto(p, r)
       PROVE  procs'[p] = r
  BY <1>2, <1>10 DEF Goto
<1>11. ASSUME Miss(p) \/ Finish(p) \/ Crash(p)
       PROVE  FALSE
  <2>1. \A pc, io : LET r == [procs[p] EXCEPT !.pc = pc, !.io = io] IN r.pc = pc
    BY <1>2 DEF ProcOK
  <2>2. \A pc : LET r == [procs[p] EXCEPT !.pc = pc] IN r.pc = pc
    BY <1>2 DEF ProcOK
  <2>3. Fail(p) => procs'[p].pc = "failed"
    BY <1>10, <2>1 DEF Fail
  <2>4. Miss(p) => procs'[p].pc = "compute"
    BY <1>10, <2>2 DEF Miss
  <2>5. Finish(p) => procs'[p].pc \in {"done", "saved", "failed"}
    <3>1. Finish(p) => \/ Goto(p, [procs[p] EXCEPT !.pc = "done"])
                       \/ \E io : Goto(p, [procs[p] EXCEPT !.pc = "saved", !.io = io])
                       \/ Fail(p)
      BY DEF Finish
    <3>2. Goto(p, [procs[p] EXCEPT !.pc = "done"]) => procs'[p].pc = "done"
      BY <1>10, <2>2
    <3>3. (\E io : Goto(p, [procs[p] EXCEPT !.pc = "saved", !.io = io])) => procs'[p].pc = "saved"
      BY <1>10, <2>1
    <3> QED BY <2>3, <3>1, <3>2, <3>3
  <2>6. Crash(p) => procs'[p].pc = "idle"
    BY <1>10 DEF Crash, Idle
  <2> QED BY <1>11, <2>4, <2>5, <2>6
<1>12. ASSUME Commit \/ DropRejected \/ Collect \/ \E object \in objects : Damage(object)
       PROVE  FALSE
  <2>1. procs' = Unquiet(procs)
    BY <1>12 DEF Commit, DropRejected, Collect, Damage
  <2> QED BY <1>4, <2>1
<1>13. ASSUME UNCHANGED vars
       PROVE  FALSE
  BY <1>1, <1>13 DEF vars
<1> QED BY <1>5, <1>6, <1>7, <1>8, <1>9, <1>11, <1>12, <1>13 DEF Next

LEMMA HitStep ==
  ASSUME FreshInv, [Next]_vars
  PROVE  HitIsFresh
<1>1. SUFFICES ASSUME NEW p \in Procs, At(p, "look"), procs[p].todo # << >>, procs'[p].hit,
                      procs'[p].pc = "next"
               PROVE  /\ procs'[p].value = Fresh(Head(procs[p].todo), procs[p].spec)
                      /\ \A part \in PartsOf(procs'[p].value) : Readable(part)
  BY DEF HitIsFresh, At
<1>2. Look(p)
  BY <1>1, OnlyLook
<1>3. PICK me, commit, spec : me = procs[p] /\ commit = Head(me.todo) /\ spec = me.spec
  OBVIOUS
<1>4. me = Me("look", me.op, me.spec, me.todo, me.value, me.hit, me.got, NoIo, me.quiet)
  BY <1>1, <1>3, AtRest
<1>5. PICK value : value = CHOOSE v \in Cached(commit, spec) : TRUE
  OBVIOUS
<1>6. PICK io : io = Write("projections", ProjectionRow(value))
  OBVIOUS
<1>7. PICK r, c : /\ r = [me EXCEPT !.pc = "next", !.value = value, !.hit = TRUE, !.io = io]
                 /\ c = [me EXCEPT !.pc = "compute"]
  OBVIOUS
<1>8. Cached(commit, spec) # {} /\ (Goto(p, r) \/ Goto(p, c))
  BY <1>2, <1>3, <1>5, <1>6, <1>7 DEF Look
<1>9. value \in Cached(commit, spec)
  BY <1>5, <1>8
<1>10. r.value = value /\ c.pc = "compute"
  <2>1. r = Me("next", me.op, me.spec, me.todo, value, TRUE, me.got, io, me.quiet)
    BY ONLY <1>4, <1>7 DEF Me
  <2>2. c = Me("compute", me.op, me.spec, me.todo, me.value, me.hit, me.got, NoIo, me.quiet)
    BY ONLY <1>4, <1>7 DEF Me
  <2>3. r.value = value
    BY ONLY <2>1 DEF Me
  <2>4. c.pc = "compute"
    BY <2>2, MeFields
  <2> QED BY <2>3, <2>4
<1>11. procs'[p] = r
  BY <1>1, <1>8, <1>10 DEF Goto, FreshInv, ShapesOK
<1>12. value = Fresh(commit, spec) /\ Intact(value)
  BY <1>9, CachedSays
<1> QED BY <1>3, <1>10, <1>11, <1>12 DEF Intact

LEMMA FreshSays == FreshInv => RowsAreFresh
BY DEF FreshInv, RowsAreFresh, FreshRows, FreshRow, M

LEMMA GrownSays == GrownInv => RowsAreFresh
<1>1. ~Lossless => RowsAreFresh
  BY DEF RowsAreFresh
<1> QED BY <1>1, FreshSays DEF GrownInv

(* The rows of the index are what would be computed now, whoever else      *)
(* writes the index in the meantime.                                       *)
THEOREM CachedRowsAreFresh ==
  ASSUME BoundsAssumption
  PROVE  Spec => []RowsAreFresh
<1> QED BY GrownSays, GrownInit, GrownStep, PTL DEF Spec

(* A measurement taken from the cache is the one that would be computed,   *)
(* when no history loses a commit.                                         *)
THEOREM HitsAreFresh ==
  ASSUME BoundsAssumption, MaxDrops = 0
  PROVE  Spec => [][HitIsFresh]_vars
<1>1. GrownInv => FreshInv
  BY DEF GrownInv, BudgetOK, Lossless
<1> QED BY <1>1, GrownInit, GrownStep, HitStep, PTL DEF Spec

-----------------------------------------------------------------------------
(* A process that has the index to itself.                                 *)

LEMMA AloneStep ==
  ASSUME NEW p, FreshInv', NEW r, procs'[p] = r, FilesAlone(r.io)', QuietOK(r)'
  PROVE  AloneInv(p)'
BY DEF AloneInv

(* What is about the history stays while it grows.                         *)
LEMMA KeyedStays ==
  ASSUME Range(history) \subseteq Range(history')
  PROVE  \A rows : Keyed(rows) => Keyed(rows)'
BY DEF Keyed

LEMMA PendingSame ==
  ASSUME UNCHANGED <<files, temps>>
  PROVE  Rows(M)' = Rows(M) /\ \A io : Pending(io)' = Pending(io)
BY DEF Rows, Pending, Upsert, RowsWith

LEMMA PendingNone == Pending(NoIo) = Rows(M)
BY DEF Pending, NoIo

LEMMA FilesSame ==
  ASSUME NEW io, FilesAlone(io), UNCHANGED <<files, temps>>,
         Range(history) \subseteq Range(history'), NEW next, next = io \/ next = NoIo
  PROVE  FilesAlone(next)'
<1>1. Keyed(Rows(M)) /\ Keyed(Pending(next))
  BY PendingNone DEF FilesAlone
<1>2. Keyed(Rows(M))' /\ Keyed(Pending(next))'
  BY <1>1, KeyedStays, PendingSame
<1>3. next.stage \in {"fill", "rename"} => next = io
  BY NoIoOK
<1> QED BY <1>2, <1>3 DEF FilesAlone, Partial

(* A write begins.                                                         *)
LEMMA FilesBegun ==
  ASSUME NEW io, FilesAlone(io), UNCHANGED <<files, temps, history>>,
         NEW next, next.stage \in {"read", "open"}, Keyed(Pending(next))
  PROVE  FilesAlone(next)'
<1>1. Keyed(Rows(M)) /\ Keyed(Pending(next))
  BY DEF FilesAlone
<1>2. Keyed(Rows(M))' /\ Keyed(Pending(next))'
  BY <1>1, KeyedStays, PendingSame
<1> QED BY <1>2 DEF FilesAlone

(* A write goes on: what it will leave is the same.                        *)
LEMMA WriteGoes ==
  ASSUME NEW p, Procs = {p}, AloneInv(p),
         ReadRows(p) \/ Open(p) \/ Fill(p) \/ Rename(p)
  PROVE  \E next, r : /\ r = [procs[p] EXCEPT !.io = next] /\ procs'[p] = r /\ IoOK(next)
                     /\ Pending(next)' = Pending(procs[p].io)
                     /\ FilesAlone(next)'
                     /\ procs[p].io # NoIo
                     /\ UNCHANGED <<history, objects, damaged>>
<1>1. PICK me, io, file : me = procs[p] /\ io = me.io /\ file = io.file
  OBVIOUS
<1>2. /\ ProcOK(me) /\ IoOK(io) /\ FilesAlone(io) /\ io.stage \in {"read", "open", "fill", "rename"}
      /\ UNCHANGED <<history, objects, damaged>>
  <2>1. ProcOK(me) /\ FilesAlone(io)
    BY <1>1 DEF AloneInv, FreshInv, ShapesOK
  <2>2. IoOK(io)
    BY <1>1, <2>1, ProcSays
  <2>3. io.stage \in {"read", "open", "fill", "rename"} /\ UNCHANGED <<history, objects, damaged>>
    BY <1>1 DEF ReadRows, Open, Fill, Rename
  <2> QED BY <2>1, <2>2, <2>3
<1>3. io # NoIo /\ file \in Files
  BY <1>1, <1>2 DEF NoIo, IoOK
<1>4. /\ files = [f \in Files |-> files[f]] /\ temps = [f \in Files |-> temps[f]]
      /\ procs = [q \in Procs |-> procs[q]] /\ M \in Files
      /\ \A f \in Files : files[f].ok
  BY <1>2 DEF AloneInv, FreshInv, ShapesOK, FilesOK, FilesAlone, M, Files
<1>5. ASSUME NEW r, Goto(p, r)
      PROVE  procs'[p] = r
  BY <1>4, <1>5 DEF Goto
<1>6. \A rows : Keyed(rows)' <=> Keyed(rows)
  BY <1>2 DEF Keyed
<1>7. Keyed(Rows(M)) /\ Keyed(Pending(io))
  BY <1>2 DEF FilesAlone
<1>8. CASE ReadRows(p)
  <2>1. PICK rows : rows = Upsert(Rows(file), io.row)
    OBVIOUS
  <2>2. PICK next : next = [stage |-> "open", file |-> file, rows |-> rows]
    OBVIOUS
  <2>3. PICK r : r = [me EXCEPT !.io = next]
    OBVIOUS
  <2>4. procs'[p] = r /\ UNCHANGED <<files, temps>>
    BY <1>1, <1>3, <1>4, <1>5, <1>8, <2>1, <2>2, <2>3 DEF ReadRows
  <2>5. IoOK(next) /\ next.stage = "open" /\ next.file = file /\ next.rows = rows
    BY <1>3, <2>2, OpenOK
  <2>6. Pending(next) = Pending(io)
    <3>1. io.stage = "read"
      BY <1>1, <1>8 DEF ReadRows
    <3> QED BY <1>1, <2>1, <2>5, <3>1 DEF Pending
  <2>7. Pending(next)' = Pending(io)
    BY <2>4, <2>6, PendingSame
  <2>8. FilesAlone(next)'
    BY <1>2, <1>7, <2>4, <2>5, <2>6, FilesBegun
  <2> QED BY <1>1, <1>2, <1>3, <2>3, <2>4, <2>5, <2>7, <2>8
<1>9. CASE Open(p)
  <2>1. PICK next : next = [stage |-> "fill", file |-> file, rows |-> io.rows, at |-> "temp"]
    OBVIOUS
  <2>2. PICK r : r = [me EXCEPT !.io = next]
    OBVIOUS
  <2>3. /\ procs'[p] = r /\ temps' = [temps EXCEPT ![file] = <<Partial>>] /\ UNCHANGED files
        /\ io.stage = "open"
    BY <1>1, <1>5, <1>9, <2>1, <2>2 DEF Open, OpenTemp
  <2>4. /\ IoOK(next) /\ next.stage = "fill" /\ next.file = file /\ next.rows = io.rows
        /\ next.at = "temp"
    BY <1>3, <2>1, FillOK
  <2>5. Rows(M)' = Rows(M) /\ temps'[file] = <<Partial>>
    BY <1>3, <1>4, <2>3 DEF Rows
  <2>6. Pending(next)' = Pending(io)
    BY <1>1, <2>3, <2>4, <2>5 DEF Pending
  <2>7. Keyed(Rows(M))' /\ Keyed(Pending(next))'
    BY <1>6, <1>7, <2>5, <2>6
  <2>8. FilesAlone(next)'
    BY <1>4, <2>3, <2>4, <2>5, <2>7 DEF FilesAlone, Partial
  <2> QED BY <1>1, <1>2, <1>3, <2>2, <2>3, <2>4, <2>6, <2>8
<1>10. CASE Fill(p)
  <2>1. PICK next : next = [stage |-> "rename", file |-> file]
    OBVIOUS
  <2>2. PICK r : r = [me EXCEPT !.io = next]
    OBVIOUS
  <2>3. PICK filled : filled = [ok |-> TRUE, rows |-> io.rows]
    OBVIOUS
  <2>4. io.stage = "fill" /\ io.at = "temp" /\ temps[file] = <<Partial>>
    BY <1>1, <1>2, <1>10 DEF Fill, FilesAlone
  <2>5. filled = Filled(temps[file][1], io.rows)
    BY <2>3, <2>4 DEF Filled, Partial
  <2>6. procs'[p] = r /\ temps' = [temps EXCEPT ![file] = <<filled>>] /\ UNCHANGED files
    BY <1>1, <1>5, <1>10, <2>1, <2>2, <2>4, <2>5 DEF Fill
  <2>7. IoOK(next) /\ next.stage = "rename" /\ next.file = file
    BY <1>3, <2>1, RenameOK
  <2>8. Rows(M)' = Rows(M) /\ temps'[file] = <<filled>> /\ temps'[file][1] = filled
    BY <1>3, <1>4, <2>6 DEF Rows
  <2>9. Pending(next)' = Pending(io)
    BY <1>1, <2>3, <2>4, <2>7, <2>8 DEF Pending
  <2>10. Keyed(Rows(M))' /\ Keyed(Pending(next))'
    BY <1>6, <1>7, <2>8, <2>9
  <2>11. FilesAlone(next)'
    BY <1>4, <2>3, <2>6, <2>7, <2>8, <2>10 DEF FilesAlone
  <2> QED BY <1>1, <1>2, <1>3, <2>2, <2>6, <2>7, <2>9, <2>11
<1>11. CASE Rename(p)
  <2>1. io.stage = "rename" /\ temps[file] # << >> /\ temps[file][1].ok
    BY <1>1, <1>2, <1>11 DEF Rename, FilesAlone
  <2>2. PICK r : r = [me EXCEPT !.io = NoIo]
    OBVIOUS
  <2>3. /\ procs'[p] = r
        /\ files' = [files EXCEPT ![file] = temps[file][1]]
        /\ temps' = [temps EXCEPT ![file] = << >>]
    BY <1>1, <1>11, <2>1, <2>2 DEF Rename
  <2>4. /\ files'[file] = temps[file][1]
        /\ \A f \in Files : f # file => files'[f] = files[f]
    BY <1>3, <1>4, <2>3
  <2>5. Rows(M)' = Pending(io)
    BY <1>1, <1>4, <2>1, <2>4 DEF Pending, Rows
  <2>6. Pending(NoIo)' = Pending(io)
    BY <2>5, NoIoOK DEF Pending
  <2>7. Keyed(Rows(M))' /\ Keyed(Pending(NoIo))'
    BY <1>6, <1>7, <2>5, <2>6
  <2>8. FilesAlone(NoIo)'
    BY <1>4, <2>1, <2>4, <2>7, NoIoOK DEF FilesAlone
  <2> QED BY <1>1, <1>2, <1>3, <2>2, <2>3, <2>6, <2>8, NoIoOK
<1> QED BY <1>8, <1>9, <1>10, <1>11

(* What was sound stays so while objects are only added.                   *)
LEMMA SettledStays ==
  ASSUME UNCHANGED <<history, damaged>>, objects \subseteq objects'
  PROVE  /\ \A object : Readable(object) => Readable(object)'
         /\ \A value : Intact(value) => Intact(value)'
         /\ \A rows, commit, spec : Settled(rows, commit, spec) => Settled(rows, commit, spec)'
<1>1. \A object : Readable(object) => Readable(object)'
  BY DEF Readable
<1>2. \A value : Intact(value) => Intact(value)'
  BY <1>1 DEF Intact, PartsOf, Evidence, Component, Record
<1>3. \A row, spec : Sound(row, spec) => Sound(row, spec)'
  BY <1>2, SameHistory DEF Sound
<1>4. \A rows, commit, spec : Settled(rows, commit, spec) => Settled(rows, commit, spec)'
  BY <1>3 DEF Settled
<1> QED BY <1>1, <1>2, <1>4

(* A process that goes on with the same commit.                            *)
LEMMA QuietMoves ==
  ASSUME NEW me, NEW r, QuietOK(me), r.quiet = me.quiet,
         me.pc \in {"idle", "failed"} => r.pc = me.pc,
         r.todo = me.todo, r.spec = me.spec,
         UNCHANGED <<history, damaged>>, objects \subseteq objects',
         \/ ~me.quiet \/ me.pc = "strip"
         \/ \A commit : Settled(Pending(me.io), commit, me.spec) =>
                        Settled(Pending(r.io), commit, me.spec)',
         me.quiet /\ r.pc \in {"done", "saved"} => r.todo = << >>,
         me.quiet /\ r.pc = "done" => r.io = NoIo,
         r.pc = "strip" => me.pc = "strip",
         me.quiet /\ r.pc = "index" => Intact(r.value)',
         me.quiet /\ r.pc = "next" => Settled(Pending(r.io), Head(r.todo), r.spec)'
  PROVE  QuietOK(r)'
<1>1. SUFFICES ASSUME me.quiet, me.pc \notin {"idle", "failed"} PROVE QuietOK(r)'
  BY DEF QuietOK
<1>2. /\ Behind(me) \in Nat
      /\ \A i \in 1..Len(me.todo) : me.todo[i] = history[Behind(me) + i]
      /\ Readable(<<"spec", me.spec>>)
      /\ me.pc = "strip" => Behind(me) = 0
      /\ \A i \in 1..Behind(me) : Settled(Pending(me.io), history[i], me.spec)
  BY <1>1 DEF QuietOK
<1>3. Behind(r)' = Behind(me)
  BY DEF Behind
<1>4. Readable(<<"spec", me.spec>>)'
  BY <1>2, SettledStays
<1>5. \A i \in 1..Behind(me) : Settled(Pending(r.io), history[i], r.spec)'
  <2>1. \A i \in 1..Behind(me) : Settled(Pending(r.io), history[i], me.spec)'
    <3>1. CASE me.pc = "strip"
      <4>1. ~ \E i : i \in 1..Behind(me)
        BY <1>2, <3>1
      <4> QED BY <4>1
    <3>2. CASE me.pc # "strip"
      BY <1>1, <1>2, <3>2
    <3> QED BY <3>1, <3>2
  <2> QED BY <2>1
<1>6. \A i \in 1..Len(r.todo) : r.todo[i] = history'[Behind(me) + i]
  BY <1>2
<1> QED BY <1>1, <1>2, <1>3, <1>4, <1>5, <1>6 DEF QuietOK

LEMMA AloneWrites ==
  ASSUME NEW p, Procs = {p}, AloneInv(p), FreshInv',
         ReadRows(p) \/ Open(p) \/ Fill(p) \/ Rename(p)
  PROVE  AloneInv(p)'
<1>1. PICK me : me = procs[p]
  OBVIOUS
<1>2. PICK next, r : /\ r = [me EXCEPT !.io = next] /\ procs'[p] = r
                     /\ Pending(next)' = Pending(me.io)
                     /\ FilesAlone(next)'
                     /\ me.io # NoIo
                     /\ UNCHANGED <<history, objects, damaged>>
  BY <1>1, WriteGoes
<1>3. ProcOK(me) /\ QuietOK(me)
  BY <1>1 DEF AloneInv, FreshInv, ShapesOK
<1>4. r = Me(me.pc, me.op, me.spec, me.todo, me.value, me.hit, me.got, next, me.quiet)
  <2>1. me = Me(me.pc, me.op, me.spec, me.todo, me.value, me.hit, me.got, me.io, me.quiet)
    BY <1>3, ProcSays
  <2>2. r = [me EXCEPT !.io = next]
    BY <1>2
  <2> QED BY ONLY <2>1, <2>2 DEF Me
<1>5. /\ r.pc = me.pc /\ r.spec = me.spec /\ r.todo = me.todo /\ r.value = me.value
      /\ r.quiet = me.quiet /\ r.io = next
  BY <1>4, MeFields
<1>6. QuietOK(r)'
  <2>1. \A commit : Settled(Pending(me.io), commit, me.spec) => Settled(Pending(next), commit, me.spec)'
    BY <1>2, SettledStays
  <2>2. me.quiet => /\ me.pc \in {"done", "saved"} => me.todo = << >>
                    /\ me.pc # "done"
                    /\ me.pc = "index" => Intact(me.value)
                    /\ me.pc = "next" => Settled(Pending(me.io), Head(me.todo), me.spec)
    BY <1>2, <1>3 DEF QuietOK
  <2>3. me.quiet => /\ me.pc = "index" => Intact(me.value)'
                    /\ me.pc = "next" => Settled(Pending(next), Head(me.todo), me.spec)'
    BY <1>2, <2>1, <2>2, SettledStays
  <2> QED BY <1>2, <1>3, <1>5, <2>1, <2>2, <2>3, QuietMoves
<1> QED BY <1>2, <1>5, <1>6, AloneStep

LEMMA RestsAlone ==
  ASSUME NEW p \in Procs, AloneInv(p), NEW pc, At(p, pc), NEW me, me = procs[p]
  PROVE  /\ me = Me(pc, me.op, me.spec, me.todo, me.value, me.hit, me.got, NoIo, me.quiet)
         /\ me.todo \in Seq(Nat)
         /\ me.io = NoIo /\ Pending(me.io) = Rows(M) /\ FilesAlone(NoIo)
         /\ QuietOK(me) /\ me.pc = pc
         /\ pc \in {"compute", "index", "next"} => me.todo # << >>
<1>1. FreshInv /\ QuietOK(me) /\ FilesAlone(me.io)
  BY DEF AloneInv
<1>2. me.io = NoIo /\ me.pc = pc
  BY <1>1, AtSays
<1>3. /\ me = Me(pc, me.op, me.spec, me.todo, me.value, me.hit, me.got, NoIo, me.quiet)
      /\ me.todo \in Seq(Nat)
      /\ pc \in {"compute", "index", "next"} => me.todo # << >>
  BY <1>1, AtRest
<1> QED BY <1>1, <1>2, <1>3, PendingNone

LEMMA AloneFails ==
  ASSUME NEW p \in Procs, AloneInv(p), FreshInv', Fail(p), UNCHANGED <<files, temps, history>>
  PROVE  AloneInv(p)'
<1>1. PICK me : me = procs[p]
  OBVIOUS
<1>2. ProcOK(me) /\ FilesAlone(me.io) /\ procs = [q \in Procs |-> procs[q]]
  BY <1>1 DEF AloneInv, FreshInv, ShapesOK
<1>3. PICK r : r = [me EXCEPT !.pc = "failed", !.io = NoIo]
  OBVIOUS
<1>4. r = Me("failed", me.op, me.spec, me.todo, me.value, me.hit, me.got, NoIo, me.quiet)
  <2>1. me = Me(me.pc, me.op, me.spec, me.todo, me.value, me.hit, me.got, me.io, me.quiet)
    BY <1>2, ProcSays
  <2> QED BY ONLY <1>3, <2>1 DEF Me
<1>5. r.pc = "failed" /\ r.io = NoIo
  BY <1>4, MeFields
<1>6. procs'[p] = r
  BY <1>1, <1>2, <1>3 DEF Fail, Goto
<1>7. FilesAlone(r.io)'
  BY <1>2, <1>5, FilesSame
<1>8. QuietOK(r)'
  BY <1>5 DEF QuietOK
<1> QED BY <1>6, <1>7, <1>8, AloneStep

LEMMA AloneStrip ==
  ASSUME NEW p \in Procs, AloneInv(p), FreshInv', Strip(p)
  PROVE  AloneInv(p)'
<1>1. PICK me : me = procs[p]
  OBVIOUS
<1>2. At(p, "strip") /\ UNCHANGED <<history, objects, damaged, files, temps>>
  BY DEF Strip
<1>3. /\ me = Me("strip", me.op, me.spec, me.todo, me.value, me.hit, me.got, NoIo, me.quiet)
      /\ FilesAlone(NoIo) /\ QuietOK(me) /\ me.pc = "strip" /\ me.io = NoIo
  BY <1>1, <1>2, RestsAlone
<1>4. CASE files["measurements"].ok
  <2>1. PICK rows : rows = {r \in Rows("measurements") : r.key[2] # me.spec}
    OBVIOUS
  <2>2. PICK io : io = [stage |-> "open", file |-> M, rows |-> rows]
    OBVIOUS
  <2>3. PICK r : r = [me EXCEPT !.pc = "look", !.io = io]
    OBVIOUS
  <2>4. procs'[p] = r
    BY <1>1, <1>4, <2>1, <2>2, <2>3 DEF Strip, M, Goto, AloneInv, FreshInv, ShapesOK
  <2>5. r = Me("look", me.op, me.spec, me.todo, me.value, me.hit, me.got, io, me.quiet)
    BY ONLY <1>3, <2>3 DEF Me
  <2>6. /\ r.pc = "look" /\ r.spec = me.spec /\ r.todo = me.todo /\ r.quiet = me.quiet
        /\ r.io = io
    BY <2>5, MeFields
  <2>7. io.stage = "open" /\ Pending(io) = rows
    BY <2>2 DEF Pending
  <2>8. FilesAlone(io)'
    <3>1. Keyed(rows)
      BY <1>3, <2>1 DEF FilesAlone, Keyed, M
    <3> QED BY <1>2, <1>3, <2>7, <3>1, FilesBegun
  <2>9. QuietOK(r)'
    BY <1>2, <1>3, <2>6, QuietMoves
  <2> QED BY <2>4, <2>6, <2>8, <2>9, AloneStep
<1>5. CASE ~files["measurements"].ok
  BY <1>2, <1>5, AloneFails DEF Strip
<1> QED BY <1>4, <1>5

(* A hit: the row it was found in is sound.                                *)
LEMMA CachedIsSettled ==
  ASSUME FreshInv, NEW commit, NEW spec, NEW value \in Cached(commit, spec)
  PROVE  Settled(Rows(M), commit, spec)
<1>1. PICK row \in Rows(M) :
        row.key = <<commit, spec>> /\ ~row.data.stale /\ Intact(row.data.value)
  BY DEF Cached, RowsWith, M
<1>2. FreshRow(row)
  BY <1>1 DEF FreshInv, FreshRows
<1>3. row.key[1] = commit /\ row.key[2] = spec
  BY <1>1
<1> QED BY <1>1, <1>2, <1>3 DEF FreshRow, Settled, Sound

LEMMA AloneLook ==
  ASSUME NEW p \in Procs, AloneInv(p), FreshInv', Look(p) \/ Miss(p)
  PROVE  AloneInv(p)'
<1>1. PICK me : me = procs[p]
  OBVIOUS
<1>2. /\ At(p, "look") /\ UNCHANGED <<history, damaged, files, temps>>
      /\ objects \subseteq objects'
  BY DEF Look, Miss
<1>3. /\ me = Me("look", me.op, me.spec, me.todo, me.value, me.hit, me.got, NoIo, me.quiet)
      /\ FilesAlone(NoIo) /\ QuietOK(me) /\ me.pc = "look" /\ me.io = NoIo
      /\ Pending(me.io) = Rows(M)
  BY <1>1, <1>2, RestsAlone
<1>4. ASSUME NEW r, Goto(p, r) PROVE procs'[p] = r
  BY <1>4 DEF Goto, AloneInv, FreshInv, ShapesOK
<1>5. ASSUME Goto(p, [me EXCEPT !.pc = "compute"])
      PROVE  AloneInv(p)'
  <2>1. PICK r : r = [me EXCEPT !.pc = "compute"]
    OBVIOUS
  <2>2. r = Me("compute", me.op, me.spec, me.todo, me.value, me.hit, me.got, NoIo, me.quiet)
    BY ONLY <1>3, <2>1 DEF Me
  <2>3. /\ r.pc = "compute" /\ r.spec = me.spec /\ r.todo = me.todo /\ r.quiet = me.quiet
        /\ r.io = NoIo
    BY <2>2, MeFields
  <2>4. \A commit : Settled(Pending(me.io), commit, me.spec) => Settled(Pending(r.io), commit, me.spec)'
    BY <1>2, <1>3, <2>3, PendingSame, SettledStays
  <2>5. QuietOK(r)'
    BY <1>2, <1>3, <2>3, <2>4, QuietMoves
  <2>6. FilesAlone(r.io)'
    BY <1>2, <1>3, <2>3, FilesSame
  <2> QED BY <1>4, <1>5, <2>1, <2>5, <2>6, AloneStep
<1>6. ASSUME NEW value \in Cached(Head(me.todo), me.spec), NEW io,
             io = Write("projections", ProjectionRow(value)),
             Goto(p, [me EXCEPT !.pc = "next", !.value = value, !.hit = TRUE, !.io = io])
      PROVE  AloneInv(p)'
  <2>1. PICK r : r = [me EXCEPT !.pc = "next", !.value = value, !.hit = TRUE, !.io = io]
    OBVIOUS
  <2>2. r = Me("next", me.op, me.spec, me.todo, value, TRUE, me.got, io, me.quiet)
    BY ONLY <1>3, <2>1 DEF Me
  <2>3. /\ r.pc = "next" /\ r.spec = me.spec /\ r.todo = me.todo /\ r.quiet = me.quiet
        /\ r.io = io
    BY ONLY <2>2 DEF Me
  <2>4. io.stage = "read" /\ io.file = "projections" /\ Pending(io) = Rows(M)
    <3>1. io.stage = "read" /\ io.file = "projections"
      BY <1>6, WritesProjection
    <3> QED BY <3>1 DEF Pending, M
  <2>5. \A commit : Settled(Rows(M), commit, me.spec) => Settled(Pending(io), commit, me.spec)'
    BY <1>2, <2>4, PendingSame, SettledStays
  <2>6. Settled(Rows(M), Head(me.todo), me.spec)
    BY <1>6, CachedIsSettled DEF AloneInv
  <2>7. QuietOK(r)'
    BY <1>2, <1>3, <2>3, <2>5, <2>6, QuietMoves
  <2>8. FilesAlone(io)'
    BY <1>2, <1>3, <2>4, FilesBegun DEF FilesAlone
  <2> QED BY <1>4, <1>6, <2>1, <2>3, <2>7, <2>8, AloneStep
<1>7. CASE Miss(p)
  BY <1>1, <1>5, <1>7 DEF Miss
<1>8. CASE Look(p)
  <2>1. PICK value : value = CHOOSE v \in Cached(Head(me.todo), me.spec) : TRUE
    OBVIOUS
  <2>2. PICK io : io = Write("projections", ProjectionRow(value))
    OBVIOUS
  <2>3. /\ Cached(Head(me.todo), me.spec) # {}
        /\ \/ Goto(p, [me EXCEPT !.pc = "next", !.value = value, !.hit = TRUE, !.io = io])
           \/ Goto(p, [me EXCEPT !.pc = "compute"])
    BY <1>1, <1>8, <2>1, <2>2 DEF Look
  <2>4. value \in Cached(Head(me.todo), me.spec)
    BY <2>1, <2>3
  <2> QED BY <1>5, <1>6, <2>2, <2>3, <2>4
<1> QED BY <1>7, <1>8

LEMMA AloneCompute ==
  ASSUME NEW p \in Procs, AloneInv(p), FreshInv', Compute(p)
  PROVE  AloneInv(p)'
<1>1. PICK me : me = procs[p]
  OBVIOUS
<1>2. /\ At(p, "compute") /\ UNCHANGED <<history, damaged, files, temps>>
      /\ objects \subseteq objects'
  BY DEF Compute, Fail
<1>3. /\ me = Me("compute", me.op, me.spec, me.todo, me.value, me.hit, me.got, NoIo, me.quiet)
      /\ FilesAlone(NoIo) /\ QuietOK(me) /\ me.pc = "compute" /\ me.io = NoIo
      /\ Pending(me.io) = Rows(M)
  BY <1>1, <1>2, RestsAlone
<1>4. ASSUME NEW r, Goto(p, r) PROVE procs'[p] = r
  BY <1>4 DEF Goto, AloneInv, FreshInv, ShapesOK
<1>5. CASE Fail(p)
  BY <1>2, <1>5, AloneFails
<1>6. PICK value : value = Fresh(Head(me.todo), me.spec)
  OBVIOUS
<1>7. PICK io : io = Write("projections", ProjectionRow(value))
  OBVIOUS
<1>8. PICK r : r = [me EXCEPT !.pc = "index", !.value = value, !.hit = FALSE, !.io = io]
  OBVIOUS
<1>9. PICK put : put = PartsOf(value) \cup {<<"projection", value>>}
  OBVIOUS
<1>10. Fail(p) \/ (CanPut(put) /\ objects' = objects \cup put /\ Goto(p, r))
  BY <1>1, <1>6, <1>7, <1>8, <1>9 DEF Compute
<1>11. CASE CanPut(put) /\ objects' = objects \cup put /\ Goto(p, r)
  <2>1. r = Me("index", me.op, me.spec, me.todo, value, FALSE, me.got, io, me.quiet)
    BY ONLY <1>3, <1>8 DEF Me
  <2>2. /\ r.pc = "index" /\ r.spec = me.spec /\ r.todo = me.todo /\ r.quiet = me.quiet
        /\ r.io = io /\ r.value = value
    BY ONLY <2>1 DEF Me
  <2>3. io.stage = "read" /\ io.file = "projections" /\ Pending(io) = Rows(M)
    <3>1. io.stage = "read" /\ io.file = "projections"
      BY <1>7, WritesProjection
    <3> QED BY <3>1 DEF Pending, M
  <2>4. \A commit : Settled(Pending(me.io), commit, me.spec) => Settled(Pending(io), commit, me.spec)'
    BY <1>2, <1>3, <2>3, PendingSame, SettledStays
  <2>5. Intact(value)'
    BY <1>2, <1>9, <1>11 DEF Intact, Readable, CanPut, PartsOf, Evidence, Component, Record
  <2>6. QuietOK(r)'
    BY <1>2, <1>3, <2>2, <2>4, <2>5, QuietMoves
  <2>7. FilesAlone(io)'
    BY <1>2, <1>3, <2>3, FilesBegun DEF FilesAlone
  <2> QED BY <1>4, <1>11, <2>2, <2>6, <2>7, AloneStep
<1> QED BY <1>5, <1>10, <1>11

LEMMA AloneIndex ==
  ASSUME NEW p \in Procs, AloneInv(p), FreshInv', Index(p)
  PROVE  AloneInv(p)'
<1>1. PICK me : me = procs[p]
  OBVIOUS
<1>2. /\ At(p, "index") /\ UNCHANGED <<history, damaged, files, temps>>
      /\ objects \subseteq objects'
  BY DEF Index
<1>3. /\ me = Me("index", me.op, me.spec, me.todo, me.value, me.hit, me.got, NoIo, me.quiet)
      /\ FilesAlone(NoIo) /\ QuietOK(me) /\ me.pc = "index" /\ me.io = NoIo
      /\ Pending(me.io) = Rows(M)
      /\ me.todo \in Seq(Nat) /\ me.todo # << >>
  BY <1>1, <1>2, RestsAlone
<1>4. ASSUME NEW r, Goto(p, r) PROVE procs'[p] = r
  BY <1>4 DEF Goto, AloneInv, FreshInv, ShapesOK
<1>5. /\ me.value = Fresh(Head(me.todo), me.spec)
      /\ Head(me.todo) \in Range(history)
  <2>1. ProcFresh(me)
    BY <1>1 DEF AloneInv, FreshInv
  <2> QED BY <1>3, <2>1, TailStays DEF ProcFresh
<1>6. PICK row : row = Row(me.value, FALSE)
  OBVIOUS
<1>7. /\ row.key = <<Head(me.todo), me.spec>> /\ row.key[1] = Head(me.todo) /\ row.key[2] = me.spec
      /\ ~row.data.stale /\ row.data.value = me.value
  <2>1. me.value[1] = Head(me.todo) /\ me.value[2] = me.spec
    BY <1>5 DEF Fresh
  <2> QED BY <1>6, <2>1 DEF Row
<1>8. PICK io : io = Write(M, row)
  OBVIOUS
<1>9. PICK r : r = [me EXCEPT !.pc = "next", !.io = io]
  OBVIOUS
<1>10. Goto(p, r)
  BY <1>1, <1>6, <1>8, <1>9 DEF Index, M
<1>11. r = Me("next", me.op, me.spec, me.todo, me.value, me.hit, me.got, io, me.quiet)
  BY ONLY <1>3, <1>9 DEF Me
<1>12. /\ r.pc = "next" /\ r.spec = me.spec /\ r.todo = me.todo /\ r.quiet = me.quiet
       /\ r.io = io
  BY ONLY <1>11 DEF Me
<1>13. io.stage = "read" /\ Pending(io) = Upsert(Rows(M), row)
  BY <1>8 DEF Pending, Write
<1>14. Keyed(Pending(io))
  <2>1. Keyed(Rows(M))
    BY <1>3 DEF FilesAlone
  <2>2. \A s \in Pending(io) : s = row \/ (s \in Rows(M) /\ s.key # row.key)
    BY <1>13 DEF Upsert, RowsWith
  <2>3. row.key = <<row.key[1], row.key[2]>> /\ row.key[1] \in Range(history)
    BY <1>5, <1>7
  <2> QED BY <2>1, <2>2, <2>3 DEF Keyed
<1>15. FilesAlone(io)'
  BY <1>2, <1>3, <1>13, <1>14, FilesBegun
<1>16. ASSUME me.quiet
       PROVE  /\ Settled(Pending(io), Head(me.todo), me.spec)'
              /\ \A commit : Settled(Pending(me.io), commit, me.spec) =>
                            Settled(Pending(io), commit, me.spec)'
  <2>1. Intact(me.value)
    BY <1>3, <1>16 DEF QuietOK
  <2>2. Sound(row, me.spec) /\ row \in Pending(io)
    BY <1>5, <1>7, <1>13, <2>1 DEF Sound, Upsert
  <2>3. Settled(Pending(io), Head(me.todo), me.spec)
    BY <1>7, <2>2 DEF Settled
  <2>4. ASSUME NEW commit, Settled(Rows(M), commit, me.spec)
        PROVE  Settled(Pending(io), commit, me.spec)
    <3>1. PICK old \in Rows(M) : old.key = <<commit, me.spec>> /\ Sound(old, me.spec)
      BY <2>4 DEF Settled
    <3>2. CASE old.key = row.key
      BY <1>7, <2>2, <3>1, <3>2 DEF Settled
    <3>3. CASE old.key # row.key
      BY <1>13, <3>1, <3>3 DEF Settled, Upsert, RowsWith
    <3> QED BY <3>2, <3>3
  <2>5. \A rows, commit, spec : Settled(rows, commit, spec) => Settled(rows, commit, spec)'
    BY <1>2, SettledStays
  <2>6. Pending(io)' = Pending(io)
    BY <1>2, PendingSame
  <2> QED BY <1>3, <2>3, <2>4, <2>5, <2>6
<1>17. QuietOK(r)'
  BY <1>2, <1>3, <1>12, <1>16, QuietMoves
<1> QED BY <1>4, <1>10, <1>12, <1>15, <1>17, AloneStep

LEMMA AloneNextCommit ==
  ASSUME NEW p \in Procs, AloneInv(p), FreshInv', NextCommit(p)
  PROVE  AloneInv(p)'
<1>1. PICK me : me = procs[p]
  OBVIOUS
<1>2. /\ At(p, "next") /\ UNCHANGED <<history, damaged, files, temps>>
      /\ objects \subseteq objects'
  BY DEF NextCommit
<1>3. /\ me = Me("next", me.op, me.spec, me.todo, me.value, me.hit, me.got, NoIo, me.quiet)
      /\ FilesAlone(NoIo) /\ QuietOK(me) /\ me.pc = "next" /\ me.io = NoIo
      /\ Pending(me.io) = Rows(M)
      /\ me.todo \in Seq(Nat) /\ me.todo # << >>
  BY <1>1, <1>2, RestsAlone
<1>4. ASSUME NEW r, Goto(p, r) PROVE procs'[p] = r
  BY <1>4 DEF Goto, AloneInv, FreshInv, ShapesOK
<1>5. PICK rest, all : rest = Tail(me.todo) /\ all = Append(me.got, me.value)
  OBVIOUS
<1>6. PICK r : r = [me EXCEPT !.pc = "look", !.todo = rest, !.got = all]
  OBVIOUS
<1>7. Goto(p, r)
  BY <1>1, <1>5, <1>6 DEF NextCommit
<1>8. r = Me("look", me.op, me.spec, rest, me.value, me.hit, all, NoIo, me.quiet)
  <2>1. PICK op, spec, todo, value, hit, got, io, quiet :
          /\ op = me.op /\ spec = me.spec /\ todo = me.todo /\ value = me.value
          /\ hit = me.hit /\ got = me.got /\ io = NoIo /\ quiet = me.quiet
    OBVIOUS
  <2>2. me = Me("next", op, spec, todo, value, hit, got, io, quiet)
    BY <1>3, <2>1
  <2>3. r = Me("look", op, spec, rest, value, hit, all, io, quiet)
    BY ONLY <1>6, <2>2 DEF Me
  <2> QED BY <2>1, <2>3
<1>9. /\ r.pc = "look" /\ r.spec = me.spec /\ r.todo = rest /\ r.quiet = me.quiet
      /\ r.io = NoIo
  BY ONLY <1>8 DEF Me
<1>10. FilesAlone(r.io)'
  BY <1>2, <1>3, <1>9, FilesSame
<1>11. QuietOK(r)'
  <2>1. SUFFICES ASSUME me.quiet PROVE QuietOK(r)'
    BY <1>9 DEF QuietOK
  <2>2. /\ Behind(me) \in Nat
        /\ \A i \in 1..Len(me.todo) : me.todo[i] = history[Behind(me) + i]
        /\ Readable(<<"spec", me.spec>>)
        /\ \A i \in 1..Behind(me) : Settled(Rows(M), history[i], me.spec)
        /\ Settled(Rows(M), Head(me.todo), me.spec)
    BY <1>3, <2>1 DEF QuietOK
  <2>3. PICK n \in Nat, b \in Nat : n = Len(me.todo) /\ b = Behind(me)
    BY <1>3, <2>2
  <2>4. /\ n >= 1 /\ Len(rest) = n - 1 /\ Head(me.todo) = me.todo[1]
        /\ \A i \in 1..(n - 1) : rest[i] = me.todo[i + 1]
    BY <1>3, <1>5, <2>3
  <2>5. Behind(r)' = b + 1
    BY <1>2, <1>9, <2>3, <2>4 DEF Behind, AloneInv, FreshInv, ShapesOK
  <2>6. \A i \in 1..Len(rest) : rest[i] = history[(b + 1) + i]
    <3>1. ASSUME NEW i \in 1..(n - 1)
          PROVE  rest[i] = history[(b + 1) + i]
      <4>1. i + 1 \in 1..n /\ b + (i + 1) = (b + 1) + i
        BY <2>4
      <4>2. me.todo[i + 1] = history[b + (i + 1)]
        BY <2>2, <2>3, <4>1
      <4> QED BY <2>4, <4>1, <4>2
    <3> QED BY <2>4, <3>1
  <2>7. history[b + 1] = Head(me.todo)
    BY <2>2, <2>3, <2>4
  <2>8. \A i \in 1..(b + 1) : Settled(Rows(M), history[i], me.spec)
    <3>1. ASSUME NEW i \in 1..(b + 1)
          PROVE  i \in 1..b \/ i = b + 1
      OBVIOUS
    <3> QED BY <2>2, <2>3, <2>7, <3>1
  <2>9. \A commit : Settled(Rows(M), commit, me.spec) => Settled(Pending(r.io), commit, me.spec)'
    BY <1>2, <1>9, PendingSame, PendingNone, SettledStays
  <2>10. \A i \in 1..(b + 1) : Settled(Pending(r.io), history[i], me.spec)'
    BY <1>2, <2>8, <2>9
  <2>11. Readable(<<"spec", me.spec>>)'
    BY <1>2, <2>2, SettledStays
  <2> QED BY <1>2, <1>9, <2>5, <2>6, <2>10, <2>11 DEF QuietOK
<1> QED BY <1>4, <1>7, <1>9, <1>10, <1>11, AloneStep

LEMMA AloneFinish ==
  ASSUME NEW p \in Procs, AloneInv(p), FreshInv', Finish(p)
  PROVE  AloneInv(p)'
<1>1. PICK me : me = procs[p]
  OBVIOUS
<1>2. /\ At(p, "look") /\ UNCHANGED <<history, damaged, files, temps>>
      /\ objects \subseteq objects'
  BY DEF Finish, Fail
<1>3. /\ me = Me("look", me.op, me.spec, me.todo, me.value, me.hit, me.got, NoIo, me.quiet)
      /\ FilesAlone(NoIo) /\ QuietOK(me) /\ me.pc = "look" /\ me.io = NoIo
      /\ Pending(me.io) = Rows(M)
  BY <1>1, <1>2, RestsAlone
<1>4. ASSUME NEW r, Goto(p, r) PROVE procs'[p] = r
  BY <1>4 DEF Goto, AloneInv, FreshInv, ShapesOK
<1>5. me.todo = << >>
  BY <1>1 DEF Finish
<1>6. PICK row : row = [key |-> "name", data |-> <<"baseline", me.got>>]
  OBVIOUS
<1>7. PICK io : io = Write("baselines", row)
  OBVIOUS
<1>8. PICK r1, r2 : /\ r1 = [me EXCEPT !.pc = "done"]
                   /\ r2 = [me EXCEPT !.pc = "saved", !.io = io]
  OBVIOUS
<1>9. Goto(p, r1) \/ Goto(p, r2) \/ Fail(p)
  BY <1>1, <1>6, <1>7, <1>8 DEF Finish
<1>10. CASE Goto(p, r1)
  <2>1. r1 = Me("done", me.op, me.spec, me.todo, me.value, me.hit, me.got, NoIo, me.quiet)
    BY ONLY <1>3, <1>8 DEF Me
  <2>2. /\ r1.pc = "done" /\ r1.spec = me.spec /\ r1.todo = me.todo /\ r1.quiet = me.quiet
        /\ r1.io = NoIo
    BY ONLY <2>1 DEF Me
  <2>3. \A commit : Settled(Pending(me.io), commit, me.spec) => Settled(Pending(r1.io), commit, me.spec)'
    BY <1>2, <1>3, <2>2, PendingSame, SettledStays
  <2>4. QuietOK(r1)'
    BY <1>2, <1>3, <1>5, <2>2, <2>3, QuietMoves
  <2>5. FilesAlone(r1.io)'
    BY <1>2, <1>3, <2>2, FilesSame
  <2> QED BY <1>4, <1>10, <2>4, <2>5, AloneStep
<1>11. CASE Goto(p, r2)
  <2>1. r2 = Me("saved", me.op, me.spec, me.todo, me.value, me.hit, me.got, io, me.quiet)
    BY ONLY <1>3, <1>8 DEF Me
  <2>2. /\ r2.pc = "saved" /\ r2.spec = me.spec /\ r2.todo = me.todo /\ r2.quiet = me.quiet
        /\ r2.io = io
    BY ONLY <2>1 DEF Me
  <2>3. io.stage = "read" /\ Pending(io) = Rows(M)
    BY <1>7 DEF Pending, M, Write
  <2>4. \A commit : Settled(Pending(me.io), commit, me.spec) => Settled(Pending(r2.io), commit, me.spec)'
    BY <1>2, <1>3, <2>2, <2>3, PendingSame, SettledStays
  <2>5. QuietOK(r2)'
    BY <1>2, <1>3, <1>5, <2>2, <2>4, QuietMoves
  <2>6. FilesAlone(io)'
    BY <1>2, <1>3, <2>3, FilesBegun DEF FilesAlone
  <2> QED BY <1>4, <1>11, <2>2, <2>5, <2>6, AloneStep
<1>12. CASE Fail(p)
  BY <1>2, <1>12, AloneFails
<1> QED BY <1>9, <1>10, <1>11, <1>12

LEMMA AloneSaved ==
  ASSUME NEW p \in Procs, AloneInv(p), FreshInv', Saved(p)
  PROVE  AloneInv(p)'
<1>1. PICK me : me = procs[p]
  OBVIOUS
<1>2. /\ At(p, "saved") /\ UNCHANGED <<history, damaged, files, temps>>
      /\ objects \subseteq objects'
  BY DEF Saved
<1>3. /\ me = Me("saved", me.op, me.spec, me.todo, me.value, me.hit, me.got, NoIo, me.quiet)
      /\ FilesAlone(NoIo) /\ QuietOK(me) /\ me.pc = "saved" /\ me.io = NoIo
      /\ Pending(me.io) = Rows(M)
  BY <1>1, <1>2, RestsAlone
<1>4. ASSUME NEW r, Goto(p, r) PROVE procs'[p] = r
  BY <1>4 DEF Goto, AloneInv, FreshInv, ShapesOK
<1>5. PICK r : r = [me EXCEPT !.pc = "done"]
  OBVIOUS
<1>6. Goto(p, r)
  BY <1>1, <1>5 DEF Saved
<1>7. r = Me("done", me.op, me.spec, me.todo, me.value, me.hit, me.got, NoIo, me.quiet)
  BY ONLY <1>3, <1>5 DEF Me
<1>8. /\ r.pc = "done" /\ r.spec = me.spec /\ r.todo = me.todo /\ r.quiet = me.quiet
      /\ r.io = NoIo
  BY ONLY <1>7 DEF Me
<1>9. \A commit : Settled(Pending(me.io), commit, me.spec) => Settled(Pending(r.io), commit, me.spec)'
  BY <1>2, <1>3, <1>8, PendingSame, SettledStays
<1>10. me.quiet => me.todo = << >>
  BY <1>3 DEF QuietOK
<1>11. QuietOK(r)'
  BY <1>2, <1>3, <1>8, <1>9, <1>10, QuietMoves
<1>12. FilesAlone(r.io)'
  BY <1>2, <1>3, <1>8, FilesSame
<1> QED BY <1>4, <1>6, <1>11, <1>12, AloneStep

LEMMA AloneBegin ==
  ASSUME NEW p, Procs = {p}, AloneInv(p), FreshInv', NEW op, NEW spec, Begin(p, op, spec)
  PROVE  AloneInv(p)'
<1>1. PICK pc \in {"strip", "look"} : pc = IF op = "rebuild" THEN "strip" ELSE "look"
  OBVIOUS
<1>2. PICK r : r = [Idle EXCEPT !.op = op, !.spec = spec, !.quiet = TRUE,
                      !.todo = history, !.pc = pc]
  OBVIOUS
<1>3. /\ procs' = [procs EXCEPT ![p] = r] /\ UNCHANGED <<history, damaged, files, temps>>
      /\ objects' = objects \cup {<<"spec", spec>>} /\ CanPut({<<"spec", spec>>})
  BY <1>1, <1>2 DEF Begin
<1>4. procs'[p] = r
  BY <1>3 DEF AloneInv, FreshInv, ShapesOK
<1>5. r = Me(pc, op, spec, history, << >>, FALSE, << >>, NoIo, TRUE)
  BY ONLY <1>2 DEF Me, Idle
<1>6. r.pc = pc /\ r.spec = spec /\ r.todo = history /\ r.io = NoIo
  BY ONLY <1>5 DEF Me
<1>7. FilesAlone(r.io)'
  BY <1>3, <1>6, FilesSame DEF AloneInv
<1>8. Readable(<<"spec", spec>>)'
  BY <1>3 DEF Readable, CanPut
<1>9. Behind(r)' = 0
  BY <1>3, <1>6 DEF Behind, AloneInv, FreshInv, ShapesOK
<1>10. \A i \in 1..Len(history) : history[i] = history[0 + i]
  OBVIOUS
<1>11. ~ \E i : i \in 1..0
  OBVIOUS
<1>12. QuietOK(r)'
  BY <1>1, <1>3, <1>6, <1>8, <1>9, <1>10, <1>11 DEF QuietOK
<1> QED BY <1>4, <1>7, <1>12, AloneStep

LEMMA AloneCrash ==
  ASSUME NEW p \in Procs, AloneInv(p), FreshInv', Crash(p)
  PROVE  AloneInv(p)'
<1>1. procs'[p] = Idle /\ UNCHANGED <<history, files, temps>>
  BY DEF Crash, Goto, AloneInv, FreshInv, ShapesOK
<1>2. Idle.io = NoIo /\ Idle.pc = "idle"
  BY DEF Idle
<1>3. FilesAlone(Idle.io)'
  BY <1>1, <1>2, FilesSame DEF AloneInv
<1>4. QuietOK(Idle)'
  BY <1>2 DEF QuietOK
<1> QED BY <1>1, <1>3, <1>4, AloneStep

(* Around it: it is no longer said to be alone.                            *)
LEMMA AloneAround ==
  ASSUME NEW p \in Procs, AloneInv(p), FreshInv', procs' = Unquiet(procs),
         UNCHANGED <<files, temps>>, Range(history) \subseteq Range(history')
  PROVE  AloneInv(p)'
<1>1. PICK me, r : me = procs[p] /\ r = [me EXCEPT !.quiet = FALSE]
  OBVIOUS
<1>2. ProcOK(me) /\ FilesAlone(me.io)
  BY <1>1 DEF AloneInv, FreshInv, ShapesOK
<1>3. procs'[p] = r
  BY <1>1 DEF Unquiet
<1>4. r.quiet = FALSE /\ r.io = me.io
  BY <1>1, <1>2, UnquietSays
<1>5. FilesAlone(r.io)'
  BY <1>2, <1>4, FilesSame
<1>6. QuietOK(r)'
  BY <1>4 DEF QuietOK
<1> QED BY <1>3, <1>5, <1>6, AloneStep

LEMMA AloneCommit ==
  ASSUME BoundsAssumption, NEW p \in Procs, AloneInv(p), BudgetOK, FreshInv', Commit
  PROVE  AloneInv(p)'
<1>1. PICK new \in Nat : history' = Append(history, new)
  <2>1. MaxCommits - budget["commit"] + 1 \in Nat
    BY DEF BoundsAssumption, BudgetOK
  <2> QED BY <2>1 DEF Commit
<1>2. Range(history) \subseteq Range(history')
  BY <1>1, PriorStays DEF AloneInv, FreshInv, ShapesOK
<1> QED BY <1>2, AloneAround DEF Commit

LEMMA AloneInit ==
  ASSUME BoundsAssumption, NEW p \in Procs, Init
  PROVE  AloneInv(p)
<1>1. FreshInv /\ Lossless
  BY GrownInit DEF GrownInv, Lossless, Init
<1>2. procs[p] = Idle /\ Idle.io = NoIo /\ Idle.pc = "idle"
  BY DEF Init, Idle
<1>3. QuietOK(procs[p])
  BY <1>2 DEF QuietOK
<1>4. PICK rows \in {{}} \cup (IF LegacyRows THEN {{Row(<<1, s, 9>>, TRUE) : s \in Specs}} ELSE {}) :
        files = [f \in Files |-> [ok |-> TRUE, rows |-> IF f = "measurements" THEN rows ELSE {}]]
  BY DEF Init
<1>5. Rows(M) = rows /\ \A f \in Files : files[f].ok
  <2>1. M \in Files
    BY DEF M, Files
  <2> QED BY <1>4, <2>1 DEF Rows, M
<1>6. 1 \in Range(history)
  BY DEF Init, Range
<1>7. \A row \in rows : \E s \in Specs : row.key = <<1, s>>
  BY <1>4 DEF Row
<1>8. \A r1, r2 \in rows : r1.key = r2.key => r1 = r2
  <2>1. \A s \in Specs : Row(<<1, s, 9>>, TRUE) =
          [key |-> <<1, s>>, data |-> [value |-> <<1, s, 9>>, stale |-> TRUE]]
    BY DEF Row
  <2>2. \A row \in rows : \E s \in Specs : row =
          [key |-> <<1, s>>, data |-> [value |-> <<1, s, 9>>, stale |-> TRUE]]
    BY <1>4, <2>1
  <2>3. ASSUME NEW r1 \in rows, NEW r2 \in rows, r1.key = r2.key
        PROVE  r1 = r2
    <3>1. PICK s : r1 = [key |-> <<1, s>>, data |-> [value |-> <<1, s, 9>>, stale |-> TRUE]]
      BY <2>2
    <3>2. PICK t : r2 = [key |-> <<1, t>>, data |-> [value |-> <<1, t, 9>>, stale |-> TRUE]]
      BY <2>2
    <3>3. r1.key = <<1, s>> /\ r2.key = <<1, t>>
      BY <3>1, <3>2
    <3>4. s = t
      <4>1. r1.key[2] = s /\ r2.key[2] = t
        BY <3>3
      <4> QED BY <2>3, <4>1
    <3> QED BY <3>1, <3>2, <3>4
  <2> QED BY <2>3
<1>9. Keyed(Rows(M))
  BY <1>5, <1>6, <1>7, <1>8 DEF Keyed
<1>10. FilesAlone(procs[p].io)
  BY <1>2, <1>5, <1>9, PendingNone, NoIoOK DEF FilesAlone
<1> QED BY <1>1, <1>3, <1>10 DEF AloneInv

(* What a process measured alone verifies.                                 *)
LEMMA AloneVerifies ==
  ASSUME NEW p, Procs = {p}, AloneInv(p)
  PROVE  IndexReadable /\ MeasuredIsVerified
<1>1. IndexReadable
  BY DEF AloneInv, FilesAlone, IndexReadable
<1>2. SUFFICES ASSUME procs[p].pc = "done", procs[p].quiet
               PROVE  /\ Clean(procs[p].spec)
                      /\ \A c \in Range(history) :
                           Cardinality(RowsWith(Rows(M), <<c, procs[p].spec>>)) = 1
  BY <1>1 DEF MeasuredIsVerified, M
<1>3. PICK me, spec : me = procs[p] /\ spec = me.spec
  OBVIOUS
<1>4. /\ me.todo = << >> /\ me.io = NoIo
      /\ Readable(<<"spec", spec>>)
      /\ \A i \in 1..Behind(me) : Settled(Pending(me.io), history[i], spec)
  BY <1>2, <1>3 DEF AloneInv, QuietOK
<1>5. Behind(me) = Len(history) /\ DOMAIN history = 1..Len(history)
  BY <1>4 DEF Behind, AloneInv, FreshInv, ShapesOK
<1>6. \A c \in Range(history) : Settled(Rows(M), c, spec)
  BY <1>4, <1>5, PendingNone DEF Range
<1>7. Keyed(Rows(M)) /\ files[M].ok
  BY DEF AloneInv, FilesAlone, M, Files
<1>8. \A row \in Rows(M) : row.key[2] = spec => Sound(row, spec)
  BY <1>6, <1>7 DEF Keyed, Settled
<1>9. Clean(spec)
  BY <1>4, <1>7, <1>8 DEF Clean, M
<1>10. ASSUME NEW c \in Range(history)
       PROVE  Cardinality(RowsWith(Rows(M), <<c, spec>>)) = 1
  <2>1. PICK row \in Rows(M) : row.key = <<c, spec>>
    BY <1>6 DEF Settled
  <2>2. RowsWith(Rows(M), <<c, spec>>) = {row}
    BY <1>7, <2>1 DEF Keyed, RowsWith
  <2> QED BY <2>2, FS_Singleton
<1> QED BY <1>3, <1>9, <1>10

LEMMA AloneNext ==
  ASSUME BoundsAssumption, NEW p, Procs = {p}, MaxDrops = 0, BudgetOK, AloneInv(p), [Next]_vars
  PROVE  AloneInv(p)'
<1>1. Lossless'
  BY BudgetStays DEF BudgetOK, Lossless
<1>2. ~DropRejected
  BY <1>1, LosslessWas
<1>3. FreshInv'
  BY <1>2, FreshNext, FreshSame DEF AloneInv
<1>4. p \in Procs
  OBVIOUS
<1>5. ASSUME NEW op \in Operations, NEW spec \in Specs, Begin(p, op, spec)
      PROVE  AloneInv(p)'
  BY <1>3, <1>5, AloneBegin
<1>6. ASSUME Strip(p) \/ Look(p) \/ Miss(p) \/ Compute(p) \/ Index(p)
      PROVE  AloneInv(p)'
  BY <1>3, <1>4, <1>6, AloneStrip, AloneLook, AloneCompute, AloneIndex
<1>7. ASSUME NextCommit(p) \/ Finish(p) \/ Saved(p) \/ Crash(p)
      PROVE  AloneInv(p)'
  BY <1>3, <1>4, <1>7, AloneNextCommit, AloneFinish, AloneSaved, AloneCrash
<1>8. ASSUME ReadRows(p) \/ Open(p) \/ Fill(p) \/ Rename(p)
      PROVE  AloneInv(p)'
  BY <1>3, <1>8, AloneWrites
<1>9. ASSUME Commit
      PROVE  AloneInv(p)'
  BY <1>3, <1>4, <1>9, AloneCommit
<1>10. ASSUME Collect \/ \E object \in objects : Damage(object)
       PROVE  AloneInv(p)'
  BY <1>3, <1>4, <1>10, AloneAround DEF Collect, Damage
<1>11. ASSUME UNCHANGED vars
       PROVE  AloneInv(p)'
  <2>1. PICK me : me = procs[p]
    OBVIOUS
  <2>2. /\ procs'[p] = me /\ UNCHANGED <<history, damaged, objects, files, temps>>
        /\ FilesAlone(me.io) /\ QuietOK(me)
    BY <1>11, <2>1 DEF vars, AloneInv
  <2>3. FilesAlone(me.io)'
    BY <2>2, FilesSame
  <2>4. \A commit, spec : Settled(Pending(me.io), commit, spec) => Settled(Pending(me.io), commit, spec)'
    BY <2>2, PendingSame, SettledStays
  <2>5. QuietOK(me)'
    <3>1. CASE me.pc \in {"idle", "failed"} \/ ~me.quiet
      BY <3>1 DEF QuietOK
    <3>2. CASE me.quiet /\ me.pc \notin {"idle", "failed"}
      <4>1. /\ me.pc = "index" => Intact(me.value)'
            /\ me.pc = "next" => Settled(Pending(me.io), Head(me.todo), me.spec)'
        BY <2>2, <2>4, <3>2, SettledStays DEF QuietOK
      <4>2. /\ me.pc \in {"done", "saved"} => me.todo = << >>
            /\ me.pc = "done" => me.io = NoIo
        BY <2>2, <3>2 DEF QuietOK
      <4> QED BY <2>2, <2>4, <3>2, <4>1, <4>2, QuietMoves
    <3> QED BY <3>1, <3>2
  <2> QED BY <1>3, <2>2, <2>3, <2>5, AloneStep
<1> QED BY <1>2, <1>5, <1>6, <1>7, <1>8, <1>9, <1>10, <1>11 DEF Next

(* A process that has the index to itself leaves its files readable, and a *)
(* branch measured while nothing else went on verifies to the last row.    *)
THEOREM MeasuredAloneVerifies ==
  ASSUME BoundsAssumption, NEW p, Procs = {p}, MaxDrops = 0
  PROVE  Spec => [](IndexReadable /\ MeasuredIsVerified)
<1> DEFINE Inv == BudgetOK /\ AloneInv(p)
<1>1. Init => Inv
  BY GrownInit, AloneInit DEF GrownInv
<1>2. Inv /\ [Next]_vars => Inv'
  BY BudgetStays, AloneNext
<1>3. Inv => IndexReadable /\ MeasuredIsVerified
  BY AloneVerifies
<1> HIDE DEF Inv
<1> QED BY <1>1, <1>2, <1>3, PTL DEF Spec

-----------------------------------------------------------------------------
(* Risk.  Numbers and finite sets first.                                   *)

LEMMA LeastNumber ==
  ASSUME NEW T, T \subseteq Nat, T # {}
  PROVE  \E x \in T : \A y \in T : x <= y
<1> DEFINE R == OpToRel(<, Nat)
<1>1. IsWellFoundedOn(R, Nat)
  BY NatLessThanWellFounded
<1>2. \A x, y \in Nat : y < x => <<y, x>> \in R
  BY DEF OpToRel
<1> HIDE DEF R
<1>3. PICK x \in T : \A y \in T : ~ (<<y, x>> \in R)
  BY <1>1, WFMin
<1> SUFFICES ASSUME NEW y \in T
             PROVE  x <= y
  BY <1>3
<1>4. ~(y < x)
  BY <1>2, <1>3
<1> QED BY <1>4

LEMMA ByInduction ==
  ASSUME NEW T, 0 \in T, \A n \in Nat : n \in T => n + 1 \in T
  PROVE  Nat \subseteq T
<1> SUFFICES ASSUME Nat \ T # {} PROVE FALSE
  OBVIOUS
<1>1. PICK x \in Nat \ T : \A y \in Nat \ T : x <= y
  <2>1. Nat \ T \subseteq Nat /\ Nat \ T # {}
    OBVIOUS
  <2> QED BY <2>1, LeastNumber
<1>2. x # 0 /\ x - 1 \in Nat /\ x - 1 \in T
  BY <1>1
<1> QED BY <1>1, <1>2

(* What holds of a set when it holds of all that are one element smaller   *)
(* holds of every subset of a finite set.                                  *)
Inductive(D, P) == \A S \in SUBSET D : (\A x \in S : S \ {x} \in P) => S \in P

LEMMA SubsetInduction ==
  ASSUME NEW D, IsFiniteSet(D), NEW P, Inductive(D, P)
  PROVE  SUBSET D \subseteq P
<1> DEFINE Missing == {n \in Nat : \E S \in SUBSET D : S \notin P /\ Cardinality(S) = n}
<1>0. \A S \in SUBSET D : IsFiniteSet(S) /\ Cardinality(S) \in Nat
  BY FS_Subset, FS_CardinalityType
<1>1. SUFFICES ASSUME NEW S0 \in SUBSET D, S0 \notin P PROVE FALSE
  OBVIOUS
<1>2. Missing \subseteq Nat /\ Missing # {}
  BY <1>0, <1>1
<1>3. PICK n \in Missing : \A m \in Missing : n <= m
  BY <1>2, LeastNumber
<1>4. PICK S \in SUBSET D : S \notin P /\ Cardinality(S) = n
  OBVIOUS
<1>5. PICK x \in S : S \ {x} \notin P
  BY <1>4 DEF Inductive
<1>6. S \ {x} \notin P /\ S \ {x} \in SUBSET D
  BY <1>5
<1>7. Cardinality(S \ {x}) = n - 1 /\ Cardinality(S \ {x}) \in Nat
  BY <1>0, <1>4, <1>6, FS_RemoveElement
<1>8. n - 1 \in Missing
  BY <1>6, <1>7
<1> QED BY <1>3, <1>8

-----------------------------------------------------------------------------
(* Sums over finite functions: the community modules' folds take the       *)
(* elements of the domain in an order of their own; these facts say that   *)
(* the order does not matter.                                              *)

Choice(S) == CHOOSE x \in S : TRUE

(* F gives every subset of f's domain the sum of f over it.                *)
IsSum(F, f) ==
  F = [S \in SUBSET DOMAIN f |->
         IF S = {} THEN 0 ELSE f[Choice(S)] + F[S \ {Choice(S)}]]
SumsOf(f) == CHOOSE F : IsSum(F, f)
SumOn(f, S) == SumsOf(f)[S]

Summable(f) == IsFiniteSet(DOMAIN f) /\ \A x \in DOMAIN f : f[x] \in Nat

PartOf(f, n) == {S \in SUBSET DOMAIN f : Cardinality(S) <= n}
IsPartSum(F, f, n) ==
  F = [S \in PartOf(f, n) |->
         IF S = {} THEN 0 ELSE f[Choice(S)] + F[S \ {Choice(S)}]]

LEMMA SumsExist ==
  ASSUME NEW f, Summable(f)
  PROVE  IsSum(SumsOf(f), f)
<1> DEFINE D == DOMAIN f
           Reached == {n \in Nat : \E F : IsPartSum(F, f, n)}
<1>0. \A S \in SUBSET D : IsFiniteSet(S) /\ Cardinality(S) \in Nat
                           /\ Cardinality(S) <= Cardinality(D)
                           /\ (Cardinality(S) = 0 <=> S = {})
  BY FS_Subset, FS_CardinalityType, FS_EmptySet DEF Summable
<1>1. 0 \in Reached
  <2> DEFINE F == [S \in PartOf(f, 0) |-> 0]
  <2>1. \A S \in PartOf(f, 0) : S = {}
    BY <1>0 DEF PartOf
  <2>2. IsPartSum(F, f, 0)
    BY <2>1 DEF IsPartSum
  <2> QED BY <2>2
<1>2. ASSUME NEW n \in Nat, n \in Reached PROVE n + 1 \in Reached
  <2>1. PICK G : IsPartSum(G, f, n)
    BY <1>2
  <2> DEFINE F == [S \in PartOf(f, n + 1) |->
                     IF S = {} THEN 0 ELSE f[Choice(S)] + G[S \ {Choice(S)}]]
  <2>2. \A S \in PartOf(f, n + 1) : S # {} =>
          /\ Choice(S) \in S
          /\ S \ {Choice(S)} \in PartOf(f, n)
    <3> SUFFICES ASSUME NEW S \in PartOf(f, n + 1), S # {}
                 PROVE  Choice(S) \in S /\ S \ {Choice(S)} \in PartOf(f, n)
      OBVIOUS
    <3>1. Choice(S) \in S
      BY DEF Choice
    <3>2. S \in SUBSET D /\ S \ {Choice(S)} \in SUBSET D
      BY DEF PartOf
    <3>3. Cardinality(S) <= n + 1 /\ Cardinality(S) \in Nat
      BY <1>0, <3>2 DEF PartOf
    <3>4. Cardinality(S \ {Choice(S)}) = Cardinality(S) - 1
      BY <1>0, <3>1, <3>2, FS_RemoveElement
    <3> QED BY <3>1, <3>2, <3>3, <3>4 DEF PartOf
  <2>3. \A T \in PartOf(f, n) : T \in PartOf(f, n + 1) /\ F[T] = G[T]
    <3> SUFFICES ASSUME NEW T \in PartOf(f, n)
                 PROVE  T \in PartOf(f, n + 1) /\ F[T] = G[T]
      OBVIOUS
    <3>1. T \in PartOf(f, n + 1)
      BY <1>0 DEF PartOf
    <3> QED BY <2>1, <3>1 DEF IsPartSum
  <2>4. IsPartSum(F, f, n + 1)
    BY <2>2, <2>3 DEF IsPartSum
  <2> QED BY <2>4
<1>3. Cardinality(D) \in Nat /\ Cardinality(D) \in Reached
  <2>1. Nat \subseteq Reached
    <3> HIDE DEF Reached
    <3> QED BY <1>1, <1>2, ByInduction
  <2> QED BY <2>1, <1>0
<1>4. PICK F : IsPartSum(F, f, Cardinality(D))
  BY <1>3
<1>5. PartOf(f, Cardinality(D)) = SUBSET D
  BY <1>0 DEF PartOf
<1>6. IsSum(F, f)
  BY <1>4, <1>5 DEF IsPartSum, IsSum
<1> QED BY <1>6 DEF SumsOf

LEMMA SumStep ==
  ASSUME NEW f, Summable(f)
  PROVE  /\ SumOn(f, {}) = 0
         /\ \A S \in SUBSET DOMAIN f : S # {} =>
              /\ Choice(S) \in S
              /\ SumOn(f, S) = f[Choice(S)] + SumOn(f, S \ {Choice(S)})
BY SumsExist DEF SumOn, IsSum, Choice

LEMMA SumType ==
  ASSUME NEW f, Summable(f)
  PROVE  \A S \in SUBSET DOMAIN f : SumOn(f, S) \in Nat
<1> DEFINE P == {S \in SUBSET DOMAIN f : SumOn(f, S) \in Nat}
<1>1. ASSUME NEW S \in SUBSET DOMAIN f, \A x \in S : S \ {x} \in P
      PROVE  S \in P
  <2>1. CASE S = {}
    BY <2>1, SumStep
  <2>2. CASE S # {}
    <3>1. Choice(S) \in S /\ SumOn(f, S) = f[Choice(S)] + SumOn(f, S \ {Choice(S)})
      BY <2>2, SumStep
    <3>2. f[Choice(S)] \in Nat /\ SumOn(f, S \ {Choice(S)}) \in Nat
      BY <1>1, <3>1 DEF Summable
    <3> QED BY <3>1, <3>2
  <2> QED BY <2>1, <2>2
<1>2. SUBSET DOMAIN f \subseteq P
  <2>1. IsFiniteSet(DOMAIN f)
    BY DEF Summable
  <2> HIDE DEF P
  <2>2. Inductive(DOMAIN f, P)
    BY <1>1 DEF Inductive
  <2> QED BY <2>1, <2>2, SubsetInduction
<1> QED BY <1>2

(* Any element of the set may be taken out first.                          *)
LEMMA SumOrder ==
  ASSUME NEW f, Summable(f)
  PROVE  \A S \in SUBSET DOMAIN f : \A x \in S :
           SumOn(f, S) = f[x] + SumOn(f, S \ {x})
<1> DEFINE P == {S \in SUBSET DOMAIN f :
                   \A y \in S : SumOn(f, S) = f[y] + SumOn(f, S \ {y})}
<1>1. ASSUME NEW S \in SUBSET DOMAIN f, \A y \in S : S \ {y} \in P
      PROVE  S \in P
  <2> SUFFICES ASSUME NEW x \in S
               PROVE  SumOn(f, S) = f[x] + SumOn(f, S \ {x})
    OBVIOUS
  <2> DEFINE c == Choice(S)
  <2>1. c \in S /\ SumOn(f, S) = f[c] + SumOn(f, S \ {c})
    BY SumStep
  <2>2. CASE c = x
    BY <2>1, <2>2
  <2>3. CASE c # x
    <3> HIDE DEF c
    <3>1. x \in S \ {c} /\ c \in S \ {x}
      BY <2>1, <2>3
    <3>2. SumOn(f, S \ {c}) = f[x] + SumOn(f, (S \ {c}) \ {x})
      BY <1>1, <2>1, <3>1
    <3>3. SumOn(f, S \ {x}) = f[c] + SumOn(f, (S \ {x}) \ {c})
      BY <1>1, <2>1, <3>1
    <3>4. SumOn(f, (S \ {c}) \ {x}) = SumOn(f, (S \ {x}) \ {c})
      <4>1. (S \ {c}) \ {x} = (S \ {x}) \ {c}
        OBVIOUS
      <4> QED BY <4>1, Zenon
    <3>5. f[x] \in Nat /\ f[c] \in Nat /\ SumOn(f, (S \ {x}) \ {c}) \in Nat
      BY <2>1, SumType DEF Summable
    <3> QED BY <2>1, <3>2, <3>3, <3>4, <3>5
  <2> QED BY <2>2, <2>3
<1>2. SUBSET DOMAIN f \subseteq P
  <2>1. IsFiniteSet(DOMAIN f)
    BY DEF Summable
  <2> HIDE DEF P
  <2>2. Inductive(DOMAIN f, P)
    BY <1>1 DEF Inductive
  <2> QED BY <2>1, <2>2, SubsetInduction
<1> QED BY <1>2

(* Two functions whose values are in order have their sums in order.       *)
LEMMA SumMonotone ==
  ASSUME NEW f, NEW g, Summable(f), Summable(g), DOMAIN f = DOMAIN g,
         \A x \in DOMAIN f : f[x] <= g[x]
  PROVE  SumOn(f, DOMAIN f) <= SumOn(g, DOMAIN g)
<1> DEFINE P == {S \in SUBSET DOMAIN f : SumOn(f, S) <= SumOn(g, S)}
<1>1. ASSUME NEW S \in SUBSET DOMAIN f, \A x \in S : S \ {x} \in P
      PROVE  S \in P
  <2>1. CASE S = {}
    BY <2>1, SumStep
  <2>2. CASE S # {}
    <3>1. PICK x \in S : TRUE
      BY <2>2
    <3>2. /\ SumOn(f, S) = f[x] + SumOn(f, S \ {x})
          /\ SumOn(g, S) = g[x] + SumOn(g, S \ {x})
      BY SumOrder
    <3>3. /\ f[x] \in Nat /\ SumOn(f, S \ {x}) \in Nat
          /\ g[x] \in Nat /\ SumOn(g, S \ {x}) \in Nat
      BY SumType DEF Summable
    <3>4. f[x] <= g[x] /\ SumOn(f, S \ {x}) <= SumOn(g, S \ {x})
      BY <1>1
    <3> QED BY <3>2, <3>3, <3>4
  <2> QED BY <2>1, <2>2
<1>2. SUBSET DOMAIN f \subseteq P
  <2>1. IsFiniteSet(DOMAIN f)
    BY DEF Summable
  <2> HIDE DEF P
  <2>2. Inductive(DOMAIN f, P)
    BY <1>1 DEF Inductive
  <2> QED BY <2>1, <2>2, SubsetInduction
<1> QED BY <1>2

(* A sum of sums is the sum of both.                                       *)
LEMMA SumOfBoth ==
  ASSUME NEW f, NEW g, NEW h, Summable(f), Summable(g), Summable(h),
         DOMAIN f = DOMAIN g, DOMAIN h = DOMAIN f,
         \A x \in DOMAIN f : h[x] = f[x] + g[x]
  PROVE  SumOn(h, DOMAIN f) = SumOn(f, DOMAIN f) + SumOn(g, DOMAIN f)
<1> DEFINE P == {S \in SUBSET DOMAIN f : SumOn(h, S) = SumOn(f, S) + SumOn(g, S)}
<1>1. ASSUME NEW S \in SUBSET DOMAIN f, \A x \in S : S \ {x} \in P
      PROVE  S \in P
  <2>1. CASE S = {}
    BY <2>1, SumStep
  <2>2. CASE S # {}
    <3>1. PICK x \in S : TRUE
      BY <2>2
    <3>2. /\ SumOn(f, S) = f[x] + SumOn(f, S \ {x})
          /\ SumOn(g, S) = g[x] + SumOn(g, S \ {x})
          /\ SumOn(h, S) = h[x] + SumOn(h, S \ {x})
      BY SumOrder
    <3>3. /\ f[x] \in Nat /\ SumOn(f, S \ {x}) \in Nat
          /\ g[x] \in Nat /\ SumOn(g, S \ {x}) \in Nat
      BY SumType DEF Summable
    <3>4. /\ h[x] = f[x] + g[x]
          /\ SumOn(h, S \ {x}) = SumOn(f, S \ {x}) + SumOn(g, S \ {x})
      BY <1>1
    <3> QED BY <3>2, <3>3, <3>4
  <2> QED BY <2>1, <2>2
<1>2. SUBSET DOMAIN f \subseteq P
  <2>1. IsFiniteSet(DOMAIN f)
    BY DEF Summable
  <2> HIDE DEF P
  <2>2. Inductive(DOMAIN f, P)
    BY <1>1 DEF Inductive
  <2> QED BY <2>1, <2>2, SubsetInduction
<1> QED BY <1>2

(* A sum taken along an injection is the sum over its image.               *)
LEMMA SumAlong ==
  ASSUME NEW f, NEW g, Summable(f), Summable(g), NEW e,
         \A x \in DOMAIN f : e[x] \in DOMAIN g /\ f[x] = g[e[x]],
         \A x, y \in DOMAIN f : e[x] = e[y] => x = y
  PROVE  SumOn(f, DOMAIN f) = SumOn(g, {e[x] : x \in DOMAIN f})
<1> DEFINE Image(S) == {e[x] : x \in S}
           P == {S \in SUBSET DOMAIN f : SumOn(f, S) = SumOn(g, Image(S))}
<1>1. ASSUME NEW S \in SUBSET DOMAIN f, \A x \in S : S \ {x} \in P
      PROVE  S \in P
  <2>1. CASE S = {}
    <3>1. Image(S) = {}
      BY <2>1
    <3> QED BY <2>1, <3>1, SumStep
  <2>2. CASE S # {}
    <3>1. PICK x \in S : TRUE
      BY <2>2
    <3>2. e[x] \in Image(S) /\ Image(S) \in SUBSET DOMAIN g
      OBVIOUS
    <3>3. Image(S \ {x}) = Image(S) \ {e[x]}
      OBVIOUS
    <3> HIDE DEF Image
    <3>4. SumOn(f, S) = f[x] + SumOn(f, S \ {x})
      BY SumOrder
    <3>5. SumOn(g, Image(S)) = g[e[x]] + SumOn(g, Image(S) \ {e[x]})
      BY <3>2, SumOrder
    <3>6. SumOn(f, S \ {x}) = SumOn(g, Image(S \ {x}))
      BY <1>1
    <3> QED BY <3>3, <3>4, <3>5, <3>6
  <2> QED BY <2>1, <2>2
<1>2. SUBSET DOMAIN f \subseteq P
  <2>1. IsFiniteSet(DOMAIN f)
    BY DEF Summable
  <2> HIDE DEF P
  <2>2. Inductive(DOMAIN f, P)
    BY <1>1 DEF Inductive
  <2> QED BY <2>1, <2>2, SubsetInduction
<1>3. DOMAIN f \in P
  BY <1>2
<1> QED BY <1>3

(* What a function is elsewhere does not matter to a sum over a part, nor  *)
(* does a part on which it is zero.                                        *)
LEMMA SumOfPart ==
  ASSUME NEW f, NEW g, Summable(f), Summable(g), DOMAIN f \subseteq DOMAIN g,
         \A x \in DOMAIN f : f[x] = g[x],
         \A x \in DOMAIN g \ DOMAIN f : g[x] = 0
  PROVE  SumOn(f, DOMAIN f) = SumOn(g, DOMAIN g)
<1> DEFINE P == {S \in SUBSET DOMAIN g : SumOn(f, S \cap DOMAIN f) = SumOn(g, S)}
<1>1. ASSUME NEW S \in SUBSET DOMAIN g, \A x \in S : S \ {x} \in P
      PROVE  S \in P
  <2>1. CASE S = {}
    BY <2>1, SumStep
  <2>2. CASE S # {}
    <3>1. PICK x \in S : TRUE
      BY <2>2
    <3>2. SumOn(g, S) = g[x] + SumOn(g, S \ {x})
      BY SumOrder
    <3>3. SumOn(f, (S \ {x}) \cap DOMAIN f) = SumOn(g, S \ {x})
      BY <1>1
    <3>4. CASE x \in DOMAIN f
      <4>1. SumOn(f, S \cap DOMAIN f)
              = f[x] + SumOn(f, (S \cap DOMAIN f) \ {x})
        BY <3>4, SumOrder
      <4>2. (S \cap DOMAIN f) \ {x} = (S \ {x}) \cap DOMAIN f
        OBVIOUS
      <4>3. f[x] = g[x]
        BY <3>4
      <4> QED BY <3>2, <3>3, <4>1, <4>2, <4>3
    <3>5. CASE x \notin DOMAIN f
      <4>1. S \cap DOMAIN f = (S \ {x}) \cap DOMAIN f
        BY <3>5
      <4>2. g[x] = 0 /\ SumOn(g, S \ {x}) \in Nat
        BY <3>5, SumType
      <4>3. SumOn(f, S \cap DOMAIN f) = SumOn(f, (S \ {x}) \cap DOMAIN f)
        BY <4>1, Zenon
      <4> QED BY <3>2, <3>3, <4>2, <4>3
    <3> QED BY <3>4, <3>5
  <2> QED BY <2>1, <2>2
<1>2. SUBSET DOMAIN g \subseteq P
  <2>1. IsFiniteSet(DOMAIN g)
    BY DEF Summable
  <2> HIDE DEF P
  <2>2. Inductive(DOMAIN g, P)
    BY <1>1 DEF Inductive
  <2> QED BY <2>1, <2>2, SubsetInduction
<1>3. DOMAIN g \in P /\ DOMAIN g \cap DOMAIN f = DOMAIN f
  BY <1>2
<1> QED BY <1>3

(* Nor does what a function is off a set, when it is a multiple on it.     *)
LEMMA SumScaled ==
  ASSUME NEW f, NEW g, Summable(f), Summable(g), NEW c \in Nat, NEW S0,
         S0 \in SUBSET DOMAIN f, S0 \in SUBSET DOMAIN g,
         \A x \in S0 : f[x] = g[x] * c
  PROVE  SumOn(f, S0) = SumOn(g, S0) * c
<1> DEFINE P == {S \in SUBSET S0 : SumOn(f, S) = SumOn(g, S) * c}
<1>1. ASSUME NEW S \in SUBSET S0, \A x \in S : S \ {x} \in P
      PROVE  S \in P
  <2>1. CASE S = {}
    BY <2>1, SumStep
  <2>2. CASE S # {}
    <3>1. PICK x \in S : TRUE
      BY <2>2
    <3>2. /\ SumOn(f, S) = f[x] + SumOn(f, S \ {x})
          /\ SumOn(g, S) = g[x] + SumOn(g, S \ {x})
      BY SumOrder
    <3>3. g[x] \in Nat /\ SumOn(g, S \ {x}) \in Nat
      BY SumType DEF Summable
    <3>4. f[x] = g[x] * c /\ SumOn(f, S \ {x}) = SumOn(g, S \ {x}) * c
      BY <1>1
    <3>5. \A a, b \in Nat : (a + b) * c = a * c + b * c
      OBVIOUS
    <3> QED BY <3>2, <3>3, <3>4, <3>5
  <2> QED BY <2>1, <2>2
<1>2. SUBSET S0 \subseteq P
  <2>1. IsFiniteSet(S0)
    BY FS_Subset DEF Summable
  <2> HIDE DEF P
  <2>2. Inductive(S0, P)
    BY <1>1 DEF Inductive
  <2> QED BY <2>1, <2>2, SubsetInduction
<1>3. S0 \in P
  BY <1>2
<1> QED BY <1>3

(* Sums over parts without a common element.                               *)
LEMMA SumOfUnion ==
  ASSUME NEW f, Summable(f), NEW S0, NEW T0, S0 \in SUBSET DOMAIN f,
         T0 \in SUBSET DOMAIN f, S0 \cap T0 = {}
  PROVE  SumOn(f, S0 \cup T0) = SumOn(f, S0) + SumOn(f, T0)
<1> DEFINE P == {T \in SUBSET T0 : SumOn(f, S0 \cup T) = SumOn(f, S0) + SumOn(f, T)}
<1>1. ASSUME NEW T \in SUBSET T0, \A x \in T : T \ {x} \in P
      PROVE  T \in P
  <2>1. CASE T = {}
    <3>1. SumOn(f, S0 \cup T) = SumOn(f, S0)
      <4>1. S0 \cup T = S0
        BY <2>1
      <4> QED BY <4>1, Zenon
    <3>2. SumOn(f, T) = 0 /\ SumOn(f, S0) \in Nat
      BY <2>1, SumStep, SumType
    <3> QED BY <3>1, <3>2
  <2>2. CASE T # {}
    <3>1. PICK x \in T : TRUE
      BY <2>2
    <3>2. SumOn(f, T) = f[x] + SumOn(f, T \ {x})
      BY SumOrder
    <3>3. SumOn(f, S0 \cup T) = f[x] + SumOn(f, (S0 \cup T) \ {x})
      BY SumOrder
    <3>4. SumOn(f, (S0 \cup T) \ {x}) = SumOn(f, S0 \cup (T \ {x}))
      <4>1. (S0 \cup T) \ {x} = S0 \cup (T \ {x})
        OBVIOUS
      <4> QED BY <4>1, Zenon
    <3>5. SumOn(f, S0 \cup (T \ {x})) = SumOn(f, S0) + SumOn(f, T \ {x})
      BY <1>1
    <3>6. f[x] \in Nat /\ SumOn(f, S0) \in Nat /\ SumOn(f, T \ {x}) \in Nat
      BY SumType DEF Summable
    <3> QED BY <3>2, <3>3, <3>4, <3>5, <3>6
  <2> QED BY <2>1, <2>2
<1>2. SUBSET T0 \subseteq P
  <2>1. IsFiniteSet(T0)
    BY FS_Subset DEF Summable
  <2> HIDE DEF P
  <2>2. Inductive(T0, P)
    BY <1>1 DEF Inductive
  <2> QED BY <2>1, <2>2, SubsetInduction
<1>3. T0 \in P
  BY <1>2
<1> QED BY <1>3

(* A sum of numbers cut at Top, cut there, is the sum cut there.           *)
Cap(a) == IF a > Top THEN Top ELSE a

LEMMA SumOfCapped ==
  ASSUME NEW f, NEW g, Summable(f), Summable(g), DOMAIN g = DOMAIN f,
         RiskAssumption, \A x \in DOMAIN f : g[x] = Cap(f[x])
  PROVE  Cap(SumOn(g, DOMAIN f)) = Cap(SumOn(f, DOMAIN f))
<1> DEFINE P == {S \in SUBSET DOMAIN f : Cap(SumOn(g, S)) = Cap(SumOn(f, S))}
<1>1. ASSUME NEW S \in SUBSET DOMAIN f, \A x \in S : S \ {x} \in P
      PROVE  S \in P
  <2>1. CASE S = {}
    BY <2>1, SumStep
  <2>2. CASE S # {}
    <3>1. PICK x \in S : TRUE
      BY <2>2
    <3>2. /\ SumOn(f, S) = f[x] + SumOn(f, S \ {x})
          /\ SumOn(g, S) = g[x] + SumOn(g, S \ {x})
      BY SumOrder
    <3>3. /\ f[x] \in Nat /\ SumOn(f, S \ {x}) \in Nat
          /\ g[x] \in Nat /\ SumOn(g, S \ {x}) \in Nat
      BY SumType DEF Summable
    <3>4. /\ g[x] = Cap(f[x])
          /\ Cap(SumOn(g, S \ {x})) = Cap(SumOn(f, S \ {x}))
      BY <1>1
    <3>5. Top \in Nat
      BY DEF RiskAssumption
    <3>6. Cap(SumOn(g, S)) = Cap(SumOn(f, S))
      BY <3>2, <3>3, <3>4, <3>5 DEF Cap
    <3> QED BY <3>6
  <2> QED BY <2>1, <2>2
<1>2. SUBSET DOMAIN f \subseteq P
  <2>1. IsFiniteSet(DOMAIN f)
    BY DEF Summable
  <2> HIDE DEF P
  <2>2. Inductive(DOMAIN f, P)
    BY <1>1 DEF Inductive
  <2> QED BY <2>1, <2>2, SubsetInduction
<1>3. DOMAIN f \in P
  BY <1>2
<1> QED BY <1>3

(* The two folds of the model in these terms.                              *)
LEMMA PlainSum ==
  ASSUME NEW f, Summable(f)
  PROVE  SumFunction(f) = SumOn(f, DOMAIN f)
BY DEF SumFunction, SumFunctionOnSet, FoldFunctionOnSet, MapThenFoldSet, SumOn, SumsOf,
       IsSum, Choice

IsSatSum(F, f) ==
  F = [S \in SUBSET DOMAIN f |->
         IF S = {} THEN 0 ELSE SatAdd(f[Choice(S)], F[S \ {Choice(S)}])]

LEMMA SatSumIsCapped ==
  ASSUME NEW f, Summable(f), RiskAssumption
  PROVE  SatSum(f) = Cap(SumOn(f, DOMAIN f))
<1> DEFINE G == CHOOSE F : IsSatSum(F, f)
           H == [S \in SUBSET DOMAIN f |-> Cap(SumOn(f, S))]
<1>1. SatSum(f) = G[DOMAIN f]
  BY DEF SatSum, FoldFunction, FoldFunctionOnSet, MapThenFoldSet, IsSatSum, Choice
<1>0. Top \in Nat
  BY DEF RiskAssumption
<1>2. IsSatSum(H, f)
  <2>1. ASSUME NEW S \in SUBSET DOMAIN f
        PROVE  H[S] = IF S = {} THEN 0 ELSE SatAdd(f[Choice(S)], H[S \ {Choice(S)}])
    <3>1. CASE S = {}
      <4>1. SumOn(f, S) = 0
        BY <3>1, SumStep
      <4> QED BY <1>0, <3>1, <4>1 DEF Cap
    <3>2. CASE S # {}
      <4>1. Choice(S) \in S /\ SumOn(f, S) = f[Choice(S)] + SumOn(f, S \ {Choice(S)})
        BY <3>2, SumStep
      <4>2. f[Choice(S)] \in Nat /\ SumOn(f, S \ {Choice(S)}) \in Nat
        BY <4>1, SumType DEF Summable
      <4>3. H[S] = Cap(SumOn(f, S)) /\ H[S \ {Choice(S)}] = Cap(SumOn(f, S \ {Choice(S)}))
        OBVIOUS
      <4>4. Cap(SumOn(f, S)) = SatAdd(f[Choice(S)], Cap(SumOn(f, S \ {Choice(S)})))
        BY <1>0, <4>1, <4>2 DEF Cap, SatAdd
      <4> QED BY <3>2, <4>3, <4>4
    <3> QED BY <3>1, <3>2
  <2> QED BY <2>1 DEF IsSatSum
<1>3. IsSatSum(G, f)
  BY <1>2
<1> HIDE DEF G
<1> DEFINE P == {S \in SUBSET DOMAIN f : G[S] = H[S]}
<1>4. ASSUME NEW S \in SUBSET DOMAIN f, \A x \in S : S \ {x} \in P
      PROVE  S \in P
  <2> HIDE DEF H
  <2>1. G[S] = IF S = {} THEN 0 ELSE SatAdd(f[Choice(S)], G[S \ {Choice(S)}])
    BY <1>3 DEF IsSatSum
  <2>2. H[S] = IF S = {} THEN 0 ELSE SatAdd(f[Choice(S)], H[S \ {Choice(S)}])
    BY <1>2 DEF IsSatSum
  <2>3. S # {} => G[S \ {Choice(S)}] = H[S \ {Choice(S)}]
    BY <1>4 DEF Choice
  <2> QED BY <2>1, <2>2, <2>3
<1>5. SUBSET DOMAIN f \subseteq P
  <2>1. IsFiniteSet(DOMAIN f)
    BY DEF Summable
  <2> HIDE DEF P
  <2>2. Inductive(DOMAIN f, P)
    BY <1>4 DEF Inductive
  <2> QED BY <2>1, <2>2, SubsetInduction
<1>6. DOMAIN f \in P
  BY <1>5
<1> QED BY <1>1, <1>6

-----------------------------------------------------------------------------
(* The lattice.                                                            *)

Lattice(l) ==
  /\ l = [k \in DOMAIN l |-> l[k]]
  /\ DOMAIN l \subseteq Components
  /\ \A k \in DOMAIN l : l[k] \in 0..Top

LEMMA MaxOfSome ==
  ASSUME NEW S, S \subseteq Int, NEW m \in S, \A x \in S : x <= m
  PROVE  Max(S) = m
<1>1. \A x \in S : m >= x
  OBVIOUS
<1>2. PICK n : n = Max(S)
  OBVIOUS
<1>3. n \in S /\ \A x \in S : n >= x
  BY <1>1, <1>2 DEF Max
<1>4. n >= m /\ m >= n /\ n \in Int /\ m \in Int
  BY <1>1, <1>3
<1> QED BY <1>2, <1>4

LEMMA MinOfSome ==
  ASSUME NEW S, S \subseteq Int, NEW m \in S, \A x \in S : m <= x
  PROVE  Min(S) = m
<1>1. PICK n : n = Min(S)
  OBVIOUS
<1>2. n \in S /\ \A x \in S : n <= x
  BY <1>1 DEF Min
<1>3. n <= m /\ m <= n /\ n \in Int /\ m \in Int
  BY <1>2
<1> QED BY <1>1, <1>3

Larger(a, b) == IF a > b THEN a ELSE b

LEMMA JoinIsMaximum ==
  ASSUME RiskAssumption, NEW l, NEW r, Lattice(l), Lattice(r)
  PROVE  /\ Lattice(Join(l, r))
         /\ DOMAIN Join(l, r) = DOMAIN l \cup DOMAIN r
         /\ \A k : Value(Join(l, r), k) = Larger(Value(l, k), Value(r, k))
<1> DEFINE cs == Coordinates(l) \cup Coordinates(r)
           Of1(k) == {q[2] : q \in {p \in cs : p[1] = k}}
           D == {q[1] : q \in cs}
<1>0. Top \in Nat
  BY DEF RiskAssumption
<1>1. Join(l, r) = [k \in D |-> Max(Of1(k))]
  BY DEF Join, Canonical
<1>2. /\ \A k \in DOMAIN l : <<k, l[k]>> \in cs
      /\ \A k \in DOMAIN r : <<k, r[k]>> \in cs
      /\ \A q \in cs : \/ q[1] \in DOMAIN l /\ q[2] = l[q[1]]
                       \/ q[1] \in DOMAIN r /\ q[2] = r[q[1]]
  BY DEF Coordinates
<1> HIDE DEF cs
<1>9. D = DOMAIN l \cup DOMAIN r
  <2>1. \A k \in DOMAIN l \cup DOMAIN r : \E q \in cs : k = q[1]
    <3> SUFFICES ASSUME NEW k \in DOMAIN l \cup DOMAIN r
                 PROVE  \E q \in cs : k = q[1]
      OBVIOUS
    <3>1. <<k, l[k]>>[1] = k /\ <<k, r[k]>>[1] = k
      OBVIOUS
    <3> QED BY <1>2, <3>1
  <2> QED BY <1>2, <2>1
<1>3. \A k, v : v \in Of1(k) <=> ((k \in DOMAIN l /\ v = l[k]) \/ (k \in DOMAIN r /\ v = r[k]))
  <2> SUFFICES ASSUME NEW k, NEW v
               PROVE  v \in Of1(k) <=> ((k \in DOMAIN l /\ v = l[k]) \/ (k \in DOMAIN r /\ v = r[k]))
    OBVIOUS
  <2>1. v \in Of1(k) <=> \E q \in cs : q[1] = k /\ q[2] = v
    OBVIOUS
  <2>2. /\ <<k, l[k]>>[1] = k /\ <<k, l[k]>>[2] = l[k]
        /\ <<k, r[k]>>[1] = k /\ <<k, r[k]>>[2] = r[k]
    OBVIOUS
  <2> HIDE DEF Of1
  <2> QED BY <1>2, <2>1, <2>2
<1> HIDE DEF Of1, D
<1>4. ASSUME NEW k \in D
      PROVE  /\ Join(l, r)[k] = Larger(Value(l, k), Value(r, k))
             /\ Join(l, r)[k] \in 0..Top
  <2>1. Join(l, r)[k] = Max(Of1(k))
    BY <1>1
  <2>2. Of1(k) \subseteq 0..Top /\ Of1(k) \subseteq Int
    BY <1>3 DEF Lattice
  <2> DEFINE m == Larger(Value(l, k), Value(r, k))
  <2>3. m \in Of1(k)
    <3>1. CASE k \in DOMAIN l /\ k \in DOMAIN r
      BY <1>3, <3>1 DEF Larger, Value
    <3>2. CASE k \in DOMAIN l /\ k \notin DOMAIN r
      <4>1. m = l[k]
        BY <1>0, <3>2 DEF Larger, Value, Lattice
      <4> QED BY <1>3, <3>2, <4>1
    <3>3. CASE k \notin DOMAIN l /\ k \in DOMAIN r
      <4>1. m = r[k]
        BY <1>0, <3>3 DEF Larger, Value, Lattice
      <4> QED BY <1>3, <3>3, <4>1
    <3> QED BY <1>9, <3>1, <3>2, <3>3
  <2>4. \A x \in Of1(k) : x <= m
    BY <1>0, <1>9, <1>3 DEF Larger, Value, Lattice
  <2> HIDE DEF m
  <2>5. Max(Of1(k)) = m
    BY <2>2, <2>3, <2>4, MaxOfSome
  <2> QED BY <2>1, <2>2, <2>3, <2>5 DEF m
<1>5. \A k : k \notin D => Value(Join(l, r), k) = Larger(Value(l, k), Value(r, k))
  BY <1>1, <1>9 DEF Value, Larger
<1>6. DOMAIN Join(l, r) = D
  BY <1>1
<1>7. Lattice(Join(l, r))
  <2>1. Join(l, r) = [k \in DOMAIN Join(l, r) |-> Join(l, r)[k]]
    BY <1>1
  <2> QED BY <2>1, <1>9, <1>4, <1>6 DEF Lattice
<1>8. \A k \in D : Value(Join(l, r), k) = Larger(Value(l, k), Value(r, k))
  BY <1>4, <1>6 DEF Value
<1> QED BY <1>9, <1>5, <1>6, <1>7, <1>8

LEMMA ValueType ==
  ASSUME RiskAssumption, NEW l, Lattice(l)
  PROVE  \A k : Value(l, k) \in 0..Top
BY DEF RiskAssumption, Lattice, Value

LEMMA LatticeFinite ==
  ASSUME RiskAssumption, NEW l, Lattice(l), NEW n
  PROVE  /\ IsFiniteSet(DOMAIN l)
         /\ DOMAIN Of(l, n) = {k \in DOMAIN l : k[1] = n}
         /\ \A k \in DOMAIN Of(l, n) : Of(l, n)[k] = l[k]
         /\ Summable(Of(l, n))
<1>1. IsFiniteSet(DOMAIN l)
  BY FS_Subset DEF RiskAssumption, Lattice
<1>2. /\ DOMAIN Of(l, n) = {k \in DOMAIN l : k[1] = n}
      /\ \A k \in DOMAIN Of(l, n) : Of(l, n)[k] = l[k]
  BY DEF Of, Restrict
<1>3. IsFiniteSet({k \in DOMAIN l : k[1] = n})
  BY <1>1, FS_Subset
<1>4. \A k \in DOMAIN Of(l, n) : Of(l, n)[k] \in Nat
  BY <1>2 DEF Lattice, RiskAssumption
<1> QED BY <1>1, <1>2, <1>3, <1>4 DEF Summable

(* Saturating sums of a namespace, over a set that may hold more.          *)
Padded(l, D) == [k \in D |-> Value(l, k)]

LEMMA PaddedSum ==
  ASSUME RiskAssumption, NEW l, Lattice(l), NEW n, NEW D, IsFiniteSet(D),
         DOMAIN Of(l, n) \subseteq D, \A k \in D : k[1] = n
  PROVE  /\ Summable(Padded(l, D)) /\ DOMAIN Padded(l, D) = D
         /\ SumOn(Padded(l, D), D) = SumOn(Of(l, n), DOMAIN Of(l, n))
<1> DEFINE g == Padded(l, D)
           f == Of(l, n)
<1>1. DOMAIN g = D /\ \A k \in D : g[k] = Value(l, k)
  BY DEF Padded
<1>2. Summable(g)
  <2>1. \A k \in D : g[k] \in Nat
    BY <1>1, ValueType
  <2> HIDE DEF g
  <2> QED BY <1>1, <2>1 DEF Summable
<1>3. /\ Summable(f)
      /\ \A k \in DOMAIN f : f[k] = l[k] /\ k \in DOMAIN l
      /\ \A k \in D \ DOMAIN f : k \notin DOMAIN l
  <2>1. /\ Summable(f)
        /\ DOMAIN f = {k \in DOMAIN l : k[1] = n}
        /\ \A k \in DOMAIN f : f[k] = l[k]
    BY LatticeFinite
  <2> QED BY <2>1
<1>4. /\ \A k \in DOMAIN f : f[k] = g[k]
      /\ \A k \in DOMAIN g \ DOMAIN f : g[k] = 0
  BY <1>1, <1>3 DEF Value
<1> HIDE DEF f, g
<1>5. DOMAIN f \subseteq DOMAIN g
  BY <1>1 DEF f
<1>6. SumOn(f, DOMAIN f) = SumOn(g, DOMAIN g)
  BY <1>2, <1>3, <1>4, <1>5, SumOfPart
<1> QED BY <1>1, <1>2, <1>6 DEF f, g

LEMMA VectorsJoin ==
  ASSUME RiskAssumption, Lattice(left), Lattice(right)
  PROVE  VectorFollowsJoin
<1> DEFINE j == Join(left, right)
<1>0. Top \in Nat
  BY DEF RiskAssumption
<1>1. /\ Lattice(j) /\ DOMAIN j = DOMAIN left \cup DOMAIN right
      /\ \A k : Value(j, k) = Larger(Value(left, k), Value(right, k))
  BY JoinIsMaximum
<1> HIDE DEF j
<1> SUFFICES ASSUME NEW n \in Namespaces
             PROVE  /\ Max({Min({Top, SumFunction(Of(left, n))}),
                            Min({Top, SumFunction(Of(right, n))})} ) <= Vector(j)[n]
                    /\ Vector(j)[n] <= Min({Top, Min({Top, SumFunction(Of(left, n))})
                                                  + Min({Top, SumFunction(Of(right, n))})})
  BY DEF VectorFollowsJoin, j
<1> DEFINE D == DOMAIN Of(j, n)
           fl == Padded(left, D)
           fr == Padded(right, D)
           fj == Padded(j, D)
           fb == [k \in D |-> fl[k] + fr[k]]
           L == SumOn(fl, D)
           R == SumOn(fr, D)
           J == SumOn(fj, D)
<1>2. /\ IsFiniteSet(D) /\ \A k \in D : k[1] = n
      /\ DOMAIN Of(left, n) \subseteq D /\ DOMAIN Of(right, n) \subseteq D
  <2>1. IsFiniteSet(D) /\ D = {k \in DOMAIN j : k[1] = n}
    <3>1. Lattice(j)
      BY <1>1
    <3>2. Summable(Of(j, n)) /\ DOMAIN Of(j, n) = {k \in DOMAIN j : k[1] = n}
      BY <3>1, LatticeFinite
    <3> QED BY <3>2 DEF Summable
  <2>2. /\ DOMAIN Of(left, n) = {k \in DOMAIN left : k[1] = n}
        /\ DOMAIN Of(right, n) = {k \in DOMAIN right : k[1] = n}
    BY LatticeFinite
  <2> QED BY <1>1, <2>1, <2>2
<1>3. /\ SumFunction(Of(left, n)) = L /\ L \in Nat
      /\ SumFunction(Of(right, n)) = R /\ R \in Nat
      /\ Vector(j)[n] = Cap(J) /\ J \in Nat
      /\ Summable(fl) /\ Summable(fr) /\ Summable(fj)
  <2> HIDE DEF D
  <2>0. DOMAIN Of(j, n) \subseteq D
    BY DEF D
  <2>1. Summable(fl) /\ L = SumOn(Of(left, n), DOMAIN Of(left, n)) /\ DOMAIN fl = D
    BY <1>2, PaddedSum
  <2>2. Summable(fr) /\ R = SumOn(Of(right, n), DOMAIN Of(right, n)) /\ DOMAIN fr = D
    BY <1>2, PaddedSum
  <2>3. Summable(fj) /\ J = SumOn(Of(j, n), DOMAIN Of(j, n)) /\ DOMAIN fj = D
    BY <1>1, <1>2, <2>0, PaddedSum
  <2>4. /\ SumFunction(Of(left, n)) = SumOn(Of(left, n), DOMAIN Of(left, n))
        /\ SumFunction(Of(right, n)) = SumOn(Of(right, n), DOMAIN Of(right, n))
    BY LatticeFinite, PlainSum
  <2>5. Vector(j)[n] = Cap(SumOn(Of(j, n), DOMAIN Of(j, n)))
    <3>1. Vector(j)[n] = SatSum(Of(j, n))
      BY DEF Vector
    <3> QED BY <1>1, <3>1, LatticeFinite, SatSumIsCapped
  <2> HIDE DEF fl, fr, fj
  <2>6. L \in Nat /\ R \in Nat /\ J \in Nat
    BY <2>1, <2>2, <2>3, SumType
  <2> QED BY <2>1, <2>2, <2>3, <2>4, <2>5, <2>6
<1>4. \A k \in D : /\ fl[k] \in Nat /\ fr[k] \in Nat
                   /\ fj[k] = Larger(fl[k], fr[k]) /\ fb[k] = fl[k] + fr[k]
  <2>1. \A k \in D : /\ fl[k] = Value(left, k) /\ fr[k] = Value(right, k)
                     /\ fj[k] = Value(j, k)
    BY DEF Padded
  <2>2. \A k : Value(left, k) \in Nat /\ Value(right, k) \in Nat
    BY <1>0, ValueType
  <2> QED BY <1>1, <2>1, <2>2
<1>5. DOMAIN fl = D /\ DOMAIN fr = D /\ DOMAIN fj = D /\ DOMAIN fb = D
  BY DEF Padded
<1> HIDE DEF D, fl, fr, fj, fb
<1>6. Summable(fb)
  BY <1>2, <1>4, <1>5 DEF Summable
<1>7. L <= J /\ R <= J
  <2>1. \A k \in D : fl[k] <= fj[k] /\ fr[k] <= fj[k]
    BY <1>4 DEF Larger
  <2> QED BY <1>3, <1>5, <2>1, SumMonotone
<1>8. J <= SumOn(fb, D)
  <2>1. \A k \in D : fj[k] <= fb[k]
    BY <1>4 DEF Larger
  <2> QED BY <1>3, <1>5, <1>6, <2>1, SumMonotone
<1>9. SumOn(fb, D) = L + R
  BY <1>3, <1>4, <1>5, <1>6, SumOfBoth
<1> HIDE DEF L, R, J
<1>10. Min({Top, SumFunction(Of(left, n))}) = Cap(L)
  <2>1. Cap(L) \in {Top, L} /\ {Top, L} \subseteq Int /\ \A x \in {Top, L} : Cap(L) <= x
    BY <1>0, <1>3 DEF Cap
  <2> QED BY <1>3, <2>1, MinOfSome
<1>11. Min({Top, SumFunction(Of(right, n))}) = Cap(R)
  <2>1. Cap(R) \in {Top, R} /\ {Top, R} \subseteq Int /\ \A x \in {Top, R} : Cap(R) <= x
    BY <1>0, <1>3 DEF Cap
  <2> QED BY <1>3, <2>1, MinOfSome
<1>12. Cap(L) \in Nat /\ Cap(R) \in Nat
  BY <1>0, <1>3 DEF Cap
<1>13. Max({Cap(L), Cap(R)}) = Larger(Cap(L), Cap(R))
  <2> DEFINE S == {Cap(L), Cap(R)}
  <2>1. Larger(Cap(L), Cap(R)) \in S /\ S \subseteq Int /\ \A x \in S : x <= Larger(Cap(L), Cap(R))
    BY <1>12 DEF Larger
  <2> QED BY <2>1, MaxOfSome
<1>14. Min({Top, Cap(L) + Cap(R)}) = Cap(Cap(L) + Cap(R))
  <2> DEFINE S == {Top, Cap(L) + Cap(R)}
  <2>1. /\ Cap(Cap(L) + Cap(R)) \in S /\ S \subseteq Int
        /\ \A x \in S : Cap(Cap(L) + Cap(R)) <= x
    <3>1. \A a \in Nat : Cap(a) \in {Top, a} /\ Cap(a) <= Top /\ Cap(a) <= a
      BY <1>0 DEF Cap
    <3>2. Cap(L) + Cap(R) \in Nat
      BY <1>12
    <3> QED BY <1>0, <3>1, <3>2
  <2> QED BY <2>1, MinOfSome
<1>15. Larger(Cap(L), Cap(R)) <= Cap(J) /\ Cap(J) <= Cap(Cap(L) + Cap(R))
  BY <1>0, <1>3, <1>7, <1>8, <1>9 DEF Cap, Larger
<1> QED BY <1>3, <1>10, <1>11, <1>13, <1>14, <1>15

-----------------------------------------------------------------------------
(* Calibration.                                                            *)

Enough(s, p, v) == Cardinality(Upto(s, v)) > CeilDiv(p * (Len(s) - 1), 100)

LEMMA SequenceFacts ==
  ASSUME NEW S, NEW s \in Seq(S)
  PROVE  /\ Len(s) \in Nat /\ DOMAIN s = 1..Len(s)
         /\ \A i \in DOMAIN s : s[i] \in S
OBVIOUS

LEMMA FunctionIsSequence ==
  ASSUME NEW S, NEW n \in Nat, NEW s, s \in [1..n -> S]
  PROVE  s \in Seq(S)
OBVIOUS

LEMMA UptoFinite ==
  ASSUME NEW s \in Seq(0..Top), NEW v
  PROVE  /\ IsFiniteSet(DOMAIN s) /\ Cardinality(DOMAIN s) = Len(s)
         /\ IsFiniteSet(Upto(s, v)) /\ Cardinality(Upto(s, v)) \in Nat
<1>1. DOMAIN s = 1..Len(s) /\ Len(s) \in Nat
  OBVIOUS
<1>2. IsFiniteSet(DOMAIN s) /\ Cardinality(DOMAIN s) = Len(s)
  <2>1. IsFiniteSet(1..Len(s)) /\ Cardinality(1..Len(s)) = Len(s)
    BY <1>1, FS_Interval
  <2> QED BY <1>1, <2>1
<1>3. IsFiniteSet(Upto(s, v))
  BY <1>2, FS_Subset DEF Upto
<1> QED BY <1>2, <1>3, FS_CardinalityType

LEMMA QuantileIsLeast ==
  ASSUME RiskAssumption, NEW s \in Seq(0..Top), s # << >>, NEW p \in 0..100
  PROVE  /\ Percentile(s, p) \in Range(s) /\ Percentile(s, p) \in 0..Top
         /\ Enough(s, p, Percentile(s, p))
         /\ \A v \in Range(s) : Enough(s, p, v) => Percentile(s, p) <= v
<1> DEFINE Q == {v \in Range(s) : Enough(s, p, v)}
<1>0. Top \in Nat
  BY DEF RiskAssumption
<1>8. DOMAIN s = 1..Len(s) /\ Len(s) \in Nat /\ Len(s) # 0
  OBVIOUS
<1>9. PICK n \in Nat : Len(s) = n + 1
  <2>1. Len(s) - 1 \in Nat /\ Len(s) = (Len(s) - 1) + 1
    BY <1>8
  <2> QED BY <2>1
<1>1. Range(s) \subseteq 0..Top
  <2>1. \A i \in DOMAIN s : s[i] \in 0..Top
    BY SequenceFacts
  <2> QED BY <2>1 DEF Range
<1>2. Percentile(s, p) = Min(Q)
  BY DEF Percentile, Enough
<1>3. PICK m \in Range(s) : \A v \in Range(s) : v <= m
  <2> DEFINE T == {Top - v : v \in Range(s)}
  <2>1. T \subseteq Nat /\ T # {}
    <3>1. s[1] \in Range(s)
      BY <1>8, <1>9 DEF Range
    <3> QED BY <1>0, <1>1, <3>1
  <2>2. PICK t \in T : \A u \in T : t <= u
    BY <2>1, LeastNumber
  <2>3. PICK m \in Range(s) : t = Top - m
    BY <2>2
  <2>4. \A v \in Range(s) : v <= m
    <3> SUFFICES ASSUME NEW v \in Range(s) PROVE v <= m
      OBVIOUS
    <3>1. Top - v \in T /\ Top - m <= Top - v
      BY <2>2, <2>3
    <3> QED BY <1>0, <1>1, <3>1
  <2> QED BY <2>3, <2>4
<1>4. m \in Q
  <2>1. Upto(s, m) = DOMAIN s
    BY <1>3 DEF Upto, Range
  <2>2. Cardinality(Upto(s, m)) = Len(s)
    BY <2>1, UptoFinite
  <2>3. Len(s) > CeilDiv(p * (Len(s) - 1), 100)
    <3>1. p * n \in Nat /\ p * n <= 100 * n
      BY <1>9
    <3>2. PICK x \in Nat : x = p * n
      BY <3>1
    <3>3. CeilDiv(x, 100) <= n
      BY <3>1, <3>2 DEF CeilDiv
    <3>4. Len(s) - 1 = n
      BY <1>9
    <3>5. CeilDiv(p * (Len(s) - 1), 100) <= n
      BY <3>2, <3>3, <3>4
    <3>6. CeilDiv(x, 100) \in Int
      BY <3>2 DEF CeilDiv
    <3> QED BY <1>9, <3>2, <3>3, <3>4, <3>6
  <2> QED BY <2>2, <2>3 DEF Enough
<1>5. Q \subseteq Nat
  BY <1>0, <1>1
<1>6. PICK q \in Q : \A v \in Q : q <= v
  BY <1>4, <1>5, LeastNumber
<1>7. Min(Q) = q
  <2>1. Q \subseteq Int
    BY <1>5
  <2> HIDE DEF Q
  <2> QED BY <1>6, <2>1, MinOfSome
<1> QED BY <1>1, <1>2, <1>6, <1>7

LEMMA QuantilesInOrder ==
  ASSUME RiskAssumption, NEW s \in Seq(0..Top), s # << >>,
         NEW p \in 0..100, NEW q \in 0..100, p <= q
  PROVE  Percentile(s, p) <= Percentile(s, q)
<1>1. Enough(s, q, Percentile(s, q)) /\ Percentile(s, q) \in Range(s)
  BY QuantileIsLeast
<1>2. PICK n \in Nat : n = Len(s) - 1
  OBVIOUS
<1>3. CeilDiv(p * n, 100) <= CeilDiv(q * n, 100)
  <2>1. p * n <= q * n /\ p * n \in Nat /\ q * n \in Nat
    BY <1>2
  <2>2. PICK x \in Nat, y \in Nat : x = p * n /\ y = q * n
    BY <2>1
  <2>3. x <= y
    BY <2>1, <2>2
  <2>4. CeilDiv(x, 100) <= CeilDiv(y, 100)
    BY <2>3 DEF CeilDiv
  <2> QED BY <2>2, <2>4
<1>4. CeilDiv(p * n, 100) \in Int /\ CeilDiv(q * n, 100) \in Int
  <2>1. \A x \in Nat : CeilDiv(x, 100) \in Int
    BY DEF CeilDiv
  <2>2. p * n \in Nat /\ q * n \in Nat
    BY <1>2
  <2> QED BY <2>1, <2>2
<1>5. Cardinality(Upto(s, Percentile(s, q))) \in Nat
  BY UptoFinite
<1>6. Enough(s, p, Percentile(s, q))
  BY <1>1, <1>2, <1>3, <1>4, <1>5 DEF Enough
<1> QED BY <1>1, <1>6, QuantileIsLeast

LEMMA QuantileCovers ==
  ASSUME RiskAssumption, NEW s \in Seq(0..Top), s # << >>, NEW p \in 0..100
  PROVE  100 * Cardinality({i \in DOMAIN s : s[i] <= Percentile(s, p)}) >= p * Len(s)
<1>1. PICK c \in Nat : c = Cardinality(Upto(s, Percentile(s, p)))
  BY UptoFinite
<1>2. PICK n \in Nat : n = Len(s) - 1
  OBVIOUS
<1>3. c > CeilDiv(p * n, 100)
  BY <1>1, <1>2, QuantileIsLeast DEF Enough
<1>4. PICK x \in Nat : x = p * n
  BY <1>2
<1>5. 100 * c >= x + 100
  BY <1>1, <1>3, <1>4 DEF CeilDiv
<1>6. p * Len(s) = x + p
  <2>1. p * (n + 1) = p * n + p
    BY <1>2
  <2>2. Len(s) = n + 1
    BY <1>2
  <2> QED BY <1>4, <2>1, <2>2
<1> QED BY <1>1, <1>4, <1>5, <1>6 DEF Upto

LEMMA CoveringQuantiles ==
  ASSUME RiskAssumption, sample \in [Components -> Seq(0..Top)]
  PROVE  QuantilesCover
<1> SUFFICES ASSUME NEW k \in Components, sample[k] # << >>
             PROVE  LET covers(p, q) ==
                          100 * Cardinality({i \in DOMAIN sample[k] : sample[k][i] <= q})
                              >= p * Len(sample[k])
                        s == StatsFor(sample[k])
                    IN  /\ covers(50, s.median) /\ covers(80, s.q80)
                        /\ covers(95, s.q95) /\ covers(99, s.q99)
                        /\ s.median <= s.q80 /\ s.q80 <= s.q95 /\ s.q95 <= s.q99
  BY DEF QuantilesCover
<1> DEFINE s == sample[k]
<1>1. s \in Seq(0..Top) /\ s # << >>
  OBVIOUS
<1>2. /\ StatsFor(s).median = Percentile(s, 50) /\ StatsFor(s).q80 = Percentile(s, 80)
      /\ StatsFor(s).q95 = Percentile(s, 95) /\ StatsFor(s).q99 = Percentile(s, 99)
  BY DEF StatsFor
<1> HIDE DEF s
<1> DEFINE Covers(p, q) == 100 * Cardinality({i \in DOMAIN s : s[i] <= q}) >= p * Len(s)
<1>3. \A p \in 0..100 : Covers(p, Percentile(s, p))
  BY <1>1, QuantileCovers
<1>4. \A p, q \in 0..100 : p <= q => Percentile(s, p) <= Percentile(s, q)
  BY <1>1, QuantilesInOrder
<1>5. /\ 50 \in 0..100 /\ 80 \in 0..100 /\ 95 \in 0..100 /\ 99 \in 0..100
      /\ 50 <= 80 /\ 80 <= 95 /\ 95 <= 99
  OBVIOUS
<1>6. /\ Percentile(s, 50) <= Percentile(s, 80)
      /\ Percentile(s, 80) <= Percentile(s, 95)
      /\ Percentile(s, 95) <= Percentile(s, 99)
  BY <1>4, <1>5, Zenon
<1> HIDE DEF Covers
<1>7. /\ Covers(50, StatsFor(s).median) /\ Covers(80, StatsFor(s).q80)
      /\ Covers(95, StatsFor(s).q95) /\ Covers(99, StatsFor(s).q99)
  BY <1>2, <1>3, <1>5
<1>8. /\ StatsFor(s).median <= StatsFor(s).q80 /\ StatsFor(s).q80 <= StatsFor(s).q95
      /\ StatsFor(s).q95 <= StatsFor(s).q99
  BY <1>2, <1>6
<1> QED BY <1>7, <1>8, Zenon DEF Covers, s

(* What a policy's terms are made of.                                      *)
StatsOK(st) ==
  /\ st.median \in 0..Top /\ st.mad \in 1..Top
  /\ st.q80 \in 0..Top /\ st.q95 \in 0..Top /\ st.q99 \in 0..Top
TermOK(t) == t.num \in Nat /\ t.den = 1 /\ StatsOK(t.stats)
TermsOK(terms) == IsFiniteSet(terms) /\ \A t \in terms : TermOK(t)

LEMMA StatsAreOK ==
  ASSUME RiskAssumption, NEW s \in Seq(0..Top), s # << >>
  PROVE  StatsOK(StatsFor(s))
<1> DEFINE m == Percentile(s, 50)
           d == [i \in DOMAIN s |-> Abs(s[i] - m)]
<1>0. Top \in Nat \ {0}
  BY DEF RiskAssumption
<1>1. m \in 0..Top
  BY QuantileIsLeast
<1>2. d \in Seq(0..Top) /\ d # << >>
  <2> HIDE DEF m
  <2>1. DOMAIN s = 1..Len(s) /\ Len(s) \in Nat \ {0}
    OBVIOUS
  <2>2. \A i \in DOMAIN s : d[i] \in 0..Top
    BY <1>0, <1>1 DEF Abs
  <2>3. d \in [1..Len(s) -> 0..Top]
    BY <2>1, <2>2
  <2> HIDE DEF d
  <2>4. d \in Seq(0..Top)
    BY <2>1, <2>3, FunctionIsSequence
  <2>5. DOMAIN d = 1..Len(s) /\ 1 \in 1..Len(s)
    BY <2>1, <2>3
  <2>6. DOMAIN << >> = {}
    OBVIOUS
  <2> QED BY <2>4, <2>5, <2>6
<1> HIDE DEF d, m
<1>3. Percentile(d, 50) \in 0..Top
  BY <1>2, QuantileIsLeast
<1>4. Max({1, Percentile(d, 50)}) = Larger(1, Percentile(d, 50))
  <2> DEFINE S == {1, Percentile(d, 50)}
  <2>1. /\ Larger(1, Percentile(d, 50)) \in S /\ S \subseteq Int
        /\ \A x \in S : x <= Larger(1, Percentile(d, 50))
    BY <1>0, <1>3 DEF Larger
  <2> QED BY <2>1, MaxOfSome
<1>5. StatsFor(s).mad = Larger(1, Percentile(d, 50))
  BY <1>4 DEF StatsFor, d, m
<1>6. StatsFor(s).mad \in 1..Top
  BY <1>0, <1>3, <1>5 DEF Larger
<1>7. /\ Percentile(s, 80) \in 0..Top /\ Percentile(s, 95) \in 0..Top
      /\ Percentile(s, 99) \in 0..Top
  BY QuantileIsLeast
<1>8. /\ StatsFor(s).median = m /\ StatsFor(s).q80 = Percentile(s, 80)
      /\ StatsFor(s).q95 = Percentile(s, 95) /\ StatsFor(s).q99 = Percentile(s, 99)
  BY DEF StatsFor, m
<1> QED BY <1>1, <1>6, <1>7, <1>8 DEF StatsOK

-----------------------------------------------------------------------------
(* Scores.                                                                 *)

LEMMA LogMonotone ==
  ASSUME RiskAssumption, NEW a \in 1..2 * Top, NEW b \in 1..2 * Top, a <= b
  PROVE  MicroLog[a] <= MicroLog[b]
<1> DEFINE P == {n \in Nat : a + n <= 2 * Top => MicroLog[a] <= MicroLog[a + n]}
<1>0. /\ Top \in Nat /\ MicroLog \in [1..2 * Top -> Nat]
      /\ \A n \in 1..2 * Top - 1 : MicroLog[n] <= MicroLog[n + 1]
  BY DEF RiskAssumption
<1>1. 0 \in P
  BY <1>0
<1>2. ASSUME NEW n \in Nat, n \in P PROVE n + 1 \in P
  <2> SUFFICES ASSUME a + n + 1 <= 2 * Top PROVE MicroLog[a] <= MicroLog[a + n + 1]
    BY <1>0
  <2>1. MicroLog[a] <= MicroLog[a + n]
    BY <1>0, <1>2
  <2>2. a + n \in 1..2 * Top - 1 /\ a + n + 1 \in 1..2 * Top /\ a + n \in 1..2 * Top
    BY <1>0
  <2>3. MicroLog[a + n] <= MicroLog[a + n + 1]
    BY <1>0, <2>2
  <2>4. MicroLog[a] \in Nat /\ MicroLog[a + n] \in Nat /\ MicroLog[a + n + 1] \in Nat
    BY <1>0, <2>2
  <2> QED BY <2>1, <2>3, <2>4
<1>3. b - a \in P
  <2>1. Nat \subseteq P
    <3> HIDE DEF P
    <3> QED BY <1>1, <1>2, ByInduction
  <2>2. b - a \in Nat
    BY <1>0
  <2> HIDE DEF P
  <2> QED BY <2>1, <2>2
<1>4. a + (b - a) = b /\ b <= 2 * Top
  BY <1>0
<1> QED BY <1>0, <1>3, <1>4

LEMMA CalibratedMonotone ==
  ASSUME RiskAssumption, NEW t, StatsOK(t.stats),
         NEW v \in 0..Top, NEW w \in 0..Top, v <= w
  PROVE  /\ Calibrated(v, t) \in Nat /\ Calibrated(w, t) \in Nat
         /\ Calibrated(v, t) <= Calibrated(w, t)
<1>0. Top \in Nat /\ MicroLog \in [1..2 * Top -> Nat]
  BY DEF RiskAssumption
<1>1. CASE t.mode = "quantile"
  BY <1>0, <1>1 DEF Calibrated, StatsOK
<1>2. CASE t.mode = "robust_z"
  <2> DEFINE m == t.stats.median
             d == t.stats.mad
             z(x) == CeilDiv(MicroLog[d + x - m] - MicroLog[d], 1000)
  <2>1. m \in 0..Top /\ d \in 1..Top
    BY DEF StatsOK
  <2>2. \A x : Calibrated(x, t) = IF x <= m THEN 0 ELSE z(x)
    BY <1>2 DEF Calibrated
  <2> HIDE DEF m, d
  <2>3. \A x \in 0..Top : x > m => d + x - m \in 1..2 * Top /\ d \in 1..2 * Top
    BY <1>0, <2>1
  <2>4. ASSUME NEW x \in 0..Top, x > m
        PROVE  MicroLog[d + x - m] - MicroLog[d] \in Nat /\ z(x) \in Nat
    <3>1. d <= d + x - m
      BY <1>0, <2>1, <2>4
    <3>2. MicroLog[d] <= MicroLog[d + x - m]
      BY <2>3, <2>4, <3>1, LogMonotone
    <3>3. MicroLog[d + x - m] \in Nat /\ MicroLog[d] \in Nat
      BY <1>0, <2>3, <2>4
    <3>4. \A y \in Nat : CeilDiv(y, 1000) \in Nat
      BY DEF CeilDiv
    <3>5. MicroLog[d + x - m] - MicroLog[d] \in Nat
      BY <3>2, <3>3
    <3> QED BY <3>4, <3>5
  <2>5. ASSUME v > m PROVE z(v) <= z(w)
    <3>1. w > m /\ d + v - m <= d + w - m
      BY <1>0, <2>1, <2>5
    <3>2. MicroLog[d + v - m] <= MicroLog[d + w - m]
      BY <2>3, <2>5, <3>1, LogMonotone
    <3>3. /\ MicroLog[d + v - m] \in Nat /\ MicroLog[d + w - m] \in Nat
          /\ MicroLog[d] \in Nat
      BY <1>0, <2>3, <2>5, <3>1
    <3>4. \A x, y \in Nat : x <= y => CeilDiv(x, 1000) <= CeilDiv(y, 1000)
      BY DEF CeilDiv
    <3>5. /\ MicroLog[d + v - m] - MicroLog[d] \in Nat
          /\ MicroLog[d + w - m] - MicroLog[d] \in Nat
      BY <2>4, <2>5, <3>1
    <3>6. MicroLog[d + v - m] - MicroLog[d] <= MicroLog[d + w - m] - MicroLog[d]
      BY <3>2, <3>3
    <3> QED BY <3>4, <3>5, <3>6
  <2> HIDE DEF z
  <2> QED BY <1>0, <2>1, <2>2, <2>4, <2>5
<1>3. CASE t.mode \notin {"quantile", "robust_z"}
  BY <1>0, <1>3 DEF Calibrated
<1> QED BY <1>1, <1>2, <1>3

LEMMA MulDivByOne ==
  ASSUME RiskAssumption, NEW v \in Nat, NEW n \in Nat
  PROVE  v * n \in Nat /\ MulDiv(v, n, 1) = Cap(v * n) /\ Cap(v * n) \in Nat
<1>1. v * n \in Nat
  OBVIOUS
<1>2. PICK x \in Nat : x = v * n
  BY <1>1
<1>3. x \div 1 = x
  OBVIOUS
<1>4. MulDiv(v, n, 1) = IF x > Top THEN Top ELSE x
  BY <1>2, <1>3 DEF MulDiv
<1> QED BY <1>1, <1>2, <1>4 DEF Cap, RiskAssumption

Score(l, t) == MulDiv(Calibrated(Value(l, t.key), t), t.num, t.den)
Scores(l, terms) == [t \in terms |-> Score(l, t)]

LEMMA ProjectIsSum ==
  ASSUME RiskAssumption, NEW terms, TermsOK(terms), NEW l, Lattice(l)
  PROVE  /\ Summable(Scores(l, terms)) /\ DOMAIN Scores(l, terms) = terms
         /\ SumOn(Scores(l, terms), terms) \in Nat
         /\ Project(l, terms) = Cap(SumOn(Scores(l, terms), terms))
<1>1. ASSUME NEW t \in terms PROVE Score(l, t) \in Nat
  <2>1. TermOK(t) /\ Value(l, t.key) \in 0..Top
    BY ValueType DEF TermsOK
  <2>2. Top \in Nat
    BY DEF RiskAssumption
  <2>3. Calibrated(Value(l, t.key), t) \in Nat
    BY <2>1, <2>2, CalibratedMonotone DEF TermOK
  <2>4. PICK v \in Nat : v = Calibrated(Value(l, t.key), t)
    BY <2>3
  <2>5. PICK n \in Nat : n = t.num
    BY <2>1 DEF TermOK
  <2>6. Score(l, t) = MulDiv(v, n, 1)
    BY <2>1, <2>4, <2>5 DEF TermOK, Score
  <2> QED BY <2>6, MulDivByOne
<1>2. Summable(Scores(l, terms)) /\ DOMAIN Scores(l, terms) = terms
  BY <1>1 DEF Summable, Scores, TermsOK
<1>3. Project(l, terms) = SatSum(Scores(l, terms))
  BY DEF Project, Scores, Score
<1> QED BY <1>2, <1>3, SatSumIsCapped, SumType

LEMMA ScoreMonotone ==
  ASSUME RiskAssumption, NEW t, TermOK(t), NEW l, NEW r, Lattice(l), Lattice(r),
         Value(l, t.key) <= Value(r, t.key)
  PROVE  Score(l, t) <= Score(r, t)
<1>1. Value(l, t.key) \in 0..Top /\ Value(r, t.key) \in 0..Top
  BY ValueType
<1>2. PICK v \in Nat, w \in Nat : /\ v = Calibrated(Value(l, t.key), t)
                                /\ w = Calibrated(Value(r, t.key), t)
                                /\ v <= w
  BY <1>1, CalibratedMonotone DEF TermOK
<1>3. Score(l, t) = Cap(v * t.num) /\ Score(r, t) = Cap(w * t.num)
  BY <1>2, MulDivByOne DEF TermOK, Score
<1>4. PICK n \in Nat : n = t.num
  BY DEF TermOK
<1>5. v * n <= w * n /\ v * n \in Nat /\ w * n \in Nat
  BY <1>2
<1>6. PICK x \in Nat, y \in Nat : x = v * n /\ y = w * n /\ x <= y
  BY <1>5
<1>7. \A a, b \in Nat : a <= b => Cap(a) <= Cap(b)
  BY DEF Cap, RiskAssumption
<1>8. Cap(x) <= Cap(y)
  BY <1>6, <1>7
<1> QED BY <1>3, <1>4, <1>6, <1>8

LEMMA ProjectMonotone ==
  ASSUME RiskAssumption, NEW terms, TermsOK(terms), NEW l, NEW r,
         Lattice(l), Lattice(r), \A k : Value(l, k) <= Value(r, k)
  PROVE  Project(l, terms) <= Project(r, terms)
<1>1. \A t \in terms : Scores(l, terms)[t] <= Scores(r, terms)[t]
  BY ScoreMonotone DEF TermsOK, Scores
<1>2. SumOn(Scores(l, terms), terms) <= SumOn(Scores(r, terms), terms)
  BY <1>1, ProjectIsSum, SumMonotone
<1> DEFINE L == SumOn(Scores(l, terms), terms)
           R == SumOn(Scores(r, terms), terms)
<1>3. /\ Project(l, terms) = Cap(L) /\ L \in Nat
      /\ Project(r, terms) = Cap(R) /\ R \in Nat
  BY ProjectIsSum
<1> HIDE DEF L, R
<1>4. L <= R /\ Top \in Nat
  BY <1>2 DEF L, R, RiskAssumption
<1> QED BY <1>3, <1>4 DEF Cap

LEMMA RiskierScoresMore ==
  ASSUME RiskAssumption, Lattice(left), Lattice(right), TermsOK(policy)
  PROVE  ProjectionIsMonotone
<1> SUFFICES ASSUME LessEqual(left, right)
             PROVE  Project(left, policy) <= Project(right, policy)
  BY DEF ProjectionIsMonotone
<1>1. \A k : Value(left, k) <= Value(right, k)
  <2>1. \A k : Value(right, k) \in 0..Top
    BY ValueType
  <2> QED BY <2>1 DEF LessEqual, Value, RiskAssumption
<1> QED BY <1>1, ProjectMonotone

LEMMA JoinedScores ==
  ASSUME RiskAssumption, Lattice(left), Lattice(right), TermsOK(policy)
  PROVE  JoinedScoreIsBounded
<1> DEFINE j == Join(left, right)
           fl == Scores(left, policy)
           fr == Scores(right, policy)
           fj == Scores(j, policy)
           fb == [t \in policy |-> fl[t] + fr[t]]
           L == SumOn(fl, policy)
           R == SumOn(fr, policy)
           J == SumOn(fj, policy)
           B == SumOn(fb, policy)
<1>0. Top \in Nat
  BY DEF RiskAssumption
<1>1. /\ Lattice(j)
      /\ \A k : Value(j, k) = Larger(Value(left, k), Value(right, k))
  BY JoinIsMaximum
<1>2. \A k : Value(left, k) \in 0..Top /\ Value(right, k) \in 0..Top
  BY ValueType
<1> HIDE DEF j
<1>3. Project(left, policy) <= Project(j, policy)
  <2>1. \A k : Value(left, k) <= Value(j, k)
    BY <1>0, <1>1, <1>2 DEF Larger
  <2> QED BY <1>1, <2>1, ProjectMonotone
<1>4. Project(right, policy) <= Project(j, policy)
  <2>1. \A k : Value(right, k) <= Value(j, k)
    BY <1>0, <1>1, <1>2 DEF Larger
  <2> QED BY <1>1, <2>1, ProjectMonotone
<1>5. /\ Summable(fl) /\ DOMAIN fl = policy /\ L \in Nat /\ Project(left, policy) = Cap(L)
      /\ Summable(fr) /\ DOMAIN fr = policy /\ R \in Nat /\ Project(right, policy) = Cap(R)
      /\ Summable(fj) /\ DOMAIN fj = policy /\ J \in Nat /\ Project(j, policy) = Cap(J)
  BY <1>1, ProjectIsSum
<1>6. \A t \in policy : fj[t] = fl[t] \/ fj[t] = fr[t]
  <2> SUFFICES ASSUME NEW t \in policy PROVE fj[t] = fl[t] \/ fj[t] = fr[t]
    OBVIOUS
  <2>1. fj[t] = Score(j, t) /\ fl[t] = Score(left, t) /\ fr[t] = Score(right, t)
    BY DEF Scores
  <2>2. Value(j, t.key) = Value(left, t.key) \/ Value(j, t.key) = Value(right, t.key)
    BY <1>1 DEF Larger
  <2> QED BY <2>1, <2>2 DEF Score
<1>7. DOMAIN fb = policy /\ \A t \in policy : fb[t] = fl[t] + fr[t]
  OBVIOUS
<1> HIDE DEF fl, fr, fj, fb
<1>8. \A t \in policy : fl[t] \in Nat /\ fr[t] \in Nat
  BY <1>5 DEF Summable
<1>9. Summable(fb)
  BY <1>5, <1>7, <1>8 DEF Summable
<1>10. J <= B
  <2>1. \A t \in policy : fj[t] <= fb[t]
    BY <1>6, <1>7, <1>8
  <2> QED BY <1>5, <1>7, <1>9, <2>1, SumMonotone
<1>11. B = L + R
  BY <1>5, <1>7, <1>9, SumOfBoth
<1> HIDE DEF L, R, J, B
<1>12. Cap(L) \in Nat /\ Cap(R) \in Nat /\ Cap(J) \in Nat
  BY <1>0, <1>5 DEF Cap
<1>13. Max({Cap(L), Cap(R)}) = Larger(Cap(L), Cap(R))
  <2> DEFINE S == {Cap(L), Cap(R)}
  <2>1. Larger(Cap(L), Cap(R)) \in S /\ S \subseteq Int /\ \A x \in S : x <= Larger(Cap(L), Cap(R))
    BY <1>12 DEF Larger
  <2> QED BY <2>1, MaxOfSome
<1>14. Min({Top, Cap(L) + Cap(R)}) = Cap(Cap(L) + Cap(R))
  <2> DEFINE S == {Top, Cap(L) + Cap(R)}
  <2>1. /\ Cap(Cap(L) + Cap(R)) \in S /\ S \subseteq Int
        /\ \A x \in S : Cap(Cap(L) + Cap(R)) <= x
    <3>1. \A a \in Nat : Cap(a) \in {Top, a} /\ Cap(a) <= Top /\ Cap(a) <= a
      BY <1>0 DEF Cap
    <3>2. Cap(L) + Cap(R) \in Nat
      BY <1>12
    <3> QED BY <1>0, <3>1, <3>2
  <2> QED BY <2>1, MinOfSome
<1>15. Larger(Cap(L), Cap(R)) <= Cap(J)
  BY <1>3, <1>4, <1>5 DEF Larger
<1>16. Cap(J) <= Cap(Cap(L) + Cap(R))
  BY <1>0, <1>5, <1>10, <1>11 DEF Cap
<1>17. JoinedScoreIsBounded <=>
         /\ Max({Project(left, policy), Project(right, policy)}) <= Project(j, policy)
         /\ Project(j, policy)
              <= Min({Top, Project(left, policy) + Project(right, policy)})
  BY DEF JoinedScoreIsBounded, j
<1> QED BY <1>5, <1>13, <1>14, <1>15, <1>16, <1>17

-----------------------------------------------------------------------------
(* Policies, and those of four weights.                                    *)

LEMMA ImageFinite ==
  ASSUME NEW S, IsFiniteSet(S), NEW e, DOMAIN e = S
  PROVE  IsFiniteSet({e[x] : x \in S})
<1> DEFINE T == {e[x] : x \in S}
           g == [x \in S |-> e[x]]
<1>1. g \in Surjection(S, T)
  BY DEF Surjection
<1> QED BY <1>1, FS_Surjection

LEMMA DefaultFinite ==
  /\ IsFiniteSet(DefaultTerms)
  /\ \A k \in DefaultTerms : k[1] \in Namespaces
<1> DEFINE e == << <<"law", "total_magnitude">>, <<"repair", "distance">>,
     <<"structural", "forward_cone_mass">>,
     <<"structural", "reverse_dependency_mass">>,
     <<"structural", "cut_vertex_impact">>, <<"structural", "boundary_expansion">>,
     <<"structural", "path_multiplicity">>, <<"structural", "propagated_mass">>,
     <<"surprise", "history_distance">> >>
<1>1. DOMAIN e = 1..9
  OBVIOUS
<1>2. {e[n] : n \in 1..9} = DefaultTerms
  <2>1. 1..9 = {1, 2, 3, 4, 5, 6, 7, 8, 9}
    OBVIOUS
  <2> QED BY <2>1 DEF DefaultTerms
<1>3. IsFiniteSet(1..9)
  <2>1. 1 \in Int /\ 9 \in Int
    OBVIOUS
  <2> HIDE DEF e
  <2> QED BY <2>1, FS_Interval
<1>4. IsFiniteSet(DefaultTerms)
  <2> HIDE DEF e
  <2> QED BY <1>1, <1>2, <1>3, ImageFinite
<1> QED BY <1>4 DEF DefaultTerms, Namespaces

LegacyTerm(w, k) ==
  [key |-> k, num |-> w[k[1]], den |-> 1, mode |-> "raw", stats |-> NoStats]
LegacyTermOf(w) == [k \in DefaultTerms |-> LegacyTerm(w, k)]

LEMMA NoStatsOK ==
  ASSUME RiskAssumption
  PROVE  StatsOK(NoStats)
BY DEF RiskAssumption, StatsOK, NoStats

LEMMA DefaultOK ==
  ASSUME RiskAssumption
  PROVE  TermsOK(DefaultPolicy)
<1> DEFINE e == [k \in DefaultTerms |-> [key |-> k, num |-> 1, den |-> 1, mode |-> "raw", stats |-> NoStats]]
<1>1. DefaultPolicy = {e[k] : k \in DefaultTerms}
  BY DEF DefaultPolicy
<1>2. IsFiniteSet(DefaultPolicy)
  <2>1. DOMAIN e = DefaultTerms
    OBVIOUS
  <2> HIDE DEF e
  <2> QED BY <1>1, <2>1, DefaultFinite, ImageFinite
<1>3. \A t \in DefaultPolicy : TermOK(t)
  BY NoStatsOK DEF DefaultPolicy, TermOK
<1> QED BY <1>2, <1>3 DEF TermsOK

LEMMA LegacyIsTerms ==
  ASSUME RiskAssumption, NEW w \in [Namespaces -> 0..Top]
  PROVE  /\ LegacyPolicy(w) = {LegacyTermOf(w)[k] : k \in DefaultTerms}
         /\ TermsOK(LegacyPolicy(w))
<1>0. Top \in Nat
  BY DEF RiskAssumption
<1> DEFINE d(k) == [key |-> k, num |-> 1, den |-> 1, mode |-> "raw", stats |-> NoStats]
<1>1. ASSUME NEW k \in DefaultTerms
      PROVE  [d(k) EXCEPT !.num = SatMul(@, w[d(k).key[1]])] = LegacyTerm(w, k)
  <2>1. w[k[1]] \in 0..Top
    BY DefaultFinite
  <2>2. SatMul(1, w[k[1]]) = w[k[1]]
    BY <1>0, <2>1 DEF SatMul
  <2>3. d(k).key = k /\ d(k).num = 1
    OBVIOUS
  <2> QED BY <2>2, <2>3 DEF LegacyTerm
<1>2. LegacyPolicy(w) = {LegacyTerm(w, k) : k \in DefaultTerms}
  <2>1. LegacyPolicy(w) = {[t EXCEPT !.num = SatMul(@, w[t.key[1]])] : t \in {d(k) : k \in DefaultTerms}}
    BY DEF LegacyPolicy, DefaultPolicy
  <2> HIDE DEF d
  <2> QED BY <1>1, <2>1
<1>3. LegacyPolicy(w) = {LegacyTermOf(w)[k] : k \in DefaultTerms}
  BY <1>2 DEF LegacyTermOf
<1>4. IsFiniteSet(LegacyPolicy(w))
  <2>1. DOMAIN LegacyTermOf(w) = DefaultTerms
    BY DEF LegacyTermOf
  <2> QED BY <1>3, <2>1, DefaultFinite, ImageFinite
<1>5. \A t \in LegacyPolicy(w) : TermOK(t)
  <2> SUFFICES ASSUME NEW k \in DefaultTerms PROVE TermOK(LegacyTerm(w, k))
    BY <1>2
  <2>1. w[k[1]] \in Nat
    BY <1>0, DefaultFinite
  <2> QED BY <2>1, NoStatsOK DEF TermOK, LegacyTerm
<1> QED BY <1>3, <1>4, <1>5 DEF TermsOK

(* What a default component counts under four weights.                     *)
Weighed(l, w) == [k \in DefaultTerms |-> Value(l, k) * w[k[1]]]

LEMMA LegacyScoreIsWeighed ==
  ASSUME RiskAssumption, NEW w \in [Namespaces -> 0..Top], NEW l, Lattice(l)
  PROVE  /\ Summable(Weighed(l, w)) /\ DOMAIN Weighed(l, w) = DefaultTerms
         /\ Project(l, LegacyPolicy(w)) = Cap(SumOn(Weighed(l, w), DefaultTerms))
<1> DEFINE p == LegacyPolicy(w)
           e == LegacyTermOf(w)
           f == Weighed(l, w)
           c == [k \in DefaultTerms |-> Cap(f[k])]
<1>0. Top \in Nat
  BY DEF RiskAssumption
<1>1. ASSUME NEW k \in DefaultTerms
      PROVE  /\ f[k] \in Nat /\ c[k] \in Nat
             /\ e[k] \in p /\ Scores(l, p)[e[k]] = c[k]
  <2>1. e[k] \in p /\ e[k] = LegacyTerm(w, k)
    BY LegacyIsTerms DEF LegacyTermOf
  <2>2. Value(l, k) \in Nat /\ w[k[1]] \in Nat
    BY <1>0, ValueType, DefaultFinite
  <2>3. Calibrated(Value(l, k), LegacyTerm(w, k)) = Value(l, k)
    BY DEF Calibrated, LegacyTerm
  <2>4. Score(l, LegacyTerm(w, k)) = MulDiv(Value(l, k), w[k[1]], 1)
    <3>1. /\ LegacyTerm(w, k).key = k /\ LegacyTerm(w, k).num = w[k[1]]
          /\ LegacyTerm(w, k).den = 1
      BY DEF LegacyTerm
    <3> QED BY <2>3, <3>1 DEF Score
  <2>5. f[k] = Value(l, k) * w[k[1]]
    BY DEF Weighed
  <2>6. Scores(l, p)[e[k]] = Score(l, e[k])
    BY <2>1 DEF Scores
  <2> QED BY <2>1, <2>2, <2>4, <2>5, <2>6, MulDivByOne
<1>2. DOMAIN f = DefaultTerms /\ DOMAIN e = DefaultTerms
  BY DEF Weighed, LegacyTermOf
<1>3. Summable(f) /\ Summable(c)
  BY <1>1, <1>2, DefaultFinite DEF Summable
<1>4. SumOn(Scores(l, p), p) = SumOn(c, DefaultTerms)
  <2>1. Summable(Scores(l, p)) /\ DOMAIN Scores(l, p) = p
    BY LegacyIsTerms, ProjectIsSum
  <2>2. \A x, y \in DefaultTerms : e[x] = e[y] => x = y
    BY DEF LegacyTermOf, LegacyTerm
  <2>3. p = {e[k] : k \in DefaultTerms}
    BY LegacyIsTerms
  <2>4. DOMAIN c = DefaultTerms
    OBVIOUS
  <2>5. \A x \in DOMAIN c : e[x] \in DOMAIN Scores(l, p) /\ c[x] = Scores(l, p)[e[x]]
    BY <1>1, <2>1
  <2> HIDE DEF c, e, p
  <2>6. SumOn(c, DOMAIN c) = SumOn(Scores(l, p), {e[x] : x \in DOMAIN c})
    BY <1>3, <2>1, <2>2, <2>4, <2>5, SumAlong
  <2> QED BY <2>3, <2>4, <2>6, Zenon
<1>5. Cap(SumOn(c, DefaultTerms)) = Cap(SumOn(f, DefaultTerms))
  <2>1. DOMAIN c = DOMAIN f /\ \A x \in DOMAIN f : c[x] = Cap(f[x])
    BY <1>2
  <2> HIDE DEF c, f
  <2> QED BY <1>2, <1>3, <2>1, SumOfCapped
<1>6. Project(l, p) = Cap(SumOn(Scores(l, p), p))
  BY LegacyIsTerms, ProjectIsSum
<1> QED BY <1>2, <1>3, <1>4, <1>5, <1>6

(* The weighed sum of a namespace is the weight of the sum.                *)
LEMMA NamespaceWeighed ==
  ASSUME RiskAssumption, NEW w \in [Namespaces -> 0..Top], NEW l, Lattice(l),
         DOMAIN l \subseteq DefaultTerms, NEW n \in Namespaces
  PROVE  /\ SumOn(Of(l, n), DOMAIN Of(l, n)) \in Nat
         /\ SumOn(Weighed(l, w), {k \in DefaultTerms : k[1] = n})
              = SumOn(Of(l, n), DOMAIN Of(l, n)) * w[n]
<1>11. DOMAIN Of(l, n) = {k \in DOMAIN l : k[1] = n}
  BY DEF Of, Restrict
<1> DEFINE D == {k \in DefaultTerms : k[1] = n}
           g == Padded(l, D)
<1>0. Top \in Nat
  BY DEF RiskAssumption
<1>1. IsFiniteSet(D) /\ \A k \in D : k[1] = n
  BY DefaultFinite, FS_Subset
<1>2. DOMAIN Of(l, n) \subseteq D
  BY <1>11
<1>3. \A k \in D : Weighed(l, w)[k] = Value(l, k) * w[n]
  BY DEF Weighed
<1>4. D \in SUBSET DefaultTerms
  OBVIOUS
<1> HIDE DEF D
<1>5. /\ Summable(g) /\ DOMAIN g = D
      /\ SumOn(g, D) = SumOn(Of(l, n), DOMAIN Of(l, n))
  BY <1>1, <1>2, PaddedSum
<1>6. \A k \in D : Weighed(l, w)[k] = g[k] * w[n]
  BY <1>3 DEF Padded
<1>7. w[n] \in Nat
  BY <1>0
<1> HIDE DEF g
<1>8. Summable(Weighed(l, w)) /\ DOMAIN Weighed(l, w) = DefaultTerms
  BY LegacyScoreIsWeighed
<1>9. SumOn(Weighed(l, w), D) = SumOn(g, D) * w[n]
  BY <1>4, <1>5, <1>6, <1>7, <1>8, SumScaled
<1>10. SumOn(g, D) \in Nat
  BY <1>5, SumType
<1> QED BY <1>5, <1>9, <1>10 DEF D

LEMMA ScaledCap ==
  ASSUME RiskAssumption, NEW s \in Nat, NEW m \in Nat
  PROVE  SatMul(Cap(s), m) = Cap(s * m) /\ Cap(s * m) \in Nat
<1>0. Top \in Nat
  BY DEF RiskAssumption
<1>1. s * m \in Nat /\ Top * m \in Nat
  BY <1>0
<1>2. CASE s <= Top
  <2>1. Cap(s) = s
    BY <1>0, <1>2 DEF Cap
  <2> QED BY <1>0, <1>1, <2>1 DEF SatMul, Cap
<1>3. CASE s > Top /\ m = 0
  <2>1. s * m = 0 /\ Top * m = 0
    BY <1>0, <1>3
  <2>2. Cap(s) = Top
    BY <1>0, <1>3 DEF Cap
  <2> QED BY <1>0, <2>1, <2>2 DEF SatMul, Cap
<1>4. CASE s > Top /\ m >= 1
  <2>1. s * m >= s /\ Top * m >= Top
    BY <1>0, <1>4
  <2>2. Cap(s) = Top
    BY <1>0, <1>4 DEF Cap
  <2>3. PICK x \in Nat, y \in Nat : x = s * m /\ y = Top * m /\ x >= s /\ y >= Top
    BY <1>1, <2>1
  <2>4. Cap(x) = Top
    BY <1>0, <1>4, <2>3 DEF Cap
  <2>5. SatMul(Top, m) = Top
    BY <1>0, <2>3 DEF SatMul
  <2> QED BY <1>0, <2>2, <2>3, <2>4, <2>5
<1> QED BY <1>0, <1>2, <1>3, <1>4

LEMMA LegacyAgrees ==
  ASSUME RiskAssumption, NEW w \in [Namespaces -> 0..Top], NEW l, Lattice(l),
         DOMAIN l \subseteq DefaultTerms
  PROVE  Project(l, LegacyPolicy(w)) = ProjectVector(Vector(l), w)
<1> DEFINE S(n) == SumOn(Of(l, n), DOMAIN Of(l, n))
           f == Weighed(l, w)
           u == [n \in Namespaces |-> S(n) * w[n]]
           c == [n \in Namespaces |-> SatMul(Vector(l)[n], w[n])]
           Keys(N) == {k \in DefaultTerms : k[1] \in N}
           P == {N \in SUBSET Namespaces : SumOn(f, Keys(N)) = SumOn(u, N)}
<1>0. Top \in Nat
  BY DEF RiskAssumption
<1>1. \A n \in Namespaces : w[n] \in 0..Top /\ w[n] \in Nat
  BY <1>0
<1>2. \A n \in Namespaces :
        S(n) \in Nat /\ SumOn(f, {k \in DefaultTerms : k[1] = n}) = S(n) * w[n]
  BY NamespaceWeighed
<1>3. Summable(f) /\ DOMAIN f = DefaultTerms
      /\ Project(l, LegacyPolicy(w)) = Cap(SumOn(f, DefaultTerms))
  BY LegacyScoreIsWeighed
<1>4. \A n \in Namespaces : Vector(l)[n] = Cap(S(n))
  <2> SUFFICES ASSUME NEW n \in Namespaces PROVE Vector(l)[n] = Cap(S(n))
    OBVIOUS
  <2>1. Vector(l)[n] = SatSum(Of(l, n))
    BY DEF Vector
  <2> QED BY <2>1, LatticeFinite, SatSumIsCapped
<1> HIDE DEF S, f
<1>5. ASSUME NEW n \in Namespaces PROVE u[n] = S(n) * w[n] /\ u[n] \in Nat
  <2>1. S(n) \in Nat /\ w[n] \in Nat
    BY <1>1, <1>2
  <2>2. \A a, b \in Nat : a * b \in Nat
    OBVIOUS
  <2>3. u[n] = S(n) * w[n]
    OBVIOUS
  <2> QED BY <2>1, <2>2, <2>3
<1>6. ASSUME NEW n \in Namespaces PROVE c[n] = Cap(u[n]) /\ c[n] \in Nat
  <2>1. S(n) \in Nat /\ w[n] \in Nat
    BY <1>1, <1>2
  <2>2. c[n] = SatMul(Cap(S(n)), w[n]) /\ u[n] = S(n) * w[n]
    BY <1>4
  <2>3. /\ SatMul(Cap(S(n)), w[n]) = Cap(S(n) * w[n])
        /\ Cap(S(n) * w[n]) \in Nat
    BY <2>1, ScaledCap
  <2> QED BY <2>2, <2>3
<1>7. DOMAIN u = Namespaces /\ DOMAIN c = Namespaces /\ IsFiniteSet(Namespaces)
  <2>1. IsFiniteSet(Namespaces)
    <3>1. IsFiniteSet({"structural", "law"}) /\ IsFiniteSet({"repair", "surprise"})
      <4>1. /\ IsFiniteSet({"structural"}) /\ IsFiniteSet({"law"})
            /\ IsFiniteSet({"repair"}) /\ IsFiniteSet({"surprise"})
        BY FS_Singleton, Zenon
      <4>2. /\ {"structural", "law"} = {"structural"} \cup {"law"}
            /\ {"repair", "surprise"} = {"repair"} \cup {"surprise"}
        OBVIOUS
      <4>3. /\ IsFiniteSet({"structural"} \cup {"law"})
            /\ IsFiniteSet({"repair"} \cup {"surprise"})
        BY <4>1, FS_Union
      <4> QED BY <4>2, <4>3, Zenon
    <3>2. Namespaces = {"structural", "law"} \cup {"repair", "surprise"}
      BY DEF Namespaces
    <3> QED BY <3>1, <3>2, FS_Union
  <2> QED BY <2>1
<1> HIDE DEF u, c
<1>8. Summable(u) /\ Summable(c)
  BY <1>5, <1>6, <1>7 DEF Summable
<1>9. ASSUME NEW N \in SUBSET Namespaces, \A n \in N : N \ {n} \in P
      PROVE  N \in P
  <2>1. CASE N = {}
    <3>1. SumOn(f, Keys(N)) = SumOn(f, {})
      <4>1. Keys(N) = {}
        BY <2>1
      <4> QED BY <4>1, Zenon
    <3>2. SumOn(f, {}) = 0 /\ SumOn(u, {}) = 0
      BY <1>3, <1>8, SumStep
    <3> QED BY <2>1, <3>1, <3>2
  <2>2. CASE N # {}
    <3>1. PICK n \in N : TRUE
      BY <2>2
    <3>2. SumOn(f, Keys(N)) = SumOn(f, Keys(N \ {n}) \cup Keys({n}))
      <4>1. Keys(N) = Keys(N \ {n}) \cup Keys({n})
        OBVIOUS
      <4> QED BY <4>1, Zenon
    <3>3. Keys({n}) = {k \in DefaultTerms : k[1] = n}
      OBVIOUS
    <3>4. /\ Keys(N \ {n}) \in SUBSET DefaultTerms /\ Keys({n}) \in SUBSET DefaultTerms
          /\ Keys(N \ {n}) \cap Keys({n}) = {}
      OBVIOUS
    <3>5. SumOn(f, Keys(N \ {n})) = SumOn(u, N \ {n})
      BY <1>9
    <3> HIDE DEF Keys
    <3>6. SumOn(f, Keys(N \ {n}) \cup Keys({n}))
            = SumOn(f, Keys(N \ {n})) + SumOn(f, Keys({n}))
      BY <1>3, <3>4, SumOfUnion
    <3>7. SumOn(f, Keys({n})) = u[n]
      <4>1. SumOn(f, Keys({n})) = SumOn(f, {k \in DefaultTerms : k[1] = n})
        BY <3>3, Zenon
      <4> QED BY <1>2, <1>5, <4>1
    <3>8. SumOn(u, N) = u[n] + SumOn(u, N \ {n})
      BY <1>7, <1>8, SumOrder
    <3>9. u[n] \in Nat /\ SumOn(u, N \ {n}) \in Nat
      BY <1>5, <1>7, <1>8, SumType
    <3>10. SumOn(f, Keys(N)) = SumOn(u, N)
      BY <3>2, <3>5, <3>6, <3>7, <3>8, <3>9
    <3> QED BY <3>10
  <2> QED BY <2>1, <2>2
<1>10. SumOn(f, Keys(Namespaces)) = SumOn(u, Namespaces)
  <2>1. SUBSET Namespaces \subseteq P
    <3> HIDE DEF P
    <3>2. Inductive(Namespaces, P)
      BY <1>9 DEF Inductive
    <3> QED BY <1>7, <3>2, SubsetInduction
  <2>2. Namespaces \in P
    BY <2>1
  <2> QED BY <2>2
<1>11. SumOn(f, Keys(Namespaces)) = SumOn(f, DefaultTerms)
  <2>1. Keys(Namespaces) = DefaultTerms
    BY DefaultFinite
  <2> QED BY <2>1, Zenon
<1>12. ProjectVector(Vector(l), w) = Cap(SumOn(c, Namespaces))
  <2>1. ProjectVector(Vector(l), w) = SatSum(c)
    BY DEF ProjectVector, c
  <2> QED BY <1>7, <1>8, <2>1, SatSumIsCapped
<1>13. Cap(SumOn(c, Namespaces)) = Cap(SumOn(u, Namespaces))
  BY <1>6, <1>7, <1>8, SumOfCapped
<1> QED BY <1>3, <1>10, <1>11, <1>12, <1>13

-----------------------------------------------------------------------------
(* The measurements, the sample and the policy in every reachable state.   *)

RiskInv ==
  /\ Lattice(left) /\ Lattice(right)
  /\ sample \in [Components -> Seq(0..Top)]
  /\ TermsOK(policy)
  /\ legacy # << >> =>
       \E w \in [Namespaces -> 0..Top] : legacy = <<w>> /\ policy = LegacyPolicy(w)

RiskOK ==
  /\ ProjectionIsMonotone /\ JoinedScoreIsBounded /\ VectorFollowsJoin
  /\ QuantilesCover /\ LegacyScoresAgree

LEMMA RiskFollows ==
  ASSUME RiskAssumption, RiskInv
  PROVE  RiskOK
<1>1. LegacyScoresAgree
  <2> SUFFICES ASSUME legacy # << >>, NEW l \in {left, right}, DOMAIN l \subseteq DefaultTerms
               PROVE  Project(l, policy) = ProjectVector(Vector(l), legacy[1])
    BY DEF LegacyScoresAgree
  <2>1. PICK w \in [Namespaces -> 0..Top] : legacy = <<w>> /\ policy = LegacyPolicy(w)
    BY DEF RiskInv
  <2>2. legacy[1] = w /\ Lattice(l)
    BY <2>1 DEF RiskInv
  <2> QED BY <2>1, <2>2, LegacyAgrees
<1> QED BY <1>1, RiskierScoresMore, JoinedScores, VectorsJoin, CoveringQuantiles DEF RiskInv, RiskOK

LEMMA RiskStarts ==
  ASSUME RiskAssumption, RiskInit
  PROVE  RiskInv
<1>1. Lattice(left) /\ Lattice(right)
  BY DEF RiskInit, Lattice
<1>2. sample \in [Components -> Seq(0..Top)]
  BY DEF RiskInit
<1> QED BY <1>1, <1>2, DefaultOK DEF RiskInit, RiskInv

LEMMA CalibratedOK ==
  ASSUME RiskAssumption, sample \in [Components -> Seq(0..Top)], NEW mode
  PROVE  TermsOK(CalibratedPolicy(mode))
<1> DEFINE Seen == {c \in Components : sample[c] # << >>}
           e == [k \in Seen |-> [key |-> k, num |-> 1, den |-> 1, mode |-> mode,
                                stats |-> StatsFor(sample[k])]]
<1>1. CalibratedPolicy(mode) = {e[k] : k \in Seen}
  BY DEF CalibratedPolicy
<1>2. IsFiniteSet(CalibratedPolicy(mode))
  <2>1. IsFiniteSet(Seen)
    BY FS_Subset DEF RiskAssumption
  <2>2. DOMAIN e = Seen
    OBVIOUS
  <2> HIDE DEF e, Seen
  <2> QED BY <1>1, <2>1, <2>2, ImageFinite
<1>3. ASSUME NEW k \in Seen PROVE TermOK(e[k])
  <2>1. StatsOK(StatsFor(sample[k]))
    BY StatsAreOK
  <2>2. e[k].num = 1 /\ e[k].den = 1 /\ e[k].stats = StatsFor(sample[k])
    OBVIOUS
  <2> QED BY <2>1, <2>2 DEF TermOK
<1> HIDE DEF e, Seen
<1> QED BY <1>1, <1>2, <1>3 DEF TermsOK

LEMMA RiskStays ==
  ASSUME RiskAssumption, RiskInv, [RiskNext]_riskVars
  PROVE  RiskInv'
<1>0. Top \in Nat /\ Samples \subseteq 0..Top /\ Values \subseteq 0..Top
      /\ Sampled \subseteq Components /\ Weights \subseteq 0..Top
  BY DEF RiskAssumption
<1>1. ASSUME NEW k \in Sampled, NEW v \in Samples, Observe(k, v) PROVE RiskInv'
  <2>1. sample' \in [Components -> Seq(0..Top)]
    <3>1. sample[k] \in Seq(0..Top) /\ v \in 0..Top
      BY <1>0, <1>1 DEF RiskInv
    <3>2. Append(sample[k], v) \in Seq(0..Top)
      BY <3>1
    <3> QED BY <1>1, <3>2 DEF Observe, RiskInv
  <2> QED BY <1>1, <2>1 DEF Observe, RiskInv
<1>2. ASSUME NEW mode, Calibrate(mode) PROVE RiskInv'
  <2>1. TermsOK(policy')
    BY <1>2, CalibratedOK DEF Calibrate, RiskInv
  <2> QED BY <1>2, <2>1 DEF Calibrate, RiskInv
<1>3. ASSUME NEW w \in [Namespaces -> Weights], DecodeLegacy(w) PROVE RiskInv'
  <2>1. w \in [Namespaces -> 0..Top]
    BY <1>0
  <2>2. TermsOK(policy')
    BY <1>3, <2>1, LegacyIsTerms DEF DecodeLegacy
  <2> QED BY <1>3, <2>1, <2>2 DEF DecodeLegacy, RiskInv
<1>4. ASSUME NEW k \in Components, NEW v \in Values, Measure(k, v) PROVE RiskInv'
  <2> DEFINE one == [c \in {k} |-> v]
  <2>1. Lattice(one)
    BY <1>0 DEF Lattice
  <2>2. Lattice(left') /\ Lattice(right')
    <3> HIDE DEF one
    <3>1. Lattice(Join(left, one)) /\ Lattice(Join(right, one))
      BY <2>1, JoinIsMaximum DEF RiskInv
    <3> QED BY <1>4, <3>1 DEF Measure, RiskInv, one
  <2> QED BY <1>4, <2>2 DEF Measure, RiskInv
<1>5. CASE UNCHANGED riskVars
  BY <1>5 DEF riskVars, RiskInv
<1> QED BY <1>1, <1>2, <1>3, <1>4, <1>5 DEF RiskNext

(* Whatever is measured, joined, sampled, calibrated or decoded: more risk  *)
(* is never a lower score, a joined score is within its parts, quantiles   *)
(* cover their share of the sample, and four weights score what they did:  *)
(* project(), join(), percentile() and the legacy policy, saturating sums  *)
(* and products included.                                                  *)
THEOREM RiskAddsUp ==
  ASSUME RiskAssumption
  PROVE  RiskSpec => []RiskOK
<1> QED BY RiskStarts, RiskStays, RiskFollows, PTL DEF RiskSpec

-----------------------------------------------------------------------------
(* Guard runs.                                                             *)

LEMMA NumbersHaveMost ==
  ASSUME NEW S, S \subseteq Nat, S # {}, IsFiniteSet(S)
  PROVE  \E m \in S : \A x \in S : x <= m
<1> DEFINE W == {T \in SUBSET S : T # {} => \E m \in T : \A x \in T : x <= m}
<1>1. ASSUME NEW T \in SUBSET S, \A x \in T : T \ {x} \in W
      PROVE  T \in W
  <2> SUFFICES ASSUME T # {} PROVE \E m \in T : \A y \in T : y <= m
    OBVIOUS
  <2>1. PICK x \in T : TRUE
    OBVIOUS
  <2>2. CASE T \ {x} = {}
    BY <2>1, <2>2
  <2>3. CASE T \ {x} # {}
    <3>1. PICK m \in T \ {x} : \A y \in T \ {x} : y <= m
      BY <1>1, <2>1, <2>3
    <3>2. CASE m <= x
      BY <2>1, <3>1, <3>2
    <3>3. CASE x <= m
      BY <2>1, <3>1, <3>3
    <3> QED BY <2>1, <3>1, <3>2, <3>3
  <2> QED BY <2>2, <2>3
<1>2. SUBSET S \subseteq W
  <2> HIDE DEF W
  <2>1. Inductive(S, W)
    BY <1>1 DEF Inductive
  <2>2. IsFiniteSet(S)
    OBVIOUS
  <2> QED BY <2>1, <2>2, SubsetInduction
<1>3. S \in W
  BY <1>2
<1> QED BY <1>3

(* percentile_threshold is a value of the sample and covers its share.     *)
LEMMA ThresholdIsLeast ==
  ASSUME Percent \in 0..100, NEW s \in Seq(Nat), s # << >>
  PROVE  /\ PercentileThreshold(s) \in Range(s)
         /\ 100 * Cardinality({k \in DOMAIN s : s[k] <= PercentileThreshold(s)})
                >= Percent * Len(s)
<1> DEFINE Under(v) == {k \in DOMAIN s : s[k] <= v}
           rank == Max({1, (Percent * Len(s) + 99) \div 100})
           Q == {v \in Range(s) : Cardinality(Under(v)) >= rank}
<1>1. /\ Len(s) \in Nat /\ Len(s) # 0 /\ DOMAIN s = 1..Len(s)
      /\ \A k \in DOMAIN s : s[k] \in Nat
  OBVIOUS
<1>2. IsFiniteSet(DOMAIN s) /\ Cardinality(DOMAIN s) = Len(s)
  <2>1. IsFiniteSet(1..Len(s)) /\ Cardinality(1..Len(s)) = Len(s)
    BY <1>1, FS_Interval
  <2> QED BY <1>1, <2>1
<1>3. ASSUME NEW v PROVE Cardinality(Under(v)) \in Nat
  BY <1>2, FS_Subset, FS_CardinalityType
<1>4. PICK t \in Nat : t = Percent * Len(s) /\ t <= 100 * Len(s)
  <2>1. Percent * Len(s) \in Nat /\ Percent * Len(s) <= 100 * Len(s)
    BY <1>1
  <2> QED BY <2>1
<1>5. rank \in Nat /\ rank <= Len(s) /\ t <= 100 * rank
  <2>1. PICK r \in Nat : r = (t + 99) \div 100
    BY <1>4
  <2>2. r <= Len(s) /\ t <= 100 * r
    BY <1>1, <1>4, <2>1
  <2>3. rank = IF r >= 1 THEN r ELSE 1
    <3>1. CASE r >= 1
      <4>1. {1, r} \subseteq Int /\ r \in {1, r} /\ \A x \in {1, r} : x <= r
        BY <3>1
      <4>2. Max({1, r}) = r
        BY <4>1, MaxOfSome
      <4> QED BY <1>4, <2>1, <3>1, <4>2
    <3>2. CASE ~(r >= 1)
      <4>1. {1, r} \subseteq Int /\ 1 \in {1, r} /\ \A x \in {1, r} : x <= 1
        BY <3>2
      <4>2. Max({1, r}) = 1
        BY <4>1, MaxOfSome
      <4> QED BY <1>4, <2>1, <3>2, <4>2
    <3> QED BY <3>1, <3>2
  <2> HIDE DEF rank
  <2> QED BY <1>1, <1>4, <2>2, <2>3
<1>6. Range(s) \subseteq Nat /\ Range(s) # {} /\ IsFiniteSet(Range(s))
  <2>1. IsFiniteSet({s[k] : k \in DOMAIN s})
    BY <1>2, ImageFinite
  <2>2. Range(s) = {s[k] : k \in DOMAIN s}
    BY DEF Range
  <2> QED BY <1>1, <2>1, <2>2
<1>7. PICK m \in Range(s) : \A v \in Range(s) : v <= m
  BY <1>6, NumbersHaveMost
<1>8. m \in Q
  <2>1. Under(m) = DOMAIN s
    BY <1>7 DEF Range
  <2>2. Cardinality(Under(m)) >= rank
    <3> HIDE DEF rank
    <3> QED BY <1>1, <1>2, <1>5, <2>1
  <2> QED BY <2>2
<1>9. PICK q \in Q : \A v \in Q : q <= v
  BY <1>6, <1>8, LeastNumber
<1>10. Min(Q) = q
  <2>1. Q \subseteq Int
    BY <1>6
  <2> HIDE DEF Q
  <2> QED BY <1>9, <2>1, MinOfSome
<1>11. PercentileThreshold(s) = q
  BY <1>10 DEF PercentileThreshold
<1>12. q \in Range(s) /\ Cardinality(Under(q)) >= rank
  BY <1>9
<1>13. 100 * Cardinality(Under(q)) >= t
  <2>1. PICK c \in Nat : c = Cardinality(Under(q))
    BY <1>3
  <2> HIDE DEF rank, Under
  <2> QED BY <1>5, <1>12, <2>1
<1> QED BY <1>4, <1>11, <1>12, <1>13

(* The commits of the branch, the baseline and what joins over commits.    *)
Numbers == {"structural", "law", "repair", "surprise"}
Guarded == [structural : Nat, law : Nat, repair : Nat, surprise : Nat,
            event : (Nat \X STRING \X STRING) \cup {<< >>}]

FrozenOK(b, cs) ==
  b # << >> => \E upTo \in DOMAIN cs, matches \in BOOLEAN :
                 b = <<[sample |-> [i \in 1..upTo |-> i], matches |-> matches]>>

LEMMA RiskIsJoined ==
  ASSUME commits \in Seq(Guarded), NEW cs, cs \subseteq DOMAIN commits,
         NEW n \in Numbers
  PROVE  /\ JoinedRisk(cs)[n] \in Nat
         /\ \A c \in cs : commits[c][n] \in Nat /\ commits[c][n] <= JoinedRisk(cs)[n]
<1> DEFINE e == [c \in cs |-> commits[c][n]]
           S == {commits[c][n] : c \in cs} \cup {0}
<1>1. \A c \in DOMAIN commits : commits[c][n] \in Nat
  <2> SUFFICES ASSUME NEW c \in DOMAIN commits PROVE commits[c][n] \in Nat
    OBVIOUS
  <2>1. commits[c] \in Guarded
    OBVIOUS
  <2> QED BY <2>1 DEF Guarded, Numbers
<1>2. IsFiniteSet(DOMAIN commits)
  <2>1. DOMAIN commits = 1..Len(commits) /\ Len(commits) \in Nat
    OBVIOUS
  <2> QED BY <2>1, FS_Interval
<1>3. IsFiniteSet(S)
  <2>1. IsFiniteSet(cs)
    BY <1>2, FS_Subset
  <2>2. IsFiniteSet({e[c] : c \in cs})
    <3> HIDE DEF e
    <3>1. DOMAIN e = cs
      BY DEF e
    <3> QED BY <2>1, <3>1, ImageFinite
  <2>3. {e[c] : c \in cs} = {commits[c][n] : c \in cs}
    OBVIOUS
  <2> QED BY <2>2, <2>3, FS_AddElement
<1>4. S \subseteq Nat /\ S # {}
  BY <1>1
<1>5. PICK m \in S : \A x \in S : x <= m
  BY <1>3, <1>4, NumbersHaveMost
<1>6. Max(S) = m
  <2>1. S \subseteq Int
    BY <1>4
  <2> HIDE DEF S
  <2> QED BY <1>5, <2>1, MaxOfSome
<1>7. JoinedRisk(cs)[n] = Max(S)
  <2>1. n \in DOMAIN Zero
    BY DEF Zero, Numbers
  <2>2. S = {0} \cup {commits[c][n] : c \in cs}
    OBVIOUS
  <2> QED BY <2>1, <2>2 DEF JoinedRisk
<1> QED BY <1>1, <1>4, <1>5, <1>6, <1>7

LEMMA SamplesOf ==
  ASSUME commits \in Seq(Guarded), NEW b, FrozenOK(b, commits), b # << >>, NEW n \in Numbers
  PROVE  /\ b[1].sample \in Seq(DOMAIN commits)
         /\ b[1].matches \in BOOLEAN
         /\ DOMAIN SampleOf(b[1], n) = DOMAIN b[1].sample
         /\ \A k \in DOMAIN b[1].sample : SampleOf(b[1], n)[k] = commits[b[1].sample[k]][n]
         /\ SampleOf(b[1], n) \in Seq(Nat) /\ SampleOf(b[1], n) # << >>
<1>1. PICK upTo \in DOMAIN commits, matches \in BOOLEAN :
        b = <<[sample |-> [i \in 1..upTo |-> i], matches |-> matches]>>
  BY DEF FrozenOK
<1>2. b[1].sample = [i \in 1..upTo |-> i] /\ b[1].matches = matches
  BY <1>1
<1>3. DOMAIN commits = 1..Len(commits) /\ Len(commits) \in Nat /\ upTo \in 1..Len(commits)
  OBVIOUS
<1>4. b[1].sample \in [1..upTo -> DOMAIN commits]
  BY <1>2, <1>3
<1>5. b[1].sample \in Seq(DOMAIN commits)
  BY <1>3, <1>4
<1>6. \A c \in DOMAIN commits : commits[c][n] \in Nat
  <2> SUFFICES ASSUME NEW c \in DOMAIN commits PROVE commits[c][n] \in Nat
    OBVIOUS
  <2>1. commits[c] \in Guarded
    OBVIOUS
  <2> QED BY <2>1 DEF Guarded, Numbers
<1>7. SampleOf(b[1], n) \in [1..upTo -> Nat]
  BY <1>4, <1>6 DEF SampleOf
<1>8. SampleOf(b[1], n) \in Seq(Nat) /\ SampleOf(b[1], n) # << >>
  <2>1. PICK s : s = SampleOf(b[1], n)
    OBVIOUS
  <2>2. upTo \in Nat /\ upTo # 0
    BY <1>3
  <2>3. s \in Seq(Nat)
    BY <1>7, <2>1, <2>2
  <2>4. s # << >>
    BY <1>7, <2>1, <2>2
  <2> QED BY <2>1, <2>3, <2>4
<1> QED BY <1>2, <1>4, <1>5, <1>8 DEF SampleOf

(* A run that is not failed is calm, and one that is judged by its own     *)
(* commits is.                                                             *)
Calm(measured, b, cs) ==
  \A c \in measured :
    /\ cs[c].law = 0 /\ cs[c].repair = 0
    /\ (b # << >> /\ Len(b[1].sample) >= MinHistory) =>
         \A n \in {"structural", "surprise"} :
           \E k \in DOMAIN b[1].sample :
             cs[c][n] <= cs[b[1].sample[k]][n]

JudgedByItself(measured, b) ==
  /\ b # << >>
  /\ \E k \in DOMAIN b[1].sample : b[1].sample[k] \in measured

LEMMA PassedIsCalm ==
  ASSUME GuardAssumption, commits \in Seq(Guarded), NEW measured, measured \subseteq DOMAIN commits,
         NEW b, FrozenOK(b, commits), ~DecisionFailed(measured, b)
  PROVE  Calm(measured, b, commits)
<1> SUFFICES ASSUME NEW c \in measured
             PROVE  /\ commits[c].law = 0 /\ commits[c].repair = 0
                    /\ (b # << >> /\ Len(b[1].sample) >= MinHistory) =>
                         \A n \in {"structural", "surprise"} :
                           \E k \in DOMAIN b[1].sample :
                             commits[c][n] <= commits[b[1].sample[k]][n]
  BY DEF Calm
<1>1. \A n \in Numbers : /\ JoinedRisk(measured)[n] \in Nat
                         /\ commits[c][n] \in Nat
                         /\ commits[c][n] <= JoinedRisk(measured)[n]
  BY RiskIsJoined
<1>2. commits[c].law = 0 /\ commits[c].repair = 0
  <2>1. ~(JoinedRisk(measured)["law"] > 0) /\ ~(JoinedRisk(measured)["repair"] > 0)
    BY DEF DecisionFailed
  <2>2. \A n \in {"law", "repair"} : commits[c][n] = 0
    BY <1>1, <2>1 DEF Numbers
  <2> QED BY <2>2
<1>3. ASSUME b # << >>, Len(b[1].sample) >= MinHistory, NEW n \in {"structural", "surprise"}
      PROVE  \E k \in DOMAIN b[1].sample : commits[c][n] <= commits[b[1].sample[k]][n]
  <2> DEFINE s == SampleOf(b[1], n)
  <2>1. n \in Numbers
    BY DEF Numbers
  <2>2. b[1].matches
    BY <1>3 DEF DecisionFailed
  <2>3. Calibrates(b[1])
    BY <1>3, <2>2 DEF Calibrates
  <2>4. ~(JoinedRisk(measured)[n] > PercentileThreshold(s))
    BY <1>3, <2>3 DEF DecisionFailed
  <2>5. /\ s \in Seq(Nat) /\ s # << >> /\ DOMAIN s = DOMAIN b[1].sample
        /\ \A k \in DOMAIN b[1].sample : s[k] = commits[b[1].sample[k]][n]
    BY <1>3, <2>1, SamplesOf
  <2> HIDE DEF s
  <2>6. PercentileThreshold(s) \in Range(s)
    BY <2>5, ThresholdIsLeast DEF GuardAssumption
  <2>7. PICK k \in DOMAIN s : PercentileThreshold(s) = s[k]
    BY <2>6 DEF Range
  <2>8. s[k] \in Nat
    BY <2>5, <2>7
  <2>9. commits[c][n] <= s[k]
    BY <1>1, <2>1, <2>4, <2>7, <2>8
  <2> QED BY <2>5, <2>7, <2>9
<1> QED BY <1>2, <1>3

LEMMA JudgedByItselfFails ==
  ASSUME NEW measured, NEW b, JudgedByItself(measured, b)
  PROVE  DecisionFailed(measured, b)
BY DEF JudgedByItself, DecisionFailed, Contaminated

-----------------------------------------------------------------------------
(* The inductive invariant.  A report stands on what its run saw: commits  *)
(* that are still there.  A run knows a beginning of the branch that holds *)
(* all that was reported before it, and made commits after that.           *)

ReportOK(r, cs) ==
  /\ r.made \subseteq r.measured /\ r.measured \subseteq DOMAIN cs
  /\ r.mode = "strict" /\ ~r.failed => Calm(r.measured, r.baseline, cs)
  /\ JudgedByItself(r.measured, r.baseline) =>
       r.status = "risky" /\ (r.mode = "strict" => r.failed)
  /\ FrozenOK(r.baseline, cs)

Runs == [mode : Modes, named : BOOLEAN, diff : Diffs, entries : Diffs \cup {<< >>},
         known : SUBSET Nat, made : SUBSET Nat, next : Nat \ {0},
         measured : {<< >>} \cup {<<m>> : m \in SUBSET Nat}]

RunOK(r, cs, rs) ==
  \E k \in 0..Len(cs) :
    /\ r.known = 1..k
    /\ \A i \in DOMAIN rs : rs[i].measured \subseteq 1..k
    /\ r.made \subseteq (k + 1)..Len(cs)
    /\ r.measured # << >> =>
         /\ r.next > Len(r.entries)
         /\ r.made \subseteq r.measured[1]
         /\ r.measured[1] \subseteq (DOMAIN cs) \ (1..k)

GuardInv ==
  /\ tree \in Diffs
  /\ commits \in Seq(Guarded)
  /\ FrozenOK(frozen, commits)
  /\ Len(reports) \in Nat /\ DOMAIN reports = 1..Len(reports)
  /\ \A i \in DOMAIN reports : ReportOK(reports[i], commits)
  /\ MeasuredOnce
  /\ run # << >> => run = <<run[1]>> /\ run[1] \in Runs /\ RunOK(run[1], commits, reports)

GuardOK == MeasuredOnce /\ StrictPassMeansCalm /\ NotJudgedByItself /\ ThresholdCovers

LEMMA GuardFollows ==
  ASSUME GuardAssumption, GuardInv
  PROVE  GuardOK
<1>1. StrictPassMeansCalm
  BY DEF GuardInv, ReportOK, Calm, StrictPassMeansCalm
<1>2. NotJudgedByItself
  BY DEF GuardInv, ReportOK, JudgedByItself, NotJudgedByItself
<1>3. ThresholdCovers
  <2> SUFFICES ASSUME frozen # << >>, NEW n \in {"structural", "surprise"}
               PROVE  LET s == SampleOf(frozen[1], n)
                      IN  100 * Cardinality({k \in DOMAIN s : s[k] <= PercentileThreshold(s)})
                            >= Percent * Len(s)
    BY DEF ThresholdCovers
  <2>1. n \in Numbers
    BY DEF Numbers
  <2>2. SampleOf(frozen[1], n) \in Seq(Nat) /\ SampleOf(frozen[1], n) # << >>
    BY <2>1, SamplesOf DEF GuardInv
  <2> QED BY <2>2, ThresholdIsLeast DEF GuardAssumption
<1> QED BY <1>1, <1>2, <1>3 DEF GuardInv, GuardOK

LEMMA GuardStarts ==
  ASSUME GuardInit
  PROVE  GuardInv
<1>1. commits \in Seq(Guarded) /\ reports = << >> /\ DOMAIN reports = 1..Len(reports)
      /\ Len(reports) \in Nat /\ DOMAIN reports = {}
  BY DEF GuardInit
<1> QED BY <1>1 DEF GuardInit, GuardInv, FrozenOK, MeasuredOnce

(* The branch grows at its end: what was said of its commits stays said.   *)
LEMMA BranchGrows ==
  ASSUME GuardInv, NEW c \in Guarded, commits' = Append(commits, c)
  PROVE  /\ commits' \in Seq(Guarded) /\ Len(commits') = Len(commits) + 1
         /\ DOMAIN commits \subseteq DOMAIN commits' /\ DOMAIN commits' = 1..Len(commits')
         /\ Len(commits) + 1 \in DOMAIN commits' /\ Len(commits) \in Nat
         /\ \A b : FrozenOK(b, commits) => FrozenOK(b, commits')
         /\ \A r : ReportOK(r, commits) => ReportOK(r, commits')
<1>1. /\ commits' \in Seq(Guarded) /\ Len(commits') = Len(commits) + 1
      /\ DOMAIN commits \subseteq DOMAIN commits' /\ DOMAIN commits' = 1..Len(commits')
      /\ Len(commits) + 1 \in DOMAIN commits' /\ Len(commits) \in Nat
      /\ \A k \in DOMAIN commits : commits'[k] = commits[k]
  BY DEF GuardInv
<1>2. ASSUME NEW b, FrozenOK(b, commits) PROVE FrozenOK(b, commits')
  BY <1>1, <1>2 DEF FrozenOK
<1>3. ASSUME NEW r, ReportOK(r, commits) PROVE ReportOK(r, commits')
  <2>1. ASSUME Calm(r.measured, r.baseline, commits)
        PROVE  Calm(r.measured, r.baseline, commits')
    <3> SUFFICES ASSUME NEW k \in r.measured
                 PROVE  /\ commits'[k].law = 0 /\ commits'[k].repair = 0
                        /\ (r.baseline # << >> /\ Len(r.baseline[1].sample) >= MinHistory) =>
                             \A n \in {"structural", "surprise"} :
                               \E j \in DOMAIN r.baseline[1].sample :
                                 commits'[k][n] <= commits'[r.baseline[1].sample[j]][n]
      BY DEF Calm
    <3>1. k \in DOMAIN commits /\ commits'[k] = commits[k]
      BY <1>1, <1>3 DEF ReportOK
    <3>2. r.baseline # << >> =>
            \A j \in DOMAIN r.baseline[1].sample :
               commits'[r.baseline[1].sample[j]] = commits[r.baseline[1].sample[j]]
      <4> SUFFICES ASSUME r.baseline # << >>, NEW j \in DOMAIN r.baseline[1].sample
                   PROVE  r.baseline[1].sample[j] \in DOMAIN commits
        BY <1>1
      <4>1. FrozenOK(r.baseline, commits)
        BY <1>3 DEF ReportOK
      <4>2. PICK upTo \in DOMAIN commits, matches \in BOOLEAN :
              r.baseline = <<[sample |-> [i \in 1..upTo |-> i], matches |-> matches]>>
        BY <4>1 DEF FrozenOK
      <4>3. DOMAIN commits = 1..Len(commits) /\ Len(commits) \in Nat
        BY DEF GuardInv
      <4>4. r.baseline[1].sample = [i \in 1..upTo |-> i]
        BY <4>2
      <4> QED BY <4>3, <4>4
    <3> QED BY <2>1, <3>1, <3>2 DEF Calm
  <2>2. FrozenOK(r.baseline, commits')
    BY <1>2, <1>3 DEF ReportOK
  <2> QED BY <1>1, <1>3, <2>1, <2>2 DEF ReportOK, JudgedByItself
<1> QED BY <1>1, <1>2, <1>3

LEMMA RunGoesOn ==
  ASSUME GuardInv, NEW c \in Guarded, commits' = Append(commits, c), UNCHANGED reports,
         NEW r \in Runs, RunOK(r, commits, reports)
  PROVE  RunOK(r, commits', reports')
<1>1. PICK k \in 0..Len(commits) :
        /\ r.known = 1..k
        /\ \A i \in DOMAIN reports : reports[i].measured \subseteq 1..k
        /\ r.made \subseteq (k + 1)..Len(commits)
        /\ r.measured # << >> =>
             /\ r.next > Len(r.entries)
             /\ r.made \subseteq r.measured[1]
             /\ r.measured[1] \subseteq (DOMAIN commits) \ (1..k)
  BY DEF RunOK
<1>2. k \in 0..Len(commits') /\ (k + 1)..Len(commits) \subseteq (k + 1)..Len(commits')
  BY BranchGrows
<1> QED BY <1>1, <1>2, BranchGrows DEF RunOK

(* What a step leaves alone when it neither commits nor reports.           *)
LEMMA GuardKeeps ==
  ASSUME GuardInv, UNCHANGED <<commits, reports>>
  PROVE  /\ \A b : FrozenOK(b, commits) => FrozenOK(b, commits')
         /\ commits' \in Seq(Guarded)
         /\ Len(reports') \in Nat /\ DOMAIN reports' = 1..Len(reports')
         /\ \A i \in DOMAIN reports' : ReportOK(reports'[i], commits')
         /\ MeasuredOnce'
         /\ \A r : RunOK(r, commits, reports) => RunOK(r, commits', reports')
<1>0. commits' = commits /\ reports' = reports
  OBVIOUS
<1>1. \A i \in DOMAIN reports' : ReportOK(reports'[i], commits')
  BY <1>0 DEF GuardInv
<1>2. MeasuredOnce'
  BY DEF GuardInv, MeasuredOnce
<1> QED BY <1>1, <1>2 DEF GuardInv, FrozenOK, RunOK

LEMMA BeginRunKeeps ==
  ASSUME GuardAssumption, GuardInv, NEW mode \in Modes, NEW named \in BOOLEAN,
         NEW fails \in BOOLEAN, BeginRun(mode, named, fails)
  PROVE  GuardInv'
<1> DEFINE r == [mode |-> mode, named |-> named, diff |-> tree,
                 entries |-> IF fails THEN << >> ELSE tree,
                 known |-> 1..Len(commits), made |-> {}, next |-> 1,
                 measured |-> << >>]
<1>1. run' = <<r>> /\ UNCHANGED <<tree, seen, commits, frozen, reports>>
  BY DEF BeginRun
<1>2. DOMAIN commits = 1..Len(commits) /\ Len(commits) \in Nat
  BY DEF GuardInv
<1>3. r \in Runs
  BY <1>2 DEF Runs, GuardInv
<1>4. RunOK(r, commits, reports)
  <2>1. Len(commits) \in 0..Len(commits) /\ r.known = 1..Len(commits) /\ r.made = {}
        /\ r.measured = << >>
    BY <1>2
  <2>2. \A i \in DOMAIN reports : reports[i].measured \subseteq 1..Len(commits)
    BY <1>2 DEF GuardInv, ReportOK
  <2> HIDE DEF r
  <2> QED BY <2>1, <2>2 DEF RunOK
<1> HIDE DEF r
<1>5. run' = <<run'[1]>> /\ run'[1] \in Runs /\ RunOK(run'[1], commits', reports')
  BY <1>1, <1>3, <1>4, GuardKeeps
<1> QED BY <1>1, <1>5, GuardKeeps DEF GuardInv

LEMMA EventsAreIds ==
  ASSUME GuardAssumption, GuardInv, run # << >>, run[1].next <= Len(run[1].entries)
  PROVE  EventId(run[1].entries, run[1].next) \in Nat \X STRING \X STRING
<1> DEFINE d == run[1].entries
           i == run[1].next
<1>1. d \in Diffs \cup {<< >>} /\ i \in Nat \ {0}
  BY DEF GuardInv, Runs
<1>2. d \in Seq(STRING \X STRING)
  BY <1>1 DEF GuardAssumption
<1> HIDE DEF d, i
<1>3. i \in DOMAIN d
  BY <1>1, <1>2 DEF d, i
<1>4. d[i] \in STRING \X STRING
  BY <1>2, <1>3
<1> QED BY <1>1, <1>4 DEF EventId, d, i

LEMMA IngestKeeps ==
  ASSUME GuardAssumption, GuardInv, NEW risk \in Risks, Ingest(risk)
  PROVE  GuardInv'
<1> DEFINE r == run[1]
           id == EventId(r.entries, r.next)
<1>1. run # << >> /\ r.next <= Len(r.entries) /\ UNCHANGED <<tree, frozen, reports>>
  BY DEF Ingest
<1>2. r \in Runs /\ RunOK(r, commits, reports)
  BY <1>1 DEF GuardInv
<1>3. PICK k \in 0..Len(commits) :
        /\ r.known = 1..k
        /\ \A i \in DOMAIN reports : reports[i].measured \subseteq 1..k
        /\ r.made \subseteq (k + 1)..Len(commits)
        /\ r.measured = << >>
  <2>1. r.next \in Nat /\ Len(r.entries) \in Nat
    <3>1. r.entries \in Diffs \cup {<< >>} /\ r.next \in Nat
      BY <1>2 DEF Runs
    <3>2. \A d \in Diffs : Len(d) \in Nat
      BY DEF GuardAssumption
    <3> QED BY <3>1, <3>2
  <2> HIDE DEF r
  <2> QED BY <1>1, <1>2, <2>1 DEF RunOK
<1>4. CASE id \in seen
  <2> DEFINE q == [r EXCEPT !.next = @ + 1]
  <2>1. run' = <<q>> /\ UNCHANGED <<seen, commits>>
    BY <1>1, <1>4 DEF Ingest
  <2>2. q \in Runs /\ q.known = r.known /\ q.made = r.made /\ q.measured = r.measured
    BY <1>2 DEF Runs
  <2> HIDE DEF q, r
  <2>3. RunOK(q, commits, reports)
    BY <1>3, <2>2 DEF RunOK
  <2> QED BY <1>1, <2>1, <2>2, <2>3, GuardKeeps DEF GuardInv
<1>5. CASE id \notin seen
  <2> DEFINE q == [r EXCEPT !.next = @ + 1, !.made = @ \cup {Len(commits) + 1}]
             c == GuardedCommit(risk, id)
  <2>1. run' = <<q>> /\ commits' = Append(commits, c)
    BY <1>1, <1>5 DEF Ingest
  <2>2. c \in Guarded
    <3>1. id \in Nat \X STRING \X STRING
      BY <1>1, EventsAreIds
    <3>2. risk.structural \in Nat /\ risk.law \in Nat /\ risk.repair \in Nat
          /\ risk.surprise \in Nat
      BY DEF GuardAssumption
    <3> HIDE DEF id
    <3> QED BY <3>1, <3>2 DEF GuardedCommit, Guarded
  <2>3. /\ q \in Runs /\ q.known = r.known /\ q.made = r.made \cup {Len(commits) + 1}
        /\ q.measured = r.measured
    <3>1. Len(commits) + 1 \in Nat
      BY DEF GuardInv
    <3>2. r.made \cup {Len(commits) + 1} \in SUBSET Nat /\ r.next + 1 \in Nat \ {0}
      BY <1>2, <3>1 DEF Runs
    <3> HIDE DEF r
    <3> QED BY <1>2, <3>2 DEF Runs
  <2> HIDE DEF q, r, c
  <2>4. RunOK(q, commits', reports')
    <3>1. Len(commits') = Len(commits) + 1 /\ Len(commits) \in Nat
      BY <2>1, <2>2, BranchGrows
    <3>2. k \in 0..Len(commits') /\ q.made \subseteq (k + 1)..Len(commits')
      BY <1>3, <2>3, <3>1
    <3> QED BY <1>1, <1>3, <2>3, <3>2 DEF RunOK
  <2>5. \A i \in DOMAIN reports' : ReportOK(reports'[i], commits')
    BY <1>1, <2>1, <2>2, BranchGrows DEF GuardInv
  <2>6. MeasuredOnce'
    BY <1>1 DEF GuardInv, MeasuredOnce
  <2>7. FrozenOK(frozen', commits') /\ commits' \in Seq(Guarded)
    BY <1>1, <2>1, <2>2, BranchGrows DEF GuardInv
  <2>8. run' = <<run'[1]>> /\ run'[1] \in Runs /\ RunOK(run'[1], commits', reports')
    BY <2>1, <2>3, <2>4
  <2> QED BY <1>1, <2>5, <2>6, <2>7, <2>8 DEF GuardInv
<1> QED BY <1>4, <1>5

LEMMA MeasureNewKeeps ==
  ASSUME GuardAssumption, GuardInv, MeasureNew
  PROVE  GuardInv'
<1> DEFINE r == run[1]
           q == [r EXCEPT !.measured = <<(DOMAIN commits) \ r.known>>]
<1>1. run # << >> /\ r.next > Len(r.entries) /\ run' = <<q>>
      /\ UNCHANGED <<tree, seen, commits, frozen, reports>>
  BY DEF MeasureNew
<1>2. r \in Runs /\ RunOK(r, commits, reports)
  BY <1>1 DEF GuardInv
<1>3. DOMAIN commits = 1..Len(commits) /\ Len(commits) \in Nat
  BY DEF GuardInv
<1>4. q \in Runs
  BY <1>2, <1>3 DEF Runs
<1>5. /\ q.known = r.known /\ q.made = r.made /\ q.next = r.next /\ q.entries = r.entries
      /\ q.measured = <<(DOMAIN commits) \ r.known>>
  BY <1>2 DEF Runs
<1> HIDE DEF q, r
<1>6. RunOK(q, commits, reports)
  <2>1. PICK k \in 0..Len(commits) :
          /\ r.known = 1..k
          /\ \A i \in DOMAIN reports : reports[i].measured \subseteq 1..k
          /\ r.made \subseteq (k + 1)..Len(commits)
    BY <1>2 DEF RunOK
  <2>2. q.measured[1] = (DOMAIN commits) \ (1..k)
    BY <1>5, <2>1
  <2>3. q.made \subseteq q.measured[1]
    BY <1>3, <1>5, <2>1, <2>2
  <2> QED BY <1>1, <1>5, <2>1, <2>2, <2>3 DEF RunOK
<1> QED BY <1>1, <1>4, <1>6, GuardKeeps DEF GuardInv

LEMMA WriteReportKeeps ==
  ASSUME GuardAssumption, GuardInv, WriteReport
  PROVE  GuardInv'
<1> DEFINE r == run[1]
           measured == r.measured[1]
           b == IF r.named THEN frozen ELSE << >>
           decided == DecisionFailed(measured, b)
           score == Min({RawScore(JoinedRisk(measured)), 100})
           report == [mode |-> r.mode, diff |-> r.diff, read |-> r.entries,
                      made |-> r.made, measured |-> measured, baseline |-> b,
                      status |-> IF decided THEN "risky" ELSE StatusForRisk(score),
                      failed |-> r.mode = "strict" /\ decided]
<1>1. /\ run # << >> /\ r.measured # << >>
      /\ reports' = Append(reports, report)
      /\ run' = << >> /\ UNCHANGED <<tree, seen, commits, frozen>>
  BY DEF WriteReport
<1>2. PICK k \in 0..Len(commits) :
        /\ r.known = 1..k
        /\ \A i \in DOMAIN reports : reports[i].measured \subseteq 1..k
        /\ r.made \subseteq measured
        /\ measured \subseteq (DOMAIN commits) \ (1..k)
  <2>1. RunOK(r, commits, reports)
    BY <1>1 DEF GuardInv
  <2> QED BY <1>1, <2>1 DEF RunOK
<1>3. FrozenOK(b, commits)
  BY DEF GuardInv, FrozenOK
<1>4. /\ report.mode = r.mode /\ report.made = r.made /\ report.measured = measured
      /\ report.baseline = b /\ (decided => report.status = "risky")
      /\ report.failed = (r.mode = "strict" /\ decided)
  BY Zenon
<1> HIDE DEF report, score, decided, b, measured, r
<1>5. ReportOK(report, commits)
  <2>1. ASSUME report.mode = "strict", ~report.failed PROVE Calm(measured, b, commits)
    <3>1. ~DecisionFailed(measured, b)
      BY <1>4, <2>1 DEF decided
    <3> QED BY <1>2, <1>3, <3>1, PassedIsCalm DEF GuardInv
  <2>2. JudgedByItself(measured, b) => decided
    BY JudgedByItselfFails DEF decided
  <2> QED BY <1>2, <1>3, <1>4, <2>1, <2>2 DEF ReportOK
<1>6. /\ Len(reports) \in Nat /\ DOMAIN reports = 1..Len(reports)
  BY DEF GuardInv
<1>7. /\ Len(reports') = Len(reports) + 1 /\ DOMAIN reports' = 1..(Len(reports) + 1)
      /\ \A i \in DOMAIN reports : reports'[i] = reports[i]
      /\ reports'[Len(reports) + 1] = report
  BY <1>1, <1>6 DEF GuardInv
<1>8. \A i \in DOMAIN reports' : i \in DOMAIN reports \/ i = Len(reports) + 1
  BY <1>6, <1>7
<1>9. \A i \in DOMAIN reports' : ReportOK(reports'[i], commits)
  BY <1>5, <1>7, <1>8 DEF GuardInv
<1>10. \A i \in DOMAIN reports' : ReportOK(reports'[i], commits')
  BY <1>1, <1>9
<1>11. MeasuredOnce'
  <2>1. \A i \in DOMAIN reports' : reports'[i].made \subseteq reports'[i].measured
    BY <1>9 DEF ReportOK
  <2>2. ASSUME NEW i \in DOMAIN reports', NEW j \in DOMAIN reports', i # j
        PROVE  reports'[i].measured \cap reports'[j].measured = {}
    <3>1. CASE i \in DOMAIN reports /\ j \in DOMAIN reports
      BY <1>7, <2>2, <3>1 DEF GuardInv, MeasuredOnce
    <3>2. CASE i \in DOMAIN reports /\ j = Len(reports) + 1
      BY <1>2, <1>4, <1>7, <3>2
    <3>3. CASE j \in DOMAIN reports /\ i = Len(reports) + 1
      BY <1>2, <1>4, <1>7, <3>3
    <3> QED BY <1>8, <2>2, <3>1, <3>2, <3>3
  <2> QED BY <2>1, <2>2 DEF MeasuredOnce
<1>12. FrozenOK(frozen', commits')
  BY <1>1 DEF GuardInv, FrozenOK
<1> QED BY <1>1, <1>6, <1>7, <1>10, <1>11, <1>12 DEF GuardInv

LEMMA WorkKeeps ==
  ASSUME GuardAssumption, GuardInv, NEW risk \in Risks, Work(risk)
  PROVE  GuardInv'
<1> DEFINE c == GuardedCommit(risk, << >>)
<1>1. commits' = Append(commits, c) /\ UNCHANGED <<tree, seen, frozen, run, reports>>
  BY DEF Work
<1>2. c \in Guarded
  <2>1. risk.structural \in Nat /\ risk.law \in Nat /\ risk.repair \in Nat
        /\ risk.surprise \in Nat
    BY DEF GuardAssumption
  <2> QED BY <2>1 DEF GuardedCommit, Guarded
<1> HIDE DEF c
<1>3. \A i \in DOMAIN reports' : ReportOK(reports'[i], commits')
  BY <1>1, <1>2, BranchGrows DEF GuardInv
<1>4. MeasuredOnce'
  BY <1>1 DEF GuardInv, MeasuredOnce
<1>5. FrozenOK(frozen', commits') /\ commits' \in Seq(Guarded)
  BY <1>1, <1>2, BranchGrows DEF GuardInv
<1>6. run # << >> => RunOK(run'[1], commits', reports')
  BY <1>1, <1>2, RunGoesOn DEF GuardInv
<1> QED BY <1>1, <1>3, <1>4, <1>5, <1>6 DEF GuardInv

LEMMA FreezeKeeps ==
  ASSUME GuardInv, NEW upTo, NEW matches \in BOOLEAN, Freeze(upTo, matches)
  PROVE  GuardInv'
<1>1. /\ upTo \in DOMAIN commits /\ UNCHANGED <<tree, seen, commits, run, reports>>
      /\ frozen' = <<[sample |-> [i \in 1..upTo |-> i], matches |-> matches]>>
  BY DEF Freeze
<1>2. FrozenOK(frozen', commits')
  BY <1>1 DEF FrozenOK
<1> QED BY <1>1, <1>2, GuardKeeps DEF GuardInv

LEMMA GuardStays ==
  ASSUME GuardAssumption, GuardInv, [GuardNext]_guardVars
  PROVE  GuardInv'
<1>1. ASSUME NEW d \in Diffs, ChangeTree(d) PROVE GuardInv'
  BY <1>1, GuardKeeps DEF ChangeTree, GuardInv
<1>2. CASE LoadFails
  BY <1>2, GuardKeeps DEF LoadFails, GuardInv
<1>3. CASE RunDies
  BY <1>3, GuardKeeps DEF RunDies, GuardInv
<1>4. CASE UNCHANGED guardVars
  BY <1>4, GuardKeeps DEF guardVars, GuardInv
<1> QED BY <1>1, <1>2, <1>3, <1>4, BeginRunKeeps, IngestKeeps, MeasureNewKeeps,
           WriteReportKeeps, WorkKeeps, FreezeKeeps DEF GuardNext

(* Whatever the diffs, the risks, the percentile and the history a baseline *)
(* needs, with runs that die and commands that commit and freeze while one *)
(* goes on: every commit a run made is measured by it and by no other run, *)
(* a strict run passes only what is calm by its baseline, none is judged   *)
(* by a baseline of its own commits, and a threshold covers its share of   *)
(* the sample (run_guard, strict_decision_for, measure_new_commits).       *)
THEOREM GuardRunsAreSound ==
  ASSUME GuardAssumption
  PROVE  GuardSpec => []GuardOK
<1> QED BY GuardStarts, GuardStays, GuardFollows, PTL DEF GuardSpec
=============================================================================

---------------------------- MODULE MCIngestion ----------------------------
(* Ingestion and the normalization of its events in one run.               *)
EXTENDS Machines, Integers, Sequences, TLC

CONSTANTS Invalid, p1, p2

VARIABLES
  disk, marks, proc, failures, \* IngestionPipeline
  line                         \* EventNormalization

diskVars == <<disk, marks, proc, failures>>
ingestionVars == <<machine, diskVars, line>>

-----------------------------------------------------------------------------
(* Lines of a log are taken to have the fields of a graph event: the graph *)
(* words, names the encoder adds, times and odd values.                    *)

N == INSTANCE EventNormalization
       WITH Fields <- {}, MaxFields <- 0, SecondsThreshold <- 10, BadKeys <- {"bad"}

GraphFields ==
  {<<f[1], N!String(f[2])>> : f \in
     {<<"id", "1">>, <<"event_id", "2">>, <<"from", "a">>, <<"source_object", "b">>, <<"to", "c">>,
      <<"relation", "r">>, <<"rel", "">>, <<"event", "e">>, <<"role", "Causal">>,
      <<"actor_type", "T">>, <<"canonical_kind", "own">>}}
    \cup {<<f[1], N!Unsigned(f[2])>> : f \in
            {<<"weight", 3>>, <<"ts", 5>>, <<"ts_ms", 12>>, <<"timestamp", 10>>}}
    \cup {<<f[1], N!Negative(f[2])>> : f \in {<<"weight", -1>>, <<"note", -7>>, <<"ts_ms", -4>>}}
    \cup {<<"role", N!Null>>, <<"note", N!Nested>>}

-----------------------------------------------------------------------------
(* Lines of an agent log, as the audit adapter normalizes them: "copy" has *)
(* the id of the read, "odd" does not say what was tested and makes the    *)
(* adapter throw, "blank" has an id the index cannot hold.                 *)

LogLine(id, event, fields) ==
  "id" :> N!String(id) @@ "actor" :> N!String("bot") @@ "event" :> N!String(event) @@ fields
Log ==
  "read"  :> LogLine("k1", "read_file", "path" :> N!String("src"))
    @@ "copy"  :> LogLine("k1", "read_file", "file" :> N!String("src"))
    @@ "write" :> LogLine("k2", "write_file", "path" :> N!String("src"))
    @@ "odd"   :> LogLine("k3", "test_passed", << >>)
    @@ "blank" :> LogLine("bad", "read_file", "path" :> N!String("src"))

KeyOf(id) == IF N!ValidKey(id) THEN id ELSE Invalid
LogKey == [e \in DOMAIN Log |-> KeyOf(N!Evidence(Log[e])[1].id)]
LogNormal == [e \in DOMAIN Log |-> N!Audit(N!Evidence(Log[e])[1])]

AgentPattern(relation) ==
  [from_type |-> "Agent", relation |-> relation, to_type |-> "File"]
NoWriteWithoutRead ==
  {[name |-> "no_write_without_read", severity |-> "error", trigger |-> AgentPattern("modifies"),
    requirements |->
      <<[pattern |-> AgentPattern("reads"), from_binding |-> "from", to_binding |-> "to",
         search |-> "before", forbidden |-> FALSE]>>]}

Command(audit, strict, branch, events) ==
  [audit |-> audit, strict |-> strict, branch |-> branch, events |-> events]
FileCommands ==
  {Command(TRUE, TRUE, "main", <<"write", "read", "copy", "write">>),
   Command(FALSE, TRUE, "main", <<"odd", "write", "blank">>),
   Command(FALSE, FALSE, "exp", <<"read", "write">>)}
RetryCommands ==
  {Command(TRUE, TRUE, "main", <<"write", "odd">>),
   Command(FALSE, TRUE, "main", <<"blank", "read">>)}
SharedCommands ==
  {Command(TRUE, TRUE, "main", <<"write", "read">>),
   Command(FALSE, TRUE, "main", <<"read", "write">>)}

(* The machines a theorem is about come with the proofs of their module.   *)
(* Filed has the files, and the lines such files are made of.              *)
Filed == INSTANCE IngestionPipelineProofs WITH
  Sessions <- {p1}, Commands <- FileCommands, Key <- LogKey, Normal <- LogNormal,
  Rules <- NoWriteWithoutRead, Branches <- {"main", "exp"}, MaxFaults <- 2,
  Cuts <- {"source", "id", "hash", "whole"}, index <- marks, faults <- failures,
  Fields <- GraphFields, MaxFields <- 7, SecondsThreshold <- 10, BadKeys <- {}
Retried == INSTANCE IngestionPipeline WITH
  Sessions <- {p1}, Commands <- RetryCommands, Key <- LogKey, Normal <- LogNormal,
  Rules <- NoWriteWithoutRead, Branches <- {"main"}, MaxFaults <- 1, Cuts <- {},
  index <- marks, faults <- failures
Shared == INSTANCE IngestionPipelineProofs WITH
  Sessions <- {p1, p2}, Commands <- SharedCommands, Key <- LogKey, Normal <- LogNormal,
  Rules <- NoWriteWithoutRead, Branches <- {"main"}, MaxFaults <- 1, Cuts <- {"whole"},
  index <- marks, faults <- failures,
  Fields <- GraphFields, MaxFields <- 7, SecondsThreshold <- 10, BadKeys <- {}

ASSUME FiledAssumption == Filed!CutsAssumption /\ Filed!EventsAssumption
ASSUME LinesAssumption ==
  Filed!ThresholdAssumption /\ Filed!SourceAssumption /\ Filed!FieldsAssumption
ASSUME RetriedAssumption == Retried!CutsAssumption /\ Retried!EventsAssumption
ASSUME SharedAssumption == Shared!CutsAssumption /\ Shared!EventsAssumption

-----------------------------------------------------------------------------

NoDisk == disk = Unused /\ marks = Unused /\ proc = Unused /\ failures = Unused

IngestionInit ==
  \/ machine = "filed" /\ Filed!Init /\ line = Unused
  \/ machine = "retried" /\ Retried!Init /\ line = Unused
  \/ machine = "shared" /\ Shared!Init /\ line = Unused
  \/ machine = "lines" /\ Filed!LineInit /\ NoDisk

OnDisk == UNCHANGED <<machine, line>>
StepFiled == machine = "filed" /\ Filed!Next /\ OnDisk
StepRetried == machine = "retried" /\ Retried!Next /\ OnDisk
StepShared == machine = "shared" /\ Shared!Next /\ OnDisk
StepLines == machine = "lines" /\ Filed!AddField /\ UNCHANGED <<machine, diskVars>>

IngestionNext == StepFiled \/ StepRetried \/ StepShared \/ StepLines

(* Retried!Fairness, while that machine runs.                              *)
Fairness ==
  /\ WF_ingestionVars(machine = "retried" /\ Retried!Progress(p1) /\ OnDisk)
  /\ \A command \in RetryCommands :
       SF_ingestionVars(machine = "retried" /\ Retried!Start(p1, command) /\ OnDisk)
IngestionSpec == IngestionInit /\ [][IngestionNext]_ingestionVars /\ Fairness

(* The retried machine by itself.                                          *)
RetriedSpec ==
  /\ machine = "retried" /\ Retried!Init /\ line = Unused
  /\ [][StepRetried]_ingestionVars

-----------------------------------------------------------------------------
(* Properties *)

(* What the index says was seen is committed, each event read is under one *)
(* heading of the report, and no event is ingested into a branch again,    *)
(* however often its file is, unless an append failed or the process died. *)
SeenIsStored ==
  /\ machine = "filed" =>
       Filed!SeenIsStored /\ Filed!ReportAddsUp /\ Filed!TwiceOnlyAfterFaults
  /\ machine = "shared" => Shared!ReportAddsUp

(* A write let into a branch in strict mode follows a read of the same     *)
(* file by the same agent, whoever else ingests into the branch.           *)
StrictWritesFollowReads ==
  /\ machine = "filed" => Filed!StrictWritesFollowReads
  /\ machine = "shared" => Shared!StrictWritesFollowReads

(* An event ingested again and again is stored in the end, or is refused   *)
(* for something that is still missing.                                    *)
EveryEventSettles ==
  \A command \in RetryCommands : \A i \in DOMAIN command.events :
    <>[](machine = "retried" => Retried!Settled(command, command.events[i]))

(* A line means the same whichever way it takes: through the files between *)
(* the stages or at once, by the agent log, the graph log or the source    *)
(* route; and nothing it says is lost.                                     *)
RoutesAgree ==
  machine = "lines" =>
    /\ Filed!StagesAgree
    /\ Filed!FieldsAreKept
    /\ Filed!RoutesAgreeOnTime
    /\ Filed!RoutesAgreeOnEnds

(* docs/ROADMAP.md:40 calls ingestion idempotent by event id.              *)
IdempotentByEventId == machine = "retried" => Retried!IdempotentByEventId
=============================================================================

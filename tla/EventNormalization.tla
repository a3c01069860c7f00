------------------------- MODULE EventNormalization -------------------------
(***************************************************************************)
(* What becomes of one line of an event file: the agent-log route, which   *)
(* ends in an audit event, the source route, which goes through canonical  *)
(* and graph events and may be written to a file and read back after each  *)
(* stage, and the legacy graph log.                                        *)
(*                                                                         *)
(* A line is a JSON object: a function from field names to values          *)
(* [kind, text, number], the kinds being those the readers tell apart.     *)
(* Each reader answers with << >> where the code throws, and with <<event>>*)
(* otherwise.                                                              *)
(***************************************************************************)
EXTENDS Integers, Sequences, FiniteSets, TLC

CONSTANTS
  Fields,            \* the fields a line may have: pairs of a name and a value
  MaxFields,         \* bound on the fields of a line
  SecondsThreshold,  \* 10^12 in the code: a smaller `ts` is in seconds
  BadKeys            \* keys with a tab, newline or carriage return

ThresholdAssumption == SecondsThreshold \in Nat \ {0}

(* The name the source route gives itself is a key.                        *)
SourceAssumption == "jsonl" \notin BadKeys

(* The kinds of values a JSON reader gives.                                *)
FieldsAssumption ==
  \A f \in Fields :
    /\ f[2] = [kind |-> f[2].kind, text |-> f[2].text, number |-> f[2].number]
    /\ f[2].kind \in {"string", "unsigned", "negative", "nested", "null"}

VARIABLE line

String(text) == [kind |-> "string", text |-> text, number |-> 0]
Unsigned(n) == [kind |-> "unsigned", text |-> ToString(n), number |-> n]
Negative(n) == [kind |-> "negative", text |-> ToString(n), number |-> n]
Nested == [kind |-> "nested", text |-> "", number |-> 0]
Null == [kind |-> "null", text |-> "", number |-> 0]

Integer(n) == IF n < 0 THEN Negative(n) ELSE Unsigned(n)
Int64(n) == [Integer(n) EXCEPT !.kind = "int64"]

Earliest(places) == CHOOSE i \in places : \A j \in places : i <= j

(* The places of the names whose field is of one of the kinds.             *)
Places(object, kinds, names) ==
  {i \in DOMAIN names : names[i] \in DOMAIN object /\ object[names[i]].kind \in kinds}

(* The first of the names whose field is a string, an empty one too.       *)
StringField(object, names) ==
  LET found == Places(object, {"string"}, names)
  IN  IF found = {} THEN "" ELSE object[names[Earliest(found)]].text

Else(value, default) == IF value = "" THEN default ELSE value

ValidKey(value) == value # "" /\ value \notin BadKeys

NormalizeTimestampMs(n) == IF n > 0 /\ n < SecondsThreshold THEN n * 1000 ELSE n

Timestamp(object, kinds) ==
  LET inMillis  == <<"ts_ms", "timestamp_ms">>
      inSeconds == <<"ts", "timestamp">>
      millis    == Places(object, kinds, inMillis)
      seconds   == Places(object, kinds, inSeconds)
  IN  CASE millis # {} -> object[inMillis[Earliest(millis)]].number
        [] millis = {} /\ seconds # {} ->
             NormalizeTimestampMs(object[inSeconds[Earliest(seconds)]].number)
        [] millis = {} /\ seconds = {} -> 0

EvidenceTime(object) == Timestamp(object, {"unsigned"})

SourceTime(object) == Timestamp(object, {"unsigned", "negative"})

-----------------------------------------------------------------------------
(* The agent-log route.                                                    *)

Attributes(object, dropped) ==
  [n \in {m \in DOMAIN object : object[m].kind \notin {"null", "nested"} /\ m \notin dropped} |-> object[n]]

Evidence(object) ==
  LET event ==
        [source      |-> Else(StringField(object, <<"source">>), "agent-log"),
         id          |-> StringField(object, <<"event_id", "id">>),
         actor       |-> StringField(object, <<"actor", "agent", "user", "tool">>),
         action      |-> StringField(object, <<"event", "action">>),
         target      |-> StringField(object, <<"target", "path", "file", "pr", "pull_request", "test",
                                               "test_run", "secret", "resource", "repo", "repository">>),
         target_type |-> StringField(object, <<"target_type", "object_type", "type">>),
         at          |-> EvidenceTime(object),
         attributes  |-> Attributes(object, {})]
  IN  IF event.id = "" \/ event.action = "" THEN << >> ELSE <<event>>

FirstValue(event, names) ==
  LET found == {i \in DOMAIN names : /\ names[i] \in DOMAIN event.attributes
                                     /\ event.attributes[names[i]].text # ""}
  IN  IF found = {} THEN "" ELSE event.attributes[names[Earliest(found)]].text

TargetOrAttr(event, names) == Else(event.target, FirstValue(event, names))

Audited(from, from_type, relation, to, to_type) ==
  IF from = "" \/ to = "" THEN << >>
  ELSE <<[from |-> from, from_type |-> from_type, relation |-> relation, to |-> to, to_type |-> to_type]>>

FileActions ==
  [action \in {"read_file", "write_file", "create_file", "delete_file", "rename_file"} |->
     CASE action = "read_file"   -> "reads"
       [] action = "write_file"  -> "modifies"
       [] action = "create_file" -> "creates"
       [] action = "delete_file" -> "deletes"
       [] action = "rename_file" -> "renames"]

AuditTest(event) ==
  LET typed(type) == IF event.target_type = type THEN event.target ELSE ""
  IN  Audited(Else(FirstValue(event, <<"pr", "pull_request">>), typed("PullRequest")), "PullRequest", "tests",
              Else(FirstValue(event, <<"test", "test_run", "run", "target">>),
                   Else(typed("TestRun"), "TestRun/" \o event.id)), "TestRun")

(* An alias of an action is the action here.                               *)
Audit(event) ==
  CASE event.action \in DOMAIN FileActions ->
         Audited(event.actor, "Agent", FileActions[event.action],
                 TargetOrAttr(event, <<"path", "file", "target">>), "File")
    [] event.action = "create_pr" ->
         Audited(event.actor, "Agent", "creates",
                 TargetOrAttr(event, <<"pr", "pull_request", "target">>), "PullRequest")
    [] event.action = "test_passed" -> AuditTest(event)
    [] event.action = "secret_detected" ->
         Audited(event.actor, "Agent", "exposes",
                 Else(TargetOrAttr(event, <<"secret", "secret_id", "target">>), "Secret/" \o event.id), "Secret")
    [] event.action = "policy_approved" ->
         Audited(Else(FirstValue(event, <<"policy", "policy_id">>), event.actor), "Policy", "approves",
                 TargetOrAttr(event, <<"resource", "target", "repo", "repository", "path">>), "Resource")
    [] OTHER -> << >>

-----------------------------------------------------------------------------
(* The source route.                                                       *)

SourceReserved ==
  {"id", "event_id", "source", "kind", "event", "action", "actor", "agent", "user", "tool", "from",
   "source_object", "subject", "target", "to", "target_object", "path", "file", "resource", "repo",
   "repository", "pr", "pull_request", "relation", "rel", "ts", "ts_ms", "timestamp", "timestamp_ms"}

ValidCanonical(e) ==
  ValidKey(e.id) /\ ValidKey(e.source) /\ "" \notin {e.actor, e.subject, e.relation}

(* JsonlSourceAdapter and SourceEventNormalizer: a nested field is left    *)
(* out and reported, the event kept.                                       *)
Canonical(object) ==
  LET event ==
        [id         |-> StringField(object, <<"id", "event_id">>),
         source     |-> Else(StringField(object, <<"source">>), "jsonl"),
         kind       |-> StringField(object, <<"kind", "event", "action">>),
         actor      |-> StringField(object, <<"actor", "agent", "user", "tool", "from", "source_object">>),
         subject    |-> StringField(object, <<"subject", "target", "to", "target_object", "path", "file",
                                              "resource", "repo", "repository", "pr", "pull_request">>),
         relation   |-> StringField(object, <<"relation", "rel", "action", "event">>),
         observed   |-> SourceTime(object),
         attributes |-> Attributes(object, SourceReserved)]
  IN  IF ValidCanonical(event) THEN <<event>> ELSE << >>

(* An attribute written to a file and read back: integers come back as     *)
(* unsigned where they can.                                                *)
Reread(value) == IF value.kind = "int64" THEN Integer(value.number) ELSE value
RereadAll(attributes) == [n \in DOMAIN attributes |-> Reread(attributes[n])]

CanonicalJson(e) ==
  [id |-> String(e.id), source |-> String(e.source), kind |-> String(e.kind),
   actor |-> String(e.actor), subject |-> String(e.subject), relation |-> String(e.relation),
   observed_at_ms |-> Integer(e.observed)]

(* Mutant: only unsigned times are read back.                              *)
CanonicalFromJsonUnsigned(object, attributes) ==
  LET text(name) == StringField(object, <<name>>)
      event == [id |-> text("id"), source |-> text("source"), kind |-> text("kind"), actor |-> text("actor"),
                subject |-> text("subject"), relation |-> text("relation"),
                observed |-> IF object["observed_at_ms"].kind = "unsigned" THEN object["observed_at_ms"].number ELSE 0,
                attributes |-> RereadAll(attributes)]
  IN  IF ValidCanonical(event) THEN <<event>> ELSE << >>

CanonicalFromJson(object, attributes) ==
  LET text(name) == StringField(object, <<name>>)
      event == [id |-> text("id"), source |-> text("source"), kind |-> text("kind"), actor |-> text("actor"),
                subject |-> text("subject"), relation |-> text("relation"),
                observed |-> object["observed_at_ms"].number, attributes |-> RereadAll(attributes)]
  IN  IF ValidCanonical(event) THEN <<event>> ELSE << >>

EncoderReserved == {"actor_type", "subject_type", "weight", "role"}

StringAttribute(e, name) ==
  IF name \in DOMAIN e.attributes /\ e.attributes[name].kind = "string" THEN e.attributes[name].text ELSE ""
NumericAttribute(e, name, fallback) ==
  IF name \in DOMAIN e.attributes /\ e.attributes[name].kind \in {"unsigned", "negative", "int64"}
  THEN e.attributes[name].number ELSE fallback

Provenance(e) ==
  [canonical_source |-> String(e.source), canonical_kind |-> String(e.kind),
   observed_at_ms |-> Int64(e.observed)]
Kept(e) == [n \in DOMAIN e.attributes \ EncoderReserved |-> e.attributes[n]]

Encoded(e, attributes) ==
  [id |-> e.id, source |-> e.source, from |-> e.actor, to |-> e.subject, relation |-> e.relation,
   from_type |-> Else(StringAttribute(e, "actor_type"), "Entity"),
   to_type |-> Else(StringAttribute(e, "subject_type"), "Entity"),
   role |-> Else(StringAttribute(e, "role"), "Structural"),
   weight |-> NumericAttribute(e, "weight", 1), attributes |-> attributes]

(* What the line itself says of a name stays (emplace).                    *)
Emplaced(map, more) ==
  [n \in DOMAIN map \cup DOMAIN more |-> IF n \in DOMAIN map THEN map[n] ELSE more[n]]
Encode(e) == Encoded(e, Emplaced(Kept(e), Provenance(e)))

ValidGraph(g) == ValidKey(g.id) /\ ValidKey(g.source) /\ "" \notin {g.from, g.to, g.relation}

GraphFromJson(g) ==
  LET read == [g EXCEPT !.source = Else(@, "graph-log"), !.from_type = Else(@, "Entity"),
                        !.to_type = Else(@, "Entity"), !.role = Else(@, "Structural"),
                        !.attributes = RereadAll(@)]
  IN  IF ValidGraph(read) THEN <<read>> ELSE << >>

(* The routes from a line to a graph event: at once, and through files.    *)
Then(result, Step(_)) == IF result = << >> THEN << >> ELSE Step(result[1])
Raw(object) == Then(Canonical(object), LAMBDA e : <<Encode(e)>>)
ThroughCanonicalFile(object) ==
  Then(Then(Canonical(object), LAMBDA e : CanonicalFromJson(CanonicalJson(e), e.attributes)),
       LAMBDA e : <<Encode(e)>>)
ThroughBothFiles(object) == Then(ThroughCanonicalFile(object), GraphFromJson)

-----------------------------------------------------------------------------
(* The legacy graph log: the source is the importer's own, whatever the    *)
(* line says.                                                              *)

LegacyReserved ==
  {"id", "event_id", "source", "from", "source_object", "to", "target_object", "relation", "rel", "edge",
   "from_type", "to_type", "weight", "role", "attributes"}

LegacyFrom(object) == StringField(object, <<"from", "source_object">>)

Legacy(object) ==
  LET event ==
        [id |-> StringField(object, <<"id", "event_id">>), source |-> "graph-log",
         from |-> LegacyFrom(object),
         to |-> StringField(object, <<"to", "target_object">>),
         relation |-> StringField(object, <<"relation", "rel", "edge">>),
         from_type |-> Else(StringField(object, <<"from_type">>), "Node"),
         to_type |-> Else(StringField(object, <<"to_type">>), "Node"),
         role |-> Else(StringField(object, <<"role">>), "Structural"),
         weight |-> IF Places(object, {"unsigned", "negative"}, <<"weight">>) = {} THEN 1
                    ELSE object["weight"].number,
         attributes |-> Attributes(object, LegacyReserved)]
  IN  IF ValidGraph(event) THEN <<event>> ELSE << >>

-----------------------------------------------------------------------------
LineInit == line = << >>

(* The line is any object of up to MaxFields fields.                       *)
AddField ==
  /\ Cardinality(DOMAIN line) < MaxFields
  /\ \E f \in Fields :
       /\ f[1] \notin DOMAIN line
       /\ line' = [n \in DOMAIN line \cup {f[1]} |-> IF n = f[1] THEN f[2] ELSE line[n]]

LineSpec == LineInit /\ [][AddField]_line

-----------------------------------------------------------------------------
Exact(value) == [kind |-> IF value.kind = "int64" THEN Integer(value.number).kind ELSE value.kind,
                 text |-> value.text, number |-> value.number]

(* A line gives the same event whether it is ingested at once or through   *)
(* the files between the stages, up to the kind of its integers.           *)
StagesAgree ==
  /\ ThroughCanonicalFile(line) = Raw(line)
  /\ ThroughBothFiles(line) = Then(Raw(line), LAMBDA g :
       <<[g EXCEPT !.attributes = [n \in DOMAIN g.attributes |-> Exact(g.attributes[n])]]>>)

(* Whatever the line says is in the graph event after all stages: in its   *)
(* endpoints, its relation, its types, weight, role and time, or under its *)
(* own name.                                                               *)
FieldsAreKept ==
  \A g \in {Raw(line), ThroughBothFiles(line)} \ {<< >>} :
    \A n \in DOMAIN line \ (SourceReserved \cup EncoderReserved) :
      line[n].kind \notin {"null", "nested"} =>
        n \in DOMAIN g[1].attributes /\ g[1].attributes[n].text = line[n].text

(* The agent log and the source route take the same line to have happened  *)
(* at the same time, unless it says a negative one.                        *)
RoutesAgreeOnTime ==
  (\A n \in DOMAIN line : line[n].kind # "negative") => EvidenceTime(line) = SourceTime(line)

(* A line that says who and what in the words of the graph log means the   *)
(* same to both routes; only the types it leaves out differ.               *)
RoutesAgreeOnEnds ==
  DOMAIN line \cap {"source", "actor", "agent", "user", "tool", "subject", "target", "edge"} = {} /\ Legacy(line) # << >> =>
    /\ Raw(line) # << >>
    /\ \A field \in {"id", "from", "to", "relation", "role", "weight"} : Raw(line)[1][field] = Legacy(line)[1][field]
=============================================================================

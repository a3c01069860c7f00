---------------------------- MODULE CanonicalCodec ----------------------------
(***************************************************************************)
(* The canonical codec (canonical_codec.cpp, object_codec.cpp): what each  *)
(* encode writes and each decode reads, in order.  Two functions per type  *)
(* keep the layout, and nothing but their agreement makes a stored object  *)
(* readable and its hash its name.                                         *)
(*                                                                         *)
(* A layout is a tree of fields.  A stream is a sequence of tokens, one    *)
(* per primitive written: reading another kind of token than was written   *)
(* is taken to throw.  A primitive value is a sequence of numbers.         *)
(***************************************************************************)
EXTENDS Integers, Sequences, FiniteSets, SequencesExt

CONSTANTS Lengths, Types   \* of the lists, and of the values that are tried

VARIABLES
  type, shape,   \* what is encoded
  value, stream,
  result,        \* of the decode: [ok, value, rest]
  phase

vars == <<type, shape, value, stream, result, phase>>

-----------------------------------------------------------------------------
(* CanonicalWriter and CanonicalReader *)

U8 == <<"u8">>
U32 == <<"u32">>
U64 == <<"u64">>
F64 == <<"f64">>
Str == <<"string">>
Hash == <<"hash">>
Lit(name) == <<"tag", name>>
Fields(layouts) == <<"fields", layouts>>
Opt(layout) == <<"opt", layout>>
List(layout) == <<"list", layout>>
SortedBy(depth, layout) == <<"sorted", layout, depth>>
Union(layouts) == <<"union", layouts>>

Key(depth, x) == IF depth = 1 THEN x[1] ELSE x[1][1]
Before(a, b) ==
  \E i \in DOMAIN a \cap DOMAIN b : a[i] < b[i] /\ \A j \in 1..(i - 1) : a[j] = b[j]
Sorted(depth, s) == SortSeq(s, LAMBDA x, y : Before(Key(depth, x), Key(depth, y)))

\* canonical_f64: every zero has the bits of zero and every NaN the same bits.
\* The last number of a double is 1, or 0 and -1 for the zeros, 2 and -2 NaNs.
Bits(x) ==
  [x EXCEPT ![Len(x)] = CASE @ = -1 -> 0 [] @ = -2 -> 2 [] OTHER -> @]

RECURSIVE Write(_, _)
Write(layout, v) ==
  CASE layout[1] = "fields" ->
         FlattenSeq([i \in DOMAIN v |-> Write(layout[2][i], v[i])])
    [] layout[1] = "tag" -> <<layout>>
    [] layout[1] = "opt" ->
         IF v = << >> THEN << <<"u8", <<0>>>> >>
         ELSE << <<"u8", <<1>>>> >> \o Write(layout[2], v[1])
    [] layout[1] \in {"list", "sorted"} ->
         LET s == IF layout[1] = "list" THEN v ELSE Sorted(layout[3], v)
         IN << <<"u64", <<Len(s)>>>> >>
              \o FlattenSeq([i \in DOMAIN s |-> Write(layout[2], s[i])])
    [] layout[1] = "union" ->
         << <<"u8", <<v[1]>>>> >> \o Write(layout[2][v[1] + 1], v[2])
    [] layout[1] = "f64" -> << <<"f64", Bits(v)>> >>
    [] OTHER -> << <<layout[1], v>> >>

Threw == [ok |-> FALSE, value |-> << >>, rest |-> << >>]
Read1(v, s) == [ok |-> TRUE, value |-> v, rest |-> s]

RECURSIVE Read(_, _), ReadEach(_, _)
\* Fields one after the other; the first that throws ends it.
ReadEach(layouts, s) ==
  IF layouts = << >> THEN Read1(<< >>, s)
  ELSE LET first == Read(Head(layouts), s)
           others == ReadEach(Tail(layouts), first.rest)
       IN IF first.ok /\ others.ok
          THEN Read1(<<first.value>> \o others.value, others.rest)
          ELSE Threw

Read(layout, s) ==
  IF layout[1] = "fields" THEN ReadEach(layout[2], s)
  ELSE IF s = << >> THEN Threw
  ELSE LET token == Head(s)
       IN CASE layout[1] = "tag" ->
                 IF token[1] = "tag" /\ token[2] = layout[2]
                 THEN Read1(<< >>, Tail(s)) ELSE Threw
            [] layout[1] = "opt" ->
                 IF token[1] # "u8" THEN Threw
                 ELSE IF token[2] = <<0>> THEN Read1(<< >>, Tail(s))
                 ELSE ReadEach(<<layout[2]>>, Tail(s))
            [] layout[1] \in {"list", "sorted"} ->
                 IF token[1] # "u64" THEN Threw
                 ELSE ReadEach([i \in 1..token[2][1] |-> layout[2]], Tail(s))
            [] layout[1] = "union" ->
                 IF token[1] # "u8" \/ token[2][1] >= Len(layout[2]) THEN Threw
                 ELSE LET body == Read(layout[2][token[2][1] + 1], Tail(s))
                      IN IF body.ok THEN Read1(<<token[2][1], body.value>>, body.rest)
                         ELSE Threw
            [] OTHER -> IF token[1] = layout[1] THEN Read1(token[2], Tail(s)) ELSE Threw

\* expect_end
ReadAll(layout, s) == LET r == Read(layout, s) IN IF r.rest = << >> THEN r ELSE Threw

-----------------------------------------------------------------------------
(* The layouts, as written and as read *)

ObjectIdW == Fields(<<U32, U32>>)
ObjectIdR == Fields(<<U32, U32>>)
RefW == Union(<<ObjectIdW, U32>>)
RefR == Union(<<ObjectIdR, U32>>)

EventW == Fields(<<Lit("TraceEvent:v1"), U64, Str,
                   List(Fields(<<Str, Str>>)), List(Fields(<<Str, F64>>))>>)
EventR == Fields(<<Lit("TraceEvent:v1"), U64, Str,
                   List(Fields(<<Str, Str>>)), List(Fields(<<Str, F64>>))>>)

StatusW == Fields(<<Str, U8, U8, F64, Str>>)
StatusR == Fields(<<Str, U8, U8, F64, Str>>)

ViolationW == Fields(<<Str, U8, F64, Str, List(Hash), List(ObjectIdW), List(U64)>>)
ViolationR == Fields(<<Str, U8, F64, Str, List(Hash), List(ObjectIdR), List(U64)>>)

ValueW == Union(<<Fields(<< >>), U8, U64, U64, F64, Str, Hash, ObjectIdW>>)
ValueR == Union(<<Fields(<< >>), U8, U64, U64, F64, Str, Hash, ObjectIdR>>)

InstructionW == Fields(<<Lit("Instruction:v1"), U8, List(ValueW)>>)
InstructionR == Fields(<<Lit("Instruction:v1"), U8, List(ValueR)>>)
SymbolsW == Fields(<<Lit("ProgramSymbolTable:v1"), List(Str), List(Str), List(Str)>>)
SymbolsR == Fields(<<Lit("ProgramSymbolTable:v1"), List(Str), List(Str), List(Str)>>)
ProgramW == Fields(<<Lit("Program:v1"), SymbolsW, List(InstructionW)>>)
ProgramR == Fields(<<Lit("Program:v1"), SymbolsR, List(InstructionR)>>)

AttributeW == Fields(<<Str, ValueW>>)
AttributeR == Fields(<<Str, ValueR>>)
AttributesW == SortedBy(1, AttributeW)
AttributesR == SortedBy(1, AttributeR)

PayloadW ==
  Union(<<Fields(<<ObjectIdW, Str, U32, U8>>),
          Fields(<<U64, ObjectIdW, ObjectIdW, U32, U8, F64, U64, Opt(U64), Str>>),
          Fields(<<Union(<<ObjectIdW, U64>>), Str, ValueW>>),
          Fields(<<Hash, Str>>),
          Fields(<<Str, U8, Hash, Hash>>)>>)
PayloadR ==
  Union(<<Fields(<<ObjectIdR, Str, U32, U8>>),
          Fields(<<U64, ObjectIdR, ObjectIdR, U32, U8, F64, U64, Opt(U64), Str>>),
          Fields(<<Union(<<ObjectIdR, U64>>), Str, ValueR>>),
          Fields(<<Hash, Str>>),
          Fields(<<Str, U8, Hash, Hash>>)>>)
FactW == Fields(<<Hash, U8, U64, Opt(U64), Hash, PayloadW>>)
FactR == Fields(<<Hash, U8, U64, Opt(U64), Hash, PayloadR>>)

ObjectW == Fields(<<ObjectIdW, Str, U32, U8, AttributesW, U64, U64>>)
ObjectR == Fields(<<ObjectIdR, Str, U32, U8, AttributesR, U64, U64>>)
PointerW == Fields(<<U64, ObjectIdW, ObjectIdW, U32, U8, F64, U64, Opt(U64), Str,
                     AttributesW>>)
PointerR == Fields(<<U64, ObjectIdR, ObjectIdR, U32, U8, F64, U64, Opt(U64), Str,
                     AttributesR>>)

TableW == List(Fields(<<U32, Str>>))
TableR == List(Fields(<<U32, Str>>))

SnapshotW ==
  Fields(<<Lit("WorldSnapshot:v2"), U64, Str, U64, TableW, TableW,
           SortedBy(2, ObjectW), SortedBy(1, PointerW), SortedBy(1, FactW)>>)
SnapshotR ==
  Fields(<<Lit("WorldSnapshot:v2"), U64, Str, U64, TableR, TableR,
           SortedBy(2, ObjectR), SortedBy(1, PointerR), SortedBy(1, FactR)>>)

ObjectPageW == Fields(<<Lit("ObjectPage:v1"), SortedBy(2, ObjectW)>>)
ObjectPageR == Fields(<<Lit("ObjectPage:v1"), SortedBy(2, ObjectR)>>)
PointerPageW == Fields(<<Lit("PointerPage:v1"), SortedBy(1, PointerW)>>)
PointerPageR == Fields(<<Lit("PointerPage:v1"), SortedBy(1, PointerR)>>)
FactPageW == Fields(<<Lit("FactPage:v1"), SortedBy(1, FactW)>>)
FactPageR == Fields(<<Lit("FactPage:v1"), SortedBy(1, FactR)>>)
SymbolTableW == Fields(<<Lit("SymbolTableObject:v1"), TableW>>)
SymbolTableR == Fields(<<Lit("SymbolTableObject:v1"), TableR>>)
PageIndexW == Fields(<<Lit("SnapshotPageIndexObject:v1"), List(Hash)>>)
PageIndexR == Fields(<<Lit("SnapshotPageIndexObject:v1"), List(Hash)>>)
RootW == Fields(<<Lit("SnapshotRootObject:v1"), U64, Str, U64,
                  Hash, Hash, Hash, Hash, Hash>>)
RootR == Fields(<<Lit("SnapshotRootObject:v1"), U64, Str, U64,
                  Hash, Hash, Hash, Hash, Hash>>)

CreateW == Fields(<<U32, Str, U32, U8, AttributesW>>)
CreateR == Fields(<<U32, Str, U32, U8, AttributesR>>)
\* Mutant: the weight of a link is read before its role.
LinkRSwapped == Fields(<<RefR, RefR, U32, F64, U8, Str, AttributesR>>)
LinkW == Fields(<<RefW, RefW, U32, U8, F64, Str, AttributesW>>)
LinkR == Fields(<<RefR, RefR, U32, U8, F64, Str, AttributesR>>)

\* The sixteen operations, in the order of OperationKind.
DeltaW == Fields(<<Lit("Delta:v3"), List(Fields(<<U64, Union(<<
  CreateW, Fields(<<RefW, U32>>), Fields(<<RefW, U8>>), Fields(<<RefW, AttributeW>>),
  Fields(<<RefW, Str>>), LinkW, U64, Fields(<<U64, F64>>), Fields(<<U64, AttributeW>>),
  Fields(<<U64, Str>>), EventW, Fields(<<Str, U32>>), Fields(<<Str, U32>>),
  RefW, U64, Hash>>)>>))>>)
DeltaR == Fields(<<Lit("Delta:v3"), List(Fields(<<U64, Union(<<
  CreateR, Fields(<<RefR, U32>>), Fields(<<RefR, U8>>), Fields(<<RefR, AttributeR>>),
  Fields(<<RefR, Str>>), LinkR, U64, Fields(<<U64, F64>>), Fields(<<U64, AttributeR>>),
  Fields(<<U64, Str>>), EventR, Fields(<<Str, U32>>), Fields(<<Str, U32>>),
  RefR, U64, Hash>>)>>))>>)

EventsW == Fields(<<Lit("TraceEvents:v1"), List(EventW)>>)
EventsR == Fields(<<Lit("TraceEvents:v1"), List(EventR)>>)
StatusesW == Fields(<<Lit("LawStatuses:v1"), List(StatusW)>>)
StatusesR == Fields(<<Lit("LawStatuses:v1"), List(StatusR)>>)
ViolationsW == Fields(<<Lit("LawViolations:v2"), List(ViolationW)>>)
ViolationsR == Fields(<<Lit("LawViolations:v2"), List(ViolationR)>>)
PathW == Fields(<<Lit("MorphismPath:v1"), List(Str)>>)
PathR == Fields(<<Lit("MorphismPath:v1"), List(Str)>>)

-----------------------------------------------------------------------------
(* Commits: the body of a record, which grew with the versions *)

Hashes(n) == [i \in 1..n |-> Hash]
ProofW == Fields(Hashes(8))
ProofR == Fields(Hashes(8))
OldProofR == Fields(Hashes(7))

Start == <<Opt(Hash), List(Hash), U64, U64, Str, U64, U64, U64>>
End == <<U8, U8, Str>>
BodyW == Start \o Hashes(14) \o <<Opt(ProofW)>> \o End
BodyR(legacy) ==
  Start \o Hashes(14) \o <<Opt(IF legacy THEN OldProofR ELSE ProofR)>> \o End
Roots == <<Hash, Hash, Hash, U64, List(Hash)>>
BodyR1 == Start \o Hashes(7) \o End
BodyR2 == Start \o Hashes(11) \o <<Opt(OldProofR)>> \o End

\* encode(StoredCommit) writes the version 4.
CommitW ==
  Fields(<<Lit("StoredCommit:v4"), Fields(BodyW \o Roots), Fields(Hashes(8))>>)

Tag(version) ==
  <<"StoredCommit:v1", "StoredCommit:v2", "StoredCommit:v3", "StoredCommit:v4">>[version]

\* decode_record_for_tag
CommitR(version, legacy) ==
  Fields(<<Lit(Tag(version)),
           Fields(CASE version = 1 -> BodyR1
                    [] version = 2 -> BodyR2
                    [] version = 3 -> BodyR(legacy)
                    [] version = 4 -> BodyR(legacy) \o Roots),
           Fields(Hashes(IF version < 3 THEN 7 ELSE 8))>>)

ProofAt(version) == IF version = 2 THEN 20 ELSE 23

\* decode_commit_proof_v1: the root of the program is empty.
WithProgramRoot(version, v) ==
  LET at == ProofAt(version)
      proof == v[2][at]
  IN IF proof = << >> THEN v
     ELSE <<v[1],
            SubSeq(v[2], 1, at - 1) \o << <<<<<< >>>> \o proof[1]>> >>
              \o SubSeq(v[2], at + 1, Len(v[2])),
            v[3]>>

\* decode_stored_commit: the layout of today first, then the one with a
\* legacy proof.
ReadCommit(version, s) ==
  LET current == ReadAll(CommitR(version, FALSE), s)
      legacy == ReadAll(CommitR(version, TRUE), s)
  IN CASE version = 1 -> current
       [] version = 2 -> IF current.ok
                         THEN [current EXCEPT !.value = WithProgramRoot(2, @)]
                         ELSE Threw
       [] current.ok -> current
       [] legacy.ok -> [legacy EXCEPT !.value = WithProgramRoot(version, @)]
       [] OTHER -> Threw

\* encode_commit_identity: what is hashed to name the commit of a record.
Identity(record) ==
  Write(Fields(<<Lit("StoredCommit:v4"), Fields(BodyW \o Roots), Fields(Hashes(8))>>),
        <<<< >>, record,
          [i \in 1..8 |-> record[<<9, 10, 11, 12, 15, 16, 17, 18>>[i]]]>>)

\* make_stored_commit
MakeStored(record) ==
  <<<< >>, record,
    <<record[9], record[10], record[11], record[12], record[15], record[16],
      record[17], record[18]>>>>

-----------------------------------------------------------------------------
(* What is encoded *)

CodecOf ==
  [events |-> <<EventsW, EventsR>>, statuses |-> <<StatusesW, StatusesR>>,
   violations |-> <<ViolationsW, ViolationsR>>, program |-> <<ProgramW, ProgramR>>,
   delta |-> <<DeltaW, DeltaR>>, path |-> <<PathW, PathR>>,
   objects |-> <<ObjectPageW, ObjectPageR>>,
   pointers |-> <<PointerPageW, PointerPageR>>, facts |-> <<FactPageW, FactPageR>>,
   table |-> <<SymbolTableW, SymbolTableR>>, pages |-> <<PageIndexW, PageIndexR>>,
   root |-> <<RootW, RootR>>, snapshot |-> <<SnapshotW, SnapshotR>>,
   commit |-> <<CommitW, CommitR(4, FALSE)>>,
   commit1 |-> <<CommitR(1, FALSE), CommitR(1, FALSE)>>,
   commit2 |-> <<CommitR(2, TRUE), CommitR(2, TRUE)>>,
   commit3 |-> <<CommitR(3, FALSE), CommitR(3, FALSE)>>,
   legacy3 |-> <<CommitR(3, TRUE), CommitR(3, TRUE)>>,
   legacy4 |-> <<CommitR(4, TRUE), CommitR(4, TRUE)>>]
VersionOf ==
  [commit |-> 4, commit1 |-> 1, commit2 |-> 2, commit3 |-> 3, legacy3 |-> 3,
   legacy4 |-> 4]

Shapes ==
  [length : Lengths, present : BOOLEAN, alternative : 0..15, reversed : BOOLEAN,
   number : {1, -1, 0, -2}]

\* A value of that shape, every primitive different.
RECURSIVE Sample(_, _, _)
Sample(layout, sh, at) ==
  CASE layout[1] = "fields" ->
         [i \in DOMAIN layout[2] |-> Sample(layout[2][i], sh, Append(at, i))]
    [] layout[1] = "tag" -> << >>
    [] layout[1] = "opt" ->
         IF sh.present THEN <<Sample(layout[2], sh, at)>> ELSE << >>
    [] layout[1] = "list" ->
         [i \in 1..sh.length |-> Sample(layout[2], sh, Append(at, i))]
    [] layout[1] = "sorted" ->
         [i \in 1..sh.length |->
            Sample(layout[2], sh,
                   Append(at, IF sh.reversed THEN sh.length + 1 - i ELSE i))]
    [] layout[1] = "union" ->
         LET k == sh.alternative % Len(layout[2])
         IN <<k, Sample(layout[2][k + 1], sh, at)>>
    [] layout[1] = "f64" -> Append(at, sh.number)
    [] OTHER -> at

\* A snapshot: its tables name the type and relation of the first object and
\* pointer in order, and one that nothing has.
Named(s, at) ==
  {<<s[i][at], <<7>>>> :
     i \in {j \in DOMAIN s : \A k \in DOMAIN s : ~Before(s[k][at], s[j][at])}}
    \cup {<<<<0>>, <<8>>>>}
TableOf(names) ==
  SortSeq(SetToSeq(names), LAMBDA x, y : Before(x[1], y[1]))
SampleOf(t, sh) ==
  LET v == Sample(CodecOf[t][2], sh, << >>)
  IN IF t # "snapshot" THEN v
     ELSE [v EXCEPT ![5] = TableOf(Named(v[7], 3)), ![6] = TableOf(Named(v[8], 5))]

\* encode(WorldSnapshot) names the types and relations in use, with an empty
\* name where the table has none.
UsedNames(s, at, table) ==
  TableOf({<<s[i][at],
             IF \E n \in Range(table) : n[1] = s[i][at]
             THEN (CHOOSE n \in Range(table) : n[1] = s[i][at])[2] ELSE << >>>>
           : i \in DOMAIN s})
Presented(t, v) ==
  IF t # "snapshot" THEN v
  ELSE [v EXCEPT ![5] = UsedNames(v[7], 3, @), ![6] = UsedNames(v[8], 5, @)]

Encode(t, v) == Write(CodecOf[t][1], Presented(t, v))
Decode(t, s) ==
  IF t \in DOMAIN VersionOf THEN ReadCommit(VersionOf[t], s)
  ELSE ReadAll(CodecOf[t][2], s)

-----------------------------------------------------------------------------

Init ==
  /\ type \in Types /\ shape \in Shapes
  /\ value = SampleOf(type, shape)
  /\ stream = << >> /\ result = Threw /\ phase = "value"

EncodeValue ==
  /\ phase = "value"
  /\ stream' = Encode(type, value) /\ phase' = "encoded"
  /\ UNCHANGED <<type, shape, value, result>>

\* The end of the file is missing, or something follows it.
Damage ==
  /\ phase = "encoded" /\ phase' = "damaged"
  /\ \/ \E n \in {0, Len(stream) \div 2, Len(stream) - 1} : stream' = SubSeq(stream, 1, n)
     \/ stream' = Append(stream, <<"u8", <<0>>>>)
  /\ UNCHANGED <<type, shape, value, result>>

DecodeStream ==
  /\ phase \in {"encoded", "damaged"}
  /\ result' = Decode(type, stream)
  /\ phase' = IF phase = "encoded" THEN "decoded" ELSE "refused"
  /\ UNCHANGED <<type, shape, value, stream>>

Next == EncodeValue \/ Damage \/ DecodeStream
Spec == Init /\ [][Next]_vars

-----------------------------------------------------------------------------

\* What a value is up to its encoding: sorted lists in order, one zero and one
\* NaN, and a proof of eight roots.
RECURSIVE Canonical(_, _)
Canonical(layout, v) ==
  CASE layout[1] = "fields" -> [i \in DOMAIN v |-> Canonical(layout[2][i], v[i])]
    [] layout[1] = "opt" -> [i \in DOMAIN v |-> Canonical(layout[2], v[i])]
    [] layout[1] = "list" -> [i \in DOMAIN v |-> Canonical(layout[2], v[i])]
    [] layout[1] = "sorted" ->
         [i \in DOMAIN v |-> Canonical(layout[2], Sorted(layout[3], v)[i])]
    [] layout[1] = "union" -> <<v[1], Canonical(layout[2][v[1] + 1], v[2])>>
    [] layout[1] = "f64" -> Bits(v)
    [] OTHER -> v

Expected ==
  LET v == Canonical(CodecOf[type][2], Presented(type, value))
  IN IF type \in {"commit2", "legacy3", "legacy4"}
     THEN WithProgramRoot(VersionOf[type], v) ELSE v

\* Every decode reads what its encode wrote, field by field, and every version
\* of a commit that was ever written is read.
RoundTrip ==
  phase = "decoded" => result.ok /\ result.value = Expected

\* The bytes, and so the hash, do not depend on the order in which a world
\* happens to hold its objects, pointers, facts and attributes.
OneEncoding ==
  phase = "encoded" =>
    stream = Encode(type, SampleOf(type, [shape EXCEPT !.reversed = ~@]))

\* A stream that stops early or goes on is refused, never read as another
\* value.
DamageIsNoticed == phase = "refused" => ~result.ok

\* The id computed for a record is the hash of the object that is stored.
CommitIdIsItsObject ==
  type = "commit" => Identity(value[2]) = Write(CommitW, MakeStored(value[2]))
=============================================================================

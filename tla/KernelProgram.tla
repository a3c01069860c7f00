---------------------------- MODULE KernelProgram ----------------------------
(***************************************************************************)
(* Programs: ProgramBuilder (compiler/program_builder.cpp) turns a delta   *)
(* into instructions that name objects, types and relations instead of     *)
(* their ids, and KernelVm (kernel/vm.cpp) turns instructions back into a  *)
(* delta of the snapshot it runs on.  A commit carries both.               *)
(*                                                                         *)
(* Symbol n of a type or relation table is the code's n - 1, the id the VM *)
(* wants for it is n.  String symbols are the strings.  Operands have the  *)
(* number and kinds the builder gives them.                                *)
(***************************************************************************)
EXTENDS WorldSnapshots

CONSTANTS
  Base,        \* the snapshot the program is made for
  ProgramOps,  \* operations of the delta it is made from
  BetweenOps,  \* operations of a commit made before the program's
  MaxOps,      \* bound on the length of the delta
  MaxBetween   \* bound on the operations in between

VARIABLES delta, between

-----------------------------------------------------------------------------
(* ProgramBuilder *)

\* import_symbols into a builder just made.
ImportSymbols(s) ==
  [types |-> Registry(s.types), relations |-> Registry(s.relations),
   code |-> << >>, named_types |-> << >>, named_relations |-> << >>,
   links |-> 0, thrown |-> FALSE]

IndexOf(names, name) ==
  IF name \in Range(names) THEN CHOOSE n \in DOMAIN names : names[n] = name
  ELSE Len(names) + 1
WithName(names, name) ==
  IF name \in Range(names) THEN names ELSE Append(names, name)

EmitCode(b, code) == [b EXCEPT !.code = @ \o code]
BuildType(b, name) ==
  EmitCode([b EXCEPT !.types = WithName(@, name)],
           <<[op |-> "InternType", symbol |-> IndexOf(b.types, name)]>>)
BuildRelation(b, name) ==
  EmitCode([b EXCEPT !.relations = WithName(@, name)],
           <<[op |-> "InternRelation", symbol |-> IndexOf(b.relations, name)]>>)

ByName(name) == [tag |-> "name", n |-> name]

\* create_object and ensure_object, of the builder's own temps.
BuildObject(b, temp, name, type) ==
  LET typed == BuildType(b, type)
  IN EmitCode(typed, <<[op |-> "CreateObject", temp |-> temp, name |-> name,
                        symbol |-> IndexOf(typed.types, type)]>>)

BuildPointer(b, from, to, relation, weight, domain) ==
  LET named == BuildRelation(b, relation)
  IN EmitCode([named EXCEPT !.links = @ + 1],
       <<[op |-> "CreatePointer", temp |-> b.links + 1, from |-> from,
          to |-> to, symbol |-> IndexOf(named.relations, relation),
          weight |-> weight, domain |-> domain]>>)

\* A type or relation without a name is written as its number.
NameOf(named, symbols, id) ==
  IF id \in DOMAIN named THEN named[id]
  ELSE IF id \in DOMAIN symbols THEN symbols[id] ELSE "unknown"

\* ref_for: an object of the snapshot by its name, a temp as it is.
RefFor(s, ref) == IF ref.tag = "id" THEN ByName(s.objects[ref.n].name) ELSE ref
Compilable(s, ref) == ref.tag = "id" => ref.n \in DOMAIN s.objects

SetAttributes(op, field, ref, attrs) ==
  [n \in DOMAIN attrs |-> [op |-> op, key |-> attrs[n][1],
                           value |-> attrs[n][2]] @@ (field :> ref)]

CompileCreate(s, b, op) ==
  EmitCode(BuildObject(b, op.temp, op.name, NameOf(b.named_types, s.types, op.type)),
           SetAttributes("SetObjectAttribute", "object", TempRef(op.temp),
                         op.attrs))

CompileLink(s, b, op) ==
  EmitCode(BuildPointer(b, RefFor(s, op.from), RefFor(s, op.to),
                        NameOf(b.named_relations, s.relations, op.relation),
                        op.weight, op.domain),
           SetAttributes("SetPointerAttribute", "pointer",
                         TempRef(b.links + 1), op.attrs))

\* The operand fields of the operation, the object and pointer aside.
Operands(op) ==
  [f \in {"op"} \cup (DOMAIN op \cap {"existence", "key", "value", "weight",
                                      "fact", "event"}) |->
     IF f = "op" THEN op.kind ELSE op[f]]

CompileObject(s, b, op) ==
  LET ref == ("object" :> RefFor(s, op.object))
      type == NameOf(b.named_types, s.types, op.type)
      typed == BuildType(b, type)
  IN IF op.kind = "SetObjectType"
     THEN EmitCode(typed, <<("symbol" :> IndexOf(typed.types, type))
                              @@ Operands(op) @@ ref>>)
     ELSE EmitCode(b, <<Operands(op) @@ ref>>)

\* append_delta: one operation.
CompileOp(s, b, op) ==
  CASE op.kind = "InternType" ->
         BuildType(IF op.id = NoId THEN b
                   ELSE [b EXCEPT !.named_types = @ @@ (op.id :> op.name)],
                   op.name)
    [] op.kind = "InternRelation" ->
         BuildRelation(IF op.id = NoId THEN b
                       ELSE [b EXCEPT !.named_relations =
                                        @ @@ (op.id :> op.name)],
                       op.name)
    [] op.kind = "CreateObject" -> CompileCreate(s, b, op)
    [] op.kind \in ObjectOps ->
         IF Compilable(s, op.object) THEN CompileObject(s, b, op)
         ELSE [b EXCEPT !.thrown = TRUE]
    [] op.kind = "CreatePointer" ->
         IF Compilable(s, op.from) /\ Compilable(s, op.to)
         THEN CompileLink(s, b, op) ELSE [b EXCEPT !.thrown = TRUE]
    [] op.kind \in PointerOps ->
         EmitCode(b, <<Operands(op) @@ ("pointer" :> IdRef(op.id))>>)
    [] op.kind \in {"EmitEvent", "AssertFact"} -> EmitCode(b, <<Operands(op)>>)

\* ScriptCompiler::compile_delta; ref_for throws in the middle.
CompileDelta(s, ops) ==
  FoldLeft(LAMBDA b, op : IF b.thrown THEN b ELSE CompileOp(s, b, op),
           ImportSymbols(s), ops)

-----------------------------------------------------------------------------
(* KernelVm *)

NoFrame(s) ==
  [delta |-> << >>, types |-> << >>, relations |-> << >>, temps |-> {},
   names |-> << >>, pointers |-> << >>, next_pointer |-> Len(s.pointers) + 1,
   ok |-> TRUE]

Diagnose(f) == [f EXCEPT !.ok = FALSE]
EmitOp(f, op) == [f EXCEPT !.delta = Append(@, op)]

\* The id of a name: the snapshot's, else the symbol's own if it is free.
\* NoId stands for the conflict diagnostic.
InternId(symbols, symbol, name) ==
  LET known == {n \in DOMAIN symbols : symbols[n] = name}
  IN IF known # {} THEN CHOOSE n \in known : \A m \in known : n <= m
     ELSE IF symbol \in DOMAIN symbols THEN NoId ELSE symbol

VmInternType(s, p, f, i) ==
  LET name == p.types[i.symbol]
      id == InternId(s.types, i.symbol, name)
  IN IF i.symbol \notin DOMAIN p.types \/ id = NoId THEN Diagnose(f)
     ELSE EmitOp([f EXCEPT !.types = (i.symbol :> id) @@ @],
                 [kind |-> "InternType", name |-> name, id |-> id])

VmInternRelation(s, p, f, i) ==
  LET name == p.relations[i.symbol]
      id == InternId(s.relations, i.symbol, name)
  IN IF i.symbol \notin DOMAIN p.relations \/ id = NoId THEN Diagnose(f)
     ELSE EmitOp([f EXCEPT !.relations = (i.symbol :> id) @@ @],
                 [kind |-> "InternRelation", name |-> name, id |-> id])

\* object_ref: temps of this program, then names it created, then the
\* snapshot's objects.
Unresolved == [tag |-> "none"]
VmObject(s, f, ref) ==
  LET known == ObjectsNamed(s, ref.n)
  IN IF ref.tag = "temp"
     THEN IF ref.n \in f.temps THEN ref ELSE Unresolved
     ELSE IF ref.n \in DOMAIN f.names THEN TempRef(f.names[ref.n])
     ELSE IF known # {} THEN IdRef(CHOOSE n \in known : TRUE) ELSE Unresolved

\* pointer_ref: an id must be of the snapshot the program runs on.
VmPointerId(s, f, ref) ==
  IF ref.tag = "temp"
  THEN IF ref.n \in DOMAIN f.pointers THEN f.pointers[ref.n] ELSE NoId
  ELSE IF ref.n \in DOMAIN s.pointers THEN ref.n ELSE NoId

VmCreate(s, f, i) ==
  IF \/ i.symbol \notin DOMAIN f.types \/ i.temp = NoId
     \/ i.temp \in f.temps \/ i.name \in DOMAIN f.names
     \/ ObjectsNamed(s, i.name) # {}
  THEN Diagnose(f)
  ELSE EmitOp([f EXCEPT !.temps = @ \cup {i.temp},
                        !.names = @ @@ (i.name :> i.temp)],
              [kind |-> "CreateObject", temp |-> i.temp, name |-> i.name,
               type |-> f.types[i.symbol], existence |-> "Alive",
               attrs |-> << >>])

\* Mutant: every link of the program gets the id after the snapshot's last.
VmLinkNotCounting(s, f, i) ==
  LET from == VmObject(s, f, i.from)
      to == VmObject(s, f, i.to)
  IN IF Unresolved \in {from, to} \/ i.symbol \notin DOMAIN f.relations
     THEN Diagnose(f)
     ELSE EmitOp([f EXCEPT !.pointers = @ @@ (i.temp :> f.next_pointer)],
                 [kind |-> "CreatePointer", from |-> from, to |-> to,
                  relation |-> f.relations[i.symbol], weight |-> i.weight,
                  domain |-> i.domain, attrs |-> << >>])

VmLink(s, f, i) ==
  LET from == VmObject(s, f, i.from)
      to == VmObject(s, f, i.to)
  IN IF \/ Unresolved \in {from, to} \/ i.symbol \notin DOMAIN f.relations
        \/ i.temp \in DOMAIN f.pointers
     THEN Diagnose(f)
     ELSE EmitOp([f EXCEPT !.pointers = @ @@ (i.temp :> f.next_pointer),
                           !.next_pointer = @ + 1],
                 [kind |-> "CreatePointer", from |-> from, to |-> to,
                  relation |-> f.relations[i.symbol], weight |-> i.weight,
                  domain |-> i.domain, attrs |-> << >>])

OpOf(i, target) ==
  [g \in DOMAIN i \ {"op", "symbol", "object", "pointer"} |-> i[g]]
    @@ ("kind" :> i.op) @@ target

VmObjectOp(s, f, i) ==
  LET ref == VmObject(s, f, i.object)
  IN IF \/ ref = Unresolved
        \/ i.op = "SetObjectType" /\ i.symbol \notin DOMAIN f.types
     THEN Diagnose(f)
     ELSE EmitOp(f, OpOf(i, IF i.op = "SetObjectType"
                            THEN [object |-> ref, type |-> f.types[i.symbol]]
                            ELSE [object |-> ref]))

VmPointerOp(s, f, i) ==
  LET id == VmPointerId(s, f, i.pointer)
  IN IF id = NoId THEN Diagnose(f) ELSE EmitOp(f, OpOf(i, [id |-> id]))

ExecuteInstruction(s, p, f, i) ==
  CASE ~f.ok -> f
    [] f.ok /\ i.op = "InternType" -> VmInternType(s, p, f, i)
    [] f.ok /\ i.op = "InternRelation" -> VmInternRelation(s, p, f, i)
    [] f.ok /\ i.op = "CreateObject" -> VmCreate(s, f, i)
    [] f.ok /\ i.op = "CreatePointer" -> VmLink(s, f, i)
    [] f.ok /\ i.op \in ObjectOps -> VmObjectOp(s, f, i)
    [] f.ok /\ i.op \in PointerOps -> VmPointerOp(s, f, i)
    [] f.ok /\ i.op = "AssertFact" ->
         IF i.fact \in Facts(s) THEN EmitOp(f, OpOf(i, << >>)) ELSE Diagnose(f)
    [] f.ok /\ i.op = "EmitEvent" -> EmitOp(f, OpOf(i, << >>))

\* KernelVm::execute: at the end the overlay must accept the whole delta.
Execute(s, p) ==
  LET f == FoldLeft(LAMBDA g, i : ExecuteInstruction(s, p, g, i),
                    NoFrame(s), p.code)
  IN [ok |-> f.ok /\ OverlayAccepts(s, f.delta), delta |-> f.delta]

\* Mutant: the delta of a transaction is not compared with its program's.
AcceptsAnyDelta(s, p, ops) == Execute(s, p).ok /\ OverlayAccepts(s, ops)

\* prepare_transaction: the program must give the transaction's own delta.
AcceptsProgram(s, p, ops) ==
  LET vm == Execute(s, p) IN vm.ok /\ vm.delta = ops

\* with_required_symbol_interns: the names a delta refers to and does not
\* intern, put before it.
RequiredInterns(s, ops) ==
  LET With(kinds) == {op \in Range(ops) : op.kind \in kinds}
      types == {op.type : op \in With({"CreateObject", "SetObjectType"})}
                 \ {op.id : op \in With({"InternType"})}
      relations == {op.relation : op \in With({"CreatePointer"})}
                     \ {op.id : op \in With({"InternRelation"})}
      Put(kind, ids, symbols) ==
        LET sorted == SetToSortSeq(ids \cap DOMAIN symbols, <)
        IN [n \in DOMAIN sorted |->
              [kind |-> kind, name |-> symbols[sorted[n]], id |-> sorted[n]]]
  IN Put("InternType", types, s.types)
       \o Put("InternRelation", relations, s.relations) \o ops

-----------------------------------------------------------------------------

Init == delta = << >> /\ between = << >>

AppendOperation ==
  /\ between = << >> /\ Len(delta) < MaxOps
  /\ \E op \in ProgramOps : delta' = Append(delta, op)
  /\ UNCHANGED between

AppendBetween ==
  /\ Len(between) < MaxBetween /\ delta # << >>
  /\ \E op \in BetweenOps : between' = Append(between, op)
  /\ UNCHANGED delta

Next == AppendOperation \/ AppendBetween
Spec == Init /\ [][Next]_<<delta, between>>

-----------------------------------------------------------------------------

Program == CompileDelta(Base, delta)
Run == Execute(Base, Program)
Later == After(Base, between)

\* What a snapshot says of objects and pointers, ids of symbols aside.
ByNames(s) ==
  [objects |-> [n \in DOMAIN s.objects |->
                  [s.objects[n] EXCEPT !.type = s.types[@]]],
   pointers |-> [n \in DOMAIN s.pointers |->
                   [s.pointers[n] EXCEPT !.relation = s.relations[@]]]]

Plain(ops) ==
  \A op \in Range(ops) :
    /\ op.kind \in {"InternType", "InternRelation"} => op.id # NoId
    /\ op.kind = "CreateObject" => op.existence = "Alive"

\* Every pointer is one of the snapshot's: none the delta itself creates.
NamesOnlyOld(ops) ==
  \A op \in Range(ops) : op.kind \in PointerOps => op.id \in DOMAIN Base.pointers

\* The program compiled from a delta does what the delta does: the VM's delta
\* leaves the same objects and pointers under the same ids and names.  (A
\* creation loses its existence state and a name interned without an id is
\* not found again; no code that compiles a delta makes either.)
ProgramDoesWhatDeltaDoes ==
  (Plain(delta) /\ OverlayAccepts(Base, delta) /\ ~Program.thrown /\ Run.ok)
    => ByNames(After(Base, Run.delta)) = ByNames(After(Base, delta))

\* The VM's own delta can be compiled and run again and does the same, and
\* the repository's normalisation adds no operation to it: otherwise a commit
\* would be refused, or an integrity check fail, for a valid program.
ReplayIsStable ==
  LET again == CompileDelta(Base, Run.delta)
  IN (~Program.thrown /\ Run.ok)
       => /\ RequiredInterns(Base, Run.delta) = Run.delta
          /\ NamesOnlyOld(Run.delta) =>
               /\ ~again.thrown /\ Execute(Base, again).ok
               /\ After(Base, Execute(Base, again).delta)
                    = After(Base, Run.delta)

\* An id of an object or pointer the delta itself creates.
NamesNewById ==
  \E op \in Range(delta) :
    \/ op.kind \in ObjectOps /\ ~Compilable(Base, op.object)
    \/ op.kind = "CreatePointer" /\ ~(Compilable(Base, op.from)
                                      /\ Compilable(Base, op.to))
    \/ op.kind \in PointerOps /\ op.id \notin DOMAIN Base.pointers

\* Every delta the overlay accepts has a program the VM accepts, unless it
\* names by id what it creates itself or asserts a fact of its own epoch.
CompilesWhatApplies ==
  (/\ OverlayAccepts(Base, delta) /\ Plain(delta) /\ ~NamesNewById
   /\ \A op \in Range(delta) : op.kind = "AssertFact" => op.fact \in Facts(Base))
    => ~Program.thrown /\ Run.ok

\* The part of a snapshot past the first objects and pointers, with the names
\* of the objects pointers join.
Added(s, base) ==
  LET view == ByNames(s)
      Named(p) == [p EXCEPT !.from = s.objects[@].name,
                            !.to = s.objects[@].name, !.born = 0]
  IN [objects |-> SubSeq(view.objects, Len(base.objects) + 1, Len(s.objects)),
      pointers |-> [n \in 1..(Len(s.pointers) - Len(base.pointers)) |->
                      Named(view.pointers[Len(base.pointers) + n])]]

\* A program made before another commit is refused after it, or adds the
\* very objects and pointers, with their names, types and attributes, it
\* would have added before it.
StaleProgramRefused ==
  (/\ OverlayAccepts(Base, between) /\ ~Program.thrown /\ Run.ok
   /\ AcceptsProgram(Later, Program, Run.delta))
    => Added(After(Later, Run.delta), Later)
         = Added(After(Base, Run.delta), Base)
=============================================================================

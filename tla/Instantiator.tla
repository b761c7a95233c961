---------------------------- MODULE Instantiator ----------------------------
(***************************************************************************)
(* Interpreter::Impl::load and instantiate() of src/src/interpreter.cpp,   *)
(* with the export lookup of invoke().  load replaces module_ by the       *)
(* decoded module and runs instantiate(): it clears the runtime state,     *)
(* resolves the imports against the host registry, appends the local      *)
(* functions, globals, memories and tables, snapshots and applies the data *)
(* segments, applies the element segments, rebuilds the export table and  *)
(* runs the start function.  Every failing check throws out of load        *)
(* (std::runtime_error, or Trap for a segment out of bounds) and leaves    *)
(* the state as far as the steps before it built it.                       *)
(*                                                                         *)
(* One step is one iteration of one of instantiate's loops; the loops run  *)
(* in the code's order and nothing else can run while load is running.     *)
(* A module is a record with the fields of wasm::Module; a FunctionType,   *)
(* a limit or a constant expression is a record of what the checks         *)
(* compare.  Function bodies are not executed here (WasmEngine does that): *)
(* a function instance records its signature and which code it runs.      *)
(***************************************************************************)
EXTENDS Integers, Sequences, FiniteSets, WasmValues

CONSTANTS
  Modules,      \* the modules parse_module can hand to instantiate
  HostFuncs,    \* host_functions_: key -> FunctionType
  HostMems,     \* host_memories_: key -> [type, data]
  HostTables,   \* host_tables_: key -> [type, elements]
  HostGlobals,  \* host_globals_: key -> [type, value]
  PageSize,     \* kWasmPageSize (65536 in the program)
  IntWidth,     \* bits of an i32
  ExportNames,  \* names the embedder passes to invoke
  MaxLoads      \* calls of load in one behaviour

Num == INSTANCE I32Ops

\* register_host_global rejects a value whose type differs from its type.
ASSUME \A k \in DOMAIN HostGlobals : HostGlobals[k].value.type = HostGlobals[k].type.vt

\* The Module{} that module_ holds before the first load.
EmptyModule == [types |-> <<>>, imports |-> <<>>, funcs |-> <<>>, tables |-> <<>>,
                mems |-> <<>>, globals |-> <<>>, exports |-> <<>>, start |-> <<>>,
                elems |-> <<>>, datas |-> <<>>]

VARIABLES
  module_,      \* the decoded module of the last load
  functions,    \* functions_: [sig, host, code]; code is a host key or a code index
  globals,      \* globals_: [type, value]
  memories,     \* memories_: [type, data]
  tables,       \* tables_: [type, elems]
  datas,        \* data_segments_: [bytes, passive, dropped]
  exportTable,  \* export_table_: name -> [kind, index]
  phase,        \* the step of instantiate() load is in, or "idle"
  at,           \* the loop index within that step
  outcome,      \* how the last load ended: "loaded", "error", "trap" (a segment
                \* out of bounds) or "start_trapped"
  loads,        \* calls of load so far
  called        \* the last invoke: its name, module_ then, how it ended and
                \* << the function instance it ran >> (<< >> if none)

instance == <<functions, globals, memories, tables, datas, exportTable>>
vars == <<module_, instance, phase, at, outcome, loads, called>>

\* The steps of instantiate(), in order; the first seven are loops.
Steps == <<"imports", "functions", "globals", "memories", "tables", "prepare",
           "data", "elems", "exports", "start">>
Loops == {"imports", "functions", "globals", "memories", "tables", "data", "elems"}
NextStep(p) == LET i == CHOOSE i \in 1 .. Len(Steps) : Steps[i] = p IN
               IF i = Len(Steps) THEN "idle" ELSE Steps[i + 1]

\* The list the current loop walks.
Items == CASE phase = "imports"   -> module_.imports
           [] phase = "functions" -> module_.funcs
           [] phase = "globals"   -> module_.globals
           [] phase = "memories"  -> module_.mems
           [] phase = "tables"    -> module_.tables
           [] phase = "data"      -> module_.datas
           [] phase = "elems"     -> module_.elems
           [] OTHER               -> << >>
Item == Items[at]

Zeros(n)    == [i \in 1 .. n |-> 0]
Nulls(t, n) == [i \in 1 .. n |-> NullRef(t)]
\* An optional maximum is << >> or << max >>.
Exceeds(lim, n) == lim.max /= << >> /\ n > lim.max[1]

\* evaluate_constant_expression: a constant, or global.get of a global
\* already present; a global.get past them throws.
EvalFails(e, gs) == e.kind = "global.get" /\ e.index >= Len(gs)
Eval(e, gs) == IF e.kind = "global.get" THEN gs[e.index + 1].value ELSE e.value

\* An exception leaves load: the state stays as far as it was built.
Fail(o) == /\ outcome' = o /\ phase' = "idle"
           /\ UNCHANGED <<module_, instance, at, loads, called>>

\* One loop iteration that appended or changed what the caller sets.
Advance == /\ at' = at + 1
           /\ UNCHANGED <<module_, phase, outcome, loads, called>>

-----------------------------------------------------------------------------
(* load(): module_ = parse_module(bytes); instantiate() clears the runtime *)
(* state (export_table_ is cleared only when it is rebuilt).              *)
Load(M) ==
  /\ phase = "idle" /\ loads < MaxLoads
  /\ module_' = M
  /\ functions' = << >> /\ globals' = << >> /\ memories' = << >>
  /\ tables' = << >> /\ datas' = << >>
  /\ phase' = "imports" /\ at' = 1 /\ loads' = loads + 1
  /\ UNCHANGED <<exportTable, outcome, called>>

\* The end of one of the loops: on to the next step.
LoopDone ==
  /\ phase \in Loops /\ at > Len(Items)
  /\ phase' = NextStep(phase) /\ at' = 1
  /\ UNCHANGED <<module_, instance, outcome, loads, called>>

-----------------------------------------------------------------------------
(* resolve_imports: one import per step, in declaration order.  An import  *)
(* is [kind, key, type]; key stands for make_host_key(module, name).       *)

\* resolve_function_import: a valid type index, a registered function, and
\* parameter and result lists equal to the module's type.
ResolveFunctionImport(imp) ==
  IF \/ imp.type >= Len(module_.types)
     \/ imp.key \notin DOMAIN HostFuncs
     \/ module_.types[imp.type + 1] /= HostFuncs[imp.key]
  THEN Fail("error")
  ELSE /\ functions' = Append(functions, [sig |-> HostFuncs[imp.key], host |-> TRUE,
                                          code |-> imp.key])
       /\ UNCHANGED <<globals, memories, tables, datas, exportTable>> /\ Advance

\* Mutant: the host's bytes are not checked against the maximum.
ResolveMemoryImportNoMax(imp) ==
  LET r        == HostMems[imp.key]
      minBytes == imp.type.min * PageSize
  IN IF \/ imp.key \notin DOMAIN HostMems
        \/ r.type /= imp.type
        \/ r.data /= << >> /\ \/ Len(r.data) % PageSize /= 0
                              \/ Len(r.data) < minBytes
     THEN Fail("error")
     ELSE /\ memories' = Append(memories,
                           [type |-> imp.type,
                            data |-> IF r.data /= << >> THEN r.data ELSE Zeros(minBytes)])
          /\ UNCHANGED <<functions, globals, tables, datas, exportTable>> /\ Advance

\* resolve_memory_import: equal limits; the host's bytes if it gave any (a
\* whole number of pages, at least min and at most max pages), otherwise
\* min zeroed pages.
ResolveMemoryImport(imp) ==
  LET r        == HostMems[imp.key]
      minBytes == imp.type.min * PageSize
  IN IF \/ imp.key \notin DOMAIN HostMems
        \/ r.type /= imp.type
        \/ r.data /= << >> /\ \/ Len(r.data) % PageSize /= 0
                              \/ Len(r.data) < minBytes
                              \/ Exceeds(imp.type, Len(r.data) \div PageSize)
     THEN Fail("error")
     ELSE /\ memories' = Append(memories,
                           [type |-> imp.type,
                            data |-> IF r.data /= << >> THEN r.data ELSE Zeros(minBytes)])
          /\ UNCHANGED <<functions, globals, tables, datas, exportTable>> /\ Advance

\* resolve_table_import: equal element type and limits; the host's
\* elements if it gave any (at least min, at most max, all of the table's
\* reference type), otherwise min null references.
ResolveTableImport(imp) ==
  LET r == HostTables[imp.key]
      t == imp.type
  IN IF \/ imp.key \notin DOMAIN HostTables
        \/ r.type /= t
        \/ r.elements /= << >> /\ \/ Len(r.elements) < t.limits.min
                                  \/ Exceeds(t.limits, Len(r.elements))
                                  \/ \E i \in DOMAIN r.elements : r.elements[i].type /= t.elem
     THEN Fail("error")
     ELSE /\ tables' = Append(tables,
                         [type |-> t,
                          elems |-> IF r.elements /= << >> THEN r.elements
                                    ELSE Nulls(t.elem, t.limits.min)])
          /\ UNCHANGED <<functions, globals, memories, datas, exportTable>> /\ Advance

\* resolve_global_import: equal value type and mutability, and a value of
\* that type; the host's value is copied.
ResolveGlobalImport(imp) ==
  LET r == HostGlobals[imp.key] IN
  IF \/ imp.key \notin DOMAIN HostGlobals
     \/ r.type /= imp.type
     \/ r.value.type /= imp.type.vt
  THEN Fail("error")
  ELSE /\ globals' = Append(globals, [type |-> imp.type, value |-> r.value])
       /\ UNCHANGED <<functions, memories, tables, datas, exportTable>> /\ Advance

ResolveImport ==
  /\ phase = "imports" /\ at <= Len(Items)
  /\ CASE Item.kind = "func"   -> ResolveFunctionImport(Item)
       [] Item.kind = "memory" -> ResolveMemoryImport(Item)
       [] Item.kind = "table"  -> ResolveTableImport(Item)
       [] Item.kind = "global" -> ResolveGlobalImport(Item)

-----------------------------------------------------------------------------
(* The module's own functions, globals, memories and tables, appended     *)
(* after the imported ones.                                                *)

\* instantiate_functions: the type index must be in range; the instance
\* runs module_.codes[i].
InstantiateFunction ==
  /\ phase = "functions" /\ at <= Len(Items)
  /\ IF Item >= Len(module_.types) THEN Fail("error")
     ELSE /\ functions' = Append(functions, [sig |-> module_.types[Item + 1], host |-> FALSE,
                                             code |-> at - 1])
          /\ UNCHANGED <<globals, memories, tables, datas, exportTable>> /\ Advance

\* instantiate_globals: the initializer is evaluated against the globals
\* present so far (the imported ones and the earlier local ones).
InstantiateGlobal ==
  /\ phase = "globals" /\ at <= Len(Items)
  /\ IF EvalFails(Item.init, globals) THEN Fail("error")
     ELSE /\ globals' = Append(globals, [type |-> Item.type,
                                         value |-> Eval(Item.init, globals)])
          /\ UNCHANGED <<functions, memories, tables, datas, exportTable>> /\ Advance

\* instantiate_memories: MemoryInstance(type) holds min zeroed pages.
InstantiateMemory ==
  /\ phase = "memories" /\ at <= Len(Items)
  /\ memories' = Append(memories, [type |-> Item, data |-> Zeros(Item.min * PageSize)])
  /\ UNCHANGED <<functions, globals, tables, datas, exportTable>> /\ Advance

\* Mutant: every new table filled with null funcrefs.
InstantiateTableFuncref ==
  /\ phase = "tables" /\ at <= Len(Items)
  /\ tables' = Append(tables, [type |-> Item, elems |-> Nulls("funcref", Item.limits.min)])
  /\ UNCHANGED <<functions, globals, memories, datas, exportTable>> /\ Advance

\* instantiate_tables: min null references of the table's type.
InstantiateTable ==
  /\ phase = "tables" /\ at <= Len(Items)
  /\ tables' = Append(tables, [type |-> Item, elems |-> Nulls(Item.elem, Item.limits.min)])
  /\ UNCHANGED <<functions, globals, memories, datas, exportTable>> /\ Advance
-----------------------------------------------------------------------------
(* Segments, the export table and the start function.                     *)

\* prepare_data_segments: every segment, bytes and passive flag, undropped.
PrepareDataSegments ==
  /\ phase = "prepare"
  /\ datas' = [i \in DOMAIN module_.datas |->
                 [bytes |-> module_.datas[i].bytes, passive |-> module_.datas[i].passive,
                  dropped |-> FALSE]]
  /\ phase' = NextStep(phase)
  /\ UNCHANGED <<module_, functions, globals, memories, tables, exportTable, at, outcome,
                 loads, called>>

\* The offset of an active segment: static_cast<uint32_t> of the i32.
Offset(s) == Num!AsU32(Eval(s.offset, globals).val)

\* An active segment's offset: its target must exist, and the offset
\* expression must evaluate to an i32.
OffsetFails(s, target) ==
  \/ target
  \/ EvalFails(s.offset, globals)
  \/ Eval(s.offset, globals).type /= "i32"

\* Mutant: the copy stops one value short.
WriteAtShort(d, off, src) ==
  [i \in DOMAIN d |-> IF off < i /\ i < off + Len(src) THEN src[i - off] ELSE d[i]]

\* d with the values of src written from offset off on.
WriteAt(d, off, src) ==
  [i \in DOMAIN d |-> IF off < i /\ i <= off + Len(src) THEN src[i - off] ELSE d[i]]

\* Mutant: the passive `continue` does not move to the next segment.
ApplyDataSegmentNoSkip ==
  /\ phase = "data" /\ at <= Len(Items)
  /\ IF Item.passive THEN UNCHANGED vars
     ELSE IF OffsetFails(Item, Item.mem >= Len(memories)) THEN Fail("error")
     ELSE IF Offset(Item) + Len(Item.bytes) > Len(memories[Item.mem + 1].data) THEN Fail("trap")
     ELSE /\ memories' = [memories EXCEPT ![Item.mem + 1].data =
                             WriteAt(@, Offset(Item), Item.bytes)]
          /\ UNCHANGED <<functions, globals, tables, datas, exportTable>> /\ Advance

\* Mutant: the bytes are copied up to the end of memory before the
\* bounds check throws.
ApplyDataSegmentCopyFirst ==
  /\ phase = "data" /\ at <= Len(Items)
  /\ IF Item.passive THEN UNCHANGED instance /\ Advance
     ELSE IF OffsetFails(Item, Item.mem >= Len(memories)) THEN Fail("error")
     ELSE IF Offset(Item) + Len(Item.bytes) > Len(memories[Item.mem + 1].data)
     THEN /\ memories' = [memories EXCEPT ![Item.mem + 1].data =
                             WriteAt(@, Offset(Item), Item.bytes)]
          /\ outcome' = "trap" /\ phase' = "idle"
          /\ UNCHANGED <<module_, functions, globals, tables, datas, exportTable, at, loads,
                         called>>
     ELSE /\ memories' = [memories EXCEPT ![Item.mem + 1].data =
                             WriteAt(@, Offset(Item), Item.bytes)]
          /\ UNCHANGED <<functions, globals, tables, datas, exportTable>> /\ Advance

\* apply_data_segments: passive segments are skipped; an active one must
\* fit in its memory (Trap otherwise) and is copied into it.
ApplyDataSegment ==
  /\ phase = "data" /\ at <= Len(Items)
  /\ IF Item.passive THEN UNCHANGED instance /\ Advance
     ELSE IF OffsetFails(Item, Item.mem >= Len(memories)) THEN Fail("error")
     ELSE IF Offset(Item) + Len(Item.bytes) > Len(memories[Item.mem + 1].data) THEN Fail("trap")
     ELSE /\ memories' = [memories EXCEPT ![Item.mem + 1].data =
                             WriteAt(@, Offset(Item), Item.bytes)]
          /\ UNCHANGED <<functions, globals, tables, datas, exportTable>> /\ Advance

\* apply_element_segments: the table must exist and the function indices
\* fit in it (Trap otherwise); the table must hold funcrefs, checked at the
\* first element written; the indices themselves are not checked.
ApplyElementSegment ==
  /\ phase = "elems" /\ at <= Len(Items)
  /\ IF OffsetFails(Item, Item.table >= Len(tables)) THEN Fail("error")
     ELSE IF Offset(Item) + Len(Item.funcs) > Len(tables[Item.table + 1].elems) THEN Fail("trap")
     ELSE IF Item.funcs /= << >> /\ tables[Item.table + 1].type.elem /= "funcref"
     THEN Fail("error")
     ELSE /\ tables' = [tables EXCEPT ![Item.table + 1].elems =
                          WriteAt(@, Offset(Item), [i \in DOMAIN Item.funcs |->
                                                      FuncRefV(Item.funcs[i])])]
          /\ UNCHANGED <<functions, globals, memories, datas, exportTable>> /\ Advance

\* build_export_table: cleared, then emplace for each export; emplace keeps
\* the first export of a name.
BuildExportTable ==
  /\ phase = "exports"
  /\ LET ex    == module_.exports
         names == {ex[i].name : i \in DOMAIN ex}
         first(n) == ex[CHOOSE i \in DOMAIN ex : ex[i].name = n
                                                 /\ \A j \in 1 .. i - 1 : ex[j].name /= n]
     IN exportTable' = [n \in names |-> [kind |-> first(n).kind, index |-> first(n).index]]
  /\ phase' = NextStep(phase)
  /\ UNCHANGED <<module_, functions, globals, memories, tables, datas, at, outcome, loads,
                 called>>

\* instantiate's last statement: execute_function(start) when the module
\* has one.  A start index past functions_ traps; otherwise the function
\* returns or traps (its effect on the state is WasmEngine's business).
RunStart ==
  /\ phase = "start"
  /\ \/ module_.start = << >> /\ outcome' = "loaded"
     \/ module_.start /= << >> /\ module_.start[1] >= Len(functions)
        /\ outcome' = "start_trapped"
     \/ module_.start /= << >> /\ module_.start[1] < Len(functions)
        /\ outcome' \in {"loaded", "start_trapped"}
  /\ phase' = "idle"
  /\ UNCHANGED <<module_, instance, at, loads, called>>

\* invoke(name): an export of that name and of function kind, whose index
\* execute_function finds in functions_ ("Function index out of range" is
\* a Trap, caught); the function instance it runs is recorded.
Invoke(n) ==
  /\ phase = "idle"
  /\ LET e      == exportTable[n]
         result == IF n \notin DOMAIN exportTable THEN "not_found"
                   ELSE IF e.kind /= "func" THEN "not_function"
                   ELSE IF e.index >= Len(functions) THEN "trapped"
                   ELSE "ran"
     IN called' = [name |-> n, module |-> module_, result |-> result,
                   fn |-> IF result = "ran" THEN <<functions[e.index + 1]>> ELSE << >>]
  /\ UNCHANGED <<module_, instance, phase, at, outcome, loads>>

-----------------------------------------------------------------------------
(***************************************************************************)
(* The instance spec.md 4.3 describes for a module M, stated as a whole    *)
(* rather than built step by step: the index spaces are the imports of    *)
(* each kind followed by the module's own; a global's value is its         *)
(* import's or its initializer's; each byte of a memory (element of a      *)
(* table) is that of the last active segment covering it, or the initial   *)
(* one; an export name denotes its first export.                           *)
(***************************************************************************)
ImportsOf(M, k) == SelectSeq(M.imports, LAMBDA i : i.kind = k)
LastOf(S) == CHOOSE k \in S : \A j \in S : j <= k

FuncSpace(M) ==
  LET fi == ImportsOf(M, "func") IN
  [i \in 1 .. Len(fi) |-> [sig |-> M.types[fi[i].type + 1], host |-> TRUE, code |-> fi[i].key]]
  \o [i \in 1 .. Len(M.funcs) |-> [sig |-> M.types[M.funcs[i] + 1], host |-> FALSE,
                                   code |-> i - 1]]

GlobalSpace(M) ==
  LET gi == ImportsOf(M, "global")
      n  == Len(gi) + Len(M.globals)
      typ(i) == IF i <= Len(gi) THEN gi[i].type ELSE M.globals[i - Len(gi)].type
      val[i \in 1 .. n] ==
        IF i <= Len(gi) THEN HostGlobals[gi[i].key].value
        ELSE LET e == M.globals[i - Len(gi)].init IN
             IF e.kind = "global.get" THEN val[e.index + 1] ELSE e.value
  IN [i \in 1 .. n |-> [type |-> typ(i), value |-> val[i]]]

\* The offset of segment s, evaluated against M's globals.
OffsetIn(M, s) == Num!AsU32(Eval(s.offset, GlobalSpace(M)).val)

\* The memories before the data segments: the host's bytes or zeros.
InitialMems(M) ==
  LET mi == ImportsOf(M, "memory") IN
  [i \in 1 .. Len(mi) |->
     [type |-> mi[i].type,
      data |-> IF HostMems[mi[i].key].data /= << >> THEN HostMems[mi[i].key].data
               ELSE Zeros(mi[i].type.min * PageSize)]]
  \o [i \in 1 .. Len(M.mems) |-> [type |-> M.mems[i], data |-> Zeros(M.mems[i].min * PageSize)]]

InitialTables(M) ==
  LET ti == ImportsOf(M, "table") IN
  [i \in 1 .. Len(ti) |->
     [type |-> ti[i].type,
      elems |-> IF HostTables[ti[i].key].elements /= << >> THEN HostTables[ti[i].key].elements
                ELSE Nulls(ti[i].type.elem, ti[i].type.limits.min)]]
  \o [i \in 1 .. Len(M.tables) |->
        [type |-> M.tables[i], elems |-> Nulls(M.tables[i].elem, M.tables[i].limits.min)]]

\* Position b of target t after the segments segs (those with tgt(s) = t
\* write vals(s) from their offset on), the last covering segment winning.
Covered(M, segs, tgt(_), vals(_), t, init) ==
  [b \in DOMAIN init |->
     LET cover == {k \in DOMAIN segs : /\ tgt(segs[k]) = t
                                        /\ OffsetIn(M, segs[k]) < b
                                        /\ b <= OffsetIn(M, segs[k]) + Len(vals(segs[k]))}
     IN IF cover = {} THEN init[b]
        ELSE vals(segs[LastOf(cover)])[b - OffsetIn(M, segs[LastOf(cover)])]]

MemSpace(M) ==
  LET active == SelectSeq(M.datas, LAMBDA s : ~s.passive)
      mems   == InitialMems(M)
  IN [i \in DOMAIN mems |->
        [type |-> mems[i].type,
         data |-> Covered(M, active, LAMBDA s : s.mem, LAMBDA s : s.bytes, i - 1,
                          mems[i].data)]]

TableSpace(M) ==
  LET tabs == InitialTables(M) IN
  [i \in DOMAIN tabs |->
     [type |-> tabs[i].type,
      elems |-> Covered(M, M.elems, LAMBDA s : s.table,
                        LAMBDA s : [k \in DOMAIN s.funcs |-> FuncRefV(s.funcs[k])],
                        i - 1, tabs[i].elems)]]

ExportSpace(M) ==
  LET ex == M.exports IN
  [n \in {ex[i].name : i \in DOMAIN ex} |->
     LET i == CHOOSE k \in DOMAIN ex : ex[k].name = n /\ \A j \in 1 .. k - 1 : ex[j].name /= n
     IN [kind |-> ex[i].kind, index |-> ex[i].index]]

\* What spec.md 4.3 requires of M for instantiation to succeed: every
\* import registered with equal type (and the host's bytes or elements
\* fitting it), every type index in range, every global.get naming an
\* earlier global, every active segment's target present, offset an i32 and
\* range inside the target, and element segments only into funcref tables.
ImportOK(M, imp) ==
  CASE imp.kind = "func" ->
         imp.type < Len(M.types) /\ imp.key \in DOMAIN HostFuncs
         /\ HostFuncs[imp.key] = M.types[imp.type + 1]
    [] imp.kind = "memory" ->
         imp.key \in DOMAIN HostMems /\ HostMems[imp.key].type = imp.type
         /\ LET d == HostMems[imp.key].data IN
            d /= << >> => /\ Len(d) % PageSize = 0 /\ Len(d) >= imp.type.min * PageSize
                          /\ ~Exceeds(imp.type, Len(d) \div PageSize)
    [] imp.kind = "table" ->
         imp.key \in DOMAIN HostTables /\ HostTables[imp.key].type = imp.type
         /\ LET e == HostTables[imp.key].elements IN
            e /= << >> => /\ Len(e) >= imp.type.limits.min /\ ~Exceeds(imp.type.limits, Len(e))
                          /\ \A i \in DOMAIN e : e[i].type = imp.type.elem
    [] imp.kind = "global" ->
         imp.key \in DOMAIN HostGlobals /\ HostGlobals[imp.key].type = imp.type

SegmentOK(M, s) ==
  LET gs == GlobalSpace(M) IN
  /\ s.offset.kind = "global.get" => s.offset.index < Len(gs)
  /\ Eval(s.offset, gs).type = "i32"

Instantiable(M) ==
  LET ng   == Len(ImportsOf(M, "global"))
      mems == InitialMems(M)
      tabs == InitialTables(M)
  IN /\ \A i \in DOMAIN M.imports : ImportOK(M, M.imports[i])
     /\ \A i \in DOMAIN M.funcs : M.funcs[i] < Len(M.types)
     /\ \A i \in DOMAIN M.globals :
          M.globals[i].init.kind = "global.get" => M.globals[i].init.index < ng + i - 1
     /\ \A i \in DOMAIN M.datas : LET s == M.datas[i] IN
          ~s.passive => /\ s.mem < Len(mems) /\ SegmentOK(M, s)
                        /\ OffsetIn(M, s) + Len(s.bytes) <= Len(mems[s.mem + 1].data)
     /\ \A i \in DOMAIN M.elems : LET s == M.elems[i] IN
          /\ s.table < Len(tabs) /\ SegmentOK(M, s)
          /\ OffsetIn(M, s) + Len(s.funcs) <= Len(tabs[s.table + 1].elems)
          /\ s.funcs /= << >> => tabs[s.table + 1].type.elem = "funcref"

-----------------------------------------------------------------------------
Init ==
  /\ module_ = EmptyModule
  /\ functions = << >> /\ globals = << >> /\ memories = << >> /\ tables = << >>
  /\ datas = << >> /\ exportTable = << >>
  /\ phase = "idle" /\ at = 1 /\ outcome = "none" /\ loads = 0
  /\ called = [name |-> "none", module |-> EmptyModule, result |-> "none", fn |-> << >>]

\* The steps load takes until it returns or throws.
LoadStep ==
  \/ LoopDone \/ ResolveImport \/ InstantiateFunction \/ InstantiateGlobal
  \/ InstantiateMemory \/ InstantiateTable \/ PrepareDataSegments
  \/ ApplyDataSegment \/ ApplyElementSegment \/ BuildExportTable \/ RunStart

Next ==
  \/ \E M \in Modules : Load(M)
  \/ LoadStep
  \/ \E n \in ExportNames : Invoke(n)

\* load runs on the embedder's thread to its end without yielding.
Spec == Init /\ [][Next]_vars /\ WF_vars(LoadStep)
-----------------------------------------------------------------------------
Results == {"loaded", "start_trapped"}

TypeOK ==
  /\ phase \in {"idle"} \cup {Steps[i] : i \in DOMAIN Steps}
  /\ outcome \in {"none", "error", "trap"} \cup Results
  /\ called.result \in {"none", "not_found", "not_function", "trapped", "ran"}
  /\ (called.result = "ran") = (Len(called.fn) = 1)
  /\ loads \in 0 .. MaxLoads
  /\ \A i \in DOMAIN functions : functions[i].host \in BOOLEAN
  /\ \A i \in DOMAIN globals : globals[i].value.type \in ValueTypes
  /\ \A i \in DOMAIN memories : Len(memories[i].data) % PageSize = 0
  /\ \A i \in DOMAIN tables :
       \A k \in DOMAIN tables[i].elems : tables[i].elems[k].type = tables[i].type.elem
  /\ \A n \in DOMAIN exportTable : exportTable[n].kind \in {"func", "memory", "table", "global"}

(***************************************************************************)
(* A load that returns (or whose start function traps) leaves exactly the  *)
(* instance spec.md 4.3 describes for module_: imports before the          *)
(* module's own entities in every index space, each global evaluated       *)
(* against the earlier ones, each active segment copied with later         *)
(* segments overwriting earlier ones, and the first export of each name.   *)
(* It relates the ten steps of instantiate() and their loops to one        *)
(* declarative definition.                                                 *)
(***************************************************************************)
LoadedIsInstance ==
  phase = "idle" /\ outcome \in Results =>
    /\ functions = FuncSpace(module_)
    /\ globals = GlobalSpace(module_)
    /\ memories = MemSpace(module_)
    /\ tables = TableSpace(module_)
    /\ datas = [i \in DOMAIN module_.datas |->
                  [bytes |-> module_.datas[i].bytes, passive |-> module_.datas[i].passive,
                   dropped |-> FALSE]]
    /\ exportTable = ExportSpace(module_)

(***************************************************************************)
(* load throws exactly when spec.md 4.3's conditions fail for the module:  *)
(* a missing or mismatched import, a bad type index or global.get, a       *)
(* segment whose target is missing or whose range does not fit.  None of   *)
(* instantiate's checks may be skipped, and none may reject a module that  *)
(* meets them.                                                             *)
(***************************************************************************)
LoadOutcome ==
  phase = "idle" /\ loads > 0 => (outcome \in Results <=> Instantiable(module_))

\* Whether an active segment lies within its target as instantiate() built it.
DataFits(M, s) ==
  LET mems == InitialMems(M) IN
  s.passive \/ (s.mem < Len(mems) /\ OffsetIn(M, s) + Len(s.bytes) <= Len(mems[s.mem + 1].data))
ElemFits(M, s) ==
  LET tabs == InitialTables(M) IN
  s.table < Len(tabs) /\ OffsetIn(M, s) + Len(s.funcs) <= Len(tabs[s.table + 1].elems)

\* The segments of seq before the first one that fails ok.
PrefixBefore(seq, ok(_)) ==
  LET bad == {i \in DOMAIN seq : ~ok(seq[i])} IN
  IF bad = {} THEN seq ELSE SubSeq(seq, 1, (CHOOSE i \in bad : \A j \in bad : i <= j) - 1)

\* The memories and tables of M after the segments that fit, up to the first
\* that does not: no element segment is applied if a data segment failed.
TrappedLoadState(M) ==
  LET ds == PrefixBefore(M.datas, LAMBDA s : DataFits(M, s))
      es == IF ds = M.datas THEN PrefixBefore(M.elems, LAMBDA s : ElemFits(M, s)) ELSE << >>
      P  == [M EXCEPT !.datas = ds, !.elems = es]
  IN <<MemSpace(P), TableSpace(P)>>

(***************************************************************************)
(* A load that traps on a segment out of bounds keeps what it did before   *)
(* (spec.md 7: side effects before a trap are not rolled back) and nothing *)
(* of the failing segment: the functions and globals are complete, every   *)
(* active segment before the failing one is in memory, later ones          *)
(* overwriting earlier ones, no byte of the failing segment or of a later  *)
(* one is written, and no element segment is applied after a data segment  *)
(* failed.  apply_data_segments checks the whole range before std::copy,   *)
(* and the data segments are applied before the element segments.         *)
(***************************************************************************)
TrapKeepsAppliedSegments ==
  phase = "idle" /\ outcome = "trap" =>
    /\ functions = FuncSpace(module_)
    /\ globals = GlobalSpace(module_)
    /\ <<memories, tables>> = TrappedLoadState(module_)

(***************************************************************************)
(* The function invoke(name) runs is the function the module loaded last   *)
(* exports under name (spec.md 3: runtime state is created once per load; *)
(* 4.4: invoke looks up a function export).                                *)
(***************************************************************************)
InvokeRunsLoadedExport ==
  called.result = "ran" => LET ex == called.module.exports IN
         \E i \in DOMAIN ex : /\ ex[i].name = called.name /\ ex[i].kind = "func"
                              /\ ex[i].index < Len(FuncSpace(called.module))
                              /\ FuncSpace(called.module)[ex[i].index + 1] = called.fn[1]
=============================================================================

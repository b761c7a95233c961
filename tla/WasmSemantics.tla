---------------------------- MODULE WasmSemantics ----------------------------
(***************************************************************************)
(* What invoke() promises, for the instructions WasmEngine models: the     *)
(* WebAssembly 1.0 execution semantics with labels, and spec.md's failure  *)
(* rules (every violation during invoke is a trap).                        *)
(*                                                                         *)
(* A label is what a block, loop, if or the function body pushes.  It      *)
(* records the arity a branch to it carries (the parameters of a loop, the *)
(* results of anything else), the results its end carries, the stack       *)
(* height under its parameters and where a branch to it continues: the     *)
(* start of a loop, past the matching end of anything else.  The matching  *)
(* end and the else of a block come from the structural definitions of     *)
(* BlockAnalyzer (MatchingEnd, ElsesOfBlock), not from the scan.           *)
(* A store takes the value from the top of the stack and the address from  *)
(* under it.  There is no undefined behaviour and no other exception.      *)
(***************************************************************************)
EXTENDS Naturals, Integers, Sequences, FiniteSets, BlockAnalyzer, I32Numerics, WasmValues

CONSTANTS Types, Funcs, Exports, Names, Args, ArgCounts, HostResults,
          PageSize, InitPages, HasMax, MaxPages, MaxInvokes, MaxCallDepth,
          DataSegs, GlobalDefs, TableDefs

VARIABLES status, fn, pc, vals, labels, locals, mem, results, invokes, callers,
          datas,     \* the data instances: a dropped segment is empty
          globals,   \* the global values
          tables     \* the table elements

avars == <<status, fn, pc, vals, labels, locals, mem, results, invokes, callers, datas,
           globals, tables>>

Modulus  == 2 ^ IntWidth
ByteBits == IntWidth \div 4
U(x)     == x % Modulus
\* The value of w little-endian bytes: bit i is bit (i % ByteBits) of byte
\* i \div ByteBits; read as signed when the load sign-extends.
LoadValue(bs, signed) ==
  LET n == Len(bs) * ByteBits
      f(i) == Bit(bs[i \div ByteBits + 1], i % ByteBits)
      u == FromBits(f, n)
  IN IF signed /\ Bit(u, n - 1) = 1 THEN u - 2 ^ n ELSE u
ByteK(x, k) == (U(x) \div 2 ^ (ByteBits * (k - 1))) % 2 ^ ByteBits

Code  == Funcs[fn].body
Ins   == Code[pc]
Depth == Len(vals)
Val(k) == vals[Depth - k]                  \* k-th value from the top
Num(k) == Val(k).val                       \* its number, for an i32
Keep(n) == SubSeq(vals, 1, Depth - n)
TopVals(n) == SubSeq(vals, Depth - n + 1, Depth)

BlockVoid == -64                          \* the empty block type 0x40
BlockI32  == -1                           \* the block type 0x7F, one i32
BTParams(bt)  == IF bt \in DOMAIN Types THEN Types[bt].params ELSE 0
BTResults(bt) == CASE bt = BlockVoid -> 0 [] bt = BlockI32 -> 1
                   [] OTHER -> Types[bt].results
BTValid(bt)   == bt \in {BlockVoid, BlockI32} \/ bt \in DOMAIN Types

Live == status = "running"
At(o) == Live /\ pc <= Len(Code) /\ Ins.op = o

\* The end of an invocation by a trap, which unwinds every activation.
Fail == /\ status' = "trapped" /\ vals' = <<>> /\ labels' = <<>> /\ callers' = <<>>
        /\ UNCHANGED <<fn, pc, locals, mem, datas, globals, tables, results>>

\* A function returns the values vs: to the embedder from the outermost
\* activation, otherwise to its caller, which continues after the call.
Done(vs) ==
  IF callers = <<>>
    THEN /\ status' = "returned" /\ results' = vs
         /\ vals' = <<>> /\ labels' = <<>>
         /\ UNCHANGED <<fn, pc, locals, mem, datas, globals, tables, callers>>
    ELSE LET c == callers[Len(callers)] IN
         /\ fn' = c.fn /\ pc' = c.pc /\ vals' = c.vals \o vs
         /\ labels' = c.labels /\ locals' = c.locals
         /\ callers' = SubSeq(callers, 1, Len(callers) - 1)
         /\ UNCHANGED <<status, mem, datas, globals, tables, results>>

Go(newVals, newLocals, newPc) ==
  /\ vals' = newVals /\ locals' = newLocals /\ pc' = newPc
  /\ UNCHANGED <<status, fn, mem, datas, globals, tables, results, invokes, callers>>

Need(n, A) == IF Depth < n THEN Fail ELSE A
\* n operands of type i32: anything else on the stack is a trap (spec.md 7).
NeedI32(n, A) == Need(n, IF \E k \in 0 .. n - 1 : Val(k).type /= "i32" THEN Fail ELSE A)

-----------------------------------------------------------------------------
\* A new activation of the function f with a body.
Activate(f, args) ==
  /\ fn' = f /\ pc' = 1 /\ vals' = <<>>
  /\ locals' = args \o [k \in 1 .. Len(Funcs[f].locals) |-> ZeroValue(Funcs[f].locals[k])]
  /\ labels' = << [kind |-> "function",
                   arity |-> Types[Funcs[f].type].results,
                   results |-> Types[Funcs[f].type].results,
                   height |-> 0, cont |-> Len(Funcs[f].body) + 1] >>

AInvoke ==
  /\ status \in {"idle", "returned", "trapped"}
  /\ invokes < MaxInvokes
  /\ invokes' = invokes + 1
  /\ callers' = <<>>
  /\ \E name \in Names, n \in ArgCounts : \E args \in [1 .. n -> Args] :
       IF name \notin DOMAIN Exports \/ Exports[name].kind /= "func"
          \/ Exports[name].index \notin DOMAIN Funcs
         THEN Fail
       ELSE LET f == Exports[name].index IN
       IF Funcs[f].host
         THEN \/ Fail
              \/ \E r \in HostResults :
                   /\ status' = "returned" /\ results' = <<I32V(r)>> /\ fn' = f
                   /\ vals' = <<>> /\ labels' = <<>>
                   /\ UNCHANGED <<pc, locals, mem, datas, globals, tables>>
       ELSE IF Types[Funcs[f].type].params /= n THEN Fail
       ELSE /\ status' = "running" /\ Activate(f, [k \in 1 .. n |-> I32V(args[k])])
            /\ UNCHANGED <<mem, datas, globals, tables, results>>

\* Entering a block, loop or if whose body starts at s with the operands
\* (parameters) already on the stack.
Label(kind, bt, s) ==
  [kind |-> kind,
   arity |-> IF kind = "loop" THEN BTParams(bt) ELSE BTResults(bt),
   results |-> BTResults(bt),
   height |-> Depth - (IF kind = "if" THEN 1 ELSE 0) - BTParams(bt),
   cont |-> IF kind = "loop" THEN s ELSE MatchingEnd(Code, s) + 1]

AEnter ==
  /\ At("block") \/ At("loop") \/ At("if")
  /\ IF ~BTValid(Ins.bt) \/ ~HasMatchingEnd(Code, pc + 1) THEN Fail
     ELSE LET lab == Label(Ins.op, Ins.bt, pc + 1)
              els == ElsesOfBlock(Code, pc + 1)
          IN IF Ins.op /= "if"
               THEN /\ labels' = Append(labels, lab)
                    /\ Go(vals, locals, pc + 1)
             ELSE NeedI32(1,
                  /\ labels' = Append(labels, lab)
                  /\ IF Num(0) /= 0 THEN Go(Keep(1), locals, pc + 1)
                     ELSE IF els /= {} THEN \E e \in els : Go(Keep(1), locals, e + 1)
                     ELSE Go(Keep(1), locals, lab.cont - 1))

\* The then-branch is over: continue at the if's end.
AElse ==
  /\ At("else")
  /\ IF labels = <<>> \/ labels[Len(labels)].kind /= "if" THEN Fail
     ELSE /\ pc' = labels[Len(labels)].cont - 1
          /\ UNCHANGED <<status, fn, vals, labels, locals, mem, datas, globals, tables, results, invokes, callers>>

\* A label's end: its results replace everything above its height.
AEnd ==
  /\ At("end")
  /\ IF labels = <<>> THEN Fail
     ELSE LET lab == labels[Len(labels)] IN
          IF Depth < lab.results \/ Depth - lab.results < lab.height THEN Fail
          ELSE IF lab.kind = "function"
            THEN Done([k \in 1 .. lab.results |-> TopVals(lab.results)[k]])
          ELSE /\ labels' = SubSeq(labels, 1, Len(labels) - 1)
               /\ Go(SubSeq(vals, 1, lab.height) \o TopVals(lab.results),
                     locals, lab.cont)

\* A branch to the label d levels out, from the value stack vs.
BranchTo(d, vs) ==
  IF d >= Len(labels) THEN Fail
  ELSE LET t   == Len(labels) - d
           lab == labels[t]
           n   == lab.arity
       IN IF Len(vs) < n \/ Len(vs) - n < lab.height THEN Fail
          ELSE LET carried == SubSeq(vs, Len(vs) - n + 1, Len(vs)) IN
            CASE lab.kind = "function" -> Done(carried)
              [] lab.kind = "loop" ->
                   /\ labels' = SubSeq(labels, 1, t)
                   /\ Go(SubSeq(vs, 1, lab.height) \o carried, locals, lab.cont)
              [] OTHER ->
                   /\ labels' = SubSeq(labels, 1, t - 1)
                   /\ Go(SubSeq(vs, 1, lab.height) \o carried, locals, lab.cont)

ABranch ==
  \/ At("br") /\ BranchTo(Ins.depth, vals)
  \/ At("br_if") /\ NeedI32(1, IF Num(0) /= 0 THEN BranchTo(Ins.depth, Keep(1))
                            ELSE /\ Go(Keep(1), locals, pc + 1)
                                 /\ UNCHANGED labels)
  \/ At("br_table") /\ NeedI32(1, LET i == U(Num(0)) IN
                         BranchTo(IF i < Len(Ins.targets) THEN Ins.targets[i + 1]
                                  ELSE Ins.default, Keep(1)))
  \/ At("return") /\ BranchTo(Len(labels) - 1, vals)

-----------------------------------------------------------------------------
Plain(newVals, newLocals) == Go(newVals, newLocals, pc + 1) /\ UNCHANGED labels

LocalOK == Ins.idx < Len(locals)

AValue ==
  \/ At("nop") /\ Plain(vals, locals)
  \/ At("drop") /\ Need(1, Plain(Keep(1), locals))
  \/ At("select") /\ Need(3, IF Val(0).type /= "i32" THEN Fail
                            ELSE Plain(Append(Keep(3), IF Num(0) /= 0 THEN Val(2) ELSE Val(1)),
                                       locals))
  \/ At("i32.const") /\ Plain(Append(vals, I32V(Ins.val)), locals)
  \/ At("local.get") /\ IF ~LocalOK THEN Fail
                        ELSE Plain(Append(vals, locals[Ins.idx + 1]), locals)
  \/ At("local.set") /\ IF ~LocalOK THEN Fail
                        ELSE Need(1, Plain(Keep(1), [locals EXCEPT ![Ins.idx + 1] = Val(0)]))
  \/ At("local.tee") /\ IF ~LocalOK THEN Fail
                        ELSE Need(1, Plain(vals, [locals EXCEPT ![Ins.idx + 1] = Val(0)]))
  \/ At("i32.eqz") /\ NeedI32(1, Plain(Append(Keep(1), I32V(IF Num(0) = 0 THEN 1 ELSE 0)),
                                      locals))
  \/ \E o \in UnaryOps :
       At(o) /\ NeedI32(1, Plain(Append(Keep(1), I32V(WasmUn(o, Num(0)))), locals))
  \/ \E o \in Extensions :
       At(o) /\ NeedI32(1, Plain(Append(Keep(1), I32V(WasmExt(o, Num(0)))), locals))
  \/ \E o \in Comparisons :
       At(o) /\ NeedI32(2, Plain(Append(Keep(2), I32V(IF WasmRel(o, Num(1), Num(0)) THEN 1 ELSE 0)),
                                 locals))
  \/ \E o \in BinaryOps :
       At(o) /\ NeedI32(2, IF WasmBinTraps(o, Num(1), Num(0)) THEN Fail
                           ELSE Plain(Append(Keep(2), I32V(WasmBin(o, Num(1), Num(0)))), locals))

-----------------------------------------------------------------------------
\* Linear memory: an access of w bytes at address a + offset traps unless it
\* lies inside the memory; a store writes the value on top of the stack at
\* the address under it.
Fits(a, off, w) == U(a) + off + w <= Len(mem)

\* The loads as <<name, width in bytes, sign-extending>>, the stores as
\* <<name, width>>.
Loads  == {<<"i32.load", 4, TRUE>>, <<"i32.load8_s", 1, TRUE>>,
           <<"i32.load8_u", 1, FALSE>>, <<"i32.load16_s", 2, TRUE>>,
           <<"i32.load16_u", 2, FALSE>>}
Stores == {<<"i32.store", 4>>, <<"i32.store8", 1>>, <<"i32.store16", 2>>}

AMemory ==
  \/ \E l \in Loads : At(l[1]) /\ NeedI32(1,
       IF ~Fits(Num(0), Ins.offset, l[2]) THEN Fail
       ELSE LET ea == U(Num(0)) + Ins.offset IN
            Plain(Append(Keep(1), I32V(LoadValue([k \in 1 .. l[2] |-> mem[ea + k]], l[3]))),
                  locals))
  \/ \E st \in Stores : At(st[1]) /\ NeedI32(2,
       IF ~Fits(Num(1), Ins.offset, st[2]) THEN Fail
       ELSE LET ea == U(Num(1)) + Ins.offset IN
            /\ mem' = [i \in DOMAIN mem |->
                         IF ea < i /\ i <= ea + st[2] THEN ByteK(Num(0), i - ea) ELSE mem[i]]
            /\ vals' = Keep(2) /\ pc' = pc + 1
            /\ UNCHANGED <<status, fn, labels, locals, results, invokes, callers, datas, globals, tables>>)
  \/ At("memory.size") /\ Plain(Append(vals, I32V(Len(mem) \div PageSize)), locals)
                       /\ UNCHANGED <<mem, datas, globals, tables>>
  \* memory.grow returns the old size in pages and appends zeroed pages,
  \* or returns -1 and leaves the memory alone.
  \/ At("memory.grow") /\ NeedI32(1,
       LET old == Len(mem) \div PageSize
           d   == Num(0)
       IN \/ /\ d >= 0 /\ (HasMax => old + d <= MaxPages)
             /\ mem' = mem \o [k \in 1 .. d * PageSize |-> 0]
             /\ vals' = Append(Keep(1), I32V(old)) /\ pc' = pc + 1
             /\ UNCHANGED <<status, fn, labels, locals, results, invokes, callers, datas, globals, tables>>
          \/ /\ Plain(Append(Keep(1), I32V(-1)), locals)
             /\ UNCHANGED <<mem, datas, globals, tables>>)

-----------------------------------------------------------------------------
\* Bulk memory (WebAssembly 2.0).  Operands are unsigned; a range that does
\* not lie inside the segment or the memory traps, and a zero-length range
\* at the end does not.  The copies are defined byte by byte.
RECURSIVE InitBytes(_, _, _, _, _)
InitBytes(m, bs, d, s, n) ==
  IF n = 0 THEN m
  ELSE InitBytes([m EXCEPT ![d + 1] = bs[s + 1]], bs, d + 1, s + 1, n - 1)

\* memory.copy: forward when the destination is at or below the source,
\* backward from the last byte otherwise.
RECURSIVE CopyBytes(_, _, _, _)
CopyBytes(m, d, s, n) ==
  IF n = 0 THEN m
  ELSE IF d <= s THEN CopyBytes([m EXCEPT ![d + 1] = m[s + 1]], d + 1, s + 1, n - 1)
  ELSE CopyBytes([m EXCEPT ![d + n] = m[s + n]], d, s, n - 1)

RECURSIVE FillBytes(_, _, _, _)
FillBytes(m, d, b, n) ==
  IF n = 0 THEN m ELSE FillBytes([m EXCEPT ![d + 1] = b], d + 1, b, n - 1)

\* The three operands d, s, n (n on top) as unsigned numbers.
Opnds == <<U(Num(2)), U(Num(1)), U(Num(0))>>

MemStep(m) == /\ mem' = m /\ vals' = Keep(3) /\ pc' = pc + 1
              /\ UNCHANGED <<status, fn, labels, locals, results, invokes, callers, datas, globals, tables>>

ABulk ==
  \/ At("memory.init") /\ NeedI32(3,
       LET d == Opnds[1]  s == Opnds[2]  n == Opnds[3] IN
       IF Ins.mem /= 0 \/ Ins.data >= Len(datas)
          \/ s + n > Len(datas[Ins.data + 1]) \/ d + n > Len(mem) THEN Fail
       ELSE MemStep(InitBytes(mem, datas[Ins.data + 1], d, s, n)))
  \/ At("data.drop") /\ IF Ins.data >= Len(datas) THEN Fail
                        ELSE /\ datas' = [datas EXCEPT ![Ins.data + 1] = <<>>]
                             /\ pc' = pc + 1
                             /\ UNCHANGED <<status, fn, vals, labels, locals, mem, results,
                                            invokes, callers, globals, tables>>
  \/ At("memory.copy") /\ NeedI32(3,
       LET d == Opnds[1]  s == Opnds[2]  n == Opnds[3] IN
       IF Ins.dst /= 0 \/ Ins.src /= 0 \/ s + n > Len(mem) \/ d + n > Len(mem) THEN Fail
       ELSE MemStep(CopyBytes(mem, d, s, n)))
  \/ At("memory.fill") /\ NeedI32(3,
       LET d == Opnds[1]  n == Opnds[3] IN
       IF Ins.mem /= 0 \/ d + n > Len(mem) THEN Fail
       ELSE MemStep(FillBytes(mem, d, ByteK(Num(1), 1), n)))

-----------------------------------------------------------------------------
\* Globals, tables and references (WebAssembly 2.0).  Indices are unsigned;
\* an access outside a table traps; table.grow may always fail with -1.
TabIdx   == Ins.table + 1
TabOK    == Ins.table < Len(tables)
TabType  == TableDefs[TabIdx].type

SetTable(t, elems, newVals) ==
  /\ tables' = [tables EXCEPT ![t] = elems] /\ vals' = newVals /\ pc' = pc + 1
  /\ UNCHANGED <<status, fn, labels, locals, mem, datas, globals, results, invokes, callers>>

\* Elements n of the table vs copied from src at s to d, one at a time:
\* upward when d <= s, downward from the last one otherwise.
RECURSIVE CopyElems(_, _, _, _, _)
CopyElems(vs, src, d, s, n) ==
  IF n = 0 THEN vs
  ELSE IF d <= s THEN CopyElems([vs EXCEPT ![d + 1] = src[s + 1]], src, d + 1, s + 1, n - 1)
  ELSE CopyElems([vs EXCEPT ![d + n] = src[s + n]], src, d, s, n - 1)

ATable ==
  \/ At("global.get") /\ IF Ins.idx >= Len(globals) THEN Fail
                         ELSE Plain(Append(vals, globals[Ins.idx + 1]), locals)
                              /\ UNCHANGED <<mem, datas, globals, tables>>
  \/ At("global.set") /\ IF Ins.idx >= Len(globals) \/ ~GlobalDefs[Ins.idx + 1].mutable THEN Fail
                         ELSE Need(1,
                           IF Val(0).type /= GlobalDefs[Ins.idx + 1].type THEN Fail
                           ELSE /\ globals' = [globals EXCEPT ![Ins.idx + 1] = Val(0)]
                                /\ vals' = Keep(1) /\ pc' = pc + 1
                                /\ UNCHANGED <<status, fn, labels, locals, mem, datas, tables,
                                               results, invokes, callers>>)
  \/ At("table.get") /\ IF ~TabOK THEN Fail ELSE NeedI32(1,
       IF U(Num(0)) >= Len(tables[TabIdx]) THEN Fail
       ELSE Plain(Append(Keep(1), tables[TabIdx][U(Num(0)) + 1]), locals)
            /\ UNCHANGED <<mem, datas, globals, tables>>)
  \/ At("table.set") /\ IF ~TabOK THEN Fail ELSE Need(2,
       IF Val(0).type /= TabType \/ Val(1).type /= "i32"
          \/ U(Num(1)) >= Len(tables[TabIdx]) THEN Fail
       ELSE SetTable(TabIdx, [tables[TabIdx] EXCEPT ![U(Num(1)) + 1] = Val(0)], Keep(2)))
  \/ At("table.size") /\ IF ~TabOK THEN Fail
                         ELSE Plain(Append(vals, I32V(Len(tables[TabIdx]))), locals)
                              /\ UNCHANGED <<mem, datas, globals, tables>>
  \/ At("table.grow") /\ IF ~TabOK THEN Fail ELSE Need(2,
       LET n == U(Num(0))  def == TableDefs[TabIdx] IN
       IF Val(0).type /= "i32" \/ Val(1).type /= TabType THEN Fail
       ELSE \/ /\ Len(tables[TabIdx]) + n <= Modulus - 1
               /\ def.hasmax => Len(tables[TabIdx]) + n <= def.max
               /\ SetTable(TabIdx, tables[TabIdx] \o [k \in 1 .. n |-> Val(1)],
                           Append(Keep(2), I32V(Len(tables[TabIdx]))))
            \/ Plain(Append(Keep(2), I32V(-1)), locals) /\ UNCHANGED <<mem, datas, globals, tables>>)
  \/ At("table.fill") /\ IF ~TabOK THEN Fail ELSE Need(3,
       LET o == U(Num(2))  n == U(Num(0)) IN
       IF Val(0).type /= "i32" \/ Val(1).type /= TabType \/ Val(2).type /= "i32"
          \/ o + n > Len(tables[TabIdx]) THEN Fail
       ELSE SetTable(TabIdx, [i \in DOMAIN tables[TabIdx] |->
                               IF o < i /\ i <= o + n THEN Val(1) ELSE tables[TabIdx][i]],
                     Keep(3)))
  \/ At("table.copy") /\ IF Ins.dst >= Len(tables) \/ Ins.src >= Len(tables) THEN Fail
                         ELSE NeedI32(3,
       LET d == Opnds[1]  s == Opnds[2]  n == Opnds[3]
           dt == tables[Ins.dst + 1]  st == tables[Ins.src + 1]
       IN IF TableDefs[Ins.dst + 1].type /= TableDefs[Ins.src + 1].type
             \/ s + n > Len(st) \/ d + n > Len(dt) THEN Fail
          ELSE SetTable(Ins.dst + 1,
                        IF Ins.dst = Ins.src THEN CopyBytes(dt, d, s, n)
                        ELSE CopyElems(dt, st, d, s, n),
                        Keep(3)))
  \/ At("ref.null") /\ IF Ins.t \notin RefTypes THEN Fail
                       ELSE Plain(Append(vals, NullRef(Ins.t)), locals)
                            /\ UNCHANGED <<mem, datas, globals, tables>>
  \/ At("ref.is_null") /\ Need(1, IF Val(0).type \notin RefTypes THEN Fail
                                  ELSE Plain(Append(Keep(1), I32V(IF Val(0).null THEN 1 ELSE 0)),
                                             locals)
                                       /\ UNCHANGED <<mem, datas, globals, tables>>)
  \/ At("ref.func") /\ IF Ins.func \notin DOMAIN Funcs THEN Fail
                       ELSE Plain(Append(vals, FuncRefV(Ins.func)), locals)
                            /\ UNCHANGED <<mem, datas, globals, tables>>

-----------------------------------------------------------------------------
\* The call of f with the operands vs under it: the arguments leave vs, a
\* host function's results are pushed or the host reports a trap, and a
\* function with a body runs in a new activation.
CallOf(f, vs) ==
  LET ty   == Types[Funcs[f].type]
      rest == SubSeq(vs, 1, Len(vs) - ty.params)
  IN IF Len(vs) < ty.params THEN Fail
     ELSE IF Funcs[f].host
       THEN \/ Fail
            \/ \E r \in [1 .. ty.results -> HostResults] :
                 Plain(rest \o [k \in 1 .. ty.results |-> I32V(r[k])], locals)
                 /\ UNCHANGED <<mem, datas, globals, tables>>
     \* Call-stack exhaustion: an implementation limit, not a result.
     ELSE IF Len(callers) + 1 >= MaxCallDepth
       THEN /\ status' = "exhausted" /\ vals' = <<>> /\ labels' = <<>>
            /\ callers' = <<>>
            /\ UNCHANGED <<fn, pc, locals, mem, datas, globals, tables, results>>
     ELSE /\ callers' = Append(callers, [fn |-> fn, pc |-> pc + 1, vals |-> rest,
                                          labels |-> labels, locals |-> locals])
          /\ Activate(f, SubSeq(vs, Len(vs) - ty.params + 1, Len(vs)))
          /\ UNCHANGED <<status, mem, datas, globals, tables, results>>

\* call_indirect: the entry at the popped index of a funcref table must be
\* a non-null reference to a function of the instruction's type.
ACall ==
  \/ At("call") /\ IF Ins.func \notin DOMAIN Funcs THEN Fail ELSE CallOf(Ins.func, vals)
  \/ At("call_indirect") /\ IF ~TabOK THEN Fail ELSE NeedI32(1,
       LET i == U(Num(0)) IN
       IF TabType /= "funcref" \/ i >= Len(tables[TabIdx]) \/ tables[TabIdx][i + 1].null
          \/ Ins.type \notin DOMAIN Types
          \/ Types[Funcs[tables[TabIdx][i + 1].val].type] /= Types[Ins.type] THEN Fail
       ELSE CallOf(tables[TabIdx][i + 1].val, Keep(1)))

\* Traps of the instruction set: unreachable, code without a final end, and
\* an opcode outside it.
Known == {"block", "loop", "if", "else", "end", "br", "br_if", "br_table",
          "return", "unreachable", "nop", "drop", "select", "i32.const",
          "local.get", "local.set", "local.tee", "i32.eqz", "memory.size",
          "memory.grow", "call", "memory.init", "data.drop", "memory.copy",
          "memory.fill", "global.get", "global.set", "table.get", "table.set",
          "table.size", "table.grow", "table.fill", "table.copy", "ref.null",
          "ref.is_null", "ref.func", "call_indirect"}
       \cup UnaryOps \cup Extensions \cup Comparisons \cup BinaryOps
       \cup {l[1] : l \in Loads} \cup {st[1] : st \in Stores}
AFault ==
  /\ Live
  /\ pc > Len(Code) \/ Ins.op = "unreachable" \/ Ins.op \notin Known
  /\ Fail

-----------------------------------------------------------------------------
\* Instantiation runs memory.init of every active segment at its offset,
\* in order, followed by data.drop of it.
RECURSIVE Instantiated(_, _)
Instantiated(m, i) ==
  IF i > Len(DataSegs) THEN m
  ELSE Instantiated(IF DataSegs[i].passive THEN m
                    ELSE InitBytes(m, DataSegs[i].bytes, DataSegs[i].offset, 0,
                                   Len(DataSegs[i].bytes)), i + 1)

AInit ==
  /\ status = "idle" /\ fn = CHOOSE f \in DOMAIN Funcs : TRUE /\ pc = 1
  /\ vals = <<>> /\ labels = <<>> /\ locals = <<>>
  /\ mem = Instantiated([i \in 1 .. InitPages * PageSize |-> 0], 1)
  /\ results = <<>> /\ invokes = 0 /\ callers = <<>>
  /\ datas = [i \in DOMAIN DataSegs |-> IF DataSegs[i].passive THEN DataSegs[i].bytes ELSE <<>>]
  /\ globals = [i \in DOMAIN GlobalDefs |-> GlobalDefs[i].init]
  /\ tables = [i \in DOMAIN TableDefs |-> TableDefs[i].elems]

AStep == /\ AEnter \/ AElse \/ AEnd \/ ABranch \/ AValue \/ AMemory \/ ABulk \/ ATable \/ ACall
            \/ AFault
         /\ UNCHANGED invokes

ANext == AInvoke \/ AStep

ASpec == AInit /\ [][ANext]_avars /\ WF_avars(AStep)
=============================================================================

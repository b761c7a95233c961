--------------------------- MODULE MCWasmEngine ---------------------------
(***************************************************************************)
(* A module for the engine to run: one host import and exported functions  *)
(* that exercise every structured-control path, the operand-stack resize   *)
(* on end and branch, memory access with bounds traps, memory.grow and a   *)
(* host call; and two bodies execution rejects.                            *)
(***************************************************************************)
EXTENDS WasmEngine, TLC

SX == INSTANCE SequencesExt

\* Instruction records, one field per immediate.
I(o)            == [op |-> o]
Blk(o, bt)      == [op |-> o, bt |-> bt]
Const(v)        == [op |-> "i32.const", val |-> v]
Loc(o, i)       == [op |-> o, idx |-> i]
BrD(o, d)       == [op |-> o, depth |-> d]
BrTab(ts, d)    == [op |-> "br_table", targets |-> ts, default |-> d]
Mem(o, off)     == [op |-> o, offset |-> off]
CallF(f)        == [op |-> "call", func |-> f]
MemInit(x)      == [op |-> "memory.init", data |-> x, mem |-> 0]
DataDropI(x)    == [op |-> "data.drop", data |-> x]
MemCopy         == [op |-> "memory.copy", dst |-> 0, src |-> 0]
MemFill         == [op |-> "memory.fill", mem |-> 0]
Glob(o, i)      == [op |-> o, idx |-> i]
Tab(o, t)       == [op |-> o, table |-> t]
TabCopy(d, s)   == [op |-> "table.copy", dst |-> d, src |-> s]
RefNullI(t)     == [op |-> "ref.null", t |-> t]
RefFuncI(f)     == [op |-> "ref.func", func |-> f]
CallInd(ty, t)  == [op |-> "call_indirect", type |-> ty, table |-> t]

MCTypes ==
  0 :> [params |-> 0, results |-> 1] @@
  1 :> [params |-> 1, results |-> 1]

\* (if (result i32) (i32.eqz x) (then 1) (else 2)), then br_if out of the
\* block with that value when x /= 0, else replace it by 3.
Blocks ==
  << Blk("block", BlockI32),
       Loc("local.get", 0), I("i32.eqz"),
       Blk("if", BlockI32), Const(1), I("else"), Const(2), I("end"),
       Loc("local.get", 0), BrD("br_if", 0),
       I("drop"), Const(3),
     I("end"),
     I("end") >>

\* local 1 := x + (x-1) + ... + 1 with a loop left by br_if 1.
Loop ==
  << Blk("block", BlockVoid),
       Blk("loop", BlockVoid),
         Loc("local.get", 0), I("i32.eqz"), BrD("br_if", 1),
         Loc("local.get", 1), Loc("local.get", 0), I("i32.add"), Loc("local.set", 1),
         Loc("local.get", 0), Const(1), I("i32.sub"), Loc("local.set", 0),
         BrD("br", 0),
       I("end"),
     I("end"),
     Loc("local.get", 1),
     I("end") >>

\* store x at 0, grow by a page, copy the word at 0 to 4, store the low
\* byte of x at 5 and its low two bytes at 6, add the four narrow loads at
\* 5, load at x + 2 (out of bounds for large x) and add memory.size.
Memory ==
  << Const(0), Loc("local.get", 0), Mem("i32.store", 0),
     Const(1), I("memory.grow"), I("drop"),
     Const(4), Const(0), Mem("i32.load", 0), Mem("i32.store", 0),
     Const(5), Loc("local.get", 0), Mem("i32.store8", 0),
     Const(6), Loc("local.get", 0), Mem("i32.store16", 0),
     Const(5), Mem("i32.load8_s", 0), Const(5), Mem("i32.load8_u", 0), I("i32.add"),
     Const(5), Mem("i32.load16_s", 0), I("i32.add"),
     Const(5), Mem("i32.load16_u", 0), I("i32.add"), I("drop"),
     Loc("local.get", 0), Mem("i32.load", 2),
     I("memory.size"), I("i32.add"),
     I("end") >>

\* x op 3 for every numeric operator, and x op for the unary ones; each
\* result is dropped.
NumOps2 == <<"i32.eq", "i32.ne", "i32.lt_s", "i32.lt_u", "i32.gt_s", "i32.gt_u",
             "i32.le_s", "i32.le_u", "i32.ge_s", "i32.ge_u", "i32.add", "i32.sub",
             "i32.mul", "i32.div_s", "i32.div_u", "i32.rem_s", "i32.rem_u",
             "i32.and", "i32.or", "i32.xor", "i32.shl", "i32.shr_s", "i32.shr_u",
             "i32.rotl", "i32.rotr">>
NumOps1 == <<"i32.clz", "i32.ctz", "i32.popcnt", "i32.extend8_s", "i32.extend16_s">>
Numeric ==
  SX!FlattenSeq([i \in 1 .. Len(NumOps2) |->
                   << Loc("local.get", 0), Const(3), I(NumOps2[i]), I("drop") >>])
  \o SX!FlattenSeq([i \in 1 .. Len(NumOps1) |->
                   << Loc("local.get", 0), I(NumOps1[i]), I("drop") >>])
  \o << Const(0), I("end") >>

\* The division traps: 5 rem_u x traps for x = 0, the most negative value
\* div_s x for x = -1.
Divide ==
  << Const(5), Loc("local.get", 0), I("i32.rem_u"), I("drop"),
     Const(MinI32), Loc("local.get", 0), I("i32.div_s"), I("end") >>

\* br_table on x over a 9 left on the stack: 0 leaves the block with 7, 1
\* returns 7 from the function, anything else selects the default (the
\* block); then add 1 and return the top value from over the 9.
Table ==
  << Const(9),
     Blk("block", BlockI32),
       Const(7), Loc("local.get", 0), BrTab(<<0, 1>>, 0),
     I("end"),
     Const(1), I("i32.add"), I("return"),
     I("end") >>

\* call the host import, tee it into a local, select on it.
Host ==
  << CallF(0), Loc("local.tee", 0), Const(5), Loc("local.get", 0),
     I("select"), I("nop"), I("end") >>

Trapping == << I("unreachable"), I("end") >>

\* Bodies the decoder passes through but execution rejects: one without its
\* final end, one with an opcode the engine does not implement.
NoEnd       == << Const(1), I("drop") >>
UnsupportedOp == << Const(2), Const(3), I("i64.add"), I("end") >>

\* sum(x) = x + sum(x - 1), sum(0) = 0, by recursive calls: x = 1 nests two
\* activations, x = -1 recurses until the native stack is exhausted.
Recurse ==
  << Loc("local.get", 0), I("i32.eqz"),
     Blk("if", BlockI32),
       Const(0),
     I("else"),
       Loc("local.get", 0),
       Loc("local.get", 0), Const(1), I("i32.sub"), CallF(11),
       I("i32.add"),
     I("end"),
     I("end") >>

\* Data segment 0 is active at offset 0, segment 1 passive (a byte of the
\* model holds IntWidth \div 4 = 2 bits).
MCDataSegs == << [bytes |-> <<1, 2>>, passive |-> FALSE, offset |-> 0],
                 [bytes |-> <<3, 1, 2>>, passive |-> TRUE, offset |-> 0] >>

\* memory.init of the passive segment at x (traps for x = -1), memory.copy
\* of three bytes one up (overlapping, the destination above the source)
\* and back down, memory.fill of two bytes at 2 with x, data.drop, then
\* memory.init of one byte from the dropped segment (traps); the word at 0
\* is the result on the paths that get there.
Bulk ==
  << Loc("local.get", 0), Const(0), Const(3), MemInit(1),
     Const(1), Const(0), Const(3), MemCopy,
     Const(0), Const(1), Const(3), MemCopy,
     Const(2), Loc("local.get", 0), Const(2), MemFill,
     Const(0), Mem("i32.load", 0), DataDropI(1),
     Const(0), Const(0), Const(1), MemInit(1),
     I("end") >>

\* Global 0 is a mutable i32, global 1 an immutable one; table 0 holds
\* funcrefs, starts as <<double, null>> and may grow to 3 elements.
MCGlobalDefs == << [type |-> "i32", mutable |-> TRUE, init |-> I32V(0)],
                   [type |-> "i32", mutable |-> FALSE, init |-> I32V(7)] >>
MCTableDefs == << [type |-> "funcref", hasmax |-> TRUE, max |-> 3,
                   elems |-> << FuncRefV(13), NullRef("funcref") >>] >>

\* table.set 1 := double, grow by a null (to 3) and again (fails, -1, kept
\* in global 0), table.size, copy elements 1..2 down to 0..1 (overlapping),
\* fill element 2 with double, ref.is_null of element x (traps for x = -1),
\* then call_indirect double(5) through element x (null for x = 1), plus
\* global 0 and the immutable global 1.
Tables ==
  << Const(1), RefFuncI(13), Tab("table.set", 0),
     RefNullI("funcref"), Const(1), Tab("table.grow", 0), I("drop"),
     RefNullI("funcref"), Const(1), Tab("table.grow", 0), Glob("global.set", 0),
     Tab("table.size", 0), I("drop"),
     Const(0), Const(1), Const(2), TabCopy(0, 0),
     Const(2), RefFuncI(13), Const(1), Tab("table.fill", 0),
     Loc("local.get", 0), Tab("table.get", 0), I("ref.is_null"), I("drop"),
     Const(5), Loc("local.get", 0), CallInd(1, 0),
     Glob("global.get", 0), I("i32.add"), Glob("global.get", 1), I("i32.add"),
     I("end") >>

\* double(x) = x + x, reached only through the table.
Double == << Loc("local.get", 0), Loc("local.get", 0), I("i32.add"), I("end") >>

MCFuncs ==
  0 :> [type |-> 0, host |-> TRUE,  locals |-> << >>, body |-> <<>>] @@
  1 :> [type |-> 1, host |-> FALSE, locals |-> << >>, body |-> Blocks] @@
  2 :> [type |-> 1, host |-> FALSE, locals |-> <<"i32">>, body |-> Loop] @@
  3 :> [type |-> 1, host |-> FALSE, locals |-> << >>, body |-> Memory] @@
  4 :> [type |-> 1, host |-> FALSE, locals |-> << >>, body |-> Table] @@
  5 :> [type |-> 0, host |-> FALSE, locals |-> <<"i32">>, body |-> Host] @@
  6 :> [type |-> 0, host |-> FALSE, locals |-> << >>, body |-> Trapping] @@
  7 :> [type |-> 0, host |-> FALSE, locals |-> << >>, body |-> NoEnd] @@
  8 :> [type |-> 0, host |-> FALSE, locals |-> << >>, body |-> UnsupportedOp] @@
  9 :> [type |-> 1, host |-> FALSE, locals |-> << >>, body |-> Numeric] @@
  10 :> [type |-> 1, host |-> FALSE, locals |-> << >>, body |-> Divide] @@
  11 :> [type |-> 1, host |-> FALSE, locals |-> << >>, body |-> Recurse] @@
  12 :> [type |-> 1, host |-> FALSE, locals |-> << >>, body |-> Bulk] @@
  13 :> [type |-> 1, host |-> FALSE, locals |-> << >>, body |-> Double] @@
  14 :> [type |-> 1, host |-> FALSE, locals |-> << >>, body |-> Tables]

MCExports ==
  "get"    :> [kind |-> "func", index |-> 0] @@
  "blocks" :> [kind |-> "func", index |-> 1] @@
  "loop"   :> [kind |-> "func", index |-> 2] @@
  "mem"    :> [kind |-> "func", index |-> 3] @@
  "table"  :> [kind |-> "func", index |-> 4] @@
  "host"   :> [kind |-> "func", index |-> 5] @@
  "trap"   :> [kind |-> "func", index |-> 6] @@
  "noend"  :> [kind |-> "func", index |-> 7] @@
  "i64"    :> [kind |-> "func", index |-> 8] @@
  "num"    :> [kind |-> "func", index |-> 9] @@
  "div"    :> [kind |-> "func", index |-> 10] @@
  "sum"    :> [kind |-> "func", index |-> 11] @@
  "bulk"   :> [kind |-> "func", index |-> 12] @@
  "tables" :> [kind |-> "func", index |-> 14] @@
  "memory" :> [kind |-> "memory", index |-> 0]

MCNames == DOMAIN MCExports \cup {"absent"}

\* Arguments: zero, one, and -1 (all bits set: a large unsigned address, a
\* negative br_table index, a loop that counts down through the wrap).
MCArgs == {0, 1, -1}
=============================================================================

-------------------------- MODULE MCWasmFindings --------------------------
(***************************************************************************)
(* Small valid programs, one per disagreement between the engine and       *)
(* WebAssembly or spec.md; each cfg runs one of them against one property. *)
(***************************************************************************)
EXTENDS MCWasmEngine

\* type 0: [] -> [i32]; type 1: [i32] -> [i32]
\* Exports: "run" is function 1; function 0 is the host import.
Run(body, ty, nlocals) ==
  0 :> [type |-> 0, host |-> TRUE, locals |-> << >>, body |-> <<>>] @@
  1 :> [type |-> ty, host |-> FALSE, locals |-> [k \in 1 .. nlocals |-> "i32"], body |-> body]
RunExports == "run" :> [kind |-> "func", index |-> 1]
\* A module without data segments: memory starts zeroed.
NoDataSegs == << >>
\* Nor globals and tables.
NoGlobals == << >>
NoTables == << >>

\* (i32.const 5) (loop (result i32) x := x - 1, br_if 0 on the old x,
\* (i32.const 7)) (i32.add): WebAssembly gives 12, a branch to the loop
\* carries no value.
LoopResult ==
  << Const(5),
     Blk("loop", BlockI32),
       Loc("local.get", 0), Loc("local.get", 0), Const(1), I("i32.sub"),
       Loc("local.set", 0), BrD("br_if", 0),
       Const(7),
     I("end"),
     I("i32.add"), I("end") >>
LoopResultFuncs == Run(LoopResult, 1, 0)

\* 10 - (block (type 1) (param i32) (result i32) 5 + 1): WebAssembly gives 4.
BlockParams ==
  << Const(10), Const(5),
     Blk("block", 1), Const(1), I("i32.add"), I("end"),
     I("i32.sub"), I("end") >>
BlockParamsFuncs == Run(BlockParams, 0, 0)

\* (i32.store (i32.load (i32.const 0)) (i32.const 7)), then load address 0:
\* the address comes from a load, the value is a constant.
StoreOrder ==
  << Const(0), Mem("i32.load", 0), Const(7), Mem("i32.store", 0),
     Const(0), Mem("i32.load", 0), I("end") >>
StoreOrderFuncs == Run(StoreOrder, 0, 0)

\* (return (i32.const 1)) from inside the function body.
EarlyReturn == << Const(1), I("return"), I("end") >>
EarlyReturnFuncs == Run(EarlyReturn, 0, 0)

\* memory.grow by the argument; "call" calls a function index the module
\* does not have (the decoder does not check call targets).
Grow == << Loc("local.get", 0), I("memory.grow"), I("end") >>
BadCall == << CallF(5), I("end") >>
EscapeFuncs ==
  Run(Grow, 1, 0) @@ 2 :> [type |-> 0, host |-> FALSE, locals |-> << >>, body |-> BadCall]
EscapeExports == RunExports @@ "call" :> [kind |-> "func", index |-> 2]
\* memory.init of one byte of the active segment 0 (MCDataSegs) to
\* address 2: instantiation has already copied that segment, and spec.md
\* (glossary) and WebAssembly 2.0 make only a passive segment usable by
\* memory.init, so the instruction must trap.
ActiveInit == << Const(2), Const(0), Const(1), MemInit(0), Const(0), I("end") >>
ActiveInitFuncs == Run(ActiveInit, 0, 0)
\* table.grow of a table without a maximum by a null and a delta of -1
\* (2^IntWidth - 1 unsigned, past the largest table size): spec.md 4.4 and
\* WebAssembly push -1.
GrowTables == << [type |-> "funcref", hasmax |-> FALSE, max |-> 0,
                  elems |-> << NullRef("funcref") >>] >>
TableGrowAll == << RefNullI("funcref"), Const(-1), Tab("table.grow", 0), I("end") >>
TableGrowFuncs == Run(TableGrowAll, 0, 0)
=============================================================================

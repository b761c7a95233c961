----------------------------- MODULE WasmEngine -----------------------------
(***************************************************************************)
(* The execution engine of the interpreter: Interpreter::Impl::invoke()    *)
(* and execute_function() in src/src/interpreter.cpp, for the structured   *)
(* control instructions, the operand stack with its value origins, locals, *)
(* i32 arithmetic, i32 loads and stores with the store operand-order       *)
(* heuristic, memory.size/memory.grow and calls of host functions.         *)
(*                                                                         *)
(* One state is the interpreter between two opcodes of one invocation.     *)
(* The module's functions are the constant Funcs; a body is a sequence of  *)
(* instruction records (see BlockAnalyzer) and pc is the index of the next *)
(* record to read.  Values are i32, held in IntWidth bits; a memory "byte" *)
(* holds IntWidth \div 4 bits so that an i32 is four bytes, little endian. *)
(***************************************************************************)
EXTENDS Naturals, Integers, Sequences, FiniteSets, BlockAnalyzer, I32Ops, WasmValues

CONSTANTS
  Types,        \* type index -> [params |-> n, results |-> n] (i32 only)
  Funcs,        \* function index -> [type, host, locals, body]
  Exports,      \* export name -> [kind |-> "func" | "memory", index |-> i]
  Names,        \* export names the embedder may ask for
  Args,         \* i32 values the embedder passes as arguments
  ArgCounts,    \* lengths of the argument lists the embedder passes
  HostResults,  \* i32 values a host callback may return
  PageSize,     \* bytes per memory page in the model
  InitPages,    \* declared minimum of memory 0
  HasMax,       \* memory 0 declares a maximum
  MaxPages,     \* that maximum
  AllocLimit,   \* largest byte size std::vector::resize can allocate
  MaxInvokes,   \* bound on the number of invoke() calls
  MaxCallDepth, \* nested execute_function activations the native stack holds
  UBOutcomes,   \* what the build does on a read past an empty vector
  DataSegs,     \* data segments: [bytes, passive, offset] (offset if active)
  GlobalDefs,   \* globals: [type, mutable, init] as instantiate() leaves them
  TableDefs,    \* tables: [type, hasmax, max, elems] as instantiate() leaves them
  TableAllocLimit \* largest element count std::vector::reserve can allocate

ASSUME IntWidth \in {4, 8, 12} /\ PageSize \in Nat \ {0}
ASSUME UBOutcomes \subseteq {"stale", "abort"} /\ UBOutcomes /= {}
\* instantiate() succeeded: every active segment fits in memory 0.
ASSUME \A i \in DOMAIN DataSegs :
         ~DataSegs[i].passive => DataSegs[i].offset + Len(DataSegs[i].bytes) <= InitPages * PageSize

VARIABLES
  status,   \* "idle", "running", or how the last invoke ended
  fn,       \* index of the executing function
  pc,       \* index of the next instruction of Funcs[fn].body
  stack,    \* operand stack: sequence of [val, origin]
  ctl,      \* control stack: sequence of control frames
  locals,   \* parameters and declared locals
  mem,      \* bytes of memory 0
  results,  \* values returned by the last invoke
  invokes,  \* invoke() calls made so far
  ub,       \* a read of control_stack[0] from an empty control stack happened
  frames,   \* the suspended callers: execute_function activations below fn
  data,     \* data_segments_: [bytes, passive, dropped] per segment
  globals,  \* globals_[i].value
  tables    \* tables_[i].elements

vars == <<status, fn, pc, stack, ctl, locals, mem, results, invokes, ub, frames, data,
          globals, tables>>

-----------------------------------------------------------------------------
(* i32 values and the byte layout of memory.                               *)

ByteBits  == IntWidth \div 4
Bytes     == 0 .. 2 ^ ByteBits - 1
\* write_value<uintN_t> (and memory.data[a] = value & 0xFF): the low w
\* bytes of a value, lowest byte first.
LEBytes(x, w) == [k \in 1 .. w |-> (AsU32(x) \div 2 ^ (ByteBits * (k - 1))) % 2 ^ ByteBits]

\* read_value<uintN_t>: the unsigned value of bytes, lowest byte first.
RECURSIVE LEValue(_)
LEValue(bs) == IF bs = <<>> THEN 0 ELSE bs[1] + 2 ^ ByteBits * LEValue(Tail(bs))

\* Mutant: the loaded value taken as unsigned whatever the opcode.
LoadedUnsigned(bs, signed) == LEValue(bs)

\* The loaded value converted to int32_t: through int8_t, int16_t or
\* int32_t for the signed loads, zero-extended for the unsigned ones.
Loaded(bs, signed) ==
  LET bits == ByteBits * Len(bs)
      u    == LEValue(bs)
  IN IF signed /\ u >= 2 ^ (bits - 1) THEN u - 2 ^ bits ELSE u

Pages == Len(mem) \div PageSize                         \* size_in_pages

(* StackValue: a Value and the ValueOrigin tag; SV pushes an i32.        *)
Origins == {"default", "call", "load"}
SVal(v, o) == [type |-> v.type, val |-> v.val, null |-> v.null, origin |-> o]
SV(n, o) == SVal(I32V(n), o)
ValueOf(e) == [type |-> e.type, val |-> e.val, null |-> e.null]

Body == Funcs[fn].body
Instr == Body[pc]
Top(k) == stack[Len(stack) - k]                         \* OperandStack::top
Popped(n) == SubSeq(stack, 1, Len(stack) - n)
TopN(n) == SubSeq(stack, Len(stack) - n + 1, Len(stack))

(* OperandStack::resize: shrinking drops entries, growing appends default- *)
(* constructed StackValues, i.e. i32 0 with origin Default.                *)
Resize(s, h) ==
  IF h <= Len(s) THEN SubSeq(s, 1, h)
  ELSE s \o [k \in 1 .. h - Len(s) |-> SV(0, "default")]

(* read_block_type: 0x40 (empty) and 0x7F (i32) are read as the values   *)
(* 0x40 and -1 with is_type_index false, anything else as a type index.   *)
(* The model writes the empty type as -64 so that it cannot be mistaken    *)
(* for a type index.  parse_block_signature: the result arity; an index    *)
(* outside the type section throws std::runtime_error.                     *)
BlockVoid == -64
BlockI32  == -1
BlockTypeValid(bt) == bt \in {BlockVoid, BlockI32} \/ bt \in DOMAIN Types
BlockResults(bt) ==
  CASE bt = BlockVoid -> 0 [] bt = BlockI32 -> 1 [] OTHER -> Types[bt].results

(* Control frames.  `below` is a ghost copy of the operand stack under the *)
(* frame's entry height, taken when the frame is pushed.                   *)
Frame(kind, nres, start, info, h) ==
  [kind |-> kind, results |-> nres, start_pc |-> start,
   end_pc |-> info.end_pc, end_next_pc |-> info.end_next_pc,
   else_pc |-> info.else_pc, else_body_pc |-> info.else_body_pc,
   stack_height |-> h, executing_else |-> FALSE, below |-> SubSeq(stack, 1, h)]

-----------------------------------------------------------------------------
(* Outcomes.                                                               *)

Running == status = "running"
Next1 == pc' = pc + 1

\* throw Trap(...): caught by invoke(), which reports trapped = true.
Trap == /\ status' = "trapped"
        /\ UNCHANGED <<fn, pc, stack, ctl, locals, mem, data, globals, tables, results, invokes, ub, frames>>

\* An exception other than Trap (std::runtime_error, std::out_of_range,
\* std::bad_alloc): invoke() does not catch it and it leaves the call.
Escape == /\ status' = "escaped"
          /\ UNCHANGED <<fn, pc, stack, ctl, locals, mem, data, globals, tables, results, invokes, ub, frames>>

\* execute_function returns: to invoke() from the outermost activation,
\* otherwise to the call case of its caller, which pushes the values with
\* origin CallResult and continues after the call.  The returning
\* activation's stacks are destroyed.
\* Mutant: the outermost activation returns the whole operand stack.
ReturnStack(vals) ==
  IF frames = <<>>
    THEN /\ status' = "returned"
         /\ results' = [k \in 1 .. Len(stack) |-> ValueOf(stack[k])]
         /\ stack' = <<>> /\ ctl' = <<>>
         /\ UNCHANGED <<fn, pc, locals, mem, data, globals, tables, invokes, frames>>
    ELSE LET c == frames[Len(frames)] IN
         /\ fn' = c.fn /\ pc' = c.pc /\ ctl' = c.ctl /\ locals' = c.locals
         /\ stack' = c.stack \o [k \in 1 .. Len(vals) |-> SVal(ValueOf(vals[k]), "call")]
         /\ frames' = SubSeq(frames, 1, Len(frames) - 1)
         /\ UNCHANGED <<status, mem, data, globals, tables, results, invokes>>

Return(vals) ==
  IF frames = <<>>
    THEN /\ status' = "returned"
         /\ results' = [k \in 1 .. Len(vals) |-> ValueOf(vals[k])]
         /\ stack' = <<>> /\ ctl' = <<>>
         /\ UNCHANGED <<fn, pc, locals, mem, data, globals, tables, invokes, frames>>
    ELSE LET c == frames[Len(frames)] IN
         /\ fn' = c.fn /\ pc' = c.pc /\ ctl' = c.ctl /\ locals' = c.locals
         /\ stack' = c.stack \o [k \in 1 .. Len(vals) |-> SVal(ValueOf(vals[k]), "call")]
         /\ frames' = SubSeq(frames, 1, Len(frames) - 1)
         /\ UNCHANGED <<status, mem, data, globals, tables, results, invokes>>

\* Pops of n operands: pop_stack_value traps on an empty stack.
WithOperands(n, A) == IF Len(stack) < n THEN Trap ELSE A
\* Pops of n operands by pop_i32, which also traps on a value of another type.
WithI32(n, A) ==
  WithOperands(n, IF \E k \in 0 .. n - 1 : Top(k).type /= "i32" THEN Trap ELSE A)

\* The set-up of execute_function for a function with a body: locals are
\* the arguments then zero values, the operand stack is empty and the
\* control stack holds the function frame.
Activation(f, args) ==
  /\ fn' = f /\ pc' = 1 /\ stack' = <<>>
  /\ locals' = args \o [k \in 1 .. Len(Funcs[f].locals) |-> ZeroValue(Funcs[f].locals[k])]
  /\ ctl' = << [kind |-> "function",
                results |-> Types[Funcs[f].type].results,
                start_pc |-> 1,
                end_pc |-> Len(Funcs[f].body), end_next_pc |-> Len(Funcs[f].body) + 1,
                else_pc |-> 0, else_body_pc |-> 0,
                stack_height |-> 0, executing_else |-> FALSE,
                below |-> <<>>] >>

-----------------------------------------------------------------------------
(* invoke(export_name, args) and the set-up of execute_function.           *)

Invoke ==
  /\ status \in {"idle", "returned", "trapped", "escaped"}
  /\ invokes < MaxInvokes
  /\ invokes' = invokes + 1
  /\ frames' = <<>>
  /\ \E name \in Names, n \in ArgCounts :
     \E args \in [1 .. n -> Args] :
       IF name \notin DOMAIN Exports \/ Exports[name].kind /= "func"
         THEN /\ status' = "trapped"
              /\ UNCHANGED <<fn, pc, stack, ctl, locals, mem, data, globals, tables, results, ub>>
       ELSE LET f == Exports[name].index IN
       IF f \notin DOMAIN Funcs THEN /\ status' = "trapped"
                                     /\ UNCHANGED <<fn, pc, stack, ctl, locals, mem, data, globals, tables, results, ub>>
       ELSE IF Funcs[f].host
         THEN \E r \in HostResults :
                \/ /\ status' = "returned" /\ results' = <<I32V(r)>> /\ fn' = f
                   /\ UNCHANGED <<pc, stack, ctl, locals, mem, data, globals, tables, ub>>
                \/ /\ status' = "trapped"
                   /\ UNCHANGED <<fn, pc, stack, ctl, locals, mem, data, globals, tables, results, ub>>
       ELSE IF Types[Funcs[f].type].params /= n
         THEN /\ status' = "trapped"
              /\ UNCHANGED <<fn, pc, stack, ctl, locals, mem, data, globals, tables, results, ub>>
       ELSE /\ status' = "running"
            /\ Activation(f, [k \in 1 .. n |-> I32V(args[k])])
            /\ UNCHANGED <<mem, data, globals, tables, results, ub>>

\* The loop reads past the body: "Reached end of code without function end".
FellOffEnd ==
  /\ Running /\ pc > Len(Body)
  /\ Trap

Op(o) == Running /\ pc <= Len(Body) /\ Instr.op = o

-----------------------------------------------------------------------------
(* Structured control: block, loop, if, else, end.                         *)

\* block / loop: parse the block type, analyze the body, push a frame whose
\* height is the operand stack size at entry.
BlockOrLoop ==
  /\ Op("block") \/ Op("loop")
  /\ LET info == AnalyzeBlock(Body, pc + 1) IN
     IF ~BlockTypeValid(Instr.bt) \/ ~info.ok THEN Escape
     ELSE /\ ctl' = Append(ctl, Frame(Instr.op, BlockResults(Instr.bt), pc + 1,
                                      info, Len(stack)))
          /\ Next1
          /\ UNCHANGED <<status, fn, stack, locals, mem, data, globals, tables, results, invokes, ub, frames>>

\* Mutant: the if frame's height taken before the condition is popped.
IfHeightBeforePop ==
  /\ Op("if")
  /\ LET info == AnalyzeBlock(Body, pc + 1) IN
     IF ~BlockTypeValid(Instr.bt) \/ ~info.ok THEN Escape
     ELSE WithI32(1,
       LET fr == Frame("if", BlockResults(Instr.bt), pc + 1, info, Len(stack)) IN
       /\ stack' = Popped(1)
       /\ IF Top(0).val /= 0 THEN /\ ctl' = Append(ctl, fr) /\ Next1
          ELSE IF info.else_body_pc /= 0
            THEN /\ ctl' = Append(ctl, [fr EXCEPT !.executing_else = TRUE])
                 /\ pc' = info.else_body_pc
            ELSE /\ ctl' = Append(ctl, fr) /\ pc' = info.end_pc
       /\ UNCHANGED <<status, fn, locals, mem, data, globals, tables, results, invokes, ub, frames>>)

\* if: as block, then pop the condition, take the frame height after the pop,
\* and on zero go to the else body if there is one, else to the `end`.
If ==
  /\ Op("if")
  /\ LET info == AnalyzeBlock(Body, pc + 1) IN
     IF ~BlockTypeValid(Instr.bt) \/ ~info.ok THEN Escape
     ELSE WithI32(1,
       LET cond == Top(0).val
           h    == Len(stack) - 1
           fr   == Frame("if", BlockResults(Instr.bt), pc + 1, info, h)
       IN /\ stack' = Popped(1)
          /\ IF cond /= 0 THEN /\ ctl' = Append(ctl, fr) /\ Next1
             ELSE IF info.else_body_pc /= 0
               THEN /\ ctl' = Append(ctl, [fr EXCEPT !.executing_else = TRUE])
                    /\ pc' = info.else_body_pc
               ELSE /\ ctl' = Append(ctl, fr) /\ pc' = info.end_pc
          /\ UNCHANGED <<status, fn, locals, mem, data, globals, tables, results, invokes, ub, frames>>)

\* else reached at the end of a then-branch: jump to the frame's end.
Else ==
  /\ Op("else")
  /\ IF ctl = <<>> \/ ctl[Len(ctl)].kind /= "if" THEN Trap
     ELSE /\ pc' = ctl[Len(ctl)].end_pc
          /\ UNCHANGED <<status, fn, stack, ctl, locals, mem, data, globals, tables, results, invokes, ub, frames>>

\* end: pop the frame, pop its results, resize the stack to the frame height
\* and push the results back; the function frame's end returns them.
End ==
  /\ Op("end")
  /\ IF ctl = <<>> THEN Trap
     ELSE LET fr == ctl[Len(ctl)] IN
       WithOperands(fr.results,
         LET vals == TopN(fr.results) IN
         IF fr.kind = "function" THEN Return(vals) /\ UNCHANGED ub
         ELSE /\ ctl' = SubSeq(ctl, 1, Len(ctl) - 1)
              /\ stack' = Resize(Popped(fr.results), fr.stack_height) \o vals
              /\ pc' = fr.end_next_pc
              /\ UNCHANGED <<status, fn, locals, mem, data, globals, tables, results, invokes, ub, frames>>)

-----------------------------------------------------------------------------
(* Branches: Impl::branch() and its callers.                               *)

\* branch(depth): pop the target's result arity, cut the control stack to
\* the target, resize the stack to the target's height, push the results;
\* a loop target is kept and re-entered at its start, any other target is
\* popped and left at end_next_pc.  When branch() reports the function
\* frame, the caller pops control_stack[0].signature's arity once more and
\* returns those values, but branch() has just emptied control_stack:
\* control_stack[0] is a read past the end of an empty vector.
Branch(depth, s) ==
  IF depth >= Len(ctl) THEN Trap
  ELSE LET t  == Len(ctl) - depth
           tf == ctl[t]
       IN IF Len(s) < tf.results THEN Trap
          ELSE LET vals  == SubSeq(s, Len(s) - tf.results + 1, Len(s))
                   after == Resize(SubSeq(s, 1, Len(s) - tf.results), tf.stack_height) \o vals
               IN CASE tf.kind = "loop" ->
                         /\ ctl' = SubSeq(ctl, 1, t)
                         /\ stack' = after
                         /\ pc' = tf.start_pc
                         /\ UNCHANGED <<status, fn, locals, mem, data, globals, tables, results, invokes, ub, frames>>
                    [] tf.kind = "function" ->
                         /\ ub' = TRUE
                         /\ \E o \in UBOutcomes :
                              IF o = "abort"
                                THEN /\ status' = "aborted"
                                     /\ UNCHANGED <<fn, pc, stack, ctl, locals, mem, data, globals, tables, results, invokes, frames>>
                                ELSE Return(vals)
                    [] OTHER ->
                         /\ ctl' = SubSeq(ctl, 1, t - 1)
                         /\ stack' = after
                         /\ pc' = tf.end_next_pc
                         /\ UNCHANGED <<status, fn, locals, mem, data, globals, tables, results, invokes, ub, frames>>

Br == Op("br") /\ Branch(Instr.depth, stack)

BrIf ==
  /\ Op("br_if")
  /\ WithI32(1,
       IF Top(0).val /= 0 THEN Branch(Instr.depth, Popped(1))
       ELSE /\ stack' = Popped(1) /\ Next1
            /\ UNCHANGED <<status, fn, ctl, locals, mem, data, globals, tables, results, invokes, ub, frames>>)

\* br_table: an index outside the target list selects the default.
BrTable ==
  /\ Op("br_table")
  /\ WithI32(1,
       LET i == Top(0).val IN
       Branch(IF i >= 0 /\ i < Len(Instr.targets) THEN Instr.targets[i + 1]
              ELSE Instr.default, Popped(1)))

\* return: a branch to the outermost frame.
ReturnOp == Op("return") /\ Branch(Len(ctl) - 1, stack)

Unreachable == Op("unreachable") /\ Trap

-----------------------------------------------------------------------------
(* Parametric, constant, local and numeric instructions.                   *)

Simple(newStack, newLocals) ==
  /\ stack' = newStack /\ locals' = newLocals /\ Next1
  /\ UNCHANGED <<status, fn, ctl, mem, data, globals, tables, results, invokes, ub, frames>>

Nop  == Op("nop") /\ Simple(stack, locals)
Drop == Op("drop") /\ WithOperands(1, Simple(Popped(1), locals))

\* select: pops the i32 condition, value2, value1 and pushes one with origin
\* Default.
Select ==
  /\ Op("select")
  /\ WithOperands(3,
       IF Top(0).type /= "i32" THEN Trap
       ELSE Simple(Append(Popped(3), SVal(ValueOf(IF Top(0).val /= 0 THEN Top(2) ELSE Top(1)),
                                          "default")), locals))

I32Const == Op("i32.const") /\ Simple(Append(stack, SV(Instr.val, "default")), locals)

LocalInRange == Instr.idx < Len(locals)

LocalGet ==
  /\ Op("local.get")
  /\ IF ~LocalInRange THEN Trap
     ELSE Simple(Append(stack, SVal(locals[Instr.idx + 1], "default")), locals)

\* Mutant: local.set pops the value but does not write the local.
LocalSetNoStore ==
  /\ Op("local.set")
  /\ IF ~LocalInRange THEN Trap ELSE WithOperands(1, Simple(Popped(1), locals))

LocalSet ==
  /\ Op("local.set")
  /\ IF ~LocalInRange THEN Trap
     ELSE WithOperands(1, Simple(Popped(1), [locals EXCEPT ![Instr.idx + 1] = ValueOf(Top(0))]))

\* local.tee pushes the value back with origin Default.
LocalTee ==
  /\ Op("local.tee")
  /\ IF ~LocalInRange THEN Trap
     ELSE WithOperands(1, Simple(Append(Popped(1), SVal(ValueOf(Top(0)), "default")),
                                 [locals EXCEPT ![Instr.idx + 1] = ValueOf(Top(0))]))


\* A value computed from the operands on top of the stack replaces them.
Unary(v)     == WithI32(1, Simple(Append(Popped(1), SV(v, "default")), locals))
Bool(b)      == IF b THEN 1 ELSE 0

I32Eqz == Op("i32.eqz") /\ Unary(Bool(Top(0).val = 0))

\* i32.eq .. i32.ge_u push 1 or 0.
I32Relop(o) == Op(o) /\ WithI32(2,
                 Simple(Append(Popped(2), SV(Bool(Rel(o, Top(1).val, Top(0).val)), "default")),
                        locals))

\* i32.clz, i32.ctz, i32.popcnt.
I32Unop(o) == Op(o) /\ Unary(UnResult(o, Top(0).val))

\* i32.extend8_s, i32.extend16_s.
I32Extend(o) == Op(o) /\ Unary(ExtResult(o, Top(0).val))

\* i32.add .. i32.rotr: rhs is popped first; division and remainder by zero
\* and div_s overflow throw Trap.
I32Binop(o) ==
  /\ Op(o)
  /\ WithI32(2,
       IF BinTraps(o, Top(1).val, Top(0).val) THEN Trap
       ELSE Simple(Append(Popped(2), SV(BinResult(o, Top(1).val, Top(0).val), "default")),
                   locals))

-----------------------------------------------------------------------------
(* Memory instructions on memory 0.                                        *)

\* checked_address: base + offset computed in 64 bits, in bounds when the
\* whole access fits in the memory.
InBounds(base, off, width) == AsU32(base) + off + width <= Len(mem)
EA(base, off) == AsU32(base) + off

\* A load of w bytes at the popped address + offset, pushed with origin
\* LoadResult.
LoadAs(w, signed) ==
  WithI32(1,
    IF ~InBounds(Top(0).val, Instr.offset, w) THEN Trap
    ELSE LET a == EA(Top(0).val, Instr.offset) IN
         Simple(Append(Popped(1), SV(Loaded([k \in 1 .. w |-> mem[a + k]], signed), "load")),
                locals))

I32Load    == Op("i32.load")     /\ LoadAs(4, TRUE)
I32Load8S  == Op("i32.load8_s")  /\ LoadAs(1, TRUE)
I32Load8U  == Op("i32.load8_u")  /\ LoadAs(1, FALSE)
I32Load16S == Op("i32.load16_s") /\ LoadAs(2, TRUE)
I32Load16U == Op("i32.load16_u") /\ LoadAs(2, FALSE)

\* should_use_second_value_for_store: the second entry from the top came
\* from a call or a load and the top one did not.
IsValueOrigin(o) == o \in {"call", "load"}
\* Mutant: the origin test applied to the two entries the other way round.
UseSecondAsValueSwapped(s) ==
  /\ Len(s) >= 2
  /\ IsValueOrigin(s[Len(s)].origin)
  /\ ~IsValueOrigin(s[Len(s) - 1].origin)
UseSecondAsValue(s) ==
  /\ Len(s) >= 2
  /\ IsValueOrigin(s[Len(s) - 1].origin)
  /\ ~IsValueOrigin(s[Len(s)].origin)

\* A store of the low w bytes: with the heuristic the top entry is the
\* address and the second the value, otherwise the top is the value and the
\* second the address.
StoreAs(w) ==
  WithI32(2,
    LET swap == UseSecondAsValue(stack)
        addr == IF swap THEN Top(0).val ELSE Top(1).val
        val  == IF swap THEN Top(1).val ELSE Top(0).val
    IN IF ~InBounds(addr, Instr.offset, w) THEN Trap
       ELSE LET a == EA(addr, Instr.offset) IN
            /\ mem' = [i \in 1 .. Len(mem) |->
                         IF i > a /\ i <= a + w THEN LEBytes(val, w)[i - a] ELSE mem[i]]
            /\ stack' = Popped(2) /\ Next1
            /\ UNCHANGED <<status, fn, ctl, locals, results, invokes, ub, frames, data, globals, tables>>)

I32Store   == Op("i32.store")   /\ StoreAs(4)
I32Store8  == Op("i32.store8")  /\ StoreAs(1)
I32Store16 == Op("i32.store16") /\ StoreAs(2)

MemorySize == Op("memory.size") /\ Simple(Append(stack, SV(Pages, "default")), locals)

\* memory.grow: a negative delta pushes -1; MemoryInstance::grow fails past
\* 2^32 - 1 pages or the declared maximum; otherwise data.resize appends
\* zero pages, which throws std::bad_alloc when the allocation fails, and
\* that exception is not a Trap.
MemoryGrow ==
  /\ Op("memory.grow")
  /\ WithI32(1,
       LET delta == Top(0).val
           new   == Pages + delta
           Push(v) == /\ stack' = Append(Popped(1), SV(v, "default")) /\ Next1
                      /\ UNCHANGED <<status, fn, ctl, locals, mem, data, globals, tables, results, invokes, ub, frames>>
       IN CASE delta < 0                     -> Push(-1)
            [] new > Modulus - 1             -> Push(-1)
            [] HasMax /\ new > MaxPages      -> Push(-1)
            [] new * PageSize > AllocLimit   -> Escape
            [] OTHER ->
                 /\ mem' = mem \o [k \in 1 .. delta * PageSize |-> 0]
                 /\ stack' = Append(Popped(1), SV(Pages, "default")) /\ Next1
                 /\ UNCHANGED <<status, fn, ctl, locals, results, invokes, ub, frames, data, globals, tables>>)

-----------------------------------------------------------------------------
(* Bulk memory (the 0xFC prefix).  The module has one memory, so a memory  *)
(* index other than 0 traps.  The three operands are popped (size first)   *)
(* and require_non_negative traps on a negative one.                       *)

NonNegative(vs) == \A k \in 1 .. Len(vs) : vs[k] >= 0

\* data_segments_[Instr.data]: immediates count from 0.
SegOK == Instr.data < Len(data)
Seg   == data[Instr.data + 1]

\* memory.init: copy size bytes of the segment from src to dest; a dropped
\* segment traps before the bounds are checked, whatever the size.
MemoryInit ==
  /\ Op("memory.init")
  /\ IF Instr.mem /= 0 \/ ~SegOK THEN Trap
     ELSE WithI32(3,
       LET n == Top(0).val  s == Top(1).val  d == Top(2).val IN
       IF ~NonNegative(<<n, s, d>>) \/ Seg.dropped
          \/ s + n > Len(Seg.bytes) \/ d + n > Len(mem) THEN Trap
       ELSE /\ mem' = [i \in 1 .. Len(mem) |->
                         IF d < i /\ i <= d + n THEN Seg.bytes[s + i - d] ELSE mem[i]]
               /\ stack' = Popped(3) /\ Next1
               /\ UNCHANGED <<status, fn, ctl, locals, results, invokes, ub, frames, data, globals, tables>>)

\* data.drop: marks the segment dropped (active or passive).
DataDrop ==
  /\ Op("data.drop")
  /\ IF ~SegOK THEN Trap
     ELSE /\ data' = [data EXCEPT ![Instr.data + 1].dropped = TRUE]
          /\ Next1
          /\ UNCHANGED <<status, fn, stack, ctl, locals, mem, results, invokes, ub, frames,
                         globals, tables>>

\* Mutant: memory.copy as a forward byte loop, which re-reads bytes it has
\* already overwritten when the destination overlaps above the source.
RECURSIVE ForwardCopy(_, _, _, _)
ForwardCopy(m, d, s, n) ==
  IF n = 0 THEN m
  ELSE ForwardCopy([m EXCEPT ![d + 1] = m[s + 1]], d + 1, s + 1, n - 1)
CopiedForward(m, d, s, n) == ForwardCopy(m, d, s, n)

\* std::memmove: the destination receives the source bytes as they were
\* before the copy, whatever the overlap.
Copied(m, d, s, n) == [i \in DOMAIN m |-> IF d < i /\ i <= d + n THEN m[s + i - d] ELSE m[i]]

MemoryCopy ==
  /\ Op("memory.copy")
  /\ IF Instr.dst /= 0 \/ Instr.src /= 0 THEN Trap
     ELSE WithI32(3,
       LET n == Top(0).val  s == Top(1).val  d == Top(2).val IN
       IF ~NonNegative(<<n, s, d>>) \/ s + n > Len(mem) \/ d + n > Len(mem) THEN Trap
       ELSE /\ mem' = Copied(mem, d, s, n)
            /\ stack' = Popped(3) /\ Next1
            /\ UNCHANGED <<status, fn, ctl, locals, results, invokes, ub, frames, data, globals, tables>>)

\* memory.fill: std::memset with the low byte of the value.
MemoryFill ==
  /\ Op("memory.fill")
  /\ IF Instr.mem /= 0 THEN Trap
     ELSE WithI32(3,
       LET n == Top(0).val  v == Top(1).val  d == Top(2).val IN
       IF ~NonNegative(<<n, d>>) \/ d + n > Len(mem) THEN Trap
       ELSE /\ mem' = [i \in 1 .. Len(mem) |->
                         IF d < i /\ i <= d + n THEN LEBytes(v, 1)[1] ELSE mem[i]]
            /\ stack' = Popped(3) /\ Next1
            /\ UNCHANGED <<status, fn, ctl, locals, results, invokes, ub, frames, data, globals, tables>>)

-----------------------------------------------------------------------------
(* Globals, tables and references.                                         *)

\* A step that pushes nothing new and changes one table (or global).
TablePut(t, elems, newStack) ==
  /\ tables' = [tables EXCEPT ![t + 1] = elems]
  /\ stack' = newStack /\ Next1
  /\ UNCHANGED <<status, fn, ctl, locals, mem, data, globals, results, invokes, ub, frames>>

GlobalGet ==
  /\ Op("global.get")
  /\ IF Instr.idx >= Len(globals) THEN Trap
     ELSE Simple(Append(stack, SVal(globals[Instr.idx + 1], "default")), locals)

\* global.set checks mutability, then stores whatever value it pops.
GlobalSet ==
  /\ Op("global.set")
  /\ IF Instr.idx >= Len(globals) \/ ~GlobalDefs[Instr.idx + 1].mutable THEN Trap
     ELSE WithOperands(1,
            /\ globals' = [globals EXCEPT ![Instr.idx + 1] = ValueOf(Top(0))]
            /\ stack' = Popped(1) /\ Next1
            /\ UNCHANGED <<status, fn, ctl, locals, mem, data, tables, results, invokes, ub,
                           frames>>)

TableOK  == Instr.table < Len(tables)
Elems    == tables[Instr.table + 1]
ElemType == TableDefs[Instr.table + 1].type

\* table.get: the element at the popped index, pushed with origin LoadResult.
TableGet ==
  /\ Op("table.get")
  /\ IF ~TableOK THEN Trap
     ELSE WithI32(1,
            IF Top(0).val < 0 \/ Top(0).val >= Len(Elems) THEN Trap
            ELSE Simple(Append(Popped(1), SVal(Elems[Top(0).val + 1], "load")), locals))

\* table.set: pop_reference of the table's type, then the i32 index.
TableSet ==
  /\ Op("table.set")
  /\ IF ~TableOK THEN Trap
     ELSE WithOperands(2,
            IF Top(0).type /= ElemType \/ Top(1).type /= "i32"
               \/ Top(1).val < 0 \/ Top(1).val >= Len(Elems) THEN Trap
            ELSE TablePut(Instr.table, [Elems EXCEPT ![Top(1).val + 1] = ValueOf(Top(0))],
                          Popped(2)))

\* table.size: the element count as int32_t, with origin LoadResult.
TableSize ==
  /\ Op("table.size")
  /\ IF ~TableOK THEN Trap ELSE Simple(Append(stack, SV(Len(Elems), "load")), locals)

\* table.grow: delta (non-negative) then a value of the table's type; -1 past
\* 2^32 - 1 elements, past the maximum, or when reserve() fails; otherwise
\* delta copies of the value are appended and the old size pushed.
TableGrow ==
  /\ Op("table.grow")
  /\ IF ~TableOK THEN Trap
     ELSE WithOperands(2,
       LET delta == Top(0).val
           new   == Len(Elems) + delta
           def   == TableDefs[Instr.table + 1]
           Fails == Simple(Append(Popped(2), SV(-1, "default")), locals)
       IN IF Top(0).type /= "i32" \/ delta < 0 \/ Top(1).type /= ElemType THEN Trap
          ELSE CASE new > Modulus - 1             -> Fails
                 [] def.hasmax /\ new > def.max   -> Fails
                 [] new > TableAllocLimit         -> Fails
                 [] OTHER -> TablePut(Instr.table,
                               Elems \o [k \in 1 .. delta |-> ValueOf(Top(1))],
                               Append(Popped(2), SV(Len(Elems), "default"))))

\* table.fill: count, value, offset; the range must lie in the table.
TableFill ==
  /\ Op("table.fill")
  /\ IF ~TableOK THEN Trap
     ELSE WithOperands(3,
       LET n == Top(0).val  o == Top(2).val IN
       IF Top(0).type /= "i32" \/ Top(1).type /= ElemType \/ Top(2).type /= "i32"
          \/ n < 0 \/ o < 0 \/ o + n > Len(Elems) THEN Trap
       ELSE TablePut(Instr.table,
                     [i \in DOMAIN Elems |-> IF o < i /\ i <= o + n THEN ValueOf(Top(1))
                                             ELSE Elems[i]],
                     Popped(3)))

\* table.copy: both tables of one element type and both ranges inside them;
\* within one table the source range is first copied to a temporary.
TableCopy ==
  /\ Op("table.copy")
  /\ IF Instr.dst >= Len(tables) \/ Instr.src >= Len(tables) THEN Trap
     ELSE WithI32(3,
       LET n == Top(0).val  s == Top(1).val  d == Top(2).val
           dst == tables[Instr.dst + 1]
           src == tables[Instr.src + 1]
       IN IF ~NonNegative(<<n, s, d>>)
             \/ TableDefs[Instr.dst + 1].type /= TableDefs[Instr.src + 1].type
             \/ s + n > Len(src) \/ d + n > Len(dst) THEN Trap
          ELSE TablePut(Instr.dst,
                        [i \in DOMAIN dst |-> IF d < i /\ i <= d + n THEN src[s + i - d]
                                              ELSE dst[i]],
                        Popped(3)))

\* ref.null: the heap type 0x70 (funcref) or 0x6F (externref).
RefNull ==
  /\ Op("ref.null")
  /\ IF Instr.t \notin RefTypes THEN Trap
     ELSE Simple(Append(stack, SVal(NullRef(Instr.t), "default")), locals)

\* ref.is_null keeps the origin of the reference it pops.
RefIsNull ==
  /\ Op("ref.is_null")
  /\ WithOperands(1,
       IF Top(0).type \notin RefTypes THEN Trap
       ELSE Simple(Append(Popped(1), SV(Bool(IsNullRef(Top(0))), Top(0).origin)), locals))

RefFunc ==
  /\ Op("ref.func")
  /\ IF Instr.func \notin DOMAIN Funcs THEN Trap
     ELSE Simple(Append(stack, SVal(FuncRefV(Instr.func), "default")), locals)

-----------------------------------------------------------------------------
(* Calls.                                                                  *)

\* The call of function f once the operands under it are s: the arguments
\* are popped from s (last parameter on top) and execute_function runs the
\* callee.  A host callback returns its results, pushed with origin
\* CallResult, or reports a trap.  A function with a body gets a new
\* activation (locals = arguments then zeros, an empty operand stack, the
\* function frame) on the native stack, which the caller's waits under;
\* past MaxCallDepth activations the native stack is exhausted and the
\* process dies.
CallFunc(f, s) ==
  LET np   == Types[Funcs[f].type].params
      nr   == Types[Funcs[f].type].results
      rest == SubSeq(s, 1, Len(s) - np)
  IN IF Len(s) < np THEN Trap
     ELSE IF Funcs[f].host
       THEN \/ Trap
            \/ \E r \in [1 .. nr -> HostResults] :
                 Simple(rest \o [k \in 1 .. nr |-> SV(r[k], "call")], locals)
     ELSE IF Len(frames) + 1 >= MaxCallDepth
       THEN /\ status' = "exhausted"
            /\ UNCHANGED <<fn, pc, stack, ctl, locals, mem, data, globals, tables, results,
                           invokes, ub, frames>>
     ELSE /\ frames' = Append(frames, [fn |-> fn, pc |-> pc + 1, stack |-> rest,
                                        ctl |-> ctl, locals |-> locals])
          /\ Activation(f, [k \in 1 .. np |-> ValueOf(s[Len(s) - np + k])])
          /\ UNCHANGED <<status, mem, data, globals, tables, results, invokes, ub>>

\* call: functions_.at(index) throws std::out_of_range for a missing index.
Call ==
  /\ Op("call")
  /\ IF Instr.func \notin DOMAIN Funcs THEN Escape ELSE CallFunc(Instr.func, stack)

\* call_indirect: the i32 entry index is popped; the table must hold
\* funcrefs, the entry must exist and be non-null, the type index must be
\* in range; functions_.at(func_index) throws std::out_of_range for an
\* entry naming a missing function; the callee's signature must equal the
\* type.
CallIndirect ==
  /\ Op("call_indirect")
  /\ IF ~TableOK THEN Trap
     ELSE WithI32(1,
       LET i == Top(0).val IN
       IF ElemType /= "funcref" \/ i < 0 \/ i >= Len(Elems) \/ IsNullRef(Elems[i + 1])
          \/ Instr.type \notin DOMAIN Types THEN Trap
       ELSE IF Elems[i + 1].val \notin DOMAIN Funcs THEN Escape
       ELSE IF Types[Instr.type] /= Types[Funcs[Elems[i + 1].val].type] THEN Trap
       ELSE CallFunc(Elems[i + 1].val, Popped(1)))

-----------------------------------------------------------------------------
(* Any other opcode: "Unsupported opcode encountered".                     *)
Known == {"block", "loop", "if", "else", "end", "br", "br_if", "br_table",
          "return", "unreachable", "nop", "drop", "select", "i32.const",
          "local.get", "local.set", "local.tee", "i32.eqz", "i32.load",
          "i32.load8_s", "i32.load8_u", "i32.load16_s", "i32.load16_u",
          "i32.store", "i32.store8", "i32.store16", "memory.size",
          "memory.grow", "call", "memory.init", "data.drop", "memory.copy",
          "memory.fill", "global.get", "global.set", "table.get", "table.set",
          "table.size", "table.grow", "table.fill", "table.copy", "ref.null",
          "ref.is_null", "ref.func", "call_indirect"}
         \cup RelOps \cup UnOps \cup ExtOps \cup BinOps
Unsupported == Running /\ pc <= Len(Body) /\ Instr.op \notin Known /\ Trap

-----------------------------------------------------------------------------
(* The state instantiate() leaves: memory 0 zeroed at its minimum size,    *)
(* then apply_data_segments copies each active segment, in order, to its   *)
(* offset (the segments of the model fit); prepare_data_segments keeps     *)
(* every segment, active or passive, with dropped = false.                 *)
RECURSIVE WithActiveSegments(_, _)
WithActiveSegments(m, i) ==
  IF i > Len(DataSegs) THEN m
  ELSE LET sg == DataSegs[i] IN
       WithActiveSegments(
         IF sg.passive THEN m
         ELSE [k \in DOMAIN m |-> IF sg.offset < k /\ k <= sg.offset + Len(sg.bytes)
                                  THEN sg.bytes[k - sg.offset] ELSE m[k]],
         i + 1)

Init ==
  /\ status = "idle"
  /\ fn = CHOOSE f \in DOMAIN Funcs : TRUE
  /\ pc = 1
  /\ stack = <<>>
  /\ ctl = <<>>
  /\ locals = <<>>
  /\ mem = WithActiveSegments([i \in 1 .. InitPages * PageSize |-> 0], 1)
  /\ results = <<>>
  /\ invokes = 0
  /\ ub = FALSE
  /\ frames = <<>>
  /\ data = [i \in DOMAIN DataSegs |->
               [bytes |-> DataSegs[i].bytes, passive |-> DataSegs[i].passive,
                dropped |-> FALSE]]
  /\ globals = [i \in DOMAIN GlobalDefs |-> GlobalDefs[i].init]
  /\ tables = [i \in DOMAIN TableDefs |-> TableDefs[i].elems]

Step ==
  \/ FellOffEnd \/ Unreachable \/ Unsupported
  \/ BlockOrLoop \/ If \/ Else \/ End
  \/ Br \/ BrIf \/ BrTable \/ ReturnOp
  \/ Nop \/ Drop \/ Select \/ I32Const
  \/ LocalGet \/ LocalSet \/ LocalTee
  \/ I32Eqz
  \/ \E o \in RelOps : I32Relop(o)
  \/ \E o \in UnOps : I32Unop(o)
  \/ \E o \in ExtOps : I32Extend(o)
  \/ \E o \in BinOps : I32Binop(o)
  \/ I32Load \/ I32Load8S \/ I32Load8U \/ I32Load16S \/ I32Load16U
  \/ I32Store \/ I32Store8 \/ I32Store16
  \/ MemorySize \/ MemoryGrow
  \/ MemoryInit \/ DataDrop \/ MemoryCopy \/ MemoryFill
  \/ GlobalGet \/ GlobalSet \/ TableGet \/ TableSet \/ TableSize \/ TableGrow
  \/ TableFill \/ TableCopy \/ RefNull \/ RefIsNull \/ RefFunc
  \/ Call \/ CallIndirect

Next == Invoke \/ Step

\* The interpreter is single threaded and its loop never blocks: while an
\* invocation runs, the next opcode is always executed.
Spec == Init /\ [][Next]_vars /\ WF_vars(Step)

-----------------------------------------------------------------------------
(* Properties.                                                             *)

Values == {I32V(n) : n \in I32} \cup {FuncRefV(f) : f \in DOMAIN Funcs}
          \cup {NullRef(t) : t \in RefTypes}
StackValues == {SVal(v, o) : v \in Values, o \in Origins}
FrameKinds == {"function", "block", "loop", "if"}

TypeOK ==
  /\ status \in {"idle", "running", "returned", "trapped", "escaped", "aborted", "exhausted"}
  /\ fn \in DOMAIN Funcs
  /\ pc \in Nat
  /\ stack \in Seq(StackValues)
  /\ \A i \in 1 .. Len(ctl) : /\ ctl[i].kind \in FrameKinds
                              /\ ctl[i].stack_height \in Nat
                              /\ ctl[i].below \in Seq(StackValues)
  /\ locals \in Seq(Values)
  /\ mem \in Seq(Bytes) /\ Len(mem) % PageSize = 0
  /\ results \in Seq(Values)
  /\ invokes \in 0 .. MaxInvokes
  /\ ub \in BOOLEAN
  /\ globals \in Seq(Values)
  /\ tables \in Seq(Seq(Values))
  /\ Len(frames) < MaxCallDepth
  /\ \A i \in DOMAIN data : data[i].dropped \in BOOLEAN /\ data[i].bytes \in Seq(Bytes)
  /\ \A i \in 1 .. Len(frames) : /\ frames[i].fn \in DOMAIN Funcs
                                 /\ frames[i].stack \in Seq(StackValues)
                                 /\ frames[i].locals \in Seq(Values)

(***************************************************************************)
(* Frame isolation: while a block, loop or if frame is on the control      *)
(* stack, the operand-stack entries under its entry height are still the   *)
(* ones that were there when it was entered (values and origins), whatever *)
(* its body and its branches have done since.  The end and branch code     *)
(* (pop_results, OperandStack::resize, push_results) is what keeps this.   *)
(***************************************************************************)
FrameIsolation ==
  Running =>
    \A i \in 1 .. Len(ctl) :
      /\ Len(stack) >= ctl[i].stack_height
      /\ SubSeq(stack, 1, ctl[i].stack_height) = ctl[i].below

(***************************************************************************)
(* Every invocation ends: returns, traps or leaves with an exception.  The *)
(* loop of execute_function runs without yielding (weak fairness on Step). *)
(***************************************************************************)
InvocationEnds == Running ~> ~Running

(***************************************************************************)
(* spec.md 4.4/7: every violation during invoke becomes a trap reported as *)
(* {trapped: true}; the invocation returns values or traps.                *)
(***************************************************************************)
InvokeReturnsOrTraps == status \in {"idle", "running", "returned", "trapped"}

(***************************************************************************)
(* spec.md 8: an invocation that returns yields as many values as the      *)
(* invoked function's type declares, whatever branches, returns and nested *)
(* calls it took: pop_results on end, branch() and the return path of      *)
(* execute_function hand back exactly the function frame's arity.          *)
(***************************************************************************)
ResultsMatchType == status = "returned" => Len(results) = Types[Funcs[fn].type].results

(***************************************************************************)
(* The engine never reads control_stack[0] from an empty control stack     *)
(* (undefined behaviour in Impl::execute_function after branch()).         *)
(***************************************************************************)
NoEmptyControlStackRead == ~ub

-----------------------------------------------------------------------------
(***************************************************************************)
(* Refinement of WasmSemantics.  Between invocations the abstract value    *)
(* and label stacks are empty.  A frame is the label whose height is its   *)
(* entry height less the block's parameters and whose branch arity is the  *)
(* loop's parameters for a loop, its results otherwise; a branch to it     *)
(* continues at start_pc for a loop, end_next_pc otherwise.                *)
(***************************************************************************)
FrameParams(b, fr) ==
  IF fr.kind = "function" \/ b[fr.start_pc - 1].bt \notin DOMAIN Types THEN 0
  ELSE Types[b[fr.start_pc - 1].bt].params

LabelOf(b, fr) ==
  [kind    |-> fr.kind,
   arity   |-> IF fr.kind = "loop" THEN FrameParams(b, fr) ELSE fr.results,
   results |-> fr.results,
   height  |-> fr.stack_height - FrameParams(b, fr),
   cont    |-> IF fr.kind = "loop" THEN fr.start_pc ELSE fr.end_next_pc]

ValsOf(s)       == [i \in 1 .. Len(s) |-> ValueOf(s[i])]
LabelsOf(f, cs) == [i \in 1 .. Len(cs) |-> LabelOf(Funcs[f].body, cs[i])]

Abs == INSTANCE WasmSemantics
         WITH vals    <- IF Running THEN ValsOf(stack) ELSE <<>>,
              labels  <- IF Running THEN LabelsOf(fn, ctl) ELSE <<>>,
              callers <- IF Running
                           THEN [i \in 1 .. Len(frames) |->
                                   [fn |-> frames[i].fn, pc |-> frames[i].pc,
                                    vals |-> ValsOf(frames[i].stack),
                                    labels |-> LabelsOf(frames[i].fn, frames[i].ctl),
                                    locals |-> frames[i].locals]]
                           ELSE <<>>,
              datas   <- [i \in DOMAIN data |->
                            IF data[i].dropped \/ ~data[i].passive THEN <<>> ELSE data[i].bytes]

(***************************************************************************)
(* The engine implements the WebAssembly semantics of its instructions:    *)
(* every step of invoke()/execute_function is a step of WasmSemantics (or  *)
(* leaves its state alone) on the mapped state, and the engine's fairness  *)
(* delivers the abstract progress.  This relates branch(), the end/else    *)
(* handling, analyze_block() and the store operand order to the label      *)
(* semantics over whole executions.                                        *)
(***************************************************************************)
ImplementsWasm == Abs!ASpec
=============================================================================

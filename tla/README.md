# TLA+ models of the WebAssembly interpreter

This directory holds TLA+ models of `src/src/interpreter.cpp` and of the module decoder (`ModuleParser`, kept in `src/projects/read_file.wat`, with `BinaryReader` in `src/include/wasm/module.hpp`), the TLC runs that check them, and `PROJECT.json`. `PROJECT.json` lists the components, runs, mutants, findings and hazards, and maps every modelled definition to the source lines it translates.

## The system

The interpreter (spec.md 2) is a pipeline:

- bytes → decoder (`ModuleParser::parse`) → module record → instantiator (`instantiate`) → runtime state (functions, memories, tables, globals, exports) → `invoke` → execution engine (`execute_function`) → values or a trap.
- The engine is a stack machine with three pieces of state:
  - an operand stack of `StackValue {value, origin}`, where the origin records whether a call, a load or anything else produced the value;
  - a stack of `ControlFrame`s (function, block, loop, if), each with the offsets of its start, its `end` and its `else` and the operand-stack height at entry;
  - the locals.
- `analyze_block` scans a body for the matching `end`/`else` each time a block is entered.
- `branch()` unwinds the control and operand stacks.
- Host functions are callbacks that return values or a trap. `invoke` turns a `Trap` into `{trapped: true}`.

Everything runs on one thread and the opcode loop never yields (spec.md 5). The interesting behaviours are therefore sequential:

- long sequences of structured control, ends and branches that must keep the stacks consistent;
- numeric and address edges;
- errors that must surface as traps.

## Modules

| Module | Models | Source |
|---|---|---|
| `WasmValues` | `wasm::Value` for i32, funcref and externref: constructors, `is_null_ref`, `zero_value` | part_003 (types.hpp) 12-159, interpreter.cpp 35-54 |
| `I32Ops` | every i32 comparison, unary, extend and binary operator as the C++ computes it (C++20 shifts, truncating `/` and `%`, `<bit>` functions, wrapping) | interpreter.cpp 2355-2614, 3091-3104, 3425-3558 |
| `I32Numerics` | the reference: WebAssembly's definitions of the same operators, on unsigned bit patterns | WebAssembly 2.0 numerics |
| `I64Ops` | every i64 comparison, unary, binary and extend operator, `i32.wrap_i64` and `i64.extend_i32_s/u`, on `Int64Width`-bit values with `I32Ops`'s helpers instantiated at that width | interpreter.cpp 1409-1417, 2425-2498, 2615-2766, 2937-2978, 3105-3124 |
| `FloatTrunc` | the float-to-integer conversions: the eight trapping helpers `trunc_f32_s` .. `trunc_f64_u_to_i64`, `trunc_sat_signed`/`trunc_sat_unsigned`, and the opcode cases 0xA8-0xAB, 0xAE-0xB1 and 0xFC 0x00-0x07 that push their results; plus the reference `WasmConversion` (WebAssembly 2.0 trunc and trunc_sat) | interpreter.cpp 134-293, 2943-3002, 3364-3419 |
| `Wasi` | the default host functions of `register_default_wasi_preview1`: `fd_write` (memory check, fd switch, iovec loop, nwritten store) as the set of outcomes the build can produce, `proc_exit`, and `make_host_key`; plus the reference `FdWriteSpec` from spec.md 4.5 | interpreter.cpp 920-1040 |
| `BlockAnalyzer` | `analyze_block` as the RECURSIVE operator `Scan`, plus a structural reference definition (`DepthBefore`, `MatchingEnd`, `ElsesOfBlock`) | interpreter.cpp 695-739 |
| `MCBlockAnalyzer` | every body of up to `MaxLen` instructions over block/loop/if/else/end/nop; the scan compared with the reference | — |
| `Decoder` | `BinaryReader`'s byte and LEB128 readers, `read_block_type`, and `ModuleParser`'s `read_limits`, `parse_constant_expression` and table, memory, element and data section parsers, as operators from bytes and a position to `Ok(value, next position)` or `Err(exception)`; plus the reference: WebAssembly 2.0's LEB128 values and block types, and an encoder of sections; and `analyze_block` at byte level with `skip_immediate` | module.hpp 173-277; interpreter.cpp 443-490, 529-739; read_file.wat 134-182, 260-412, 447-577 |
| `MCPure` | the pure checks in one model, one subject per initial state: every body of up to 5 instructions; every pair of `IntWidth` = 8-bit operands (`I32Ops` against `I32Numerics`); every LEB128 group of up to 4 bytes with 2-bit payloads (`Decoder` with `LebPayloadBits = 2`); every one- and two-byte block type; and every section of one or two tables, memories, data or element segments, encoded and parsed back (`Decoder` with 7-bit payloads); every `fd_write` call over three 20-byte memory images, no memory and an empty one (`Wasi`); every pair of 20 boundary i64 values at `Int64Width` = 16 (`I64Ops` against `I32Numerics` at that width); every byte-level body of up to three instructions from a scan alphabet (`Decoder!AnalyzeBytes` against the matching end); and every trunc/trunc_sat opcode on boundary operands (`FloatTrunc` against `WasmConversion`) | — |
| `Instantiator` | `load` and `instantiate()`: one step per iteration of each loop, in the code's order, with every `runtime_error` and `Trap` exit; the export lookup of `invoke`; and a declarative instance written from spec.md 4.3 (`FuncSpace`, `GlobalSpace`, `MemSpace`, `TableSpace`, `ExportSpace`, `Instantiable`) | interpreter.cpp 56-80, 321-326, 741-766, 793-827, 1042-1383, 1555-1558; module.hpp 12-138 |
| `MCInstantiator` | a host registry (a function, three memories, a table, a global) and twelve modules: one that instantiates and eleven that each fail at a different check | — |
| `WasmEngine` | `invoke` and `execute_function`: control, locals, i32 numerics, memory 0 with bulk memory, globals, tables, references, `call` and `call_indirect` | interpreter.cpp 27-441, 768-827, 911-918, 1305-1343, 1385-2354, 3131-3363, 3425-3560 |
| `WasmSemantics` | the abstract specification: WebAssembly 2.0 semantics for the same instructions, with spec.md's rule that every failure is a trap | WebAssembly 2.0, spec.md 4.4 and 7 |
| `MCWasmEngine` | a module of fifteen functions (host import, recursion, bulk memory, tables, two malformed bodies) with a data segment of each kind, two globals and a table | — |
| `MCWasmFindings` | one small valid program for each disagreement found | — |

### WasmEngine

One state of `WasmEngine` is the interpreter between two opcodes of an invocation. The variables are:

- `status`: idle, running, returned, trapped, escaped (an exception other than `Trap` left `invoke`), exhausted (the native stack overflowed), or aborted;
- `fn`, `pc`, `stack` (`StackValue` records: a typed value and its origin), `ctl` (control frames with the fields of `ControlFrame`, plus a ghost copy `below` of the stack under the entry height) and `locals`: the running activation of `execute_function`;
- `frames`: the activations suspended in the native recursion of `execute_function`, each with its own `fn`, `pc`, `stack`, `ctl` and `locals`;
- `mem` (bytes of memory 0), `data` (the `DataSegmentInstance`s: bytes, passive, dropped), `globals`, `tables`: the instance state;
- `results` and `invokes`;
- `ub`: a ghost flag set when the code reads `control_stack[0]` from an empty vector.

A body is a sequence of instruction records, each with its immediates as fields. Byte offsets become record indices, so "offset past an instruction" is its index + 1.

There is one action per opcode case of the `switch` in `execute_function`. Each action includes everything the case calls: `pop_i32`/`pop_value`/`pop_reference` (with their type traps), `require_non_negative`, `pop_results`, `OperandStack::resize`, `push_results`, `branch()`, `analyze_block`, `checked_address`, `MemoryInstance::grow`, the temporary buffer of `table.copy`, `reserve` in `table.grow`.

- Guards come from the case's checks, in the code's order. Each `throw Trap` is `Trap`. Each other exception is `Escape`.
- `Invoke` is `Impl::invoke` together with the set-up part of `execute_function`; `Init` is the instance after `prepare_data_segments` and `apply_data_segments`.
- `CallFunc` is the shared tail of `call` and `call_indirect`: a host callback returns values or a trap; a function with a body pushes the caller onto `frames` and starts an activation; past `MaxCallDepth` activations the process dies (status exhausted). `Return` resumes the caller and pushes the results with origin `CallResult`.

Values are i32 held in `IntWidth` bits, and a memory "byte" holds `IntWidth/4` bits. An i32 is therefore four bytes, little endian, as `read_value`/`write_value` produce on the x86 and ARM hosts. Table elements and globals are `WasmValues` records.

Any opcode outside the modelled set (the i64/f32/f64 ones, `table.init` and `elem.drop`, which the code also rejects with a trap) takes the "Unsupported opcode" trap.

The read of `control_stack[0]` after `branch()` has emptied the vector is undefined behaviour. It is modelled as a choice over the constant `UBOutcomes`:

- "stale": libstdc++ without assertions reads the old frame;
- "abort": `_GLIBCXX_ASSERTIONS`.

### WasmSemantics and the refinement

`WasmSemantics` is written from the WebAssembly semantics, not from the code:

- A label's branch arity is the loop's parameters for a loop and the results otherwise; its height is taken below its parameters; its continuation is the loop start or the position past the structurally matching `end` (`MatchingEnd`).
- A store takes the value from the top of the stack. Operands of the bulk and table instructions are unsigned.
- `memory.init`, `memory.copy`, `memory.fill` and `table.copy` are RECURSIVE element-by-element definitions (`InitBytes`, `CopyBytes`, `FillBytes`, `CopyElems`), the copies in the direction WebAssembly 2.0 prescribes for overlapping ranges.
- Active data segments are dropped once instantiation has applied them. `table.grow` may always fail with -1.
- Calls keep a stack of callers; `call_indirect` checks the entry, its nullness and the callee's type, and an entry naming a missing function escapes from `functions_.at` as `std::out_of_range`.

`WasmEngine` maps onto it (`Abs == INSTANCE WasmSemantics WITH ...`):

- the values of the stack (origins dropped) and each frame through `LabelOf`;
- the suspended activations onto the callers;
- each data segment onto its bytes, or the empty sequence when it is dropped or active;
- globals and tables by identity.

`ImplementsWasm == Abs!ASpec` is checked as a PROPERTY of the engine run.

### Decoder

- **Readers.** Each reader is an operator `Read...(b, pos)` whose result is `Ok(v, next)` or `Err(e)`, `e` the exception's message (`out_of_range` when `ensure_available` fails). `Then(r, f)` passes an `Ok` on and lets an `Err` leave, as the exception does. Loops are RECURSIVE operators (`LebU`, `LebS`, `BlockIndex`, `Vec`).
- **LEB128 at a smaller scale.** The payload width is the constant `LebPayloadBits`: the readers are written with `2^P` where the code has `0x7F`, `0x80` and `0x40`. With `P = 2` and 5-bit integers every byte group up to one byte past the longest valid one is enumerated (the last-byte overflow and sign-extension cases included); the section checks use `P = 7`.
- **Sections.** `ParseSection(kind, payload)` is the count and the loop of `parse_table_section`, `parse_memory_section`, `parse_element_section` and `parse_data_section`; an entry's result is the sequence of what it appends (an element segment that is passive or declarative appends nothing). A constant expression is `[kind, value, index]` with the value `[type, bits]`.
- **Byte-level scan.** `AnalyzeBytes(b, bodyStart)` is `analyze_block` on the code bytes: `ScanBytes` reads an opcode, counts block/loop/if (after `ReadBlockType`), records an else at depth 1 and returns at the end that closes depth 1, and otherwise calls `SkipImmediate`. `ImmShape(op)` is `skip_immediate`'s switch as the list of reads each opcode makes (a block type, one or two u32s, a br_table vector, an i32/i64 LEB, 4 or 8 raw bytes, a u7, or a 0xFC sub-opcode whose reads `FcShape` gives); `SkipOne` performs one read with the real readers, so a truncated immediate throws as the code does.
- **Reference.** `EncSection` encodes tables, memories, element segments (modes 0-3, function indices) and data segments (modes 0-2) as WebAssembly 2.0 does, and `DecodedSection` is what the module must keep of them.

### FloatTrunc

- **Values.** A float operand is `Fin(v)` (the value `v / 2^ScaleBits`), `NaN` or `Inf(s)`. `Trunc` is `std::trunc`; `RoundTo(n, bits)` is the conversion of an integer limit to a floating type with `bits` significant bits, round to nearest, ties to even. `ToDouble` is `static_cast<double>` (the i32 helpers) and `ToLongDouble` is `static_cast<long double>` (the i64 helpers and the trunc_sat templates).
- **Helpers.** `TruncS`/`TruncU` are the helpers' bodies: NaN traps, a truncation below the converted minimum (or below 0) or above the converted maximum traps, and otherwise the value is cast. An out-of-range `static_cast` is undefined behaviour, so `Cast` gives every value of the type. The trunc_sat templates compare with `<=` and `>=`. `Conversion(o, x)` is the opcode case, with the `static_cast<int32_t>`/`<int64_t>` of unsigned results (`Pushed`).
- **Precision in proportion.** i32 is `IntWidth` = 8 bits and i64 `Int64Width` = 16. Float, double and long double have `F32Bits` = 5, `F64Bits` = 11 and `LongDoubleBits` = 16 significant bits. As on x87 (24, 53 and 64 against 32 and 64), a float cannot hold INT32_MAX, a double can, a double cannot hold INT64_MAX, and the x87 long double can.

### Wasi and I64Ops

- **fd_write.** `FdWrite(memories, fd, iovs, iovsLen, nwritten)` is the whole lambda: the trap when memory 0's `data()` is null, the `switch (fd)` with its BADF path (nwritten zeroed when it fits), the iovec loop `WriteIovecs` (each entry bounds-checked, then its buffer appended to the stream, the first out-of-bounds entry or buffer returning FAULT with the earlier bytes already written), and the nwritten check and store. Memory is a byte sequence and the i32 arguments stay signed: a negative one is, as `uint32_t`, past any modelled memory. `data()` of an empty vector may or may not be null, so a zero-byte memory yields both outcomes.
- **i64.** `I64Ops` takes `I32Ops` twice, as `L` at `Int64Width` (int64_t/uint64_t) and `S` at `IntWidth` (int32_t/uint32_t). The check compares every operator with `I32Numerics` instantiated at `Int64Width` through a name map. `I32Ops`'s rotations and `I32Numerics`'s multiplication are written so that no intermediate product reaches 2^31, TLC's integer limit, at width 16.

### Instantiator

- **State.** `module_`, `functions`, `globals`, `memories`, `tables`, `datas` and `exportTable` are the members of `Interpreter::Impl` of the same names. `phase` and `at` say which loop of `instantiate()` is running and at which item. `outcome` records how the last `load` ended, and `called` records the last `invoke`'s lookup.
- **Actions.**
  - `Load` is `load`: it sets `module_` and clears the runtime state. `export_table_` is left alone, as the code does.
  - Each loop iteration is one action: `ResolveImport` dispatches to the four resolvers, then come `InstantiateFunction/Global/Memory/Table`, `ApplyDataSegment` and `ApplyElementSegment`. `LoopDone` moves on to the next step.
  - `PrepareDataSegments`, `BuildExportTable` and `RunStart` are single steps.
  - A failing check is `Fail("error")` (a `std::runtime_error`) or `Fail("trap")` (a segment out of bounds). Either one stops `load` and leaves the state as far as it was built.
- **Start function.** Its body is not executed here (WasmEngine does that). A valid start index returns or traps, nondeterministically; an index past `functions_` traps.
- **Reference.** The reference definitions build the same instance in one piece from spec.md 4.3: imports before locals in every index space, each active segment's contents with the last covering segment winning, and the first export of a name.

## Runs

| Run | cfg | Expect | Shows |
|---|---|---|---|
| pure_algorithms | MCPure.cfg | pass | AnalyzerAgrees (`analyze_block` finds the matching end exactly when one exists, and an else exactly when the block has one); OpsAgree (every i32 operator traps exactly when WebAssembly does and otherwise computes its value, on all 65 536 8-bit operand pairs); LebAgrees (every valid LEB128 group is read as its value, stopping after it); BlockTypeAgrees (the empty and numeric block types and every type index); SectionsDecode (every table, memory and data section of one or two items of each form decodes to what it declares and is consumed); FdWriteAgrees (fd_write returns the errno, memory and output spec.md 4.5 states, the output compared except on FAULT); I64OpsAgree (every i64 operator and conversion agrees with WebAssembly); ScanAgrees (on bytes, with every opcode's immediates skipped, `analyze_block` returns the end that closes the block exactly when there is one, and an else of the block); TruncAgrees (each trunc traps, and each trunc_sat saturates, exactly where WebAssembly does, on the x87 build) (133 282 states) |
| elem_section | MCPure_elem_section.cfg | violation | an element segment of mode 0 (table 0, no elem_kind byte) with one function: its count 1 is read as elem_kind and throws `Unsupported element kind`; with no functions the count is swallowed |
| engine | MCWasmEngine.cfg | pass | TypeOK; FrameIsolation (no frame disturbs the stack under its entry height); ResultsMatchType (a returning invocation yields its type's result count); InvocationEnds; ImplementsWasm (68 909 states) |
| loop_result_branch | MCWasmFindings_loop_result.cfg | violation | `br_if 0` to a `loop (result i32)` consumes the value below the loop |
| block_params | MCWasmFindings_block_params.cfg | violation | a block with a parameter computes `10 - (5 + 1)` as -6 |
| store_order | MCWasmFindings_store_order.cfg | violation | the store heuristic swaps the operands of a valid store whose address is a loaded value |
| early_return | MCWasmFindings_early_return.cfg | violation | `return` reads `control_stack[0]` from an empty vector |
| escape | MCWasmFindings_escape.cfg | violation | a call of a missing function index (or a failed memory allocation) escapes `invoke` as an exception, not a trap |
| active_segment_init | MCWasmFindings_active_init.cfg | violation | `memory.init` of an active segment copies it again instead of trapping |
| table_grow | MCWasmFindings_table_grow.cfg | violation | `table.grow` by -1 (2^32-1 unsigned) traps instead of pushing -1 |
| instantiator | MCInstantiator.cfg | pass | TypeOK; LoadOutcome (load succeeds exactly for the modules spec.md 4.3 admits); LoadedIsInstance (a successful load leaves exactly the declarative instance); TrapKeepsAppliedSegments (a load that traps on a segment out of bounds leaves complete functions and globals, every active segment before the failing one in memory, and no byte of the failing segment, of a later one or of any element segment) (6 284 states) |
| stale_exports | MCInstantiator_stale_exports.cfg | violation | after a good load, a load that traps at a data segment keeps the old `export_table_`: `invoke("run")` runs a function the new module does not export as "run" |

Each property of a passing run has a mutant in `PROJECT.json`, i.e. a plausible bug in the mapped code that TLC finds:

- a division rounded toward minus infinity;
- a signed LEB128 sign-extended at the shift before the last byte;
- a block type index that keeps the first byte's continuation bit;
- limits whose maximum is read on flag bit 1 instead of bit 0;
- the else recorded at any depth;
- the loaded word read as unsigned;
- the if frame's height taken before the condition is popped;
- `local.set` not writing the local;
- a return that hands back the whole operand stack;
- the store heuristic's origin test reversed;
- a new table filled with funcref nulls whatever its type;
- a segment copy one value short;
- a host memory not checked against the import's maximum;
- a data segment copied up to the end of memory before its bounds check throws;
- an iovec buffer ending exactly at the end of memory taken as a fault;
- the i64 `_u` comparisons made on the signed operands;
- a memarg read without its offset (a store's offset byte 0x0B is then taken as the block's end);
- a long double with only a double's precision, as MSVC builds it (INT64_MAX rounds up to 2^63, so `i64.trunc_f32_s` of 2^63 reaches an undefined cast instead of trapping).

## Bounds and why they suffice

- **Values.** `IntWidth = 8`, so i32 wraps at 2^8 and addresses are 0..255. The arguments are 0, 1 and -1. Between them they exercise:
  - a negative `br_table` index, which must select the default;
  - an address with all bits set, which must trap;
  - a negative bulk-memory or table operand, which the code traps on;
  - a loaded word with the top bit set, which must come back negative;
  - a loop that counts down through the wrap (255 iterations).
- **Memory.** `PageSize = 4` bytes, one initial page, maximum 2 pages. This gives memory accesses in bounds, straddling the end, and after a grow. One active segment (2 bytes at 0) and one passive segment (3 bytes) let `memory.init` succeed, run past the end, and hit a dropped segment; `memory.copy` is run with overlap in both directions.
- **Tables and globals.** One funcref table of 2 elements, maximum 3, with `TableAllocLimit = 4`: one `table.grow` succeeds and the next fails on the maximum. `call_indirect` reaches a live entry and a null one; a negative index traps at the `table.get` before it. One mutable and one immutable global.
- **Allocation.** `AllocLimit` stands for the size at which `data.resize` fails; the escape run sets it below two pages.
- **Calls.** `MaxCallDepth = 3`: a recursive function nests two activations for argument 1 and exhausts the native stack for -1.
- **Invocations.** `MaxInvokes = 2`, so a second invocation starts from the state the first one left (memory, data segments, globals, tables), including after a trap.
- **Programs.** The programs in `MCWasmEngine` cover every control path of the modelled opcodes: if with and without else; br_if taken and not; br_table to a block, to the function, and by default; return; a host call that returns or traps; a trap at every bounds check; a body without its end; an opcode outside the subset. Every action fires in the engine run.
- **Block analyzer.** It is checked on all bodies of up to 5 instructions. Those bodies include every nesting of two blocks with elses.
- **Decoder.** LEB128 groups are scaled to 2-bit payloads and 5-bit integers, so every group of up to 4 bytes (one past the longest valid one) is checked, including the final byte at the width. Block types: every byte and every two-byte type index. Sections: constant expressions of all seven opcodes (one- and two-byte immediates, a negative one, f32/f64 raw bytes), limits with and without a maximum and with two-byte LEB128 values, data and element segments of every mode with 0, 1 and 2 entries, one or two per section. Counts above 127 need a second LEB128 byte and are not generated; the parsers read counts with the same `ReadVarUint32` the LEB check covers.
- **fd_write.** The three memory images hold two iovecs at 0 and 8: both in bounds, the second ending exactly at the end of memory or one byte past it, and two empty buffers at the end. With `iovs` in {0, 8, 16, -8}, `iovs_len` in {0 .. 3, -1} and `nwritten` in {0, 16, 17, -4}, every exit is reached: BADF with and without the zeroing store, a fault at the array, at a buffer after earlier output, and at nwritten, and success with and without output.
- **i64.** `Int64Width = 16` keeps every product TLC computes below 2^31 and gives the i64 operators a width distinct from i32's 8, so wrap and extend are tested. The 20 samples are 0-3, -1, -2, the shift counts 15-17 around the width, the byte boundaries 127, 128, -129, 255, 256, -256, a mixed pattern 4660, and the extremes MinI64, MinI64 + 1, MaxI64 and MaxI64 - 1.
- **Byte-level scan.** The alphabet holds block, loop and if (one with a type index byte 0x40), else, end, and one instruction of every immediate form whose immediate contains 0x0B, 0x05 or 0x02: an i32.const, f32/f64 consts, br, br_table, call_indirect, a load and a store with offset 11, ref.null, ref.func, memory.init, elem.drop, a trunc_sat and a typed select. Every sequence of up to three of them, followed by an end, is checked, so the block-closing end is sometimes missing, sometimes nested and sometimes hidden in an immediate.
- **Truncation.** `ScaleBits = 4` gives operands in sixteenths, so values just under, at and over each whole number are represented. The samples are ±(2^L + d) for L in {IntWidth-1, IntWidth, Int64Width-1, Int64Width}, with d the operand type's spacing below 2^L, 0, or its spacing above it. They also include 0, ±0.5, ±1 and ±1.5, NaN and both infinities, and f32 operands are rounded to `F32Bits`. Every limit of every helper is therefore met from both sides and exactly.
- **Instantiator.**
  - `PageSize = 2`, `IntWidth = 8` and `MaxLoads = 2`. Two loads are the fewest for which the state a failed load leaves behind can be observed, and any module may follow any other.
  - The successful module imports one of each kind. Its two data segments overlap, one at a constant offset and one at a `global.get` offset. A global is initialised from an imported one, and an element segment's offset reads that local global. The module also has a passive segment, an empty segment into an externref table, a duplicate export name and a start function.
  - Each of the failing modules reaches a different exit: a signature mismatch, host bytes past the maximum, a missing import, a bad type index, a forward `global.get`, a missing memory, a negative offset (255 unsigned), an element segment past its table, functions into an externref table, and (`ModL`) a second data segment running one byte past the end after the first was copied, with an element segment behind it. There is also a start index with no function behind it.

## Fairness

`Spec` has weak fairness on `Step`. In `Instantiator`, weak fairness is on `LoadStep`, because `load` runs `instantiate()` to its end on the caller's thread. No liveness property is checked there: every loop of `instantiate()` walks a finite vector and advances or throws, so that a load ends holds by construction. `execute_function` runs its loop without yielding (spec.md 5), so while an invocation is running the next opcode is always executed. Nothing is assumed about the embedder: `Invoke` has no fairness, and `CHECK_DEADLOCK FALSE` reflects that the embedder may stop calling `invoke`.

## Not modelled (yet)

- **The rest of the decoder.** The header, the section framing (`read_section`), the type, import, function, global, export, start and code sections and `read_name` are not modelled. They copy fields with the readers that are modelled, and the only decisions they make (an unknown section id, an import kind, the function and code counts) are single checks. The check that a section consumes its payload is absent from the code; `PROJECT.json` lists it as a hazard.
- **The decoder's link to the instantiator.** `Instantiator` starts from module records written in `MCInstantiator`, not from decoded bytes.
- **analyze_block's else.** It records the last else at depth 1 where spec.md 4.2 says the first. Only malformed code (two elses in one `if`) tells them apart; `AnalyzerAgrees` checks that the recorded else is one of the block's.
- **The instantiator's link to execution.** `Instantiator` and `WasmEngine` are separate models. The engine starts from the instance its MC module describes, and the instantiator's start function and invoked functions are not executed. Host registration happens before loads; the registry is a constant.
- **f32/f64 arithmetic and the int-to-float conversions.** add, sub, mul, div, sqrt, min/max, nearest, copysign, the convert and demote/promote opcodes are IEEE-754 roundings of arbitrary operations, which a scaled stand-in would not compute as the code does. The float-to-integer conversions, where the code's own decisions (the limit comparisons and the casts) lie, are modelled in `FloatTrunc`.
- **Memories other than memory 0, imported tables and globals, externref handles from the host.**
- **WASI inside execution and the CLI runner.** `fd_write` and `proc_exit` are checked as operators; in `WasmEngine` a host call is modelled only by what it returns. The registries are maps that `register_host_*` overwrite and `Instantiator` reads as constants. The CLI runner (`examples/run_wat_module.cpp`) reads a file, loads it, invokes `_start` and maps a trap to `EXIT_FAILURE`. That includes `proc_exit(0)`, which is reported as a trap. The runner and its extended WASI host (part_002) are file and argument I/O.
- **`module_loader.hpp`.** It declares `parse_module` and holds build documentation; the decoder it declares is `Decoder`'s.

`PROJECT.json` lists the hazards these parts carry. Those with no property yet have a note saying why.

------------------------------- MODULE MCPure -------------------------------
(***************************************************************************)
(* The interpreter's pure algorithms against their reference definitions,  *)
(* in one model: analyze_block() over every body of at most MaxLen         *)
(* structured instructions (MCBlockAnalyzer), and the i32 operators as     *)
(* execute_function computes them (I32Ops) against the WebAssembly         *)
(* definitions (I32Numerics) over every pair of IntWidth-bit operands.     *)
(* And the decoder's LEB128 readers over every byte group of at most four  *)
(* bytes, scaled to LebPayload bits per byte and LebBits-bit integers, and *)
(* read_block_type over every one- and two-byte input, against the        *)
(* WebAssembly binary format (Decoder).  An initial state is one subject:  *)
(* a body, an operand pair, or an input; nothing changes after it.         *)
(***************************************************************************)
EXTENDS MCBlockAnalyzer, Integers, TLC

CONSTANTS IntWidth,
          Int64Width,  \* the i64 width (64 in the code)
          LebPayload,  \* payload bits per LEB128 byte (7 in the code)
          LebBits,     \* the integer width and max_bits (32 in the code)
          F32Bits, F64Bits, LongDoubleBits,  \* significand bits (24, 53, 64)
          ScaleBits    \* fraction bits of the modelled floating values

Code == INSTANCE I32Ops
Wasm == INSTANCE I32Numerics
Leb  == INSTANCE Decoder WITH LebPayloadBits <- LebPayload
Dec  == INSTANCE Decoder WITH LebPayloadBits <- 7

SX == INSTANCE SequencesExt
Host == INSTANCE Wasi
Code64 == INSTANCE I64Ops
Wasm64 == INSTANCE I32Numerics WITH IntWidth <- Int64Width
Tr == INSTANCE FloatTrunc

VARIABLES lhs, rhs, input

pureVars == <<body, lhs, rhs, input>>

NoInput == [kind |-> "none", bytes |-> << >>]
OneBody == <<[op |-> "block"], [op |-> "end"]>>
\* Byte groups of at most ceil(LebBits / LebPayload) + 1 bytes, so that
\* the longest valid group and one byte past it occur.
LebInputs == {[kind |-> "leb", bytes |-> b] :
                b \in SX!BoundedSeq(0 .. 2^(LebPayload + 1) - 1, (LebBits + LebPayload - 1) \div LebPayload + 1)}
\* Every single byte, and every continuation byte followed by any byte.
BlockTypeInputs == {[kind |-> "blocktype", bytes |-> <<x>>] : x \in 0 .. 255}
                   \cup {[kind |-> "blocktype", bytes |-> <<x, y>>] : x \in 128 .. 255, y \in 0 .. 255}

\* Section contents: constant expressions of every kind (one- and
\* two-byte LEB128 immediates, a negative one), limits with and without a
\* maximum, and segments of every encoding mode with 0, 1 and 2 entries.
E(k, t, bits, i) == Dec!Expr(k, Dec!Val(t, bits), i)
Exprs  == {E("i32.const", "i32", <<0>>, 0), E("i32.const", "i32", <<-1>>, 0),
           E("i32.const", "i32", <<64>>, 0), E("i64.const", "i64", <<-200>>, 0),
           E("f32.const", "f32", <<0, 0, 128, 63>>, 0),
           E("f64.const", "f64", <<0, 0, 0, 0, 0, 0, 240, 63>>, 0),
           E("global.get", "i32", <<0>>, 1), E("ref.null", "funcref", << >>, 0),
           E("ref.null", "externref", << >>, 0), E("ref.func", "funcref", <<130>>, 130)}
Offsets == {E("i32.const", "i32", <<-1>>, 0), E("global.get", "i32", <<0>>, 1)}
Limits == {[min |-> 0, max |-> << >>], [min |-> 1, max |-> <<2>>], [min |-> 200, max |-> <<300>>]}
Tables == [elem : {"funcref", "externref"}, limits : Limits]
Elems  == [mode : {0, 1, 2, 3}, table : {1}, offset : Offsets, funcs : {<< >>, <<0>>, <<3, 200>>}]
Datas  == [mode : {0, 1, 2}, mem : {1}, offset : Exprs, bytes : {<< >>, <<7>>, <<1, 2>>}]
\* A section of one or two items of a kind.
SectionInputs(kind, S) ==
  {[kind |-> "section", sec |-> kind, items |-> its] : its \in SX!BoundedSeq(S, 2) \ {<< >>}}

\* fd_write over a 20-byte memory 0 holding two iovecs at 0 and 8 and four
\* data bytes at 16: both buffers inside, the second one byte past the end,
\* or both empty with the second at the very end; and a module whose
\* memory has no bytes, and one with no memory.
Iovec(ptr, len) == <<ptr, 0, 0, 0, len, 0, 0, 0>>
Text == <<72, 105, 33, 10>>
MemoryImages == {Iovec(16, 2) \o Iovec(18, 2) \o Text, Iovec(16, 2) \o Iovec(19, 2) \o Text,
                 Iovec(16, 0) \o Iovec(20, 0) \o Text}
FdWriteInputs ==
  [kind : {"fd_write"}, memories : {<<m>> : m \in MemoryImages} \cup {<< >>, << << >> >>},
   fd : {1, 2, 3}, iovs : {0, 8, 16, -8}, iovsLen : {0, 1, 2, 3, -1}, nwritten : {0, 16, 17, -4}]

\* The WebAssembly definition of each i64 operator is that of its i32
\* namesake at the i64 width.
As32 == ("i64.eq" :> "i32.eq") @@ ("i64.ne" :> "i32.ne") @@ ("i64.lt_s" :> "i32.lt_s")
         @@ ("i64.lt_u" :> "i32.lt_u") @@ ("i64.gt_s" :> "i32.gt_s") @@ ("i64.gt_u" :> "i32.gt_u")
         @@ ("i64.le_s" :> "i32.le_s") @@ ("i64.le_u" :> "i32.le_u") @@ ("i64.ge_s" :> "i32.ge_s")
         @@ ("i64.ge_u" :> "i32.ge_u") @@ ("i64.clz" :> "i32.clz") @@ ("i64.ctz" :> "i32.ctz")
         @@ ("i64.popcnt" :> "i32.popcnt") @@ ("i64.add" :> "i32.add") @@ ("i64.sub" :> "i32.sub")
         @@ ("i64.mul" :> "i32.mul") @@ ("i64.div_s" :> "i32.div_s") @@ ("i64.div_u" :> "i32.div_u")
         @@ ("i64.rem_s" :> "i32.rem_s") @@ ("i64.rem_u" :> "i32.rem_u") @@ ("i64.and" :> "i32.and")
         @@ ("i64.or" :> "i32.or") @@ ("i64.xor" :> "i32.xor") @@ ("i64.shl" :> "i32.shl")
         @@ ("i64.shr_s" :> "i32.shr_s") @@ ("i64.shr_u" :> "i32.shr_u") @@ ("i64.rotl" :> "i32.rotl")
         @@ ("i64.rotr" :> "i32.rotr")
\* i64 operands: zero, small values, shift counts around the width, byte
\* and sign boundaries, and the extremes (MinI64 / -1 for div_s and rem_s).
I64Samples == LET m == Code64!MinI64 IN
  {0, 1, 2, 3, -1, -2, 15, 16, 17, 127, 128, -129, 255, 256, -256, 4660,
   m, m + 1, -m - 1, -m - 2}
I64Inputs == [kind : {"i64"}, a : I64Samples, b : I64Samples]

\* Instructions for the byte-level scan, as their encodings: immediates
\* holding the bytes of end (0x0B), else (0x05) and block (0x02), one- and
\* two-byte LEB128 groups, a type-index block type equal to 0x0B, the 0xFC
\* forms with two, one and no immediates, and a typed select.
Ins(k, bytes) == [kind |-> k, bytes |-> bytes]
EndIns == Ins("end", <<11>>)
ScanAlphabet ==
  {Ins("open", <<2, 64>>), Ins("open", <<3, 127>>), Ins("open", <<4, 11>>),
   Ins("else", <<5>>), EndIns,
   Ins("plain", <<65, 139, 11>>),                    \* i32.const 1419
   Ins("plain", <<66, 5>>),                          \* i64.const 5
   Ins("plain", <<67, 11, 5, 2, 11>>),               \* f32.const
   Ins("plain", <<68, 11, 0, 0, 0, 0, 0, 5, 2>>),    \* f64.const
   Ins("plain", <<12, 11>>),                         \* br 11
   Ins("plain", <<14, 2, 11, 5, 2>>),                \* br_table 11 5 2
   Ins("plain", <<17, 11, 0>>),                      \* call_indirect 11 0
   Ins("plain", <<40, 2, 11>>),                      \* i32.load offset=11
   Ins("plain", <<62, 0, 5>>),                       \* i64.store32 offset=5
   Ins("plain", <<208, 112>>), Ins("plain", <<210, 11>>),
   Ins("plain", <<252, 8, 11, 0>>),                  \* memory.init 11
   Ins("plain", <<252, 13, 5>>),                     \* elem.drop 5
   Ins("plain", <<252, 2>>),                         \* i32.trunc_sat_f64_s
   Ins("plain", <<28, 1, 127>>),                     \* select (result i32)
   Ins("plain", <<106>>)}                            \* i32.add
\* Floating operands of p significant bits, scaled by 2^ScaleBits: at each
\* limit 2^L of i32 and i64 (signed and unsigned, both signs) the value,
\* the nearest one below and the nearest one above; zero, halves and
\* ones around it; NaN and the infinities.
Pow(e) == 2 ^ (e + ScaleBits)
FloatSamples(p) ==
  UNION {{Tr!Fin(s * (Pow(L) + d)) : s \in {1, -1}, d \in {-Pow(L - p), 0, Pow(L + 1 - p)}} :
           L \in {IntWidth - 1, IntWidth, Int64Width - 1, Int64Width}}
  \cup {Tr!Fin(s * v) : s \in {1, -1}, v \in {0, Pow(-1), Pow(0), Pow(0) + Pow(-1)}}
  \cup {Tr!NaN, Tr!Inf(1), Tr!Inf(-1)}
FromF32 == {"i32.trunc_f32_s", "i32.trunc_f32_u", "i64.trunc_f32_s", "i64.trunc_f32_u",
            "i32.trunc_sat_f32_s", "i32.trunc_sat_f32_u", "i64.trunc_sat_f32_s",
            "i64.trunc_sat_f32_u"}
TruncInputs ==
  UNION {{[kind |-> "trunc", op |-> o, x |-> x] :
            x \in FloatSamples(IF o \in FromF32 THEN F32Bits ELSE F64Bits)} :
         o \in Tr!TruncOps \cup Tr!SatOps}

\* A body after a block's type: up to three instructions, then an end.
ScanInputs == [kind : {"scan"}, items : SX!BoundedSeq(ScanAlphabet, 3)]

PureInit ==
  \/ body \in Bodies /\ lhs = 0 /\ rhs = 0 /\ input = NoInput
  \/ body = OneBody /\ lhs \in Code!I32 /\ rhs \in Code!I32 /\ input = NoInput
  \/ body = OneBody /\ lhs = 0 /\ rhs = 0 /\ input \in LebInputs \cup BlockTypeInputs
  \/ body = OneBody /\ lhs = 0 /\ rhs = 0 /\
       input \in SectionInputs("table", Tables) \cup SectionInputs("memory", Limits)
                 \cup SectionInputs("data", Datas) \cup SectionInputs("elem", Elems)
                 \cup FdWriteInputs \cup I64Inputs \cup ScanInputs \cup TruncInputs

PureSpec == PureInit /\ [][UNCHANGED pureVars]_pureVars

(***************************************************************************)
(* Every i32 operator of the interpreter computes what WebAssembly         *)
(* defines: the comparisons, clz/ctz/popcnt, extend8_s/extend16_s, and     *)
(* for add .. rotr the same trap condition (division by zero, div_s        *)
(* overflow) and, when there is no trap, the same value.  This covers the  *)
(* signed/unsigned reinterpretations, C++ truncating division and          *)
(* remainder, the rem_s special case, the shift-count mask and the         *)
(* rotations of the opcode cases 0x46-0x78 and 0xC0-0xC1.                  *)
(***************************************************************************)
OpsAgree ==
  /\ \A o \in Code!RelOps : Code!Rel(o, lhs, rhs) = Wasm!WasmRel(o, lhs, rhs)
  /\ \A o \in Code!UnOps : Code!UnResult(o, lhs) = Wasm!WasmUn(o, lhs)
  /\ \A o \in Code!ExtOps : Code!ExtResult(o, lhs) = Wasm!WasmExt(o, lhs)
  /\ \A o \in Code!BinOps :
       /\ Code!BinTraps(o, lhs, rhs) = Wasm!WasmBinTraps(o, lhs, rhs)
       /\ ~Code!BinTraps(o, lhs, rhs) =>
            Code!BinResult(o, lhs, rhs) = Wasm!WasmBin(o, lhs, rhs)

(***************************************************************************)
(* read_leb_unsigned and read_leb_signed with max_bits equal to the        *)
(* width of T (read_varuint32, read_varint32, read_varint64) decode every  *)
(* valid WebAssembly encoding to its value and stop right after it: the    *)
(* shift, the continuation test, the overflow check and the sign           *)
(* extension at the last byte.                                             *)
(***************************************************************************)
LebAgrees ==
  input.kind = "leb" =>
    LET b == input.bytes
        u == Leb!WasmUnsigned(b, 1, LebBits)
        i == Leb!WasmSigned(b, 1, LebBits)
    IN /\ u.ok => Leb!ReadLebUnsigned(b, 1, LebBits, LebBits) = u
       /\ i.ok => Leb!ReadLebSigned(b, 1, LebBits, LebBits) = i

(***************************************************************************)
(* read_block_type reads 0x40, the four numeric value types and every      *)
(* non-negative type index as WebAssembly defines them, consuming the same *)
(* bytes.  The reference value types funcref and externref (and v128) are  *)
(* not among its single-byte codes.                                        *)
(***************************************************************************)
BlockTypeAgrees ==
  input.kind = "blocktype" =>
    LET w == Dec!WasmBlockType(input.bytes, 1) IN
    w.ok /\ (w.val.typeIndex \/ w.val.raw \in {64, -1, -2, -3, -4}) =>
      Dec!ReadBlockType(input.bytes, 1) = w
\* The parse of the section an input encodes: it succeeds, keeps what the
\* format says the module keeps, and consumes the whole payload.
ParsesAsEncoded(sec, items) ==
  LET b == Dec!EncSection(sec, items)
      r == Dec!ParseSection(sec, b)
  IN r.ok /\ r.val = Dec!DecodedSection(sec, items) /\ r.pos = Len(b) + 1

(***************************************************************************)
(* parse_table_section, parse_memory_section and parse_data_section (with  *)
(* read_limits and parse_constant_expression) decode every WebAssembly     *)
(* encoding of one or two tables, memories or data segments of each mode   *)
(* to what it declares, and consume exactly the section: the limits flag,  *)
(* the seven constant-expression opcodes with their immediates, the data   *)
(* mode switch and the byte vectors.                                       *)
(***************************************************************************)
SectionsDecode ==
  input.kind = "section" /\ input.sec \in {"table", "memory", "data"} =>
    ParsesAsEncoded(input.sec, input.items)

(***************************************************************************)
(* parse_element_section decodes every WebAssembly 2.0 element section of  *)
(* function indices: it keeps the active segments (modes 0 and 2) with     *)
(* their table, offset and functions, drops the passive and declarative    *)
(* ones, and consumes the section.  spec.md 8 expects a module with an     *)
(* element segment of one function to load.                                *)
(***************************************************************************)
ElemSectionDecodes ==
  input.kind = "section" /\ input.sec = "elem" => ParsesAsEncoded("elem", input.items)

(***************************************************************************)
(* The default fd_write returns the errno spec.md 4.5 states (0, 8 for an  *)
(* fd other than 1 and 2, 21 when an iovec, a buffer or nwritten is out of *)
(* memory), leaves memory as the specification says (the total at          *)
(* nwritten on success, a zero there for a bad fd, nothing on a fault),    *)
(* and, unless it faults, writes exactly the iovecs' bytes in order: the   *)
(* uint64_t bounds checks of the iovec loop, the order of the nwritten     *)
(* check and the store.  A trap (no memory data) is outside the statement. *)
(***************************************************************************)
FdWriteAgrees ==
  input.kind = "fd_write" /\ input.memories /= << >> =>
    LET mem  == input.memories[1]
        spec == Host!FdWriteSpec(mem, input.fd, input.iovs, input.iovsLen, input.nwritten)
    IN \A r \in Host!FdWrite(input.memories, input.fd, input.iovs, input.iovsLen, input.nwritten) :
         ~r.trapped => /\ r.errno = spec.errno
                       /\ r.mem = spec.mem
                       /\ r.errno /= Host!Fault => r.out = spec.out

\* extend8_s .. extend32_s: the low m bits read as signed.
WasmExt64(o, x) ==
  LET m   == CASE o = "i64.extend8_s"  -> Int64Width \div 8
               [] o = "i64.extend16_s" -> Int64Width \div 4
               [] o = "i64.extend32_s" -> Int64Width \div 2
      low == Wasm64!Unsigned(x) % 2 ^ m
  IN IF low >= 2 ^ (m - 1) THEN low - 2 ^ m ELSE low

(***************************************************************************)
(* Every i64 operator of execute_function computes what WebAssembly        *)
(* defines, on every pair of sample operands: eqz, the comparisons,        *)
(* clz/ctz/popcnt, the binary operators with their traps (the INT64_MIN /  *)
(* -1 case, the 63 shift mask, the uint64_t casts of the _u forms) and the *)
(* extends, as well as i32.wrap_i64 and i64.extend_i32_s/u between the two *)
(* widths (cases 0x50-0x5A, 0x79-0x8A, 0xA7, 0xAC, 0xAD, 0xC2-0xC4).      *)
(***************************************************************************)
I64OpsAgree ==
  input.kind = "i64" =>
    LET a == input.a
        b == input.b
    IN /\ Code64!Eqz64(a) = (Wasm64!Unsigned(a) = 0)
       /\ \A o \in Code64!RelOps64 : Code64!Rel64(o, a, b) = Wasm64!WasmRel(As32[o], a, b)
       /\ \A o \in Code64!UnOps64 : Code64!Un64(o, a) = Wasm64!WasmUn(As32[o], a)
       /\ \A o \in Code64!ExtOps64 : Code64!Ext64(o, a) = WasmExt64(o, a)
       /\ \A o \in Code64!BinOps64 :
            /\ Code64!Bin64Traps(o, a, b) = Wasm64!WasmBinTraps(As32[o], a, b)
            /\ ~Code64!Bin64Traps(o, a, b) =>
                 Code64!Bin64(o, a, b) = Wasm64!WasmBin(As32[o], a, b)
       /\ Code64!WrapI64(a) = Wasm!Signed(Wasm64!Unsigned(a) % 2 ^ IntWidth)
       /\ a \in Code!I32 => /\ Code64!ExtendI32S(a) = Wasm!Signed(Wasm!Unsigned(a))
                            /\ Code64!ExtendI32U(a) = Wasm!Unsigned(a)

(***************************************************************************)
(* analyze_block over bytes ends its scan at the end instruction that     *)
(* closes the block, and records an else of the block, whatever bytes the *)
(* immediates of the instructions in between hold: skip_immediate steps   *)
(* over exactly the immediates each opcode has (block types, indices,     *)
(* br_table vectors, memargs, constants, the 0xFC forms), so no immediate *)
(* byte is taken for an opcode.  Without a closing end the scan throws.   *)
(***************************************************************************)
ScanAgrees ==
  input.kind = "scan" =>
    LET its   == input.items \o <<EndIns>>
        b     == SX!FlattenSeq([i \in DOMAIN its |-> its[i].bytes])
        at(k) == 1 + Len(SX!FlattenSeq([i \in 1 .. k - 1 |-> its[i].bytes]))
        depth(k) == 1 + Cardinality({j \in 1 .. k - 1 : its[j].kind = "open"})
                      - Cardinality({j \in 1 .. k - 1 : its[j].kind = "end"})
        closing == {k \in DOMAIN its : its[k].kind = "end" /\ depth(k) = 1}
        r     == Dec!AnalyzeBytes(b, 1)
    IN IF closing = {} THEN ~r.ok
       ELSE LET k     == SX!Min(closing)
                elses == {at(j) : j \in {i \in 1 .. k - 1 : its[i].kind = "else" /\ depth(i) = 1}}
            IN /\ r.ok
               /\ r.val.endPc = at(k)
               /\ IF elses = {} THEN r.val.elsePc = 0 ELSE r.val.elsePc \in elses

(***************************************************************************)
(* Every float-to-integer conversion of execute_function pushes what       *)
(* WebAssembly defines: the trapping ones (cases 0xA8-0xAB, 0xAE-0xB1)     *)
(* trap on NaN, on the infinities and on a truncation outside the result  *)
(* type, and otherwise push the truncation with no undefined cast; the    *)
(* saturating ones (0xFC 0x00-0x07) clamp to the type's limits and give 0 *)
(* for NaN.  It holds only if each limit, converted to double or long     *)
(* double for the comparison, is the limit itself or rounds to the side   *)
(* the comparison expects.                                                 *)
(***************************************************************************)
TruncAgrees ==
  input.kind = "trunc" =>
    Tr!Conversion(input.op, input.x) = {Tr!WasmConversion(input.op, input.x)}
=============================================================================

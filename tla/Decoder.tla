------------------------------ MODULE Decoder ------------------------------
(***************************************************************************)
(* The byte-level readers of the binary decoder: BinaryReader's LEB128     *)
(* readers (module.hpp), read_block_type (interpreter.cpp), and the        *)
(* constant-expression, limits and section parsers of ModuleParser         *)
(* (module_loader.cpp, kept in src/projects/read_file.wat).  Each reader   *)
(* is an operator from a byte sequence and a position to a result: Ok      *)
(* with the value read and the position after it, or Err with the          *)
(* exception thrown (std::runtime_error, or std::out_of_range when a read  *)
(* runs past the data).  Loops are RECURSIVE operators.                    *)
(*                                                                         *)
(* A LEB128 byte carries LebPayloadBits bits (7 in the code: the masks     *)
(* 0x7F, 0x80 and 0x40 are 2^7 - 1, 2^7 and 2^6); an integer type T has    *)
(* `width` bits and the reader stops at max_bits.                          *)
(***************************************************************************)
EXTENDS Integers, Sequences, TLC

CONSTANT LebPayloadBits

P        == LebPayloadBits
Payload(byte) == byte % 2^P                   \* byte & 0x7F
More(byte)    == (byte \div 2^P) % 2 = 1      \* (byte & 0x80) != 0
SignSet(byte) == (byte \div 2^(P - 1)) % 2 = 1 \* (byte & 0x40) != 0

Ok(v, pos) == [ok |-> TRUE, val |-> v, pos |-> pos, err |-> "none"]
Err(e)     == [ok |-> FALSE, val |-> 0, pos |-> 0, err |-> e]

\* read_u8: ensure_available(1), then the byte; past the end out_of_range.
ReadU8(b, pos) == IF pos > Len(b) THEN Err("out_of_range") ELSE Ok(b[pos], pos + 1)

\* static_cast<T>(byte & 0x7F) << shift in a T of `width` bits: the bits
\* shifted past the width are lost.
Chunk(byte, shift, width) ==
  IF shift + P <= width THEN Payload(byte) * 2^shift
  ELSE (Payload(byte) % 2^(width - shift)) * 2^shift

\* read_leb_unsigned<T>(max_bits): or each payload in at shift; stop at a
\* byte without the continuation bit; throw once shift reaches max_bits.
RECURSIVE LebU(_, _, _, _, _, _)
LebU(b, pos, shift, acc, maxBits, width) ==
  LET r == ReadU8(b, pos) IN
  IF ~r.ok THEN r
  ELSE LET res == acc + Chunk(r.val, shift, width) IN
       IF ~More(r.val) THEN Ok(res, r.pos)
       ELSE IF shift + P >= maxBits THEN Err("LEB128 overflow")
       ELSE LebU(b, r.pos, shift + P, res, maxBits, width)

ReadLebUnsigned(b, pos, maxBits, width) == LebU(b, pos, 0, 0, maxBits, width)

\* The `width`-bit pattern x read as a signed T.
AsSigned(x, width) == IF x >= 2^(width - 1) THEN x - 2^width ELSE x

\* Mutant: the sign extension uses the shift before this byte's increment.
RECURSIVE LebSLateShift(_, _, _, _, _, _)
LebSLateShift(b, pos, shift, acc, maxBits, width) ==
  LET r == ReadU8(b, pos) IN
  IF ~r.ok THEN r
  ELSE LET res == acc + Chunk(r.val, shift, width)
           s   == shift + P
       IN IF ~More(r.val)
          THEN Ok(IF shift < maxBits /\ SignSet(r.val) THEN res - 2^shift
                  ELSE IF s < width THEN res ELSE AsSigned(res, width), r.pos)
          ELSE IF s >= maxBits THEN Err("LEB128 overflow")
          ELSE LebSLateShift(b, r.pos, s, res, maxBits, width)

\* read_leb_signed<T>(max_bits): shift advances before the continuation
\* test; at the last byte, if shift < max_bits and its sign bit is set,
\* result |= -1 << shift (the pattern gets ones from shift up).
RECURSIVE LebS(_, _, _, _, _, _)
LebS(b, pos, shift, acc, maxBits, width) ==
  LET r == ReadU8(b, pos) IN
  IF ~r.ok THEN r
  ELSE LET res == acc + Chunk(r.val, shift, width)
           s   == shift + P
       IN IF ~More(r.val)
          THEN Ok(IF s < maxBits /\ SignSet(r.val) THEN res - 2^s
                  ELSE IF s < width THEN res ELSE AsSigned(res, width), r.pos)
          ELSE IF s >= maxBits THEN Err("LEB128 overflow")
          ELSE LebS(b, r.pos, s, res, maxBits, width)

ReadLebSigned(b, pos, maxBits, width) == LebS(b, pos, 0, 0, maxBits, width)

\* The readers ModuleParser uses (T = uint32_t or int32_t).
ReadVarUint1(b, pos)  == ReadLebUnsigned(b, pos, 1, 32)
ReadVarUint7(b, pos)  == ReadLebUnsigned(b, pos, 7, 32)
ReadVarUint32(b, pos) == ReadLebUnsigned(b, pos, 32, 32)
ReadVarInt7(b, pos)   == ReadLebSigned(b, pos, 7, 32)
ReadVarInt32(b, pos)  == ReadLebSigned(b, pos, 32, 32)

-----------------------------------------------------------------------------
(* read_block_type: 0x40 and the four numeric value types are single      *)
(* bytes; any other first byte starts a type index, read as an unsigned   *)
(* LEB128 with the literal masks 0x7F/0x80 and rejected once shift passes *)
(* 32.  Its result is [typeIndex, raw].                                    *)
\* 0x40 -> 0x40, 0x7F -> -1, 0x7E -> -2, 0x7D -> -3, 0x7C -> -4.
BlockCodes == (64 :> 64) @@ (127 :> -1) @@ (126 :> -2) @@ (125 :> -3) @@ (124 :> -4)

RECURSIVE BlockIndex(_, _, _, _)
BlockIndex(b, pos, shift, acc) ==
  LET r == ReadU8(b, pos) IN
  IF ~r.ok THEN r
  ELSE LET c   == r.val % 128
           res == acc + IF shift + 7 <= 32 THEN c * 2^shift ELSE (c % 2^(32 - shift)) * 2^shift
       IN IF r.val < 128 THEN Ok(IF shift + 7 < 32 THEN res ELSE AsSigned(res, 32), r.pos)
       ELSE IF shift + 7 > 32 THEN Err("Block type index too large")
       ELSE BlockIndex(b, r.pos, shift + 7, res)

\* Mutant: the first byte of a type index keeps its continuation bit.
ReadBlockTypeNoMask(b, pos) ==
  LET f == ReadU8(b, pos) IN
  IF ~f.ok THEN f
  ELSE IF f.val \in DOMAIN BlockCodes
       THEN Ok([typeIndex |-> FALSE, raw |-> BlockCodes[f.val]], f.pos)
  ELSE IF f.val < 128 THEN Ok([typeIndex |-> TRUE, raw |-> f.val], f.pos)
  ELSE LET r == BlockIndex(b, f.pos, 7, f.val) IN
       IF r.ok THEN Ok([typeIndex |-> TRUE, raw |-> r.val], r.pos) ELSE r

ReadBlockType(b, pos) ==
  LET f == ReadU8(b, pos) IN
  IF ~f.ok THEN f
  ELSE IF f.val \in DOMAIN BlockCodes
       THEN Ok([typeIndex |-> FALSE, raw |-> BlockCodes[f.val]], f.pos)
  ELSE IF f.val < 128 THEN Ok([typeIndex |-> TRUE, raw |-> f.val], f.pos)
  ELSE LET r == BlockIndex(b, f.pos, 7, f.val % 128) IN
       IF r.ok THEN Ok([typeIndex |-> TRUE, raw |-> r.val], r.pos) ELSE r
-----------------------------------------------------------------------------
(***************************************************************************)
(* The reference: WebAssembly 2.0 section 5.2.2.  An unsigned (signed)     *)
(* N-bit integer is a group of at most ceil(N / P) bytes, all but the last *)
(* with the continuation bit, whose value (the payloads little-endian,     *)
(* minus 2^(P * k) when the last byte's sign bit is set) lies in the      *)
(* N-bit range; the range needs checking only when P * k > N.              *)
(***************************************************************************)
\* The position of the group's last byte, if the group ends inside b.
GroupEnd(b, pos) ==
  {j \in pos .. Len(b) : ~More(b[j]) /\ \A i \in pos .. j - 1 : More(b[i])}

RECURSIVE PayloadValue(_, _, _)
PayloadValue(b, pos, j) ==
  IF j < pos THEN 0 ELSE Payload(b[j]) * 2^(P * (j - pos)) + PayloadValue(b, pos, j - 1)

CeilDiv(n, d) == (n + d - 1) \div d

WasmUnsigned(b, pos, n) ==
  IF GroupEnd(b, pos) = {} THEN Err("invalid")
  ELSE LET j == CHOOSE j \in GroupEnd(b, pos) : TRUE
           k == j - pos + 1
           v == PayloadValue(b, pos, j)
       IN IF k <= CeilDiv(n, P) /\ (P * k <= n \/ v < 2^n) THEN Ok(v, j + 1) ELSE Err("invalid")

WasmSigned(b, pos, n) ==
  IF GroupEnd(b, pos) = {} THEN Err("invalid")
  ELSE LET j == CHOOSE j \in GroupEnd(b, pos) : TRUE
           k == j - pos + 1
           v == PayloadValue(b, pos, j) - (IF SignSet(b[j]) THEN 2^(P * k) ELSE 0)
       IN IF k <= CeilDiv(n, P) /\ (P * k <= n \/ (-(2^(n - 1)) <= v /\ v < 2^(n - 1)))
          THEN Ok(v, j + 1) ELSE Err("invalid")

\* WebAssembly 2.0 5.4.1 blocktype: 0x40, a value type, or a non-negative
\* s33 type index (with P = 7).
ValTypeCodes == {127, 126, 125, 124, 123, 112, 111}
WasmBlockType(b, pos) ==
  IF pos > Len(b) THEN Err("invalid")
  ELSE IF b[pos] = 64 THEN Ok([typeIndex |-> FALSE, raw |-> 64], pos + 1)
  ELSE IF b[pos] \in ValTypeCodes THEN Ok([typeIndex |-> FALSE, raw |-> b[pos] - 128], pos + 1)
  ELSE LET x == WasmSigned(b, pos, 33) IN
       IF x.ok /\ x.val >= 0 THEN Ok([typeIndex |-> TRUE, raw |-> x.val], x.pos) ELSE Err("invalid")
-----------------------------------------------------------------------------
(* ModuleParser.  A constant expression is [kind, value, index], as        *)
(* wasm::ConstantExpression, and a Value is [type, bits]: the integer of   *)
(* an i32/i64, the raw bytes of an f32/f64, << >> for a null reference.   *)

\* The reader result r, passed on to f when it is Ok.
Then(r, f(_)) == IF r.ok THEN f(r) ELSE r

ReadVarInt64(b, pos) == ReadLebSigned(b, pos, 64, 64)

\* read_u32 / read_f32 / read_f64: ensure_available, then the raw bytes.
ReadRaw(b, pos, n) == IF pos + n - 1 > Len(b) THEN Err("out_of_range")
                      ELSE Ok(SubSeq(b, pos, pos + n - 1), pos + n)

Val(t, bits)  == [type |-> t, bits |-> bits]
Expr(k, v, i) == [kind |-> k, value |-> v, index |-> i]
\* ConstantExpression{}: kind I32Const, a default Value (i32 0), index 0.
DefaultExpr == Expr("i32.const", Val("i32", <<0>>), 0)

\* parse_constant_expression: one opcode, its immediate, then 0x0B.
ParseConstantExpression(b, pos) ==
  LET op   == ReadU8(b, pos)
      body == Then(op, LAMBDA o :
        CASE o.val = 65  -> Then(ReadVarInt32(b, o.pos), LAMBDA v : Ok(Expr("i32.const", Val("i32", <<v.val>>), 0), v.pos))
          [] o.val = 66  -> Then(ReadVarInt64(b, o.pos), LAMBDA v : Ok(Expr("i64.const", Val("i64", <<v.val>>), 0), v.pos))
          [] o.val = 67  -> Then(ReadRaw(b, o.pos, 4), LAMBDA v : Ok(Expr("f32.const", Val("f32", v.val), 0), v.pos))
          [] o.val = 68  -> Then(ReadRaw(b, o.pos, 8), LAMBDA v : Ok(Expr("f64.const", Val("f64", v.val), 0), v.pos))
          [] o.val = 35  -> Then(ReadVarUint32(b, o.pos), LAMBDA v : Ok(Expr("global.get", DefaultExpr.value, v.val), v.pos))
          [] o.val = 208 -> Then(ReadVarUint7(b, o.pos), LAMBDA h :
                              IF h.val = 112 THEN Ok(Expr("ref.null", Val("funcref", << >>), 0), h.pos)
                              ELSE IF h.val = 111 THEN Ok(Expr("ref.null", Val("externref", << >>), 0), h.pos)
                              ELSE Err("Unsupported heap type for ref.null constant"))
          [] o.val = 210 -> Then(ReadVarUint32(b, o.pos), LAMBDA v : Ok(Expr("ref.func", Val("funcref", <<v.val>>), v.val), v.pos))
          [] OTHER       -> Err("Unsupported constant expression opcode"))
  IN Then(body, LAMBDA e : Then(ReadU8(b, e.pos), LAMBDA x :
        IF x.val /= 11 THEN Err("Constant expression missing end opcode") ELSE Ok(e.val, x.pos)))

\* Mutant: the maximum is read when flag bit 1 (not bit 0) is set.
ReadLimitsMaxBit(b, pos) ==
  Then(ReadVarUint1(b, pos), LAMBDA f : Then(ReadVarUint32(b, f.pos), LAMBDA mn :
    IF (f.val \div 2) % 2 = 1
    THEN Then(ReadVarUint32(b, mn.pos), LAMBDA mx : Ok([min |-> mn.val, max |-> <<mx.val>>], mx.pos))
    ELSE Ok([min |-> mn.val, max |-> << >>], mn.pos)))

\* read_limits: a varuint1 flag, min, and max when the flag's bit 0 is set.
ReadLimits(b, pos) ==
  Then(ReadVarUint1(b, pos), LAMBDA f : Then(ReadVarUint32(b, f.pos), LAMBDA mn :
    IF f.val % 2 = 1
    THEN Then(ReadVarUint32(b, mn.pos), LAMBDA mx : Ok([min |-> mn.val, max |-> <<mx.val>>], mx.pos))
    ELSE Ok([min |-> mn.val, max |-> << >>], mn.pos)))

\* One entry of a section: the sequence of what it appends (<< >> when it
\* keeps nothing), for each kind of vector the parser reads.
RECURSIVE Entry(_, _, _), Vec(_, _, _, _, _)

\* A count, then that many entries (the for loops over count).
Vec(kind, b, pos, n, acc) ==
  IF n = 0 THEN Ok(acc, pos)
  ELSE Then(Entry(kind, b, pos), LAMBDA r : Vec(kind, b, r.pos, n - 1, acc \o r.val))
ReadVec(kind, b, pos) == Then(ReadVarUint32(b, pos), LAMBDA c : Vec(kind, b, c.pos, c.val, << >>))

\* parse_table_section: element type 0x70 or 0x6F, then limits.
TableEntry(b, pos) ==
  Then(ReadU8(b, pos), LAMBDA t :
    IF t.val \notin {112, 111} THEN Err("Unsupported table element type")
    ELSE Then(ReadLimits(b, t.pos), LAMBDA l :
           Ok(<<[elem |-> IF t.val = 112 THEN "funcref" ELSE "externref", limits |-> l.val]>>, l.pos)))

\* parse_element_section: flags bit 0 passive, bit 1 explicit table (when
\* active), bits 0-1 = 3 declarative, bit 2 expressions (rejected).  An
\* active segment has its table index and offset; then one byte is read as
\* the element kind: 0x00 is consumed, 0x01 rejected, anything else given
\* back to the count.  Only active, non-declarative segments are kept.
ElemEntry(b, pos) ==
  Then(ReadVarUint32(b, pos), LAMBDA f :
    LET flags       == f.val
        active      == flags % 2 = 0
        hasTable    == active /\ (flags \div 2) % 2 = 1
        declarative == flags % 4 = 3
        useExprs    == (flags \div 4) % 2 = 1
        head == IF ~active THEN Ok([table |-> 0, offset |-> DefaultExpr], f.pos)
                ELSE Then(IF hasTable THEN ReadVarUint32(b, f.pos) ELSE Ok(0, f.pos), LAMBDA t :
                       Then(ParseConstantExpression(b, t.pos), LAMBDA e :
                         Ok([table |-> t.val, offset |-> e.val], e.pos)))
    IN IF useExprs THEN Err("Element segments with expressions are not supported")
       ELSE Then(head, LAMBDA h : Then(ReadU8(b, h.pos), LAMBDA k :
              IF k.val = 1 THEN Err("Unsupported element kind")
              ELSE Then(ReadVec("funcidx", b, IF k.val = 0 THEN k.pos ELSE h.pos), LAMBDA fs :
                     Ok(IF active /\ ~declarative
                        THEN <<[table |-> h.val.table, offset |-> h.val.offset, funcs |-> fs.val]>>
                        ELSE << >>, fs.pos)))))

\* parse_data_section: 0 active in memory 0, 1 passive, 2 active with a
\* memory index; a larger first value is taken as a memory index.
DataEntry(b, pos) ==
  Then(ReadVarUint32(b, pos), LAMBDA m :
    LET head == IF m.val = 1 THEN Ok([passive |-> TRUE, mem |-> 0, offset |-> DefaultExpr], m.pos)
                ELSE Then(IF m.val = 2 THEN ReadVarUint32(b, m.pos)
                          ELSE Ok(m.val, m.pos), LAMBDA x :
                       Then(ParseConstantExpression(b, x.pos), LAMBDA e :
                         Ok([passive |-> FALSE, mem |-> x.val, offset |-> e.val], e.pos)))
    IN Then(head, LAMBDA h : Then(ReadVec("byte", b, h.pos), LAMBDA bs :
         Ok(<<[passive |-> h.val.passive, mem |-> h.val.mem, offset |-> h.val.offset,
               bytes |-> bs.val]>>, bs.pos))))

Entry(kind, b, pos) ==
  CASE kind = "table"   -> TableEntry(b, pos)
    [] kind = "memory"  -> Then(ReadLimits(b, pos), LAMBDA l : Ok(<<l.val>>, l.pos))
    [] kind = "elem"    -> ElemEntry(b, pos)
    [] kind = "data"    -> DataEntry(b, pos)
    [] kind = "funcidx" -> Then(ReadVarUint32(b, pos), LAMBDA v : Ok(<<v.val>>, v.pos))
    [] kind = "byte"    -> Then(ReadU8(b, pos), LAMBDA v : Ok(<<v.val>>, v.pos))

\* A section payload: the vector of its entries, read from the start.
ParseSection(kind, b) == ReadVec(kind, b, 1)
-----------------------------------------------------------------------------
(* skip_immediate (interpreter.cpp): how analyze_block steps over the      *)
(* immediates of an instruction it does not interpret.  Each opcode reads *)
(* a shape, a sequence of reader calls whose values are dropped; an       *)
(* opcode of no case reads nothing (default: break).                      *)

\* Mutant: read_memarg reads the alignment and not the offset.
ImmShapeMemArgOne(op) ==
  CASE op \in {2, 3, 4}                                     -> <<"blocktype">>
    [] op \in {12, 13, 16, 32, 33, 34, 35, 36, 37, 38, 63, 64, 210} -> <<"u32">>
    [] op = 14                                              -> <<"brtable">>
    [] op = 17                                              -> <<"u32", "u32">>
    [] op \in 40 .. 62                                      -> <<"u32">>
    [] op = 65 -> <<"i32">>  [] op = 66 -> <<"i64">>
    [] op = 67 -> <<"raw4">> [] op = 68 -> <<"raw8">>
    [] op = 208 -> <<"u7">>  [] op = 252 -> <<"fc">>
    [] OTHER -> << >>

\* The cases of skip_immediate: block/loop/if a block type; br, br_if,
\* call, local.*, global.*, table.get/set, memory.size/grow and ref.func
\* one index; br_table its vector and default; call_indirect two indices;
\* the loads and stores 0x28-0x3E a memarg (align, offset); the constants
\* their value; ref.null a heap type; 0xFC a sub-opcode and its indices.
ImmShape(op) ==
  CASE op \in {2, 3, 4}                                     -> <<"blocktype">>
    [] op \in {12, 13, 16, 32, 33, 34, 35, 36, 37, 38, 63, 64, 210} -> <<"u32">>
    [] op = 14                                              -> <<"brtable">>
    [] op = 17                                              -> <<"u32", "u32">>
    [] op \in 40 .. 62                                      -> <<"u32", "u32">>
    [] op = 65 -> <<"i32">>  [] op = 66 -> <<"i64">>
    [] op = 67 -> <<"raw4">> [] op = 68 -> <<"raw8">>
    [] op = 208 -> <<"u7">>  [] op = 252 -> <<"fc">>
    [] OTHER -> << >>

\* The 0xFC sub-opcodes: memory.init, memory.copy, table.init and
\* table.copy read two indices; data.drop, memory.fill, elem.drop,
\* table.grow/size/fill one; the saturating truncations none.
FcShape(sub) ==
  CASE sub \in {8, 10, 12, 14}         -> <<"u32", "u32">>
    [] sub \in {9, 11, 13, 15, 16, 17} -> <<"u32">>
    [] OTHER                           -> << >>

\* target_count indices of read_br_table's loop.
RECURSIVE SkipU32s(_, _, _)
SkipU32s(b, pos, n) ==
  IF n = 0 THEN Ok(0, pos) ELSE Then(ReadVarUint32(b, pos), LAMBDA r : SkipU32s(b, r.pos, n - 1))

RECURSIVE SkipOne(_, _, _), SkipAll(_, _, _)
SkipOne(kind, b, pos) ==
  CASE kind = "blocktype" -> ReadBlockType(b, pos)
    [] kind = "u32"       -> ReadVarUint32(b, pos)
    [] kind = "u7"        -> ReadVarUint7(b, pos)
    [] kind = "i32"       -> ReadVarInt32(b, pos)
    [] kind = "i64"       -> ReadVarInt64(b, pos)
    [] kind = "raw4"      -> ReadRaw(b, pos, 4)
    [] kind = "raw8"      -> ReadRaw(b, pos, 8)
    [] kind = "brtable"   -> Then(ReadVarUint32(b, pos), LAMBDA c :
                               Then(SkipU32s(b, c.pos, c.val), LAMBDA t : ReadVarUint32(b, t.pos)))
    [] kind = "fc"        -> Then(ReadVarUint32(b, pos), LAMBDA s : SkipAll(FcShape(s.val), b, s.pos))
SkipAll(shape, b, pos) ==
  IF shape = << >> THEN Ok(0, pos)
  ELSE Then(SkipOne(Head(shape), b, pos), LAMBDA r : SkipAll(Tail(shape), b, r.pos))

SkipImmediate(op, b, pos) == SkipAll(ImmShape(op), b, pos)

\* analyze_block over bytes from body_start at depth 1: an opening opcode
\* skips its block type and nests, else at depth 1 is recorded (the last
\* one wins), the end that brings the depth to 0 ends the scan, and any
\* other opcode skips its immediates.  Running off the code throws.  The
\* result is [endPc, elsePc], positions of the opcodes (0: no else);
\* end_next_pc and else_body_pc are the positions after them.
RECURSIVE ScanBytes(_, _, _, _)
ScanBytes(b, pos, depth, elsePc) ==
  IF pos > Len(b) THEN Err("Unexpected end of code while analyzing block")
  ELSE LET op == b[pos] IN
       CASE op \in {2, 3, 4} -> Then(ReadBlockType(b, pos + 1), LAMBDA t : ScanBytes(b, t.pos, depth + 1, elsePc))
         [] op = 5           -> ScanBytes(b, pos + 1, depth, IF depth = 1 THEN pos ELSE elsePc)
         [] op = 11          -> IF depth = 1 THEN Ok([endPc |-> pos, elsePc |-> elsePc], pos + 1)
                                ELSE ScanBytes(b, pos + 1, depth - 1, elsePc)
         [] OTHER            -> Then(SkipImmediate(op, b, pos + 1), LAMBDA r : ScanBytes(b, r.pos, depth, elsePc))

AnalyzeBytes(b, bodyStart) == ScanBytes(b, bodyStart, 1, 0)
-----------------------------------------------------------------------------
(* Reference: the WebAssembly 2.0 binary encoding of what a section        *)
(* declares (5.2.2 LEB128, 5.4.9 constant expressions, 5.3.7 limits,       *)
(* 5.5.9 tables, 5.5.12 element segments with function indices, 5.5.14    *)
(* data segments), and what the parser is to make of it.  An element       *)
(* segment is [mode, table, offset, funcs]: mode 0 (active, table 0, no    *)
(* elemkind), 1 (passive), 2 (active, explicit table), 3 (declarative),    *)
(* modes 1-3 carrying elemkind 0x00.  A data segment is [mode, mem,        *)
(* offset, bytes], mode 0 (memory 0), 1 (passive) or 2 (explicit memory).  *)

LOCAL SX == INSTANCE SequencesExt

RECURSIVE EncU(_), EncS(_)
EncU(v) == IF v < 2^P THEN <<v>> ELSE <<(v % 2^P) + 2^P>> \o EncU(v \div 2^P)
EncS(v) ==
  LET low == v % 2^P
      rest == (v - low) \div 2^P
  IN IF (rest = 0 /\ low < 2^(P - 1)) \/ (rest = -1 /\ low >= 2^(P - 1)) THEN <<low>>
     ELSE <<low + 2^P>> \o EncS(rest)

EncExpr(e) ==
  CASE e.kind = "i32.const"  -> <<65>> \o EncS(e.value.bits[1]) \o <<11>>
    [] e.kind = "i64.const"  -> <<66>> \o EncS(e.value.bits[1]) \o <<11>>
    [] e.kind = "f32.const"  -> <<67>> \o e.value.bits \o <<11>>
    [] e.kind = "f64.const"  -> <<68>> \o e.value.bits \o <<11>>
    [] e.kind = "global.get" -> <<35>> \o EncU(e.index) \o <<11>>
    [] e.kind = "ref.null"   -> <<208, IF e.value.type = "funcref" THEN 112 ELSE 111, 11>>
    [] e.kind = "ref.func"   -> <<210>> \o EncU(e.index) \o <<11>>

EncLimits(l) == IF l.max = << >> THEN <<0>> \o EncU(l.min)
                ELSE <<1>> \o EncU(l.min) \o EncU(l.max[1])

\* vec(B): the length, then each element encoded.
EncVec(s, enc(_)) == EncU(Len(s)) \o SX!FlattenSeq([i \in 1 .. Len(s) |-> enc(s[i])])

EncItem(kind, x) ==
  CASE kind = "table"  -> <<IF x.elem = "funcref" THEN 112 ELSE 111>> \o EncLimits(x.limits)
    [] kind = "memory" -> EncLimits(x)
    [] kind = "elem"   ->
         LET fs == EncVec(x.funcs, EncU) IN
         (CASE x.mode = 0 -> <<0>> \o EncExpr(x.offset) \o fs
            [] x.mode = 2 -> <<2>> \o EncU(x.table) \o EncExpr(x.offset) \o <<0>> \o fs
            [] OTHER      -> <<x.mode, 0>> \o fs)
    [] kind = "data"   ->
         LET bs == EncVec(x.bytes, LAMBDA y : <<y>>) IN
         (CASE x.mode = 0 -> <<0>> \o EncExpr(x.offset) \o bs
            [] x.mode = 1 -> <<1>> \o bs
            [] x.mode = 2 -> <<2>> \o EncU(x.mem) \o EncExpr(x.offset) \o bs)

\* What the module keeps of one item: element segments that are active
\* (modes 0 and 2), every data segment, every table and memory.
Decoded(kind, x) ==
  CASE kind = "elem" ->
         (IF x.mode \in {0, 2}
          THEN <<[table |-> IF x.mode = 0 THEN 0 ELSE x.table, offset |-> x.offset, funcs |-> x.funcs]>>
          ELSE << >>)
    [] kind = "data" ->
         <<[passive |-> x.mode = 1, mem |-> IF x.mode = 2 THEN x.mem ELSE 0,
            offset |-> IF x.mode = 1 THEN DefaultExpr ELSE x.offset, bytes |-> x.bytes]>>
    [] OTHER -> <<x>>

EncSection(kind, items) == EncVec(items, LAMBDA x : EncItem(kind, x))
DecodedSection(kind, items) == SX!FlattenSeq([i \in 1 .. Len(items) |-> Decoded(kind, items[i])])
=============================================================================

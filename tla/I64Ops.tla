------------------------------- MODULE I64Ops -------------------------------
(***************************************************************************)
(* The i64 operators of execute_function (src/src/interpreter.cpp) and the *)
(* conversions between i32 and i64, as the C++ computes them on           *)
(* Int64Width-bit values (64 in the program) and IntWidth-bit i32 values.  *)
(* pop_i64 yields an int64_t and static_cast<uint64_t> reinterprets it;    *)
(* the helpers of I32Ops (two's complement, <bit> functions, truncating    *)
(* / and %) are taken at the i64 width; as for i32, signed overflow of    *)
(* + - * is undefined behaviour that the builds wrap.                     *)
(***************************************************************************)
EXTENDS Integers, Bitwise

CONSTANTS IntWidth, Int64Width

L == INSTANCE I32Ops WITH IntWidth <- Int64Width   \* int64_t / uint64_t
S == INSTANCE I32Ops                               \* int32_t / uint32_t

I64   == L!I32
MinI64 == L!MinI32

\* i64.eqz (case 0x50).
Eqz64(x) == x = 0

\* Mutant: the _u comparisons on the int64_t operands, without the casts.
Rel64NoCast(o, a, b) ==
  CASE o = "i64.eq" -> a = b
    [] o = "i64.ne" -> a /= b
    [] o \in {"i64.lt_s", "i64.lt_u"} -> a < b
    [] o \in {"i64.gt_s", "i64.gt_u"} -> a > b
    [] o \in {"i64.le_s", "i64.le_u"} -> a <= b
    [] o \in {"i64.ge_s", "i64.ge_u"} -> a >= b

\* i64.eq .. i64.ge_u (cases 0x51-0x5A), the _u ones on the uint64_t casts.
RelOps64 == {"i64.eq", "i64.ne", "i64.lt_s", "i64.lt_u", "i64.gt_s", "i64.gt_u",
             "i64.le_s", "i64.le_u", "i64.ge_s", "i64.ge_u"}
Rel64(o, a, b) ==
  LET ua == L!AsU32(a)
      ub == L!AsU32(b)
  IN CASE o = "i64.eq"   -> a = b
       [] o = "i64.ne"   -> a /= b
       [] o = "i64.lt_s" -> a < b
       [] o = "i64.lt_u" -> ua < ub
       [] o = "i64.gt_s" -> a > b
       [] o = "i64.gt_u" -> ua > ub
       [] o = "i64.le_s" -> a <= b
       [] o = "i64.le_u" -> ua <= ub
       [] o = "i64.ge_s" -> a >= b
       [] o = "i64.ge_u" -> ua >= ub

\* i64.clz, i64.ctz (64 for a zero value), i64.popcnt (cases 0x79-0x7B).
UnOps64 == {"i64.clz", "i64.ctz", "i64.popcnt"}
Un64(o, x) ==
  LET u == L!AsU32(x) IN
  CASE o = "i64.clz"    -> IF u = 0 THEN Int64Width ELSE L!CountlZero(u, Int64Width)
    [] o = "i64.ctz"    -> IF u = 0 THEN Int64Width ELSE L!CountrZero(u, Int64Width)
    [] o = "i64.popcnt" -> L!Popcount(u, Int64Width)

\* i64.add .. i64.rotr (cases 0x7C-0x8A): the throw Trap conditions, and
\* the pushed value otherwise; shift counts are `& 63`.
BinOps64 == {"i64.add", "i64.sub", "i64.mul", "i64.div_s", "i64.div_u",
             "i64.rem_s", "i64.rem_u", "i64.and", "i64.or", "i64.xor",
             "i64.shl", "i64.shr_s", "i64.shr_u", "i64.rotl", "i64.rotr"}

Bin64Traps(o, a, b) ==
  \/ o \in {"i64.div_s", "i64.div_u", "i64.rem_s", "i64.rem_u"} /\ b = 0
  \/ o = "i64.div_s" /\ a = MinI64 /\ b = -1

Bin64(o, a, b) ==
  LET ua == L!AsU32(a)
      ub == L!AsU32(b)
      k  == L!AsU32(b) & L!ShiftMask
  IN CASE o = "i64.add"   -> L!Wrap(a + b)
       [] o = "i64.sub"   -> L!Wrap(a - b)
       [] o = "i64.mul"   -> L!Wrap(a * b)
       [] o = "i64.div_s" -> L!CDiv(a, b)
       [] o = "i64.div_u" -> L!AsI32(ua \div ub)
       [] o = "i64.rem_s" -> IF a = MinI64 /\ b = -1 THEN 0 ELSE L!CRem(a, b)
       [] o = "i64.rem_u" -> L!AsI32(ua % ub)
       [] o = "i64.and"   -> L!AsI32(ua & ub)
       [] o = "i64.or"    -> L!AsI32(ua | ub)
       [] o = "i64.xor"   -> L!AsI32(ua ^^ ub)
       [] o = "i64.shl"   -> L!Wrap(a * 2 ^ k)
       [] o = "i64.shr_s" -> a \div 2 ^ k
       [] o = "i64.shr_u" -> L!AsI32(ua \div 2 ^ k)
       [] o = "i64.rotl"  -> L!AsI32(L!Rotl(ua, k))
       [] o = "i64.rotr"  -> L!AsI32(L!Rotr(ua, k))

\* i64.extend8_s, extend16_s, extend32_s (cases 0xC2-0xC4): the low 8, 16
\* or 32 bits (an eighth, a quarter, a half of the width) through int8_t,
\* int16_t or int32_t.
ExtOps64 == {"i64.extend8_s", "i64.extend16_s", "i64.extend32_s"}
Ext64(o, x) ==
  L!SignExtend(x, CASE o = "i64.extend8_s"  -> Int64Width \div 8
                    [] o = "i64.extend16_s" -> Int64Width \div 4
                    [] o = "i64.extend32_s" -> Int64Width \div 2)

\* i32.wrap_i64 (0xA7): static_cast<int32_t> keeps the low 32 bits.
WrapI64(x) == S!AsI32(L!AsU32(x) % S!Modulus)
\* i64.extend_i32_s (0xAC) keeps the value; i64.extend_i32_u (0xAD) takes
\* the uint32_t first.
ExtendI32S(x) == x
ExtendI32U(x) == S!AsU32(x)
=============================================================================

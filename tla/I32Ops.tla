------------------------------- MODULE I32Ops -------------------------------
(***************************************************************************)
(* The i32 operators of execute_function in src/src/interpreter.cpp, as   *)
(* the C++ computes them, on IntWidth-bit values (32 in the program).      *)
(* pop_i32 yields an int32_t; static_cast<uint32_t> reinterprets it; the   *)
(* <bit> functions std::countl_zero, std::countr_zero, std::popcount,     *)
(* std::rotl and std::rotr act on the uint32_t; the signed operators       *)
(* follow C++20 (shifts of negative values are defined, / truncates        *)
(* toward zero, % takes the sign of the dividend).  Signed overflow of *   *)
(* is undefined behaviour; the builds wrap it.                             *)
(***************************************************************************)
EXTENDS Naturals, Integers, Bitwise

CONSTANT IntWidth

Modulus  == 2 ^ IntWidth
I32      == -(Modulus \div 2) .. (Modulus \div 2) - 1
MinI32   == -(Modulus \div 2)                   \* numeric_limits<int32_t>::min
AsU32(x) == x % Modulus                         \* static_cast<uint32_t>
AsI32(u) == IF u >= Modulus \div 2 THEN u - Modulus ELSE u
Wrap(x)  == AsI32(AsU32(x))                     \* int32_t arithmetic, wrapping
ShiftMask == IntWidth - 1                       \* the `& 31` of the shifts

\* std::countl_zero / std::countr_zero / std::popcount on n low bits of u.
RECURSIVE CountlZero(_, _), CountrZero(_, _), Popcount(_, _)
CountlZero(u, n) ==
  IF n = 0 THEN 0 ELSE IF u >= 2 ^ (n - 1) THEN 0 ELSE 1 + CountlZero(u, n - 1)
CountrZero(u, n) ==
  IF n = 0 THEN 0 ELSE IF u % 2 = 1 THEN 0 ELSE 1 + CountrZero(u \div 2, n - 1)
Popcount(u, n) ==
  IF n = 0 THEN 0 ELSE (u % 2) + Popcount(u \div 2, n - 1)

\* std::rotl / std::rotr of a uint32_t by r in 0 .. 31.
\* The bits shifted out at one end come back at the other; the product is
\* taken after the reduction so that it stays below 2^IntWidth.
Rotl(u, r) == (u % 2 ^ (IntWidth - r)) * 2 ^ r + (u \div 2 ^ (IntWidth - r))
Rotr(u, r) == (u \div 2 ^ r) + (u % 2 ^ r) * 2 ^ (IntWidth - r)

\* Mutant: a quotient rounded toward minus infinity (the \div of TLA+).
CDivFloor(a, b) == a \div b

\* C++ / and % on int32_t: the quotient is truncated toward zero.
AbsI(x) == IF x < 0 THEN -x ELSE x
CDiv(a, b) == IF (a < 0) = (b < 0) THEN AbsI(a) \div AbsI(b)
              ELSE -(AbsI(a) \div AbsI(b))
CRem(a, b) == a - b * CDiv(a, b)

(***************************************************************************)
(* i32.clz, i32.ctz, i32.popcnt (cases 0x67-0x69).                         *)
(***************************************************************************)
UnOps == {"i32.clz", "i32.ctz", "i32.popcnt"}
UnResult(o, x) ==
  LET u == AsU32(x) IN
  CASE o = "i32.clz"    -> IF u = 0 THEN IntWidth ELSE CountlZero(u, IntWidth)
    [] o = "i32.ctz"    -> IF u = 0 THEN IntWidth ELSE CountrZero(u, IntWidth)
    [] o = "i32.popcnt" -> Popcount(u, IntWidth)

(***************************************************************************)
(* i32.eq .. i32.ge_u (cases 0x46-0x4F): lhs was pushed first.             *)
(***************************************************************************)
RelOps == {"i32.eq", "i32.ne", "i32.lt_s", "i32.lt_u", "i32.gt_s", "i32.gt_u",
           "i32.le_s", "i32.le_u", "i32.ge_s", "i32.ge_u"}
Rel(o, a, b) ==
  LET ua == AsU32(a)
      ub == AsU32(b)
  IN CASE o = "i32.eq"   -> a = b
       [] o = "i32.ne"   -> a /= b
       [] o = "i32.lt_s" -> a < b
       [] o = "i32.lt_u" -> ua < ub
       [] o = "i32.gt_s" -> a > b
       [] o = "i32.gt_u" -> ua > ub
       [] o = "i32.le_s" -> a <= b
       [] o = "i32.le_u" -> ua <= ub
       [] o = "i32.ge_s" -> a >= b
       [] o = "i32.ge_u" -> ua >= ub

(***************************************************************************)
(* i32.add .. i32.rotr (cases 0x6A-0x78).  BinTraps is the condition of    *)
(* the case's throw Trap, BinResult the pushed value otherwise.            *)
(***************************************************************************)
BinOps == {"i32.add", "i32.sub", "i32.mul", "i32.div_s", "i32.div_u",
           "i32.rem_s", "i32.rem_u", "i32.and", "i32.or", "i32.xor",
           "i32.shl", "i32.shr_s", "i32.shr_u", "i32.rotl", "i32.rotr"}

BinTraps(o, a, b) ==
  \/ o \in {"i32.div_s", "i32.div_u", "i32.rem_s", "i32.rem_u"} /\ b = 0
  \/ o = "i32.div_s" /\ a = MinI32 /\ b = -1

BinResult(o, a, b) ==
  LET ua == AsU32(a)
      ub == AsU32(b)
      k  == AsU32(b) & ShiftMask
  IN CASE o = "i32.add"   -> Wrap(a + b)
       [] o = "i32.sub"   -> Wrap(a - b)
       [] o = "i32.mul"   -> Wrap(a * b)
       [] o = "i32.div_s" -> CDiv(a, b)
       [] o = "i32.div_u" -> AsI32(ua \div ub)
       [] o = "i32.rem_s" -> IF a = MinI32 /\ b = -1 THEN 0 ELSE CRem(a, b)
       [] o = "i32.rem_u" -> AsI32(ua % ub)
       [] o = "i32.and"   -> AsI32(ua & ub)
       [] o = "i32.or"    -> AsI32(ua | ub)
       [] o = "i32.xor"   -> AsI32(ua ^^ ub)
       [] o = "i32.shl"   -> Wrap(a * 2 ^ k)
       [] o = "i32.shr_s" -> a \div 2 ^ k              \* floor, as C++20 >>
       [] o = "i32.shr_u" -> AsI32(ua \div 2 ^ k)
       [] o = "i32.rotl"  -> AsI32(Rotl(ua, k))
       [] o = "i32.rotr"  -> AsI32(Rotr(ua, k))

(***************************************************************************)
(* i32.extend8_s / i32.extend16_s (cases 0xC0, 0xC1): the low byte or the  *)
(* low two bytes (of IntWidth \div 4 bits each) read as signed.            *)
(***************************************************************************)
ExtOps == {"i32.extend8_s", "i32.extend16_s"}
SignExtend(x, bits) ==
  LET low == AsU32(x) % 2 ^ bits IN
  IF low >= 2 ^ (bits - 1) THEN low - 2 ^ bits ELSE low
ExtResult(o, x) ==
  SignExtend(x, IF o = "i32.extend8_s" THEN IntWidth \div 4 ELSE IntWidth \div 2)
=============================================================================

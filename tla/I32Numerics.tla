----------------------------- MODULE I32Numerics -----------------------------
(***************************************************************************)
(* The i32 numeric instructions as the WebAssembly 1.0 specification       *)
(* defines them (section 4.3.2, integer operations), on N = IntWidth bits. *)
(* Values are taken and returned as signed integers, the representation of *)
(* the operand stack; each definition works on the bit sequence of the     *)
(* unsigned interpretation, as the specification does.                     *)
(***************************************************************************)
EXTENDS Naturals, Integers, FiniteSets

CONSTANT IntWidth

LOCAL N == IntWidth
LOCAL Mod == 2 ^ N
Unsigned(x) == IF x < 0 THEN x + Mod ELSE x              \* signed^-1
Signed(u)   == IF u < 2 ^ (N - 1) THEN u ELSE u - Mod    \* signed_N
Bit(u, i)   == (u \div 2 ^ i) % 2                        \* bit i, 0 = lowest

\* The unsigned value whose bit i is f(i) for i in 0 .. n-1.
RECURSIVE FromBits(_, _)
FromBits(f(_), n) == IF n = 0 THEN 0 ELSE f(n - 1) * 2 ^ (n - 1) + FromBits(f, n - 1)

AbsV(x) == IF x < 0 THEN -x ELSE x

(* iclz / ictz / ipopcnt *)
Clz(u) ==
  CHOOSE k \in 0 .. N :
    /\ \A i \in 0 .. N - 1 : Bit(u, i) = 1 => i < N - k
    /\ k < N => Bit(u, N - 1 - k) = 1
Ctz(u) ==
  CHOOSE k \in 0 .. N :
    /\ \A i \in 0 .. N - 1 : Bit(u, i) = 1 => i >= k
    /\ k < N => Bit(u, k) = 1
PopCnt(u) == Cardinality({i \in 0 .. N - 1 : Bit(u, i) = 1})

WasmUn(o, x) ==
  LET u == Unsigned(x) IN
  Signed(CASE o = "i32.clz" -> Clz(u) [] o = "i32.ctz" -> Ctz(u)
           [] o = "i32.popcnt" -> PopCnt(u))

(* ieq .. ige_u *)
WasmRel(o, a, b) ==
  LET i1 == Unsigned(a)
      i2 == Unsigned(b)
  IN CASE o = "i32.eq"   -> i1 = i2
       [] o = "i32.ne"   -> i1 /= i2
       [] o = "i32.lt_u" -> i1 < i2
       [] o = "i32.gt_u" -> i1 > i2
       [] o = "i32.le_u" -> i1 <= i2
       [] o = "i32.ge_u" -> i1 >= i2
       [] o = "i32.lt_s" -> Signed(i1) < Signed(i2)
       [] o = "i32.gt_s" -> Signed(i1) > Signed(i2)
       [] o = "i32.le_s" -> Signed(i1) <= Signed(i2)
       [] o = "i32.ge_s" -> Signed(i1) >= Signed(i2)

(* idiv_s: the quotient truncated toward zero; undefined (a trap) when it  *)
(* is 2^(N-1).  irem_s: the remainder with the sign of the dividend.       *)
QuotS(j1, j2) ==
  CHOOSE q \in -AbsV(j1) .. AbsV(j1) :
    /\ AbsV(q * j2) <= AbsV(j1) /\ AbsV(j1) < AbsV(q * j2) + AbsV(j2)
    /\ (q /= 0 => ((q < 0) = ((j1 < 0) /= (j2 < 0))))
RemS(j1, j2) ==
  CHOOSE r \in -(AbsV(j2) - 1) .. AbsV(j2) - 1 :
    (j1 - r) % AbsV(j2) = 0 /\ (r /= 0 => ((r < 0) = (j1 < 0)))

WasmBinTraps(o, a, b) ==
  \/ o \in {"i32.div_s", "i32.div_u", "i32.rem_s", "i32.rem_u"} /\ Unsigned(b) = 0
  \/ o = "i32.div_s" /\ Unsigned(b) /= 0 /\ QuotS(a, b) = 2 ^ (N - 1)

WasmBin(o, a, b) ==
  LET i1 == Unsigned(a)
      i2 == Unsigned(b)
      k  == i2 % N
      Bits(f(_)) == Signed(FromBits(f, N))
  IN CASE o = "i32.add"   -> Signed((i1 + i2) % Mod)
       [] o = "i32.sub"   -> Signed((i1 - i2 + Mod) % Mod)
       [] o = "i32.mul"   -> Signed((a * b) % Mod)   \* a, b are congruent to i1, i2 mod 2^N
       [] o = "i32.div_u" -> Signed(i1 \div i2)
       [] o = "i32.rem_u" -> Signed(i1 - i2 * (i1 \div i2))
       [] o = "i32.div_s" -> QuotS(Signed(i1), Signed(i2))
       [] o = "i32.rem_s" -> RemS(Signed(i1), Signed(i2))
       [] o = "i32.and"   -> LET f(i) == Bit(i1, i) * Bit(i2, i) IN Bits(f)
       [] o = "i32.or"    -> LET f(i) == IF Bit(i1, i) + Bit(i2, i) > 0 THEN 1 ELSE 0
                             IN Bits(f)
       [] o = "i32.xor"   -> LET f(i) == (Bit(i1, i) + Bit(i2, i)) % 2 IN Bits(f)
       [] o = "i32.shl"   -> LET f(i) == IF i < k THEN 0 ELSE Bit(i1, i - k) IN Bits(f)
       [] o = "i32.shr_u" -> LET f(i) == IF i + k >= N THEN 0 ELSE Bit(i1, i + k) IN Bits(f)
       [] o = "i32.shr_s" -> LET f(i) == Bit(i1, IF i + k >= N THEN N - 1 ELSE i + k)
                             IN Bits(f)
       [] o = "i32.rotl"  -> LET f(i) == Bit(i1, (i - k + N) % N) IN Bits(f)
       [] o = "i32.rotr"  -> LET f(i) == Bit(i1, (i + k) % N) IN Bits(f)

(* iextendM_s: the low M bits read as a signed M-bit value; M is 8 or 16   *)
(* of 32, i.e. a quarter or a half of N.                                   *)
WasmExt(o, x) ==
  LET m == IF o = "i32.extend8_s" THEN N \div 4 ELSE N \div 2
      low == Unsigned(x) % 2 ^ m
  IN IF Bit(low, m - 1) = 1 THEN low - 2 ^ m ELSE low

\* The instructions these definitions cover, by their text-format names.
UnaryOps    == {"i32.clz", "i32.ctz", "i32.popcnt"}
Comparisons == {"i32.eq", "i32.ne", "i32.lt_s", "i32.lt_u", "i32.gt_s",
                "i32.gt_u", "i32.le_s", "i32.le_u", "i32.ge_s", "i32.ge_u"}
BinaryOps   == {"i32.add", "i32.sub", "i32.mul", "i32.div_s", "i32.div_u",
                "i32.rem_s", "i32.rem_u", "i32.and", "i32.or", "i32.xor",
                "i32.shl", "i32.shr_s", "i32.shr_u", "i32.rotl", "i32.rotr"}
Extensions  == {"i32.extend8_s", "i32.extend16_s"}
=============================================================================

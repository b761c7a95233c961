------------------------------ MODULE FloatTrunc ------------------------------
(***************************************************************************)
(* The float-to-integer conversions of src/src/interpreter.cpp: the eight *)
(* trapping helpers trunc_f32_s .. trunc_f64_u_to_i64, the templates       *)
(* trunc_sat_signed / trunc_sat_unsigned, and the opcode cases that call   *)
(* them (0xA8-0xAB, 0xAE-0xB1, 0xFC 0x00-0x07).                            *)
(*                                                                         *)
(* Each helper truncates its operand and compares the result with the     *)
(* integer type's limits converted to double or long double; that         *)
(* conversion rounds to the nearest value of the type's precision.  The   *)
(* model keeps the widths in proportion: i32 and i64 are IntWidth and     *)
(* Int64Width bits, a float, a double and a long double have F32Bits,     *)
(* F64Bits and LongDoubleBits significant bits (24, 53, 64 on x87, so     *)
(* a float cannot hold INT32_MAX, a double can, and only a long double of *)
(* 64 bits holds INT64_MAX and UINT64_MAX).  A finite value is an integer *)
(* multiple of 2^-ScaleBits; NaN and the infinities are records apart.    *)
(***************************************************************************)
EXTENDS Integers

CONSTANTS IntWidth, Int64Width, F32Bits, F64Bits, LongDoubleBits, ScaleBits

Scale == 2 ^ ScaleBits

Fin(v)  == [k |-> "fin", v |-> v]      \* v / Scale
NaN     == [k |-> "nan", v |-> 0]
Inf(s)  == [k |-> "inf", v |-> s]      \* s = 1 or -1

Trapped  == [trap |-> TRUE, val |-> 0]
Value(v) == [trap |-> FALSE, val |-> v]

AbsF(x) == IF x < 0 THEN -x ELSE x

RECURSIVE BitLen(_)
BitLen(n) == IF n = 0 THEN 0 ELSE 1 + BitLen(n \div 2)

\* static_cast<double>(n) or static_cast<long double>(n) of an integer n:
\* the nearest value with `bits` significant bits, ties to even.
RoundTo(n, bits) ==
  LET a == AbsF(n)
      e == IF BitLen(a) > bits THEN BitLen(a) - bits ELSE 0
      q == a \div 2 ^ e
      r == a % 2 ^ e
      up == e > 0 /\ (r > 2 ^ (e - 1) \/ (r = 2 ^ (e - 1) /\ q % 2 = 1))
      m == (IF up THEN q + 1 ELSE q) * 2 ^ e
  IN IF n < 0 THEN -m ELSE m

ToDouble(n) == RoundTo(n, F64Bits)

\* Mutant: a long double no wider than a double (as MSVC builds it).
ToLongDoubleAsDouble(n) == RoundTo(n, F64Bits)

ToLongDouble(n) == RoundTo(n, LongDoubleBits)

\* std::trunc, in whole units; an infinity stays one.
Trunc(x) == IF x.k = "fin"
            THEN [k |-> "fin", v |-> IF x.v < 0 THEN -((-x.v) \div Scale) ELSE x.v \div Scale]
            ELSE x
Below(t, b) == IF t.k = "inf" THEN t.v < 0 ELSE t.v < b
Above(t, b) == IF t.k = "inf" THEN t.v > 0 ELSE t.v > b

\* static_cast<Int>(t) of a truncated value: its value when it fits
\* lo .. hi, otherwise undefined behaviour (any value of the type).
Cast(t, lo, hi) == IF t.k = "fin" /\ t.v \in lo .. hi THEN {Value(t.v)}
                   ELSE {Value(v) : v \in lo .. hi}

MinS(w) == -(2 ^ (w - 1))
MaxS(w) == 2 ^ (w - 1) - 1
MaxU(w) == 2 ^ w - 1

\* A trapping helper of a signed result: NaN traps; the truncation is
\* compared with min and max converted by conv; in range it is cast.
TruncS(x, w, conv(_)) ==
  IF x.k = "nan" THEN {Trapped}
  ELSE LET t == Trunc(x) IN
       IF Below(t, conv(MinS(w))) \/ Above(t, conv(MaxS(w))) THEN {Trapped}
       ELSE Cast(t, MinS(w), MaxS(w))

\* A trapping helper of an unsigned result: below 0 (not -0) traps.
TruncU(x, w, conv(_)) ==
  IF x.k = "nan" THEN {Trapped}
  ELSE LET t == Trunc(x) IN
       IF Below(t, 0) \/ Above(t, conv(MaxU(w))) THEN {Trapped}
       ELSE Cast(t, 0, MaxU(w))

TruncF32S(x)      == TruncS(x, IntWidth, ToDouble)
TruncF32U(x)      == TruncU(x, IntWidth, ToDouble)
TruncF64S(x)      == TruncS(x, IntWidth, ToDouble)
TruncF64U(x)      == TruncU(x, IntWidth, ToDouble)
TruncF32SToI64(x) == TruncS(x, Int64Width, ToLongDouble)
TruncF32UToI64(x) == TruncU(x, Int64Width, ToLongDouble)
TruncF64SToI64(x) == TruncS(x, Int64Width, ToLongDouble)
TruncF64UToI64(x) == TruncU(x, Int64Width, ToLongDouble)

\* trunc_sat_signed<Int>: NaN gives 0; at or below min, min; at or above
\* max, max (both limits as long double); otherwise the cast.
TruncSatSigned(x, w) ==
  IF x.k = "nan" THEN {Value(0)}
  ELSE LET t == Trunc(x) IN
       IF ~Above(t, ToLongDouble(MinS(w))) THEN {Value(MinS(w))}
       ELSE IF ~Below(t, ToLongDouble(MaxS(w))) THEN {Value(MaxS(w))}
       ELSE Cast(t, MinS(w), MaxS(w))

\* trunc_sat_unsigned<UInt>: NaN and anything at or below 0 give 0.
TruncSatUnsigned(x, w) ==
  IF x.k = "nan" THEN {Value(0)}
  ELSE LET t == Trunc(x) IN
       IF ~Above(t, 0) THEN {Value(0)}
       ELSE IF ~Below(t, ToLongDouble(MaxU(w))) THEN {Value(MaxU(w))}
       ELSE Cast(t, 0, MaxU(w))

\* The value pushed: unsigned results are static_cast to the signed type.
AsSignedV(r, w) == IF ~r.trap /\ r.val >= 2 ^ (w - 1) THEN Value(r.val - 2 ^ w) ELSE r
Pushed(S, w) == {AsSignedV(r, w) : r \in S}

\* The opcode cases: the operand type, the width, and the helper.
TruncOps == {"i32.trunc_f32_s", "i32.trunc_f32_u", "i32.trunc_f64_s", "i32.trunc_f64_u",
             "i64.trunc_f32_s", "i64.trunc_f32_u", "i64.trunc_f64_s", "i64.trunc_f64_u"}
SatOps   == {"i32.trunc_sat_f32_s", "i32.trunc_sat_f32_u", "i32.trunc_sat_f64_s",
             "i32.trunc_sat_f64_u", "i64.trunc_sat_f32_s", "i64.trunc_sat_f32_u",
             "i64.trunc_sat_f64_s", "i64.trunc_sat_f64_u"}
Conversion(o, x) ==
  CASE o = "i32.trunc_f32_s"     -> TruncF32S(x)
    [] o = "i32.trunc_f32_u"     -> Pushed(TruncF32U(x), IntWidth)
    [] o = "i32.trunc_f64_s"     -> TruncF64S(x)
    [] o = "i32.trunc_f64_u"     -> Pushed(TruncF64U(x), IntWidth)
    [] o = "i64.trunc_f32_s"     -> TruncF32SToI64(x)
    [] o = "i64.trunc_f32_u"     -> Pushed(TruncF32UToI64(x), Int64Width)
    [] o = "i64.trunc_f64_s"     -> TruncF64SToI64(x)
    [] o = "i64.trunc_f64_u"     -> Pushed(TruncF64UToI64(x), Int64Width)
    [] o = "i32.trunc_sat_f32_s" -> TruncSatSigned(x, IntWidth)
    [] o = "i32.trunc_sat_f32_u" -> Pushed(TruncSatUnsigned(x, IntWidth), IntWidth)
    [] o = "i32.trunc_sat_f64_s" -> TruncSatSigned(x, IntWidth)
    [] o = "i32.trunc_sat_f64_u" -> Pushed(TruncSatUnsigned(x, IntWidth), IntWidth)
    [] o = "i64.trunc_sat_f32_s" -> TruncSatSigned(x, Int64Width)
    [] o = "i64.trunc_sat_f32_u" -> Pushed(TruncSatUnsigned(x, Int64Width), Int64Width)
    [] o = "i64.trunc_sat_f64_s" -> TruncSatSigned(x, Int64Width)
    [] o = "i64.trunc_sat_f64_u" -> Pushed(TruncSatUnsigned(x, Int64Width), Int64Width)
-----------------------------------------------------------------------------
(* Reference: WebAssembly 2.0 section 4.3.3, trunc_u/trunc_s and           *)
(* trunc_sat_u/trunc_sat_s on the exact value, and the result read as the  *)
(* signed stack value.                                                     *)
ResultWidth(o) == IF o \in {"i32.trunc_f32_s", "i32.trunc_f32_u", "i32.trunc_f64_s",
                            "i32.trunc_f64_u", "i32.trunc_sat_f32_s", "i32.trunc_sat_f32_u",
                            "i32.trunc_sat_f64_s", "i32.trunc_sat_f64_u"}
                 THEN IntWidth ELSE Int64Width
IsSigned(o) == o \in {"i32.trunc_f32_s", "i32.trunc_f64_s", "i64.trunc_f32_s", "i64.trunc_f64_s",
                      "i32.trunc_sat_f32_s", "i32.trunc_sat_f64_s", "i64.trunc_sat_f32_s",
                      "i64.trunc_sat_f64_s"}

WasmConversion(o, x) ==
  LET w  == ResultWidth(o)
      lo == IF IsSigned(o) THEN MinS(w) ELSE 0
      hi == IF IsSigned(o) THEN MaxS(w) ELSE MaxU(w)
      r  == Trunc(x).v
      signed(v) == IF v > MaxS(w) THEN v - 2 ^ w ELSE v
  IN IF o \in TruncOps
     THEN IF x.k /= "fin" \/ r < lo \/ r > hi THEN Trapped ELSE Value(signed(r))
     ELSE CASE x.k = "nan"              -> Value(0)
            [] Below(Trunc(x), lo)      -> Value(signed(lo))
            [] Above(Trunc(x), hi)      -> Value(signed(hi))
            [] OTHER                    -> Value(signed(r))
=============================================================================

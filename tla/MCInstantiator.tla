-------------------------- MODULE MCInstantiator --------------------------
(***************************************************************************)
(* A host registry and modules for load: one that instantiates (every      *)
(* import kind, a global read by another, overlapping data segments, an    *)
(* element segment at a global offset, a duplicate export name and a start *)
(* function), and modules that each fail at a different check of          *)
(* instantiate(), among them one that traps at a data segment after its    *)
(* functions were appended.                                                *)
(***************************************************************************)
EXTENDS Instantiator, TLC

\* FunctionType: parameter and result lists.
T0 == [params |-> <<"i32">>, results |-> <<"i32">>]
T1 == [params |-> << >>, results |-> << >>]

Lim(mn, mx)   == [min |-> mn, max |-> mx]
TabT(t, l)    == [elem |-> t, limits |-> l]
GlobT(vt, m)  == [vt |-> vt, mut |-> m]
\* A constant expression: i32.const v, or global.get i.
ConstE(v)     == [kind |-> "const", value |-> I32V(v), index |-> 0]
GetE(i)       == [kind |-> "global.get", value |-> I32V(0), index |-> i]
Imp(k, key, t) == [kind |-> k, key |-> key, type |-> t]
Exp(n, k, i)  == [name |-> n, kind |-> k, index |-> i]
Data(m, off, b, p) == [mem |-> m, offset |-> off, bytes |-> b, passive |-> p]
Elem(t, off, fs)   == [table |-> t, offset |-> off, funcs |-> fs]

\* A module: EmptyModule with the given fields replaced.
Mod(f) == [k \in DOMAIN EmptyModule |-> IF k \in DOMAIN f THEN f[k] ELSE EmptyModule[k]]

MCHostFuncs   == "env.f" :> T0
MCHostMems    == ("env.mem" :> [type |-> Lim(1, <<2>>), data |-> <<0, 0, 0, 0>>])
                 @@ ("env.big" :> [type |-> Lim(1, <<1>>), data |-> <<0, 0, 0, 0>>])
                 @@ ("env.zero" :> [type |-> Lim(1, << >>), data |-> << >>])
MCHostTables  == "env.tab" :> [type |-> TabT("funcref", Lim(2, << >>)),
                                elements |-> <<FuncRefV(0), NullRef("funcref")>>]
MCHostGlobals == "env.g" :> [type |-> GlobT("i32", FALSE), value |-> I32V(1)]

\* Instantiates: f, two local functions; env.mem gets bytes 1 3 at 0 1
\* (the second segment, at global 0 = 1, overwrites the first's second
\* byte); env.tab gets funcref 2 at global 1 = 1; "run" is exported twice
\* and the first (function 1) wins; start is function 1.
ModA == Mod([types   |-> <<T0, T1>>,
             imports |-> <<Imp("func", "env.f", 0), Imp("memory", "env.mem", Lim(1, <<2>>)),
                           Imp("global", "env.g", GlobT("i32", FALSE)),
                           Imp("table", "env.tab", TabT("funcref", Lim(2, << >>)))>>,
             funcs   |-> <<1, 0>>,
             tables  |-> <<TabT("externref", Lim(1, << >>))>>,
             globals |-> <<[type |-> GlobT("i32", FALSE), init |-> GetE(0)]>>,
             datas   |-> <<Data(0, ConstE(0), <<1, 2>>, FALSE), Data(0, GetE(0), <<3>>, FALSE),
                           Data(0, ConstE(0), <<5>>, TRUE)>>,
             elems   |-> <<Elem(0, GetE(1), <<2>>), Elem(1, ConstE(0), << >>)>>,
             exports |-> <<Exp("run", "func", 1), Exp("mem", "memory", 0),
                           Exp("run", "func", 2), Exp("imp", "func", 0)>>,
             start   |-> <<1>>])

\* Two functions, then a data segment at i32 -1 (offset 2^w - 1): Trap.
ModB == Mod([types |-> <<T1>>, funcs |-> <<0, 0>>, mems |-> <<Lim(1, << >>)>>,
             datas |-> <<Data(0, ConstE(-1), <<1>>, FALSE)>>,
             exports |-> <<Exp("run", "func", 0)>>])

\* env.f imported at a type it does not have.
ModC == Mod([types |-> <<T1>>, imports |-> <<Imp("func", "env.f", 0)>>])

\* env.big holds two pages, its limits allow one.
ModD == Mod([imports |-> <<Imp("memory", "env.big", Lim(1, <<1>>))>>])

\* An element segment with functions into an externref table; zero pages
\* from a host memory without bytes.
ModE == Mod([types |-> <<T1>>, funcs |-> <<0>>,
             imports |-> <<Imp("memory", "env.zero", Lim(1, << >>))>>,
             tables |-> <<TabT("externref", Lim(1, << >>))>>,
             elems |-> <<Elem(0, ConstE(0), <<0>>)>>])

\* A global initialised from itself.
ModF == Mod([globals |-> <<[type |-> GlobT("i32", TRUE), init |-> GetE(0)]>>])

\* A start index with no function behind it.
ModG == Mod([start |-> <<0>>])

\* A function of type 1 with one type; an element segment past its table;
\* a data segment into a missing memory; a missing import.
ModH == Mod([types |-> <<T1>>, funcs |-> <<1>>])
ModI == Mod([tables |-> <<TabT("funcref", Lim(1, << >>))>>,
             elems |-> <<Elem(0, ConstE(1), <<0>>)>>])
ModJ == Mod([datas |-> <<Data(0, ConstE(0), <<1>>, FALSE)>>])
ModK == Mod([imports |-> <<Imp("global", "env.h", GlobT("i32", FALSE))>>])

\* Two data segments into one page of 2 bytes: 7 at 0 fits, 8 9 at 1 runs
\* one byte past the end (Trap) after the first was copied; an element
\* segment after them is never applied.
ModL == Mod([types |-> <<T1>>, funcs |-> <<0>>, mems |-> <<Lim(1, << >>)>>,
             tables |-> <<TabT("funcref", Lim(1, << >>))>>,
             datas |-> <<Data(0, ConstE(0), <<7>>, FALSE), Data(0, ConstE(1), <<8, 9>>, FALSE)>>,
             elems |-> <<Elem(0, ConstE(0), <<0>>)>>])

MCModules == {ModA, ModB, ModC, ModD, ModE, ModF, ModG, ModH, ModI, ModJ, ModK, ModL}
\* A load that succeeds, then one that fails after appending functions.
MCStaleModules == {ModA, ModB}
=============================================================================

----------------------------- MODULE WasmValues -----------------------------
(***************************************************************************)
(* The wasm::Value of src/unnamed/part_003 (types.hpp) for the value types *)
(* the models use: i32 and the two reference types.  A value is a record   *)
(* of its type, its payload (the int32_t, or the function index or handle  *)
(* of a reference) and the ref_is_null flag.                               *)
(***************************************************************************)
EXTENDS Integers

RefTypes   == {"funcref", "externref"}
ValueTypes == {"i32"} \cup RefTypes

\* Value::make<int32_t>(n)
I32V(n) == [type |-> "i32", val |-> n, null |-> FALSE]

\* make_funcref_null / make_externref_null: storage.ref = 0, null flag set.
NullRef(t) == [type |-> t, val |-> 0, null |-> TRUE]

\* make_funcref(index)
FuncRefV(i) == [type |-> "funcref", val |-> i, null |-> FALSE]

\* Value::is_null_ref: a reference type with the null flag.
IsNullRef(v) == v.type \in RefTypes /\ v.null

\* zero_value(type): 0 for i32, the null reference for a reference type.
ZeroValue(t) == IF t = "i32" THEN I32V(0) ELSE NullRef(t)
=============================================================================

--------------------------- MODULE BlockAnalyzer ---------------------------
(***************************************************************************)
(* The block analyzer of the execution engine: analyze_block() in          *)
(* src/src/interpreter.cpp.  Given a function body and the offset just     *)
(* past a block/loop/if header, it scans forward tracking the nesting      *)
(* depth and returns the offset of the matching `end`, the offset past it, *)
(* and the offset of an `else` met at depth 1 together with the offset     *)
(* past that `else`.                                                       *)
(*                                                                         *)
(* A body is a sequence of instruction records [op |-> ..., ...]; the      *)
(* immediates of an instruction are fields of its record, so the byte      *)
(* skipping done by skip_immediate() is the step from one record to the    *)
(* next, and a byte offset is the index of a record.  The offset past an   *)
(* instruction is therefore its index + 1.                                 *)
(***************************************************************************)
LOCAL INSTANCE Naturals
LOCAL INSTANCE Sequences
LOCAL INSTANCE FiniteSets

\* The opcodes that open a structured block (0x02, 0x03, 0x04).
Opens(op) == op \in {"block", "loop", "if"}

(***************************************************************************)
(* analyze_block(code, body_start): the scan loop.  `depth` starts at 1;   *)
(* block/loop/if increment it, `end` decrements it and the scan returns at *)
(* depth 0; an `else` at depth 1 overwrites the recorded else offsets.     *)
(* Running off the end of the code throws "Unexpected end of code while    *)
(* analyzing block", modelled as a result with ok = FALSE.                 *)
(***************************************************************************)
RECURSIVE Scan(_, _, _, _)

\* Mutant: an else is recorded at any depth, nested ones included.
ScanAnyElse(code, i, depth, elsePc) ==
  IF i > Len(code)
    THEN [ok |-> FALSE, end_pc |-> 0, end_next_pc |-> 0,
          else_pc |-> 0, else_body_pc |-> 0]
  ELSE LET op == code[i].op IN
       CASE Opens(op)     -> Scan(code, i + 1, depth + 1, elsePc)
         [] op = "else"   -> Scan(code, i + 1, depth, i)
         [] op = "end"    -> IF depth - 1 = 0
                               THEN [ok |-> TRUE, end_pc |-> i, end_next_pc |-> i + 1,
                                     else_pc |-> elsePc,
                                     else_body_pc |-> IF elsePc = 0 THEN 0 ELSE elsePc + 1]
                               ELSE Scan(code, i + 1, depth - 1, elsePc)
         [] OTHER         -> Scan(code, i + 1, depth, elsePc)

Scan(code, i, depth, elsePc) ==
  IF i > Len(code)
    THEN [ok |-> FALSE, end_pc |-> 0, end_next_pc |-> 0,
          else_pc |-> 0, else_body_pc |-> 0]
  ELSE LET op == code[i].op IN
       CASE Opens(op)     -> Scan(code, i + 1, depth + 1, elsePc)
         [] op = "else"   -> Scan(code, i + 1, depth,
                                  IF depth = 1 THEN i ELSE elsePc)
         [] op = "end"    -> IF depth - 1 = 0
                               THEN [ok          |-> TRUE,
                                     end_pc      |-> i,
                                     end_next_pc |-> i + 1,
                                     else_pc     |-> elsePc,
                                     else_body_pc |->
                                        IF elsePc = 0 THEN 0 ELSE elsePc + 1]
                               ELSE Scan(code, i + 1, depth - 1, elsePc)
         [] OTHER         -> Scan(code, i + 1, depth, elsePc)

\* else_pc = 0 stands for the empty std::optional.
AnalyzeBlock(code, bodyStart) == Scan(code, bodyStart, 1, 0)

(***************************************************************************)
(* Reference definition of block structure, independent of the scan: the  *)
(* nesting depth in front of position j of a block whose body starts at s  *)
(* is one plus the opens minus the ends in s..j-1.  The matching end is    *)
(* the first `end` met at depth 1, and the else of the block is an `else`  *)
(* met at depth 1 before it.                                               *)
(***************************************************************************)
DepthBefore(code, s, j) ==
  1 + Cardinality({k \in s .. j - 1 : Opens(code[k].op)})
    - Cardinality({k \in s .. j - 1 : code[k].op = "end"})

EndsAtDepthOne(code, s) ==
  {j \in s .. Len(code) : code[j].op = "end" /\ DepthBefore(code, s, j) = 1}

HasMatchingEnd(code, s) == EndsAtDepthOne(code, s) /= {}

MatchingEnd(code, s) ==
  CHOOSE j \in EndsAtDepthOne(code, s) :
    \A k \in EndsAtDepthOne(code, s) : j <= k

ElsesOfBlock(code, s) ==
  {k \in s .. MatchingEnd(code, s) - 1 :
      code[k].op = "else" /\ DepthBefore(code, s, k) = 1}
=============================================================================

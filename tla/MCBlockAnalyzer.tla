-------------------------- MODULE MCBlockAnalyzer --------------------------
(***************************************************************************)
(* Checks analyze_block() against the reference definition of block        *)
(* structure over every body of at most MaxLen instructions drawn from the *)
(* structured opcodes and one plain opcode.  The state is the body under   *)
(* analysis; Init enumerates them and Next leaves it unchanged.            *)
(***************************************************************************)
EXTENDS Naturals, Sequences, FiniteSets, BlockAnalyzer

CONSTANT MaxLen   \* longest body analysed

VARIABLE body

\* Every instruction kind the scan distinguishes: the three openers, else,
\* end, and an opcode whose immediates are skipped (skip_immediate default).
Instrs == {[op |-> o] : o \in {"block", "loop", "if", "else", "end", "nop"}}

Bodies == UNION {[1 .. n -> Instrs] : n \in 1 .. MaxLen}

Init == body \in Bodies
Next == UNCHANGED body
Spec == Init /\ [][Next]_body


(***************************************************************************)
(* analyze_block finds the block's matching end exactly when one exists,   *)
(* returns it and the offset past it, and any else it returns is an else   *)
(* of this block (at depth 1, before the end) whose body starts right      *)
(* after it; it reports no else only when the block has none.              *)
(***************************************************************************)
AnalyzerAgrees ==
  LET r == AnalyzeBlock(body, 1) IN
  IF ~HasMatchingEnd(body, 1) THEN ~r.ok
  ELSE /\ r.ok
       /\ r.end_pc = MatchingEnd(body, 1)
       /\ r.end_next_pc = r.end_pc + 1
       /\ (r.else_pc = 0) <=> (ElsesOfBlock(body, 1) = {})
       /\ r.else_pc /= 0 => /\ r.else_pc \in ElsesOfBlock(body, 1)
                            /\ r.else_body_pc = r.else_pc + 1

=============================================================================

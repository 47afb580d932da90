------------------------------ MODULE IRNodes ------------------------------
(***************************************************************************)
(* The intermediate representation the converter hands to the translator:  *)
(* an array of nodes (IRNode_t, Backend/include/backendStructs.h), numbered*)
(* from 1 here and from 0 in the code.                                     *)
(*                                                                         *)
(* addr is addr.offset: the variable's word, the destination of a jump, a  *)
(* name table index or a number of variables; local chooses rbp or rbx for *)
(* an operand, and tells the label of a jump from the label of a function; *)
(* arg is pushType or cmpType.  Comments are left out, the nodes they take *)
(* (IR_NOP) are kept.                                                      *)
(***************************************************************************)
EXTENDS Integers, Sequences

Binary     == {"ADD", "SUB", "MUL", "DIV"}
Comparison == {"LT", "GT", "LE", "GE", "EQ", "NEQ"}
Args       == {"none", "imm", "mem", "reg"} \union Comparison
NodeTypes  == Binary \union
  {"NOP", "SQRT", "CMP", "PUSH", "POP", "VAR_DECL", "LABEL", "JMP", "JZ",
   "CALL", "RET", "SET_FRAME_PTR", "LEAVE_SCOPE", "START", "EXIT"}

IsIR(ir) ==
  /\ ir \in Seq([type : NodeTypes, addr : Int, local : BOOLEAN, arg : Args])
  /\ \A k \in 1..Len(ir) : ir[k].type \in {"JMP", "JZ"} => ir[k].addr \in 1..Len(ir)

Bare(type)       == [type |-> type, addr |-> 0, local |-> FALSE, arg |-> "none"]
JumpTo(type, k)  == [Bare(type) EXCEPT !.addr = k]
LocalLabel       == [Bare("LABEL") EXCEPT !.local = TRUE]
FuncLabel(f)     == [Bare("LABEL") EXCEPT !.addr = f]
CallNode(f)      == [Bare("CALL") EXCEPT !.addr = f]
PushImm(v)       == [Bare("PUSH") EXCEPT !.arg = "imm", !.addr = v]
PushReg          == [Bare("PUSH") EXCEPT !.arg = "reg"]
LeaveNode(n)     == [Bare("LEAVE_SCOPE") EXCEPT !.addr = n]
VarDeclNode(in)  == [Bare("VAR_DECL") EXCEPT !.local = ~in]
CmpNode(how)     == [Bare("CMP") EXCEPT !.arg = how]

-----------------------------------------------------------------------------
(* The label a call goes to, if its function has any: the last one before  *)
(* the call, else the last one.                                            *)
IsLabelOf(ir, m, f) == ir[m].type = "LABEL" /\ ~ir[m].local /\ ir[m].addr = f

LastLabelBefore(ir, k, f, m) ==
  /\ m \in 1..k-1 /\ IsLabelOf(ir, m, f)
  /\ \A x \in 1..k-1 : IsLabelOf(ir, x, f) => x <= m

NoLabelBefore(ir, k, f) == \A x \in 1..k-1 : ~IsLabelOf(ir, x, f)

CallGoesTo(ir, k, m) ==
  LET f == ir[k].addr
  IN \/ LastLabelBefore(ir, k, f, m)
     \/ NoLabelBefore(ir, k, f) /\ LastLabelBefore(ir, Len(ir) + 1, f, m)
=============================================================================

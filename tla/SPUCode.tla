------------------------------ MODULE SPUCode ------------------------------
(***************************************************************************)
(* The assembler the SPU back end prints (Backend/source/backend_Spu.c):   *)
(* instructions with their operand, label definitions, and the routines    *)
(* translateAsmSTD appends.  A label is <<kind, number>>; comments and the *)
(* spelling of operands are left out.                                      *)
(***************************************************************************)
EXTENDS Integers, Sequences

CONSTANT TaxCoeff  \* TAX_COEFF, an integer here

ASSUME TaxCoeffAssumption == TaxCoeff \in Int

LOCAL NoLabel == <<"", 0>>

Ins(op, arg, n) == [op |-> op, arg |-> arg, n |-> n, to |-> NoLabel]
Plain(op)       == Ins(op, "", 0)
To(op, label)   == [Ins(op, "label", 0) EXCEPT !.to = label]
Mark(label)     == To("LABEL", label)

PushNum(n) == Ins("PUSH", "num", n)

(* What LocalsStackSearchPrint prints: [rbx + address] or [address].       *)
VarWord(op, local, address) == Ins(op, IF local THEN "local" ELSE "global", address)

Jumps == {"JMP", "JE", "JNE", "JB", "JA", "JAE", "JBE"}

(* The routine an operator's asmStr calls, in the order of translateAsmSTD.*)
Comparisons == <<<<"LT", "JB">>, <<"GT", "JA">>, <<"GE", "JAE">>, <<"LE", "JBE">>,
                 <<"EQ", "JE">>, <<"NEQ", "JNE">>>>
Comparison  == {"LT", "GT", "LE", "GE", "EQ", "NEQ"}
Arithmetic  == {"ADD", "SUB", "MUL", "DIV"}

OperatorCode(op) ==
  IF op \in Comparison THEN To("CALL", <<op, 0>>) ELSE Plain(op)

Routine_Swapped(op, jump) ==
  <<Mark(<<op, 0>>), To(jump, <<op, 1>>), PushNum(1), Plain("RET"),
    Mark(<<op, 1>>), PushNum(0), Plain("RET")>>

Routine(op, jump) ==
  <<Mark(<<op, 0>>), To(jump, <<op, 1>>), PushNum(0), Plain("RET"),
    Mark(<<op, 1>>), PushNum(1), Plain("RET")>>

Taxing == <<"__TAXES", 0>>

TaxesRoutine ==
  <<Mark(Taxing), Ins("PUSH", "rax", 0), PushNum(TaxCoeff), Plain("MUL"),
    Ins("POP", "rax", 0), Plain("RET")>>

StdRoutines ==
  LET routines[k \in 0..Len(Comparisons)] ==
        IF k = 0 THEN <<>>
        ELSE routines[k-1] \o Routine(Comparisons[k][1], Comparisons[k][2])
  IN routines[Len(Comparisons)] \o TaxesRoutine
=============================================================================

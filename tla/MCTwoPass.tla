----------------------------- MODULE MCTwoPass -----------------------------
(* TLC instance of TwoPass: arrays of every three of the nodes whose       *)
(* translation depends on others, then one node of each other kind.        *)
EXTENDS TwoPass

MCId == 0..3
MCArgsCount == [f \in MCId |-> IF f \in {0, 3} THEN 1 ELSE 0]

Tail3 == <<PushImm(7), PushReg, [Bare("PUSH") EXCEPT !.arg = "mem"], Bare("ADD"),
           Bare("SQRT"), CmpNode("LT"), Bare("POP"), Bare("VAR_DECL"), CallNode(0),
           Bare("SET_FRAME_PTR"), Bare("RET"), LocalLabel, Bare("EXIT")>>

Targets == {2, 3, 4, 16}

Choices ==
  {Bare("NOP"), LocalLabel, FuncLabel(0), FuncLabel(1), CallNode(0), CallNode(1),
   CallNode(2), CallNode(3), LeaveNode(0), LeaveNode(2)}
  \union {JumpTo(type, k) : type \in {"JMP", "JZ"}, k \in Targets}

MCIRs ==
  {code \in {<<Bare("START"), x, y, z>> \o Tail3 : x, y, z \in Choices} :
     \A k \in 2..4 : code[k].type \in {"JMP", "JZ"} =>
                       code[code[k].addr] = LocalLabel}
=============================================================================

------------------------------ MODULE MoneySPU ------------------------------
(***************************************************************************)
(* The SPU back end and the processor that runs what it prints.  As with   *)
(* the x86 back end (MoneyLang), the property of interest is that a        *)
(* program does what its text says (MoneySemantics).                       *)
(*                                                                         *)
(* The back end does not translate every legal program so that it does.    *)
(* Supported names the ones it is not made for: two are TODOs of           *)
(* translateCall, a third is the scope both branches of an if share.       *)
(***************************************************************************)
EXTENDS SPUBackend

CONSTANTS RamWords, Inputs

VARIABLES ram, operands, returns, rbx, rax, pc, input, out, process, bases,
          given  \* history: the whole input

M   == INSTANCE SPUMachine
Ref == INSTANCE MoneySemantics

processVars ==
  <<ram, operands, returns, rbx, rax, pc, input, out, process, bases, given>>

vars == <<convVars, processVars>>

SPUInit ==
  /\ Init
  /\ input \in Inputs /\ given = input
  /\ M!MachineInit

Compile == ConvertNext /\ UNCHANGED processVars

Execute ==
  /\ status = "BACKEND_SUCCESS"
  /\ M!MachineNext
  /\ UNCHANGED <<convVars, given>>

Stopped == status \notin {"converting", "BACKEND_SUCCESS"} \/ process # "running"

SPUNext ==
  \/ Compile
  \/ Execute
  \/ Stopped /\ UNCHANGED vars

SPUSpec == SPUInit /\ [][SPUNext]_vars /\ WF_vars(Compile) /\ WF_vars(Execute)

-----------------------------------------------------------------------------
RECURSIVE Parts(_)
Parts(n) == IF n = Nothing THEN {} ELSE {n} \union Parts(n.l) \union Parts(n.r)

PartsOf(n, op) == {m \in Parts(n) : m.op = op}

(* The word of the n-th argument is where a call inside a later argument   *)
(* stores its own n-th.                                                    *)
CallsFirst(call) ==
  \A k \in 2..Len(Ref!ArgList(call.r)) : PartsOf(Ref!ArgList(call.r)[k], "CALL") = {}

(* A call whose result nobody takes leaves it on the operand stack, where  *)
(* the end of the function's own call looks for rbx.                       *)
ResultsUsed(function) == \A s \in PartsOf(function.r, "SEP") : s.l.op # "CALL"

(* What the first branch declares is still in scope in the second.         *)
BranchesApart(if) ==
  if.r.op = "ELSE" =>
    {d.l.v : d \in PartsOf(if.r.l, "VAR_DECL")}
      \intersect {x.v : x \in PartsOf(if.r.r, "IDENTIFIER")} = {}

Supported(tree) ==
  /\ Ref!Legal(tree)
  /\ \A call \in PartsOf(tree, "CALL") : CallsFirst(call)
  /\ \A function \in PartsOf(tree, "FUNC_DECL") : ResultsUsed(function)
  /\ \A if \in PartsOf(tree, "IF") : BranchesApart(if)

-----------------------------------------------------------------------------
(* A supported program that halts has printed what its text says, each     *)
(* value a function paid taxed if the user asked for it.                   *)
OutputCorrect ==
  process = "halt" /\ Supported(ast) =>
    out = Ref!OutputOn(ast, given, TRUE, IF Taxed(ast) THEN TaxCoeff ELSE 1)

(* Every legal program is translated, whatever constructs it has.          *)
TranslatesLegal ==
  status \notin {"converting", "BACKEND_SUCCESS"} => ~Ref!Legal(ast)

(* The instruction after a call, `restoring rbx', takes the caller's base  *)
(* from the operand stack and nothing else: whatever was evaluated between *)
(* left the stack as it found it.                                          *)
RestoresBase ==
  [][Len(bases') < Len(bases) /\ Supported(ast) => rbx' = Head(bases)]_vars

(* Every tree is translated or refused; a supported program then halts or, *)
(* as only one that recurses without end does, runs out of memory.  It     *)
(* never lacks an operand, a label or a return address.                    *)
SPUStops ==
  <>(/\ status # "converting"
     /\ status = "BACKEND_SUCCESS" =>
          process \in {"halt", "segv"} \/ (process = "fault" /\ ~Supported(ast)))
=============================================================================

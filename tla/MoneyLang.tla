----------------------------- MODULE MoneyLang -----------------------------
(***************************************************************************)
(* The x86 back end and the process it produces: a tree is converted to IR *)
(* (IRConverter) and, if that succeeds, the IR is run (IRMachine).  The    *)
(* property of interest is that a compiled program does what its text says *)
(* (MoneySemantics).                                                       *)
(***************************************************************************)
EXTENDS IRConverter

CONSTANTS
  StackWords,  \* words of machine stack
  Inputs       \* number sequences on standard input

VARIABLES
  mem, rsp, rbp, rbx, rax, pc, afterCall, input, out, process, calls,
  given        \* history: the whole input

M   == INSTANCE IRMachine
Ref == INSTANCE MoneySemantics

processVars ==
  <<mem, rsp, rbp, rbx, rax, pc, afterCall, input, out, process, calls, given>>

vars == <<convVars, processVars>>

MLInit ==
  /\ Init
  /\ input \in Inputs /\ given = input
  /\ M!MachineInit

Compile == ConvertNext /\ UNCHANGED processVars

Execute ==
  /\ status = "BACKEND_SUCCESS"
  /\ M!MachineNext
  /\ UNCHANGED <<convVars, given>>

Stopped == status \notin {"converting", "BACKEND_SUCCESS"} \/ process # "running"

MLNext ==
  \/ Compile
  \/ Execute
  \/ Stopped /\ UNCHANGED vars

MLSpec == MLInit /\ [][MLNext]_vars /\ WF_vars(Compile) /\ WF_vars(Execute)

-----------------------------------------------------------------------------
(* A program that ends has printed what its text says, in that order.      *)
OutputCorrect == process = "exit" => out = Ref!Output(ast, given)

(* The converter accepts exactly the programs that use names in scope and  *)
(* call functions with the number of arguments they take.                  *)
AcceptsLegal ==
  status # "converting" => (status = "BACKEND_SUCCESS" <=> Ref!Legal(ast))

(* What the scope stack still holds after the walk, the global variables,  *)
(* is what the program has on the machine stack when it exits.             *)
StackBalanced == process = "exit" => rsp = -stk.size /\ calls = <<>>

(* Returning undoes the call: execution goes on at the call that is        *)
(* innermost, with the caller's frame and the stack as the call found it.  *)
ReturnsToCaller ==
  [][Len(calls') < Len(calls) =>
       /\ pc' = Head(calls).back
       /\ rbp' = Head(calls).rbp
       /\ rsp' = Head(calls).rsp]_vars

(* Every tree is translated or refused, and a program whose loops are      *)
(* bounded exits or, recursing without end, runs out of stack.             *)
ProgramStops ==
  <>(status # "converting" /\ (status = "BACKEND_SUCCESS" => process \in {"exit", "segv"}))
=============================================================================

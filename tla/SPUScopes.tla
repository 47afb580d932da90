----------------------------- MODULE SPUScopes -----------------------------
(***************************************************************************)
(* The SPU back end's use of the variables stack (Backend/source/          *)
(* backend_Spu.c): the same slots and scopes as the x86 back end's         *)
(* (LocalsStack), with addresses that grow from 0, relative to rbx in a    *)
(* function and absolute outside.  A call's arguments are stored in the    *)
(* words after the innermost variable's, where the callee's frame begins.  *)
(*                                                                         *)
(* This back end does not refuse a function inside another one or inside a *)
(* block, so scopes open and close in any nesting.                         *)
(***************************************************************************)
EXTENDS LocalsStack

VARIABLES
  stk,        \* backend->stk
  inFunction  \* backend->inFunction

scopeVars == <<stk, inFunction>>

HasRoom == stk.size < Capacity

(* The first word after the variables of the frame, as the code finds it:  *)
(* the word after that of the topmost slot, whatever the slot is.          *)
FrameEnd_NoStep(s) == IF s.size > 0 THEN LocalsStackTop(s).address ELSE 0

FrameEnd(s) == IF s.size > 0 THEN LocalsStackTop(s).address + 1 ELSE 0

ArgumentWord(s, k) == FrameEnd(s) + k

(* LocalsStackPush: a frame starts at 0.                                   *)
SPUAddress_AfterSeparator(s) ==
  IF s.size > 0 /\ ~IsSeparator(LocalsStackTop(s))
  THEN LocalsStackTop(s).address + 1
  ELSE 0

SPUAddress(s) ==
  IF s.size > 0 /\ LocalsStackTop(s).id # FUNC_SCOPE
  THEN LocalsStackTop(s).address + 1
  ELSE 0

SPUPush(s, id) == Grown(s, [id |-> id, address |-> SPUAddress(s)])

-----------------------------------------------------------------------------
ScopesInit ==
  /\ stk = LocalsStackInit
  /\ inFunction = FALSE

(* A declaration or a parameter.                                           *)
Declare(id) ==
  /\ HasRoom
  /\ stk' = SPUPush(stk, id)
  /\ UNCHANGED inFunction

OpenBlock ==
  /\ HasRoom
  /\ stk' = LocalsStackInitScope(stk, NORMAL_SCOPE)
  /\ UNCHANGED inFunction

InnermostIs(scope) ==
  Separators(stk) # {} /\ stk.vars[Innermost(stk)].id = scope

CloseBlock ==
  /\ InnermostIs(NORMAL_SCOPE)
  /\ stk' = LocalsStackPopScope(stk)
  /\ UNCHANGED inFunction

OpenFunction ==
  /\ HasRoom
  /\ stk' = LocalsStackInitScope(stk, FUNC_SCOPE)
  /\ inFunction' = TRUE

CloseFunction ==
  /\ InnermostIs(FUNC_SCOPE)
  /\ stk' = LocalsStackPopScope(stk)
  /\ inFunction' = FALSE

ScopesNext ==
  \/ \E id \in Id : Declare(id)
  \/ OpenBlock \/ CloseBlock \/ OpenFunction \/ CloseFunction

ScopesSpec == ScopesInit /\ [][ScopesNext]_scopeVars

-----------------------------------------------------------------------------
(* The variables of the frame being translated: those above the innermost  *)
(* function separator, all of them when there is none.                     *)
FrameVariables ==
  {i \in Live(stk) : /\ ~IsSeparator(stk.vars[i])
                     /\ \A k \in i..stk.size-1 : stk.vars[k].id # FUNC_SCOPE}

(* Storing the arguments of a call never overwrites a variable of the      *)
(* caller: every variable of the frame lies below the words they go to,    *)
(* although the slot those are counted from may be a separator with an     *)
(* address left over from a scope closed before.                           *)
ArgumentsAboveFrame ==
  \A i \in FrameVariables : stk.vars[i].address \in 0..FrameEnd(stk)-1

(* No two variables of a frame share a word.                               *)
DistinctWords ==
  \A i, j \in FrameVariables : i # j => stk.vars[i].address # stk.vars[j].address
=============================================================================

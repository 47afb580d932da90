----------------------------- MODULE ScopeStack -----------------------------
(***************************************************************************)
(* The x86 converter's use of the variables stack over a whole program:    *)
(* declarations, blocks (the bodies of if, else and while) and functions,  *)
(* one action per stretch of a handler that changes the stack.  A function *)
(* is not opened inside another one; its parameters come with it; blocks   *)
(* and functions are closed in the order they were opened.  That the       *)
(* converter's walk keeps to this is a property of IRConverter.            *)
(***************************************************************************)
EXTENDS LocalsStack

CONSTANT
  ParamLists  \* the parameter lists of the functions declared

ASSUME ParamListsAssumption == ParamLists \subseteq Seq(Id)

VARIABLES
  stk,        \* backend->stk
  inFunction  \* backend->inFunction

vars == <<stk, inFunction>>

Init ==
  /\ stk = LocalsStackInit
  /\ inFunction = FALSE

HasRoom == stk.size < Capacity

InnermostIs(scope) ==
  Separators(stk) # {} /\ stk.vars[Innermost(stk)].id = scope

-----------------------------------------------------------------------------
(* convertVarDeclaration.                                                  *)
Declare(id) ==
  /\ HasRoom
  /\ stk' = LocalsStackPush(stk, id)
  /\ UNCHANGED inFunction

(* if, else and while bodies.                                              *)
OpenBlock ==
  /\ HasRoom
  /\ stk' = LocalsStackInitScope(stk, NORMAL_SCOPE)
  /\ UNCHANGED inFunction

CloseBlock ==
  /\ InnermostIs(NORMAL_SCOPE)
  /\ stk' = LocalsStackPopScope(stk)
  /\ UNCHANGED inFunction

(* From the first branch of an if to the second.                           *)
NextBlock ==
  /\ InnermostIs(NORMAL_SCOPE)
  /\ stk' = LocalsStackInitScope(LocalsStackPopScope(stk), NORMAL_SCOPE)
  /\ UNCHANGED inFunction

(* convertFuncDecl: its start and its end.                                 *)
OpenFunction(params) ==
  /\ stk.size + Len(params) < Capacity
  /\ ~inFunction
  /\ stk' = PushParams(LocalsStackInitScope(stk, FUNC_SCOPE), params)
  /\ inFunction' = TRUE

CloseFunction ==
  /\ InnermostIs(FUNC_SCOPE)
  /\ stk' = LocalsStackPopScope(stk)
  /\ inFunction' = FALSE

Next ==
  \/ \E id \in Id : Declare(id)
  \/ OpenBlock
  \/ CloseBlock
  \/ NextBlock
  \/ \E params \in ParamLists : OpenFunction(params)
  \/ CloseFunction

Spec == Init /\ [][Next]_vars

-----------------------------------------------------------------------------
TypeOK ==
  /\ stk \in Stack
  /\ inFunction \in BOOLEAN

(* Slots i and j belong to the same activation record.                     *)
SameFrame(s, i, j) == \A k \in i..j : s.vars[k].id # FUNC_SCOPE

Variables(s) == {i \in Live(s) : ~IsSeparator(s.vars[i])}

(* No two variables that are visible together and addressed through the    *)
(* same register share a word, whatever stale addresses the separators     *)
(* hold.                                                                   *)
DistinctAddresses ==
  \A i, j \in Variables(stk) :
    i < j /\ SameFrame(stk, i, j) => stk.vars[i].address # stk.vars[j].address

(* Variables of the frame below slot i that live on the machine stack      *)
(* under the frame pointer: all but the parameters.                        *)
LocalsUpTo(s, i) ==
  {j \in Variables(s) : j <= i /\ SameFrame(s, j, i) /\ s.vars[j].address < 0}

InPlace(s, i) ==
  s.vars[i].address < 0 => s.vars[i].address = -Cardinality(LocalsUpTo(s, i))

InFirstBlock(s, i) ==
  \E j \in Live(s) : /\ j + 1 < i /\ SameFrame(s, j + 1, i)
                     /\ s.vars[j].id = FUNC_SCOPE /\ s.vars[j+1].id = NORMAL_SCOPE

(* The frame layout the comment in LocalsStackPush draws: the words under  *)
(* the frame pointer are local 1, local 2, ... without a gap, so that each *)
(* one is the word its own `sub rsp, 8' allocates.  A block that comes     *)
(* first in a parameterless function is excepted: its variables are        *)
(* numbered from whatever address the function's separator found.          *)
LayoutElsewhere == \A i \in Variables(stk) : ~InFirstBlock(stk, i) => InPlace(stk, i)

-----------------------------------------------------------------------------
(* Refinement: the open blocks are the stretches between the separators;   *)
(* the program's own begins at slot 0, as if there were one under it.      *)
Starts(s) == {-1} \union Separators(s)

BlockStart(s, b) ==
  CHOOSE i \in Starts(s) : Cardinality({j \in Starts(s) : j < i}) = b - 1

BlockEnd(s, b) ==
  IF b = Cardinality(Starts(s)) THEN s.size - 1 ELSE BlockStart(s, b + 1) - 1

BlockNames(s, b) ==
  [k \in 1..BlockEnd(s, b) - BlockStart(s, b) |-> s.vars[BlockStart(s, b) + k].id]

Blocks(s) == [b \in 1..Cardinality(Starts(s)) |-> BlockNames(s, b)]

BlockOfFunction(s) ==
  CHOOSE b \in 1..Cardinality(Starts(s)) :
    BlockStart(s, b) >= 0 /\ s.vars[BlockStart(s, b)].id = FUNC_SCOPE

FunctionBlock(s, in) == IF in THEN BlockOfFunction(s) ELSE 0

Scopes == INSTANCE LexicalScopes
            WITH blocks <- Blocks(stk), function <- FunctionBlock(stk, inFunction)

(* Every stack operation of the compiler is the lexical operation it       *)
(* stands for: a declaration enters the innermost block, a pop closes      *)
(* exactly the innermost block.                                            *)
ImplementsLexicalScopes == Scopes!Spec

(* The linear search of LocalsStackSearchAddr finds the declaration the    *)
(* name lexically means, and tells local from global variables apart.      *)
SearchIsLexical ==
  \A id \in Id :
    /\ IsDeclared(stk, id) <=> Scopes!Known(id)
    /\ IsDeclared(stk, id) =>
         /\ SearchSlot(stk, id) = BlockStart(stk, Scopes!BlockOf(id)) + Scopes!PlaceOf(id)
         /\ SearchIsLocal(stk, id, inFunction) <=> Scopes!IsLocal(id)
=============================================================================

---------------------------- MODULE IRConverter ----------------------------
(***************************************************************************)
(* AST to IR translation (Backend/source/IRConverter.c): the recursive     *)
(* walk convertASTtoIR makes over the tree, emitting IR nodes, keeping the *)
(* scope stack and patching the destinations of jumps once they are known. *)
(*                                                                         *)
(* One action is the code a handler runs between two recursive calls.  The *)
(* C call stack is `work': a sequence of pending activations, innermost    *)
(* first.  Comments, label names and the counters they are made from are   *)
(* left out; the nodes comments take (IR_NOP) are kept.                    *)
(*                                                                         *)
(* A tree node is [op, v, l, r]: op is the operator, or NUMBER/IDENTIFIER, *)
(* v the number or the index in the name table.                            *)
(***************************************************************************)
EXTENDS LocalsStack, IRNodes

CONSTANTS
  Programs,    \* trees the front end hands over
  Nodes(_),    \* tree -> its nodes
  ParamLists,  \* the parameter lists of the functions they declare
  NameTable(_),\* tree -> [Id -> [type, argsCount]]
  StdlibIn,    \* name table indexes of __stdlib_in and __stdlib_out,
  StdlibOut    \* entered by initStdlibFunctions

VARIABLES
  ast,         \* backend->tree
  names,       \* backend->nameTable: type and argsCount of every identifier
  stk,         \* backend->stk
  inFunction,  \* backend->inFunction
  ir,          \* backend->IR
  work,        \* pending activations of the handlers, innermost first
  status       \* BackendStatus_t, or "converting" before the walk returns

convVars == <<ast, names, stk, inFunction, ir, work, status>>

Nil == [op |-> "NIL"]

(* The names of a parameter list: a chain of COMMA nodes or one name.      *)
Params(n) ==
  LET list[k \in 0..Capacity] ==   \* the list's k-th tail
        IF k = 0 THEN n ELSE IF list[k-1].op = "COMMA" THEN list[k-1].r ELSE Nil
      count == Cardinality({k \in 0..Capacity : list[k] # Nil})
  IN [k \in 1..count |-> IF list[k-1].op = "COMMA" THEN list[k-1].l.v ELSE list[k-1].v]

(* Identifiers of a tree are indexes of the name table it comes with.      *)
ASSUME NodesAssumption ==
  \A tree \in Programs :
    /\ tree \in Nodes(tree)
    /\ \A n \in Nodes(tree) : n # Nil =>
         /\ n.l \in Nodes(tree) /\ n.r \in Nodes(tree)
         /\ n.op = "NUMBER" => n.v \in Int
         /\ n.op \in {"VAR_DECL", "CALL"} => n.l.v \in Id
         /\ n.op = "FUNC_DECL" => n.l.l.v \in Id /\ Params(n.l.r) \in ParamLists
ASSUME ParamListsAssumption == ParamLists \subseteq Seq(Id)
ASSUME NameTableAssumption ==
  \A tree \in Programs :
    NameTable(tree) \in [Id -> [type : {"UNDEFINED_ID", "VAR_ID", "FUNC_ID"}, argsCount : Int]]
ASSUME RuntimeAssumption == {StdlibIn, StdlibOut} \subseteq Id

-----------------------------------------------------------------------------
(* LocalsStackSearchAddr fills a memory operand in.                        *)
MemNode(type, id) ==
  [type |-> type, arg |-> "mem", addr |-> SearchAddress(stk, id),
   local |-> SearchIsLocal(stk, id, inFunction)]

Patched(nodes, k, dest) == [nodes EXCEPT ![k].addr = dest]

(* Activations.                                                            *)
Walk(n, parent) == [at |-> "walk", n |-> n, op |-> parent, i |-> 0, j |-> 0]
Resume(at, n, i, j) == [at |-> at, n |-> n, op |-> "", i |-> i, j |-> j]

Top == Head(work)
At(point) == status = "converting" /\ work # <<>> /\ Top.at = point
Visiting(op) == At("walk") /\ Top.n.op = op

(* Replace the innermost activation by the given ones.                     *)
Continue(activations) == work' = activations \o Tail(work)

Emit(nodes) == ir' = ir \o nodes

(* SyntaxError: log and return; every caller returns the status at once    *)
(* and the IR is abandoned.                                                *)
Fail(error) ==
  /\ status' = error
  /\ work' = <<>>
  /\ UNCHANGED <<ast, names, stk, inFunction, ir>>

Unchanged == UNCHANGED <<ast, names, status>>
ScopeUnchanged == UNCHANGED <<stk, inFunction>>

-----------------------------------------------------------------------------
(* convertASTtoIR, after initStdlibFunctions has entered the two runtime   *)
(* functions: __stdlib_out takes one argument.                             *)
Init ==
  /\ ast \in Programs
  /\ names = [NameTable(ast) EXCEPT
                ![StdlibIn]  = [type |-> "UNDEFINED_ID", argsCount |-> 0],
                ![StdlibOut] = [type |-> "UNDEFINED_ID", argsCount |-> 1]]
  /\ stk = LocalsStackInit
  /\ inFunction = FALSE
  /\ ir = <<Bare("START")>>
  /\ work = <<Walk(ast, "NIL")>>
  /\ status = "converting"

Finish ==
  /\ status = "converting" /\ work = <<>>
  /\ Emit(<<Bare("EXIT")>>)
  /\ status' = "BACKEND_SUCCESS"
  /\ UNCHANGED <<ast, names, stk, inFunction, work>>

(* Leaves. *)
ConvertNumber ==
  /\ Visiting("NUMBER")
  /\ Emit(<<PushImm(Top.n.v)>>)
  /\ Continue(<<>>)
  /\ ScopeUnchanged /\ Unchanged

(* LocalsStackSearchAddr refuses functions and undeclared variables.       *)
SearchError(id) ==
  \/ names[id].type = "FUNC_ID" /\ Fail("BACKEND_TYPE_ERROR")
  \/ /\ names[id].type # "FUNC_ID" /\ ~IsDeclared(stk, id)
     /\ Fail("BACKEND_SCOPE_ERROR")

SearchSucceeds(id) == names[id].type # "FUNC_ID" /\ IsDeclared(stk, id)

ConvertIdentifier ==
  /\ Visiting("IDENTIFIER")
  /\ \/ SearchError(Top.n.v)
     \/ /\ SearchSucceeds(Top.n.v)
        /\ Emit(<<MemNode("PUSH", Top.n.v)>>)
        /\ Continue(<<>>)
        /\ ScopeUnchanged /\ Unchanged

(* Operators: the operands from left to right, then the operation.         *)
ConvertBinary ==
  /\ At("walk") /\ Top.n.op \in Binary \union Comparison
  /\ Continue(<<Walk(Top.n.l, Top.n.op), Walk(Top.n.r, Top.n.op),
                Resume("operator", Top.n, 0, 0)>>)
  /\ UNCHANGED ir /\ ScopeUnchanged /\ Unchanged

ConvertUnary ==
  /\ Visiting("SQRT")
  /\ Continue(<<Walk(Top.n.l, Top.n.op), Resume("operator", Top.n, 0, 0)>>)
  /\ UNCHANGED ir /\ ScopeUnchanged /\ Unchanged

EmitOperator ==
  /\ At("operator")
  /\ Emit(<<IF Top.n.op \in Comparison THEN CmpNode(Top.n.op)
                                       ELSE Bare(Top.n.op)>>)
  /\ Continue(<<>>)
  /\ ScopeUnchanged /\ Unchanged

ConvertText ==
  /\ Visiting("TEXT")
  /\ Continue(<<>>)
  /\ UNCHANGED ir /\ ScopeUnchanged /\ Unchanged

(* Operators of the language this back end does not translate end the      *)
(* process at once.                                                        *)
Unsupported == {"POW", "SIN", "COS", "SINH", "COSH", "TAN", "CTG", "LOGN"}

ConvertUnsupported ==
  /\ At("walk") /\ Top.n.op \in Unsupported
  /\ Fail("exit(1)")

-----------------------------------------------------------------------------
(* Statements. *)
ConvertSeparator ==
  /\ Visiting("SEP")
  /\ Emit(<<Bare("NOP")>>)
  /\ Continue(<<Walk(Top.n.l, "SEP")>> \o
              IF Top.n.r = Nil THEN <<>> ELSE <<Walk(Top.n.r, "SEP")>>)
  /\ ScopeUnchanged /\ Unchanged

ConvertAssign ==
  /\ Visiting("ASSIGN")
  /\ Continue(<<Walk(Top.n.r, "ASSIGN"), Resume("store", Top.n.l, 0, 0)>>)
  /\ UNCHANGED ir /\ ScopeUnchanged /\ Unchanged

Store ==
  /\ At("store")
  /\ \/ SearchError(Top.n.v)
     \/ /\ SearchSucceeds(Top.n.v)
        /\ Emit(<<MemNode("POP", Top.n.v)>>)
        /\ Continue(<<>>)
        /\ ScopeUnchanged /\ Unchanged

ConvertIn ==
  /\ Visiting("IN")
  /\ \/ SearchError(Top.n.l.v)
     \/ /\ SearchSucceeds(Top.n.l.v)
        /\ Emit(<<CallNode(StdlibIn), PushReg, MemNode("POP", Top.n.l.v)>>)
        /\ Continue(<<>>)
        /\ ScopeUnchanged /\ Unchanged

ConvertOut ==
  /\ Visiting("OUT")
  /\ Continue(<<Walk(Top.n.l, "OUT"), Resume("print", Nil, 0, 0)>>)
  /\ UNCHANGED ir /\ ScopeUnchanged /\ Unchanged

CallOut ==
  /\ At("print")
  /\ Emit(<<CallNode(StdlibOut)>>)
  /\ Continue(<<>>)
  /\ ScopeUnchanged /\ Unchanged

ConvertVarDeclaration ==
  /\ Visiting("VAR_DECL") /\ stk.size < Capacity
  /\ stk' = LocalsStackPush(stk, Top.n.l.v)
  /\ Emit(<<VarDeclNode(inFunction)>>)
  /\ Continue(<<>>)
  /\ UNCHANGED inFunction /\ Unchanged

-----------------------------------------------------------------------------
(* if and if/else.                                                         *)
ConvertIf ==
  /\ Visiting("IF")
  /\ Emit(<<Bare("NOP")>>)
  /\ Continue(<<Walk(Top.n.l, "IF"), Resume("branch", Top.n, 0, 0)>>)
  /\ ScopeUnchanged /\ Unchanged

Branch ==
  /\ At("branch") /\ stk.size < Capacity
  /\ Emit(<<Bare("JZ")>>)
  /\ stk' = LocalsStackInitScope(stk, NORMAL_SCOPE)
  /\ LET jz == Len(ir) + 1
     IN IF Top.n.r.op = "ELSE"
        THEN Continue(<<Walk(Top.n.r.l, "ELSE"), Resume("else", Top.n.r, jz, 0)>>)
        ELSE Continue(<<Walk(Top.n.r, "IF"), Resume("endif", Nil, jz, 0)>>)
  /\ UNCHANGED inFunction /\ Unchanged

(* leaveAndPopScope, the jump over the else part, the else label.          *)
ElseBranch_LabelBeforeJump ==
  /\ At("else")
  /\ ir' = Patched(ir \o <<LeaveNode(PoppedVariables(stk)), LocalLabel, Bare("JMP")>>,
                   Top.i, Len(ir) + 2)
  /\ stk' = LocalsStackInitScope(LocalsStackPopScope(stk), NORMAL_SCOPE)
  /\ Continue(<<Walk(Top.n.r, "ELSE"), Resume("endif", Nil, Len(ir) + 3, 0)>>)
  /\ UNCHANGED inFunction /\ Unchanged

ElseBranch ==
  /\ At("else")
  /\ ir' = Patched(ir \o <<LeaveNode(PoppedVariables(stk)), Bare("JMP"), LocalLabel>>,
                   Top.i, Len(ir) + 3)
  /\ stk' = LocalsStackInitScope(LocalsStackPopScope(stk), NORMAL_SCOPE)
  /\ Continue(<<Walk(Top.n.r, "ELSE"), Resume("endif", Nil, Len(ir) + 2, 0)>>)
  /\ UNCHANGED inFunction /\ Unchanged

EndIf_KeepsScope ==
  /\ At("endif")
  /\ ir' = Patched(ir \o <<LeaveNode(PoppedVariables(stk)), LocalLabel>>,
                   Top.i, Len(ir) + 2)
  /\ Continue(<<>>)
  /\ ScopeUnchanged /\ Unchanged

EndIf ==
  /\ At("endif")
  /\ ir' = Patched(ir \o <<LeaveNode(PoppedVariables(stk)), LocalLabel>>,
                   Top.i, Len(ir) + 2)
  /\ stk' = LocalsStackPopScope(stk)
  /\ Continue(<<>>)
  /\ UNCHANGED inFunction /\ Unchanged

(* while: the loop's variables are released before every jump back.        *)
ConvertWhile ==
  /\ Visiting("WHILE") /\ stk.size < Capacity
  /\ stk' = LocalsStackInitScope(stk, NORMAL_SCOPE)
  /\ Emit(<<LocalLabel>>)
  /\ Continue(<<Walk(Top.n.l, "WHILE"), Resume("loop", Top.n, Len(ir) + 1, 0)>>)
  /\ UNCHANGED inFunction /\ Unchanged

LoopBody ==
  /\ At("loop")
  /\ Emit(<<Bare("JZ")>>)
  /\ Continue(<<Walk(Top.n.r, "WHILE"), Resume("endloop", Nil, Top.i, Len(ir) + 1)>>)
  /\ ScopeUnchanged /\ Unchanged

EndWhile_LeavesAfterLoop ==
  /\ At("endloop")
  /\ ir' = Patched(ir \o <<JumpTo("JMP", Top.i), LocalLabel,
                           LeaveNode(PoppedVariables(stk))>>,
                   Top.j, Len(ir) + 2)
  /\ stk' = LocalsStackPopScope(stk)
  /\ Continue(<<>>)
  /\ UNCHANGED inFunction /\ Unchanged

EndWhile_ExitsToStart ==
  /\ At("endloop")
  /\ ir' = Patched(ir \o <<LeaveNode(PoppedVariables(stk)),
                           JumpTo("JMP", Top.i), LocalLabel>>,
                   Top.j, Top.i)
  /\ stk' = LocalsStackPopScope(stk)
  /\ Continue(<<>>)
  /\ UNCHANGED inFunction /\ Unchanged

EndWhile ==
  /\ At("endloop")
  /\ ir' = Patched(ir \o <<LeaveNode(PoppedVariables(stk)),
                           JumpTo("JMP", Top.i), LocalLabel>>,
                   Top.j, Len(ir) + 3)
  /\ stk' = LocalsStackPopScope(stk)
  /\ Continue(<<>>)
  /\ UNCHANGED inFunction /\ Unchanged

-----------------------------------------------------------------------------
(* Functions. *)
ConvertFuncDecl ==
  /\ Visiting("FUNC_DECL") /\ stk.size + Len(Params(Top.n.l.r)) < Capacity
  /\ \/ inFunction /\ Fail("BACKEND_NESTED_FUNC_ERROR")
     \/ /\ ~inFunction
        /\ stk' = PushParams(LocalsStackInitScope(stk, FUNC_SCOPE), Params(Top.n.l.r))
        /\ inFunction' = TRUE
        /\ Emit(<<Bare("NOP"), Bare("JMP"), FuncLabel(Top.n.l.l.v), Bare("SET_FRAME_PTR")>>)
        /\ Continue(<<Walk(Top.n.r, "FUNC_DECL"), Resume("enddecl", Nil, Len(ir) + 2, 0)>>)
        /\ Unchanged

EndFuncDecl_PastLabel ==
  /\ At("enddecl")
  /\ ir' = Patched(ir \o <<LocalLabel, Bare("NOP")>>, Top.i, Len(ir) + 2)
  /\ inFunction' = FALSE
  /\ stk' = LocalsStackPopScope(stk)
  /\ Continue(<<>>)
  /\ Unchanged

EndFuncDecl ==
  /\ At("enddecl")
  /\ ir' = Patched(ir \o <<LocalLabel, Bare("NOP")>>, Top.i, Len(ir) + 1)
  /\ inFunction' = FALSE
  /\ stk' = LocalsStackPopScope(stk)
  /\ Continue(<<>>)
  /\ Unchanged

ConvertRet ==
  /\ Visiting("RET")
  /\ Continue(<<Walk(Top.n.l, "RET"), Resume("ret", Nil, 0, 0)>>)
  /\ UNCHANGED ir /\ ScopeUnchanged /\ Unchanged

EmitRet ==
  /\ At("ret")
  /\ Emit(<<Bare("RET")>>)
  /\ Continue(<<>>)
  /\ ScopeUnchanged /\ Unchanged

(* Calls.  The arguments are checked only when there are some.             *)
ConvertCall ==
  /\ Visiting("CALL")
  /\ \/ names[Top.n.l.v].type # "FUNC_ID" /\ Fail("BACKEND_TYPE_ERROR")
     \/ /\ names[Top.n.l.v].type = "FUNC_ID"
        /\ Continue((IF Top.n.r = Nil
                     THEN <<>>
                     ELSE <<Resume("args", Top.n.r, names[Top.n.l.v].argsCount, 0)>>)
                    \o <<[Resume("call", Top.n, 0, 0) EXCEPT !.op = Top.op]>>)
        /\ UNCHANGED ir /\ ScopeUnchanged /\ Unchanged

(* convertCallArguments: the last argument is evaluated and pushed first.  *)
ConvertCallArguments_LeftToRight ==
  /\ At("args")
  /\ LET expected == Top.i
         n        == Top.n
     IN \/ /\ expected = 0
           /\ Fail("BACKEND_WRONG_ARGS_NUMBER")
        \/ /\ expected > 1
           /\ n.op # "COMMA"
           /\ Fail("BACKEND_WRONG_ARGS_NUMBER")
        \/ /\ expected > 0
           /\ n.op = "COMMA"
           /\ Continue(<<Walk(n.l, "COMMA"), Resume("args", n.r, expected - 1, 0)>>)
           /\ UNCHANGED ir /\ ScopeUnchanged /\ Unchanged
        \/ /\ expected = 1
           /\ n.op # "COMMA"
           /\ Continue(<<Walk(n, "CALL")>>)
           /\ UNCHANGED ir /\ ScopeUnchanged /\ Unchanged

ConvertCallArguments_AllowsLess ==
  /\ At("args")
  /\ LET expected == Top.i
         n        == Top.n
     IN \/ /\ expected = 0
           /\ Fail("BACKEND_WRONG_ARGS_NUMBER")
        \/ /\ expected > 0
           /\ n.op = "COMMA"
           /\ Continue(<<Resume("args", n.r, expected - 1, 0), Walk(n.l, "COMMA")>>)
           /\ UNCHANGED ir /\ ScopeUnchanged /\ Unchanged
        \/ /\ expected > 0
           /\ n.op # "COMMA"
           /\ Continue(<<Walk(n, "CALL")>>)
           /\ UNCHANGED ir /\ ScopeUnchanged /\ Unchanged

ConvertCallArguments ==
  /\ At("args")
  /\ LET expected == Top.i
         n        == Top.n
     IN \/ /\ expected = 0
           /\ Fail("BACKEND_WRONG_ARGS_NUMBER")
        \/ /\ expected > 1
           /\ n.op # "COMMA"
           /\ Fail("BACKEND_WRONG_ARGS_NUMBER")
        \/ /\ expected > 0
           /\ n.op = "COMMA"
           /\ Continue(<<Resume("args", n.r, expected - 1, 0), Walk(n.l, "COMMA")>>)
           /\ UNCHANGED ir /\ ScopeUnchanged /\ Unchanged
        \/ /\ expected = 1
           /\ n.op # "COMMA"
           /\ Continue(<<Walk(n, "CALL")>>)
           /\ UNCHANGED ir /\ ScopeUnchanged /\ Unchanged

(* The result is pushed unless the call is a statement.                    *)
EmitCall_AlwaysPushes ==
  /\ At("call")
  /\ Emit(<<CallNode(Top.n.l.v), PushReg>>)
  /\ Continue(<<>>)
  /\ ScopeUnchanged /\ Unchanged

EmitCall ==
  /\ At("call")
  /\ Emit(<<CallNode(Top.n.l.v)>> \o IF Top.op = "SEP" THEN <<>> ELSE <<PushReg>>)
  /\ Continue(<<>>)
  /\ ScopeUnchanged /\ Unchanged

-----------------------------------------------------------------------------
ConvertNext ==
  \/ ConvertNumber \/ ConvertIdentifier
  \/ ConvertBinary \/ ConvertUnary \/ EmitOperator \/ ConvertText \/ ConvertUnsupported
  \/ ConvertSeparator \/ ConvertAssign \/ Store
  \/ ConvertIn \/ ConvertOut \/ CallOut \/ ConvertVarDeclaration
  \/ ConvertIf \/ Branch \/ ElseBranch \/ EndIf
  \/ ConvertWhile \/ LoopBody \/ EndWhile
  \/ ConvertFuncDecl \/ EndFuncDecl \/ ConvertRet \/ EmitRet
  \/ ConvertCall \/ ConvertCallArguments \/ EmitCall
  \/ Finish

ConvertSpec == Init /\ [][ConvertNext]_convVars

-----------------------------------------------------------------------------
(* The walk keeps the protocol of the scope stack: every scope it opens is *)
(* closed by the activation that opened it, blocks before the function     *)
(* around them, however the tree nests them and wherever it fails.         *)
SS == INSTANCE ScopeStack

KeepsScopes == SS!Spec

(* What the converter hands over is what the translator takes: when it     *)
(* succeeds, no jump is left without its destination, each goes to a label *)
(* of the converter's own, and calls and function labels hold names.       *)
IsJump(nodes, k) == k \in 1..Len(nodes) /\ nodes[k].type \in {"JMP", "JZ"}
IsLocalLabel(nodes, k) == k \in 1..Len(nodes) /\ nodes[k].type = "LABEL" /\ nodes[k].local
IsNamed(node) == node.type = "CALL" \/ (node.type = "LABEL" /\ ~node.local)

Translatable ==
  status = "BACKEND_SUCCESS" =>
    /\ IsIR(ir)
    /\ \A k \in 1..Len(ir) : /\ IsJump(ir, k) => IsLocalLabel(ir, ir[k].addr)
                             /\ IsNamed(ir[k]) => ir[k].addr \in Id
=============================================================================

----------------------------- MODULE SPUBackend -----------------------------
(***************************************************************************)
(* AST to SPU assembler (Backend/source/backend_Spu.c): the walk of        *)
(* translateToAsmRecursive, which prints the code as it goes.  One action  *)
(* is what a handler does up to its first recursive call; the rest of it   *)
(* is laid down as activations in `work', innermost first: subtrees to     *)
(* walk, text to print, and the steps that read the variables stack when   *)
(* they are reached.                                                       *)
(*                                                                         *)
(* An error ends the walk where it is, with the code printed so far left   *)
(* in the file and the scopes left open.                                   *)
(***************************************************************************)
EXTENDS SPUScopes, SPUCode, SyntaxTrees

CONSTANTS
  Programs,      \* trees the front end hands over
  Nodes(_),      \* tree -> its nodes
  Parameters(_), \* tree -> those a function's header has for its parameters
  NameTable(_),  \* tree -> [Id -> [type, argsCount]]
  Taxed(_)       \* tree -> backend->mode.taxes

(* What the parser makes of a declaration: identifiers, parameters as a    *)
(* chain of COMMA nodes.                                                   *)
ASSUME NodesAssumption ==
  \A tree \in Programs :
    /\ tree \in Nodes(tree)
    /\ \A n \in Nodes(tree) :
         n # Nothing =>
           /\ n.l \in Nodes(tree) /\ n.r \in Nodes(tree)
           /\ n.op = "VAR_DECL" => n.l.v \in Id
           /\ n.op = "FUNC_DECL" => n.l.r \in Parameters(tree) \union {Nothing}
    /\ \A n \in Parameters(tree) :
         /\ (IF n.op = "COMMA" THEN n.l.v ELSE n.v) \in Id
         /\ n.r \in Parameters(tree) \union {Nothing}

VARIABLES
  ast,          \* context->tree
  names,        \* context->nameTable
  code,         \* the file
  ifCounter,    \* context->ifCounter and context->whileCounter: they number
  whileCounter, \*   the labels
  work,         \* pending activations, innermost first
  status        \* BackendStatus_t, or "converting"

convVars == <<stk, inFunction, ast, names, code, ifCounter, whileCounter, work, status>>

Walk(n)     == [at |-> "walk", n |-> n, i |-> 0, text |-> <<>>]
Write(text) == [at |-> "write", n |-> Nothing, i |-> 0, text |-> text]
Then(at, n, i) == [at |-> at, n |-> n, i |-> i, text |-> <<>>]

Top == Head(work)
At(point) == status = "converting" /\ work # <<>> /\ Top.at = point
Visiting(op) == At("walk") /\ Top.n.op = op

Continue(activations) == work' = activations \o Tail(work)
Emit(text) == code' = code \o text

Fixed == UNCHANGED <<ast, names, status>>
Same  == Fixed /\ UNCHANGED <<ifCounter, whileCounter>>

Fail(error) ==
  /\ status' = error
  /\ work' = <<>>
  /\ UNCHANGED <<stk, inFunction, ast, names, code, ifCounter, whileCounter>>

-----------------------------------------------------------------------------
(* convertASTtoSPUAsm: its start and, when the walk is over, its end; the  *)
(* routines of translateAsmSTD follow the code.                            *)
Init ==
  /\ ast \in Programs
  /\ names = NameTable(ast)
  /\ ScopesInit
  /\ code = <<PushNum(0), Ins("POP", "rbx", 0)>>
  /\ ifCounter = 1 /\ whileCounter = 1
  /\ work = <<Walk(ast)>>
  /\ status = "converting"

Finish ==
  /\ status = "converting" /\ work = <<>>
  /\ Emit(<<Plain("HLT")>> \o StdRoutines)
  /\ status' = "BACKEND_SUCCESS"
  /\ UNCHANGED <<stk, inFunction, ast, names, ifCounter, whileCounter, work>>

WriteText ==
  /\ At("write")
  /\ Emit(Top.text)
  /\ Continue(<<>>)
  /\ UNCHANGED scopeVars /\ Same

(* LocalsStackSearchPrint: a function's name and a name not on the stack   *)
(* are errors.                                                             *)
UseVariable(op, id) ==
  \/ names[id].type = "FUNC_ID" /\ Fail("BACKEND_TYPE_ERROR")
  \/ /\ names[id].type # "FUNC_ID" /\ ~IsDeclared(stk, id)
     /\ Fail("BACKEND_SCOPE_ERROR")
  \/ /\ names[id].type # "FUNC_ID" /\ IsDeclared(stk, id)
     /\ Emit(<<VarWord(op, SearchIsLocal(stk, id, inFunction), SearchAddress(stk, id))>>)
     /\ Continue(<<>>)
     /\ UNCHANGED scopeVars /\ Same

PopVariable == At("pop_variable") /\ UseVariable("POP", Top.n.v)

-----------------------------------------------------------------------------
(* translateToAsmRecursive. *)
ConvertNumber ==
  /\ Visiting("NUMBER")
  /\ Emit(<<PushNum(Top.n.v)>>)
  /\ Continue(<<>>)
  /\ UNCHANGED scopeVars /\ Same

ConvertIdentifier == Visiting("IDENTIFIER") /\ UseVariable("PUSH", Top.n.v)

(* Handlers that print nothing of their own before they recurse.           *)
Expands(op, activations) ==
  /\ Visiting(op)
  /\ Continue(activations)
  /\ UNCHANGED code /\ UNCHANGED scopeVars /\ Same

ConvertSeparator ==
  Expands("SEP", <<Walk(Top.n.l)>> \o IF Top.n.r = Nothing THEN <<>> ELSE <<Walk(Top.n.r)>>)

ConvertBinary ==
  \E op \in Arithmetic \union Comparison :
    Expands(op, <<Walk(Top.n.l), Walk(Top.n.r), Write(<<OperatorCode(op)>>)>>)

ConvertUnary ==
  \E op \in {"OUT", "SQRT", "SIN", "COS"} :
    Expands(op, <<Walk(Top.n.l), Write(<<Plain(op)>>)>>)

ConvertAssign ==
  Expands("ASSIGN", <<Walk(Top.n.r), Then("pop_variable", Top.n.l, 0)>>)

ConvertIn ==
  Expands("IN", <<Write(<<Plain("IN")>>), Then("pop_variable", Top.n.l, 0)>>)

ConvertText == Expands("TEXT", <<Write(<<Plain("CHR")>>)>>)

ConvertRet_NoTaxes ==
  Expands("RET", <<Walk(Top.n.l), Write(<<Ins("POP", "rax", 0), Plain("RET")>>)>>)

ConvertRet_LeavesResult ==
  Expands("RET",
    <<Walk(Top.n.l),
      Write((IF Taxed(ast) THEN <<To("CALL", Taxing)>> ELSE <<>>) \o <<Plain("RET")>>)>>)

ConvertRet ==
  Expands("RET",
    <<Walk(Top.n.l),
      Write(<<Ins("POP", "rax", 0)>> \o (IF Taxed(ast) THEN <<To("CALL", Taxing)>> ELSE <<>>)
            \o <<Plain("RET")>>)>>)

ConvertVarDeclaration ==
  /\ Visiting("VAR_DECL")
  /\ Declare(Top.n.l.v)
  /\ Continue(<<>>)
  /\ UNCHANGED code /\ Same

(* Operators without SPU code end the process.                             *)
ConvertUnsupported ==
  /\ At("walk") /\ Top.n.op \in {"POW", "SINH", "COSH", "TAN", "CTG", "LOGN"}
  /\ Fail("exit(1)")

-----------------------------------------------------------------------------
(* translateIf: one scope holds the condition and both branches.           *)
ConvertIf ==
  /\ Visiting("IF")
  /\ OpenBlock
  /\ ifCounter' = ifCounter + 1
  /\ LET else == <<"IF_ELSE", ifCounter>>
         end  == <<"IF_END", ifCounter>>
         test(label) == Write(<<PushNum(0), To("JE", label)>>)
     IN Continue(
          (IF Top.n.r.op = "ELSE"
           THEN <<Walk(Top.n.l), test(else), Walk(Top.n.r.l),
                  Write(<<To("JMP", end), Mark(else)>>), Walk(Top.n.r.r)>>
           ELSE <<Walk(Top.n.l), test(end), Walk(Top.n.r)>>)
          \o <<Write(<<Mark(end)>>), Then("pop_scope", Nothing, 0)>>)
  /\ UNCHANGED <<code, whileCounter>> /\ Fixed

(* translateWhile. *)
ConvertWhile_ExitsToLoop ==
  /\ Visiting("WHILE")
  /\ OpenBlock
  /\ whileCounter' = whileCounter + 1
  /\ LET loop == <<"LOOP", whileCounter>>
         end  == <<"LOOP_END", whileCounter>>
     IN Continue(<<Write(<<Mark(loop)>>), Walk(Top.n.l), Write(<<PushNum(0), To("JE", loop)>>),
                   Walk(Top.n.r), Write(<<To("JMP", loop), Mark(end)>>),
                   Then("pop_scope", Nothing, 0)>>)
  /\ UNCHANGED <<code, ifCounter>> /\ Fixed

ConvertWhile ==
  /\ Visiting("WHILE")
  /\ OpenBlock
  /\ whileCounter' = whileCounter + 1
  /\ LET loop == <<"LOOP", whileCounter>>
         end  == <<"LOOP_END", whileCounter>>
     IN Continue(<<Write(<<Mark(loop)>>), Walk(Top.n.l), Write(<<PushNum(0), To("JE", end)>>),
                   Walk(Top.n.r), Write(<<To("JMP", loop), Mark(end)>>),
                   Then("pop_scope", Nothing, 0)>>)
  /\ UNCHANGED <<code, ifCounter>> /\ Fixed

PopBlock ==
  /\ At("pop_scope")
  /\ CloseBlock
  /\ Continue(<<>>)
  /\ UNCHANGED code /\ Same

-----------------------------------------------------------------------------
(* translateFuncDecl: the code of the function is jumped over; parameters  *)
(* take the first words of its frame.                                      *)
FuncLabel(id) == <<"FUNC", id>>

ConvertFuncDecl ==
  /\ Visiting("FUNC_DECL")
  /\ OpenFunction
  /\ LET name == Top.n.l.l.v
         end  == <<"DECL_END", name>>
     IN /\ Emit(<<To("JMP", end), Mark(FuncLabel(name))>>)
        /\ Continue((IF Top.n.l.r = Nothing THEN <<>> ELSE <<Then("parameter", Top.n.l.r, 0)>>)
                    \o <<Walk(Top.n.r), Write(<<Mark(end)>>), Then("end_function", Nothing, 0)>>)
  /\ Same

PushParameter_SkipsLast ==
  /\ At("parameter")
  /\ IF Top.n.op = "COMMA" THEN Declare(Top.n.l.v) ELSE UNCHANGED scopeVars
  /\ Continue(IF Top.n.r = Nothing THEN <<>> ELSE <<Then("parameter", Top.n.r, 0)>>)
  /\ UNCHANGED code /\ Same

PushParameter ==
  /\ At("parameter")
  /\ LET chained == Top.n.op = "COMMA"
     IN /\ Declare(IF chained THEN Top.n.l.v ELSE Top.n.v)
        /\ Continue(IF Top.n.r = Nothing THEN <<>> ELSE <<Then("parameter", Top.n.r, 0)>>)
  /\ UNCHANGED code /\ Same

EndFuncDecl ==
  /\ At("end_function")
  /\ CloseFunction
  /\ Continue(<<>>)
  /\ UNCHANGED code /\ Same

(* translateCall.  Neither the number of arguments nor whether the call is *)
(* a statement is looked at: the result is always pushed.                  *)
ConvertCall ==
  /\ Visiting("CALL")
  /\ \/ /\ names[Top.n.l.v].type # "FUNC_ID"
        /\ Fail("BACKEND_TYPE_ERROR")
     \/ /\ names[Top.n.l.v].type = "FUNC_ID"
        /\ Expands("CALL",
             (IF Top.n.r = Nothing THEN <<>> ELSE <<Then("argument", Top.n.r, 0)>>)
             \o <<Then("call", Top.n.l, 0)>>)

(* translateCallArguments: the k-th argument is evaluated, then stored.    *)
ConvertArgument ==
  /\ At("argument")
  /\ LET chained == Top.n.op = "COMMA"
     IN Continue(<<Walk(IF chained THEN Top.n.l ELSE Top.n), Then("store_argument", Nothing, Top.i)>>
                 \o IF chained THEN <<Then("argument", Top.n.r, Top.i + 1)>> ELSE <<>>)
  /\ UNCHANGED code /\ UNCHANGED scopeVars /\ Same

StoreArgument_FromFrameStart ==
  /\ At("store_argument")
  /\ Emit(<<VarWord("POP", inFunction, Top.i)>>)
  /\ Continue(<<>>)
  /\ UNCHANGED scopeVars /\ Same

StoreArgument ==
  /\ At("store_argument")
  /\ Emit(<<VarWord("POP", inFunction, ArgumentWord(stk, Top.i))>>)
  /\ Continue(<<>>)
  /\ UNCHANGED scopeVars /\ Same

EmitCall_LeavesBase ==
  /\ At("call")
  /\ Emit(<<Ins("PUSH", "base", 0), Ins("PUSH", "rbx", FrameEnd(stk)), Ins("POP", "rbx", 0),
            To("CALL", FuncLabel(Top.n.v)), Ins("PUSH", "rax", 0)>>)
  /\ Continue(<<>>)
  /\ UNCHANGED scopeVars /\ Same

EmitCall ==
  /\ At("call")
  /\ Emit(<<Ins("PUSH", "base", 0), Ins("PUSH", "rbx", FrameEnd(stk)), Ins("POP", "rbx", 0),
            To("CALL", FuncLabel(Top.n.v)), Ins("POP", "rbx", 0), Ins("PUSH", "rax", 0)>>)
  /\ Continue(<<>>)
  /\ UNCHANGED scopeVars /\ Same

-----------------------------------------------------------------------------
ConvertNext ==
  \/ Finish \/ WriteText \/ PopVariable
  \/ ConvertNumber \/ ConvertIdentifier \/ ConvertSeparator
  \/ ConvertBinary \/ ConvertUnary \/ ConvertAssign \/ ConvertIn \/ ConvertText
  \/ ConvertRet \/ ConvertVarDeclaration \/ ConvertUnsupported
  \/ ConvertIf \/ ConvertWhile \/ PopBlock
  \/ ConvertFuncDecl \/ PushParameter \/ EndFuncDecl
  \/ ConvertCall \/ ConvertArgument \/ StoreArgument \/ EmitCall

ConvertSpec == Init /\ [][ConvertNext]_convVars
=============================================================================

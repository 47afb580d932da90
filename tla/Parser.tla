------------------------------ MODULE Parser ------------------------------
(***************************************************************************)
(* syntaxAnalysis.c: recursive descent over the token array, one operator  *)
(* per C function.                                                         *)
(*                                                                         *)
(* A parse state s has the tokens, the pointer p, the status st, the value *)
(* the last function returned (n), the identifiers' types and numbers of   *)
(* arguments (ids) and the last chain's length (count).  A soft error says *)
(* "not one of these", and the pointer stays wherever it is by then; a     *)
(* hard one ends the parse.  "abort" is a failed assertion, which NDebug   *)
(* builds do not have.                                                     *)
(*                                                                         *)
(* A chain of statements is the sequence of the SEP nodes' left sons, to   *)
(* be linked by Block when it becomes part of a tree.                      *)
(***************************************************************************)
EXTENDS SyntaxTrees

CONSTANTS
  Id,       \* name table indexes in use
  NDebug    \* whether assertions are compiled out

(* enum OperatorType, in its order.                                        *)
OperatorType ==
  <<"ADD", "SUB", "MUL", "DIV", "POW", "SQRT", "SIN", "COS", "SINH", "COSH", "TAN", "CTG", "LOGN",
    "ASSIGN", "IF", "ELSE", "WHILE", "FUNC_DECL", "VAR_DECL", "IN", "OUT", "TEXT", "LBRACKET",
    "RBRACKET", "LT", "GT", "GE", "LE", "EQ", "NEQ", "SEP", "ARROW", "QUOTE", "RET", "COMMA",
    "DOLLAR", "RUBLE", "CALL", "FUNC_HEADER", "EOF">>

DollarToRuble == 35

Success(s) == s.st = "PARSE_SUCCESS"
SoftErr(s) == s.st = "SOFT_ERROR"
HardErr(s) == s.st \in {"HARD_ERROR", "abort"}

Here(s)         == s.text[s.p]
CmpOp(s, op)    == Here(s).op = op
Next1(s)        == [s EXCEPT !.p = @ + 1]
Return(s, n)    == [s EXCEPT !.n = n, !.st = "PARSE_SUCCESS"]
Soft(s)         == [s EXCEPT !.n = Nothing, !.st = "SOFT_ERROR"]
SyntaxError(s)  == IF HardErr(s) THEN s ELSE [s EXCEPT !.n = Nothing, !.st = "HARD_ERROR"]

(* The union member id of a node: of an operator its code, of a number the *)
(* low word of the double, which is zero for whole numbers of this size.   *)
UnionId(n) ==
  CASE n.op = "IDENTIFIER" -> n.v
    [] n.op = "NUMBER"     -> 0
    [] OTHER               -> (CHOOSE k \in DOMAIN OperatorType : OperatorType[k] = n.op) - 1

SetIdType(s, n, type) ==
  IF n.op # "IDENTIFIER" /\ ~NDebug THEN [s EXCEPT !.st = "abort"]
  ELSE IF UnionId(n) \in Id THEN [s EXCEPT !.ids[UnionId(n)].type = type]
  ELSE s    \* a slot of the table that no name has

SetArgsCount(s, n, k) == [s EXCEPT !.ids[n.v].argsCount = k]

(* The functions that call each other; Get calls one by its rule's name.   *)
RECURSIVE Get(_,_), MoreOf(_,_), GetChainRest(_,_,_), GetBlocks(_,_), GetItems(_,_)

-----------------------------------------------------------------------------
GetIdentifier(s) ==
  IF CmpOp(s, "IDENTIFIER") THEN Return(Next1(s), Here(s)) ELSE Soft(s)

GetNum_OnlyRubles(s) ==
  IF CmpOp(Next1(s), "RUBLE") THEN Return(Next1(Next1(s)), Here(s)) ELSE SyntaxError(Next1(s))

GetNum_KeepsDollars(s) ==
  IF Here(Next1(s)).op \in {"DOLLAR", "RUBLE"} THEN Return(Next1(Next1(s)), Here(s))
  ELSE SyntaxError(Next1(s))

GetNum_AlwaysConverts(s) ==
  IF Here(Next1(s)).op \in {"DOLLAR", "RUBLE"}
  THEN Return(Next1(Next1(s)), Leaf("NUMBER", DollarToRuble * Here(s).v))
  ELSE SyntaxError(Next1(s))

GetNum(s) ==
  LET currency == Next1(s)
      value == Here(s).v * (IF CmpOp(currency, "DOLLAR") THEN DollarToRuble ELSE 1)
  IN IF Here(currency).op \in {"DOLLAR", "RUBLE"}
     THEN Return(Next1(currency), Leaf("NUMBER", value))
     ELSE SyntaxError(currency)

(* Comparisons, sums and products have one shape: operands of the next     *)
(* level, grouped to the left.                                             *)
LevelRules == <<"Expr", "AddPr", "MulPr", "PowPr">>
LevelOps   == <<{"LT", "GT", "GE", "LE", "EQ", "NEQ"}, {"ADD", "SUB"}, {"MUL", "DIV"}>>

MoreOf_GroupsRight(s, k) ==
  IF Here(s).op \notin LevelOps[k] THEN s
  ELSE LET right == Get(LevelRules[k], Next1(s))
       IN IF Success(right) THEN Return(right, Tree(Here(s).op, s.n, right.n))
          ELSE SyntaxError(right)

MoreOf(s, k) ==
  IF Here(s).op \notin LevelOps[k] THEN s
  ELSE LET right == Get(LevelRules[k+1], Next1(s))
       IN IF Success(right) THEN MoreOf(Return(right, Tree(Here(s).op, s.n, right.n)), k)
          ELSE SyntaxError(right)

GetLevel(s, k) ==
  LET left == Get(LevelRules[k+1], s) IN IF Success(left) THEN MoreOf(left, k) ELSE left

GetExpr(s)  == GetLevel(s, 1)
GetAddPr(s) == GetLevel(s, 2)
GetMulPr(s) == GetLevel(s, 3)

GetPowPr(s) ==
  LET left  == Get("Primary", s)
      right == Get("PowPr", Next1(left))
  IN IF ~Success(left) \/ ~CmpOp(left, "POW") THEN left
     ELSE IF Success(right) THEN Return(right, Tree("POW", left.n, right.n))
     ELSE SyntaxError(right)

(* A call is tried first and leaves the pointer at the name if it is none. *)
GetPrimary(s) ==
  CASE CmpOp(s, "LBRACKET") ->
         LET e == Get("Expr", Next1(s))
         IN IF ~Success(e) THEN [e EXCEPT !.n = Nothing]
            ELSE IF CmpOp(e, "RBRACKET") THEN Next1(e)
            ELSE SyntaxError(e)
    [] CmpOp(s, "NUMBER") -> GetNum(s)
    [] CmpOp(s, "IDENTIFIER") ->
         LET call == Get("FunctionCall", s)
         IN IF SoftErr(call) THEN GetIdentifier(call) ELSE call
    [] OTHER -> Get("FuncOper", s)

(* isFunction of the operators table.                                      *)
GetFuncOper(s) ==
  LET e == Get("Expr", Next1(Next1(s)))
  IN IF Here(s).op \notin FunctionOps THEN Soft(s)
     ELSE IF ~CmpOp(Next1(s), "LBRACKET") THEN SyntaxError(Next1(s))
     ELSE IF ~Success(e) THEN [e EXCEPT !.n = Nothing]
     ELSE IF ~CmpOp(e, "RBRACKET") THEN SyntaxError(e)
     ELSE Return(Next1(e), Tree(Here(s).op, e.n, Nothing))

(* The closing bracket becomes the call node.                              *)
GetFunctionCall(s) ==
  LET name == GetIdentifier(s)
      args == Get("ExprChain", Next1(name))
  IN IF ~Success(name) THEN name
     ELSE IF ~CmpOp(name, "LBRACKET") THEN Soft(s)
     ELSE IF ~Success(args) THEN [args EXCEPT !.n = Nothing]
     ELSE IF ~CmpOp(args, "RBRACKET") THEN SyntaxError(args)
     ELSE Return(Next1(args), Tree("CALL", name.n, args.n))

-----------------------------------------------------------------------------
(* Chains of identifiers (parameters) or of expressions (arguments).       *)
Getter(s, expr) == IF expr THEN Get("Expr", s) ELSE GetIdentifier(s)

GetChainRest_CommaLast(s, expr, ns) ==
  IF ~CmpOp(s, "COMMA") THEN [Return(s, List(ns)) EXCEPT !.count = Len(ns)]
  ELSE LET right == Getter(Next1(s), expr)
       IN IF HardErr(right) THEN right
          ELSE IF SoftErr(right) THEN Return(right, List(ns))
          ELSE GetChainRest(SetIdType(right, right.n, "VAR_ID"), expr, Append(ns, right.n))

GetChainRest_CountsCommas(s, expr, ns) ==
  IF ~CmpOp(s, "COMMA") THEN [Return(s, List(ns)) EXCEPT !.count = Len(ns) - 1]
  ELSE LET right == Getter(Next1(s), expr)
       IN IF Success(right) THEN GetChainRest(SetIdType(right, right.n, "VAR_ID"), expr, Append(ns, right.n))
          ELSE SyntaxError(right)

(* Every element after the first is made a variable, in both chains.       *)
GetChainRest(s, expr, ns) ==
  IF ~CmpOp(s, "COMMA") THEN [Return(s, List(ns)) EXCEPT !.count = Len(ns)]
  ELSE LET right == Getter(Next1(s), expr)
           typed == SetIdType(right, right.n, "VAR_ID")
       IN IF ~Success(right) THEN SyntaxError(right)
          ELSE IF ~Success(typed) THEN typed
          ELSE GetChainRest(typed, expr, Append(ns, right.n))

(* A soft error of the first element is an empty chain.                    *)
GetIdOrExprChain(s, expr) ==
  LET first == Getter(s, expr)
  IN IF HardErr(first) THEN [first EXCEPT !.n = Nothing]
     ELSE IF SoftErr(first) THEN [Return(first, Nothing) EXCEPT !.count = 0]
     ELSE GetChainRest(IF expr THEN first ELSE SetIdType(first, first.n, "VAR_ID"),
                       expr, <<first.n>>)

-----------------------------------------------------------------------------
(* Statements that start with a keyword and a name or an expression.       *)
GetOperand(s, keyword, operand) ==
  IF ~CmpOp(s, keyword) THEN Soft(s)
  ELSE IF Success(operand) THEN Return(operand, Tree(keyword, operand.n, Nothing))
  ELSE SyntaxError(operand)

GetInput(s)  == GetOperand(s, "IN", GetIdentifier(Next1(s)))
GetPrint(s)  == GetOperand(s, "OUT", Get("Expr", Next1(s)))
GetReturn(s) == GetOperand(s, "RET", Get("Expr", Next1(s)))

GetVarDecl(s) ==
  LET decl == GetOperand(s, "VAR_DECL", GetIdentifier(Next1(s)))
  IN IF Success(decl) THEN SetIdType(decl, decl.n.l, "VAR_ID") ELSE decl

GetText(s) ==
  LET quote == Next1(s)
      text  == GetIdentifier(Next1(quote))
  IN IF ~CmpOp(s, "TEXT") THEN Soft(s)
     ELSE IF ~CmpOp(quote, "QUOTE") \/ ~Success(text) \/ ~CmpOp(text, "QUOTE")
     THEN SyntaxError(text)
     ELSE Return(Next1(text), Tree("TEXT", text.n, Nothing))

GetAssignment(s) ==
  LET left  == GetIdentifier(s)
      right == Get("Expr", Next1(left))
  IN IF ~Success(left) THEN left
     ELSE IF ~CmpOp(left, "ASSIGN") THEN Soft(s)
     ELSE IF Success(right) THEN Return(right, Tree("ASSIGN", left.n, right.n))
     ELSE SyntaxError(right)

(* The getters in the order of the table; only the last two start alike.   *)
GetStatementBase(s) ==
  CASE CmpOp(s, "IN")         -> GetInput(s)
    [] CmpOp(s, "OUT")        -> GetPrint(s)
    [] CmpOp(s, "RET")        -> GetReturn(s)
    [] CmpOp(s, "TEXT")       -> GetText(s)
    [] CmpOp(s, "VAR_DECL")   -> GetVarDecl(s)
    [] CmpOp(s, "IDENTIFIER") -> LET call == Get("FunctionCall", s)
                                 IN IF SoftErr(call) THEN GetAssignment(call) ELSE call
    [] OTHER -> Soft(s)

(* keyword Expr -> Block; the arrow becomes the statement's SEP node.      *)
GetGuarded(s) ==
  LET guard == Get("Expr", Next1(s))
      body  == Get("Block", Next1(guard))
  IN IF ~Success(guard) \/ ~CmpOp(guard, "ARROW") THEN SyntaxError(guard)
     ELSE IF ~Success(body) THEN SyntaxError(body)
     ELSE Return(body, <<Tree(Here(s).op, guard.n, Block(body.n))>>)

GetElse(s) ==
  LET body == Get("Block", Next1(s))
  IN IF ~CmpOp(s, "ELSE") THEN Soft(s)
     ELSE IF ~Success(body) THEN SyntaxError(body)
     ELSE Return(body, Block(body.n))

GetIf_ElseExpected(s) ==
  LET then  == GetGuarded(s)
      other == Get("Else", then)
  IN IF ~CmpOp(s, "IF") THEN Soft(s)
     ELSE IF ~Success(then) THEN then
     ELSE IF ~Success(other) THEN SyntaxError(other)
     ELSE Return(other, <<Tree("IF", then.n[1].l, Tree("ELSE", then.n[1].r, other.n))>>)

GetIf_SwapsBranches(s) ==
  LET then  == GetGuarded(s)
      other == Get("Else", then)
  IN IF ~CmpOp(s, "IF") THEN Soft(s)
     ELSE IF ~Success(then) THEN then
     ELSE IF HardErr(other) THEN other
     ELSE IF SoftErr(other) THEN then
     ELSE Return(other, <<Tree("IF", then.n[1].l, Tree("ELSE", other.n, then.n[1].r))>>)

GetIf(s) ==
  LET then  == GetGuarded(s)
      if    == then.n[1]
      other == Get("Else", then)
  IN IF ~CmpOp(s, "IF") THEN Soft(s)
     ELSE IF ~Success(then) THEN then
     ELSE IF HardErr(other) THEN other
     ELSE IF SoftErr(other) THEN then
     ELSE Return(other, <<Tree("IF", if.l, Tree("ELSE", if.r, other.n))>>)

GetWhile(s) == IF CmpOp(s, "WHILE") THEN GetGuarded(s) ELSE Soft(s)

GetStatement(s) ==
  LET base == GetStatementBase(s)
      if   == Get("If", base)
  IN IF HardErr(base) THEN base
     ELSE IF Success(base)
     THEN IF CmpOp(base, "SEP") THEN Return(Next1(base), <<base.n>>) ELSE SyntaxError(base)
     ELSE IF SoftErr(if) THEN GetWhile(if)
     ELSE if

(* After each block the next one is linked to the block's first statement, *)
(* so only the last block keeps what follows its first.                    *)
GetBlocks(s, heads) ==
  LET next == Get("Block", s)
  IN IF HardErr(next) THEN next
     ELSE IF SoftErr(next) THEN Return(next, heads \o s.n)
     ELSE GetBlocks(next, Append(heads, s.n[1]))

GetBlock_EndsAnywhere(s) ==
  LET first == Get("Block", Next1(s))
      all   == GetBlocks(first, <<>>)
  IN IF ~CmpOp(s, "LT") THEN Get("Statement", s)
     ELSE IF ~Success(first) THEN SyntaxError(first)
     ELSE IF Success(all) /\ CmpOp(all, "GT") THEN Next1(all)
     ELSE all

GetBlock(s) ==
  LET first == Get("Block", Next1(s))
      all   == GetBlocks(first, <<>>)
  IN IF ~CmpOp(s, "LT") THEN Get("Statement", s)
     ELSE IF ~Success(first) THEN SyntaxError(first)
     ELSE IF ~Success(all) THEN all
     ELSE IF CmpOp(all, "GT") THEN Next1(all)
     ELSE SyntaxError(all)

(* The first arrow becomes the header, the second the SEP node.            *)
GetFunctionDecl(s) ==
  LET args == Get("IdChain", Next1(s))
      name == GetIdentifier(Next1(args))
      decl == SetArgsCount(SetIdType(name, name.n, "FUNC_ID"), name.n, args.count)
      body == Get("Block", Next1(decl))
      head == Tree("FUNC_HEADER", name.n, args.n)
  IN IF ~CmpOp(s, "FUNC_DECL") THEN Soft(s)
     ELSE IF HardErr(args) THEN args
     ELSE IF ~CmpOp(args, "ARROW") THEN SyntaxError(args)
     ELSE IF ~Success(name) THEN SyntaxError(name)
     ELSE IF ~CmpOp(decl, "ARROW") THEN SyntaxError(decl)
     ELSE IF ~Success(body) THEN SyntaxError(body)
     ELSE Return(body, <<Tree("FUNC_DECL", head, Block(body.n))>>)

-----------------------------------------------------------------------------
(* The program's functions and blocks, linked as blocks are in a block.    *)
GetItem(s) ==
  LET decl == Get("FunctionDecl", s) IN IF SoftErr(decl) THEN Get("Block", decl) ELSE decl

GetItems(s, heads) ==
  LET next == GetItem(s)
  IN IF HardErr(next) THEN next
     ELSE IF SoftErr(next) THEN Return(next, heads \o s.n)
     ELSE GetItems(next, IF s.n = <<>> THEN heads ELSE Append(heads, s.n[1]))

GetGrammar(s) ==
  LET all == GetItems([s EXCEPT !.n = <<>>], <<>>)
  IN IF HardErr(all) THEN all
     ELSE IF CmpOp(all, "EOF") THEN Return(Next1(all), Block(all.n))
     ELSE SyntaxError(all)

Get(rule, s) ==
  CASE rule = "Expr"         -> GetExpr(s)
    [] rule = "AddPr"        -> GetAddPr(s)
    [] rule = "MulPr"        -> GetMulPr(s)
    [] rule = "PowPr"        -> GetPowPr(s)
    [] rule = "Primary"      -> GetPrimary(s)
    [] rule = "FuncOper"     -> GetFuncOper(s)
    [] rule = "FunctionCall" -> GetFunctionCall(s)
    [] rule = "ExprChain"    -> GetIdOrExprChain(s, TRUE)
    [] rule = "IdChain"      -> GetIdOrExprChain(s, FALSE)
    [] rule = "Statement"    -> GetStatement(s)
    [] rule = "Block"        -> GetBlock(s)
    [] rule = "FunctionDecl" -> GetFunctionDecl(s)
    [] rule = "If"           -> GetIf(s)
    [] rule = "Else"         -> GetElse(s)
    [] rule = "Grammar"      -> GetGrammar(s)

(* Without a tree (after an error, or for an empty program) there is a     *)
(* syntax error.                                                           *)
Result(r) ==
  [status |-> IF r.st = "abort" THEN "abort"
              ELSE IF HardErr(r) \/ r.n = Nothing THEN "FRONTEND_SYNTAX_ERROR"
              ELSE "FRONTEND_SUCCESS",
   tree   |-> IF Success(r) THEN r.n ELSE Nothing,
   ids    |-> r.ids]

AtStart(text) ==
  [text |-> text, p |-> 1, st |-> "PARSE_SUCCESS", n |-> Nothing, count |-> 0,
   ids |-> [i \in Id |-> [type |-> "UNDEFINED_ID", argsCount |-> 0]]]

SyntaxAnalysis(text) == Result(Get("Grammar", AtStart(text)))
=============================================================================

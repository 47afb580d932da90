-------------------------- MODULE ReverseFrontend --------------------------
(***************************************************************************)
(* frontend.c, writeAsProgram: the program text of a tree.  n is a node    *)
(* and p its parent.  Line breaks and tabs separate tokens and are left    *)
(* out.                                                                    *)
(***************************************************************************)
EXTENDS SyntaxTrees

LOCAL INSTANCE ASTFile WITH TableCapacity <- 0

(* The priority column of the operators table.                             *)
Priority(op) ==
  CASE op \in {"ADD", "SUB", "RET", "FUNC_HEADER"} -> 0
    [] op \in {"MUL", "DIV"} -> 1
    [] op = "POW" -> 2
    [] op \in {"ASSIGN", "LT", "GT", "GE", "LE", "EQ", "NEQ"} -> -1
    [] op \in {"IF", "ELSE", "WHILE", "FUNC_DECL", "VAR_DECL", "SEP", "COMMA", "CALL"} -> -2
    [] OTHER -> 3

Binary == BinaryOps \union {"ASSIGN"}

(* Asked of operators only; the root is the only node without a parent.    *)
NeedBrackets_ForgetsPowers(n, p) ==
  IF n.op \in Binary
  THEN Priority(p.op) > Priority(n.op)
  ELSE n.op \notin {"IN", "OUT", "RET", "VAR_DECL"}

NeedBrackets(n, p) ==
  IF n.op \in Binary
  THEN p.op = "POW" \/ Priority(p.op) > Priority(n.op)
  ELSE n.op \notin {"IN", "OUT", "RET", "VAR_DECL"}

RECURSIVE Write(_,_)

WriteSemicolon(n) ==
  Write(n.l, n)
  \o (IF n.l.op \in {"IF", "WHILE", "FUNC_DECL", "SEP"} THEN <<>> ELSE <<Token("SEP")>>)
  \o Write(n.r, n)

WriteScope(n) ==
  IF n.r = Nothing THEN WriteSemicolon(n)
  ELSE <<Token("LT")>> \o WriteSemicolon(n) \o <<Token("GT")>>

WriteIfWhileStatement(n) ==
  <<Token(n.op)>> \o Write(n.l, n) \o <<Token("ARROW")>>
  \o (IF n.r.op = "ELSE" THEN WriteScope(n.r.l) \o <<Token("ELSE")>> \o WriteScope(n.r.r)
      ELSE WriteScope(n.r))

WriteFunctionDecl(n) ==
  <<Token("FUNC_DECL")>> \o Write(n.l.r, n.l) \o <<Token("ARROW")>> \o Write(n.l.l, n.l)
  \o <<Token("ARROW")>> \o WriteScope(n.r)

WriteCall(n) ==
  Write(n.l, n) \o <<Token("LBRACKET")>> \o Write(n.r, n) \o <<Token("RBRACKET")>>

WriteComma(n) ==
  Write(n.l, n) \o (IF n.r = Nothing THEN <<>> ELSE <<Token("COMMA")>> \o Write(n.r, n))

Bracketed(yes, text) ==
  IF yes THEN <<Token("LBRACKET")>> \o text \o <<Token("RBRACKET")>> ELSE text

WriteOperator(n, p) ==
  IF n.op \in Binary
  THEN Bracketed(NeedBrackets(n, p), Write(n.l, n) \o <<Token(n.op)>> \o Write(n.r, n))
  ELSE <<Token(n.op)>> \o Bracketed(NeedBrackets(n, p), Write(n.l, n))

Write(n, p) ==
  CASE n = Nothing             -> <<>>
    [] n.op = "NUMBER"         -> <<Leaf("NUMBER", Digits6(n.v)), Token("RUBLE")>>
    [] n.op = "IDENTIFIER"     -> <<n>>
    [] n.op \in {"IF", "WHILE"} -> WriteIfWhileStatement(n)
    [] n.op = "FUNC_DECL"      -> WriteFunctionDecl(n)
    [] n.op = "CALL"           -> WriteCall(n)
    [] n.op = "SEP"            -> WriteSemicolon(n)
    [] n.op = "COMMA"          -> WriteComma(n)
    [] OTHER                   -> WriteOperator(n, p)

WriteAsProgram(tree) == Write(tree, Nothing) \o <<Token("EOF")>>
=============================================================================

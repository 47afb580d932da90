------------------------------ MODULE ASTFile ------------------------------
(***************************************************************************)
(* The AST file (tree.c, nameTable.c): what a tree and a name table are    *)
(* written as, and what is read back.  A file is a sequence of lexical     *)
(* elements of the tree's part of it, "{", "}" and the type of a node with *)
(* its value, together with the entries of the name table.                 *)
(***************************************************************************)
EXTENDS SyntaxTrees

CONSTANTS
  TableCapacity    \* entries of a name table (option -n)

(* printf's %lg: six significant digits, ties to even.                     *)
Digits6(v) ==
  LET scale == 10 ^ (CHOOSE k \in 0..4 : v \div 10^k < 1000000 /\ (k > 0 => v \div 10^(k-1) >= 1000000))
      q == v \div scale
      r == v % scale
      up == 2 * r > scale \/ (2 * r = scale /\ q % 2 = 1)
  IN (IF up THEN q + 1 ELSE q) * scale

(* Operators that have a name in ASTNames; another is written as (null).   *)
ASTNames == BinaryOps \union
  {"SQRT", "SIN", "COS", "TAN", "IN", "OUT", "TEXT", "ASSIGN", "IF", "ELSE", "WHILE", "SEP",
   "COMMA", "VAR_DECL", "FUNC_DECL", "CALL", "RET", "FUNC_HEADER"}

GetASTString_NoInequality(op) == IF op \in ASTNames \ {"NEQ"} THEN op ELSE "(null)"
GetASTString(op) == IF op \in ASTNames THEN op ELSE "(null)"

Mark(m) == [mark |-> m, type |-> "", v |-> 0]
Head_(type, v) == [mark |-> ":", type |-> type, v |-> v]

RECURSIVE WriteTreeToAST(_)
WriteTreeToAST(n) ==
  <<Mark("{")>>
  \o (CASE n = Nothing -> <<>>
        [] n.op = "NUMBER"     -> <<Head_("NUM", Digits6(n.v))>>
        [] n.op = "IDENTIFIER" -> <<Head_("IDR", n.v)>>
        [] OTHER -> <<Head_(GetASTString(n.op), 0)>> \o WriteTreeToAST(n.l) \o WriteTreeToAST(n.r))
  \o <<Mark("}")>>

(* An identifier that is not a variable is written as a function.          *)
NameTableWrite(ids) ==
  [i \in DOMAIN ids |->
     [type |-> IF ids[i].type = "VAR_ID" THEN "VAR_ID" ELSE "FUNC_ID",
      argsCount |-> ids[i].argsCount]]

WriteAsAST(tree, ids) == [names |-> NameTableWrite(ids), tree |-> WriteTreeToAST(tree)]

-----------------------------------------------------------------------------
(* A reader's state: the elements, the position p, the nodes still in the  *)
(* arena (option -t of them at first) and the node returned last.  An empty subtree and a    *)
(* subtree that cannot be read are both Nothing to the caller, who goes on *)
(* from wherever the pointer is by then; what follows the tree is not      *)
(* looked at.  The arena never gives its last node.                        *)
Marked(r, m)  == r.p \in DOMAIN r.file /\ r.file[r.p].mark = m
Empty(r)      == Marked(r, "{") /\ Marked([r EXCEPT !.p = @ + 1], "}")
Failed(r)     == [r EXCEPT !.n = Nothing]

CloseNode_Lenient(r) == IF Marked(r, "}") THEN [r EXCEPT !.p = @ + 1] ELSE r

CloseNode(r) == IF Marked(r, "}") THEN [r EXCEPT !.p = @ + 1] ELSE Failed(r)

RECURSIVE ReadTreeFromAST(_)
ReadTreeFromAST(r) ==
  LET node   == r.file[r.p + 1]
      inside == [r EXCEPT !.p = @ + 2, !.nodes = @ - 1]
      left   == ReadTreeFromAST(inside)
      right  == ReadTreeFromAST(left)
      Typed(op) == [inside EXCEPT !.n = Leaf(op, node.v)]
  IN IF Empty(r) THEN [Failed(r) EXCEPT !.p = @ + 2]
     ELSE IF ~Marked(r, "{") \/ ~Marked([r EXCEPT !.p = @ + 1], ":") THEN Failed(r)
     ELSE IF r.nodes <= 1 THEN [Failed(r) EXCEPT !.p = @ + 1]
     ELSE IF node.type = "NUM" THEN CloseNode(Typed("NUMBER"))
     ELSE IF node.type = "IDR" THEN CloseNode(Typed("IDENTIFIER"))
     ELSE IF node.type \notin ASTNames THEN Failed(inside)
     ELSE CloseNode([right EXCEPT !.n = Tree(node.type, left.n, right.n)])

ReadFromAST(file, nodes) ==
  LET r == ReadTreeFromAST([file |-> file.tree, p |-> 1, nodes |-> nodes, n |-> Nothing])
      fits == \A i \in DOMAIN file.names : i < TableCapacity
  IN [status |-> IF fits /\ r.n # Nothing THEN "AST_SUCCESS" ELSE "AST_SYNTAX_ERROR",
      tree |-> r.n, ids |-> file.names]
=============================================================================

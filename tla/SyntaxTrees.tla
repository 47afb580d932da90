---------------------------- MODULE SyntaxTrees ----------------------------
(***************************************************************************)
(* Nodes of the syntax tree, and tokens, which are nodes without sons: the *)
(* parser makes the tree out of the token array.  op is the operator (the  *)
(* enum's names; "LT" and "GT" are < and >, which are OP_LABRACKET and     *)
(* OP_RABRACKET whether they compare or enclose a block) or the type of    *)
(* another node; v is the name table index of an identifier or a number.   *)
(***************************************************************************)
EXTENDS Integers, Sequences, SequencesExt

Nothing == [op |-> "NIL"]
Tree(op, l, r) == [op |-> op, v |-> 0, l |-> l, r |-> r]
Leaf(op, v)    == [op |-> op, v |-> v, l |-> Nothing, r |-> Nothing]
Token(op)      == Leaf(op, 0)

(* Statements, each the left son of a SEP node, as a sequence and linked.  *)
Link(op, ns) == FoldRight(LAMBDA n, rest : Tree(op, n, rest), ns, Nothing)
Block(ss)    == Link("SEP", ss)

(* Elements of a chain of COMMA nodes.                                     *)
List(ns) == IF ns = <<>> THEN Nothing
            ELSE FoldRight(LAMBDA n, rest : Tree("COMMA", n, rest), Front(ns), Last(ns))

BinaryOps  == {"ADD", "SUB", "MUL", "DIV", "POW", "LT", "GT", "GE", "LE", "EQ", "NEQ"}
FunctionOps == {"SQRT", "SIN", "COS", "SINH", "COSH", "TAN", "CTG", "LOGN"}
=============================================================================

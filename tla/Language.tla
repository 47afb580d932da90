------------------------------ MODULE Language ------------------------------
(***************************************************************************)
(* The language's grammar, read as EBNF from the comment in                *)
(* langProcessing.h (README_en.md has the same), as a specification of the *)
(* parser: which texts belong to the language, the words of a text that    *)
(* its tree must have, and the text of a tree.  Chains are read as         *)
(* [x [, x]*]?, which is what they are for.                                *)
(***************************************************************************)
EXTENDS SyntaxTrees

Optional(rule) == {<<>>, rule}
OneOf(symbols) == {<<x>> : x \in symbols}

(* Nonterminal |-> alternatives, each a sequence of symbols.  Repetitions  *)
(* have names of their own, ending in s or Rest.                           *)
Grammar ==
  [Grammar      |-> {<<"Items", "EOF">>},
   Items        |-> {<<"Item", "ItemsRest">>},
   ItemsRest    |-> Optional(<<"Item", "ItemsRest">>),
   Item         |-> {<<"FunctionDecl">>, <<"Block">>},
   FunctionDecl |-> {<<"FUNC_DECL", "IdChain", "ARROW", "IDENTIFIER", "ARROW", "Block">>},
   Block        |-> {<<"LT", "Block", "BlockRest", "GT">>, <<"Statement">>},
   BlockRest    |-> Optional(<<"Block", "BlockRest">>),
   Statement    |-> {<<"Simple", "SEP">>, <<"If">>, <<"While">>},
   Simple       |-> {<<"IN", "IDENTIFIER">>, <<"OUT", "Expr">>, <<"RET", "Expr">>,
                     <<"TEXT", "QUOTE", "IDENTIFIER", "QUOTE">>, <<"VAR_DECL", "IDENTIFIER">>,
                     <<"FunctionCall">>, <<"IDENTIFIER", "ASSIGN", "Expr">>},
   If           |-> {<<"IF", "Expr", "ARROW", "Block", "Else">>},
   Else         |-> Optional(<<"ELSE", "Block">>),
   While        |-> {<<"WHILE", "Expr", "ARROW", "Block">>},
   Expr         |-> {<<"AddPr", "ExprRest">>},
   ExprRest     |-> Optional(<<"Comparison", "AddPr", "ExprRest">>),
   Comparison   |-> OneOf({"LT", "GT", "GE", "LE", "EQ", "NEQ"}),
   AddPr        |-> {<<"MulPr", "AddRest">>},
   AddRest      |-> Optional(<<"ADD", "AddPr">>) \union {<<"SUB", "AddPr">>},
   MulPr        |-> {<<"PowPr", "MulRest">>},
   MulRest      |-> Optional(<<"MUL", "MulPr">>) \union {<<"DIV", "MulPr">>},
   PowPr        |-> {<<"Primary", "PowRest">>},
   PowRest      |-> Optional(<<"POW", "PowPr">>),
   Primary      |-> {<<"LBRACKET", "Expr", "RBRACKET">>, <<"FuncOper", "LBRACKET", "Expr", "RBRACKET">>,
                     <<"FunctionCall">>, <<"IDENTIFIER">>, <<"NUMBER", "Currency">>},
   Currency     |-> OneOf({"DOLLAR", "RUBLE"}),
   FuncOper     |-> OneOf(FunctionOps),
   FunctionCall |-> {<<"IDENTIFIER", "LBRACKET", "ExprChain", "RBRACKET">>},
   IdChain      |-> Optional(<<"IDENTIFIER", "IdRest">>),
   IdRest       |-> Optional(<<"COMMA", "IDENTIFIER", "IdRest">>),
   ExprChain    |-> Optional(<<"Expr", "ArgRest">>),
   ArgRest      |-> Optional(<<"COMMA", "Expr", "ArgRest">>)]

(* The grammar the parser goes by: brackets opened by a first argument     *)
(* that turns out not to be there are forgotten.                           *)
ParserGrammar ==
  [x \in DOMAIN Grammar \union {"Stray"} |->
     CASE x = "ExprChain" -> Grammar[x] \union {<<"Stray">>}
       [] x = "Stray" -> {<<"LBRACKET">>, <<"LBRACKET", "Stray">>, <<"FuncOper", "LBRACKET">>,
                          <<"FuncOper", "LBRACKET", "Stray">>}
       [] OTHER -> Grammar[x]]

(* Where a symbol, or a sequence of symbols, can end when it starts at i.  *)
RECURSIVE Ends(_,_,_,_), EndsOfAll(_,_,_,_)
Ends(rules, x, i, text) ==
  IF x \in DOMAIN rules THEN UNION {EndsOfAll(rules, alt, i, text) : alt \in rules[x]}
  ELSE IF i \in DOMAIN text /\ text[i].op = x THEN {i + 1} ELSE {}

EndsOfAll(rules, xs, i, text) ==
  IF xs = <<>> THEN {i}
  ELSE UNION {EndsOfAll(rules, Tail(xs), j, text) : j \in Ends(rules, Head(xs), i, text)}

Derives(rules, text) == Len(text) + 1 \in Ends(rules, "Grammar", 1, text)

-----------------------------------------------------------------------------
(* What a text says, apart from its punctuation, in reading order.         *)
Punctuation == {"LBRACKET", "RBRACKET", "LT", "GT", "SEP", "ARROW", "QUOTE", "COMMA",
                "DOLLAR", "RUBLE", "EOF"}

InRubles(text, i) ==
  IF text[i].op = "NUMBER" /\ text[i+1].op = "DOLLAR" THEN [text[i] EXCEPT !.v = 35 * @] ELSE text[i]

TextWords(text) ==
  SelectSeq([i \in DOMAIN text |-> InRubles(text, i)], LAMBDA t : t.op \notin Punctuation)

RECURSIVE TreeWords(_)
TreeWords(n) ==
  LET word == Token(n.op)
  IN CASE n = Nothing -> <<>>
       [] n.op \in {"NUMBER", "IDENTIFIER"} -> <<n>>
       [] n.op \in {"SEP", "CALL", "COMMA", "LT", "GT"} -> TreeWords(n.l) \o TreeWords(n.r)
       [] n.op = "FUNC_HEADER" -> TreeWords(n.r) \o TreeWords(n.l)
       [] n.op \in BinaryOps \union {"ASSIGN", "ELSE"} -> TreeWords(n.l) \o <<word>> \o TreeWords(n.r)
       [] OTHER -> <<word>> \o TreeWords(n.l) \o TreeWords(n.r)

(* No block right inside a block or at the top of the program: every < in  *)
(* front of statements follows an arrow or else.                           *)
OpensBlock(text, i) ==
  text[i].op = "LT" /\ (i = 1 \/ text[i-1].op \in {"LT", "GT", "SEP", "ARROW", "ELSE"})
PlainBlocks(text) ==
  \A i \in DOMAIN text : OpensBlock(text, i) => i > 1 /\ text[i-1].op \in {"ARROW", "ELSE"}

(* A name is what it was last declared as, if it was.                      *)
Declarations(text) ==
  {i \in DOMAIN text : text[i].op = "IDENTIFIER" /\ i > 1 /\
     (text[i-1].op \in {"VAR_DECL", "FUNC_DECL"} \/
      \E k \in 1..i-1 : /\ text[k].op = "FUNC_DECL"
                        /\ \A m \in k+1..i-1 : text[m].op \in {"IDENTIFIER", "COMMA", "ARROW"}
                        /\ \A m \in k+1..i-2 : text[m].op # "ARROW")}

DeclaredAs(text, i) == IF text[i-1].op = "ARROW" THEN "FUNC_ID" ELSE "VAR_ID"

-----------------------------------------------------------------------------
(* The binary operators by level, loosest first.                           *)
Levels == <<{"LT", "GT", "GE", "LE", "EQ", "NEQ"}, {"ADD", "SUB"}, {"MUL", "DIV"}, {"POW"}>>
LevelOf(op) == IF op \in UNION {Levels[k] : k \in DOMAIN Levels}
               THEN CHOOSE k \in DOMAIN Levels : op \in Levels[k] ELSE 5

(* A chain that is one statement to which an else after it would belong.   *)
RECURSIVE TakesElse(_)
TakesElse(n) ==
  n.r = Nothing /\ CASE n.l.op = "IF" -> n.l.r.op # "ELSE" \/ TakesElse(n.l.r.r)
                     [] n.l.op = "WHILE" -> TakesElse(n.l.r)
                     [] OTHER -> FALSE

(* Trees without what the reverse front end does not write back: a text    *)
(* statement, a right operand of its operator's own level, and a branch    *)
(* that is one statement to which the else would then belong.              *)
RECURSIVE Reversible(_)
Reversible(n) ==
  n = Nothing \/
    /\ Reversible(n.l) /\ Reversible(n.r)
    /\ n.op # "TEXT"
    /\ n.op \in BinaryOps \ {"POW"} => LevelOf(n.r.op) # LevelOf(n.op)
    /\ n.op = "ELSE" => ~TakesElse(n.l)

-----------------------------------------------------------------------------
(* The text of a tree with the brackets the grammar's levels require, a    *)
(* block wherever a statement is expected, and numbers in rubles.          *)
Between(open, text, close) == <<Token(open)>> \o text \o <<Token(close)>>

RECURSIVE ExprText(_,_), ChainText(_), StatementsText(_)
ExprText(e, level) ==
  LET k == LevelOf(e.op)
      pow == e.op = "POW"
      text == CASE e.op = "NUMBER"     -> <<e, Token("RUBLE")>>
                [] e.op = "IDENTIFIER" -> <<e>>
                [] e.op \in FunctionOps  -> <<Token(e.op)>> \o Between("LBRACKET", ExprText(e.l, 1), "RBRACKET")
                [] e.op = "CALL"       -> <<e.l>> \o Between("LBRACKET", ChainText(e.r), "RBRACKET")
                [] OTHER -> ExprText(e.l, IF pow THEN k + 1 ELSE k) \o <<Token(e.op)>>
                              \o ExprText(e.r, IF pow THEN k ELSE k + 1)
  IN IF k < level THEN Between("LBRACKET", text, "RBRACKET") ELSE text

ChainText(n) ==
  CASE n = Nothing    -> <<>>
    [] n.op = "COMMA" -> ExprText(n.l, 1) \o <<Token("COMMA")>> \o ChainText(n.r)
    [] OTHER          -> ExprText(n, 1)

StatementsText(n) ==
  IF n = Nothing THEN <<>>
  ELSE
  LET s == n.l
      Body(b) == Between("LT", StatementsText(b), "GT")
      Guard == <<Token(s.op)>> \o ExprText(s.l, 1) \o <<Token("ARROW")>>
  IN (CASE s.op = "IF" /\ s.r.op = "ELSE" -> Guard \o Body(s.r.l) \o <<Token("ELSE")>> \o Body(s.r.r)
        [] s.op = "WHILE" \/ (s.op = "IF" /\ s.r.op # "ELSE") -> Guard \o Body(s.r)
        [] s.op = "FUNC_DECL" -> <<Token("FUNC_DECL")>> \o ChainText(s.l.r) \o <<Token("ARROW"), s.l.l, Token("ARROW")>>
                                   \o Body(s.r)
        [] s.op = "ASSIGN" -> <<s.l, Token("ASSIGN")>> \o ExprText(s.r, 1) \o <<Token("SEP")>>
        [] s.op = "TEXT" -> <<Token("TEXT"), Token("QUOTE"), s.l, Token("QUOTE"), Token("SEP")>>
        [] s.op = "CALL" -> ExprText(s, 1) \o <<Token("SEP")>>
        [] OTHER -> <<Token(s.op)>> \o ExprText(s.l, 1) \o <<Token("SEP")>>)
     \o StatementsText(n.r)

ProgramText(tree) == StatementsText(tree) \o <<Token("EOF")>>
=============================================================================

----------------------------- MODULE MCFrontend -----------------------------
(* TLC instances of Frontend.                                              *)
EXTENDS Frontend

P == INSTANCE MCPrograms

MCId == 0..3
Grammar       == L!Grammar
ParserGrammar == L!ParserGrammar

Op(op)  == <<Token(op)>>
Name(x) == <<Leaf("IDENTIFIER", x)>>
One     == <<Leaf("NUMBER", 1), Token("RUBLE")>>

(* A program written piece by piece, and programs given whole.             *)
Writing(added, ending, max) == [pieces |-> added, ending |-> ending, max |-> max, nodes |-> 200]
Given(nodes) == [pieces |-> {}, ending |-> <<>>, max |-> 0, nodes |-> nodes]

(* Expressions: ShowBalance ... %                                          *)
ExprPieces == {Name(0), Op("SUB"), Op("POW"), Op("LT"), Op("LBRACKET"), Op("RBRACKET"),
               Op("COMMA"), Op("SIN"), <<Leaf("NUMBER", 2), Token("DOLLAR")>>}
Expressions == Writing(ExprPieces, Op("SEP"), 5)

(* Statements, the simple ones whole.                                      *)
Assign == Name(1) \o Op("ASSIGN") \o Name(0) \o Op("SEP")
StatementPieces ==
  {Op("LT"), Op("GT"), Assign, Op("IF") \o Name(0) \o Op("ARROW"), Op("ELSE"),
   Op("WHILE") \o Name(0) \o Op("ARROW"),
   Op("FUNC_DECL") \o Name(0) \o Op("ARROW") \o Name(2) \o Op("ARROW"),
   Op("VAR_DECL") \o Name(2) \o Op("SEP")}
Compounds == Writing(StatementPieces, <<>>, 6)

(* The calls ShowBalance f( ... ) %                                        *)
ArgPieces == {Name(0), One, Op("COMMA"), Op("LBRACKET"), Op("RBRACKET"), Op("SIN")}
Calls == Writing(ArgPieces, Op("RBRACKET") \o Op("SEP"), 3)

ParserSessions == [expressions |-> Expressions, statements |-> Compounds, calls |-> Calls]
CallSessions   == [calls |-> Calls]

FirstWords(which) ==
  {CASE which = "expressions" -> Op("OUT")
     [] which = "statements"  -> <<>>
     [] which = "calls"       -> Op("OUT") \o Name(2) \o Op("LBRACKET")}

(* Programs written out as the grammar asks for.                           *)
Texts(trees) == {Front(L!ProgramText(t)) : t \in trees}

Programs == P!BlockPrograms \union (P!FunctionPrograms \ P!MisusedNames)
ProgramTexts == Texts(Programs)

Shown(es) == Texts({P!Block(<<P!Show(e)>>) : e \in es})

(* Two operators, one the left or the right operand of the other, and      *)
(* functions between two operators.                                        *)
LeftNested   == {Tree(o, Tree(i, P!Var(0), P!Lit(1)), P!Var(1)) : o, i \in BinaryOps}
RightNested  == {Tree(o, P!Var(0), Tree(i, P!Lit(1), P!Var(1))) : o, i \in BinaryOps}
Applied(fs)  == {Tree(o, P!Var(0), Tree(g, Tree(i, P!Var(0), P!Var(1)), Nothing)) :
                   o, i \in {"SUB", "POW"}, g \in fs}

Branches ==
  LET x == P!Set(0, P!Lit(1))
      y == P!Set(1, P!Lit(2))
      Inner == {P!If(P!Var(0), <<x>>), P!IfElse(P!Var(0), <<x>>, <<y>>),
                P!While(P!Var(0), <<x>>), P!IfElse(P!Var(1), <<x, y>>, <<P!If(P!Var(0), <<y>>)>>)}
  IN {P!Block(<<P!IfElse(P!Var(1), s, <<d>>)>>) :
        s \in UNION {{<<c>>, <<x, c>>} : c \in Inner}, d \in Inner}

WrittenFunctions == ASTNames \intersect FunctionOps
SentenceTexts == ProgramTexts \union Shown(LeftNested \union RightNested \union Applied(WrittenFunctions))
                  \union Texts(Branches)

(* The name table the runs of MoneyLang assume is the one the parser makes *)
(* (syntaxAnalysis.c, setIdType and setArgsCount): types and numbers of    *)
(* parameters of everything a program declares.                            *)
NamesForConverter ==
  Translated => \A i \in Id : ids[i].type # "UNDEFINED_ID" => ids[i] = P!MCNameTable(tree)[i]

(* With room for every tree, and for the smaller ones only.                *)
SentenceSessions == [roomy |-> Given(200), cramped |-> Given(24)]
Sentences(which) == SentenceTexts
=============================================================================

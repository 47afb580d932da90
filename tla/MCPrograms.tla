----------------------------- MODULE MCPrograms -----------------------------
(***************************************************************************)
(* The syntax trees the runs use: builders for the trees the parser makes, *)
(* the name table it hands over with them, and families of programs.       *)
(* Statement lists are sequences of trees; Block links one the way the     *)
(* parser does, each statement the left son of a SEP node.                 *)
(***************************************************************************)
EXTENDS FiniteSets, SyntaxTrees

(* Name table indexes: two variables, two functions, the runtime.          *)
a == 0
b == 1
f == 2
g == 3
MCIn == 4
MCOut == 5
MCId == 0..5

Lit(n)  == Leaf("NUMBER", n)
Var(x)  == Leaf("IDENTIFIER", x)
Sqrt(e) == Tree("SQRT", e, Nothing)

Account(x)      == Tree("VAR_DECL", Var(x), Nothing)
Set(x, e)       == Tree("ASSIGN", Var(x), e)
New(x, e)       == <<Account(x), Set(x, e)>>
Invest(x)       == Tree("IN", Var(x), Nothing)
Show(e)         == Tree("OUT", e, Nothing)
Pay(e)          == Tree("RET", e, Nothing)
Text            == Tree("TEXT", Var(a), Nothing)
If(c, ss)       == Tree("IF", c, Block(ss))
IfElse(c, s, t) == Tree("IF", c, Tree("ELSE", Block(s), Block(t)))
While(c, ss)    == Tree("WHILE", c, Block(ss))
CallOf(h, es)   == Tree("CALL", Var(h), List(es))
Transaction(h, xs, ss) ==
  Tree("FUNC_DECL", Tree("FUNC_HEADER", Var(h), List([k \in 1..Len(xs) |-> Var(xs[k])])),
       Block(ss))

(* The table the parser writes: a name is VAR if it is declared as one,    *)
(* FUNC otherwise, and argsCount is the last declaration's.                *)
Arities(ast) ==
  LET tops[k \in 0..12] == IF k = 0 THEN ast ELSE IF tops[k-1] = Nothing THEN Nothing ELSE tops[k-1].r
      fun(h) == {k \in 0..12 : /\ tops[k] # Nothing
                               /\ tops[k].l.op = "FUNC_DECL" /\ tops[k].l.l.l.v = h}
      len(n) == LET l[k \in 0..3] == IF k = 0 THEN n
                                     ELSE IF l[k-1].op = "COMMA" THEN l[k-1].r ELSE Nothing
                IN Cardinality({k \in 0..3 : l[k] # Nothing})
  IN [h \in {f, g} |-> IF fun(h) = {} THEN 0
                       ELSE len(tops[CHOOSE k \in fun(h) : \A m \in fun(h) : m <= k].l.l.r)]

MCNameTable(ast) ==
  [i \in MCId |-> IF i \in {f, g} THEN [type |-> "FUNC_ID", argsCount |-> Arities(ast)[i]]
                  ELSE [type |-> "VAR_ID", argsCount |-> 0]]

-----------------------------------------------------------------------------
(* Blocks: every way to nest one compound statement in the program and to  *)
(* follow it, with declarations, shadowing and undeclared names.           *)
Simple == {New(a, Lit(3)), New(b, Tree("SUB", Var(a), Lit(1))),
           <<Set(a, Var(b))>>, <<Set(b, Tree("ADD", Var(a), Lit(1)))>>,
           <<Show(Var(b))>>}

Bodies == Simple \union {s \o t : s, t \in Simple}

Conditions == {Var(a), Tree("LT", Var(a), Lit(2)), Tree("GE", Lit(2), Var(a))}

Compounds ==
  {<<If(c, s)>> : c \in Conditions, s \in Bodies}
  \union {<<IfElse(c, s, t)>> : c \in Conditions, s \in Simple, t \in Simple}
  \union {<<While(Var(a), s \o <<Set(a, Tree("SUB", Var(a), Lit(1)))>>)>> :
            s \in {New(b, Var(a)) \o <<Show(Var(b))>>,
                   New(b, Lit(7)) \o <<If(Tree("EQ", Var(a), Lit(1)), New(a, Var(b)) \o <<Show(Var(a))>>)>>,
                   <<IfElse(Tree("GT", Var(a), Lit(1)), New(b, Lit(1)), New(b, Var(a)) \o New(b, Var(b)))>>}}

BlockPrograms ==
  {Block(New(a, Lit(2)) \o h \o c \o s \o <<Show(Var(a))>>) :
     h \in {<<>>, New(b, Lit(1))}, c \in Compounds, s \in Simple}

-----------------------------------------------------------------------------
(* Functions: one of several bodies for f (one or two parameters, blocks,  *)
(* loops, recursion, shadowed and global variables), g calling f or not,   *)
(* and main programs that call them in every position of an expression.    *)
Minus1(x) == Tree("SUB", Var(x), Lit(1))

OneParam ==
  {<<Pay(Tree("MUL", Var(b), Lit(2)))>>,
   New(a, Var(b)) \o <<Set(b, Minus1(b)), Pay(Tree("SUB", Var(a), Var(b)))>>,
   <<IfElse(Tree("GT", Var(b), Lit(1)), New(a, Lit(4)) \o <<Pay(Minus1(a))>>,
                                        New(a, Lit(9)) \o <<Pay(Sqrt(Var(a)))>>)>>,
   <<If(Tree("LE", Var(b), Lit(0)), <<Pay(Lit(1))>>)>> \o New(a, Minus1(b))
     \o <<Set(b, Tree("MUL", Var(b), CallOf(f, <<Var(a)>>))), Pay(Var(b))>>,
   <<While(Tree("GT", Var(b), Lit(0)), New(a, Var(b)) \o <<Set(b, Minus1(b)), Show(Var(a))>>),
     Pay(Var(b))>>,
   <<While(Tree("GT", Var(b), Lit(0)), <<Account(a), If(Tree("EQ", Var(b), Lit(1)), <<Pay(Lit(8))>>),
                     Set(b, Minus1(b))>>), Pay(Lit(6))>>,
   <<Set(a, Tree("ADD", Var(a), Var(b))), Pay(Var(a))>>}

TwoParams ==
  {<<Pay(Tree("SUB", Var(a), Var(b)))>>,
   <<If(Tree("EQ", Var(a), Lit(0)), <<Pay(Var(b))>>),
     Pay(CallOf(f, <<Minus1(a), Tree("ADD", Var(a), Var(b))>>))>>,
   <<If(Tree("NEQ", Var(b), Lit(0)), New(a, Var(b)) \o <<Set(b, Lit(0)), Set(a, Minus1(a)), Show(Var(a))>>)>>
     \o New(b, Var(a)) \o <<Pay(Tree("DIV", Var(b), Lit(1)))>>}

NoParam == {<<Set(a, Minus1(a)), Pay(Var(a))>>, New(b, Lit(5)) \o <<Pay(Var(b))>>}

DeclareF(xs) ==
  {Transaction(f, xs, s) : s \in CASE Len(xs) = 0 -> NoParam
                                  [] Len(xs) = 1 -> OneParam
                                  [] Len(xs) = 2 -> TwoParams}

(* Calls of f when it takes n parameters: in every position an expression  *)
(* has, and once with a wrong number of arguments; leaving all of them out *)
(* is kept apart.                                                          *)
CallsOfF(n) ==
  CASE n = 0 -> {CallOf(f, <<>>), Tree("MUL", CallOf(f, <<>>), CallOf(g, <<CallOf(f, <<>>)>>)),
                 CallOf(f, <<Lit(1)>>)}
    [] n = 1 -> {CallOf(f, <<Lit(2)>>), CallOf(f, <<CallOf(f, <<Lit(1)>>)>>),
                 Tree("SUB", CallOf(g, <<CallOf(f, <<Var(a)>>)>>), CallOf(f, <<Lit(1)>>)),
                 CallOf(f, <<Lit(1), Lit(2)>>)}
    [] n = 2 -> {CallOf(f, <<Lit(2), Var(a)>>),
                 CallOf(f, <<CallOf(g, <<Var(a)>>), CallOf(f, <<Lit(1), Lit(2)>>)>>),
                 CallOf(f, <<Tree("SUB", CallOf(f, <<Lit(0), Lit(3)>>), Lit(1)), Var(a)>>),
                 CallOf(f, <<Lit(2)>>), CallOf(f, <<Lit(1), Lit(2), Lit(3)>>)}

GBodies(calls) ==
  {<<Pay(Minus1(b))>>}
  \union {New(a, Lit(2)) \o <<c, Pay(Tree("ADD", c, Var(b)))>> : c \in calls}

Mains(calls) ==
  {<<CallOf(g, <<c>>), Set(a, Tree("SUB", Var(a), c)), Show(Tree("ADD", c, Var(a)))>> : c \in calls}
  \union {<<If(Tree("LT", CallOf(g, <<Var(a)>>), c), New(b, c) \o <<Show(Var(b))>>),
            Invest(a), Text>> : c \in calls}
  \union {<<If(Var(a), New(b, Lit(2)) \o <<Set(a, CallOf(g, <<Var(b)>>))>>)>>}

Whole(d, s, m) ==
  Block(New(a, Lit(2)) \o <<d, Transaction(g, <<b>>, s)>> \o m \o <<Show(Var(a))>>)

(* Functions called above their declarations, which see the globals that   *)
(* precede these and have been declared by then; others come later.        *)
CalledEarly(d, s, m) ==
  Block(New(a, Lit(2)) \o m \o <<d, Transaction(g, <<b>>, s)>> \o New(b, Lit(7))
        \o <<Show(CallOf(g, <<Var(b)>>)), Show(Var(a))>>)

EarlyPrograms ==
  UNION {{CalledEarly(d, s, m) : d \in DeclareF(xs), s \in GBodies(CallsOfF(Len(xs))),
                                 m \in {<<Show(CallOf(g, <<c>>))>> : c \in CallsOfF(Len(xs))}} :
           xs \in {<<>>, <<b>>, <<a, b>>}}

(* Trees the parser never makes, but the back end, which takes its input   *)
(* from other front ends too, has errors for: a function inside another,   *)
(* a function used as a variable and a variable called as a function;     *)
(* a name read into without having been declared; and a power, which the   *)
(* parser does make and this back end does not translate.                  *)
MisusedNames ==
  LET id == Transaction(f, <<b>>, <<Pay(Var(b))>>)
  IN {Whole(id, <<Transaction(f, <<a>>, <<Pay(Var(a))>>), Pay(Var(b))>>, <<>>)}
     \union {Whole(id, <<Pay(Var(b))>>, m) :
               m \in {<<Show(Var(f))>>, <<Set(f, Lit(1))>>, <<Account(f), Invest(f)>>,
                       <<Show(CallOf(a, <<Lit(1)>>))>>, <<CallOf(a, <<>>)>>, <<Invest(b)>>,
                       <<If(Var(a), <<Show(Tree("POW", Var(a), Lit(2)))>>)>>}}

FunctionPrograms ==
  UNION {{Whole(d, s, m) : d \in DeclareF(xs), s \in GBodies(CallsOfF(Len(xs))),
                           m \in Mains(CallsOfF(Len(xs)))} :
           xs \in {<<>>, <<b>>, <<a, b>>}}
  \union EarlyPrograms \union MisusedNames

(* A tree's nodes. *)
RECURSIVE MCNodes(_)
MCNodes(n) == {n} \union IF n = Nothing THEN {} ELSE MCNodes(n.l) \union MCNodes(n.r)

(* f has a parameter and is called with none.                              *)
MissingArgument ==
  {Whole(d, s, <<Show(CallOf(f, <<>>))>>) : d \in DeclareF(<<b>>), s \in GBodies({})}
=============================================================================

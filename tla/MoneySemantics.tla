--------------------------- MODULE MoneySemantics ---------------------------
(***************************************************************************)
(* A reference interpreter of the language over syntax trees, written from *)
(* the language (README: blocks, functions, Pay, if/else, while), not from *)
(* the compiler: no stack, no addresses, no jumps.  It is what compiled    *)
(* programs are compared with.                                             *)
(*                                                                         *)
(* A variable is a location in a store; an environment is the sequence of  *)
(* <<name, location>> bindings in scope, innermost last.  A function sees  *)
(* its parameters and the global variables declared before it.  The order  *)
(* in which arguments are evaluated and the tax taken from every value a   *)
(* function pays are the target's: see OutputOn.                           *)
(***************************************************************************)
EXTENDS Integers, Sequences, FiniteSets, SequencesExt

LOCAL NilNode == [op |-> "NIL"]

Operators == {"ADD", "SUB", "MUL", "DIV", "LT", "GT", "LE", "GE", "EQ", "NEQ"}

Truth(b) == IF b THEN 1 ELSE 0

Apply(op, a, b) ==
  CASE op = "ADD" -> a + b
    [] op = "SUB" -> a - b
    [] op = "MUL" -> a * b
    [] op = "DIV" -> a \div b
    [] op = "LT"  -> Truth(a < b)
    [] op = "GT"  -> Truth(b < a)
    [] op = "LE"  -> Truth(~(b < a))
    [] op = "GE"  -> Truth(~(a < b))
    [] op = "EQ"  -> Truth(a = b)
    [] op = "NEQ" -> Truth(a # b)

RECURSIVE Statements(_), ParamNames(_), ArgList(_)
Statements(n) == IF n = NilNode THEN <<>> ELSE <<n.l>> \o Statements(n.r)
ParamNames(n) == IF n = NilNode THEN <<>>
                 ELSE IF n.op = "COMMA" THEN <<n.l.v>> \o ParamNames(n.r)
                 ELSE <<n.v>>
ArgList(n)    == IF n = NilNode THEN <<>>
                 ELSE IF n.op = "COMMA" THEN <<n.l>> \o ArgList(n.r)
                 ELSE <<n>>

(* The declarations of a function, and how many globals precede one.       *)
DeclsOf(top, f) == {i \in 1..Len(top) : top[i].op = "FUNC_DECL" /\ top[i].l.l.v = f}
GlobalsBefore(top, i) == Cardinality({j \in 1..i-1 : top[j].op = "VAR_DECL"})

Lookup(env, id) ==
  env[CHOOSE i \in 1..Len(env) : env[i][1] = id /\ \A j \in i+1..Len(env) : env[j][1] # id][2]

(* State: store, numbers to read, numbers printed, the value being         *)
(* returned (<<>> or <<v>>), global bindings made so far, the whole program, *)
(* and the target's order of arguments and tax.                            *)
InOrder(es, st) == IF st.firstFirst THEN Reverse(es) ELSE es

RECURSIVE Eval(_,_,_), EvalArgs(_,_,_), Call(_,_,_), Run(_,_,_,_), RunLoop(_,_,_)

Eval(e, env, st) ==
  CASE e.op = "NUMBER"     -> [v |-> e.v, st |-> st]
    [] e.op = "IDENTIFIER" -> [v |-> st.store[Lookup(env, e.v)], st |-> st]
    [] e.op \in Operators     -> LET a == Eval(e.l, env, st)
                                  b == Eval(e.r, env, a.st)
                              IN [v |-> Apply(e.op, a.v, b.v), st |-> b.st]
    [] e.op = "SQRT"       -> LET a == Eval(e.l, env, st)
                              IN [v |-> CHOOSE r \in 0..a.v : r * r = a.v, st |-> a.st]
    [] e.op = "CALL"       -> LET a == EvalArgs(InOrder(ArgList(e.r), st), env, st)
                              IN Call(e.l.v, InOrder(a.v, st), a.st)

(* The last one first. *)
EvalArgs(es, env, st) ==
  IF es = <<>> THEN [v |-> <<>>, st |-> st]
  ELSE LET later == EvalArgs(Tail(es), env, st)
           first == Eval(Head(es), env, later.st)
       IN [v |-> <<first.v>> \o later.v, st |-> first.st]

Call(f, args, st) ==
  LET i      == CHOOSE k \in DeclsOf(st.top, f) : TRUE
      params == ParamNames(st.top[i].l.r)
      bound  == [k \in 1..Len(params) |-> <<params[k], Len(st.store) + k>>]
      env    == SubSeq(st.globals, 1, GlobalsBefore(st.top, i)) \o bound
      r      == Run(st.top[i].r, env, [st EXCEPT !.store = @ \o args], FALSE)
  IN [v |-> r.st.ret[1], st |-> [r.st EXCEPT !.ret = <<>>]]

(* Run a chain of statements; outermost tells the program's own chain.     *)
Run(n, env, st, outermost) ==
  IF n = NilNode \/ st.ret # <<>> THEN [env |-> env, st |-> st]
  ELSE
  LET s == n.l
      r == CASE s.op = "VAR_DECL" ->
                  LET b == <<s.l.v, Len(st.store) + 1>>
                  IN [env |-> Append(env, b),
                      st  |-> [st EXCEPT !.store = Append(@, 0),
                                         !.globals = IF outermost THEN Append(@, b) ELSE @]]
             [] s.op = "ASSIGN" ->
                  LET e == Eval(s.r, env, st)
                  IN [env |-> env, st |-> [e.st EXCEPT !.store[Lookup(env, s.l.v)] = e.v]]
             [] s.op = "IN" ->
                  [env |-> env,
                   st |-> [st EXCEPT !.store[Lookup(env, s.l.v)] = Head(st.input),
                                     !.input = Tail(@)]]
             [] s.op = "OUT" ->
                  LET e == Eval(s.l, env, st)
                  IN [env |-> env, st |-> [e.st EXCEPT !.out = Append(@, e.v)]]
             [] s.op = "RET" ->
                  LET e == Eval(s.l, env, st)
                  IN [env |-> env, st |-> [e.st EXCEPT !.ret = <<e.v * st.tax>>]]
             [] s.op = "CALL" -> [env |-> env, st |-> Eval(s, env, st).st]
             [] s.op = "IF" ->
                  LET c    == Eval(s.l, env, st)
                      then == IF s.r.op = "ELSE" THEN s.r.l ELSE s.r
                      else == IF s.r.op = "ELSE" THEN s.r.r ELSE NilNode
                  IN [env |-> env,
                      st  |-> Run(IF c.v # 0 THEN then ELSE else, env, c.st, FALSE).st]
             [] s.op = "WHILE" -> [env |-> env, st |-> RunLoop(s, env, st)]
             [] OTHER -> [env |-> env, st |-> st]    \* FUNC_DECL, TEXT
  IN Run(n.r, r.env, r.st, outermost)

RunLoop(s, env, st) ==
  LET c == Eval(s.l, env, st)
      b == Run(s.r, env, c.st, FALSE).st
  IN IF c.v = 0 THEN c.st ELSE IF b.ret # <<>> THEN b ELSE RunLoop(s, env, b)

(* The x86 target evaluates the arguments of a call from the last to the   *)
(* first, the SPU target from the first to the last; only the latter can   *)
(* tax what functions pay.                                                 *)
OutputOn(ast, input, firstFirst, tax) ==
  Run(ast, <<>>, [store |-> <<>>, input |-> input, out |-> <<>>, ret |-> <<>>,
                  globals |-> <<>>, top |-> Statements(ast),
                  firstFirst |-> firstFirst, tax |-> tax], TRUE).st.out

Output(ast, input) == OutputOn(ast, input, FALSE, 1)

-----------------------------------------------------------------------------
(* Static rules: a variable is used only where a declaration of it is in   *)
(* scope and never shares a function's name, a call names a function and   *)
(* passes as many arguments as it has, functions do not nest.              *)
RECURSIVE ExprOK(_,_,_), ChainOK(_,_,_,_)

VariableOK(id, scope, arity) == id \in scope /\ id \notin DOMAIN arity

ExprOK(e, scope, arity) ==
  CASE e.op = "NUMBER"     -> TRUE
    [] e.op = "IDENTIFIER" -> VariableOK(e.v, scope, arity)
    [] e.op \in Operators     -> ExprOK(e.l, scope, arity) /\ ExprOK(e.r, scope, arity)
    [] e.op = "SQRT"       -> ExprOK(e.l, scope, arity)
    [] e.op = "CALL"       ->
         /\ e.l.v \in DOMAIN arity /\ Len(ArgList(e.r)) = arity[e.l.v]
         /\ \A a \in ToSet(ArgList(e.r)) : ExprOK(a, scope, arity)
    [] OTHER -> FALSE       \* powers and trigonometry, not translated

ChainOK(n, scope, arity, nested) ==
  IF n = NilNode THEN TRUE
  ELSE
  LET s == n.l
      BodyOK(body) == ChainOK(body, scope, arity, nested)
  IN /\ CASE s.op \in {"OUT", "RET"} -> ExprOK(s.l, scope, arity)
          [] s.op = "ASSIGN"    -> VariableOK(s.l.v, scope, arity) /\ ExprOK(s.r, scope, arity)
          [] s.op = "IN"        -> VariableOK(s.l.v, scope, arity)
          [] s.op = "CALL"      -> ExprOK(s, scope, arity)
          [] s.op = "IF"        -> /\ ExprOK(s.l, scope, arity)
                                   /\ IF s.r.op = "ELSE" THEN BodyOK(s.r.l) /\ BodyOK(s.r.r)
                                                         ELSE BodyOK(s.r)
          [] s.op = "WHILE"     -> ExprOK(s.l, scope, arity) /\ BodyOK(s.r)
          [] s.op = "FUNC_DECL" ->
               /\ ~nested
               /\ ChainOK(s.r, scope \union ToSet(ParamNames(s.l.r)), arity, TRUE)
          [] OTHER -> TRUE
     /\ ChainOK(n.r, IF s.op = "VAR_DECL" THEN scope \union {s.l.v} ELSE scope, arity, nested)

Arity(ast) ==
  LET top == Statements(ast)
  IN [f \in {top[i].l.l.v : i \in {k \in 1..Len(top) : top[k].op = "FUNC_DECL"}} |->
        LET i == CHOOSE k \in DeclsOf(top, f) : TRUE IN Len(ParamNames(top[i].l.r))]

Legal(ast) == ChainOK(ast, {}, Arity(ast), FALSE)
=============================================================================

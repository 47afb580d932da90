------------------------------ MODULE MCLexer ------------------------------
(* TLC instances of Lexer.                                                 *)
EXTENDS Lexer, SequencesExt

MCLetters == {"a", "b", "i", "f", "s", "h"}
MCDigits  == {"1", "2"}

(* Operators of the table that begin alike, and the others a unit needs.   *)
MCOperators ==
  [IF |-> <<"i", "f">>, SINH |-> <<"s", "h">>, ASSIGN |-> <<"=">>, EQ |-> <<"=", "=", "=">>,
   LE |-> <<"=", "=", "<">>, LT |-> <<"<">>, GT |-> <<">">>, GE |-> <<">", "=", "=">>,
   SUB |-> <<"-">>, ARROW |-> <<"-", ">">>, LBRACKET |-> <<"(">>, DOLLAR |-> <<"$">>,
   QUOTE |-> <<"\"">>, SEP |-> <<"%">>]

Op(op)      == [type |-> "OPERATOR", op |-> op, lexeme |-> MCOperators[op]]
Name(chars) == [type |-> "IDENTIFIER", op |-> "none", lexeme |-> chars]
Num(chars)  == [type |-> "NUMBER", op |-> "none", lexeme |-> chars]

(* A unit is a sequence of words nothing separates.                        *)
Unit(words)   == [chars |-> FlattenSeq([k \in DOMAIN words |-> words[k].lexeme]), words |-> words]
Quoted(chars) == Unit(<<Op("QUOTE"), Name(chars), Op("QUOTE"), Op("SEP")>>)
Named(chars)  == Unit(<<Name(chars)>>)
Symbol(op)    == Unit(<<Op(op)>>)

AllUnits ==
  {Symbol(op) : op \in {"IF", "ASSIGN", "EQ", "LE", "GE", "ARROW", "LBRACKET"}}
  \union {Named(<<"a">>), Named(<<"_", "1">>), Unit(<<Num(<<"1", "2">>), Op("DOLLAR")>>),
          Quoted(<<"a", " ", "1", " ">>)}

Blanks   == {<<" ">>, <<"\n", "@", "=", "a", "\n">>}
Line     == {<<>>, <<"\n">>}
=============================================================================

------------------------------- MODULE Lexer -------------------------------
(***************************************************************************)
(* lexicalAnalysis.c: the text of a program made into tokens, one token    *)
(* per step, with the blanks and comments that follow it skipped.          *)
(*                                                                         *)
(* The text is written first, unit by unit, with anything that separates   *)
(* them in between; the words it was written as are kept for the           *)
(* properties.  Characters are strings of length one; "NUL" is the zero    *)
(* that ends the text, and a position Beyond it stands for a cursor that   *)
(* ran past it.                                                            *)
(* Numbers are digits only.  The error exits of the C function cannot be   *)
(* reached: strtod always reads a digit, and no lexeme is empty, since     *)
(* brackets are operators and a comment is never where a lexeme starts.    *)
(***************************************************************************)
EXTENDS Integers, Sequences, FiniteSets

CONSTANTS
  Units,        \* records: chars, words (a sequence of records type, op, lexeme)
  Separators,   \* character sequences: blanks and comments
  Ends,         \* what the text may end with
  MaxUnits,     \* bound: units of a text
  Letters, Digits,
  Operators,    \* operator |-> the characters it is written with
  MaxTokens,    \* option -t, the size of the token array
  MaxNames,     \* option -n, identifiers of the name table
  NamesLength   \* option -l, bytes for their names

ASSUME LexerAssumption ==
  /\ MaxTokens \in Nat \ {0} /\ MaxNames \in Nat /\ NamesLength \in Nat
  /\ \A unit \in Units : unit.chars \in Seq(STRING)
  /\ Separators \subseteq Seq(STRING) /\ Ends \subseteq Seq(STRING)
  /\ \A op \in DOMAIN Operators : Operators[op] \in Seq(STRING) /\ Operators[op] # <<>>
  /\ \A op \in DOMAIN Operators : \A k \in DOMAIN Operators[op] : Operators[op][k] # "NUL"
  /\ "QUOTE" \in DOMAIN Operators /\ Operators["QUOTE"] = <<"\"">>

VARIABLES
  text,          \* its characters and words, and the number of units
  pos,           \* curStr
  line, col,     \* curLine, curCol
  tokens,        \* those finished; lexeme is history, the characters read
  names, used,   \* identifiers of the name table; bytes taken by the names
  status         \* "writing", "written", "running", the result, or "overrun"

vars == <<text, pos, line, col, tokens, names, used, status>>

NULL_IDENTIFIER == -1

Chars  == text.chars
Beyond == Len(Chars) + 2
At(i)  == IF i \in DOMAIN Chars THEN Chars[i] ELSE "NUL"
Spaces == {" ", "\n"}
NameStart == Letters \union {"_"}
NameChars == NameStart \union Digits

(* The first position that stops a scan, if one of the text's does.        *)
First(stops) ==
  LET least == {i \in stops : \A j \in stops : i <= j}
  IN IF least = {} THEN Beyond ELSE CHOOSE i \in least : TRUE
From(i) == i..Len(Chars) + 1

-----------------------------------------------------------------------------
(* What texts are written with.  Brackets need no separation, and symbols  *)
(* none from a word.                                                       *)
Word == [type : {"NUMBER", "OPERATOR", "IDENTIFIER"}, op : STRING, lexeme : Seq(STRING)]

IsSymbol(word) == word.type = "OPERATOR" /\ Operators[word.op][1] \notin Letters
Touch(v, w) == IsSymbol(v) # IsSymbol(w) \/ "LBRACKET" \in {v.op, w.op}

(* The k-th of some words is one, behind a quote or not, that can stand in *)
(* a text: no operator is read in its place.                               *)
InQuotes(words, k) == k > 1 /\ words[k-1].op = "QUOTE"
BeginsWith(s, op) == Len(Operators[op]) <= Len(s) /\ \A m \in DOMAIN Operators[op] : s[m] = Operators[op][m]

IsWord(words, k) ==
  LET word == words[k]  s == word.lexeme
  IN /\ s # <<>> /\ s[1] \notin Spaces \union {"@"} /\ \A m \in DOMAIN s : s[m] # "NUL"
     /\ word.type = "NUMBER" => word.op = "none" /\ \A m \in DOMAIN s : s[m] \in Digits
     /\ word.type = "OPERATOR" => word.op \in DOMAIN Operators /\ s = Operators[word.op] /\ s[1] \notin Digits
     /\ word.type = "IDENTIFIER" =>
          /\ word.op = "none" /\ s[1] \notin Digits
          /\ \A op \in DOMAIN Operators : ~BeginsWith(s, op)
          /\ IF InQuotes(words, k) THEN \A m \in DOMAIN s : s[m] # "\""
             ELSE s[1] \in NameStart /\ \A m \in DOMAIN s : s[m] \in NameChars

(* It ends where character c follows.                                      *)
EndsBefore(words, k, c) ==
  LET word == words[k]  s == word.lexeme
  IN /\ \A op \in DOMAIN Operators :
          ~(Len(Operators[op]) > Len(s) /\ (\A m \in DOMAIN s : Operators[op][m] = s[m]) /\ Operators[op][Len(s)+1] = c)
     /\ word.type = "NUMBER" => c \notin Digits
     /\ word.type = "IDENTIFIER" => IF InQuotes(words, k) THEN c = "\"" ELSE c \notin NameChars

(* A unit is spelled as its words, each of which ends where the next one   *)
(* begins and the last before whatever separates units.                    *)
IsUnit(unit) ==
  LET words == unit.words  n == Len(words)
  IN /\ words \in Seq(Word) /\ n > 0 /\ unit.chars \in Seq(STRING)
     /\ \E at \in [1..n+1 -> 1..Len(unit.chars)+1] :
          /\ at[1] = 1 /\ at[n+1] = Len(unit.chars) + 1
          /\ \A k \in 1..n : /\ at[k+1] = at[k] + Len(words[k].lexeme)
                           /\ \A m \in DOMAIN words[k].lexeme : unit.chars[at[k]+m-1] = words[k].lexeme[m]
     /\ \A k \in 1..n : IsWord(words, k)
     /\ \A k \in 1..n-1 : EndsBefore(words, k, words[k+1].lexeme[1])
     /\ \A c \in Spaces \union {"@", "NUL"} : EndsBefore(words, n, c)
     /\ words[n].op # "QUOTE"

IsBlank(s) ==
  \A j \in DOMAIN s :
    s[j] \in Spaces \/ \E k \in 1..j : s[k] = "@" /\ \A m \in k..j-1 : s[m] # "\n"
IsClosed(s) == \A k \in DOMAIN s : s[k] = "@" => \E m \in k..Len(s) : s[m] = "\n"

ASSUME VocabularyAssumption ==
  /\ \A op, other \in DOMAIN Operators : Operators[op] = Operators[other] => op = other
  /\ \A unit \in Units : IsUnit(unit)
  /\ \A v, w \in Units : Touch(v.words[Len(v.words)], w.words[1]) =>
                          EndsBefore(v.words, Len(v.words), w.words[1].lexeme[1])
  /\ \A s \in Separators : s # <<>> /\ IsBlank(s) /\ IsClosed(s)
  /\ \A s \in Ends : IsBlank(s)

-----------------------------------------------------------------------------
(* skipSpaces                                                              *)
InComment(i, j) == \E k \in i..j : At(k) = "@" /\ \A m \in k..j-1 : At(m) # "\n"

SkipSpaces(i) == First({j \in From(i) : At(j) \notin Spaces /\ ~InComment(i, j)})

NewLines(i, j)    == {k \in i..j-1 : At(k) = "\n"}
LineAfter(i, j)   == line + Cardinality(NewLines(i, j))

ColumnAfter_NeverRestarts(i, j) == col + (j - pos)

ColumnAfter(i, j) ==
  IF NewLines(i, j) = {} THEN col + (j - pos)
  ELSE j - (CHOOSE k \in NewLines(i, j) : \A m \in NewLines(i, j) : m <= k)

(* findOperator: the longest of the operators written here, if any.        *)
IsHere(op) == \A k \in DOMAIN Operators[op] : At(pos + k - 1) = Operators[op][k]
Here       == {op \in DOMAIN Operators : IsHere(op)}

FindOperator_Shortest ==
  {op \in Here : \A other \in Here : Len(Operators[op]) <= Len(Operators[other])}

FindOperator ==
  {op \in Here : \A other \in Here : Len(Operators[other]) <= Len(Operators[op])}

(* readLexemToBuffer.  The last alternative does not look for the end of   *)
(* the text.                                                               *)
AfterQuote == tokens # <<>> /\ tokens[Len(tokens)].op = "QUOTE"

LexemeEnd_Letters ==
  IF AfterQuote THEN First({j \in From(pos) : At(j) \in {"NUL", "\""}})
  ELSE IF At(pos) \in Letters THEN First({j \in From(pos) : At(j) \notin NameChars})
  ELSE IF At(pos) \in {"(", ")"} THEN pos + 1
  ELSE First({j \in From(pos) : At(j) \in NameChars \union Spaces \union {"(", ")", "@"}})

LexemeEnd ==
  IF AfterQuote THEN First({j \in From(pos) : At(j) \in {"NUL", "\""}})
  ELSE IF At(pos) \in NameStart THEN First({j \in From(pos) : At(j) \notin NameChars})
  ELSE IF At(pos) \in {"(", ")"} THEN pos + 1
  ELSE First({j \in From(pos) :
                At(j) \in Letters \union Digits \union Spaces \union {"(", ")", "@"}})

-----------------------------------------------------------------------------
(* insertIdentifier and getMemoryS: the index of a name, entered if it is  *)
(* new and there is room.                                                  *)
Entered(name) == \E k \in DOMAIN names : names[k] = name
IndexOf(name) == (CHOOSE k \in DOMAIN names : names[k] = name) - 1
Room(name)    == Len(names) < MaxNames /\ used + Len(name) + 1 < NamesLength

InsertIdentifier_Always(name) ==
  IF Room(name)
  THEN [id |-> Len(names), names |-> Append(names, name), used |-> used + Len(name) + 1]
  ELSE [id |-> NULL_IDENTIFIER, names |-> names, used |-> used]

InsertIdentifier(name) ==
  IF Entered(name) THEN [id |-> IndexOf(name), names |-> names, used |-> used]
  ELSE IF Room(name)
  THEN [id |-> Len(names), names |-> Append(names, name), used |-> used + Len(name) + 1]
  ELSE [id |-> NULL_IDENTIFIER, names |-> names, used |-> used]

-----------------------------------------------------------------------------
(* The position the scan goes on from, with its line and column.           *)
GoTo(i, j) ==
  /\ pos' = j /\ line' = LineAfter(i, j) /\ col' = ColumnAfter(i, j)
  /\ status' = IF j = Beyond THEN "overrun" ELSE "running"

Init ==
  /\ text = [chars |-> <<>>, words |-> <<>>, units |-> 0]
  /\ pos = 1 /\ line = 1 /\ col = 1
  /\ tokens = <<>> /\ names = <<>> /\ used = 0
  /\ status = "writing"

Between(unit) ==
  IF text.words = <<>> \/ Touch(text.words[Len(text.words)], unit.words[1])
  THEN Separators \union {<<>>} ELSE Separators

Write ==
  /\ status = "writing" /\ text.units < MaxUnits
  /\ \E unit \in Units : \E blank \in Between(unit) :
       text' = [chars |-> Chars \o blank \o unit.chars, words |-> text.words \o unit.words,
                units |-> text.units + 1]
  /\ UNCHANGED <<pos, line, col, tokens, names, used, status>>

WriteEnd ==
  /\ status = "writing"
  /\ \E end \in Ends : text' = [text EXCEPT !.chars = @ \o end]
  /\ status' = "written"
  /\ UNCHANGED <<pos, line, col, tokens, names, used>>

Begin ==
  /\ status = "written"
  /\ GoTo(1, SkipSpaces(1))
  /\ UNCHANGED <<text, tokens, names, used>>

TokenHere(type, op, id, end) ==
  [type |-> type, op |-> op, id |-> id, lexeme |-> SubSeq(Chars, pos, end - 1),
   pos |-> pos, line |-> line, column |-> col]

(* nextToken: the last element of the array is kept for the end of file.   *)
HasNext_Exactly == Len(tokens) < MaxTokens

HasNext == Len(tokens) < MaxTokens - 1

AddToken(token, end) ==
  IF HasNext
  THEN tokens' = Append(tokens, token) /\ GoTo(end, SkipSpaces(end))
  ELSE status' = "FRONTEND_MEMORY_ERROR" /\ UNCHANGED <<pos, line, col, tokens>>

Scanning == status = "running" /\ At(pos) # "NUL" /\ UNCHANGED text

ScanNumber ==
  /\ Scanning /\ At(pos) \in Digits
  /\ LET end == First({j \in From(pos) : At(j) \notin Digits})
     IN AddToken(TokenHere("NUMBER", "none", 0, end), end)
  /\ UNCHANGED <<names, used>>

ScanOperator ==
  /\ Scanning /\ At(pos) \notin Digits
  /\ \E op \in FindOperator :
       LET end == pos + Len(Operators[op]) IN AddToken(TokenHere("OPERATOR", op, 0, end), end)
  /\ UNCHANGED <<names, used>>

ScanName ==
  /\ Scanning /\ At(pos) \notin Digits /\ Here = {}
  /\ LET end    == LexemeEnd
         insert == InsertIdentifier(SubSeq(Chars, pos, end - 1))
     IN IF end = Beyond
        THEN status' = "overrun" /\ UNCHANGED <<pos, line, col, tokens, names, used>>
        ELSE /\ names' = insert.names /\ used' = insert.used
             /\ AddToken(TokenHere("IDENTIFIER", "none", insert.id, end), end)

EndOfText ==
  /\ status = "running" /\ At(pos) = "NUL"
  /\ tokens' = Append(tokens, TokenHere("OPERATOR", "EOF", 0, pos))
  /\ status' = "FRONTEND_SUCCESS"
  /\ UNCHANGED <<text, pos, line, col, names, used>>

Next == Write \/ WriteEnd \/ Begin \/ ScanNumber \/ ScanOperator \/ ScanName \/ EndOfText
Spec == Init /\ [][Next]_vars

-----------------------------------------------------------------------------
Succeeded == status = "FRONTEND_SUCCESS"

(* The tokens are the words the text was written as, whatever separates    *)
(* them: operators are the longest there are, comments and blanks leave    *)
(* nothing behind, strings are one name.                                   *)
TokensAreWords ==
  Succeeded =>
    /\ Len(tokens) = Len(text.words) + 1
    /\ \A k \in DOMAIN text.words :
         [type |-> tokens[k].type, op |-> tokens[k].op, lexeme |-> tokens[k].lexeme] = text.words[k]

(* A name is in the table once, and a token's index leads to its name.     *)
NamesUnique ==
  /\ \A j, k \in DOMAIN names : names[j] = names[k] => j = k
  /\ \A k \in DOMAIN tokens :
       tokens[k].type = "IDENTIFIER" /\ tokens[k].id # NULL_IDENTIFIER =>
         tokens[k].id + 1 \in DOMAIN names /\ names[tokens[k].id + 1] = tokens[k].lexeme

(* Errors are reported where they are: a token's line and column are those *)
(* of its first character.                                                 *)
PositionsExact ==
  \A k \in DOMAIN tokens :
    LET p == tokens[k].pos
        before == NewLines(1, p)
        start == CHOOSE i \in before \union {0} : \A j \in before : j <= i
    IN tokens[k].line = 1 + Cardinality(before) /\ tokens[k].column = p - start

(* The tokens with the end of file fit into the array, and only a text of  *)
(* more words than that is refused for their number.                       *)
RefusesOnlyTooLong ==
  /\ Len(tokens) <= MaxTokens
  /\ status = "FRONTEND_MEMORY_ERROR" => Len(text.words) + 1 > MaxTokens

(* Every step of the scan takes at least a character, so the scan ends:    *)
(* what starts a lexeme never ends it at once.                             *)
Advances == [][status = "running" /\ status' = "running" => pos' > pos]_vars
=============================================================================

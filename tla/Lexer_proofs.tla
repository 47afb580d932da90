---------------------------- MODULE Lexer_proofs ----------------------------
(* Theorems about Lexer, for every text, operators table and capacity.     *)
EXTENDS Lexer, FiniteSetTheorems, SequenceTheorems, WellFoundedInduction, TLAPS

(* Where a scan from i stops.                                              *)
LEMMA FirstAfter ==
  ASSUME text.chars \in Seq(STRING), NEW i \in Nat \ {0}, NEW stops \in SUBSET From(i)
  PROVE  /\ First(stops) = Beyond \/ First(stops) \in stops
         /\ First(stops) \in Nat \ {0}
<1>1. Len(Chars) \in Nat
  BY DEF Chars
<1> DEFINE least == {j \in stops : \A k \in stops : j <= k}
<1>2. CASE least = {}
  BY <1>1, <1>2 DEF First, Beyond
<1>3. CASE least # {}
  <2>1. First(stops) \in least
    BY <1>3 DEF First
  <2>2. First(stops) \in stops
    BY <2>1
  <2>3. First(stops) \in i..Len(Chars) + 1
    BY <2>2 DEF From
  <2> HIDE DEF least
  <2> QED BY <2>2, <2>3, <1>1
<1> QED BY <1>2, <1>3

(* What a cursor that has not run past the end stands on after skipping.   *)
LEMMA SkipSpacesStops ==
  ASSUME text.chars \in Seq(STRING), NEW i \in Nat \ {0}
  PROVE  /\ SkipSpaces(i) \in Nat \ {0}
         /\ SkipSpaces(i) # Beyond => /\ SkipSpaces(i) >= i
                                      /\ At(SkipSpaces(i)) \notin Spaces \union {"@"}
<1> DEFINE stops == {j \in From(i) : At(j) \notin Spaces /\ ~InComment(i, j)}
<1>1. SkipSpaces(i) = First(stops)
  BY DEF SkipSpaces
<1>2. SkipSpaces(i) \in Nat \ {0} /\ (SkipSpaces(i) = Beyond \/ SkipSpaces(i) \in stops)
  BY <1>1, FirstAfter
<1>3. ASSUME NEW j \in stops
      PROVE  j >= i /\ At(j) \notin Spaces \union {"@"}
  <2>1. j \in i..Len(Chars) + 1 /\ Len(Chars) \in Nat
    BY DEF From, Chars
  <2>2. At(j) # "@"
    BY <2>1 DEF InComment
  <2> QED BY <2>1, <2>2
<1> QED BY <1>2, <1>3

(* The cursor while the lexer runs.                                        *)
CursorInv ==
  /\ text.chars \in Seq(STRING) /\ "chars" \in DOMAIN text
  /\ pos \in Nat \ {0}
  /\ status = "running" => At(pos) \notin Spaces \union {"@"}

(* A lexeme the lexer starts on has at least one character.                *)
LEMMA LexemeAdvances ==
  ASSUME CursorInv, status = "running", At(pos) # "NUL",
         At(pos) \notin Digits, Here = {}
  PROVE  LexemeEnd \in Nat \ {0} /\ LexemeEnd > pos
<1>1. Len(Chars) \in Nat /\ pos \in 1..Len(Chars)
  BY DEF CursorInv, Chars, At
<1>2. At(pos) # "\""
  <2>1. "QUOTE" \notin Here
    BY Zenon
  <2>2. "QUOTE" \in DOMAIN Operators /\ Operators["QUOTE"] = <<"\"">>
    BY LexerAssumption
  <2>3. ASSUME At(pos) = "\"" PROVE IsHere("QUOTE")
    <3> DEFINE quote == "\""
    <3>1. DOMAIN Operators["QUOTE"] = {1} /\ Operators["QUOTE"][1] = quote
      <4>1. Operators["QUOTE"] = <<quote>>
        BY <2>2
      <4> HIDE DEF quote
      <4>2. DOMAIN <<quote>> = 1..1 /\ <<quote>>[1] = quote
        OBVIOUS
      <4> QED BY <4>1, <4>2
    <3>2. pos + 1 - 1 = pos
      BY <1>1
    <3>3. \A k \in {1} : At(pos + k - 1) = "\""
      BY <2>3, <3>2
    <3> QED BY <3>1, <3>3 DEF IsHere
  <2> QED BY <2>1, <2>2, <2>3 DEF Here
<1>3. ASSUME NEW stops \in SUBSET From(pos), pos \notin stops
      PROVE  First(stops) \in Nat \ {0} /\ First(stops) > pos
  BY <1>1, <1>3, FirstAfter DEF CursorInv, From, Beyond
<1>4. At(pos) \notin {"NUL", "\""}
  BY <1>2
<1>5. First({j \in From(pos) : At(j) \in {"NUL", "\""}}) \in Nat \ {0}
      /\ First({j \in From(pos) : At(j) \in {"NUL", "\""}}) > pos
  BY <1>3, <1>4
<1>6. ASSUME At(pos) \in NameStart
      PROVE  /\ First({j \in From(pos) : At(j) \notin NameChars}) \in Nat \ {0}
             /\ First({j \in From(pos) : At(j) \notin NameChars}) > pos
  BY <1>3, <1>6 DEF NameChars
<1> DEFINE others == Letters \union Digits \union Spaces \union {"(", ")", "@"}
<1>7. ASSUME At(pos) \notin NameStart, At(pos) \notin {"(", ")"}
      PROVE  /\ First({j \in From(pos) : At(j) \in others}) \in Nat \ {0}
             /\ First({j \in From(pos) : At(j) \in others}) > pos
  <2>1. At(pos) \notin others
    BY <1>7 DEF NameStart, CursorInv
  <2> QED BY <1>3, <2>1
<1>8. CASE AfterQuote
  BY <1>5, <1>8 DEF LexemeEnd
<1>9. CASE ~AfterQuote /\ At(pos) \in NameStart
  BY <1>6, <1>9 DEF LexemeEnd
<1>10. CASE ~AfterQuote /\ At(pos) \notin NameStart /\ At(pos) \in {"(", ")"}
  <2>1. LexemeEnd = pos + 1
    BY <1>10 DEF LexemeEnd
  <2> QED BY <2>1, <1>1
<1>11. CASE ~AfterQuote /\ At(pos) \notin NameStart /\ At(pos) \notin {"(", ")"}
  BY <1>7, <1>11 DEF LexemeEnd
<1> QED BY <1>8, <1>9, <1>10, <1>11

-----------------------------------------------------------------------------
(* A step of the scan goes on from the end of a nonempty lexeme.           *)
LEMMA GoToMoves ==
  ASSUME CursorInv, NEW end \in Nat \ {0}, GoTo(end, SkipSpaces(end)), UNCHANGED text
  PROVE  CursorInv' /\ (status' = "running" => pos' >= end)
<1>1. pos' = SkipSpaces(end) /\ pos' \in Nat \ {0}
  BY SkipSpacesStops DEF GoTo, CursorInv
<1>2. ASSUME status' = "running"
      PROVE  pos' >= end /\ At(pos)' \notin Spaces \union {"@"}
  <2>1. pos' # Beyond
    BY <1>2, <1>1 DEF GoTo
  <2>2. At(pos)' = At(SkipSpaces(end))
    BY <1>1 DEF At, Chars
  <2> QED BY <1>1, <2>1, <2>2, SkipSpacesStops DEF CursorInv
<1>3. UNCHANGED Spaces
  BY DEF Spaces
<1> QED BY <1>1, <1>2 DEF CursorInv, Spaces

LEMMA AddTokenMoves ==
  ASSUME CursorInv, status = "running", NEW token, NEW end \in Nat \ {0}, end > pos,
         AddToken(token, end), UNCHANGED text
  PROVE  CursorInv' /\ (status' = "running" => pos' > pos)
<1>1. CASE HasNext
  <2>1. GoTo(end, SkipSpaces(end))
    BY <1>1 DEF AddToken
  <2>2. CursorInv' /\ (status' = "running" => pos' >= end)
    BY <2>1, GoToMoves
  <2> QED BY <2>2 DEF CursorInv
<1>2. CASE ~HasNext
  <2>1. status' = "FRONTEND_MEMORY_ERROR" /\ pos' = pos
    BY <1>2 DEF AddToken
  <2> QED BY <2>1 DEF CursorInv
<1> QED BY <1>1, <1>2

(* Every step keeps the cursor where a lexeme can start, and each that     *)
(* scans moves it on.                                                      *)
LEMMA CursorStep ==
  ASSUME CursorInv, [Next]_vars
  PROVE  CursorInv' /\ (status = "running" /\ status' = "running" /\ vars' # vars => pos' > pos)
<1>1. CASE Write
  <2> DEFINE Written(blank, unit) ==
          text' = [chars |-> Chars \o blank \o unit.chars, words |-> text.words \o unit.words,
                   units |-> text.units + 1]
  <2>0. PICK unit \in Units : \E blank \in Between(unit) : Written(blank, unit)
    BY <1>1 DEF Write
  <2>1. PICK blank \in Between(unit) : Written(blank, unit)
    BY <2>0
  <2>2. blank \in Seq(STRING) /\ unit.chars \in Seq(STRING) /\ Chars \in Seq(STRING)
    <3>1. Separators \subseteq Seq(STRING)
      BY Zenon, LexerAssumption
    <3>0. <<>> \in Seq(STRING)
      OBVIOUS
    <3>2. blank \in Separators \union {<<>>}
      BY Zenon DEF Between
    <3>3. unit.chars \in Seq(STRING)
      BY LexerAssumption
    <3> QED BY <3>0, <3>1, <3>2, <3>3 DEF CursorInv, Chars
  <2>3. text'.chars = Chars \o blank \o unit.chars /\ "chars" \in DOMAIN text'
    BY <2>1
  <2>4. text'.chars \in Seq(STRING)
    BY <2>2, <2>3
  <2> QED BY <1>1, <2>3, <2>4 DEF Write, CursorInv
<1>2. CASE WriteEnd
  <2>1. PICK end \in Ends : text' = [text EXCEPT !.chars = @ \o end]
    BY <1>2 DEF WriteEnd
  <2>2. text'.chars = text.chars \o end /\ DOMAIN text' = DOMAIN text
    BY <2>1 DEF CursorInv
  <2>3. end \in Seq(STRING)
    BY LexerAssumption
  <2>4. text'.chars \in Seq(STRING)
    BY <2>2, <2>3 DEF CursorInv
  <2> QED BY <1>2, <2>2, <2>4 DEF WriteEnd, CursorInv
<1>3. CASE Begin
  <2>1. GoTo(1, SkipSpaces(1)) /\ UNCHANGED text /\ status = "written"
    BY <1>3 DEF Begin
  <2> QED BY <2>1, GoToMoves
<1>4. CASE ScanNumber
  <2> DEFINE stops == {j \in From(pos) : At(j) \notin Digits}
             end == First(stops)
  <2>1. AddToken(TokenHere("NUMBER", "none", 0, end), end) /\ status = "running" /\ UNCHANGED text
    BY <1>4 DEF ScanNumber, Scanning
  <2>2. end \in Nat \ {0} /\ (end = Beyond \/ end \in stops)
    BY FirstAfter DEF CursorInv
  <2>3. At(pos) # "NUL" /\ pos \notin stops
    BY <1>4 DEF ScanNumber, Scanning
  <2>4. pos < Beyond
    BY <2>3 DEF At, Chars, Beyond, CursorInv
  <2>5. end > pos
    BY <2>2, <2>3, <2>4 DEF From, CursorInv
  <2> HIDE DEF end
  <2> QED BY <2>1, <2>2, <2>5, AddTokenMoves
<1>5. CASE ScanOperator
  <2>1. PICK op \in FindOperator :
          AddToken(TokenHere("OPERATOR", op, 0, pos + Len(Operators[op])), pos + Len(Operators[op]))
    BY <1>5 DEF ScanOperator
  <2>2. Len(Operators[op]) \in Nat \ {0}
    <3>1. op \in DOMAIN Operators
      BY DEF FindOperator, Here
    <3>2. Operators[op] \in Seq(STRING) /\ Operators[op] # <<>>
      BY <3>1, LexerAssumption
    <3> QED BY <3>2
  <2>3. status = "running" /\ UNCHANGED text
    BY <1>5 DEF ScanOperator, Scanning
  <2>4. pos + Len(Operators[op]) \in Nat \ {0} /\ pos + Len(Operators[op]) > pos
    BY <2>2 DEF CursorInv
  <2> QED BY <2>1, <2>3, <2>4, AddTokenMoves
<1>6. CASE ScanName
  <2>1. /\ status = "running" /\ At(pos) # "NUL" /\ UNCHANGED text
        /\ At(pos) \notin Digits /\ Here = {}
    BY <1>6 DEF ScanName, Scanning
  <2>2. LexemeEnd \in Nat \ {0} /\ LexemeEnd > pos
    BY <2>1, LexemeAdvances
  <2>3. CASE LexemeEnd = Beyond
    BY <1>6, <2>1, <2>3 DEF ScanName, CursorInv
  <2>4. CASE LexemeEnd # Beyond
    <3>1. PICK token : AddToken(token, LexemeEnd)
      BY <1>6, <2>4 DEF ScanName
    <3> QED BY <2>1, <2>2, <3>1, AddTokenMoves
  <2> QED BY <2>3, <2>4
<1>7. CASE EndOfText
  BY <1>7 DEF EndOfText, CursorInv
<1>8. CASE UNCHANGED vars
  BY <1>8 DEF vars, CursorInv, At, Chars, Spaces
<1> QED BY <1>1, <1>2, <1>3, <1>4, <1>5, <1>6, <1>7, <1>8 DEF Next

(* The scan ends: every step of it takes at least a character.             *)
THEOREM ScanAdvances == Spec => Advances
<1>1. Init => CursorInv
  BY DEF Init, CursorInv
<1>2. CursorInv /\ [Next]_vars => CursorInv'
  BY CursorStep
<1>3. CursorInv /\ [Next]_vars =>
        [status = "running" /\ status' = "running" => pos' > pos]_vars
  BY CursorStep
<1> QED BY <1>1, <1>2, <1>3, PTL DEF Spec, Advances

-----------------------------------------------------------------------------
(* Sequences whose elements need no type.                                  *)
IsSequence(s) == s \in Seq({s[k] : k \in DOMAIN s})

LEMMA Appended ==
  ASSUME NEW s, IsSequence(s), NEW e
  PROVE  /\ IsSequence(Append(s, e))
         /\ DOMAIN Append(s, e) = 1..Len(s) + 1 /\ DOMAIN s = 1..Len(s) /\ Len(s) \in Nat
         /\ \A k \in 1..Len(s) : Append(s, e)[k] = s[k]
         /\ Append(s, e)[Len(s) + 1] = e
<1> DEFINE S == {s[k] : k \in DOMAIN s} \union {e}
<1>1. s \in Seq(S)
  BY DEF IsSequence
<1> HIDE DEF S
<1>2. /\ DOMAIN Append(s, e) = 1..Len(s) + 1 /\ DOMAIN s = 1..Len(s) /\ Len(s) \in Nat
      /\ \A k \in 1..Len(s) : Append(s, e)[k] = s[k]
      /\ Append(s, e)[Len(s) + 1] = e
      /\ Append(s, e) \in Seq(S)
  BY <1>1 DEF S
<1>3. IsSequence(Append(s, e))
  <2> DEFINE t == Append(s, e)
             T == {t[k] : k \in DOMAIN t}
  <2>1. t \in Seq(S) /\ DOMAIN t = 1..Len(t)
    BY <1>2
  <2>2. \A k \in 1..Len(t) : t[k] \in T
    BY <2>1
  <2> HIDE DEF T
  <2>3. t \in Seq(T)
    BY <2>1, <2>2
  <2> QED BY <2>3 DEF IsSequence, T
<1> QED BY <1>2, <1>3

(* The name table and the tokens that refer to it.                         *)
TableInv == IsSequence(names) /\ IsSequence(tokens) /\ NamesUnique

(* A token other than an identifier disturbs nothing.                      *)
LEMMA OtherToken ==
  ASSUME TableInv, NEW token, token.type # "IDENTIFIER", UNCHANGED names,
         tokens' = Append(tokens, token) \/ UNCHANGED tokens
  PROVE  TableInv'
<1>1. CASE UNCHANGED tokens
  BY <1>1 DEF TableInv, NamesUnique, NULL_IDENTIFIER, IsSequence
<1>2. CASE tokens' = Append(tokens, token)
  <2>1. IsSequence(tokens') /\ IsSequence(names')
    <3>1. IsSequence(Append(tokens, token))
      BY Appended DEF TableInv
    <3> QED BY <1>2, <3>1 DEF TableInv
  <2>2. ASSUME NEW k \in DOMAIN tokens', tokens'[k].type = "IDENTIFIER"
        PROVE  k \in DOMAIN tokens /\ tokens'[k] = tokens[k]
    BY <1>2, <2>2, Appended DEF TableInv
  <2> QED BY <2>1, <2>2 DEF TableInv, NamesUnique, NULL_IDENTIFIER, IsSequence
<1> QED BY <1>1, <1>2

(* insertIdentifier keeps the table and returns the name's index, or none. *)
LEMMA InsertKeepsTable ==
  ASSUME TableInv, NEW name
  PROVE  LET insert == InsertIdentifier(name)
         IN /\ IsSequence(insert.names)
            /\ \A j, k \in DOMAIN insert.names : insert.names[j] = insert.names[k] => j = k
            /\ \A k \in DOMAIN names : k \in DOMAIN insert.names /\ insert.names[k] = names[k]
            /\ insert.id # NULL_IDENTIFIER =>
                 insert.id + 1 \in DOMAIN insert.names /\ insert.names[insert.id + 1] = name
<1> DEFINE insert == InsertIdentifier(name)
<1>1. DOMAIN names = 1..Len(names) /\ Len(names) \in Nat
  BY Appended DEF TableInv
<1>2. CASE Entered(name)
  <2>1. PICK i \in DOMAIN names : names[i] = name
    BY <1>2 DEF Entered
  <2>2. IndexOf(name) + 1 \in DOMAIN names /\ names[IndexOf(name) + 1] = name
    <3> DEFINE c == CHOOSE k \in DOMAIN names : names[k] = name
    <3>1. c \in DOMAIN names /\ names[c] = name
      BY <2>1
    <3>2. IndexOf(name) = c - 1
      BY DEF IndexOf
    <3> HIDE DEF c
    <3> QED BY <3>1, <3>2, <1>1
  <2>3. insert.id = IndexOf(name) /\ insert.names = names
    BY <1>2 DEF InsertIdentifier
  <2> QED BY <2>2, <2>3 DEF TableInv, NamesUnique
<1>3. CASE ~Entered(name) /\ Room(name)
  <2>1. insert.id = Len(names) /\ insert.names = Append(names, name)
    BY <1>3 DEF InsertIdentifier
  <2>2. \A k \in DOMAIN names : names[k] # name
    BY <1>3 DEF Entered
  <2>3. \A j, k \in DOMAIN names : names[j] = names[k] => j = k
    BY DEF TableInv, NamesUnique
  <2> HIDE DEF insert
  <2>4. \A j, k \in DOMAIN insert.names : insert.names[j] = insert.names[k] => j = k
    BY <1>1, <2>1, <2>2, <2>3, Appended DEF TableInv
  <2>5. IsSequence(insert.names)
    BY <2>1, Appended DEF TableInv
  <2>6. insert.id + 1 \in DOMAIN insert.names /\ insert.names[insert.id + 1] = name
    BY <1>1, <2>1, Appended DEF TableInv
  <2>7. \A k \in DOMAIN names : k \in DOMAIN insert.names /\ insert.names[k] = names[k]
    BY <1>1, <2>1, Appended DEF TableInv
  <2> QED BY <2>4, <2>5, <2>6, <2>7 DEF insert
<1>4. CASE ~Entered(name) /\ ~Room(name)
  <2>1. insert.id = NULL_IDENTIFIER /\ insert.names = names
    BY <1>4 DEF InsertIdentifier
  <2> QED BY <2>1 DEF TableInv, NamesUnique
<1> QED BY <1>2, <1>3, <1>4

LEMMA TableStep ==
  ASSUME TableInv, [Next]_vars
  PROVE  TableInv'
<1>1. ASSUME UNCHANGED <<names, tokens>> PROVE TableInv'
  BY <1>1 DEF TableInv, NamesUnique, NULL_IDENTIFIER, IsSequence
<1>2. CASE Write \/ WriteEnd \/ Begin \/ UNCHANGED vars
  BY <1>1, <1>2 DEF Write, WriteEnd, Begin, vars
<1>3. ASSUME NEW token, token.type # "IDENTIFIER", NEW end, AddToken(token, end), UNCHANGED names
      PROVE  TableInv'
  BY <1>3, OtherToken DEF AddToken
<1>4. CASE ScanNumber
  <2> DEFINE end == First({j \in From(pos) : At(j) \notin Digits})
  <2>1. AddToken(TokenHere("NUMBER", "none", 0, end), end) /\ UNCHANGED names
    BY <1>4 DEF ScanNumber
  <2>2. TokenHere("NUMBER", "none", 0, end).type # "IDENTIFIER"
    BY DEF TokenHere
  <2> QED BY <1>3, <2>1, <2>2
<1>5. CASE ScanOperator
  <2>1. PICK op \in FindOperator :
          AddToken(TokenHere("OPERATOR", op, 0, pos + Len(Operators[op])), pos + Len(Operators[op]))
    BY <1>5 DEF ScanOperator
  <2>2. TokenHere("OPERATOR", op, 0, pos + Len(Operators[op])).type # "IDENTIFIER"
    BY DEF TokenHere
  <2>3. UNCHANGED names
    BY <1>5 DEF ScanOperator
  <2> QED BY <1>3, <2>1, <2>2, <2>3
<1>6. CASE EndOfText
  <2>1. tokens' = Append(tokens, TokenHere("OPERATOR", "EOF", 0, pos)) /\ UNCHANGED names
    BY <1>6 DEF EndOfText
  <2>2. TokenHere("OPERATOR", "EOF", 0, pos).type # "IDENTIFIER"
    BY DEF TokenHere
  <2> QED BY <2>1, <2>2, OtherToken
<1>7. CASE ScanName /\ LexemeEnd = Beyond
  BY <1>1, <1>7 DEF ScanName
<1>8. CASE ScanName /\ LexemeEnd # Beyond
  <2> DEFINE name   == SubSeq(Chars, pos, LexemeEnd - 1)
             insert == InsertIdentifier(name)
             token  == TokenHere("IDENTIFIER", "none", insert.id, LexemeEnd)
  <2>1. names' = insert.names /\ AddToken(token, LexemeEnd)
    BY <1>8 DEF ScanName
  <2>2. token.id = insert.id /\ token.lexeme = name
    BY DEF TokenHere
  <2>3. tokens' = Append(tokens, token) \/ tokens' = tokens
    BY <2>1 DEF AddToken
  <2>4. /\ IsSequence(insert.names)
        /\ \A j, k \in DOMAIN insert.names : insert.names[j] = insert.names[k] => j = k
        /\ \A k \in DOMAIN names : k \in DOMAIN insert.names /\ insert.names[k] = names[k]
        /\ insert.id # NULL_IDENTIFIER =>
             insert.id + 1 \in DOMAIN insert.names /\ insert.names[insert.id + 1] = name
    BY InsertKeepsTable
  <2> HIDE DEF name, insert, token
  <2>5. IsSequence(tokens')
    <3>1. IsSequence(Append(tokens, token)) /\ IsSequence(tokens)
      BY Appended DEF TableInv
    <3> QED BY <2>3, <3>1
  <2>6. ASSUME NEW k \in DOMAIN tokens', tokens'[k].type = "IDENTIFIER",
               tokens'[k].id # NULL_IDENTIFIER
        PROVE  tokens'[k].id + 1 \in DOMAIN names' /\ names'[tokens'[k].id + 1] = tokens'[k].lexeme
    <3>1. CASE k \in DOMAIN tokens /\ tokens'[k] = tokens[k]
      <4>1. tokens[k].id + 1 \in DOMAIN names /\ names[tokens[k].id + 1] = tokens[k].lexeme
        BY <2>6, <3>1 DEF TableInv, NamesUnique
      <4> QED BY <4>1, <3>1, <2>1, <2>4
    <3>2. CASE tokens'[k] = token
      BY <2>1, <2>2, <2>4, <2>6, <3>2
    <3> QED BY <2>3, <3>1, <3>2, Appended DEF TableInv
  <2>7. \A j, k \in DOMAIN names' : names'[j] = names'[k] => j = k
    BY <2>1, <2>4
  <2>8. IsSequence(names')
    BY <2>1, <2>4
  <2> QED BY <2>5, <2>6, <2>7, <2>8 DEF TableInv, NamesUnique, NULL_IDENTIFIER, IsSequence
<1> QED BY <1>2, <1>4, <1>5, <1>6, <1>7, <1>8 DEF Next

(* A name is in the table once, and a token's index leads to its name.     *)
THEOREM NamesAreUnique == Spec => []NamesUnique
<1>1. Init => TableInv
  <2>1. ASSUME Init PROVE names = <<>> /\ tokens = <<>>
    BY <2>1 DEF Init
  <2> QED BY <2>1 DEF TableInv, IsSequence, NamesUnique
<1>2. TableInv /\ [Next]_vars => TableInv'
  BY TableStep
<1>3. TableInv => NamesUnique
  BY DEF TableInv
<1> QED BY <1>1, <1>2, <1>3, PTL DEF Spec

-----------------------------------------------------------------------------
(* Where positions are.  A lexeme with a line break in it, a name of       *)
(* readLexemToBuffer's after a quote, is the one thing skipSpaces does not *)
(* count over.                                                             *)
Told(token) == \A m \in DOMAIN token.lexeme : token.lexeme[m] # "\n"
OneLineEach == \A k \in DOMAIN tokens : Told(tokens[k])

LastBreak(p) ==
  CHOOSE i \in NewLines(1, p) \union {0} : \A j \in NewLines(1, p) : j <= i

Located(p, atLine, atCol) ==
  atLine = 1 + Cardinality(NewLines(1, p)) /\ atCol = p - LastBreak(p)

Placed(token) == Located(token.pos, token.line, token.column)

PlaceInv ==
  /\ IsSequence(tokens)
  /\ status \in {"writing", "written"} => tokens = <<>> /\ pos = 1 /\ line = 1 /\ col = 1
  /\ OneLineEach => \A k \in DOMAIN tokens : Placed(tokens[k])
  /\ OneLineEach /\ status = "running" => Located(pos, line, col)

(* A set of positions has a last one, if any.                              *)
LEMMA LastExists ==
  ASSUME NEW n \in Nat, NEW S \in SUBSET (0..n), S # {}
  PROVE  \E i \in S : \A j \in S : j <= i
<1> DEFINE Depths == {d \in Nat : n - d \in S}
<1>1. Depths \subseteq Nat
  OBVIOUS
<1>2. Depths # {}
  <2>1. PICK i \in S : TRUE
    OBVIOUS
  <2>2. n - i \in Nat /\ n - (n - i) = i
    OBVIOUS
  <2> QED
    BY <2>1, <2>2
<1> DEFINE Less == OpToRel(<, Nat)
<1> HIDE DEF Depths
<1>3. PICK d \in Depths : \A e \in Depths : <<e, d>> \notin Less
  <2>1. IsWellFoundedOn(Less, Nat)
    BY NatLessThanWellFounded
  <2> HIDE DEF Less
  <2> QED
    BY <1>1, <1>2, <2>1, WFMin
<1>4. ASSUME NEW e \in Depths PROVE d <= e
  <2>1. ASSUME e < d PROVE FALSE
    <3>1. e \in Nat /\ d \in Nat
      BY <1>1
    <3>2. <<e, d>> \in {pair \in Nat \X Nat : pair[1] < pair[2]}
      BY <2>1, <3>1
    <3> QED
      BY <1>3, <3>2, Zenon DEF OpToRel
  <2> QED
    BY <1>1, <2>1
<1>5. n - d \in S /\ d \in Nat
  BY DEF Depths
<1>6. ASSUME NEW j \in S PROVE j <= n - d
  <2>1. n - j \in Nat /\ n - (n - j) = j
    OBVIOUS
  <2>2. n - j \in Depths
    BY <2>1 DEF Depths
  <2> QED
    BY <1>4, <1>5, <2>1, <2>2
<1> QED
  BY <1>5, <1>6

(* The line breaks before a position.                                      *)
LEMMA Breaks ==
  ASSUME NEW i \in Nat, NEW p \in Nat
  PROVE  /\ IsFiniteSet(NewLines(i, p)) /\ Cardinality(NewLines(i, p)) \in Nat
         /\ NewLines(i, p) \in SUBSET (i..p-1)
         /\ NewLines(i, p) # {} => \E k \in NewLines(i, p) : \A m \in NewLines(i, p) : m <= k
<1>1. NewLines(i, p) \in SUBSET (i..p-1)
  BY DEF NewLines
<1>2. IsFiniteSet(i..p-1)
  BY FS_Interval
<1>3. NewLines(i, p) \in SUBSET (0..p)
  BY <1>1
<1> QED
  BY <1>1, <1>2, <1>3, LastExists, FS_Subset, FS_CardinalityType

LEMMA LastBreakIs ==
  ASSUME NEW p \in Nat, NEW b \in NewLines(1, p) \union {0}, \A j \in NewLines(1, p) : j <= b
  PROVE  LastBreak(p) = b
<1>1. NewLines(1, p) \in SUBSET (1..p-1)
  BY Breaks
<1>2. ASSUME NEW c \in NewLines(1, p) \union {0}, \A j \in NewLines(1, p) : j <= c
      PROVE  c = b
  BY <1>1, <1>2
<1> QED
  BY <1>2 DEF LastBreak

LEMMA LastBreakShape ==
  ASSUME NEW p \in Nat
  PROVE  /\ LastBreak(p) \in NewLines(1, p) \union {0} /\ LastBreak(p) \in Nat
         /\ \A j \in NewLines(1, p) : j <= LastBreak(p)
<1>1. NewLines(1, p) \in SUBSET (1..p-1)
  BY Breaks
<1>2. \E b \in NewLines(1, p) \union {0} : \A j \in NewLines(1, p) : j <= b
  <2>1. CASE NewLines(1, p) = {}
    BY <2>1
  <2>2. CASE NewLines(1, p) # {}
    BY <2>2, Breaks
  <2> QED
    BY <2>1, <2>2
<1>3. PICK b \in NewLines(1, p) \union {0} : \A j \in NewLines(1, p) : j <= b
  BY <1>2
<1>4. LastBreak(p) = b
  BY <1>3, LastBreakIs
<1> QED
  BY <1>1, <1>3, <1>4

(* The scan goes on from end, before which it has read no line break, to j. *)
LEMMA MovesOn ==
  ASSUME pos \in Nat \ {0}, NEW end \in Nat, NEW j \in Nat, pos <= end, end <= j,
         NewLines(pos, end) = {}, Located(pos, line, col)
  PROVE  Located(j, LineAfter(end, j), ColumnAfter(end, j))
<1>1. NewLines(1, j) = NewLines(1, pos) \union NewLines(end, j)
  <2>1. ASSUME NEW k \in 1..j-1 PROVE k \in 1..pos-1 \/ k \in pos..end-1 \/ k \in end..j-1
    OBVIOUS
  <2>2. ASSUME NEW k, k \in 1..pos-1 \/ k \in end..j-1 PROVE k \in 1..j-1
    BY <2>2
  <2>3. \A k \in pos..end-1 : At(k) # "\n"
    BY DEF NewLines
  <2> QED
    BY <2>1, <2>2, <2>3 DEF NewLines
<1>2. NewLines(1, pos) \in SUBSET (1..pos-1) /\ NewLines(end, j) \in SUBSET (end..j-1)
  BY Breaks
<1>3. NewLines(1, pos) \cap NewLines(end, j) = {}
  BY <1>2
<1>4. /\ IsFiniteSet(NewLines(1, pos)) /\ IsFiniteSet(NewLines(end, j))
      /\ Cardinality(NewLines(1, pos)) \in Nat /\ Cardinality(NewLines(end, j)) \in Nat
  BY Breaks
<1>5. Cardinality(NewLines(1, j)) = Cardinality(NewLines(1, pos)) + Cardinality(NewLines(end, j))
  <2>1. Cardinality({}) = 0
    BY FS_EmptySet
  <2>2. Cardinality(NewLines(1, pos) \union NewLines(end, j)) =
          Cardinality(NewLines(1, pos)) + Cardinality(NewLines(end, j))
            - Cardinality(NewLines(1, pos) \cap NewLines(end, j))
    BY <1>4, FS_Union
  <2> QED
    BY <1>1, <1>3, <1>4, <2>1, <2>2
<1>6. LineAfter(end, j) = 1 + Cardinality(NewLines(1, j))
  BY <1>4, <1>5 DEF LineAfter, Located
<1>7. CASE NewLines(end, j) = {}
  <2>1. LastBreak(j) = LastBreak(pos)
    BY <1>1, <1>7 DEF LastBreak
  <2>2. LastBreak(pos) \in Nat /\ col = pos - LastBreak(pos)
    BY LastBreakShape DEF Located
  <2>3. ColumnAfter(end, j) = col + (j - pos)
    BY <1>7 DEF ColumnAfter
  <2>4. ColumnAfter(end, j) = j - LastBreak(j)
    BY <2>1, <2>2, <2>3
  <2> QED
    BY <1>6, <2>4 DEF Located
<1>8. CASE NewLines(end, j) # {}
  <2> DEFINE b == CHOOSE k \in NewLines(end, j) : \A m \in NewLines(end, j) : m <= k
  <2>1. b \in NewLines(end, j) /\ \A m \in NewLines(end, j) : m <= b
    BY <1>8, Breaks
  <2>2. ColumnAfter(end, j) = j - b
    BY <1>8 DEF ColumnAfter
  <2> HIDE DEF b
  <2>3. \A m \in NewLines(1, pos) : m <= b
    BY <1>2, <2>1
  <2>4. LastBreak(j) = b
    BY <1>1, <2>1, <2>3, LastBreakIs
  <2> QED
    BY <1>6, <2>2, <2>4 DEF Located
<1> QED
  BY <1>7, <1>8

(* Places do not move once the text is written.                            *)
LEMMA SamePlaces ==
  ASSUME UNCHANGED text, NEW p, NEW l, NEW c
  PROVE  Located(p, l, c)' <=> Located(p, l, c)
BY DEF Located, LastBreak, NewLines, At, Chars

LEMMA GoToLocates ==
  ASSUME CursorInv, NEW end \in Nat \ {0}, GoTo(end, SkipSpaces(end)), UNCHANGED text,
         pos <= end, NewLines(pos, end) = {}, Located(pos, line, col), status' = "running"
  PROVE  Located(pos, line, col)'
<1> DEFINE j == SkipSpaces(end)
<1>1. /\ pos' = j /\ line' = LineAfter(end, j) /\ col' = ColumnAfter(end, j) /\ j # Beyond
  BY DEF GoTo
<1>2. j \in Nat /\ end <= j
  BY <1>1, SkipSpacesStops DEF CursorInv
<1> HIDE DEF j
<1>3. Located(j, LineAfter(end, j), ColumnAfter(end, j))
  BY <1>2, MovesOn DEF CursorInv
<1>4. Located(pos', line', col')
  BY <1>1, <1>3
<1> QED
  BY <1>4 DEF Located, LastBreak, NewLines, At, Chars

LEMMA AddTokenLocates ==
  ASSUME CursorInv, PlaceInv, status = "running", UNCHANGED text,
         NEW type, NEW op, NEW id, NEW end \in Nat \ {0}, end > pos,
         AddToken(TokenHere(type, op, id, end), end)
  PROVE  PlaceInv'
<1> DEFINE token == TokenHere(type, op, id, end)
<1>1. /\ token.pos = pos /\ token.line = line /\ token.column = col
      /\ token.lexeme = SubSeq(Chars, pos, end - 1)
  BY DEF TokenHere
<1>2. IsSequence(tokens)
  BY DEF PlaceInv
<1>3. CASE ~HasNext
  <2>1. UNCHANGED <<text, pos, line, col, tokens>> /\ status' = "FRONTEND_MEMORY_ERROR"
    BY <1>3 DEF AddToken
  <2>2. OneLineEach' => OneLineEach
    BY <2>1 DEF OneLineEach, Told
  <2>3. ASSUME OneLineEach', NEW k \in DOMAIN tokens' PROVE Placed(tokens[k])'
    <3>1. Placed(tokens[k]) /\ tokens' = tokens
      BY <2>1, <2>2, <2>3 DEF PlaceInv
    <3> QED
      BY <3>1 DEF Placed, Located, LastBreak, NewLines, At, Chars
  <2>4. IsSequence(tokens)'
    BY <1>2, <2>1 DEF IsSequence
  <2> QED
    BY <2>1, <2>3, <2>4 DEF PlaceInv
<1>4. CASE HasNext
  <2> HIDE DEF token
  <2>1. tokens' = Append(tokens, token) /\ GoTo(end, SkipSpaces(end))
    BY <1>4 DEF AddToken, token
  <2>2. /\ IsSequence(tokens') /\ DOMAIN tokens' = 1..Len(tokens) + 1
        /\ DOMAIN tokens = 1..Len(tokens) /\ Len(tokens) \in Nat
        /\ \A k \in 1..Len(tokens) : tokens'[k] = tokens[k]
        /\ tokens'[Len(tokens) + 1] = token
    BY <1>2, <2>1, Appended
  <2>3. OneLineEach' => OneLineEach /\ Told(token)
    BY <2>2 DEF OneLineEach, Told
  <2>4. ASSUME OneLineEach' PROVE Located(pos, line, col) /\ NewLines(pos, end) = {}
    <3>1. Located(pos, line, col)
      BY <2>3, <2>4 DEF PlaceInv
    <3>2. ASSUME NEW k \in pos..end-1, At(k) = "\n" PROVE FALSE
      <4>1. k - pos + 1 \in 1..end-pos /\ pos \in Nat /\ k = (k - pos + 1) + pos - 1
        BY DEF CursorInv
      <4>2. k \in DOMAIN Chars /\ Chars[k] = "\n"
        BY <3>2 DEF At
      <4>3. DOMAIN token.lexeme = 1..end-pos /\ token.lexeme[k - pos + 1] = Chars[k]
        BY <1>1, <4>1 DEF CursorInv, Chars
      <4> QED
        BY <2>3, <2>4, <4>1, <4>2, <4>3 DEF Told
    <3> QED
      BY <3>1, <3>2 DEF NewLines
  <2>5. OneLineEach' /\ status' = "running" => Located(pos, line, col)'
    BY <2>1, <2>4, GoToLocates DEF CursorInv
  <2>6. ASSUME OneLineEach', NEW k \in DOMAIN tokens' PROVE Placed(tokens[k])'
    <3>1. Placed(tokens'[k])
      <4>1. CASE k = Len(tokens) + 1
        BY <1>1, <2>2, <2>4, <2>6, <4>1 DEF Placed
      <4>2. CASE k # Len(tokens) + 1
        BY <2>2, <2>3, <2>6, <4>2 DEF PlaceInv
      <4> QED
        BY <4>1, <4>2
    <3> QED
      BY <3>1 DEF Placed, Located, LastBreak, NewLines, At, Chars
  <2>7. status' \notin {"writing", "written"}
    BY <2>1 DEF GoTo
  <2>8. IsSequence(tokens)'
    BY <2>2 DEF IsSequence
  <2> QED
    BY <2>5, <2>6, <2>7, <2>8 DEF PlaceInv
<1> QED
  BY <1>3, <1>4

(* Every step of the scan keeps the places right.                          *)
LEMMA PlaceStep ==
  ASSUME CursorInv, PlaceInv, [Next]_vars
  PROVE  PlaceInv'
<1>1. ASSUME UNCHANGED <<text, tokens>>, status' \notin {"writing", "written", "running"}
      PROVE  PlaceInv'
  <2>1. OneLineEach' => OneLineEach
    BY <1>1 DEF OneLineEach, Told
  <2>2. ASSUME OneLineEach', NEW k \in DOMAIN tokens' PROVE Placed(tokens[k])'
    <3>1. Placed(tokens[k]) /\ tokens' = tokens
      BY <1>1, <2>1, <2>2 DEF PlaceInv
    <3> QED
      BY <1>1, <3>1 DEF Placed, Located, LastBreak, NewLines, At, Chars
  <2>3. IsSequence(tokens)'
    BY <1>1 DEF PlaceInv, IsSequence
  <2> QED
    BY <1>1, <2>2, <2>3 DEF PlaceInv
<1>2. ASSUME Write \/ WriteEnd PROVE PlaceInv'
  <2>1. tokens = <<>> /\ pos = 1 /\ line = 1 /\ col = 1
    BY <1>2 DEF Write, WriteEnd, PlaceInv
  <2>2. UNCHANGED <<tokens, pos, line, col>> /\ status' # "running"
    BY <1>2 DEF Write, WriteEnd
  <2>3. IsSequence(tokens)'
    BY <2>2 DEF PlaceInv, IsSequence
  <2>4. DOMAIN tokens' = {}
    BY <2>1, <2>2
  <2> QED
    BY <2>1, <2>2, <2>3, <2>4 DEF PlaceInv
<1>3. CASE Begin
  <2>1. /\ tokens = <<>> /\ pos = 1 /\ line = 1 /\ col = 1
        /\ GoTo(1, SkipSpaces(1)) /\ UNCHANGED <<text, tokens>>
    BY <1>3 DEF Begin, PlaceInv
  <2>2. NewLines(1, 1) = {} /\ LastBreak(1) = 0
    <3>1. NewLines(1, 1) = {}
      BY DEF NewLines
    <3> QED
      BY <3>1, LastBreakIs
  <2>3. Located(1, 1, 1)
    BY <2>2, FS_EmptySet DEF Located
  <2>4. status' = "running" => Located(pos, line, col)'
    BY <2>1, <2>2, <2>3, GoToLocates
  <2>5. IsSequence(tokens)'
    BY <2>1 DEF PlaceInv, IsSequence
  <2>6. DOMAIN tokens' = {} /\ status' \notin {"writing", "written"}
    BY <2>1 DEF GoTo
  <2> QED
    BY <2>4, <2>5, <2>6 DEF PlaceInv
<1>4. CASE ScanNumber
  <2> DEFINE stops == {j \in From(pos) : At(j) \notin Digits}
             end == First(stops)
  <2>1. AddToken(TokenHere("NUMBER", "none", 0, end), end) /\ status = "running" /\ UNCHANGED text
    BY <1>4 DEF ScanNumber, Scanning
  <2>2. end \in Nat \ {0} /\ (end = Beyond \/ end \in stops)
    BY FirstAfter DEF CursorInv
  <2>3. At(pos) # "NUL" /\ pos \notin stops
    BY <1>4 DEF ScanNumber, Scanning
  <2>4. pos < Beyond
    BY <2>3 DEF At, Chars, Beyond, CursorInv
  <2>5. end > pos
    BY <2>2, <2>3, <2>4 DEF From, CursorInv
  <2> HIDE DEF end
  <2> QED
    BY <2>1, <2>2, <2>5, AddTokenLocates
<1>5. CASE ScanOperator
  <2>1. PICK op \in FindOperator :
          AddToken(TokenHere("OPERATOR", op, 0, pos + Len(Operators[op])), pos + Len(Operators[op]))
    BY <1>5 DEF ScanOperator
  <2>2. Operators[op] \in Seq(STRING) /\ Operators[op] # <<>>
    BY LexerAssumption DEF FindOperator, Here
  <2>3. pos + Len(Operators[op]) \in Nat \ {0} /\ pos + Len(Operators[op]) > pos
    BY <2>2 DEF CursorInv
  <2>4. status = "running" /\ UNCHANGED text
    BY <1>5 DEF ScanOperator, Scanning
  <2> QED
    BY <2>1, <2>3, <2>4, AddTokenLocates
<1>6. CASE ScanName
  <2>1. /\ status = "running" /\ At(pos) # "NUL" /\ UNCHANGED text
        /\ At(pos) \notin Digits /\ Here = {}
    BY <1>6 DEF ScanName, Scanning
  <2>2. LexemeEnd \in Nat \ {0} /\ LexemeEnd > pos
    BY <2>1, LexemeAdvances
  <2>3. CASE LexemeEnd = Beyond
    BY <1>1, <1>6, <2>1, <2>3 DEF ScanName
  <2>4. CASE LexemeEnd # Beyond
    <3>1. PICK id : AddToken(TokenHere("IDENTIFIER", "none", id, LexemeEnd), LexemeEnd)
      BY <1>6, <2>4 DEF ScanName
    <3> QED
      BY <2>1, <2>2, <3>1, AddTokenLocates
  <2> QED
    BY <2>3, <2>4
<1>7. CASE EndOfText
  <2> DEFINE token == TokenHere("OPERATOR", "EOF", 0, pos)
  <2>1. /\ tokens' = Append(tokens, token) /\ UNCHANGED text /\ status = "running"
        /\ status' = "FRONTEND_SUCCESS"
    BY <1>7 DEF EndOfText
  <2>2. token.pos = pos /\ token.line = line /\ token.column = col
    BY DEF TokenHere
  <2> HIDE DEF token
  <2>3. /\ IsSequence(tokens') /\ DOMAIN tokens' = 1..Len(tokens) + 1
        /\ DOMAIN tokens = 1..Len(tokens) /\ Len(tokens) \in Nat
        /\ \A k \in 1..Len(tokens) : tokens'[k] = tokens[k]
        /\ tokens'[Len(tokens) + 1] = token
    BY <2>1, Appended DEF PlaceInv
  <2>4. OneLineEach' => OneLineEach
    BY <2>3 DEF OneLineEach, Told
  <2>5. ASSUME OneLineEach', NEW k \in DOMAIN tokens' PROVE Placed(tokens[k])'
    <3>1. Placed(tokens'[k])
      <4>1. CASE k = Len(tokens) + 1
        BY <2>1, <2>2, <2>3, <2>4, <2>5, <4>1 DEF PlaceInv, Placed
      <4>2. CASE k # Len(tokens) + 1
        BY <2>3, <2>4, <2>5, <4>2 DEF PlaceInv
      <4> QED
        BY <4>1, <4>2
    <3> QED
      BY <2>1, <3>1 DEF Placed, Located, LastBreak, NewLines, At, Chars
  <2>6. IsSequence(tokens)'
    BY <2>3 DEF IsSequence
  <2> QED
    BY <2>1, <2>5, <2>6 DEF PlaceInv
<1>8. CASE UNCHANGED vars
  <2>1. UNCHANGED <<text, pos, line, col, tokens, status>>
    BY <1>8 DEF vars
  <2>2. OneLineEach' => OneLineEach
    BY <2>1 DEF OneLineEach, Told
  <2>3. ASSUME OneLineEach', NEW k \in DOMAIN tokens' PROVE Placed(tokens[k])'
    <3>1. Placed(tokens[k]) /\ tokens' = tokens
      BY <2>1, <2>2, <2>3 DEF PlaceInv
    <3> QED
      BY <2>1, <3>1 DEF Placed, Located, LastBreak, NewLines, At, Chars
  <2>4. OneLineEach' /\ status' = "running" => Located(pos, line, col)'
    <3>1. OneLineEach' /\ status' = "running" => Located(pos, line, col)
      BY <2>1, <2>2 DEF PlaceInv
    <3> QED
      BY <2>1, <3>1 DEF Located, LastBreak, NewLines, At, Chars
  <2>5. IsSequence(tokens)'
    BY <2>1 DEF PlaceInv, IsSequence
  <2>6. status' \in {"writing", "written"} => tokens' = <<>> /\ pos' = 1 /\ line' = 1 /\ col' = 1
    BY <2>1 DEF PlaceInv
  <2> QED
    BY <2>3, <2>4, <2>5, <2>6 DEF PlaceInv
<1> QED
  BY <1>2, <1>3, <1>4, <1>5, <1>6, <1>7, <1>8 DEF Next

(* As long as no name holds a line break, the line and column of a token   *)
(* are those of its first character, whatever blanks, comments and other   *)
(* tokens come before it (skipSpaces and lexicalAnalysis).                 *)
THEOREM PositionsAreExact == Spec => [](OneLineEach => PositionsExact)
<1>1. Init => CursorInv /\ PlaceInv
  <2> SUFFICES ASSUME Init PROVE CursorInv /\ PlaceInv
    OBVIOUS
  <2>1. tokens = <<>> /\ pos = 1 /\ line = 1 /\ col = 1 /\ status = "writing"
    BY DEF Init
  <2>2. CursorInv
    BY DEF Init, CursorInv
  <2> QED
    BY <2>1, <2>2 DEF PlaceInv, IsSequence
<1>2. CursorInv /\ PlaceInv /\ [Next]_vars => CursorInv' /\ PlaceInv'
  BY CursorStep, PlaceStep
<1>3. PlaceInv => (OneLineEach => PositionsExact)
  BY DEF PlaceInv, Placed, Located, LastBreak, PositionsExact
<1> QED
  BY <1>1, <1>2, <1>3, PTL DEF Spec

-----------------------------------------------------------------------------
(* The arrays of the lexer: the tokens with the end of file, the names, and *)
(* the arena their characters are in.                                      *)
TablesFit ==
  Len(tokens) <= MaxTokens /\ Len(names) <= MaxNames /\ used <= NamesLength

RoomInv ==
  /\ IsSequence(names) /\ IsSequence(tokens) /\ used \in Nat
  /\ TablesFit
  /\ status \in {"writing", "written", "running"} => Len(tokens) < MaxTokens

LEMMA Sizes == MaxTokens \in Nat \ {0} /\ MaxNames \in Nat /\ NamesLength \in Nat
BY Zenon, LexerAssumption

LEMMA InsertFits ==
  ASSUME RoomInv, NEW name, Len(name) \in Nat
  PROVE  LET insert == InsertIdentifier(name)
         IN /\ IsSequence(insert.names) /\ insert.used \in Nat
            /\ Len(insert.names) <= MaxNames /\ insert.used <= NamesLength
<1> DEFINE insert == InsertIdentifier(name)
<1>1. CASE insert.names = names /\ insert.used = used
  BY <1>1 DEF RoomInv, TablesFit
<1>2. CASE ~(insert.names = names /\ insert.used = used)
  <2>1. Room(name) /\ insert.names = Append(names, name) /\ insert.used = used + Len(name) + 1
    BY <1>2 DEF InsertIdentifier
  <2> HIDE DEF insert
  <2>2. IsSequence(insert.names) /\ Len(insert.names) = Len(names) + 1 /\ Len(names) \in Nat
    <3>1. /\ IsSequence(Append(names, name)) /\ Len(names) \in Nat
          /\ DOMAIN Append(names, name) = 1..Len(names) + 1
      BY Appended DEF RoomInv
    <3>2. DOMAIN Append(names, name) = 1..Len(Append(names, name))
          /\ Len(Append(names, name)) \in Nat
      BY <3>1, Appended
    <3> QED
      BY <2>1, <3>1, <3>2
  <2>3. Len(insert.names) <= MaxNames
    BY <2>1, <2>2, Sizes DEF Room
  <2>4. insert.used \in Nat /\ insert.used <= NamesLength
    BY <2>1, Sizes DEF Room, RoomInv
  <2> QED
    BY <2>2, <2>3, <2>4 DEF insert
<1> QED
  BY <1>1, <1>2

LEMMA TokenFits ==
  ASSUME RoomInv, status = "running", NEW token, NEW end, AddToken(token, end),
         IsSequence(names'), Len(names') <= MaxNames, used' \in Nat, used' <= NamesLength
  PROVE  RoomInv'
<1>1. IsSequence(tokens) /\ Len(tokens) < MaxTokens /\ MaxTokens \in Nat
  BY Sizes DEF RoomInv
<1>2. CASE ~HasNext
  <2>1. tokens' = tokens /\ status' = "FRONTEND_MEMORY_ERROR"
    BY <1>2 DEF AddToken
  <2>2. Len(tokens') <= MaxTokens
    BY <2>1 DEF RoomInv, TablesFit
  <2> QED
    BY <1>1, <2>1, <2>2 DEF RoomInv, TablesFit, IsSequence
<1>3. CASE HasNext
  <2>1. tokens' = Append(tokens, token)
    BY <1>3 DEF AddToken
  <2>2. /\ IsSequence(tokens') /\ Len(tokens) \in Nat
        /\ DOMAIN tokens' = 1..Len(tokens) + 1
    BY <1>1, <2>1, Appended
  <2>3. Len(tokens') = Len(tokens) + 1
    <3>1. DOMAIN tokens' = 1..Len(tokens') /\ Len(tokens') \in Nat
      BY <2>2, Appended
    <3> QED
      BY <2>2, <3>1
  <2>4. Len(tokens') < MaxTokens
    BY <1>1, <1>3, <2>2, <2>3 DEF HasNext
  <2> QED
    BY <1>1, <2>2, <2>3, <2>4 DEF RoomInv, TablesFit, IsSequence
<1> QED
  BY <1>2, <1>3

LEMMA RoomStep ==
  ASSUME CursorInv, RoomInv, [Next]_vars
  PROVE  RoomInv'
<1>1. ASSUME UNCHANGED <<names, tokens, used>>,
             status' \in {"writing", "written", "running"} =>
               status \in {"writing", "written", "running"}
      PROVE  RoomInv'
  BY <1>1 DEF RoomInv, TablesFit, IsSequence
<1>2. CASE Write \/ WriteEnd \/ Begin \/ UNCHANGED vars
  <2>1. UNCHANGED <<names, tokens, used>>
    BY <1>2 DEF Write, WriteEnd, Begin, vars
  <2>2. status \in {"writing", "written"} \/ status' = status
    BY <1>2 DEF Write, WriteEnd, Begin, vars
  <2> QED
    BY <1>1, <2>1, <2>2
<1>3. ASSUME status = "running", NEW token, NEW end, AddToken(token, end), UNCHANGED <<names, used>>
      PROVE  RoomInv'
  <2>1. IsSequence(names') /\ Len(names') <= MaxNames /\ used' \in Nat /\ used' <= NamesLength
    BY <1>3 DEF RoomInv, TablesFit, IsSequence
  <2> QED
    BY <1>3, <2>1, TokenFits
<1>4. CASE ScanNumber \/ ScanOperator
  <2>1. \E token, end : AddToken(token, end)
    BY <1>4 DEF ScanNumber, ScanOperator
  <2>2. status = "running" /\ UNCHANGED <<names, used>>
    BY <1>4 DEF ScanNumber, ScanOperator, Scanning
  <2> QED
    BY <1>3, <2>1, <2>2
<1>5. CASE EndOfText
  <2>1. /\ \E token : tokens' = Append(tokens, token)
        /\ UNCHANGED <<names, used>> /\ status = "running" /\ status' = "FRONTEND_SUCCESS"
    BY <1>5 DEF EndOfText
  <2>2. PICK token : tokens' = Append(tokens, token)
    BY <2>1
  <2>3. IsSequence(tokens') /\ Len(tokens) \in Nat /\ DOMAIN tokens' = 1..Len(tokens) + 1
    BY <2>2, Appended DEF RoomInv
  <2>4. DOMAIN tokens' = 1..Len(tokens') /\ Len(tokens') \in Nat
    BY <2>3, Appended
  <2>5. Len(tokens') = Len(tokens) + 1 /\ Len(tokens) < MaxTokens
    BY <2>1, <2>3, <2>4 DEF RoomInv
  <2>6. Len(tokens') <= MaxTokens
    BY <2>3, <2>5, Sizes
  <2> QED
    BY <2>1, <2>3, <2>6 DEF RoomInv, TablesFit, IsSequence
<1>6. CASE ScanName
  <2> DEFINE name == SubSeq(Chars, pos, LexemeEnd - 1)
  <2>1. /\ status = "running" /\ At(pos) # "NUL" /\ At(pos) \notin Digits /\ Here = {}
    BY <1>6 DEF ScanName, Scanning
  <2>2. CASE LexemeEnd = Beyond
    <3>1. UNCHANGED <<names, tokens, used>> /\ status' = "overrun"
      BY <1>6, <2>2 DEF ScanName
    <3> QED
      BY <1>1, <3>1
  <2>3. CASE LexemeEnd # Beyond
    <3>1. /\ names' = InsertIdentifier(name).names /\ used' = InsertIdentifier(name).used
          /\ \E token, end : AddToken(token, end)
      BY <1>6, <2>3 DEF ScanName
    <3>2. Len(name) \in Nat
      <4>1. LexemeEnd \in Nat /\ LexemeEnd > pos /\ pos \in Nat
        BY <2>1, LexemeAdvances DEF CursorInv
      <4>2. Len(name) = LexemeEnd - 1 - pos + 1
        BY <4>1 DEF CursorInv, Chars
      <4> QED
        BY <4>1, <4>2
    <3> HIDE DEF name
    <3>3. IsSequence(names') /\ Len(names') <= MaxNames /\ used' \in Nat /\ used' <= NamesLength
      BY <3>1, <3>2, InsertFits
    <3> QED
      BY <2>1, <3>1, <3>3, TokenFits
  <2> QED
    BY <2>2, <2>3
<1> QED
  BY <1>2, <1>4, <1>5, <1>6 DEF Next

(* Whatever the text and the sizes asked for on the command line, the      *)
(* lexer writes behind none of its arrays (nextToken, insertIdentifier and *)
(* getMemoryS): the last token is kept for the end of file.                *)
THEOREM TablesNeverOverflow == Spec => []TablesFit
<1>1. Init => CursorInv /\ RoomInv
  <2> SUFFICES ASSUME Init PROVE CursorInv /\ RoomInv
    OBVIOUS
  <2>1. tokens = <<>> /\ names = <<>> /\ used = 0
    BY DEF Init
  <2>2. Len(tokens) = 0 /\ Len(names) = 0
    BY <2>1
  <2>3. CursorInv
    BY DEF Init, CursorInv
  <2>4. MaxTokens \in Nat \ {0} /\ MaxNames \in Nat /\ NamesLength \in Nat
    BY Sizes
  <2> QED
    BY <2>1, <2>2, <2>3, <2>4 DEF RoomInv, TablesFit, IsSequence
<1>2. CursorInv /\ RoomInv /\ [Next]_vars => CursorInv' /\ RoomInv'
  BY CursorStep, RoomStep
<1>3. RoomInv => TablesFit
  BY DEF RoomInv
<1> QED
  BY <1>1, <1>2, <1>3, PTL DEF Spec

-----------------------------------------------------------------------------
(* What a text spells: characters i, i+1, ... of s are those of w, and     *)
(* those from i up to j are blanks and comments, ended ones or not.        *)
Spelled(s, i, w) ==
  i + Len(w) <= Len(s) + 1 /\ \A m \in DOMAIN w : s[i+m-1] = w[m]
Blank(s, i, j) ==
  \A m \in i..j-1 :
    s[m] \in Spaces \/ \E k \in i..m : s[k] = "@" /\ \A l \in k..m-1 : s[l] # "\n"
Closed(s, i, j) == \A k \in i..j-1 : s[k] = "@" => \E m \in k..j-1 : s[m] = "\n"

(* The k-th word stands from at[k] up to to[k], behind blanks and comments *)
(* that follow the word before.                                            *)
Stands(s, words, at, to, k) ==
  /\ IsWord(words, k) /\ Spelled(s, at[k], words[k].lexeme)
  /\ at[k] >= to[k-1] /\ to[k] = at[k] + Len(words[k].lexeme)
  /\ Blank(s, to[k-1], at[k]) /\ Closed(s, to[k-1], at[k])

Laid(s, words, at, to) ==
  /\ at \in [Nat -> Nat] /\ to \in [Nat -> Nat] /\ to[0] = 1
  /\ \A k \in DOMAIN words : Stands(s, words, at, to, k)

(* A word is what it is wherever it stands, if it is in quotes or not.     *)
LEMMA SameWord ==
  ASSUME NEW words, NEW others, NEW k, NEW j, words[k] = others[j],
         InQuotes(words, k) <=> InQuotes(others, j)
  PROVE  /\ IsWord(words, k) <=> IsWord(others, j)
         /\ \A c : EndsBefore(words, k, c) <=> EndsBefore(others, j, c)
<1> DEFINE word == words[k]
           s == word.lexeme
<1>1. IsWord(words, k) <=> IsWord(others, j)
  BY Zenon DEF IsWord
<1>2. ASSUME NEW c PROVE EndsBefore(words, k, c) <=> EndsBefore(others, j, c)
  BY Zenon DEF EndsBefore
<1> QED BY <1>1, <1>2

LEMMA FirstIs ==
  ASSUME text.chars \in Seq(STRING), NEW i \in Nat, NEW stops \in SUBSET From(i),
         NEW e \in stops, \A j \in stops : j >= e
  PROVE  First(stops) = e
<1>1. Len(Chars) \in Nat
  BY DEF Chars
<1>2. stops \subseteq Int
  BY <1>1 DEF From
<1> DEFINE least == {m \in stops : \A j \in stops : m <= j}
<1>3. \A m \in least : m = e
  BY <1>2
<1>4. e \in least
  BY <1>2
<1>5. (CHOOSE m \in least : TRUE) = e
  <2> HIDE DEF least
  <2> QED BY <1>3, <1>4
<1> QED BY <1>4, <1>5 DEF First

(* Blanks and ended comments are skipped up to what follows them.          *)
LEMMA SkipGap ==
  ASSUME text.chars \in Seq(STRING), NEW i \in Nat \ {0}, NEW j \in i..Len(Chars),
         Blank(Chars, i, j), Closed(Chars, i, j), Chars[j] \notin Spaces \union {"@"}
  PROVE  SkipSpaces(i) = j
<1> DEFINE stops == {m \in From(i) : At(m) \notin Spaces /\ ~InComment(i, m)}
<1>1. Len(Chars) \in Nat /\ DOMAIN Chars = 1..Len(Chars)
  BY DEF Chars
<1>2. \A m \in i..j : At(m) = Chars[m]
  BY <1>1 DEF At
<1>3. ASSUME NEW m \in i..j-1 PROVE m \notin stops
  <2>1. CASE Chars[m] \in Spaces
    BY <2>1, <1>2, <1>1
  <2>2. CASE \E k \in i..m : Chars[k] = "@" /\ \A l \in k..m-1 : Chars[l] # "\n"
    <3>1. PICK k \in i..m : Chars[k] = "@" /\ \A l \in k..m-1 : Chars[l] # "\n"
      BY <2>2
    <3>2. At(k) = "@" /\ \A l \in k..m-1 : At(l) # "\n"
      BY <3>1, <1>2, <1>1
    <3> QED BY <3>2 DEF InComment
  <2> QED BY <2>1, <2>2 DEF Blank
<1>4. j \in stops
  <2>1. j \in From(i) /\ At(j) = Chars[j]
    BY <1>1, <1>2 DEF From
  <2>2. ASSUME NEW k \in i..j, At(k) = "@", \A l \in k..j-1 : At(l) # "\n" PROVE FALSE
    <3>1. Chars[k] = "@"
      BY <2>2, <1>2
    <3>2. k \in i..j-1
      BY <3>1, <1>1
    <3>3. PICK l \in k..j-1 : Chars[l] = "\n"
      BY <3>1, <3>2 DEF Closed
    <3>4. l \in i..j
      BY <3>2, <1>1
    <3> QED BY <3>3, <3>4, <1>2, <2>2
  <2> QED BY <2>1, <2>2 DEF InComment
<1>5. \A m \in stops : m >= j
  BY <1>1, <1>3 DEF From
<1>6. SkipSpaces(i) = First(stops)
  BY DEF SkipSpaces
<1>7. stops \in SUBSET From(i)
  OBVIOUS
<1> HIDE DEF stops
<1> QED BY <1>4, <1>5, <1>6, <1>7, FirstIs

(* At the end of the text there may be a comment that does not end.        *)
LEMMA SkipEnd ==
  ASSUME text.chars \in Seq(STRING), NEW i \in Nat \ {0}, i <= Len(Chars) + 1,
         Blank(Chars, i, Len(Chars) + 1)
  PROVE  SkipSpaces(i) \in {Len(Chars) + 1, Beyond}
<1> DEFINE stops == {m \in From(i) : At(m) \notin Spaces /\ ~InComment(i, m)}
<1>1. Len(Chars) \in Nat /\ DOMAIN Chars = 1..Len(Chars)
  BY DEF Chars
<1>2. \A m \in i..Len(Chars) : At(m) = Chars[m]
  BY <1>1 DEF At
<1>3. ASSUME NEW m \in i..Len(Chars) PROVE m \notin stops
  <2>0. m \in i..(Len(Chars) + 1)-1
    BY <1>1
  <2>1. CASE Chars[m] \in Spaces
    BY <2>1, <1>2, <1>1
  <2>2. CASE \E k \in i..m : Chars[k] = "@" /\ \A l \in k..m-1 : Chars[l] # "\n"
    <3>1. PICK k \in i..m : Chars[k] = "@" /\ \A l \in k..m-1 : Chars[l] # "\n"
      BY <2>2
    <3>2. At(k) = "@" /\ \A l \in k..m-1 : At(l) # "\n"
      BY <3>1, <1>2, <1>1
    <3> QED BY <3>2 DEF InComment
  <2> QED BY <2>0, <2>1, <2>2 DEF Blank
<1>4. \A m \in stops : m = Len(Chars) + 1
  BY <1>1, <1>3 DEF From
<1>5. SkipSpaces(i) = First(stops)
  BY DEF SkipSpaces
<1>6. stops \in SUBSET From(i)
  OBVIOUS
<1> HIDE DEF stops
<1> QED BY <1>4, <1>5, <1>6, FirstAfter

-----------------------------------------------------------------------------
(* The scan stands on the k-th of the words, and what follows ends it.     *)
OnWord(words, k) ==
  /\ text.chars \in Seq(STRING) /\ pos \in Nat \ {0}
  /\ words[k] \in Word /\ IsWord(words, k) /\ Spelled(Chars, pos, words[k].lexeme)
  /\ EndsBefore(words, k, At(pos + Len(words[k].lexeme)))

(* Its characters are those of the text from the cursor on.                *)
LEMMA Characters ==
  ASSUME NEW words, NEW k, OnWord(words, k)
  PROVE  LET s == words[k].lexeme
         IN /\ s \in Seq(STRING) /\ Len(s) \in Nat \ {0} /\ Len(Chars) \in Nat
            /\ pos + Len(s) <= Len(Chars) + 1
            /\ \A m \in 1..Len(s) : At(pos + m - 1) = s[m] /\ Chars[pos + m - 1] = s[m] /\ s[m] # "NUL"
            /\ \A j \in pos..pos + Len(s) - 1 : At(j) = s[j - pos + 1]
<1> DEFINE s == words[k].lexeme
<1>1. s \in Seq(STRING) /\ s # <<>> /\ pos \in Nat \ {0}
  BY DEF OnWord, Word, IsWord
<1>2. Len(Chars) \in Nat /\ DOMAIN Chars = 1..Len(Chars)
  BY DEF OnWord, Chars
<1>3. /\ pos + Len(s) <= Len(Chars) + 1
      /\ \A m \in DOMAIN s : Chars[pos + m - 1] = s[m]
      /\ \A m \in DOMAIN s : s[m] # "NUL"
  BY DEF OnWord, Spelled, IsWord
<1> HIDE DEF s
<1>4. DOMAIN s = 1..Len(s) /\ Len(s) \in Nat \ {0}
  BY <1>1
<1>5. \A m \in 1..Len(s) : At(pos + m - 1) = s[m] /\ Chars[pos + m - 1] = s[m] /\ s[m] # "NUL"
  <2> SUFFICES ASSUME NEW m \in 1..Len(s)
               PROVE  At(pos + m - 1) = s[m] /\ Chars[pos + m - 1] = s[m] /\ s[m] # "NUL"
    OBVIOUS
  <2>1. pos + m - 1 \in 1..Len(Chars)
    BY <1>1, <1>2, <1>3, <1>4
  <2>2. Chars[pos + m - 1] = s[m] /\ s[m] # "NUL"
    BY <1>3, <1>4
  <2> QED BY <1>2, <2>1, <2>2 DEF At
<1>6. ASSUME NEW j \in pos..pos + Len(s) - 1 PROVE At(j) = s[j - pos + 1]
  <2>1. j - pos + 1 \in 1..Len(s) /\ pos + (j - pos + 1) - 1 = j
    BY <1>1, <1>4
  <2> QED BY <2>1, <1>5
<1> QED BY <1>1, <1>2, <1>3, <1>4, <1>5, <1>6 DEF s

(* The lexeme of its token: the characters from the cursor up to an end.   *)
LexemeTo(end) == SubSeq(Chars, pos, end - 1)

LEMMA LexemeOf ==
  ASSUME NEW words, NEW k, OnWord(words, k)
  PROVE  LexemeTo(pos + Len(words[k].lexeme)) = words[k].lexeme
<1> DEFINE s == words[k].lexeme
           e == (pos + Len(s)) - 1
           t == SubSeq(Chars, pos, e)
<1>1. /\ s \in Seq(STRING) /\ Len(s) \in Nat \ {0} /\ Len(Chars) \in Nat
      /\ pos + Len(s) <= Len(Chars) + 1
      /\ \A m \in 1..Len(s) : Chars[pos + m - 1] = s[m]
  BY Characters
<1>2. Chars \in Seq(STRING) /\ pos \in Nat \ {0}
  BY DEF OnWord, Chars
<1> HIDE DEF s
<1>3. e \in Int /\ e - pos + 1 = Len(s) /\ pos <= e + 1 /\ e <= Len(Chars)
  BY <1>1, <1>2
<1> HIDE DEF e
<1>4. t \in Seq(STRING) /\ Len(t) = Len(s)
  BY <1>1, <1>2, <1>3
<1>5. \A m \in 1..Len(s) : t[m] = Chars[pos + m - 1]
  BY <1>1, <1>2, <1>3
<1> HIDE DEF t
<1>6. \A m \in 1..Len(s) : t[m] = s[m]
  BY <1>1, <1>5
<1>7. t = s
  BY <1>1, <1>4, <1>6, SeqEqual
<1> QED BY <1>7 DEF t, e, s, LexemeTo

(* A scan from the word on, of what may not be in it.                      *)
LEMMA ScanEnds ==
  ASSUME NEW words, NEW k, OnWord(words, k), NEW stops \in SUBSET From(pos),
         pos + Len(words[k].lexeme) \in stops,
         \A j \in pos..pos + Len(words[k].lexeme) - 1 : j \notin stops
  PROVE  First(stops) = pos + Len(words[k].lexeme)
<1> DEFINE e == pos + Len(words[k].lexeme)
<1>1. Len(words[k].lexeme) \in Nat \ {0} /\ Len(Chars) \in Nat /\ pos \in Nat \ {0}
  BY Characters DEF OnWord
<1>2. e \in Int
  BY <1>1
<1> HIDE DEF e
<1>3. \A j \in stops : j >= e
  BY <1>1, <1>2 DEF From, e
<1> QED BY <1>1, <1>3, FirstIs DEF OnWord, e

(* strtod, findOperator and readLexemToBuffer end where the word does.      *)
LEMMA NumberEnds ==
  ASSUME NEW words, NEW k, OnWord(words, k), words[k].type = "NUMBER"
  PROVE  First({j \in From(pos) : At(j) \notin Digits}) = pos + Len(words[k].lexeme)
<1> DEFINE s == words[k].lexeme
           stops == {j \in From(pos) : At(j) \notin Digits}
<1>1. /\ Len(s) \in Nat \ {0} /\ Len(Chars) \in Nat /\ pos \in Nat \ {0}
      /\ pos + Len(s) <= Len(Chars) + 1 /\ DOMAIN s = 1..Len(s)
      /\ \A j \in pos..pos + Len(s) - 1 : At(j) = s[j - pos + 1]
  BY Characters DEF OnWord
<1>2. (\A m \in DOMAIN s : s[m] \in Digits) /\ At(pos + Len(s)) \notin Digits
  BY DEF OnWord, IsWord, EndsBefore
<1>3. pos + Len(s) \in stops
  BY <1>1, <1>2 DEF From
<1>4. \A j \in pos..pos + Len(s) - 1 : j - pos + 1 \in 1..Len(s)
  BY <1>1
<1>5. \A j \in pos..pos + Len(s) - 1 : j \notin stops
  BY <1>1, <1>2, <1>4
<1>6. stops \in SUBSET From(pos)
  OBVIOUS
<1> HIDE DEF stops
<1> QED BY <1>3, <1>5, <1>6, ScanEnds DEF stops

(* Operators written differently differ.                                   *)
LEMMA Vocabulary ==
  /\ \A op \in DOMAIN Operators : Operators[op] \in Seq(STRING) /\ Operators[op] # <<>>
  /\ \A op, other \in DOMAIN Operators : Operators[op] = Operators[other] => op = other
BY Zenon, LexerAssumption, VocabularyAssumption

(* An operator that stands where the word does is no longer than it.       *)
LEMMA NoLonger ==
  ASSUME NEW words, NEW k, OnWord(words, k), NEW op \in Here
  PROVE  /\ Len(Operators[op]) <= Len(words[k].lexeme)
         /\ BeginsWith(words[k].lexeme, op)
<1> DEFINE s == words[k].lexeme
           o == Operators[op]
<1>1. op \in DOMAIN Operators /\ \A m \in DOMAIN o : At(pos + m - 1) = o[m]
  BY DEF Here, IsHere
<1>2. o \in Seq(STRING)
  BY <1>1, Vocabulary
<1>3. /\ s \in Seq(STRING) /\ Len(s) \in Nat \ {0} /\ pos \in Nat \ {0}
      /\ \A m \in 1..Len(s) : At(pos + m - 1) = s[m]
  BY Characters DEF OnWord
<1>4. ~(Len(o) > Len(s) /\ (\A m \in DOMAIN s : o[m] = s[m]) /\ o[Len(s)+1] = At(pos + Len(s)))
  BY <1>1 DEF OnWord, EndsBefore
<1> HIDE DEF s, o
<1>5. DOMAIN s = 1..Len(s) /\ DOMAIN o = 1..Len(o) /\ Len(o) \in Nat
  BY <1>2, <1>3
<1>6. ASSUME Len(o) > Len(s) PROVE FALSE
  <2>1. \A m \in DOMAIN s : o[m] = s[m]
    BY <1>1, <1>3, <1>5, <1>6
  <2>2. Len(s) + 1 \in DOMAIN o /\ pos + (Len(s) + 1) - 1 = pos + Len(s)
    BY <1>3, <1>5, <1>6
  <2>3. o[Len(s) + 1] = At(pos + Len(s))
    BY <1>1, <2>2
  <2> QED BY <2>1, <2>3, <1>4, <1>6
<1>7. Len(o) <= Len(s)
  BY <1>3, <1>5, <1>6
<1>8. \A m \in DOMAIN o : s[m] = o[m]
  BY <1>1, <1>3, <1>5, <1>7
<1> QED BY <1>7, <1>8 DEF BeginsWith, s, o

(* The longest of the operators is the one the word is.                    *)
LEMMA OperatorFound ==
  ASSUME NEW words, NEW k, OnWord(words, k), words[k].type = "OPERATOR"
  PROVE  FindOperator = {words[k].op}
<1> DEFINE s == words[k].lexeme
           it == words[k].op
<1>1. it \in DOMAIN Operators /\ s = Operators[it]
  BY DEF OnWord, IsWord
<1>2. /\ s \in Seq(STRING) /\ Len(s) \in Nat \ {0} /\ DOMAIN s = 1..Len(s)
      /\ \A m \in 1..Len(s) : At(pos + m - 1) = s[m]
  BY Characters
<1>3. it \in Here
  BY <1>1, <1>2 DEF Here, IsHere
<1>4. \A other \in Here : Len(Operators[other]) <= Len(Operators[it])
  BY <1>1, NoLonger
<1>5. it \in FindOperator
  BY <1>3, <1>4 DEF FindOperator
<1>6. ASSUME NEW op \in FindOperator PROVE op = it
  <2> DEFINE o == Operators[op]
  <2>1. op \in Here /\ Len(Operators[it]) <= Len(o)
    BY <1>3 DEF FindOperator
  <2>2. op \in DOMAIN Operators /\ o \in Seq(STRING)
    BY <2>1, Vocabulary DEF Here
  <2>3. Len(o) <= Len(s) /\ \A m \in DOMAIN o : s[m] = o[m]
    BY <2>1, NoLonger DEF BeginsWith
  <2> HIDE DEF s, o
  <2>4. Len(o) = Len(s)
    BY <1>1, <1>2, <2>1, <2>2, <2>3
  <2>5. \A m \in 1..Len(o) : o[m] = s[m]
    BY <2>2, <2>3
  <2>6. o = s
    BY <1>2, <2>2, <2>4, <2>5, SeqEqual
  <2> QED BY <1>1, <2>2, <2>6, Vocabulary DEF o, s
<1> QED BY <1>5, <1>6

(* No operator is found in the place of a name.                            *)
LEMMA NoOperator ==
  ASSUME NEW words, NEW k, OnWord(words, k), words[k].type = "IDENTIFIER"
  PROVE  Here = {}
<1>1. \A op \in DOMAIN Operators : ~BeginsWith(words[k].lexeme, op)
  BY DEF OnWord, IsWord
<1>2. ASSUME NEW op \in Here PROVE FALSE
  <2>1. op \in DOMAIN Operators
    BY DEF Here
  <2> QED BY <2>1, <1>1, NoLonger
<1> QED BY <1>2

(* A name ends at what cannot be in it, in quotes at the quote.            *)
LEMMA NameEnds ==
  ASSUME NEW words, NEW k, OnWord(words, k), words[k].type = "IDENTIFIER",
         AfterQuote <=> InQuotes(words, k)
  PROVE  LexemeEnd = pos + Len(words[k].lexeme)
<1> DEFINE s == words[k].lexeme
           e == pos + Len(s)
           quoted == {j \in From(pos) : At(j) \in {"NUL", "\""}}
           plain == {j \in From(pos) : At(j) \notin NameChars}
<1>1. /\ Len(s) \in Nat \ {0} /\ Len(Chars) \in Nat /\ pos \in Nat \ {0}
      /\ e <= Len(Chars) + 1 /\ DOMAIN s = 1..Len(s)
      /\ \A m \in 1..Len(s) : s[m] # "NUL"
      /\ \A j \in pos..e - 1 : At(j) = s[j - pos + 1]
  BY Characters DEF OnWord
<1>2. \A j \in pos..e - 1 : j - pos + 1 \in 1..Len(s)
  BY <1>1
<1>3. e \in From(pos)
  BY <1>1 DEF From
<1>4. At(pos) = s[1]
  BY <1>1
<1>5. CASE InQuotes(words, k)
  <2>1. (\A m \in DOMAIN s : s[m] # "\"") /\ At(e) = "\""
    BY <1>5 DEF OnWord, IsWord, EndsBefore
  <2>2. e \in quoted
    BY <2>1, <1>3
  <2>3. \A j \in pos..e - 1 : j \notin quoted
    BY <2>1, <1>1, <1>2
  <2>4. LexemeEnd = First(quoted)
    BY <1>5 DEF LexemeEnd
  <2>5. quoted \in SUBSET From(pos)
    OBVIOUS
  <2> HIDE DEF quoted
  <2>6. First(quoted) = e
    BY <2>2, <2>3, <2>5, ScanEnds, <1>1
  <2> QED BY <2>4, <2>6
<1>6. CASE ~InQuotes(words, k)
  <2>1. s[1] \in NameStart /\ (\A m \in DOMAIN s : s[m] \in NameChars) /\ At(e) \notin NameChars
    BY <1>6 DEF OnWord, IsWord, EndsBefore
  <2>2. e \in plain
    BY <2>1, <1>3
  <2>3. \A j \in pos..e - 1 : j \notin plain
    BY <2>1, <1>1, <1>2
  <2>4. LexemeEnd = First(plain)
    BY <1>4, <1>6, <2>1 DEF LexemeEnd
  <2>5. plain \in SUBSET From(pos)
    OBVIOUS
  <2> HIDE DEF plain
  <2>6. First(plain) = e
    BY <2>2, <2>3, <2>5, ScanEnds, <1>1
  <2> QED BY <2>4, <2>6
<1> QED BY <1>5, <1>6

-----------------------------------------------------------------------------
(* A text that is written: its words, each of which ends before what       *)
(* follows, and blanks and comments behind the last.                       *)
Whole(at, to) ==
  /\ text.chars \in Seq(STRING) /\ text.words \in Seq(Word)
  /\ Laid(Chars, text.words, at, to)
  /\ \A k \in DOMAIN text.words : EndsBefore(text.words, k, At(to[k]))
  /\ to[Len(text.words)] <= Len(Chars) + 1
  /\ Blank(Chars, to[Len(text.words)], Len(Chars) + 1)

Matches(token, word) == token.type = word.type /\ token.op = word.op /\ token.lexeme = word.lexeme

(* The tokens so far are the first words, and the scan stands on the next. *)
Scanned(at, to) ==
  /\ Whole(at, to) /\ IsSequence(tokens)
  /\ \A k \in DOMAIN text.words : k <= Len(tokens) => Matches(tokens[k], text.words[k])
  /\ status = "written" => tokens = <<>>
  /\ status = "running" => Len(tokens) <= Len(text.words)
  /\ status = "running" /\ Len(tokens) < Len(text.words) => pos = at[Len(tokens) + 1]
  /\ status = "running" /\ Len(tokens) = Len(text.words) => pos = Len(Chars) + 1
  /\ status = "FRONTEND_SUCCESS" => Len(tokens) = Len(text.words) + 1
  /\ status = "FRONTEND_MEMORY_ERROR" => Len(text.words) + 1 > MaxTokens

LEMMA SameWhole ==
  ASSUME NEW at, NEW to, Whole(at, to), UNCHANGED text
  PROVE  Whole(at, to)'
BY DEF Whole, At, Chars

(* The k-th word of the text, where the scan comes to it.                  *)
LEMMA WordAt ==
  ASSUME NEW at, NEW to, Whole(at, to), NEW k \in DOMAIN text.words
  PROVE  /\ k \in Nat \ {0} /\ to[k-1] \in Nat /\ at[k] \in Nat /\ at[k] >= to[k-1]
         /\ Blank(Chars, to[k-1], at[k]) /\ Closed(Chars, to[k-1], at[k])
         /\ to[k] = at[k] + Len(text.words[k].lexeme)
         /\ Spelled(Chars, at[k], text.words[k].lexeme)
         /\ text.words[k] \in Word /\ IsWord(text.words, k) /\ EndsBefore(text.words, k, At(to[k]))
<1>1. k \in Nat \ {0} /\ k - 1 \in Nat /\ text.words[k] \in Word
  BY DEF Whole
<1>2. Stands(Chars, text.words, at, to, k) /\ at \in [Nat -> Nat] /\ to \in [Nat -> Nat]
  BY DEF Whole, Laid
<1>3. EndsBefore(text.words, k, At(to[k]))
  BY DEF Whole
<1> QED BY <1>1, <1>2, <1>3 DEF Stands

(* It starts with a character the blanks before it do not hold.            *)
LEMMA WordStarts ==
  ASSUME NEW at, NEW to, Whole(at, to), NEW k \in DOMAIN text.words
  PROVE  LET s == text.words[k].lexeme
         IN /\ s \in Seq(STRING) /\ Len(s) \in Nat \ {0} /\ Len(Chars) \in Nat
            /\ at[k] + Len(s) <= Len(Chars) + 1
            /\ Chars[at[k]] = s[1] /\ s[1] \notin Spaces \union {"@"} /\ s[1] # "NUL"
<1> DEFINE s == text.words[k].lexeme
<1>1. /\ at[k] \in Nat /\ text.words[k] \in Word /\ IsWord(text.words, k)
      /\ Spelled(Chars, at[k], s)
  BY WordAt
<1>2. s \in Seq(STRING) /\ s # <<>>
  BY <1>1 DEF Word, IsWord
<1>3. Len(Chars) \in Nat
  BY DEF Whole, Chars
<1>4. s[1] \notin Spaces \union {"@"} /\ \A m \in DOMAIN s : s[m] # "NUL"
  BY <1>1 DEF IsWord
<1>5. at[k] + Len(s) <= Len(Chars) + 1 /\ \A m \in DOMAIN s : Chars[at[k] + m - 1] = s[m]
  BY <1>1 DEF Spelled
<1> HIDE DEF s
<1>6. 1 \in DOMAIN s /\ Len(s) \in Nat \ {0}
  BY <1>2
<1>7. at[k] + 1 - 1 = at[k]
  BY <1>1
<1>8. Chars[at[k]] = s[1] /\ s[1] # "NUL"
  BY <1>4, <1>5, <1>6, <1>7
<1> QED BY <1>2, <1>3, <1>4, <1>5, <1>6, <1>8 DEF s

(* Places behind words are places of the text.                             *)
LEMMA EndOfWord ==
  ASSUME NEW at, NEW to, Whole(at, to), NEW k \in 0..Len(text.words)
  PROVE  to[k] \in Nat \ {0}
<1>1. CASE k = 0
  BY <1>1 DEF Whole, Laid
<1>2. CASE k # 0
  <2>1. k \in DOMAIN text.words
    BY <1>2 DEF Whole
  <2>2. at[k] \in Nat /\ to[k] = at[k] + Len(text.words[k].lexeme)
    BY <2>1, WordAt
  <2>3. Len(text.words[k].lexeme) \in Nat \ {0}
    BY <2>1, WordStarts
  <2> QED BY <2>2, <2>3
<1> QED BY <1>1, <1>2

(* Behind a word the scan goes on at the next, or at the end.              *)
LEMMA GoesOn ==
  ASSUME NEW at, NEW to, Whole(at, to), NEW k \in 0..Len(text.words)
  PROVE  /\ k < Len(text.words) => SkipSpaces(to[k]) = at[k+1] /\ at[k+1] # Beyond
         /\ k = Len(text.words) => SkipSpaces(to[k]) \in {Len(Chars) + 1, Beyond}
<1>1. to[k] \in Nat \ {0} /\ Len(text.words) \in Nat /\ text.chars \in Seq(STRING) /\ Len(Chars) \in Nat
  BY EndOfWord DEF Whole, Chars
<1>2. ASSUME k < Len(text.words) PROVE SkipSpaces(to[k]) = at[k+1] /\ at[k+1] # Beyond
  <2>1. k+1 \in DOMAIN text.words /\ (k+1)-1 = k
    BY <1>1, <1>2 DEF Whole
  <2>2. PICK next : next = k+1
    OBVIOUS
  <2>3. next \in DOMAIN text.words /\ next - 1 = k
    BY <2>1, <2>2
  <2>4. /\ at[next] \in Nat /\ at[next] >= to[k]
        /\ Blank(Chars, to[k], at[next]) /\ Closed(Chars, to[k], at[next])
    BY <2>3, WordAt
  <2>5. /\ Len(text.words[next].lexeme) \in Nat \ {0}
        /\ at[next] + Len(text.words[next].lexeme) <= Len(Chars) + 1
        /\ Chars[at[next]] \notin Spaces \union {"@"}
    BY <2>3, WordStarts
  <2>6. at[next] \in to[k]..Len(Chars)
    BY <1>1, <2>4, <2>5
  <2>7. SkipSpaces(to[k]) = at[next]
    BY <1>1, <2>4, <2>5, <2>6, SkipGap
  <2> QED BY <1>1, <2>2, <2>6, <2>7 DEF Beyond
<1>3. ASSUME k = Len(text.words) PROVE SkipSpaces(to[k]) \in {Len(Chars) + 1, Beyond}
  BY <1>1, <1>3, SkipEnd DEF Whole
<1> QED BY <1>2, <1>3

(* What the scan stands on while it runs.                                  *)
LEMMA StandsOn ==
  ASSUME NEW at, NEW to, Scanned(at, to), status = "running"
  PROVE  /\ Len(tokens) \in 0..Len(text.words)
         /\ At(pos) # "NUL" => Len(tokens) + 1 \in DOMAIN text.words
         /\ Len(tokens) + 1 \in DOMAIN text.words =>
              /\ OnWord(text.words, Len(tokens) + 1)
              /\ to[Len(tokens) + 1] = pos + Len(text.words[Len(tokens) + 1].lexeme)
              /\ At(pos) = text.words[Len(tokens) + 1].lexeme[1] /\ At(pos) # "NUL"
<1>1. /\ Len(tokens) \in Nat /\ Len(text.words) \in Nat /\ Len(tokens) <= Len(text.words)
      /\ DOMAIN text.words = 1..Len(text.words) /\ Len(Chars) \in Nat /\ DOMAIN Chars = 1..Len(Chars)
  BY Appended DEF Scanned, Whole, Chars
<1>2. Whole(at, to)
  BY DEF Scanned
<1>3. ASSUME At(pos) # "NUL" PROVE Len(tokens) + 1 \in DOMAIN text.words
  <2>1. pos # Len(Chars) + 1
    BY <1>1, <1>3 DEF At
  <2>2. Len(tokens) # Len(text.words)
    BY <2>1 DEF Scanned
  <2> QED BY <1>1, <2>2
<1>4. ASSUME Len(tokens) + 1 \in DOMAIN text.words
      PROVE  /\ OnWord(text.words, Len(tokens) + 1)
             /\ to[Len(tokens) + 1] = pos + Len(text.words[Len(tokens) + 1].lexeme)
             /\ At(pos) = text.words[Len(tokens) + 1].lexeme[1] /\ At(pos) # "NUL"
  <2>1. PICK k : k = Len(tokens) + 1
    OBVIOUS
  <2>2. k \in DOMAIN text.words
    BY <1>4, <2>1
  <2>3. pos = at[k]
    BY <1>1, <2>1, <2>2 DEF Scanned
  <2> DEFINE s == text.words[k].lexeme
  <2>4. /\ at[k] \in Nat /\ at[k] >= to[k-1] /\ to[k-1] \in Nat /\ k \in Nat \ {0}
        /\ to[k] = at[k] + Len(s) /\ Spelled(Chars, at[k], s)
        /\ text.words[k] \in Word /\ IsWord(text.words, k) /\ EndsBefore(text.words, k, At(to[k]))
    BY <1>2, <2>2, WordAt
  <2>5. /\ Len(s) \in Nat \ {0} /\ at[k] + Len(s) <= Len(Chars) + 1
        /\ Chars[at[k]] = s[1] /\ s[1] # "NUL"
    BY <1>2, <2>2, WordStarts
  <2>6. k - 1 \in 0..Len(text.words)
    BY <1>1, <2>2
  <2>7. to[k-1] \in Nat \ {0}
    BY <1>2, <2>6, EndOfWord
  <2>8. at[k] \in 1..Len(Chars)
    BY <1>1, <2>4, <2>5, <2>7
  <2>9. OnWord(text.words, k)
    BY <1>2, <2>3, <2>4, <2>8 DEF OnWord, Whole
  <2>10. At(pos) = s[1]
    BY <1>1, <2>3, <2>5, <2>8 DEF At
  <2> QED BY <2>1, <2>3, <2>4, <2>5, <2>9, <2>10
<1> QED BY <1>1, <1>3, <1>4

(* The cursor goes from the end of the k-th word to what follows.          *)
LEMMA GoToNext ==
  ASSUME NEW at, NEW to, Whole(at, to), NEW k \in 0..Len(text.words),
         GoTo(to[k], SkipSpaces(to[k]))
  PROVE  /\ status' \in {"running", "overrun"}
         /\ status' = "running" /\ k < Len(text.words) => pos' = at[k+1]
         /\ status' = "running" /\ k = Len(text.words) => pos' = Len(Chars) + 1
<1>1. pos' = SkipSpaces(to[k]) /\ (status' = IF SkipSpaces(to[k]) = Beyond THEN "overrun" ELSE "running")
  BY DEF GoTo
<1> QED BY <1>1, GoesOn

(* A token that is the next word leaves the scan on the one after.         *)
LEMMA NextScanned ==
  ASSUME NEW at, NEW to, Scanned(at, to), status = "running",
         Len(tokens) + 1 \in DOMAIN text.words,
         NEW token, Matches(token, text.words[Len(tokens) + 1]),
         AddToken(token, to[Len(tokens) + 1]), UNCHANGED text
  PROVE  Scanned(at, to)'
<1>1. /\ Whole(at, to) /\ IsSequence(tokens) /\ Len(tokens) \in Nat
      /\ Len(text.words) \in Nat /\ DOMAIN text.words = 1..Len(text.words)
  BY Appended DEF Scanned, Whole
<1>2. Whole(at, to)'
  BY <1>1, SameWhole
<1>3. Len(Chars)' = Len(Chars)
  BY DEF Chars
<1>4. CASE ~HasNext
  <2>1. status' = "FRONTEND_MEMORY_ERROR" /\ tokens' = tokens
    BY <1>4 DEF AddToken
  <2>2. Len(text.words) + 1 > MaxTokens
    BY <1>1, <1>4, Sizes DEF HasNext
  <2>3. IsSequence(tokens)'
    BY <1>1, <2>1 DEF IsSequence
  <2> QED BY <1>2, <2>1, <2>2, <2>3 DEF Scanned
<1>5. CASE HasNext
  <2>1. PICK k : k = Len(tokens) + 1
    OBVIOUS
  <2>2. tokens' = Append(tokens, token) /\ GoTo(to[k], SkipSpaces(to[k]))
    BY <1>5, <2>1 DEF AddToken
  <2>3. k \in 0..Len(text.words)
    BY <1>1, <2>1
  <2>4. /\ status' \in {"running", "overrun"}
        /\ status' = "running" /\ k < Len(text.words) => pos' = at[k+1]
        /\ status' = "running" /\ k = Len(text.words) => pos' = Len(Chars) + 1
    BY <1>1, <2>2, <2>3, GoToNext
  <2>5. /\ IsSequence(tokens') /\ DOMAIN tokens' = 1..k
        /\ \A j \in 1..Len(tokens) : tokens'[j] = tokens[j]
        /\ tokens'[k] = token
    BY <1>1, <2>1, <2>2, Appended
  <2>6. Len(tokens') = k
    <3>1. DOMAIN tokens' = 1..Len(tokens') /\ Len(tokens') \in Nat
      BY <2>5, Appended
    <3> QED BY <1>1, <2>1, <2>5, <3>1
  <2>7. ASSUME NEW j \in DOMAIN text.words, j <= Len(tokens') PROVE Matches(tokens'[j], text.words[j])
    <3>1. CASE j = k
      BY <2>1, <2>5, <3>1
    <3>2. CASE j # k
      <4>1. j \in 1..Len(tokens)
        BY <1>1, <2>1, <2>6, <2>7, <3>2
      <4> QED BY <4>1, <2>5 DEF Scanned
    <3> QED BY <3>1, <3>2
  <2>8. IsSequence(tokens)'
    BY <2>5 DEF IsSequence
  <2>9. \A j \in DOMAIN text'.words : j <= Len(tokens') => Matches(tokens[j], text.words[j])'
    BY <2>7 DEF Matches
  <2> QED BY <1>1, <1>2, <1>3, <2>1, <2>3, <2>4, <2>6, <2>8, <2>9 DEF Scanned
<1> QED BY <1>4, <1>5

(* The word the scan stands on and what its token is to hold.              *)
LEMMA ScansWord ==
  ASSUME NEW at, NEW to, Scanned(at, to), status = "running", At(pos) # "NUL",
         NEW k, k = Len(tokens) + 1
  PROVE  /\ k \in DOMAIN text.words /\ OnWord(text.words, k)
         /\ to[k] = pos + Len(text.words[k].lexeme) /\ At(pos) = text.words[k].lexeme[1]
         /\ LexemeTo(pos + Len(text.words[k].lexeme)) = text.words[k].lexeme
         /\ text.words[k].type \in {"NUMBER", "OPERATOR", "IDENTIFIER"}
         /\ IsWord(text.words, k)
<1>1. k \in DOMAIN text.words
  BY StandsOn
<1>2. /\ OnWord(text.words, k) /\ to[k] = pos + Len(text.words[k].lexeme)
      /\ At(pos) = text.words[k].lexeme[1]
  BY <1>1, StandsOn
<1>3. LexemeTo(pos + Len(text.words[k].lexeme)) = text.words[k].lexeme
  BY <1>2, LexemeOf
<1>4. text.words[k] \in Word /\ IsWord(text.words, k)
  BY <1>2 DEF OnWord
<1>5. text.words[k].type \in {"NUMBER", "OPERATOR", "IDENTIFIER"}
  BY <1>4 DEF Word
<1> QED BY <1>1, <1>2, <1>3, <1>4, <1>5

(* Every step of the scan leaves the tokens those of the first words.      *)
LEMMA ScanStep ==
  ASSUME NEW at, NEW to, Scanned(at, to), status # "writing", [Next]_vars
  PROVE  Scanned(at, to)' /\ status' # "writing"
<1>0. /\ Whole(at, to) /\ IsSequence(tokens) /\ Len(tokens) \in Nat
      /\ Len(text.words) \in Nat /\ DOMAIN text.words = 1..Len(text.words)
  BY Appended DEF Scanned, Whole
<1>1. CASE UNCHANGED vars
  <2>1. UNCHANGED <<text, pos, tokens, status>>
    BY <1>1 DEF vars
  <2>2. Whole(at, to)'
    BY <1>0, <2>1, SameWhole
  <2> QED BY <2>1, <2>2 DEF Scanned, IsSequence, Matches, Chars
<1>2. ~Write /\ ~WriteEnd
  BY DEF Write, WriteEnd
<1>3. CASE Begin
  <2>1. status = "written" /\ GoTo(1, SkipSpaces(1)) /\ UNCHANGED <<text, tokens>>
    BY <1>3 DEF Begin
  <2>2. tokens = <<>> /\ to[0] = 1
    BY <1>0, <2>1 DEF Scanned, Whole, Laid
  <2>3. Len(tokens) = 0
    BY <2>2
  <2>4. 0 \in 0..Len(text.words)
    BY <1>0
  <2>5. GoTo(to[0], SkipSpaces(to[0]))
    BY <2>1, <2>2
  <2>6. /\ status' \in {"running", "overrun"}
        /\ status' = "running" /\ 0 < Len(text.words) => pos' = at[0+1]
        /\ status' = "running" /\ 0 = Len(text.words) => pos' = Len(Chars) + 1
    BY <1>0, <2>4, <2>5, GoToNext
  <2>7. Whole(at, to)'
    BY <1>0, <2>1, SameWhole
  <2>8. IsSequence(tokens)' /\ Len(Chars)' = Len(Chars) /\ tokens' = <<>>
    BY <1>0, <2>1, <2>2 DEF IsSequence, Chars
  <2>9. \A j \in DOMAIN text'.words : ~(j <= Len(tokens'))
    BY <1>0, <2>1, <2>3
  <2>10. Len(tokens') = 0 /\ 0 <= Len(text'.words) /\ 0 + 1 = 1
    BY <1>0, <2>1, <2>3
  <2> QED BY <2>1, <2>6, <2>7, <2>8, <2>9, <2>10 DEF Scanned
<1>k. PICK k : k = Len(tokens) + 1
  OBVIOUS
<1> DEFINE word == text.words[k]
           here == pos + Len(word.lexeme)
<1>4. ASSUME status = "running", At(pos) # "NUL"
      PROVE  /\ k \in DOMAIN text.words /\ OnWord(text.words, k)
             /\ to[k] = here /\ At(pos) = word.lexeme[1]
             /\ LexemeTo(here) = word.lexeme
             /\ word.type \in {"NUMBER", "OPERATOR", "IDENTIFIER"}
             /\ IsWord(text.words, k)
  BY <1>4, <1>k, ScansWord
<1>5. CASE ScanNumber
  <2> DEFINE token == TokenHere("NUMBER", "none", 0, here)
  <2>1. status = "running" /\ At(pos) # "NUL" /\ At(pos) \in Digits /\ UNCHANGED text
    BY <1>5 DEF ScanNumber, Scanning
  <2>2. word.type = "NUMBER" /\ word.op = "none"
    BY <1>4, <2>1 DEF IsWord
  <2>3. AddToken(token, here)
    BY <1>4, <1>5, <2>1, <2>2, NumberEnds DEF ScanNumber
  <2>4. Matches(token, word)
    BY <1>4, <2>1, <2>2 DEF Matches, TokenHere, LexemeTo
  <2> HIDE DEF token
  <2>5. Scanned(at, to)'
    BY <1>4, <2>1, <2>3, <2>4, NextScanned, <1>k
  <2> QED BY <2>1, <2>3, <2>5 DEF AddToken, GoTo
<1>6. CASE ScanOperator
  <2>1. PICK op \in FindOperator :
          AddToken(TokenHere("OPERATOR", op, 0, pos + Len(Operators[op])), pos + Len(Operators[op]))
    BY <1>6 DEF ScanOperator
  <2>2. status = "running" /\ At(pos) # "NUL" /\ At(pos) \notin Digits /\ UNCHANGED text
    BY <1>6 DEF ScanOperator, Scanning
  <2>3. Here # {} /\ op \in Here
    BY <2>1 DEF FindOperator
  <2>4. word.type # "IDENTIFIER"
    BY <1>4, <2>2, <2>3, NoOperator
  <2>5. word.type # "NUMBER"
    <3>1. ASSUME word.type = "NUMBER" PROVE word.lexeme[1] \in Digits
      <4>1. 1 \in DOMAIN word.lexeme
        BY <1>4, <2>2, Characters
      <4> QED BY <1>4, <2>2, <3>1, <4>1 DEF IsWord
    <3> QED BY <1>4, <2>2, <3>1
  <2>6. word.type = "OPERATOR"
    BY <1>4, <2>2, <2>4, <2>5
  <2>7. op = word.op
    BY <1>4, <2>1, <2>2, <2>6, OperatorFound
  <2>8. word.lexeme = Operators[op]
    BY <1>4, <2>2, <2>6, <2>7 DEF IsWord
  <2> DEFINE token == TokenHere("OPERATOR", op, 0, here)
  <2>9. AddToken(token, here)
    BY <2>1, <2>8
  <2>10. Matches(token, word)
    BY <1>4, <2>2, <2>6, <2>7 DEF Matches, TokenHere, LexemeTo
  <2> HIDE DEF token
  <2>11. Scanned(at, to)'
    BY <1>4, <2>2, <2>9, <2>10, NextScanned, <1>k
  <2> QED BY <2>2, <2>9, <2>11 DEF AddToken, GoTo
<1>7. CASE ScanName
  <2>1. /\ status = "running" /\ At(pos) # "NUL" /\ At(pos) \notin Digits /\ Here = {}
        /\ UNCHANGED text
    BY <1>7 DEF ScanName, Scanning
  <2>2. word.type # "OPERATOR"
    <3>1. ASSUME word.type = "OPERATOR" PROVE word.op \in Here
      BY <1>4, <2>1, <3>1, OperatorFound DEF FindOperator
    <3> QED BY <2>1, <3>1
  <2>3. word.type # "NUMBER"
    <3>1. ASSUME word.type = "NUMBER" PROVE word.lexeme[1] \in Digits
      <4>1. 1 \in DOMAIN word.lexeme
        BY <1>4, <2>1, Characters
      <4> QED BY <1>4, <2>1, <3>1, <4>1 DEF IsWord
    <3> QED BY <1>4, <2>1, <3>1
  <2>4. word.type = "IDENTIFIER" /\ word.op = "none"
    BY <1>4, <2>1, <2>2, <2>3 DEF IsWord
  <2>5. AfterQuote <=> InQuotes(text.words, k)
    <3>1. CASE Len(tokens) = 0
      <4>1. tokens = <<>>
        BY <1>0, <3>1, Appended
      <4> QED BY <1>k, <3>1, <4>1 DEF AfterQuote, InQuotes
    <3>2. CASE Len(tokens) # 0
      <4>1. tokens # <<>> /\ Len(tokens) + 1 > 1 /\ (Len(tokens) + 1) - 1 = Len(tokens)
        BY <1>0, <3>2
      <4>2. Len(tokens) \in DOMAIN text.words
        BY <1>0, <1>k, <1>4, <2>1, <3>2
      <4>3. tokens[Len(tokens)].op = text.words[Len(tokens)].op
        BY <1>0, <4>2 DEF Scanned, Matches
      <4> QED BY <1>k, <4>1, <4>3 DEF AfterQuote, InQuotes
    <3> QED BY <3>1, <3>2
  <2>6. LexemeEnd = here
    BY <1>4, <2>1, <2>4, <2>5, NameEnds
  <2>7. here # Beyond
    <3>1. OnWord(text.words, k)
      BY <1>4, <2>1
    <3>2. here <= Len(Chars) + 1 /\ Len(Chars) \in Nat
      BY <3>1, Characters
    <3> QED BY <3>2 DEF Beyond
  <2>8. PICK id : AddToken(TokenHere("IDENTIFIER", "none", id, here), here)
    BY <1>7, <2>6, <2>7 DEF ScanName
  <2> DEFINE token == TokenHere("IDENTIFIER", "none", id, here)
  <2>9. Matches(token, word)
    BY <1>4, <2>1, <2>4 DEF Matches, TokenHere, LexemeTo
  <2>10. AddToken(token, here)
    BY <2>8
  <2> HIDE DEF token
  <2>11. Scanned(at, to)'
    BY <1>4, <2>1, <2>9, <2>10, NextScanned, <1>k
  <2> QED BY <2>1, <2>10, <2>11 DEF AddToken, GoTo
<1>8. CASE EndOfText
  <2>1. /\ status = "running" /\ At(pos) = "NUL" /\ UNCHANGED text
        /\ tokens' = Append(tokens, TokenHere("OPERATOR", "EOF", 0, pos))
        /\ status' = "FRONTEND_SUCCESS"
    BY <1>8 DEF EndOfText
  <2>2. Len(tokens) = Len(text.words)
    <3>1. Len(tokens) + 1 \notin DOMAIN text.words
      BY <2>1, StandsOn
    <3> QED BY <1>0, <2>1, <3>1, StandsOn
  <2>3. PICK token : token = TokenHere("OPERATOR", "EOF", 0, pos)
    OBVIOUS
  <2>4. /\ IsSequence(tokens') /\ DOMAIN tokens' = 1..Len(tokens) + 1
        /\ \A j \in 1..Len(tokens) : tokens'[j] = tokens[j]
    BY <1>0, <2>1, <2>3, Appended
  <2>5. Len(tokens') = Len(tokens) + 1
    <3>1. DOMAIN tokens' = 1..Len(tokens') /\ Len(tokens') \in Nat
      BY <2>4, Appended
    <3> QED BY <1>0, <2>4, <3>1
  <2>6. Whole(at, to)'
    BY <1>0, <2>1, SameWhole
  <2>7. \A j \in DOMAIN text'.words : j <= Len(tokens') => Matches(tokens[j], text.words[j])'
    BY <1>0, <2>1, <2>2, <2>4 DEF Scanned, Matches
  <2>8. IsSequence(tokens)'
    BY <2>4 DEF IsSequence
  <2>9. Len(tokens') = Len(text'.words) + 1
    BY <2>1, <2>2, <2>5
  <2> QED BY <2>1, <2>6, <2>7, <2>8, <2>9 DEF Scanned
<1> QED BY <1>1, <1>2, <1>3, <1>5, <1>6, <1>7, <1>8 DEF Next

-----------------------------------------------------------------------------
(* A text while it is written: its words up to its end, the last of which  *)
(* is the last of a unit.                                                  *)
LastOf(words) ==
  words # <<>> =>
    \E v \in Units : /\ words[Len(words)] = v.words[Len(v.words)]
                     /\ InQuotes(words, Len(words)) <=> InQuotes(v.words, Len(v.words))

Draft(s, words, at, to) ==
  /\ s \in Seq(STRING) /\ words \in Seq(Word) /\ Laid(s, words, at, to)
  /\ \A k \in DOMAIN words : k # Len(words) => to[k] <= Len(s) /\ EndsBefore(words, k, s[to[k]])
  /\ to[Len(words)] = Len(s) + 1 /\ LastOf(words)

(* The characters of three texts in one.                                   *)
LEMMA Joined ==
  ASSUME NEW s \in Seq(STRING), NEW b \in Seq(STRING), NEW c \in Seq(STRING)
  PROVE  /\ s \o b \o c \in Seq(STRING) /\ Len(s \o b \o c) = Len(s) + Len(b) + Len(c)
         /\ \A m \in 1..Len(s) : (s \o b \o c)[m] = s[m]
         /\ \A m \in 1..Len(b) : (s \o b \o c)[Len(s) + m] = b[m]
         /\ \A m \in 1..Len(c) : (s \o b \o c)[Len(s) + Len(b) + m] = c[m]
<1>1. PICK t : t = s \o b
  OBVIOUS
<1>2. /\ t \in Seq(STRING) /\ Len(t) = Len(s) + Len(b) /\ Len(s) \in Nat /\ Len(b) \in Nat /\ Len(c) \in Nat
      /\ \A m \in 1..Len(s) + Len(b) : t[m] = IF m <= Len(s) THEN s[m] ELSE b[m - Len(s)]
  BY <1>1, ConcatProperties
<1>3. PICK u : u = t \o c
  OBVIOUS
<1>4. /\ u \in Seq(STRING) /\ Len(u) = Len(t) + Len(c)
      /\ \A m \in 1..Len(t) + Len(c) : u[m] = IF m <= Len(t) THEN t[m] ELSE c[m - Len(t)]
  <2>1. t \in Seq(STRING)
    BY <1>2
  <2> QED BY <1>3, <2>1, ConcatProperties
<1>5. \A m \in 1..Len(s) : u[m] = s[m]
  BY <1>2, <1>4
<1>6. ASSUME NEW m \in 1..Len(b) PROVE u[Len(s) + m] = b[m]
  <2>1. Len(s) + m \in 1..Len(t) /\ ~(Len(s) + m <= Len(s)) /\ Len(s) + m - Len(s) = m
    BY <1>2
  <2> QED BY <1>2, <1>4, <2>1
<1>7. ASSUME NEW m \in 1..Len(c) PROVE u[Len(s) + Len(b) + m] = c[m]
  <2>1. /\ Len(t) + m \in 1..Len(t) + Len(c) /\ ~(Len(t) + m <= Len(t)) /\ Len(t) + m - Len(t) = m
        /\ Len(t) + m = Len(s) + Len(b) + m
    BY <1>2
  <2> QED BY <1>4, <2>1
<1> QED BY <1>1, <1>2, <1>3, <1>4, <1>5, <1>6, <1>7

(* What is written stays where it is.                                      *)
LEMMA StaysWritten ==
  ASSUME NEW s \in Seq(STRING), NEW t \in Seq(STRING), Len(s) <= Len(t),
         \A m \in 1..Len(s) : t[m] = s[m],
         NEW i \in Nat \ {0}
  PROVE  /\ \A w \in Seq(STRING) : Spelled(s, i, w) => Spelled(t, i, w)
         /\ \A j \in Nat : j <= Len(s) + 1 /\ Blank(s, i, j) => Blank(t, i, j)
         /\ \A j \in Nat : j <= Len(s) + 1 /\ Closed(s, i, j) => Closed(t, i, j)
<1>0. Len(s) \in Nat /\ Len(t) \in Nat
  OBVIOUS
<1>1. ASSUME NEW w \in Seq(STRING), Spelled(s, i, w) PROVE Spelled(t, i, w)
  <2>1. i + Len(w) <= Len(s) + 1 /\ \A m \in DOMAIN w : s[i+m-1] = w[m]
    BY <1>1 DEF Spelled
  <2>2. Len(w) \in Nat /\ DOMAIN w = 1..Len(w)
    OBVIOUS
  <2>3. \A m \in DOMAIN w : i+m-1 \in 1..Len(s)
    BY <1>0, <2>1, <2>2
  <2>4. \A m \in DOMAIN w : t[i+m-1] = w[m]
    BY <2>1, <2>3
  <2> QED BY <1>0, <2>1, <2>2, <2>4 DEF Spelled
<1>2. ASSUME NEW j \in Nat, j <= Len(s) + 1, Blank(s, i, j) PROVE Blank(t, i, j)
  <2>1. \A m \in i..j-1 : t[m] = s[m]
    BY <1>0, <1>2
  <2> SUFFICES ASSUME NEW m \in i..j-1, t[m] \notin Spaces
               PROVE  \E k \in i..m : t[k] = "@" /\ \A l \in k..m-1 : t[l] # "\n"
    BY DEF Blank
  <2>2. PICK k \in i..m : s[k] = "@" /\ \A l \in k..m-1 : s[l] # "\n"
    BY <1>2, <2>1 DEF Blank
  <2>3. k \in i..j-1 /\ \A l \in k..m-1 : l \in i..j-1
    BY <1>0
  <2> QED BY <2>1, <2>2, <2>3
<1>3. ASSUME NEW j \in Nat, j <= Len(s) + 1, Closed(s, i, j) PROVE Closed(t, i, j)
  <2>1. \A m \in i..j-1 : t[m] = s[m]
    BY <1>0, <1>3
  <2> SUFFICES ASSUME NEW k \in i..j-1, t[k] = "@"
               PROVE  \E m \in k..j-1 : t[m] = "\n"
    BY DEF Closed
  <2>2. PICK m \in k..j-1 : s[m] = "\n"
    BY <1>3, <2>1 DEF Closed
  <2>3. m \in i..j-1
    BY <1>0
  <2> QED BY <2>1, <2>2, <2>3
<1> QED BY <1>1, <1>2, <1>3

(* A separator stays one where it is put into a text.                      *)
LEMMA SeparatorPut ==
  ASSUME NEW b \in Seq(STRING), IsBlank(b), NEW t, NEW p \in Nat,
         \A m \in 1..Len(b) : t[p + m] = b[m]
  PROVE  /\ Blank(t, p + 1, p + Len(b) + 1)
         /\ IsClosed(b) => Closed(t, p + 1, p + Len(b) + 1)
<1>1. Len(b) \in Nat /\ DOMAIN b = 1..Len(b)
  OBVIOUS
<1>2. \A m \in p+1..p + Len(b) : m - p \in 1..Len(b) /\ t[m] = b[m - p]
  <2> TAKE m \in p+1..p + Len(b)
  <2>1. m - p \in 1..Len(b) /\ p + (m - p) = m
    BY <1>1
  <2> QED BY <2>1
<1>3. Blank(t, p + 1, p + Len(b) + 1)
  <2> SUFFICES ASSUME NEW m \in p+1..p + Len(b), t[m] \notin Spaces
               PROVE  \E k \in p+1..m : t[k] = "@" /\ \A l \in k..m-1 : t[l] # "\n"
    BY <1>1 DEF Blank
  <2>1. m - p \in 1..Len(b) /\ t[m] = b[m - p]
    BY <1>2
  <2>2. PICK k \in 1..m - p : b[k] = "@" /\ \A l \in k..(m-p)-1 : b[l] # "\n"
    BY <1>1, <2>1 DEF IsBlank
  <2>3. k + p \in p+1..m /\ t[k + p] = "@"
    BY <1>1, <2>1, <2>2
  <2>4. ASSUME NEW l \in k + p..m-1 PROVE t[l] # "\n"
    <3>1. l \in p+1..p + Len(b) /\ l - p \in k..(m-p)-1
      BY <1>1, <2>1, <2>4
    <3> QED BY <1>2, <2>2, <3>1
  <2> QED BY <2>3, <2>4
<1>4. ASSUME IsClosed(b) PROVE Closed(t, p + 1, p + Len(b) + 1)
  <2> SUFFICES ASSUME NEW k \in p+1..p + Len(b), t[k] = "@"
               PROVE  \E m \in k..p + Len(b) : t[m] = "\n"
    BY <1>1 DEF Closed
  <2>1. k - p \in 1..Len(b) /\ b[k - p] = "@"
    BY <1>2
  <2>2. PICK m \in k - p..Len(b) : b[m] = "\n"
    BY <1>1, <1>4, <2>1 DEF IsClosed
  <2>3. m + p \in k..p + Len(b) /\ m \in 1..Len(b)
    BY <1>1, <2>1
  <2> QED BY <2>2, <2>3
<1> QED BY <1>3, <1>4

(* A separator starts with what may follow a word.                         *)
LEMMA SeparatorStarts ==
  ASSUME NEW b \in Seq(STRING), IsBlank(b), b # <<>>
  PROVE  b[1] \in Spaces \union {"@"}
<1>1. 1 \in DOMAIN b
  OBVIOUS
<1>2. b[1] \in Spaces \/ \E k \in 1..1 : b[k] = "@"
  BY <1>1 DEF IsBlank
<1> QED BY <1>2

(* What the vocabulary promises.                                           *)
LEMMA Texts ==
  /\ \A s \in Separators \union Ends : s \in Seq(STRING) /\ IsBlank(s)
  /\ \A s \in Separators : s # <<>> /\ IsClosed(s)
  /\ \A unit \in Units : IsUnit(unit)
  /\ \A v, w \in Units : Touch(v.words[Len(v.words)], w.words[1]) =>
                          EndsBefore(v.words, Len(v.words), w.words[1].lexeme[1])
<1>1. Separators \subseteq Seq(STRING) /\ Ends \subseteq Seq(STRING)
  BY Zenon, LexerAssumption
<1>2. /\ \A s \in Separators : s # <<>> /\ IsBlank(s) /\ IsClosed(s)
      /\ \A s \in Ends : IsBlank(s)
      /\ \A unit \in Units : IsUnit(unit)
      /\ \A v, w \in Units : Touch(v.words[Len(v.words)], w.words[1]) =>
                              EndsBefore(v.words, Len(v.words), w.words[1].lexeme[1])
  BY Zenon, VocabularyAssumption
<1> QED BY <1>1, <1>2

(* The places of a unit's words in its characters.                         *)
LEMMA UnitLaid ==
  ASSUME NEW unit \in Units
  PROVE  LET words == unit.words  n == Len(words)  c == unit.chars
         IN /\ words \in Seq(Word) /\ n \in Nat \ {0} /\ c \in Seq(STRING)
            /\ \A k \in 1..n : IsWord(words, k) /\ words[k].lexeme \in Seq(STRING) /\ words[k].lexeme # <<>>
            /\ \A k \in 1..n-1 : EndsBefore(words, k, words[k+1].lexeme[1])
            /\ \A char \in Spaces \union {"@", "NUL"} : EndsBefore(words, n, char)
            /\ words[n].op # "QUOTE"
            /\ \E at \in [1..n+1 -> 1..Len(c)+1] :
                 /\ at[1] = 1 /\ at[n+1] = Len(c) + 1
                 /\ \A k \in 1..n : /\ at[k+1] = at[k] + Len(words[k].lexeme)
                                  /\ \A m \in DOMAIN words[k].lexeme : c[at[k]+m-1] = words[k].lexeme[m]
<1>1. IsUnit(unit)
  BY Texts
<1> DEFINE words == unit.words
           n == Len(words)
           c == unit.chars
<1>2. /\ words \in Seq(Word) /\ n > 0 /\ c \in Seq(STRING)
      /\ \A k \in 1..n : IsWord(words, k)
      /\ \A k \in 1..n-1 : EndsBefore(words, k, words[k+1].lexeme[1])
      /\ \A char \in Spaces \union {"@", "NUL"} : EndsBefore(words, n, char)
      /\ words[n].op # "QUOTE"
  BY <1>1, Zenon DEF IsUnit
<1>3. \E at \in [1..n+1 -> 1..Len(c)+1] :
        /\ at[1] = 1 /\ at[n+1] = Len(c) + 1
        /\ \A k \in 1..n : /\ at[k+1] = at[k] + Len(words[k].lexeme)
                         /\ \A m \in DOMAIN words[k].lexeme : c[at[k]+m-1] = words[k].lexeme[m]
  BY <1>1, Zenon DEF IsUnit
<1>4. n \in Nat \ {0}
  BY <1>2
<1>5. ASSUME NEW k \in 1..n PROVE words[k].lexeme \in Seq(STRING) /\ words[k].lexeme # <<>>
  <2>1. words[k] \in Word
    BY <1>2, <1>5
  <2>2. words[k].lexeme \in Seq(STRING)
    BY <2>1 DEF Word
  <2> QED BY <1>2, <2>2 DEF IsWord
<1> QED BY <1>2, <1>3, <1>4, <1>5, Zenon

-----------------------------------------------------------------------------
(* Words behind others: who stands in quotes does not change.              *)
LEMMA QuotesStay ==
  ASSUME NEW words \in Seq(Word), LastOf(words), NEW unit \in Units, NEW both \in Seq(Word),
         Len(both) = Len(words) + Len(unit.words),
         \A k \in 1..Len(words) : both[k] = words[k],
         \A k \in 1..Len(unit.words) : both[Len(words) + k] = unit.words[k]
  PROVE  /\ \A k \in 1..Len(words) : InQuotes(both, k) <=> InQuotes(words, k)
         /\ \A k \in 1..Len(unit.words) : InQuotes(both, Len(words) + k) <=> InQuotes(unit.words, k)
<1>1. Len(words) \in Nat /\ Len(unit.words) \in Nat
  BY UnitLaid
<1>2. \A k \in 1..Len(words) : InQuotes(both, k) <=> InQuotes(words, k)
  <2> TAKE k \in 1..Len(words)
  <2>1. k > 1 => k-1 \in 1..Len(words)
    BY <1>1
  <2> QED BY <2>1 DEF InQuotes
<1>3. ASSUME NEW k \in 1..Len(unit.words)
      PROVE  InQuotes(both, Len(words) + k) <=> InQuotes(unit.words, k)
  <2>1. CASE k > 1
    <3>1. k-1 \in 1..Len(unit.words) /\ (Len(words) + k) - 1 = Len(words) + (k-1) /\ Len(words) + k > 1
      BY <1>1, <2>1
    <3> QED BY <2>1, <3>1 DEF InQuotes
  <2>2. CASE k = 1 /\ words = <<>>
    <3>1. Len(words) = 0
      BY <2>2
    <3> QED BY <2>2, <3>1 DEF InQuotes
  <2>3. CASE k = 1 /\ words # <<>>
    <3>1. PICK v \in Units : words[Len(words)] = v.words[Len(v.words)]
      BY <2>3 DEF LastOf
    <3>2. v.words[Len(v.words)].op # "QUOTE"
      BY UnitLaid
    <3>3. Len(words) \in 1..Len(words)
      BY <1>1, <2>3
    <3>4. both[Len(words)].op # "QUOTE" /\ (Len(words) + 1) - 1 = Len(words)
      BY <1>1, <3>1, <3>2, <3>3
    <3> QED BY <2>3, <3>4 DEF InQuotes
  <2> QED BY <1>1, <2>1, <2>2, <2>3
<1> QED BY <1>2, <1>3

(* Words stand behind the beginning of the text.                           *)
LEMMA PlacesPositive ==
  ASSUME NEW s \in Seq(STRING), NEW words \in Seq(Word), NEW at, NEW to, Laid(s, words, at, to),
         NEW k \in DOMAIN words
  PROVE  to[k-1] \in Nat \ {0} /\ at[k] \in Nat \ {0} /\ at[k] <= Len(s) + 1
<1>1. DOMAIN words = 1..Len(words) /\ Len(words) \in Nat /\ Len(s) \in Nat
  OBVIOUS
<1>2. ASSUME NEW j \in DOMAIN words
      PROVE  /\ at[j] >= to[j-1] /\ to[j] = at[j] + Len(words[j].lexeme) /\ to[j] <= Len(s) + 1
             /\ at[j] \in Nat /\ to[j-1] \in Nat /\ Len(words[j].lexeme) \in Nat \ {0}
  <2>1. /\ IsWord(words, j) /\ Spelled(s, at[j], words[j].lexeme)
        /\ at[j] >= to[j-1] /\ to[j] = at[j] + Len(words[j].lexeme)
    BY DEF Laid, Stands
  <2>6. at[j] \in Nat /\ to[j-1] \in Nat
    <3>1. j \in Nat /\ j-1 \in Nat
      BY <1>1
    <3> QED BY <3>1 DEF Laid
  <2>2. words[j].lexeme \in Seq(STRING)
    <3>1. words[j] \in Word
      OBVIOUS
    <3> QED BY <3>1 DEF Word
  <2>3. words[j].lexeme # <<>>
    BY <2>1 DEF IsWord
  <2>4. Len(words[j].lexeme) \in Nat \ {0}
    BY <2>2, <2>3
  <2>5. at[j] + Len(words[j].lexeme) <= Len(s) + 1
    BY <2>1 DEF Spelled
  <2>7. PICK l : l = Len(words[j].lexeme)
    OBVIOUS
  <2>8. /\ at[j] >= to[j-1] /\ to[j] = at[j] + l
    BY <2>1, <2>7
  <2>9. to[j] <= Len(s) + 1
    BY <2>5, <2>7, <2>8
  <2> QED BY <2>4, <2>6, <2>7, <2>8, <2>9
<1>3. ASSUME k = 1 PROVE to[k-1] \in Nat \ {0}
  BY <1>3 DEF Laid
<1>4. ASSUME k # 1 PROVE to[k-1] \in Nat \ {0}
  <2>1. k-1 \in DOMAIN words
    BY <1>1, <1>4
  <2>2. PICK j : j = k-1
    OBVIOUS
  <2>3. j \in DOMAIN words
    BY <2>1, <2>2
  <2>4. PICK l : l = Len(words[j].lexeme)
    OBVIOUS
  <2>5. to[j] = at[j] + l /\ at[j] \in Nat /\ l \in Nat \ {0}
    BY <1>2, <2>3, <2>4
  <2> QED BY <2>2, <2>5
<1>5. at[k] >= to[k-1] /\ at[k] \in Nat /\ to[k-1] \in Nat /\ at[k] <= Len(s) + 1
  <2>1. PICK l : l = Len(words[k].lexeme)
    OBVIOUS
  <2>2. at[k] >= to[k-1] /\ to[k] = at[k] + l /\ to[k] <= Len(s) + 1 /\ at[k] \in Nat /\ to[k-1] \in Nat /\ l \in Nat
    BY <1>2, <2>1
  <2> QED BY <1>1, <2>2
<1> QED BY <1>3, <1>4, <1>5

(* Characters put behind a text spell there what they spelled.             *)
LEMMA SpelledPut ==
  ASSUME NEW t \in Seq(STRING), NEW c \in Seq(STRING), NEW p \in Nat, Len(t) = p + Len(c),
         \A m \in 1..Len(c) : t[p + m] = c[m],
         NEW i \in Nat \ {0}, NEW w \in Seq(STRING), Spelled(c, i, w)
  PROVE  Spelled(t, p + i, w)
<1>1. i + Len(w) <= Len(c) + 1 /\ \A m \in DOMAIN w : c[i+m-1] = w[m]
  BY DEF Spelled
<1>2. Len(w) \in Nat /\ DOMAIN w = 1..Len(w) /\ Len(c) \in Nat
  OBVIOUS
<1>3. ASSUME NEW m \in DOMAIN w PROVE t[(p + i)+m-1] = w[m]
  <2>1. i+m-1 \in 1..Len(c) /\ (p + i)+m-1 = p + (i+m-1)
    BY <1>1, <1>2
  <2> QED BY <1>1, <2>1
<1> QED BY <1>1, <1>2, <1>3 DEF Spelled

(* A word's first character stands where the word does.                    *)
LEMMA FirstOf ==
  ASSUME NEW t \in Seq(STRING), NEW i \in Nat, NEW w \in Seq(STRING), w # <<>>, Spelled(t, i, w)
  PROVE  t[i] = w[1] /\ i <= Len(t)
<1>1. 1 \in DOMAIN w /\ Len(w) \in Nat \ {0} /\ Len(t) \in Nat
  OBVIOUS
<1>2. i + Len(w) <= Len(t) + 1 /\ \A m \in DOMAIN w : t[i+m-1] = w[m]
  BY DEF Spelled
<1>3. i+1-1 = i
  OBVIOUS
<1> QED BY <1>1, <1>2, <1>3

(* A unit written behind a text, with a separator in between or without.   *)
LEMMA Extended ==
  ASSUME NEW s, NEW words, NEW at, NEW to, Draft(s, words, at, to),
         NEW unit \in Units, NEW b \in Separators \union {<<>>},
         b = <<>> => words = <<>> \/ Touch(words[Len(words)], unit.words[1])
  PROVE  \E at2, to2 : Draft(s \o b \o unit.chars, words \o unit.words, at2, to2)
<1>own. PICK own : own = unit.words
  OBVIOUS
<1>c. PICK c : c = unit.chars
  OBVIOUS
<1>n. PICK n : n = Len(words)
  OBVIOUS
<1>o. PICK o : o = Len(own)
  OBVIOUS
<1>p. PICK p : p = Len(s) + Len(b)
  OBVIOUS
<1>1. /\ own \in Seq(Word) /\ o \in Nat \ {0} /\ c \in Seq(STRING)
      /\ \A k \in 1..o : IsWord(own, k) /\ own[k].lexeme \in Seq(STRING) /\ own[k].lexeme # <<>>
      /\ \A k \in 1..o-1 : EndsBefore(own, k, own[k+1].lexeme[1])
      /\ \A char \in Spaces \union {"@", "NUL"} : EndsBefore(own, o, char)
  BY UnitLaid, <1>own, <1>c, <1>o, Zenon
<1>2. PICK place \in [1..o+1 -> 1..Len(c)+1] :
        /\ place[1] = 1 /\ place[o+1] = Len(c) + 1
        /\ \A k \in 1..o : /\ place[k+1] = place[k] + Len(own[k].lexeme)
                         /\ \A m \in DOMAIN own[k].lexeme : c[place[k]+m-1] = own[k].lexeme[m]
  <2>1. \E place \in [1..Len(unit.words)+1 -> 1..Len(unit.chars)+1] :
          /\ place[1] = 1 /\ place[Len(unit.words)+1] = Len(unit.chars) + 1
          /\ \A k \in 1..Len(unit.words) :
               /\ place[k+1] = place[k] + Len(unit.words[k].lexeme)
               /\ \A m \in DOMAIN unit.words[k].lexeme : unit.chars[place[k]+m-1] = unit.words[k].lexeme[m]
    BY UnitLaid, Zenon
  <2> QED BY <2>1, <1>own, <1>c, <1>o
<1>3. b \in Seq(STRING) /\ IsBlank(b) /\ IsClosed(b)
  <2>1. <<>> \in Seq(STRING) /\ IsBlank(<<>>) /\ IsClosed(<<>>)
    BY DEF IsBlank, IsClosed
  <2> QED BY <2>1, Texts
<1>4. /\ s \in Seq(STRING) /\ words \in Seq(Word) /\ Laid(s, words, at, to) /\ LastOf(words) /\ to[n] = Len(s) + 1
      /\ at \in [Nat -> Nat] /\ to \in [Nat -> Nat] /\ to[0] = 1
      /\ \A k \in DOMAIN words : Stands(s, words, at, to, k)
      /\ \A k \in DOMAIN words : k # n => to[k] <= Len(s) /\ EndsBefore(words, k, s[to[k]])
  BY <1>n DEF Draft, Laid
<1>5. PICK t : t = s \o b \o c
  OBVIOUS
<1>6. PICK both : both = words \o own
  OBVIOUS
<1>7. /\ t \in Seq(STRING) /\ Len(t) = Len(s) + Len(b) + Len(c)
      /\ \A m \in 1..Len(s) : t[m] = s[m]
      /\ \A m \in 1..Len(b) : t[Len(s) + m] = b[m]
      /\ \A m \in 1..Len(c) : t[p + m] = c[m]
  <2>1. /\ s \in Seq(STRING) /\ b \in Seq(STRING) /\ c \in Seq(STRING)
    BY <1>1, <1>3, <1>4
  <2>2. /\ s \o b \o c \in Seq(STRING) /\ Len(s \o b \o c) = Len(s) + Len(b) + Len(c)
        /\ \A m \in 1..Len(s) : (s \o b \o c)[m] = s[m]
        /\ \A m \in 1..Len(b) : (s \o b \o c)[Len(s) + m] = b[m]
        /\ \A m \in 1..Len(c) : (s \o b \o c)[Len(s) + Len(b) + m] = c[m]
    BY <2>1, Joined
  <2> QED BY <2>2, <1>p, <1>5
<1>8. /\ both \in Seq(Word) /\ Len(both) = n + o
      /\ \A k \in 1..n : both[k] = words[k]
      /\ \A k \in 1..o : both[n + k] = own[k]
  <2>1. /\ both \in Seq(Word) /\ Len(both) = n + o /\ n \in Nat
        /\ \A k \in 1..n + o : both[k] = IF k <= n THEN words[k] ELSE own[k - n]
    BY <1>1, <1>4, <1>6, <1>n, <1>o, ConcatProperties
  <2>2. ASSUME NEW k \in 1..o PROVE both[n + k] = own[k]
    <3>1. n + k \in 1..n + o /\ ~(n + k <= n) /\ (n + k) - n = k
      BY <1>1, <2>1
    <3> QED BY <2>1, <3>1
  <2>3. ASSUME NEW k \in 1..n PROVE both[k] = words[k]
    <3>1. k \in 1..n + o /\ k <= n
      BY <1>1, <2>1
    <3> QED BY <2>1, <3>1
  <2> QED BY <2>1, <2>2, <2>3
<1>9. /\ \A k \in 1..n : InQuotes(both, k) <=> InQuotes(words, k)
      /\ \A k \in 1..o : InQuotes(both, n + k) <=> InQuotes(own, k)
  BY <1>4, <1>8, <1>own, <1>n, <1>o, QuotesStay
<1>10. /\ n \in Nat /\ Len(s) \in Nat /\ Len(b) \in Nat /\ Len(c) \in Nat /\ p \in Nat
       /\ DOMAIN words = 1..n /\ DOMAIN both = 1..n + o /\ o \in Nat \ {0}
       /\ \A k \in 1..o + 1 : place[k] \in Nat \ {0} /\ place[k] <= Len(c) + 1
  <2>1. n \in Nat /\ Len(s) \in Nat /\ Len(b) \in Nat /\ Len(c) \in Nat /\ o \in Nat \ {0}
    <3>1. words \in Seq(Word) /\ s \in Seq(STRING) /\ b \in Seq(STRING) /\ c \in Seq(STRING)
      BY <1>1, <1>3, <1>4
    <3>2. o \in Nat \ {0}
      BY <1>1
    <3> QED BY <3>1, <3>2, <1>n
  <2>2. p \in Nat
    BY <2>1, <1>p
  <2>3. DOMAIN words = 1..n /\ DOMAIN both = 1..n + o
    BY <1>4, <1>8, <1>n
  <2> QED BY <1>2, <2>1, <2>2, <2>3
<1> DEFINE at2 == [k \in Nat |-> IF k \in 1..n THEN at[k] ELSE IF k \in n+1..n+o THEN p + place[k - n] ELSE 0]
           to2 == [k \in Nat |-> IF k \in 0..n THEN to[k] ELSE IF k \in n+1..n+o THEN p + place[k - n + 1] ELSE 0]
<1>11. at2 \in [Nat -> Nat] /\ to2 \in [Nat -> Nat]
  <2>1. ASSUME NEW k \in n+1..n+o PROVE p + place[k - n] \in Nat /\ p + place[k - n + 1] \in Nat
    <3>0. n \in Nat /\ o \in Nat
      BY <1>10
    <3>1. k - n \in 1..o+1 /\ k - n + 1 \in 1..o+1
      BY <3>0
    <3> QED BY <1>10, <3>1
  <2> QED BY <1>4, <1>10, <2>1
<1>12. /\ \A k \in 1..n : at2[k] = at[k]
       /\ \A k \in 0..n : to2[k] = to[k]
  BY <1>10
<1>13. ASSUME NEW k \in 1..o
       PROVE  at2[n + k] = p + place[k] /\ to2[n + k] = p + place[k + 1]
  <2>0. n \in Nat /\ o \in Nat
    BY <1>10
  <2>1. n + k \in Nat /\ n + k \in n+1..n+o /\ n + k \notin 0..n /\ (n + k) - n = k /\ (n + k) - n + 1 = k + 1
    BY <2>0
  <2> QED BY <2>1
<1> HIDE DEF at2, to2
(* The words before stand where they stood. *)
<1>14. \A k \in 1..o : IsWord(both, n + k) /\ \A char : EndsBefore(both, n + k, char) <=> EndsBefore(own, k, char)
  <2> TAKE k \in 1..o
  <2>1. both[n + k] = own[k] /\ (InQuotes(both, n + k) <=> InQuotes(own, k))
    BY <1>8, <1>9
  <2>2. IsWord(own, k)
    BY <1>1
  <2> QED BY <2>1, <2>2, SameWord
<1>15. ASSUME NEW k \in 1..n
       PROVE  /\ Stands(t, both, at2, to2, k)
              /\ \A char : EndsBefore(both, k, char) <=> EndsBefore(words, k, char)
  <2>1. both[k] = words[k] /\ (InQuotes(both, k) <=> InQuotes(words, k))
    BY <1>8, <1>9
  <2>2. Stands(s, words, at, to, k)
    BY <1>4, <1>10
  <2>3. /\ IsWord(words, k) /\ Spelled(s, at[k], words[k].lexeme)
        /\ at[k] >= to[k-1] /\ to[k] = at[k] + Len(words[k].lexeme)
        /\ Blank(s, to[k-1], at[k]) /\ Closed(s, to[k-1], at[k])
    BY <2>2 DEF Stands
  <2>4. /\ k-1 \in 0..n /\ k \in 0..n /\ at2[k] = at[k] /\ to2[k] = to[k] /\ to2[k-1] = to[k-1]
    BY <1>10, <1>12
  <2>5. IsWord(both, k) /\ \A char : EndsBefore(both, k, char) <=> EndsBefore(words, k, char)
    BY <2>1, <2>3, SameWord
  <2>6. to[k-1] \in Nat \ {0} /\ at[k] \in Nat \ {0} /\ at[k] <= Len(s) + 1
    <3>1. k \in DOMAIN words
      BY <1>10
    <3> QED BY <1>4, <3>1, PlacesPositive
  <2>7. words[k].lexeme \in Seq(STRING)
    <3>1. words[k] \in Word
      BY <1>4, <1>10
    <3> QED BY <3>1 DEF Word
  <2>8. Len(s) <= Len(t)
    BY <1>7, <1>10
  <2>9. Spelled(t, at[k], words[k].lexeme)
    BY <1>4, <1>7, <2>3, <2>6, <2>7, <2>8, StaysWritten
  <2>10. Blank(t, to[k-1], at[k]) /\ Closed(t, to[k-1], at[k])
    BY <1>4, <1>7, <2>3, <2>6, <2>8, StaysWritten
  <2> QED BY <2>1, <2>3, <2>4, <2>5, <2>9, <2>10 DEF Stands
<1>16. ASSUME NEW k \in 1..o PROVE Stands(t, both, at2, to2, n + k)
  <2>1. at2[n + k] = p + place[k] /\ to2[n + k] = p + place[k + 1]
    BY <1>13
  <2>2. both[n + k] = own[k] /\ IsWord(both, n + k)
    BY <1>8, <1>14
  <2>3. PICK w : w = own[k].lexeme
    OBVIOUS
  <2>4. place[k+1] = place[k] + Len(w) /\ (\A m \in DOMAIN w : c[place[k]+m-1] = w[m]) /\ w \in Seq(STRING)
    BY <1>1, <1>2, <2>3
  <2>5. place[k] \in Nat \ {0} /\ place[k+1] \in Nat /\ place[k+1] <= Len(c) + 1
    <3>1. k \in 1..o+1 /\ k+1 \in 1..o+1
      BY <1>10
    <3> QED BY <1>10, <3>1
  <2>9. Spelled(c, place[k], w)
    BY <2>4, <2>5 DEF Spelled
  <2>10. Spelled(t, at2[n + k], w)
    <3>1. Len(t) = p + Len(c)
      BY <1>7, <1>10, <1>p
    <3>2. Spelled(t, p + place[k], w)
      BY <1>1, <1>7, <1>10, <2>4, <2>5, <2>9, <3>1, SpelledPut
    <3> QED BY <2>1, <3>2
  <2>11. to2[n + k] = at2[n + k] + Len(w)
    <3>1. PICK l : l = Len(w)
      OBVIOUS
    <3>2. l \in Nat
      BY <2>4, <3>1
    <3> QED BY <1>10, <2>1, <2>4, <2>5, <3>1, <3>2
  <2>6. to2[n + k] = at2[n + k] + Len(own[k].lexeme) /\ Spelled(t, at2[n + k], own[k].lexeme)
    BY <2>3, <2>10, <2>11
  <2>7. CASE k = 1
    <3>1. (n + k) - 1 = n /\ n \in 0..n
      BY <1>10, <2>7
    <3>2. to2[(n + k) - 1] = Len(s) + 1 /\ at2[n + k] = p + 1
      BY <1>2, <1>4, <1>12, <2>1, <2>7, <3>1
    <3>3. Blank(t, Len(s) + 1, p + 1) /\ Closed(t, Len(s) + 1, p + 1)
      BY <1>3, <1>7, <1>10, <1>p, SeparatorPut
    <3>4. at2[n + k] >= to2[(n + k) - 1]
      BY <1>10, <1>p, <3>2
    <3> QED BY <2>2, <2>6, <3>2, <3>3, <3>4 DEF Stands
  <2>8. CASE k # 1
    <3>1. k-1 \in 1..o /\ (n + k) - 1 = n + (k-1) /\ (k-1) + 1 = k
      BY <1>10, <2>8
    <3>2. to2[n + (k-1)] = p + place[(k-1) + 1]
      BY <1>13, <3>1
    <3>3. to2[(n + k) - 1] = at2[n + k] /\ at2[n + k] \in Nat
      BY <1>10, <2>1, <2>5, <3>1, <3>2
    <3>4. Blank(t, at2[n + k], at2[n + k]) /\ Closed(t, at2[n + k], at2[n + k])
      BY <3>3 DEF Blank, Closed
    <3> QED BY <2>2, <2>6, <3>3, <3>4 DEF Stands
  <2> QED BY <2>7, <2>8
<1>17. Laid(t, both, at2, to2)
  <2>1. to2[0] = 1
    <3>1. 0 \in 0..n
      BY <1>10
    <3> QED BY <1>4, <1>12, <3>1
  <2>2. ASSUME NEW k \in DOMAIN both PROVE Stands(t, both, at2, to2, k)
    <3>1. CASE k \in 1..n
      BY <1>15, <3>1
    <3>2. CASE k \notin 1..n
      <4>1. PICK j : j = k - n
        OBVIOUS
      <4>2. j \in 1..o /\ k = n + j
        BY <1>10, <3>2, <4>1
      <4> QED BY <1>16, <4>2
    <3> QED BY <3>1, <3>2
  <2> QED BY <1>11, <2>1, <2>2 DEF Laid
<1>18. to2[Len(both)] = Len(t) + 1
  <2>1. o \in 1..o
    BY <1>10
  <2>2. to2[n + o] = p + place[o + 1]
    BY <1>13, <2>1
  <2>3. Len(both) = n + o /\ place[o + 1] = Len(c) + 1 /\ Len(t) = p + Len(c)
    BY <1>2, <1>7, <1>8, <1>10, <1>p
  <2> QED BY <1>10, <2>2, <2>3
<1>19. LastOf(both)
  <2>1. o \in 1..o
    BY <1>10
  <2>2. both[n + o] = own[o] /\ (InQuotes(both, n + o) <=> InQuotes(own, o)) /\ Len(both) = n + o
    BY <1>8, <1>9, <2>1
  <2> QED BY <2>2, <1>own, <1>o DEF LastOf
(* What follows a word is what ends it.                                    *)
<1>20. ASSUME NEW k \in 1..n, k # n
       PROVE  to2[k] <= Len(t) /\ EndsBefore(both, k, t[to2[k]])
  <2>1. to2[k] = to[k] /\ k \in DOMAIN words /\ k+1 \in DOMAIN words /\ (k+1) - 1 = k
    BY <1>10, <1>12, <1>20
  <2>2. to[k] <= Len(s) /\ EndsBefore(words, k, s[to[k]])
    BY <1>4, <1>20, <2>1
  <2>3. to[k] \in Nat \ {0}
    <3>1. PICK next : next = k+1
      OBVIOUS
    <3>2. next \in DOMAIN words /\ next - 1 = k
      BY <2>1, <3>1
    <3>3. to[next - 1] \in Nat \ {0}
      BY <1>4, <3>2, PlacesPositive
    <3> QED BY <3>2, <3>3
  <2>4. t[to[k]] = s[to[k]]
    BY <1>7, <1>10, <2>2, <2>3
  <2>5. to[k] <= Len(t)
    BY <1>7, <1>10, <2>2, <2>3
  <2> QED BY <1>15, <2>1, <2>2, <2>4, <2>5
<1>21. ASSUME NEW k \in 1..o, k # o
       PROVE  to2[n + k] <= Len(t) /\ EndsBefore(both, n + k, t[to2[n + k]])
  <2>1. PICK next : next = k+1
    OBVIOUS
  <2>2. next \in 1..o /\ k \in 1..o-1
    BY <1>10, <1>21, <2>1
  <2>3. EndsBefore(own, k, own[next].lexeme[1])
    BY <1>1, <2>1, <2>2
  <2>4. Stands(t, both, at2, to2, n + next)
    BY <1>16, <2>2
  <2>5. Spelled(t, p + place[next], own[next].lexeme)
    <3>1. both[n + next] = own[next] /\ at2[n + next] = p + place[next]
      BY <1>8, <1>13, <2>2
    <3> QED BY <2>4, <3>1 DEF Stands
  <2>6. to2[n + k] = p + place[next]
    BY <1>13, <2>1
  <2>7. t[to2[n + k]] = own[next].lexeme[1] /\ to2[n + k] <= Len(t)
    <3>1. PICK i : i = p + place[next]
      OBVIOUS
    <3>2. i \in Nat
      <4>1. next \in 1..o+1
        BY <1>10, <2>2
      <4> QED BY <1>10, <3>1, <4>1
    <3>3. own[next].lexeme \in Seq(STRING) /\ own[next].lexeme # <<>>
      BY <1>1, <2>2
    <3>4. t[i] = own[next].lexeme[1] /\ i <= Len(t)
      BY <1>7, <2>5, <3>1, <3>2, <3>3, FirstOf
    <3> QED BY <2>6, <3>1, <3>4
  <2> QED BY <1>14, <2>3, <2>7
<1>22. ASSUME n # 0
       PROVE  to2[n] <= Len(t) /\ EndsBefore(both, n, t[to2[n]])
  <2>1. n \in 0..n /\ n \in 1..n
    BY <1>10, <1>22
  <2>2. to2[n] = Len(s) + 1
    BY <1>4, <1>12, <2>1
  <2>3. 1 \in 1..o /\ both[n + 1] = own[1] /\ at2[n + 1] = p + 1
    BY <1>2, <1>8, <1>10, <1>13
  <2>4. Spelled(t, p + 1, own[1].lexeme)
    <3>1. Stands(t, both, at2, to2, n + 1)
      BY <1>16, <2>3
    <3> QED BY <2>3, <3>1 DEF Stands
  <2>5. t[p + 1] = own[1].lexeme[1] /\ p + 1 <= Len(t)
    <3>1. own[1].lexeme \in Seq(STRING) /\ own[1].lexeme # <<>> /\ p + 1 \in Nat
      BY <1>1, <1>10, <2>3
    <3> QED BY <1>7, <2>4, <3>1, FirstOf
  <2>6. to2[n] <= Len(t)
    BY <1>7, <1>10, <1>p, <2>2, <2>5
  <2>7. words # <<>>
    BY <1>22, <1>n
  <2>8. PICK v \in Units : /\ words[n] = v.words[Len(v.words)]
                           /\ InQuotes(words, n) <=> InQuotes(v.words, Len(v.words))
    BY <1>4, <1>n, <2>7 DEF LastOf
  <2>9. EndsBefore(v.words, Len(v.words), t[Len(s) + 1])
    <3>1. CASE b = <<>>
      <4>1. p = Len(s)
        BY <1>10, <1>p, <3>1
      <4>2. Touch(v.words[Len(v.words)], unit.words[1])
        <5>1. Touch(words[Len(words)], unit.words[1])
          BY <2>7, <3>1
        <5>2. words[Len(words)] = v.words[Len(v.words)]
          BY <1>n, <2>8
        <5> QED BY <5>1, <5>2, Zenon
      <4>3. EndsBefore(v.words, Len(v.words), unit.words[1].lexeme[1])
        BY <4>2, Texts
      <4> QED BY <1>own, <2>5, <4>1, <4>3
    <3>2. CASE b # <<>>
      <4>1. b[1] \in Spaces \union {"@"}
        BY <1>3, <3>2, SeparatorStarts
      <4>2. 1 \in 1..Len(b)
        BY <1>3, <3>2
      <4>3. t[Len(s) + 1] = b[1]
        BY <1>7, <4>2
      <4> QED BY <4>1, <4>3, UnitLaid
    <3> QED BY <3>1, <3>2
  <2>10. EndsBefore(words, n, t[Len(s) + 1])
    <3>1. words[n] = v.words[Len(v.words)]
      BY <2>8
    <3>2. InQuotes(words, n) <=> InQuotes(v.words, Len(v.words))
      BY <2>8
    <3>3. \A char : EndsBefore(words, n, char) <=> EndsBefore(v.words, Len(v.words), char)
      BY <3>1, <3>2, SameWord
    <3> QED BY <2>9, <3>3
  <2> QED BY <1>15, <2>1, <2>2, <2>6, <2>10
<1>23. \A k \in DOMAIN both : k # Len(both) => to2[k] <= Len(t) /\ EndsBefore(both, k, t[to2[k]])
  <2> SUFFICES ASSUME NEW k \in DOMAIN both, k # Len(both)
               PROVE  to2[k] <= Len(t) /\ EndsBefore(both, k, t[to2[k]])
    OBVIOUS
  <2>1. CASE k \in 1..n /\ k # n
    BY <1>20, <2>1
  <2>2. CASE k = n
    <3>1. n # 0
      BY <1>10, <2>2
    <3> QED BY <1>22, <2>2, <3>1
  <2>3. CASE k \notin 1..n
    <3>1. PICK j : j = k - n
      OBVIOUS
    <3>2. j \in 1..o /\ k = n + j /\ j # o
      <4>1. k \in 1..n + o /\ k # n + o
        BY <1>8, <1>10
      <4>2. n \in Nat /\ o \in Nat
        BY <1>10
      <4> QED BY <2>3, <3>1, <4>1, <4>2
    <3> QED BY <1>21, <3>2
  <2> QED BY <1>10, <2>1, <2>2, <2>3
<1>24. Draft(t, both, at2, to2)
  BY <1>7, <1>8, <1>17, <1>18, <1>19, <1>23 DEF Draft
<1> QED BY <1>5, <1>6, <1>c, <1>own, <1>24

(* What may end a text ends its last word.                                 *)
LEMMA LastEnds ==
  ASSUME NEW s, NEW words, NEW at, NEW to, Draft(s, words, at, to), words # <<>>,
         NEW char \in Spaces \union {"@", "NUL"}
  PROVE  EndsBefore(words, Len(words), char)
<1>1. PICK v \in Units : /\ words[Len(words)] = v.words[Len(v.words)]
                         /\ InQuotes(words, Len(words)) <=> InQuotes(v.words, Len(v.words))
  BY DEF Draft, LastOf
<1>2. EndsBefore(v.words, Len(v.words), char)
  BY UnitLaid
<1>3. words[Len(words)] = v.words[Len(v.words)]
  BY <1>1
<1>4. InQuotes(words, Len(words)) <=> InQuotes(v.words, Len(v.words))
  BY <1>1
<1>5. \A c : EndsBefore(words, Len(words), c) <=> EndsBefore(v.words, Len(v.words), c)
  BY <1>3, <1>4, SameWord
<1> QED BY <1>2, <1>5

(* A draft and what ends it are a text.                                    *)
LEMMA Ended ==
  ASSUME NEW at, NEW to, Draft(Chars, text.words, at, to), NEW end \in Ends,
         text'.chars = Chars \o end, UNCHANGED text.words
  PROVE  Whole(at, to)'
<1>s. PICK s : s = Chars
  OBVIOUS
<1>t. PICK t : t = Chars \o end
  OBVIOUS
<1>w. PICK words : words = text.words
  OBVIOUS
<1>n. PICK n : n = Len(words)
  OBVIOUS
<1>0. Draft(s, words, at, to)
  BY <1>s, <1>w
<1>1. s \in Seq(STRING) /\ words \in Seq(Word) /\ Laid(s, words, at, to) /\ to[n] = Len(s) + 1
  BY <1>0, <1>n DEF Draft
<1>2. end \in Seq(STRING) /\ IsBlank(end)
  BY Texts
<1>3. /\ n \in Nat /\ DOMAIN words = 1..n /\ Len(s) \in Nat /\ Len(end) \in Nat
  BY <1>1, <1>2, <1>n
<1>4. /\ t \in Seq(STRING) /\ Len(t) = Len(s) + Len(end)
      /\ \A m \in 1..Len(s) : t[m] = s[m]
      /\ \A m \in 1..Len(end) : t[Len(s) + m] = end[m]
  <2>1. /\ t \in Seq(STRING) /\ Len(t) = Len(s) + Len(end)
        /\ \A m \in 1..Len(s) + Len(end) : t[m] = IF m <= Len(s) THEN s[m] ELSE end[m - Len(s)]
    BY <1>1, <1>2, <1>s, <1>t, ConcatProperties
  <2>2. ASSUME NEW m \in 1..Len(s) PROVE t[m] = s[m]
    BY <1>3, <2>1
  <2>3. ASSUME NEW m \in 1..Len(end) PROVE t[Len(s) + m] = end[m]
    <3>1. Len(s) + m \in 1..Len(s) + Len(end) /\ ~(Len(s) + m <= Len(s)) /\ (Len(s) + m) - Len(s) = m
      BY <1>3
    <3> QED BY <2>1, <3>1
  <2> QED BY <2>1, <2>2, <2>3
<1>5. Laid(t, words, at, to)
  <2>1. ASSUME NEW k \in DOMAIN words PROVE Stands(t, words, at, to, k)
    <3>1. /\ IsWord(words, k) /\ Spelled(s, at[k], words[k].lexeme)
          /\ at[k] >= to[k-1] /\ to[k] = at[k] + Len(words[k].lexeme)
          /\ Blank(s, to[k-1], at[k]) /\ Closed(s, to[k-1], at[k])
      BY <1>1 DEF Laid, Stands
    <3>2. to[k-1] \in Nat \ {0} /\ at[k] \in Nat \ {0} /\ at[k] <= Len(s) + 1
      BY <1>1, PlacesPositive
    <3>3. words[k].lexeme \in Seq(STRING)
      <4>1. words[k] \in Word
        BY <1>1
      <4> QED BY <4>1 DEF Word
    <3>4. Len(s) <= Len(t)
      BY <1>3, <1>4
    <3>5. Spelled(t, at[k], words[k].lexeme)
      BY <1>1, <1>4, <3>1, <3>2, <3>3, <3>4, StaysWritten
    <3>6. Blank(t, to[k-1], at[k]) /\ Closed(t, to[k-1], at[k])
      BY <1>1, <1>4, <3>1, <3>2, <3>4, StaysWritten
    <3> QED BY <3>1, <3>5, <3>6 DEF Stands
  <2> QED BY <1>1, <2>1 DEF Laid
<1> DEFINE There(i) == IF i \in DOMAIN t THEN t[i] ELSE "NUL"
<1>6. ASSUME NEW k \in DOMAIN words PROVE EndsBefore(words, k, There(to[k]))
  <2>1. CASE k = n
    <3>1. to[k] = Len(s) + 1
      BY <1>1, <2>1
    <3>2. There(to[k]) \in Spaces \union {"@", "NUL"}
      <4>1. CASE end = <<>>
        <5>1. Len(t) = Len(s)
          BY <1>3, <1>4, <4>1
        <5>2. to[k] \notin DOMAIN t
          BY <1>3, <1>4, <3>1, <5>1
        <5> QED BY <5>2
      <4>2. CASE end # <<>>
        <5>1. end[1] \in Spaces \union {"@"}
          BY <1>2, <4>2, SeparatorStarts
        <5>2. 1 \in 1..Len(end)
          BY <1>2, <4>2
        <5>3. t[to[k]] = end[1]
          BY <1>4, <3>1, <5>2
        <5> QED BY <5>1, <5>3
      <4> QED BY <4>1, <4>2
    <3>3. words # <<>>
      BY <1>3
    <3> HIDE DEF There
    <3> QED BY <1>0, <1>n, <2>1, <3>2, <3>3, LastEnds
  <2>2. CASE k # n
    <3>1. to[k] <= Len(s) /\ EndsBefore(words, k, s[to[k]])
      BY <1>0, <1>n, <2>2 DEF Draft
    <3>2. to[k] \in Nat \ {0}
      <4>1. PICK next : next = k+1
        OBVIOUS
      <4>2. next \in DOMAIN words /\ next - 1 = k
        BY <1>3, <2>2, <4>1
      <4>3. to[next - 1] \in Nat \ {0}
        BY <1>1, <4>2, PlacesPositive
      <4> QED BY <4>2, <4>3
    <3>3. to[k] \in 1..Len(s)
      BY <1>3, <3>1, <3>2
    <3>4. t[to[k]] = s[to[k]] /\ to[k] \in DOMAIN t
      BY <1>3, <1>4, <3>3
    <3> QED BY <3>1, <3>4
  <2> QED BY <2>1, <2>2
<1>7. to[n] <= Len(t) + 1 /\ Blank(t, to[n], Len(t) + 1)
  <2>1. Blank(t, Len(s) + 1, Len(s) + Len(end) + 1)
    BY <1>2, <1>3, <1>4, SeparatorPut
  <2> QED BY <1>1, <1>3, <1>4, <2>1
<1>8. /\ Chars' = t /\ text'.chars = t /\ text'.words = words
  BY <1>t, <1>w DEF Chars
<1>9. \A k \in DOMAIN words : At(to[k])' = There(to[k])
  BY <1>8 DEF At
<1> HIDE DEF There
<1>10. \A k \in DOMAIN words : EndsBefore(words, k, At(to[k])')
  BY <1>6, <1>9
<1> QED BY <1>1, <1>4, <1>5, <1>7, <1>8, <1>10, <1>n DEF Whole

(* What is written is laid out as words, what is scanned are those words.  *)
WordsInv ==
  /\ {"chars", "words"} \subseteq DOMAIN text
  /\ status = "writing" => tokens = <<>> /\ \E at, to : Draft(Chars, text.words, at, to)
  /\ status # "writing" => \E at, to : Scanned(at, to)

(* Nothing is written at first, and nothing is read.                       *)
LEMMA NothingWritten ==
  \E at, to : Draft(<<>>, <<>>, at, to)
<1> DEFINE ones == [k \in Nat |-> 1]
<1>1. ones \in [Nat -> Nat] /\ ones[0] = 1
  OBVIOUS
<1>2. PICK empty : empty = <<>>
  OBVIOUS
<1>3. /\ empty \in Seq(STRING) /\ empty \in Seq(Word) /\ Len(empty) = 0 /\ DOMAIN empty = {}
  BY <1>2
<1> HIDE DEF ones
<1>4. Laid(empty, empty, ones, ones)
  BY <1>1, <1>3 DEF Laid
<1>5. LastOf(empty)
  BY <1>2 DEF LastOf
<1>6. Draft(empty, empty, ones, ones)
  BY <1>1, <1>3, <1>4, <1>5 DEF Draft
<1> QED BY <1>2, <1>6

(* Before anything is written there is nothing to read.                    *)
LEMMA WordsInit == Init => WordsInv
<1> SUFFICES ASSUME Init PROVE WordsInv
  OBVIOUS
<1>1. text = [chars |-> <<>>, words |-> <<>>, units |-> 0] /\ tokens = <<>> /\ status = "writing"
  BY DEF Init
<1>2. text.chars = <<>> /\ text.words = <<>> /\ {"chars", "words"} \subseteq DOMAIN text
  BY <1>1
<1>3. \E at, to : Draft(Chars, text.words, at, to)
  BY <1>2, NothingWritten DEF Chars
<1> QED BY <1>1, <1>2, <1>3 DEF WordsInv

(* Every step of the writing and of the scan keeps the words.              *)
LEMMA WordsStep ==
  ASSUME WordsInv, [Next]_vars
  PROVE  WordsInv'
<1>1. CASE Write
  <2> DEFINE Written(blank, unit) ==
          text' = [chars |-> Chars \o blank \o unit.chars, words |-> text.words \o unit.words,
                   units |-> text.units + 1]
  <2>1. status = "writing" /\ status' = "writing" /\ tokens' = tokens
    BY <1>1 DEF Write
  <2>2. PICK unit \in Units : \E blank \in Between(unit) : Written(blank, unit)
    BY <1>1 DEF Write
  <2>3. PICK blank \in Between(unit) : Written(blank, unit)
    BY <2>2
  <2>4. /\ text'.chars = Chars \o blank \o unit.chars /\ text'.words = text.words \o unit.words
        /\ {"chars", "words"} \subseteq DOMAIN text'
    BY <2>3
  <2> HIDE DEF Written
  <2>5. PICK at, to : Draft(Chars, text.words, at, to)
    BY <2>1 DEF WordsInv
  <2>6. blank \in Separators \union {<<>>}
    BY Zenon DEF Between
  <2>7. blank = <<>> => text.words = <<>> \/ Touch(text.words[Len(text.words)], unit.words[1])
    <3>1. <<>> \notin Separators
      BY Texts
    <3> QED BY <3>1 DEF Between
  <2>8. \E at2, to2 : Draft(Chars \o blank \o unit.chars, text.words \o unit.words, at2, to2)
    <3>1. PICK s : s = Chars
      OBVIOUS
    <3>2. PICK words : words = text.words
      OBVIOUS
    <3>3. /\ Draft(s, words, at, to)
          /\ blank = <<>> => words = <<>> \/ Touch(words[Len(words)], unit.words[1])
      BY <2>5, <2>7, <3>1, <3>2
    <3>4. \E at2, to2 : Draft(s \o blank \o unit.chars, words \o unit.words, at2, to2)
      BY <2>6, <3>3, Extended
    <3> QED BY <3>1, <3>2, <3>4
  <2>9. \E at2, to2 : Draft(Chars', text'.words, at2, to2)
    BY <2>4, <2>8 DEF Chars
  <2> QED BY <2>1, <2>4, <2>9 DEF WordsInv
<1>2. CASE WriteEnd
  <2>1. PICK end \in Ends : text' = [text EXCEPT !.chars = @ \o end]
    BY <1>2 DEF WriteEnd
  <2>2. status = "writing" /\ status' = "written" /\ tokens' = tokens
    BY <1>2 DEF WriteEnd
  <2>3. /\ text'.chars = Chars \o end /\ text'.words = text.words /\ DOMAIN text' = DOMAIN text
    BY <2>1 DEF WordsInv, Chars
  <2>4. tokens = <<>> /\ \E at, to : Draft(Chars, text.words, at, to)
    BY <2>2 DEF WordsInv
  <2>5. PICK at, to : Draft(Chars, text.words, at, to)
    BY <2>4
  <2>6. Whole(at, to)'
    BY <2>3, <2>5, Ended
  <2>7. IsSequence(tokens)' /\ Len(tokens') = 0
    BY <2>2, <2>4 DEF IsSequence
  <2>8. \A k \in DOMAIN text'.words : ~(k <= Len(tokens'))
    BY <2>6, <2>7 DEF Whole
  <2>9. Scanned(at, to)'
    BY <2>2, <2>4, <2>6, <2>7, <2>8 DEF Scanned
  <2> QED BY <2>2, <2>3, <2>9 DEF WordsInv
<1>3. CASE status = "writing" /\ ~Write /\ ~WriteEnd
  <2>1. UNCHANGED vars
    BY <1>3 DEF Next, Begin, ScanNumber, ScanOperator, ScanName, EndOfText, Scanning
  <2> QED BY <1>3, <2>1 DEF vars, WordsInv, Chars
<1>4. CASE status # "writing"
  <2>1. PICK at, to : Scanned(at, to)
    BY <1>4 DEF WordsInv
  <2>2. Scanned(at, to)' /\ status' # "writing"
    BY <1>4, <2>1, ScanStep
  <2>3. text' = text
    BY <1>4 DEF Next, Write, WriteEnd, Begin, ScanNumber, ScanOperator, ScanName, EndOfText, Scanning, vars
  <2> QED BY <2>2, <2>3 DEF WordsInv
<1> QED BY <1>1, <1>2, <1>3, <1>4

(* Whatever the vocabulary, the text and the sizes asked for: a text that  *)
(* is read without an error gives the words it was written as, in order,   *)
(* and the end of file (lexicalAnalysis, findOperator, readLexemToBuffer). *)
THEOREM TokensAreTheWords == Spec => []TokensAreWords
<1>1. WordsInv => TokensAreWords
  <2> SUFFICES ASSUME WordsInv, Succeeded
               PROVE  /\ Len(tokens) = Len(text.words) + 1
                      /\ \A k \in DOMAIN text.words :
                           [type |-> tokens[k].type, op |-> tokens[k].op, lexeme |-> tokens[k].lexeme]
                             = text.words[k]
    BY DEF TokensAreWords
  <2>1. status = "FRONTEND_SUCCESS"
    BY DEF Succeeded
  <2>2. PICK at, to : Scanned(at, to)
    BY <2>1 DEF WordsInv
  <2>3. /\ Len(tokens) = Len(text.words) + 1 /\ text.words \in Seq(Word)
        /\ \A k \in DOMAIN text.words : k <= Len(tokens) => Matches(tokens[k], text.words[k])
    BY <2>1, <2>2 DEF Scanned, Whole
  <2>4. ASSUME NEW k \in DOMAIN text.words
        PROVE  [type |-> tokens[k].type, op |-> tokens[k].op, lexeme |-> tokens[k].lexeme] = text.words[k]
    <3>1. PICK word : word = text.words[k]
      OBVIOUS
    <3>2. word \in Word
      BY <2>3, <3>1
    <3>3. word = [type |-> word.type, op |-> word.op, lexeme |-> word.lexeme]
      BY <3>2 DEF Word
    <3>4. k <= Len(tokens)
      BY <2>3
    <3>5. tokens[k].type = word.type /\ tokens[k].op = word.op /\ tokens[k].lexeme = word.lexeme
      BY <2>3, <3>1, <3>4 DEF Matches
    <3> QED BY <3>1, <3>3, <3>5
  <2> QED BY <2>3, <2>4
<1> QED BY <1>1, WordsInit, WordsStep, PTL DEF Spec

(* A text is refused for the number of its words only if they do not fit   *)
(* into the array of tokens with the end of file (nextToken).              *)
THEOREM RefusalsAreRight == Spec => []RefusesOnlyTooLong
<1>1. WordsInv /\ TablesFit => RefusesOnlyTooLong
  <2> SUFFICES ASSUME WordsInv, TablesFit, status = "FRONTEND_MEMORY_ERROR"
               PROVE  Len(text.words) + 1 > MaxTokens
    BY DEF RefusesOnlyTooLong, TablesFit
  <2> QED BY DEF WordsInv, Scanned
<1> QED BY <1>1, WordsInit, WordsStep, TablesNeverOverflow, PTL DEF Spec

=============================================================================

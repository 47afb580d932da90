------------------------ MODULE ArgvProcessor_proofs ------------------------
(***************************************************************************)
(* Proofs about ArgvProcessor, for every set of registered options and     *)
(* every set of command lines.                                             *)
(***************************************************************************)
EXTENDS ArgvProcessor, FiniteSetTheorems, WellFoundedInduction, TLAPS

(* The inductive invariant.  Inside a word of letters, the words taken so  *)
(* far are as many as the letters scanned are owed, and all of them are    *)
(* there; between words, everything named before the next word has been    *)
(* given its value.                                                        *)
Counted ==
  /\ i \in 1..Len(argv) + 1
  /\ letter = 0 => values = 0
  /\ letter > 0 => i <= Len(argv) /\ Word.form = "short"
  /\ i <= Len(argv) /\ Word.form = "short" =>
       letter <= Len(Word.letters) /\ values = OwedUpTo(Word, letter)
  /\ values > 0 => i + values <= Len(argv)

IInv ==
  /\ argv \in Seq(CommandWords)
  /\ i \in Nat /\ letter \in Nat /\ values \in Nat
  /\ status \in {"scanning", "ARGV_SUCCESS", "ARGV_ERROR", "ARGV_HELP_MSG"}
  /\ i \in 1..Len(argv) + 1
  /\ status = "scanning" => Counted
  /\ OnNoValue

-----------------------------------------------------------------------------
(* At most one option has a name. *)
LEMMA OneFullMatch ==
  ASSUME NEW word, NEW d \in FullMatches(word), NEW e \in FullMatches(word)
  PROVE  d = e
  BY RegisteredAssumption DEF FullMatches, Options

LEMMA OneShortMatch ==
  ASSUME NEW char, NEW d \in ShortMatches(char), NEW e \in ShortMatches(char)
  PROVE  d = e
  BY RegisteredAssumption DEF ShortMatches, Options

(* How many values the first n names of a word are owed. *)
LEMMA OwedCounts ==
  ASSUME NEW word, NEW n \in Nat
  PROVE  /\ IsFiniteSet({k \in 1..n : \E d \in NamedAt(word, k) : HasValue(d)})
         /\ OwedUpTo(word, n) \in Nat
<1>1. IsFiniteSet(1..n)
  BY FS_Interval
<1>2. {k \in 1..n : \E d \in NamedAt(word, k) : HasValue(d)} \subseteq 1..n
  OBVIOUS
<1> QED
  BY <1>1, <1>2, FS_Subset, FS_CardinalityType DEF OwedUpTo

LEMMA NothingOwed == ASSUME NEW word PROVE OwedUpTo(word, 0) = 0
<1>1. {k \in 1..0 : \E d \in NamedAt(word, k) : HasValue(d)} = {}
  OBVIOUS
<1> QED
  BY <1>1, FS_EmptySet DEF OwedUpTo

LEMMA OneMoreName ==
  ASSUME NEW word, NEW n \in Nat, NEW d, NamedAt(word, n + 1) = {d}
  PROVE  OwedUpTo(word, n + 1) = OwedUpTo(word, n) + Owed(d)
<1> DEFINE S(m) == {k \in 1..m : \E e \in NamedAt(word, k) : HasValue(e)}
<1>1. IsFiniteSet(S(n)) /\ OwedUpTo(word, n) = Cardinality(S(n)) /\ OwedUpTo(word, n) \in Nat
      /\ OwedUpTo(word, n + 1) = Cardinality(S(n + 1))
  BY OwedCounts DEF OwedUpTo
<1>2. n + 1 \notin S(n)
  OBVIOUS
<1>3. CASE HasValue(d)
  <2>1. S(n + 1) = S(n) \union {n + 1}
    <3>1. \A k \in 1..n+1 : k \in 1..n \/ k = n + 1
      OBVIOUS
    <3>2. \E e \in NamedAt(word, n + 1) : HasValue(e)
      BY <1>3
    <3> QED
      BY <3>1, <3>2
  <2>2. Cardinality(S(n) \union {n + 1}) = Cardinality(S(n)) + 1
    BY <1>1, <1>2, FS_AddElement
  <2> QED
    BY <1>1, <1>3, <2>1, <2>2 DEF Owed
<1>4. CASE ~HasValue(d)
  <2>1. S(n + 1) = S(n)
    <3>1. \A k \in 1..n+1 : k \in 1..n \/ k = n + 1
      OBVIOUS
    <3>2. ~ \E e \in NamedAt(word, n + 1) : HasValue(e)
      BY <1>4
    <3> QED
      BY <3>1, <3>2
  <2>2. OwedUpTo(word, n + 1) = OwedUpTo(word, n)
    BY <1>1, <2>1
  <2>3. Owed(d) = 0
    BY <1>4 DEF Owed
  <2> HIDE DEF S
  <2> QED
    BY <1>1, <2>2, <2>3
<1> QED
  BY <1>3, <1>4

-----------------------------------------------------------------------------
(* The scan moves on from a word, over the values the word is owed: it is  *)
(* again on a word that is no value, with nothing reaching beyond it.      *)
LEMMA MovesOn ==
  ASSUME NEW line \in Seq(CommandWords), NEW p \in 1..Len(line), NEW n \in Nat,
         n = Owes(line[p]), p + n <= Len(line),
         NEW V \in SUBSET DOMAIN line, AreValues(line, V), p \notin V,
         \A q \in (1..p-1) \ V : q + Owes(line[q]) < p
  PROVE  /\ p + 1 + n \notin V
         /\ \A q \in (1..p+n) \ V : q + Owes(line[q]) < p + 1 + n
<1>1. DOMAIN line = 1..Len(line) /\ Len(line) \in Nat
  OBVIOUS
<1>2. \A q \in 1..Len(line) : Owes(line[q]) \in Nat
  <2> TAKE q \in 1..Len(line)
  <2>1. line[q] \in CommandWords
    BY <1>1
  <2>2. Names(line[q]) \in Nat
    BY <2>1 DEF Names, CommandWords
  <2> QED
    BY <2>2, OwedCounts DEF Owes
<1>3. \A q \in p+1..p+n : q \in V
  <2> TAKE q \in p+1..p+n
  <2>1. q \in DOMAIN line /\ p \in (1..q-1) \ V /\ q <= p + Owes(line[p])
    BY <1>1
  <2> QED
    BY <2>1 DEF AreValues
<1>4. \A q \in (1..p+n) \ V : q + Owes(line[q]) < p + 1 + n
  <2> TAKE q \in (1..p+n) \ V
  <2>1. q <= p
    BY <1>3
  <2>2. CASE q = p
    BY <2>2
  <2>3. CASE q < p
    <3>1. q + Owes(line[q]) < p /\ Owes(line[q]) \in Nat
      BY <2>3, <1>2
    <3> QED
      BY <3>1
  <2> QED
    BY <2>1, <2>2, <2>3
<1>5. p + 1 + n \notin V
  <2> SUFFICES ASSUME p + 1 + n \in V PROVE FALSE
    OBVIOUS
  <2>1. p + 1 + n \in DOMAIN line
    OBVIOUS
  <2>2. PICK q \in (1..(p + 1 + n)-1) \ V : p + 1 + n <= q + Owes(line[q])
    BY <2>1 DEF AreValues
  <2>3. q \in (1..p+n) \ V /\ q \in 1..Len(line)
    BY <2>2, <1>1
  <2>4. q + Owes(line[q]) < p + 1 + n /\ Owes(line[q]) \in Nat
    BY <2>3, <1>2, <1>4
  <2> QED
    BY <2>2, <2>3, <2>4
<1> QED
  BY <1>4, <1>5

-----------------------------------------------------------------------------
LEMMA InitInvariant == ArgvInit => IInv
<1> SUFFICES ASSUME ArgvInit PROVE IInv
  OBVIOUS
<1>1. argv \in Seq(CommandWords) /\ i = 1 /\ letter = 0 /\ values = 0 /\ status = "scanning"
  BY LinesAssumption DEF ArgvInit
<1>2. Counted
  <2>1. OwedUpTo(Word, 0) = 0
    BY NothingOwed
  <2>2. i <= Len(argv) /\ Word.form = "short" => Len(Word.letters) \in Nat
    BY <1>1 DEF Word, CommandWords
  <2> QED
    BY <1>1, <2>1, <2>2 DEF Counted
<1>3. OnNoValue
  BY <1>1 DEF OnNoValue, AreValues
<1> QED
  BY <1>1, <1>2, <1>3 DEF IInv

(* What the step to the next word keeps, whatever the word was. *)
LEMMA ToNextWord ==
  ASSUME IInv, status = "scanning", i <= Len(argv),
         NEW n \in Nat, n = Owes(Word), i + n <= Len(argv),
         argv' = argv, status' = status, i' = i + 1 + n, letter' = 0, values' = 0
  PROVE  IInv'
<1>1. argv \in Seq(CommandWords) /\ Counted /\ i \in 1..Len(argv)
  BY DEF IInv
<1>2. Counted'
  <2>1. OwedUpTo(Word', 0) = 0
    BY NothingOwed
  <2>2. i' <= Len(argv) => argv[i'] \in CommandWords
    BY <1>1
  <2>3. i' <= Len(argv) /\ argv[i'].form = "short" => Len(argv[i'].letters) \in Nat
    BY <2>2 DEF CommandWords
  <2>4. Word' = argv[i']
    BY DEF Word
  <2> QED
    BY <1>1, <2>1, <2>3, <2>4 DEF Counted
<1>3. OnNoValue'
  <2> SUFFICES ASSUME NEW V \in SUBSET DOMAIN argv, AreValues(argv, V)
               PROVE  /\ i' \notin V
                      /\ \A q \in (1..i'-1) \ V : q + Owes(argv[q]) < i'
    BY DEF OnNoValue
  <2>1. i \notin V /\ \A q \in (1..i-1) \ V : q + Owes(argv[q]) < i
    BY DEF IInv, OnNoValue
  <2>2. n = Owes(argv[i])
    BY DEF Word
  <2>3. /\ i + 1 + n \notin V
        /\ \A q \in (1..i+n) \ V : q + Owes(argv[q]) < i + 1 + n
    BY <1>1, <2>1, <2>2, MovesOn
  <2>4. i' - 1 = i + n
    BY <1>1
  <2> QED
    BY <2>3, <2>4
<1> QED
  BY <1>1, <1>2, <1>3 DEF IInv

(* The end of the scan claims nothing of the words. *)
LEMMA Stopping ==
  ASSUME IInv, UNCHANGED <<argv, i, letter, values>>,
         status' \in {"ARGV_SUCCESS", "ARGV_ERROR", "ARGV_HELP_MSG"}
  PROVE  IInv'
  BY DEF IInv, OnNoValue

LEMMA NextInvariant == IInv /\ [ProcessArgs]_argvVars => IInv'
<1> SUFFICES ASSUME IInv, [ProcessArgs]_argvVars PROVE IInv'
  OBVIOUS
<1>1. CASE KeepDefault
  <2>1. status = "scanning" /\ i <= Len(argv) /\ Word.form = "plain" /\ i' = i + 1
        /\ argv' = argv /\ status' = status /\ letter' = letter /\ values' = values
    BY <1>1 DEF KeepDefault, ScanningA
  <2>2. letter = 0 /\ values = 0
    BY <2>1 DEF IInv, Counted
  <2>3. Owes(Word) = 0
    BY <2>1, NothingOwed DEF Owes, Names
  <2> QED
    BY <2>1, <2>2, <2>3, ToNextWord DEF IInv
<1>2. CASE ScanFullArgument
  <2>1. status = "scanning" /\ i <= Len(argv) /\ Word.form = "full"
    BY <1>2 DEF ScanFullArgument, ScanningA
  <2>2. letter = 0 /\ values = 0
    BY <2>1 DEF IInv, Counted
  <2>3. CASE WrongFormat
    BY <2>3, Stopping DEF WrongFormat
  <2>4. CASE ~WrongFormat
    <3>1. PICK desc \in FullMatches(Word) :
            /\ ~NoParameter(desc) /\ i' = i + 1 + Owed(desc)
            /\ UNCHANGED <<argv, letter, values, status>>
      BY <1>2, <2>4 DEF ScanFullArgument
    <3>2. NamedAt(Word, 1) = {desc}
      BY <2>1, <3>1, OneFullMatch DEF NamedAt
    <3>3. OwedUpTo(Word, 0 + 1) = OwedUpTo(Word, 0) + Owed(desc)
      BY <3>2, OneMoreName
    <3>4. Owed(desc) \in Nat /\ Owes(Word) = Owed(desc)
      BY <2>1, <3>3, NothingOwed DEF Owes, Names, Owed
    <3>5. i + Owed(desc) <= Len(argv)
      BY <2>1, <2>2, <3>1 DEF NoParameter, ValueAt, Owed, IInv
    <3> QED
      BY <2>1, <2>2, <3>1, <3>4, <3>5, ToNextWord
  <2> QED
    BY <2>3, <2>4
<1>3. CASE ScanLetter
  <2>1. status = "scanning" /\ i <= Len(argv) /\ Word.form = "short" /\ letter < Len(Word.letters)
    BY <1>3 DEF ScanLetter, ScanningA
  <2>2. CASE WrongFormat
    BY <2>2, Stopping DEF WrongFormat
  <2>3. CASE ~WrongFormat
    <3>1. PICK desc \in ShortMatches(Word.letters[letter + 1]) :
            /\ ~NoParameter(desc) /\ letter' = letter + 1 /\ values' = values + Owed(desc)
            /\ UNCHANGED <<argv, i, status>>
      BY <1>3, <2>3 DEF ScanLetter
    <3>2. argv \in Seq(CommandWords) /\ i \in 1..Len(argv) /\ letter \in Nat /\ values \in Nat
          /\ Counted
      BY <2>1 DEF IInv
    <3>3. Len(Word.letters) \in Nat
      BY <3>2 DEF Word, CommandWords
    <3>4. NamedAt(Word, letter + 1) = {desc}
      BY <2>1, <3>1, <3>2, <3>3, OneShortMatch DEF NamedAt
    <3>5. OwedUpTo(Word, letter + 1) = OwedUpTo(Word, letter) + Owed(desc)
      BY <3>2, <3>4, OneMoreName
    <3>6. Owed(desc) \in Nat
      BY DEF Owed
    <3>7. values' > 0 => i + values' <= Len(argv)
      BY <3>1, <3>2 DEF Counted, NoParameter, ValueAt, Owed
    <3>8. Counted'
      <4>1. Word' = Word
        BY <3>1 DEF Word
      <4>2. values = OwedUpTo(Word, letter)
        BY <2>1, <3>2 DEF Counted
      <4>3. values' = OwedUpTo(Word, letter')
        BY <3>1, <3>5, <4>2
      <4> QED
        BY <2>1, <3>1, <3>2, <3>3, <3>7, <4>1, <4>3 DEF Counted
    <3>9. OnNoValue'
      BY <3>1 DEF IInv, OnNoValue
    <3> QED
      BY <3>1, <3>2, <3>6, <3>8, <3>9 DEF IInv
  <2> QED
    BY <2>2, <2>3
<1>4. CASE EndShortArguments
  <2>1. status = "scanning" /\ i <= Len(argv) /\ Word.form = "short" /\ letter = Len(Word.letters)
        /\ i' = i + values + 1 /\ letter' = 0 /\ values' = 0 /\ UNCHANGED <<argv, status>>
    BY <1>4 DEF EndShortArguments, ScanningA
  <2>2. values \in Nat /\ i \in Nat /\ Counted
    BY <2>1 DEF IInv
  <2>3. Owes(Word) = values
    BY <2>1, <2>2 DEF Counted, Owes, Names
  <2>4. i + values <= Len(argv)
    BY <2>1, <2>2 DEF Counted
  <2>5. i' = i + 1 + values
    BY <2>1, <2>2
  <2> QED
    BY <2>1, <2>2, <2>3, <2>4, <2>5, ToNextWord
<1>5. CASE EndArgs
  BY <1>5, Stopping DEF EndArgs
<1>6. CASE UNCHANGED argvVars
  BY <1>6 DEF argvVars, IInv, Counted, OnNoValue, Word
<1> QED
  BY <1>1, <1>2, <1>3, <1>4, <1>5, <1>6 DEF ProcessArgs

(* The scan is never on a word that is some option's value and never leaves *)
(* a value behind unread, for every table of options and every command line.*)
THEOREM NeverOnAValue == ArgvSpec => []OnNoValue
<1>1. ArgvInit => IInv
  BY InitInvariant
<1>2. IInv /\ [ProcessArgs]_argvVars => IInv'
  BY NextInvariant
<1>3. IInv => OnNoValue
  BY DEF IInv
<1> QED
  BY <1>1, <1>2, <1>3, PTL DEF ArgvSpec

-----------------------------------------------------------------------------
(* Some smallest number is in a set of natural numbers. *)
LEMMA LeastExists ==
  ASSUME NEW S \in SUBSET Nat, S # {}
  PROVE  \E least \in S : \A n \in S : least <= n
<1> DEFINE Less == OpToRel(<, Nat)
<1>1. PICK least \in S : \A n \in S : <<n, least>> \notin Less
  <2>1. IsWellFoundedOn(Less, Nat)
    BY NatLessThanWellFounded
  <2> HIDE DEF Less
  <2> QED
    BY <2>1, WFMin
<1>2. ASSUME NEW n \in S, n < least PROVE FALSE
  <2>1. <<n, least>> \in {pair \in Nat \X Nat : pair[1] < pair[2]}
    BY <1>2
  <2> QED
    BY <1>1, <2>1, Zenon DEF OpToRel
<1>3. least \in Nat /\ \A n \in S : n \in Nat
  OBVIOUS
<1> QED
  BY <1>2, <1>3

(* Which words of a line are values is settled word after word, so there   *)
(* is such a set for every line.                                           *)
ValuesUpTo(line, V, n) ==
  \A p \in 1..n : p \in V <=> \E q \in (1..p-1) \ V : p <= q + Owes(line[q])

LEMMA ValuesExist ==
  ASSUME NEW line \in Seq(CommandWords)
  PROVE  Values(line) \in SUBSET DOMAIN line /\ AreValues(line, Values(line))
<1> DEFINE Bad == {n \in Nat : ~ \E V \in SUBSET (1..n) : ValuesUpTo(line, V, n)}
<1>1. Bad = {}
  <2> SUFFICES ASSUME Bad # {} PROVE FALSE
    OBVIOUS
  <2>1. PICK n \in Bad : \A m \in Bad : n <= m
    <3>1. Bad \in SUBSET Nat
      OBVIOUS
    <3> HIDE DEF Bad
    <3> QED
      BY <3>1, LeastExists
  <2>2. n \in Nat /\ ~ \E V \in SUBSET (1..n) : ValuesUpTo(line, V, n)
    OBVIOUS
  <2>3. n > 0
    <3>1. ValuesUpTo(line, {}, 0)
      BY DEF ValuesUpTo
    <3> QED
      BY <2>2, <3>1
  <2>4. PICK V \in SUBSET (1..n-1) : ValuesUpTo(line, V, n - 1)
    <3>1. n - 1 \in Nat /\ ~ (n <= n - 1)
      BY <2>2, <2>3
    <3>2. n - 1 \notin Bad
      BY <2>1, <3>1
    <3> QED
      BY <3>1, <3>2
  <2> HIDE DEF Bad
  <2> DEFINE reached == \E q \in (1..n-1) \ V : n <= q + Owes(line[q])
             W == IF reached THEN V \union {n} ELSE V
  <2>5. \A p \in 1..n-1 : p \in W <=> p \in V
    BY <2>2
  <2>6. W \in SUBSET (1..n) /\ (n \in W <=> reached)
    BY <2>2, <2>3
  <2> HIDE DEF W
  <2>7. \A p \in 1..n : (1..p-1) \ W = (1..p-1) \ V
    BY <2>2, <2>5
  <2>8. ASSUME NEW p \in 1..n
        PROVE  p \in W <=> \E q \in (1..p-1) \ W : p <= q + Owes(line[q])
    <3>1. CASE p = n
      BY <2>2, <2>3, <2>6, <2>7, <3>1
    <3>2. CASE p # n
      <4>1. p \in 1..n-1
        BY <2>2, <3>2
      <4> QED
        BY <4>1, <2>4, <2>5, <2>7 DEF ValuesUpTo
    <3> QED
      BY <3>1, <3>2
  <2>9. ValuesUpTo(line, W, n)
    BY <2>8 DEF ValuesUpTo
  <2> QED
    BY <2>2, <2>6, <2>9
<1>2. Len(line) \in Nat /\ DOMAIN line = 1..Len(line)
  OBVIOUS
<1>3. PICK V \in SUBSET (1..Len(line)) : ValuesUpTo(line, V, Len(line))
  BY <1>1, <1>2
<1>4. V \in SUBSET DOMAIN line /\ AreValues(line, V)
  BY <1>2, <1>3 DEF ValuesUpTo, AreValues
<1> QED
  BY <1>4 DEF Values

-----------------------------------------------------------------------------
(* The places of a line, as the scan reaches them: those of the words      *)
(* before word p, and the first k of its own.                              *)
Reached(line, p, k) ==
  {place \in Places(line) : place[1] < p \/ (place[1] = p /\ place[2] <= k)}

PlainBefore(line, p) ==
  {r \in DOMAIN line \ Values(line) : line[r].form = "plain" /\ r < p}

LEMMA WordShape ==
  ASSUME NEW line \in Seq(CommandWords), NEW p \in 1..Len(line)
  PROVE  /\ p \in DOMAIN line /\ line[p] \in CommandWords
         /\ line[p].form \in Form /\ line[p].text \in STRING
         /\ Names(line[p]) \in Nat /\ Owes(line[p]) \in Nat
<1>1. p \in DOMAIN line /\ line[p] \in CommandWords
  OBVIOUS
<1>2. line[p].form \in Form /\ line[p].text \in STRING /\ line[p].letters \in Seq(STRING)
  BY <1>1 DEF CommandWords
<1>3. Names(line[p]) \in Nat
  BY <1>2 DEF Names
<1> QED
  BY <1>1, <1>2, <1>3, OwedCounts DEF Owes

LEMMA PlaceShape ==
  ASSUME NEW line, NEW place
  PROVE  /\ place \in Places(line) =>
              /\ place = <<place[1], place[2]>> /\ place[1] \in DOMAIN line \ Values(line)
              /\ place[2] \in 1..Names(line[place[1]])
         /\ \A q \in DOMAIN line \ Values(line) : \A k \in 1..Names(line[q]) :
              <<q, k>> \in Places(line)
BY DEF Places

(* The next name of a word is a place of its own.                          *)
LEMMA ReachesMore ==
  ASSUME NEW line \in Seq(CommandWords), NEW p \in 1..Len(line) \ Values(line),
         NEW k \in Nat, k < Names(line[p])
  PROVE  /\ <<p, k + 1>> \in Places(line) \ Reached(line, p, k)
         /\ Reached(line, p, k + 1) = Reached(line, p, k) \union {<<p, k + 1>>}
<1> DEFINE c == <<p, k + 1>>
<1>1. p \in DOMAIN line /\ Names(line[p]) \in Nat /\ p \in Nat
  BY WordShape
<1>2. k + 1 \in 1..Names(line[p])
  BY <1>1
<1>3. c \in Places(line)
  BY <1>1, <1>2, PlaceShape
<1>4. c[1] = p /\ c[2] = k + 1
  OBVIOUS
<1> HIDE DEF c
<1>5. c \notin Reached(line, p, k)
  BY <1>1, <1>4 DEF Reached
<1>6. ASSUME NEW place \in Places(line)
      PROVE  place \in Reached(line, p, k + 1) <=> place \in Reached(line, p, k) \/ place = c
  <2>1. place = <<place[1], place[2]>> /\ place[1] \in DOMAIN line
        /\ place[2] \in 1..Names(line[place[1]])
    BY PlaceShape
  <2>2. place[1] \in Nat /\ place[2] \in Int
    <3>1. place[1] \in 1..Len(line)
      BY <2>1
    <3> QED
      BY <2>1, <3>1, WordShape
  <2>3. place = c <=> place[1] = p /\ place[2] = k + 1
    BY <2>1 DEF c
  <2> QED
    BY <2>2, <2>3, <1>1 DEF Reached
<1> QED
  BY <1>3, <1>5, <1>6 DEF Reached, c

(* From the end of a word to the next one that is no value there is no     *)
(* place, nor a default argument but the word itself.                      *)
LEMMA NextWordReaches ==
  ASSUME NEW line \in Seq(CommandWords), NEW p \in 1..Len(line) \ Values(line),
         NEW n \in Nat, n = Owes(line[p]), p + n <= Len(line)
  PROVE  /\ Reached(line, p + 1 + n, 0) = Reached(line, p, Names(line[p]))
         /\ PlainBefore(line, p + 1 + n) =
              PlainBefore(line, p) \union (IF line[p].form = "plain" THEN {p} ELSE {})
<1>1. /\ DOMAIN line = 1..Len(line) /\ Len(line) \in Nat
      /\ Values(line) \in SUBSET DOMAIN line /\ AreValues(line, Values(line))
  BY ValuesExist
<1>2. ASSUME NEW q \in DOMAIN line \ Values(line) PROVE q < p + 1 + n <=> q <= p
  <2>1. q \in 1..Len(line)
    BY <1>1
  <2>2. ~(p < q /\ q <= p + n)
    <3> SUFFICES ASSUME p < q, q <= p + Owes(line[p]) PROVE FALSE
      OBVIOUS
    <3>1. p \in (1..q-1) \ Values(line)
      BY <2>1
    <3>2. \E r \in (1..q-1) \ Values(line) : q <= r + Owes(line[r])
      BY <3>1
    <3> QED
      BY <1>1, <3>2 DEF AreValues
  <2> QED
    BY <2>1, <2>2
<1>3. ASSUME NEW place \in Places(line)
      PROVE  place \in Reached(line, p + 1 + n, 0) <=> place \in Reached(line, p, Names(line[p]))
  <2>1. place[1] \in DOMAIN line \ Values(line) /\ place[2] \in 1..Names(line[place[1]])
    BY PlaceShape
  <2>2. place[1] \in 1..Len(line) /\ Names(line[place[1]]) \in Nat
    BY <2>1, <1>1, WordShape
  <2>3. place[1] < p + 1 + n <=> place[1] <= p
    BY <2>1, <1>2
  <2> QED
    BY <2>1, <2>2, <2>3 DEF Reached
<1>4. ASSUME NEW r \in DOMAIN line \ Values(line)
      PROVE  r < p + 1 + n <=> r < p \/ r = p
  BY <1>1, <1>2
<1>5. p \in DOMAIN line \ Values(line)
  BY <1>1
<1> QED
  BY <1>3, <1>4, <1>5 DEF Reached, PlainBefore

(* At the end of the line all of it has been reached.                      *)
LEMMA AllReached ==
  ASSUME NEW line \in Seq(CommandWords), NEW k
  PROVE  /\ Reached(line, Len(line) + 1, k) = Places(line)
         /\ PlainBefore(line, Len(line) + 1) =
              {p \in DOMAIN line \ Values(line) : line[p].form = "plain"}
         /\ Reached(line, 1, 0) = {} /\ PlainBefore(line, 1) = {}
<1>1. \A q \in DOMAIN line : q \in 1..Len(line) /\ q < Len(line) + 1 /\ ~(q < 1)
  OBVIOUS
<1>2. \A place \in Places(line) :
        place[1] \in DOMAIN line /\ place[1] \in Nat /\ place[2] \in 1..Names(line[place[1]])
  BY <1>1, PlaceShape
<1>3. \A place \in Places(line) : ~(place[1] < 1 \/ (place[1] = 1 /\ place[2] <= 0))
  <2> TAKE place \in Places(line)
  <2>1. place[1] \in 1..Len(line) /\ place[2] \in 1..Names(line[place[1]])
    BY <1>1, <1>2
  <2>2. Names(line[place[1]]) \in Nat
    BY <2>1, WordShape
  <2> QED
    BY <2>1, <2>2
<1> QED
  BY <1>1, <1>2, <1>3 DEF Reached, PlainBefore

-----------------------------------------------------------------------------
(* What has been read so far, at the places S: each names an option, with  *)
(* its value on the line, and no two the same, or one with the same short  *)
(* name.                                                                   *)
Legible(line, S) ==
  \A place \in S :
    /\ NamedAt(line[place[1]], place[2]) # {}
    /\ HasValue(OptionAt(line, place)) => ValueOf(line, place) <= Len(line)

Apart(line, S) ==
  \A a, b \in S : a # b => OptionAt(line, a).short # OptionAt(line, b).short

Flags(line) == {Meant(line, place) : place \in Places(line)}

Stored(line, found, S) ==
  /\ found \in Seq(Flags(line))
  /\ \A k \in DOMAIN found : \E place \in S : found[k] = Meant(line, place)
  /\ \A place \in S : \E k \in DOMAIN found : found[k] = Meant(line, place)
  /\ IsFiniteSet(S) /\ Len(found) = Cardinality(S)

LEMMA OptionShape ==
  ASSUME NEW line, NEW place
  PROVE  /\ Meant(line, place).desc = OptionAt(line, place)
         /\ NamedAt(line[place[1]], place[2]) # {} =>
              /\ OptionAt(line, place) \in NamedAt(line[place[1]], place[2])
              /\ OptionAt(line, place) \in Options
<1>1. NamedAt(line[place[1]], place[2]) \subseteq Options
  BY DEF NamedAt, FullMatches, ShortMatches
<1>2. NamedAt(line[place[1]], place[2]) # {} =>
        \E d \in Options : d \in NamedAt(line[place[1]], place[2])
  BY <1>1
<1> QED
  BY <1>2 DEF OptionAt, Meant

(* The reading of one place more, which names desc.                        *)
LEMMA ReadsMore ==
  ASSUME NEW line, NEW S \in SUBSET Places(line), NEW c \in Places(line) \ S,
         NEW desc, NamedAt(line[c[1]], c[2]) = {desc},
         HasValue(desc) => ValueOf(line, c) <= Len(line),
         Legible(line, S), Apart(line, S),
         NEW found, Stored(line, found, S),
         \A place \in S : OptionAt(line, place).short # desc.short
  PROVE  /\ Legible(line, S \union {c}) /\ Apart(line, S \union {c})
         /\ Stored(line, Append(found, Meant(line, c)), S \union {c})
<1>1. OptionAt(line, c) = desc
  BY OptionShape
<1>2. Legible(line, S \union {c})
  BY <1>1 DEF Legible
<1>3. Apart(line, S \union {c})
  BY <1>1 DEF Apart
<1> DEFINE new == Append(found, Meant(line, c))
<1>4. Meant(line, c) \in Flags(line)
  BY DEF Flags
<1>5. found \in Seq(Flags(line)) /\ IsFiniteSet(S) /\ Len(found) = Cardinality(S)
  BY DEF Stored
<1>6. /\ new \in Seq(Flags(line)) /\ Len(new) = Len(found) + 1 /\ DOMAIN new = 1..Len(found) + 1
      /\ DOMAIN found = 1..Len(found) /\ Len(found) \in Nat
      /\ \A k \in 1..Len(found) : new[k] = found[k]
      /\ new[Len(found) + 1] = Meant(line, c)
  BY <1>4, <1>5
<1>7. IsFiniteSet(S \union {c}) /\ Cardinality(S \union {c}) = Cardinality(S) + 1
  BY <1>5, FS_AddElement
<1> HIDE DEF new
<1>8. ASSUME NEW k \in DOMAIN new PROVE \E place \in S \union {c} : new[k] = Meant(line, place)
  <2>1. CASE k = Len(found) + 1
    BY <1>6, <2>1
  <2>2. CASE k # Len(found) + 1
    <3>1. k \in DOMAIN found /\ new[k] = found[k]
      BY <1>6, <2>2
    <3> QED
      BY <3>1 DEF Stored
  <2> QED
    BY <2>1, <2>2
<1>9. ASSUME NEW place \in S \union {c} PROVE \E k \in DOMAIN new : new[k] = Meant(line, place)
  <2>1. CASE place = c
    <3>1. Len(found) + 1 \in DOMAIN new
      BY <1>6
    <3> QED
      BY <1>6, <2>1, <3>1
  <2>2. CASE place \in S
    <3>1. PICK k \in DOMAIN found : found[k] = Meant(line, place)
      BY <2>2 DEF Stored
    <3>2. k \in DOMAIN new /\ new[k] = found[k]
      BY <1>6
    <3> QED
      BY <3>1, <3>2
  <2> QED
    BY <2>1, <2>2
<1>10. Stored(line, new, S \union {c})
  BY <1>5, <1>6, <1>7, <1>8, <1>9 DEF Stored
<1> QED
  BY <1>2, <1>3, <1>10 DEF new

(* Two places that name the same option, or options with one short name.   *)
LEMMA SameShort ==
  ASSUME NEW line, NEW a \in Places(line), NEW b \in Places(line), a # b,
         OptionAt(line, a).short = OptionAt(line, b).short
  PROVE  ~Readable(line) \/ Confused(line)
<1>1. CASE OptionAt(line, a) = OptionAt(line, b)
  BY <1>1 DEF Readable
<1>2. CASE OptionAt(line, a) # OptionAt(line, b)
  BY <1>2 DEF Confused
<1> QED
  BY <1>1, <1>2

(* What is found under a short name has that short name.                   *)
LEMMA FoundShort ==
  ASSUME NEW d \in Options, NEW e \in Options, d.short \in {e.short, e.full}
  PROVE  d.short = e.short
<1>1. PICK a \in DOMAIN Registered : d = Registered[a]
  BY DEF Options
<1>2. PICK b \in DOMAIN Registered : e = Registered[b]
  BY DEF Options
<1> QED
  BY <1>1, <1>2, RegisteredAssumption

(* Options that differ are not more than were registered.                  *)
LEMMA EnoughFlags ==
  ASSUME NEW line, NEW S, IsFiniteSet(S), Legible(line, S), Cardinality(S) > Len(Registered)
  PROVE  \E a, b \in S : a # b /\ OptionAt(line, a) = OptionAt(line, b)
<1> DEFINE f == [place \in S |-> CHOOSE k \in DOMAIN Registered :
                                   Registered[k] = OptionAt(line, place)]
<1>1. DOMAIN Registered = 1..Len(Registered) /\ Len(Registered) \in Nat
  <2>1. \E T : Registered \in Seq(T)
    BY Zenon, RegisteredAssumption
  <2> QED
    BY <2>1
<1>2. \A place \in S : f[place] \in DOMAIN Registered /\ Registered[f[place]] = OptionAt(line, place)
  <2> TAKE place \in S
  <2>1. OptionAt(line, place) \in Options
    BY OptionShape DEF Legible
  <2>2. \E k \in DOMAIN Registered : Registered[k] = OptionAt(line, place)
    BY <2>1 DEF Options
  <2> QED
    BY <2>2
<1>3. f \in [S -> 1..Len(Registered)]
  BY <1>1, <1>2
<1> HIDE DEF f
<1>4. IsFiniteSet(1..Len(Registered)) /\ Cardinality(1..Len(Registered)) = Len(Registered)
  <2>1. /\ IsFiniteSet(1..Len(Registered))
        /\ Cardinality(1..Len(Registered)) =
             IF 1 > Len(Registered) THEN 0 ELSE Len(Registered) - 1 + 1
    BY <1>1, FS_Interval
  <2> QED
    BY <1>1, <2>1
<1>5. Cardinality(1..Len(Registered)) < Cardinality(S)
  <2>1. Cardinality(S) \in Nat
    BY FS_CardinalityType
  <2> QED
    BY <1>1, <1>4, <2>1
<1>6. PICK x, y \in S : x # y /\ f[x] = f[y]
  BY <1>3, <1>4, <1>5, FS_PigeonHole
<1> QED
  BY <1>2, <1>6

(* A place at which the scan gives up.                                     *)
LEMMA RefusesRightly ==
  ASSUME NEW line, NEW S \in SUBSET Places(line), NEW c \in Places(line) \ S,
         NEW desc, NamedAt(line[c[1]], c[2]) = {desc},
         Legible(line, S), NEW found, Stored(line, found, S),
         \/ \E k \in DOMAIN found : desc.short \in {found[k].desc.short, found[k].desc.full}
         \/ Len(found) = Len(Registered)
  PROVE  ~Readable(line) \/ Confused(line)
<1>1. OptionAt(line, c) = desc /\ desc \in Options
  BY OptionShape
<1>2. CASE \E k \in DOMAIN found : desc.short \in {found[k].desc.short, found[k].desc.full}
  <2>1. PICK k \in DOMAIN found : desc.short \in {found[k].desc.short, found[k].desc.full}
    BY <1>2
  <2>2. PICK place \in S : found[k] = Meant(line, place)
    BY DEF Stored
  <2>3. found[k].desc = OptionAt(line, place) /\ OptionAt(line, place) \in Options
    BY <2>2, OptionShape DEF Legible
  <2>4. desc.short = OptionAt(line, place).short
    BY <1>1, <2>1, <2>3, FoundShort
  <2>5. place # c /\ place \in Places(line)
    OBVIOUS
  <2> QED
    BY <1>1, <2>4, <2>5, SameShort
<1>3. CASE Len(found) = Len(Registered)
  <2>1. /\ IsFiniteSet(S) /\ Len(found) = Cardinality(S) /\ Len(found) \in Nat
    BY DEF Stored
  <2>2. IsFiniteSet(S \union {c}) /\ Cardinality(S \union {c}) = Cardinality(S) + 1
    BY <2>1, FS_AddElement
  <2>3. Legible(line, S \union {c}) \/ ~Readable(line)
    BY <1>1 DEF Legible, Readable
  <2>4. CASE Legible(line, S \union {c})
    <3>1. \E a, b \in S \union {c} : a # b /\ OptionAt(line, a) = OptionAt(line, b)
      BY <1>3, <2>1, <2>2, <2>4, EnoughFlags
    <3> QED
      BY <3>1 DEF Readable
  <2> QED
    BY <2>3, <2>4
<1> QED
  BY <1>2, <1>3

(* A place that names nothing, or an option without its value.             *)
LEMMA UnreadPlace ==
  ASSUME NEW line, NEW c \in Places(line),
         \/ NamedAt(line[c[1]], c[2]) = {}
         \/ \E d : /\ NamedAt(line[c[1]], c[2]) = {d} /\ HasValue(d)
                   /\ ~(ValueOf(line, c) <= Len(line))
  PROVE  ~Readable(line)
<1>1. CASE NamedAt(line[c[1]], c[2]) = {}
  BY <1>1 DEF Readable
<1>2. ASSUME NEW d, NamedAt(line[c[1]], c[2]) = {d}, HasValue(d), ~(ValueOf(line, c) <= Len(line))
      PROVE  ~Readable(line)
  <2>1. OptionAt(line, c) = d
    BY <1>2, OptionShape
  <2> QED
    BY <1>2, <2>1 DEF Readable
<1> QED
  BY <1>1, <1>2

-----------------------------------------------------------------------------
(* The default arguments: the plain words before word p, as many as fit.   *)
LeftOver(line, kept, p) ==
  /\ kept \in Seq(STRING)
  /\ Len(kept) = IF Cardinality(PlainBefore(line, p)) < MaxDefaults
                 THEN Cardinality(PlainBefore(line, p)) ELSE MaxDefaults
  /\ \A k \in DOMAIN kept : \E r \in PlainBefore(line, p) :
       Cardinality(PlainBefore(line, r)) = k - 1 /\ kept[k] = line[r].text

LEMMA PlainFinite ==
  ASSUME NEW line \in Seq(CommandWords), NEW p
  PROVE  IsFiniteSet(PlainBefore(line, p)) /\ Cardinality(PlainBefore(line, p)) \in Nat
<1>1. IsFiniteSet(1..Len(line)) /\ PlainBefore(line, p) \in SUBSET (1..Len(line))
  BY FS_Interval DEF PlainBefore
<1> QED
  BY <1>1, FS_Subset, FS_CardinalityType

LEMMA KeepsMore ==
  ASSUME NEW line \in Seq(CommandWords), NEW p \in 1..Len(line), NEW q,
         PlainBefore(line, q) = PlainBefore(line, p) \union {p},
         NEW kept, LeftOver(line, kept, p)
  PROVE  LeftOver(line, IF Len(kept) # MaxDefaults THEN Append(kept, line[p].text) ELSE kept, q)
<1> DEFINE count == Cardinality(PlainBefore(line, p))
<1>1. p \notin PlainBefore(line, p)
  BY DEF PlainBefore
<1>2. count \in Nat /\ Cardinality(PlainBefore(line, q)) = count + 1
  BY <1>1, PlainFinite, FS_AddElement
<1>3. /\ kept \in Seq(STRING) /\ line[p].text \in STRING /\ MaxDefaults \in Nat
      /\ Len(kept) = IF count < MaxDefaults THEN count ELSE MaxDefaults
  BY WordShape, MaxDefaultsAssumption DEF LeftOver
<1> HIDE DEF count
<1>4. CASE Len(kept) = MaxDefaults
  <2>1. Len(kept) = IF count + 1 < MaxDefaults THEN count + 1 ELSE MaxDefaults
    BY <1>2, <1>3, <1>4
  <2>2. LeftOver(line, kept, q)
    BY <1>2, <1>3, <2>1 DEF LeftOver
  <2> QED
    BY <1>4, <2>2
<1>5. CASE Len(kept) # MaxDefaults
  <2> DEFINE more == Append(kept, line[p].text)
  <2>1. Len(kept) = count /\ count + 1 <= MaxDefaults
    BY <1>2, <1>3, <1>5
  <2>2. /\ more \in Seq(STRING) /\ Len(more) = count + 1 /\ DOMAIN more = 1..count + 1
        /\ DOMAIN kept = 1..count /\ more[count + 1] = line[p].text
        /\ \A k \in 1..count : more[k] = kept[k]
    BY <1>3, <2>1
  <2> HIDE DEF more
  <2>3. ASSUME NEW k \in DOMAIN more
        PROVE  \E r \in PlainBefore(line, q) :
                 Cardinality(PlainBefore(line, r)) = k - 1 /\ more[k] = line[r].text
    <3>1. CASE k = count + 1
      <4>1. Cardinality(PlainBefore(line, p)) = k - 1
        BY <1>2, <3>1 DEF count
      <4> QED
        BY <2>2, <3>1, <4>1
    <3>2. CASE k # count + 1
      <4>1. k \in DOMAIN kept /\ more[k] = kept[k]
        BY <1>2, <2>2, <3>2
      <4> QED
        BY <4>1 DEF LeftOver
    <3> QED
      BY <3>1, <3>2
  <2>4. Len(more) = IF count + 1 < MaxDefaults THEN count + 1 ELSE MaxDefaults
    BY <1>2, <1>3, <2>1, <2>2
  <2>5. LeftOver(line, more, q)
    BY <1>2, <2>2, <2>3, <2>4 DEF LeftOver
  <2> QED
    BY <1>5, <2>5 DEF more
<1> QED
  BY <1>4, <1>5

-----------------------------------------------------------------------------
(* The invariant: what is stored is what the part of the line that has     *)
(* been scanned says, and where the scan gave up the line cannot be read.  *)
Here == Reached(argv, i, letter)

Reading ==
  /\ Legible(argv, Here) /\ Apart(argv, Here) /\ Stored(argv, flags, Here)
  /\ LeftOver(argv, defaultArgs, i)

ReadInv ==
  /\ IInv
  /\ status = "ARGV_ERROR" => ~Readable(argv) \/ Confused(argv)
  /\ status # "ARGV_ERROR" => Reading
  /\ status \in {"ARGV_SUCCESS", "ARGV_HELP_MSG"} => i = Len(argv) + 1

LEMMA InitReads == ArgvInit => ReadInv
<1> SUFFICES ASSUME ArgvInit PROVE ReadInv
  OBVIOUS
<1>1. /\ IInv /\ argv \in Seq(CommandWords) /\ status = "scanning"
      /\ flags = <<>> /\ defaultArgs = <<>> /\ i = 1 /\ letter = 0
  BY InitInvariant, LinesAssumption DEF ArgvInit
<1>2. Here = {} /\ PlainBefore(argv, i) = {}
  BY <1>1, AllReached DEF Here
<1>3. IsFiniteSet({}) /\ Cardinality({}) = 0
  BY FS_EmptySet
<1>4. Legible(argv, Here) /\ Apart(argv, Here)
  BY <1>2 DEF Legible, Apart
<1>5. Stored(argv, flags, Here)
  BY <1>1, <1>2, <1>3 DEF Stored
<1>6. LeftOver(argv, defaultArgs, i)
  <2>1. defaultArgs \in Seq(STRING) /\ Len(defaultArgs) = 0 /\ DOMAIN defaultArgs = {}
    BY <1>1
  <2>2. Cardinality(PlainBefore(argv, i)) = 0 /\ MaxDefaults \in Nat
    BY <1>2, <1>3, MaxDefaultsAssumption
  <2> QED
    BY <2>1, <2>2 DEF LeftOver
<1> QED
  BY <1>1, <1>4, <1>5, <1>6 DEF ReadInv, Reading

(* The word the scan is on is not a value. *)
LEMMA OnAWord ==
  ASSUME ReadInv, status = "scanning", i <= Len(argv)
  PROVE  /\ argv \in Seq(CommandWords) /\ i \in 1..Len(argv) \ Values(argv)
         /\ Word \in CommandWords /\ Counted /\ Reading
         /\ letter \in Nat /\ values \in Nat
<1>1. argv \in Seq(CommandWords) /\ i \in 1..Len(argv) /\ Counted /\ Reading /\ OnNoValue
      /\ letter \in Nat /\ values \in Nat
  BY DEF ReadInv, IInv
<1>2. i \notin Values(argv)
  BY <1>1, ValuesExist DEF OnNoValue
<1> QED
  BY <1>1, <1>2, WordShape DEF Word

(* One name more: scanToFlag and addFlag, of a full name or of a letter.   *)
LEMMA ReadsName ==
  ASSUME ReadInv, status = "scanning", i <= Len(argv), letter < Names(Word),
         NEW desc, NamedAt(Word, letter + 1) = {desc}
  PROVE  LET more == Reached(argv, i, letter + 1)
         IN /\ NoParameter(desc) \/ Refuses(desc) => ~Readable(argv) \/ Confused(argv)
            /\ ~NoParameter(desc) /\ ~Refuses(desc) /\ AddFlag(desc) =>
                 Legible(argv, more) /\ Apart(argv, more) /\ Stored(argv, flags', more)
<1> DEFINE c == <<i, letter + 1>>
<1>1. /\ argv \in Seq(CommandWords) /\ i \in 1..Len(argv) \ Values(argv)
      /\ Word \in CommandWords /\ Counted /\ Reading
      /\ letter \in Nat /\ values \in Nat
  BY OnAWord
<1>2. /\ c \in Places(argv) \ Here /\ Here \in SUBSET Places(argv)
      /\ Reached(argv, i, letter + 1) = Here \union {c}
  BY <1>1, ReachesMore DEF Here, Word, Reached
<1>3. c[1] = i /\ c[2] = letter + 1
  OBVIOUS
<1> HIDE DEF c
<1>4. NamedAt(argv[c[1]], c[2]) = {desc}
  BY <1>3 DEF Word
<1>5. HasValue(desc) => ValueOf(argv, c) = ValueAt
  <2>1. values = OwedUpTo(Word, letter)
    <3>1. CASE Word.form = "short"
      BY <1>1, <3>1 DEF Counted
    <3>2. CASE Word.form # "short"
      <4>1. letter = 0 /\ values = 0
        BY <1>1, <3>2 DEF Counted
      <4> QED
        BY <4>1, NothingOwed
    <3> QED
      BY <3>1, <3>2
  <2>2. OwedUpTo(Word, letter + 1) = values + Owed(desc)
    BY <1>1, <2>1, OneMoreName
  <2>3. ValueOf(argv, c) = i + OwedUpTo(Word, letter + 1)
    BY <1>3 DEF ValueOf, Word
  <2> QED
    BY <1>1, <2>2, <2>3 DEF ValueAt, Owed
<1>6. Len(argv) \in Nat /\ ValueAt \in Nat
  BY <1>1 DEF ValueAt
<1>7. CASE NoParameter(desc)
  <2>1. HasValue(desc) /\ ~(ValueOf(argv, c) <= Len(argv))
    BY <1>5, <1>6, <1>7 DEF NoParameter
  <2>2. ~Readable(argv)
    BY <1>2, <1>4, <2>1, UnreadPlace
  <2> QED
    BY <1>7, <2>2
<1>8. CASE Refuses(desc)
  <2>1. \/ \E k \in DOMAIN flags : desc.short \in {flags[k].desc.short, flags[k].desc.full}
        \/ Len(flags) = Len(Registered)
    BY <1>8 DEF Refuses, FindFlag
  <2>2. Legible(argv, Here) /\ Stored(argv, flags, Here)
    BY <1>1 DEF Reading
  <2>3. ~Readable(argv) \/ Confused(argv)
    BY <1>2, <1>4, <2>1, <2>2, RefusesRightly
  <2> QED
    BY <1>8, <2>3
<1>9. CASE ~NoParameter(desc) /\ ~Refuses(desc) /\ AddFlag(desc)
  <2>1. HasValue(desc) => ValueOf(argv, c) <= Len(argv)
    BY <1>5, <1>6, <1>9 DEF NoParameter
  <2>2. OptionAt(argv, c) = desc
    BY <1>4, OptionShape
  <2>3. flags' = Append(flags, Meant(argv, c))
    BY <1>5, <1>9, <2>2 DEF AddFlag, Meant
  <2>4. ASSUME NEW place \in Here PROVE OptionAt(argv, place).short # desc.short
    <3>1. PICK k \in DOMAIN flags : flags[k] = Meant(argv, place)
      BY <1>1 DEF Reading, Stored
    <3>2. flags[k].desc = OptionAt(argv, place)
      BY <3>1, OptionShape
    <3> QED
      BY <1>9, <3>2 DEF Refuses, FindFlag
  <2>5. Legible(argv, Here) /\ Apart(argv, Here) /\ Stored(argv, flags, Here)
    BY <1>1 DEF Reading
  <2>6. /\ Legible(argv, Here \union {c}) /\ Apart(argv, Here \union {c})
        /\ Stored(argv, Append(flags, Meant(argv, c)), Here \union {c})
    BY <1>2, <1>4, <2>1, <2>4, <2>5, ReadsMore
  <2> QED
    BY <1>2, <1>9, <2>3, <2>6
<1> QED
  BY <1>7, <1>8, <1>9

LEMMA GivesUp ==
  ASSUME IInv', status' = "ARGV_ERROR", argv' = argv, ~Readable(argv) \/ Confused(argv)
  PROVE  ReadInv'
BY DEF ReadInv

LEMMA GoesOn ==
  ASSUME IInv', status' = "scanning", argv' = argv,
         NEW S, Here' = S, Legible(argv, S), Apart(argv, S), Stored(argv, flags', S),
         LeftOver(argv, defaultArgs', i')
  PROVE  ReadInv'
BY DEF ReadInv, Reading

(* The places of a whole word are read when the scan leaves it.            *)
LEMMA WordRead ==
  ASSUME ReadInv, status = "scanning", i <= Len(argv), argv' = argv, letter' = 0,
         NEW n \in Nat, n = Owes(Word), i + n <= Len(argv), i' = i + 1 + n
  PROVE  /\ Here' = Reached(argv, i, Names(Word))
         /\ PlainBefore(argv, i') =
              PlainBefore(argv, i) \union (IF Word.form = "plain" THEN {i} ELSE {})
<1>1. argv \in Seq(CommandWords) /\ i \in 1..Len(argv) \ Values(argv)
  BY OnAWord
<1>2. n = Owes(argv[i]) /\ Word = argv[i]
  BY DEF Word
<1>3. /\ Reached(argv, i + 1 + n, 0) = Reached(argv, i, Names(argv[i]))
      /\ PlainBefore(argv, i + 1 + n) =
           PlainBefore(argv, i) \union (IF argv[i].form = "plain" THEN {i} ELSE {})
  BY <1>1, <1>2, NextWordReaches
<1> QED
  BY <1>2, <1>3 DEF Here

LEMMA KeepDefaultReads ==
  ASSUME ReadInv, KeepDefault, IInv' PROVE ReadInv'
<1>1. /\ status = "scanning" /\ i <= Len(argv) /\ Word.form = "plain" /\ i' = i + 1
      /\ UNCHANGED <<argv, letter, values, flags, status>>
      /\ defaultArgs' = IF Len(defaultArgs) # MaxDefaults THEN Append(defaultArgs, Word.text)
                                                          ELSE defaultArgs
  BY DEF KeepDefault, ScanningA
<1>2. /\ argv \in Seq(CommandWords) /\ i \in 1..Len(argv) \ Values(argv) /\ Counted /\ Reading
  BY <1>1, OnAWord
<1>3. letter = 0 /\ Names(Word) = 0 /\ Owes(Word) = 0
  <2>1. letter \in Nat /\ ~(letter > 0)
    BY <1>1, <1>2, OnAWord DEF Counted
  <2>2. Names(Word) = 0
    BY <1>1 DEF Names
  <2>3. Owes(Word) = OwedUpTo(Word, 0)
    BY <2>2 DEF Owes
  <2> QED
    BY <2>1, <2>2, <2>3, NothingOwed
<1>4. /\ Here' = Reached(argv, i, Names(Word))
      /\ PlainBefore(argv, i') = PlainBefore(argv, i) \union {i}
  <2>1. i + 0 <= Len(argv) /\ i' = i + 1 + 0 /\ letter' = 0
    BY <1>1, <1>2, <1>3
  <2> QED
    BY <1>1, <1>3, <2>1, WordRead
<1>5. Here' = Here
  BY <1>3, <1>4 DEF Here
<1>6. LeftOver(argv, defaultArgs', i')
  <2>1. LeftOver(argv, defaultArgs, i) /\ Word = argv[i]
    BY <1>2 DEF Reading, Word
  <2>2. LeftOver(argv, IF Len(defaultArgs) # MaxDefaults THEN Append(defaultArgs, argv[i].text)
                                                         ELSE defaultArgs, i')
    BY <1>2, <1>4, <2>1, KeepsMore
  <2> QED
    BY <1>1, <2>1, <2>2
<1>7. Legible(argv, Here) /\ Apart(argv, Here) /\ Stored(argv, flags', Here)
  BY <1>1, <1>2 DEF Reading
<1> QED
  BY <1>1, <1>5, <1>6, <1>7, GoesOn

LEMMA FullReads ==
  ASSUME ReadInv, ScanFullArgument, IInv' PROVE ReadInv'
<1>1. status = "scanning" /\ i <= Len(argv) /\ Word.form = "full"
  BY DEF ScanFullArgument, ScanningA
<1>2. /\ argv \in Seq(CommandWords) /\ i \in 1..Len(argv) \ Values(argv) /\ Counted /\ Reading
      /\ values \in Nat /\ letter = 0 /\ values = 0 /\ Names(Word) = 1
  BY <1>1, OnAWord DEF Counted, Names
<1>3. CASE FullMatches(Word) = {} /\ WrongFormat
  <2>1. <<i, 0 + 1>> \in Places(argv)
    <3>1. 0 < Names(argv[i])
      BY <1>2 DEF Word
    <3> QED
      BY <1>2, <3>1, ReachesMore
  <2>2. NamedAt(Word, 1) = {}
    BY <1>1, <1>3 DEF NamedAt
  <2>3. PICK c : c = <<i, 0 + 1>>
    OBVIOUS
  <2>4. c \in Places(argv) /\ c[1] = i /\ c[2] = 1
    BY <2>1, <2>3
  <2>5. NamedAt(argv[c[1]], c[2]) = {}
    BY <2>2, <2>4 DEF Word
  <2>6. ~Readable(argv)
    BY <2>4, <2>5, UnreadPlace
  <2> QED
    BY <1>3, <2>6, GivesUp DEF WrongFormat
<1>4. CASE ~(FullMatches(Word) = {} /\ WrongFormat)
  <2>1. PICK desc \in FullMatches(Word) :
          IF NoParameter(desc) \/ Refuses(desc)
          THEN WrongFormat
          ELSE /\ AddFlag(desc)
               /\ i' = i + 1 + Owed(desc)
               /\ UNCHANGED <<argv, letter, values, defaultArgs, status>>
    BY <1>4 DEF ScanFullArgument
  <2>2. NamedAt(Word, letter + 1) = {desc} /\ letter < Names(Word)
    BY <1>1, <1>2, <2>1, OneFullMatch DEF NamedAt
  <2>3. CASE NoParameter(desc) \/ Refuses(desc)
    <3>1. ~Readable(argv) \/ Confused(argv)
      BY <1>1, <2>2, <2>3, ReadsName
    <3> QED
      BY <2>1, <2>3, <3>1, GivesUp DEF WrongFormat
  <2>4. CASE ~(NoParameter(desc) \/ Refuses(desc))
    <3>1. AddFlag(desc) /\ i' = i + 1 + Owed(desc)
          /\ UNCHANGED <<argv, letter, values, defaultArgs, status>>
      BY <2>1, <2>4
    <3> DEFINE more == Reached(argv, i, letter + 1)
    <3>2. Legible(argv, more) /\ Apart(argv, more) /\ Stored(argv, flags', more)
      BY <1>1, <2>2, <2>4, <3>1, ReadsName
    <3>3. Owed(desc) \in Nat /\ Owes(Word) = Owed(desc)
      <4>1. OwedUpTo(Word, 0 + 1) = OwedUpTo(Word, 0) + Owed(desc)
        BY <1>2, <2>2, OneMoreName
      <4> QED
        BY <1>2, <4>1, NothingOwed DEF Owes, Owed
    <3>4. i + Owed(desc) <= Len(argv)
      BY <1>1, <1>2, <2>4 DEF NoParameter, ValueAt, Owed
    <3>5. /\ Here' = Reached(argv, i, Names(Word))
          /\ PlainBefore(argv, i') =
               PlainBefore(argv, i) \union (IF Word.form = "plain" THEN {i} ELSE {})
      BY <1>1, <1>2, <3>1, <3>3, <3>4, WordRead
    <3>6. Here' = more /\ PlainBefore(argv, i') = PlainBefore(argv, i)
      BY <1>1, <1>2, <3>5
    <3>7. LeftOver(argv, defaultArgs', i')
      BY <1>2, <3>1, <3>6 DEF Reading, LeftOver
    <3> HIDE DEF more
    <3> QED
      BY <1>1, <3>1, <3>2, <3>6, <3>7, GoesOn
  <2> QED
    BY <2>3, <2>4
<1> QED
  BY <1>3, <1>4

LEMMA LetterReads ==
  ASSUME ReadInv, ScanLetter, IInv' PROVE ReadInv'
<1>1. status = "scanning" /\ i <= Len(argv) /\ Word.form = "short" /\ letter < Len(Word.letters)
  BY DEF ScanLetter, ScanningA
<1>2. /\ argv \in Seq(CommandWords) /\ i \in 1..Len(argv) \ Values(argv) /\ Counted /\ Reading
      /\ letter \in Nat /\ Names(Word) = Len(Word.letters) /\ Len(Word.letters) \in Nat
  <2>1. Word \in CommandWords
    BY <1>1, OnAWord
  <2>2. Word.letters \in Seq(STRING)
    BY <2>1 DEF CommandWords
  <2> QED
    BY <1>1, <2>2, OnAWord DEF Names
<1> DEFINE char == Word.letters[letter + 1]
<1>3. NamedAt(Word, letter + 1) = ShortMatches(char)
  BY <1>1, <1>2 DEF NamedAt
<1>4. CASE ShortMatches(char) = {} /\ WrongFormat
  <2>1. <<i, letter + 1>> \in Places(argv)
    <3>1. letter < Names(argv[i])
      BY <1>1, <1>2 DEF Word
    <3> QED
      BY <1>2, <3>1, ReachesMore
  <2>2. PICK c : c = <<i, letter + 1>>
    OBVIOUS
  <2>3. c \in Places(argv) /\ c[1] = i /\ c[2] = letter + 1
    BY <2>1, <2>2
  <2>4. NamedAt(argv[c[1]], c[2]) = {}
    BY <1>3, <1>4, <2>3 DEF Word
  <2>5. ~Readable(argv)
    BY <2>3, <2>4, UnreadPlace
  <2> QED
    BY <1>4, <2>5, GivesUp DEF WrongFormat
<1>5. CASE ~(ShortMatches(char) = {} /\ WrongFormat)
  <2>1. PICK desc \in ShortMatches(char) :
          IF NoParameter(desc) \/ Refuses(desc)
          THEN WrongFormat
          ELSE /\ AddFlag(desc)
               /\ letter' = letter + 1
               /\ values' = values + Owed(desc)
               /\ UNCHANGED <<argv, i, defaultArgs, status>>
    BY <1>5 DEF ScanLetter
  <2> HIDE DEF char
  <2>2. NamedAt(Word, letter + 1) = {desc} /\ letter < Names(Word)
    BY <1>1, <1>2, <1>3, <2>1, OneShortMatch
  <2>3. CASE NoParameter(desc) \/ Refuses(desc)
    <3>1. ~Readable(argv) \/ Confused(argv)
      BY <1>1, <2>2, <2>3, ReadsName
    <3> QED
      BY <2>1, <2>3, <3>1, GivesUp DEF WrongFormat
  <2>4. CASE ~(NoParameter(desc) \/ Refuses(desc))
    <3>1. AddFlag(desc) /\ letter' = letter + 1 /\ UNCHANGED <<argv, i, defaultArgs, status>>
      BY <2>1, <2>4
    <3> DEFINE more == Reached(argv, i, letter + 1)
    <3>2. Legible(argv, more) /\ Apart(argv, more) /\ Stored(argv, flags', more)
      BY <1>1, <2>2, <2>4, <3>1, ReadsName
    <3>3. Here' = more
      BY <3>1 DEF Here
    <3>4. LeftOver(argv, defaultArgs', i')
      BY <1>2, <3>1 DEF Reading
    <3> HIDE DEF more
    <3> QED
      BY <1>1, <3>1, <3>2, <3>3, <3>4, GoesOn
  <2> QED
    BY <2>3, <2>4
<1> QED
  BY <1>4, <1>5

LEMMA EndShortReads ==
  ASSUME ReadInv, EndShortArguments, IInv' PROVE ReadInv'
<1>1. /\ status = "scanning" /\ i <= Len(argv) /\ Word.form = "short" /\ letter = Len(Word.letters)
      /\ i' = i + values + 1 /\ letter' = 0 /\ UNCHANGED <<argv, flags, defaultArgs, status>>
  BY DEF EndShortArguments, ScanningA
<1>2. /\ argv \in Seq(CommandWords) /\ i \in 1..Len(argv) \ Values(argv) /\ Counted /\ Reading
      /\ values \in Nat /\ Names(Word) = letter
  BY <1>1, OnAWord DEF Names
<1>3. Owes(Word) = values /\ i + values <= Len(argv) /\ i' = i + 1 + values
  BY <1>1, <1>2 DEF Counted, Owes
<1>4. /\ Here' = Reached(argv, i, Names(Word))
      /\ PlainBefore(argv, i') =
           PlainBefore(argv, i) \union (IF Word.form = "plain" THEN {i} ELSE {})
  BY <1>1, <1>2, <1>3, WordRead
<1>5. Here' = Here /\ PlainBefore(argv, i') = PlainBefore(argv, i)
  BY <1>1, <1>2, <1>4 DEF Here
<1>6. LeftOver(argv, defaultArgs', i')
  BY <1>1, <1>2, <1>5 DEF Reading, LeftOver
<1>7. Legible(argv, Here) /\ Apart(argv, Here) /\ Stored(argv, flags', Here)
  BY <1>1, <1>2 DEF Reading
<1> QED
  BY <1>1, <1>5, <1>6, <1>7, GoesOn

LEMMA NextReads == ReadInv /\ [ProcessArgs]_argvVars => ReadInv'
<1> SUFFICES ASSUME ReadInv, [ProcessArgs]_argvVars PROVE ReadInv'
  OBVIOUS
<1>1. IInv'
  BY NextInvariant DEF ReadInv
<1>2. CASE EndArgs
  <2>1. /\ status = "scanning" /\ i > Len(argv)
        /\ status' \in {"ARGV_SUCCESS", "ARGV_HELP_MSG"}
        /\ UNCHANGED <<argv, i, letter, values, flags, defaultArgs>>
    BY <1>2 DEF EndArgs
  <2>2. argv \in Seq(CommandWords) /\ i \in 1..Len(argv) + 1 /\ Reading
    BY <2>1 DEF ReadInv, IInv
  <2>3. i' = Len(argv') + 1
    BY <2>1, <2>2
  <2>4. Reading'
    BY <2>1, <2>2 DEF Reading, Here
  <2> QED
    BY <1>1, <2>1, <2>3, <2>4 DEF ReadInv
<1>3. CASE UNCHANGED argvVars
  <2>1. UNCHANGED <<argv, i, letter, flags, defaultArgs, status>>
    BY <1>3 DEF argvVars
  <2>2. Reading => Reading'
    BY <2>1 DEF Reading, Here
  <2> QED
    BY <1>1, <2>1, <2>2 DEF ReadInv
<1> QED
  BY <1>1, <1>2, <1>3, KeepDefaultReads, FullReads, LetterReads, EndShortReads DEF ProcessArgs

(* A command line is accepted exactly when it can be read, for every table *)
(* of options and every command line (processArgs, argvProcessor.cpp).     *)
THEOREM LinesReadAreAccepted == ArgvSpec => []AcceptsReadable
<1>1. ReadInv => AcceptsReadable
  <2> SUFFICES ASSUME ReadInv, status # "scanning"
               PROVE  status = "ARGV_ERROR" <=> ~Readable(argv) \/ Confused(argv)
    BY DEF AcceptsReadable
  <2>1. CASE status = "ARGV_ERROR"
    BY <2>1 DEF ReadInv
  <2>2. CASE status # "ARGV_ERROR"
    <3>1. argv \in Seq(CommandWords) /\ i = Len(argv) + 1 /\ Reading
      BY <2>2 DEF ReadInv, IInv
    <3>2. Here = Places(argv)
      BY <3>1, AllReached DEF Here
    <3>3. Legible(argv, Places(argv)) /\ Apart(argv, Places(argv))
      BY <3>1, <3>2 DEF Reading
    <3>4. Readable(argv)
      BY <3>3 DEF Readable, Legible, Apart
    <3>5. ~Confused(argv)
      BY <3>3 DEF Confused, Apart
    <3> QED
      BY <2>2, <3>4, <3>5
  <2> QED
    BY <2>1, <2>2
<1> QED
  BY <1>1, InitReads, NextReads, PTL DEF ArgvSpec

-----------------------------------------------------------------------------
(* The default arguments are told apart by how many come before them.      *)
AllPlain(line) == {p \in DOMAIN line \ Values(line) : line[p].form = "plain"}
NthPlain(line, k) ==
  CHOOSE p \in AllPlain(line) : Cardinality({r \in AllPlain(line) : r < p}) = k - 1

LEMMA MorePlainBefore ==
  ASSUME NEW line \in Seq(CommandWords), NEW p \in AllPlain(line), NEW q \in AllPlain(line), p < q
  PROVE  Cardinality(PlainBefore(line, p)) < Cardinality(PlainBefore(line, q))
<1>1. p \in 1..Len(line) /\ q \in 1..Len(line)
  BY DEF AllPlain
<1>2. p \notin PlainBefore(line, p)
  BY <1>1 DEF PlainBefore
<1>3. PlainBefore(line, p) \union {p} \in SUBSET PlainBefore(line, q)
  BY <1>1 DEF PlainBefore, AllPlain
<1>4. Cardinality(PlainBefore(line, p) \union {p}) = Cardinality(PlainBefore(line, p)) + 1
  BY <1>2, PlainFinite, FS_AddElement
<1>5. Cardinality(PlainBefore(line, p) \union {p}) <= Cardinality(PlainBefore(line, q))
  BY <1>3, PlainFinite, FS_Subset
<1> QED
  BY <1>4, <1>5, PlainFinite

LEMMA NthPlainIs ==
  ASSUME NEW line \in Seq(CommandWords), NEW k, NEW p \in AllPlain(line),
         Cardinality(PlainBefore(line, p)) = k - 1
  PROVE  NthPlain(line, k) = p
<1>1. \A q : {r \in AllPlain(line) : r < q} = PlainBefore(line, q)
  BY DEF AllPlain, PlainBefore
<1>2. NthPlain(line, k) = CHOOSE q \in AllPlain(line) : Cardinality(PlainBefore(line, q)) = k - 1
  BY <1>1 DEF NthPlain
<1>3. ASSUME NEW q \in AllPlain(line), Cardinality(PlainBefore(line, q)) = k - 1 PROVE q = p
  <2>1. p \in Nat /\ q \in Nat
    BY DEF AllPlain
  <2>2. ~(p < q) /\ ~(q < p)
    BY <1>3, MorePlainBefore, PlainFinite
  <2> QED
    BY <2>1, <2>2
<1> QED
  BY <1>2, <1>3

(* What is stored is what the line says: each option with its own value,   *)
(* and the words left over in order (processArgs, argvProcessor.cpp).      *)
THEOREM StoredAsMeant == ArgvSpec => []StoresWhatIsMeant
<1>1. ReadInv => StoresWhatIsMeant
  <2> SUFFICES ASSUME ReadInv, status \in {"ARGV_SUCCESS", "ARGV_HELP_MSG"}
               PROVE  /\ {flags[k] : k \in DOMAIN flags} =
                           {Meant(argv, place) : place \in Places(argv)}
                      /\ Len(flags) = Cardinality(Places(argv))
                      /\ Len(defaultArgs) =
                           IF Cardinality(AllPlain(argv)) < MaxDefaults
                           THEN Cardinality(AllPlain(argv)) ELSE MaxDefaults
                      /\ \A k \in DOMAIN defaultArgs :
                           defaultArgs[k] = argv[NthPlain(argv, k)].text
    BY DEF StoresWhatIsMeant, AllPlain, NthPlain
  <2>1. argv \in Seq(CommandWords) /\ i = Len(argv) + 1 /\ Reading
    BY DEF ReadInv, IInv
  <2>2. Here = Places(argv) /\ PlainBefore(argv, i) = AllPlain(argv)
    BY <2>1, AllReached DEF Here, AllPlain
  <2>3. Stored(argv, flags, Places(argv)) /\ LeftOver(argv, defaultArgs, i)
    BY <2>1, <2>2 DEF Reading
  <2>4. {flags[k] : k \in DOMAIN flags} = {Meant(argv, place) : place \in Places(argv)}
    BY <2>3 DEF Stored
  <2>5. Len(flags) = Cardinality(Places(argv))
    BY <2>3 DEF Stored
  <2>6. Len(defaultArgs) = IF Cardinality(AllPlain(argv)) < MaxDefaults
                           THEN Cardinality(AllPlain(argv)) ELSE MaxDefaults
    BY <2>2, <2>3 DEF LeftOver
  <2>7. ASSUME NEW k \in DOMAIN defaultArgs PROVE defaultArgs[k] = argv[NthPlain(argv, k)].text
    <3>1. PICK r \in AllPlain(argv) :
            Cardinality(PlainBefore(argv, r)) = k - 1 /\ defaultArgs[k] = argv[r].text
      BY <2>2, <2>3 DEF LeftOver
    <3> QED
      BY <2>1, <3>1, NthPlainIs
  <2> QED
    BY <2>4, <2>5, <2>6, <2>7
<1> QED
  BY <1>1, InitReads, NextReads, PTL DEF ArgvSpec

=============================================================================

--------------------------- MODULE ArgvProcessor ---------------------------
(***************************************************************************)
(* The command line scanner both programs carry a copy of                  *)
(* (argvProcessor.cpp).  processArgs walks the words; a word that does not *)
(* begin with `-' is a default argument, `--name' names one option, `-abc' *)
(* one per letter.  An option that is not blank takes the next word that   *)
(* nothing has taken, whatever it looks like.                              *)
(*                                                                         *)
(* A word is [form, text, letters]; `text' is the word, `letters' what     *)
(* follows the `-' of a short word.  argv starts with the word after the   *)
(* program's name.                                                         *)
(***************************************************************************)
EXTENDS Integers, Sequences, FiniteSets

CONSTANTS
  Registered,  \* flagsDescriptions: a sequence of [type, letter, short, full]
  Lines,       \* command lines
  MaxDefaults, \* MAX_DEFAULT_ARGS
  IntOf(_)     \* what sscanf("%d") makes of a text, 0 when it fails

(* What the registrations of both main.c agree on: full names differ, and  *)
(* so do the letters of those short names that have one; no option has the *)
(* short name another one has as its full name.                            *)
ASSUME RegisteredAssumption ==
  /\ Registered \in Seq([type : {"blank", "int", "string"},
                         letter : STRING, short : STRING, full : STRING])
  /\ \A a, b \in DOMAIN Registered : a # b =>
       /\ Registered[a].full # Registered[b].full
       /\ Registered[a].short # Registered[b].full
       /\ Registered[a].letter # "" => Registered[a].letter # Registered[b].letter

ASSUME MaxDefaultsAssumption == MaxDefaults \in Nat

Form == {"plain", "full", "short"}
CommandWords == [form : Form, text : STRING, letters : Seq(STRING)]

ASSUME LinesAssumption == Lines \subseteq Seq(CommandWords)

VARIABLES
  argv,
  i,           \* the word being scanned
  letter,      \* letters of it scanned, and
  values,      \*   words they took, in scanShortArguments
  flags,       \* flags.flags
  defaultArgs,
  status       \* argvStatus, or "scanning"

argvVars == <<argv, i, letter, values, flags, defaultArgs, status>>

Options == {Registered[k] : k \in DOMAIN Registered}
HasValue(desc) == desc.type # "blank"
Owed(desc) == IF HasValue(desc) THEN 1 ELSE 0

(* The " " of an option without a short name has no letter after its first *)
(* character.                                                              *)
FullMatches(word)   == {d \in Options : d.full = word.text}
ShortMatches(char) == {d \in Options : d.letter = char /\ char # ""}

FindFlag(name) == {k \in DOMAIN flags : name \in {flags[k].desc.short, flags[k].desc.full}}
IsFlagSet(name) == FindFlag(name) # {}

NoValue == [int |-> 0, string |-> ""]
GetFlagValue(name) ==
  IF IsFlagSet(name) THEN flags[CHOOSE k \in FindFlag(name) : TRUE].val ELSE NoValue

-----------------------------------------------------------------------------
ArgvInit ==
  /\ argv \in Lines
  /\ i = 1 /\ letter = 0 /\ values = 0
  /\ flags = <<>> /\ defaultArgs = <<>>
  /\ status = "scanning"

Word == argv[i]
ScanningA(form) == status = "scanning" /\ i <= Len(argv) /\ Word.form = form

(* deleteFlags; every negative remainToScan ends the scan.                 *)
WrongFormat ==
  /\ status' = "ARGV_ERROR"
  /\ flags' = <<>>
  /\ UNCHANGED <<argv, i, letter, values, defaultArgs>>

KeepDefault_NoLimit ==
  /\ ScanningA("plain")
  /\ defaultArgs' = Append(defaultArgs, Word.text)
  /\ i' = i + 1
  /\ UNCHANGED <<argv, letter, values, flags, status>>

KeepDefault ==
  /\ ScanningA("plain")
  /\ defaultArgs' = IF Len(defaultArgs) # MaxDefaults THEN Append(defaultArgs, Word.text)
                                                      ELSE defaultArgs
  /\ i' = i + 1
  /\ UNCHANGED <<argv, letter, values, flags, status>>

(* The word the option taken now would take as its value. *)
ValueAt == i + values + 1

Scanned(type, text) ==
  CASE type = "int"    -> [int |-> IntOf(text), string |-> ""]
    [] type = "string" -> [int |-> 0, string |-> text]

(* scanToFlag and addFlag, without the moves of the caller.                *)
NoParameter_OneEarly(desc) == HasValue(desc) /\ ValueAt >= Len(argv)

NoParameter(desc) == HasValue(desc) /\ ValueAt > Len(argv)

Refuses(desc) == FindFlag(desc.short) # {} \/ Len(flags) = Len(Registered)

AddFlag(desc) ==
  flags' = Append(flags, [desc |-> desc,
                          val  |-> IF HasValue(desc) THEN Scanned(desc.type, argv[ValueAt].text)
                                                     ELSE NoValue])

ScanFullArgument_StaysOnValue ==
  /\ ScanningA("full")
  /\ \/ FullMatches(Word) = {} /\ WrongFormat
     \/ \E desc \in FullMatches(Word) :
          IF NoParameter(desc) \/ Refuses(desc)
          THEN WrongFormat
          ELSE /\ AddFlag(desc)
               /\ i' = i + 1
               /\ UNCHANGED <<argv, letter, values, defaultArgs, status>>

ScanFullArgument ==
  /\ ScanningA("full")
  /\ \/ FullMatches(Word) = {} /\ WrongFormat
     \/ \E desc \in FullMatches(Word) :
          IF NoParameter(desc) \/ Refuses(desc)
          THEN WrongFormat
          ELSE /\ AddFlag(desc)
               /\ i' = i + 1 + Owed(desc)
               /\ UNCHANGED <<argv, letter, values, defaultArgs, status>>

(* scanShortArguments: one letter, and the end of the word.                *)
ScanLetter_SameValue ==
  /\ ScanningA("short") /\ letter < Len(Word.letters)
  /\ LET matches == ShortMatches(Word.letters[letter + 1])
     IN \/ matches = {} /\ WrongFormat
        \/ \E desc \in matches :
             IF NoParameter(desc) \/ Refuses(desc)
             THEN WrongFormat
             ELSE /\ AddFlag(desc)
                  /\ letter' = letter + 1
                  /\ values' = IF HasValue(desc) THEN 1 ELSE values
                  /\ UNCHANGED <<argv, i, defaultArgs, status>>

ScanLetter ==
  /\ ScanningA("short") /\ letter < Len(Word.letters)
  /\ LET matches == ShortMatches(Word.letters[letter + 1])
     IN \/ matches = {} /\ WrongFormat
        \/ \E desc \in matches :
             IF NoParameter(desc) \/ Refuses(desc)
             THEN WrongFormat
             ELSE /\ AddFlag(desc)
                  /\ letter' = letter + 1
                  /\ values' = values + Owed(desc)
                  /\ UNCHANGED <<argv, i, defaultArgs, status>>

EndShortArguments ==
  /\ ScanningA("short") /\ letter = Len(Word.letters)
  /\ i' = i + values + 1
  /\ letter' = 0 /\ values' = 0
  /\ UNCHANGED <<argv, flags, defaultArgs, status>>

EndArgs ==
  /\ status = "scanning" /\ i > Len(argv)
  /\ status' = IF IsFlagSet("-h") THEN "ARGV_HELP_MSG" ELSE "ARGV_SUCCESS"
  /\ UNCHANGED <<argv, i, letter, values, flags, defaultArgs>>

ProcessArgs ==
  KeepDefault \/ ScanFullArgument \/ ScanLetter \/ EndShortArguments \/ EndArgs

ArgvSpec == ArgvInit /\ [][ProcessArgs]_argvVars

-----------------------------------------------------------------------------
(* What a command line means, without the scan.  A word is a value if and  *)
(* only if an option word before it, itself no value, names enough options *)
(* with values to reach it.                                                *)
NamedAt(word, k) ==
  CASE word.form = "full"  -> IF k = 1 THEN FullMatches(word) ELSE {}
    [] word.form = "short" -> IF k \in 1..Len(word.letters) THEN ShortMatches(word.letters[k])
                                                            ELSE {}
    [] OTHER -> {}

Names(word) == IF word.form = "full" THEN 1
               ELSE IF word.form = "short" THEN Len(word.letters) ELSE 0

OwedUpTo(word, n) ==
  Cardinality({k \in 1..n : \E d \in NamedAt(word, k) : HasValue(d)})
Owes(word) == OwedUpTo(word, Names(word))

AreValues(line, V) ==
  \A p \in DOMAIN line :
    p \in V <=> \E q \in (1..p-1) \ V : p <= q + Owes(line[q])

Values(line) == CHOOSE V \in SUBSET DOMAIN line : AreValues(line, V)

(* The places where the line names an option. *)
Places(line) ==
  UNION {{q} \X (1..Names(line[q])) : q \in DOMAIN line \ Values(line)}

OptionAt(line, place) ==
  CHOOSE d \in Options : d \in NamedAt(line[place[1]], place[2])
ValueOf(line, place) == place[1] + OwedUpTo(line[place[1]], place[2])

Readable(line) ==
  LET places == Places(line)
  IN /\ \A place \in places : NamedAt(line[place[1]], place[2]) # {}
     /\ \A place \in places :
          HasValue(OptionAt(line, place)) => ValueOf(line, place) <= Len(line)
     /\ \A a, b \in places : a # b => OptionAt(line, a) # OptionAt(line, b)

(* Two options without a letter share the short name " ", and addFlag      *)
(* takes the second for a repetition of the first.                         *)
Confused(line) ==
  \E a, b \in Places(line) :
    /\ OptionAt(line, a) # OptionAt(line, b)
    /\ OptionAt(line, a).short = OptionAt(line, b).short

Meant(line, place) ==
  LET d == OptionAt(line, place)
  IN [desc |-> d,
      val  |-> IF HasValue(d) THEN Scanned(d.type, line[ValueOf(line, place)].text)
                              ELSE NoValue]

-----------------------------------------------------------------------------
(* The scan is never on a word an earlier option took as its value, and it *)
(* has left none of an earlier option's values behind or ahead: a value    *)
(* that looks like an option is not scanned, nor a default argument taken. *)
OnNoValue ==
  status = "scanning" =>
    \A V \in SUBSET DOMAIN argv : AreValues(argv, V) =>
      /\ i \notin V
      /\ \A q \in (1..i-1) \ V : q + Owes(argv[q]) < i

(* A command line is accepted exactly when it can be read: its options are *)
(* registered, none is repeated, and each has its value - but for a line   *)
(* with two of the options that have no short name.                        *)
AcceptsReadable ==
  status # "scanning" =>
    (status = "ARGV_ERROR" <=> ~Readable(argv) \/ Confused(argv))

(* What is stored is what the line says: each option named, once, with its *)
(* own value, and the words left over, in order, as default arguments.     *)
StoresWhatIsMeant ==
  status \in {"ARGV_SUCCESS", "ARGV_HELP_MSG"} =>
    /\ {flags[k] : k \in DOMAIN flags} = {Meant(argv, place) : place \in Places(argv)}
    /\ Len(flags) = Cardinality(Places(argv))
    /\ LET plain == {p \in DOMAIN argv \ Values(argv) : argv[p].form = "plain"}
           nth(k) == CHOOSE p \in plain : Cardinality({r \in plain : r < p}) = k - 1
       IN /\ Len(defaultArgs) = IF Cardinality(plain) < MaxDefaults THEN Cardinality(plain)
                                                                   ELSE MaxDefaults
          /\ \A k \in DOMAIN defaultArgs : defaultArgs[k] = argv[nth(k)].text
=============================================================================

--------------------------- MODULE ProgramOptions ---------------------------
(***************************************************************************)
(* The options the two programs register (main.c of the front end and of   *)
(* the back end), as ArgvProcessor wants them, and the words of a command  *)
(* line.  An option without a letter has the short name " ".               *)
(***************************************************************************)
Option(type, letter, short, full) ==
  [type |-> type, letter |-> letter, short |-> short, full |-> full]

HelpOption == Option("blank", "h", "-h", "--help")

BackOptions ==
  <<Option("string", "i", "-i", "--input"),
    Option("string", "o", "-o", "--output"),
    Option("int", "t", "-t", "--tokens"),
    Option("int", "n", "-n", "--name-table-size"),
    Option("int", "l", "-l", "--names-len"),
    Option("blank", " ", "- ", "--taxes"),
    Option("blank", "", " ", "--spu"),
    Option("blank", "S", "-S", "--asm"),
    Option("blank", "", " ", "--lst"),
    HelpOption>>

FrontOptions ==
  <<Option("blank", "1", "-1", "-1"),
    Option("string", "i", "-i", "--input"),
    Option("string", "o", "-o", "--output"),
    Option("int", "t", "-t", "--tokens"),
    Option("int", "n", "-n", "--nameTableSize"),
    Option("int", "l", "-l", "--namesLen"),
    HelpOption>>

Plain(text)           == [form |-> "plain", text |-> text, letters |-> <<>>]
Full(text)            == [form |-> "full", text |-> text, letters |-> <<>>]
Short(text, letters) == [form |-> "short", text |-> text, letters |-> letters]
=============================================================================

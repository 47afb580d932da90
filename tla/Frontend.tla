------------------------------ MODULE Frontend ------------------------------
(***************************************************************************)
(* The front end as its user meets it: a program is written, translated to *)
(* an AST file (frontendRun forward), and the file is turned back into a   *)
(* program (backward), which is translated again, and so on.               *)
(*                                                                         *)
(* The program is a token sequence that ends with EOF; that the lexer      *)
(* makes it of the text is not part of this module.                        *)
(***************************************************************************)
EXTENDS Parser, ASTFile, ReverseFrontend

CONSTANTS
  Sessions,   \* name |-> how the user writes: pieces, token sequences to add; ending,
              \* what the program ends with, before EOF; max, a bound on the pieces
              \* added; nodes, option -t of the reader
  Start(_),   \* the programs a session begins with, ending and EOF left out
  Rules       \* the grammar the programs are held against

VARIABLES
  session,    \* which of the sessions this is
  program,    \* contents of the .mpp file
  file,       \* contents of the AST file
  status,     \* "editing", or what the last run ended with
  tree, ids,  \* context->tree and the name table at the end of the last run
  pieces,     \* how many pieces were added
  runs        \* history: forward and backward runs made

vars == <<session, program, file, status, tree, ids, pieces, runs>>

L == INSTANCE Language

NoFile == [names |-> [i \in Id |-> "none"], tree |-> <<>>]
This == Sessions[session]
Complete(text) == text \o This.ending \o <<Token("EOF")>>
Unfinished == SubSeq(program, 1, Len(program) - Len(This.ending) - 1)

Init ==
  /\ session \in DOMAIN Sessions
  /\ program \in {Complete(text) : text \in Start(session)}
  /\ file = NoFile /\ tree = Nothing /\ ids = NoFile.names
  /\ status = "editing" /\ pieces = 0 /\ runs = 0

Edit ==
  /\ runs = 0 /\ pieces < This.max
  /\ \E piece \in This.pieces : program' = Complete(Unfinished \o piece)
  /\ pieces' = pieces + 1
  /\ UNCHANGED <<session, file, status, tree, ids, runs>>

(* programToTree: the file is only written when there is a tree.           *)
EndProgramToTree(r) ==
  /\ status' = r.status /\ tree' = r.tree /\ ids' = r.ids
  /\ file' = IF r.status = "FRONTEND_SUCCESS" THEN WriteAsAST(r.tree, r.ids) ELSE file

ProgramToTree ==
  /\ runs \in {0, 2}
  /\ EndProgramToTree(SyntaxAnalysis(program))
  /\ runs' = runs + 1
  /\ UNCHANGED <<session, program, pieces>>

(* treeToProgram *)
TreeToProgram ==
  /\ runs \in {1, 3} /\ status = "FRONTEND_SUCCESS"
  /\ LET r == ReadFromAST(file, This.nodes)
     IN /\ tree' = r.tree /\ ids' = r.ids
        /\ IF r.status = "AST_SUCCESS"
           THEN status' = "FRONTEND_SUCCESS" /\ program' = WriteAsProgram(r.tree)
           ELSE status' = "FRONTEND_AST_ERROR" /\ UNCHANGED program
  /\ runs' = runs + 1
  /\ UNCHANGED <<session, file, pieces>>

Next == Edit \/ ProgramToTree \/ TreeToProgram
Spec == Init /\ [][Next]_vars

-----------------------------------------------------------------------------
Translated == runs = 1 /\ status = "FRONTEND_SUCCESS"
Formatted  == runs = 2 /\ status = "FRONTEND_SUCCESS"

(* Every program of the language is translated.                            *)
AcceptsLanguage == runs = 1 /\ L!Derives(Rules, program) => status = "FRONTEND_SUCCESS"

(* Nothing else is.                                                        *)
RefusesOthers == Translated => L!Derives(Rules, program)

(* Everything a program of the grammar says is in its tree, in the same    *)
(* order - unless it has a block right inside another or outside every     *)
(* statement: of such a block all but the first statement is lost.         *)
KeepsWords ==
  Translated /\ L!PlainBlocks(program) /\ L!Derives(L!Grammar, program) =>
    L!TreeWords(tree) = L!TextWords(program)

(* The tree groups the program the way the grammar does: written out with  *)
(* the brackets the grammar asks for, it is the program again.  For        *)
(* programs that start out written that way.                               *)
GroupsAsGrammar == Translated => L!ProgramText(tree) = program

(* Reading the file gives what was written, or an error; the types of the  *)
(* declared names too.                                                     *)
FileKeepsProgram ==
  [][runs' \in {2, 4} /\ status' = "FRONTEND_SUCCESS" =>
       /\ tree' = tree
       /\ \A i \in Id : ids[i].type # "UNDEFINED_ID" => ids'[i] = ids[i]]_vars

(* A program the reverse front end wrote has the tree it was written from, *)
(* if the tree has none of the shapes Reversible excepts.                  *)
ReverseKeepsReversible == [][Formatted /\ L!Reversible(tree) => tree' = tree]_vars

(* Formatting a formatted program changes nothing.                         *)
FormatterIsStable == [][runs = 3 /\ runs' = 4 => program' = program]_vars
=============================================================================

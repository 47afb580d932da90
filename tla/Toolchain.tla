----------------------------- MODULE Toolchain -----------------------------
(***************************************************************************)
(* The two programs as a user runs them: the command line, main, and what  *)
(* a run does to the files (main.c of both, frontend.c, backendInterface.c,*)
(* emitCtxCtor and emitCtxDtor of backend_x86_64.c).  A script is a        *)
(* sequence of commands that goes on whatever a command exits with, as     *)
(* x86Run.sh and spuRun.sh do; between commands the user may save a new    *)
(* version of the text.                                                    *)
(*                                                                         *)
(* A file is [kind, of, taxed, whole]: what it holds, the version of the   *)
(* text it comes from, whether the code taxes returns, and whether it is   *)
(* all there.  Its path is <<name, suffix>>.                               *)
(***************************************************************************)
EXTENDS Integers, Sequences, FiniteSets, ProgramOptions

CONSTANTS
  Scripts,       \* sequences of commands
  MaxDefaults, IntOf(_),
  Versions,      \* versions of the text, numbered from 1
  FileNames      \* file names on the command lines

VARIABLES
  argv, i, letter, values, flags, defaultArgs, status,  \* the running program's
  script,   \* commands not started
  program,  \* the running program, "" between commands
  exitCode,
  files,
  version,  \* of the text in "prog"
  flaw,     \* history: what is wrong with each version
  library,  \* whether stdlib.elf is there
  failed,   \* history: a command since the last save exited with an error,
  asked,    \*   and the last translation was to take taxes
  ran       \* what was run last

argvVars == <<argv, i, letter, values, flags, defaultArgs, status>>
given    == <<flaw, library>>
vars     == <<argvVars, script, program, exitCode, files, version, given, failed, asked, ran>>

F == INSTANCE ArgvProcessor WITH Registered <- FrontOptions, Lines <- {}
B == INSTANCE ArgvProcessor WITH Registered <- BackOptions, Lines <- {}

Suffixes == {"", ".asm2", ".asm", ".lst", ".elf"}
Absent == [kind |-> "none", of |-> 0, taxed |-> FALSE, whole |-> TRUE]
File(kind, v) == [Absent EXCEPT !.kind = kind, !.of = v]

(* Versions are legal or refused somewhere on the way: by the front end,   *)
(* by either back end on the way to code, or by the SPU one as it prints;  *)
(* "pays" is a legal one with a Pay.                                       *)
Flaws == {"", "pays", "front", "back", "spu"}

Init ==
  /\ script \in Scripts
  /\ program = "" /\ exitCode = 0
  /\ version = 1
  /\ flaw \in [Versions -> Flaws]
  /\ library \in BOOLEAN
  /\ files = [path \in FileNames \X Suffixes |->
                IF path = <<"prog", "">> THEN File("text", 1) ELSE Absent]
  /\ failed = FALSE /\ asked = FALSE /\ ran = Absent
  /\ argv = <<>> /\ i = 1 /\ letter = 0 /\ values = 0
  /\ flags = <<>> /\ defaultArgs = <<>> /\ status = "ARGV_SUCCESS"

-----------------------------------------------------------------------------
(* Commands: a program with its arguments, running what is in a file, or   *)
(* the user saving the next version.                                       *)
Command(does) == program = "" /\ script # <<>> /\ Head(script).does = does

Names(line, full) ==
  \E place \in B!Places(line) :
    \E option \in B!NamedAt(line[place[1]], place[2]) : option.full = full

Start ==
  \E name \in {"front.out", "back.out"} :
    /\ Command(name)
    /\ program' = name
    /\ argv' = Head(script).argv
    /\ i' = 1 /\ letter' = 0 /\ values' = 0
    /\ flags' = <<>> /\ defaultArgs' = <<>> /\ status' = "scanning"
    /\ asked' = IF name = "back.out" THEN Names(argv', "--taxes") ELSE asked
    /\ script' = Tail(script)
    /\ UNCHANGED <<exitCode, files, version, given, failed, ran>>

Save ==
  /\ Command("save") /\ version + 1 \in Versions
  /\ version' = version + 1 /\ failed' = FALSE
  /\ files' = [files EXCEPT ![<<"prog", "">>] = File("text", version + 1)]
  /\ script' = Tail(script)
  /\ UNCHANGED <<argvVars, program, exitCode, given, asked, ran>>

(* A whole executable is run by the system, a whole SPU program by the     *)
(* processor.                                                              *)
Run ==
  /\ Command("run")
  /\ LET file == files[Head(script).path]
     IN ran' = IF file.kind \in {"elf", "asm2"} /\ file.whole THEN file ELSE Absent
  /\ script' = Tail(script)
  /\ UNCHANGED <<argvVars, program, exitCode, files, version, given, failed, asked>>

ProcessArgs ==
  /\ \/ program = "front.out" /\ F!ProcessArgs
     \/ program = "back.out" /\ B!ProcessArgs
  /\ UNCHANGED <<script, program, exitCode, files, version, given, failed, asked, ran>>

-----------------------------------------------------------------------------
(* main after processArgs.                                                 *)
Exit(code) == program' = "" /\ exitCode' = code /\ failed' = (failed \/ code # 0)

Keep   == UNCHANGED <<argvVars, script, version, given, asked, ran>>
Leaves == Keep /\ UNCHANGED files

Accepted == program # "" /\ status = "ARGV_SUCCESS"

BadArguments ==
  /\ program # "" /\ status \in {"ARGV_ERROR", "ARGV_HELP_MSG"}
  /\ Exit(3) /\ Leaves

(* getFlagValue(...).string_; "" stands for NULL. *)
InputName_FlagFirst ==
  IF B!IsFlagSet("-i") \/ defaultArgs = <<>> THEN B!GetFlagValue("-i").string ELSE defaultArgs[1]

InputName ==
  IF defaultArgs # <<>> THEN defaultArgs[1] ELSE B!GetFlagValue("-i").string

OutputName == B!GetFlagValue("-o").string

NoFile ==
  /\ Accepted
  /\ InputName = "" \/ OutputName = ""
  /\ Exit(4) /\ Leaves

Input == IF InputName \in FileNames THEN files[<<InputName, "">>] ELSE Absent
Opened == Accepted /\ InputName # "" /\ OutputName # ""

(* readFileToStr in FrontendInit or BackendInit. *)
CannotOpen ==
  /\ Opened /\ Input.kind = "none"
  /\ Exit(1) /\ Leaves

(* frontendRun: nothing is written unless the whole input was understood.  *)
FrontendRun ==
  /\ Opened /\ Input.kind # "none" /\ program = "front.out"
  /\ LET backward == B!IsFlagSet("-1")
         understood == IF backward THEN Input.kind = "ast"
                       ELSE Input.kind = "text" /\ flaw[Input.of] # "front"
         result == File(IF backward THEN "text" ELSE "ast", Input.of)
     IN files' = IF understood THEN [files EXCEPT ![<<OutputName, "">>] = result] ELSE files
  /\ Exit(0) /\ Keep

-----------------------------------------------------------------------------
(* BackendRun.                                                             *)
Mode == [spu   |-> B!IsFlagSet("--spu"),
         lst   |-> B!IsFlagSet("--lst"),
         asm   |-> B!IsFlagSet("--asm"),
         taxes |-> B!IsFlagSet("--taxes")]

BackendReady == Opened /\ Input.kind # "none" /\ program = "back.out"

NotAnAST ==
  /\ BackendReady /\ Input.kind # "ast"
  /\ Exit(0) /\ Leaves

Fault == flaw[Input.of]

(* convertASTtoSPUAsm prints as it walks: an error leaves what it printed. *)
ConvertToSPU ==
  /\ BackendReady /\ Input.kind = "ast" /\ Mode.spu
  /\ LET code == [kind |-> "asm2", of |-> Input.of, taxed |-> Mode.taxes,
                  whole |-> Fault \notin {"back", "spu"}]
     IN files' = [files EXCEPT ![<<OutputName, ".asm2">>] = code]
  /\ Exit(IF Fault = "spu" THEN 1 ELSE 0) /\ Keep

(* convertASTtoIR: an error is only reported; a Pay that is to be taxed is *)
(* a TODO, which aborts.                                                   *)
ConvertFails ==
  /\ BackendReady /\ Input.kind = "ast" /\ ~Mode.spu
  /\ \/ Fault = "back" /\ Exit(0)
     \/ Fault = "pays" /\ Mode.taxes /\ Exit(134)
  /\ Leaves

(* translateIRtox86Asm.  Without stdlib.elf the executable is written all  *)
(* the same, a byte out of place.                                          *)
Executable == [File("elf", Input.of) EXCEPT !.whole = library]

Translated(executable) ==
  [path \in DOMAIN files |->
     CASE path = executable -> Executable
       [] path = <<OutputName, ".asm">> /\ Mode.asm -> File("asm", Input.of)
       [] path = <<OutputName, ".lst">> /\ Mode.lst -> File("lst", Input.of)
       [] OTHER -> files[path]]

Translate_Untaxed ==
  /\ BackendReady /\ Input.kind = "ast" /\ ~Mode.spu
  /\ Fault # "back"
  /\ files' = Translated(<<OutputName, ".elf">>)
  /\ Exit(0) /\ Keep

Translate ==
  /\ BackendReady /\ Input.kind = "ast" /\ ~Mode.spu
  /\ Fault # "back" /\ ~(Fault = "pays" /\ Mode.taxes)
  /\ files' = Translated(<<OutputName, ".elf">>)
  /\ Exit(0) /\ Keep

-----------------------------------------------------------------------------
Main ==
  \/ BadArguments \/ NoFile \/ CannotOpen
  \/ FrontendRun
  \/ NotAnAST \/ ConvertToSPU \/ ConvertFails \/ Translate

Next == Start \/ Save \/ Run \/ ProcessArgs \/ Main

Spec == Init /\ [][Next]_vars

-----------------------------------------------------------------------------
(* A script that compiles the text and runs what came out runs the present *)
(* version, if that is one both programs take and every command said it    *)
(* went well, and if the command line said --taxes (`add --taxes to get    *)
(* tax on every function return') the returns of what is run are taxed.    *)
(* That a text was refused, no command says: then the program of the       *)
(* version before may be run again.                                        *)
RunsPresentText ==
  [][Run /\ ~failed /\ library /\ flaw[version] \in {"", "pays"} =>
       /\ ran'.of = version
       /\ asked /\ flaw[version] = "pays" => ran'.taxed]_vars
=============================================================================

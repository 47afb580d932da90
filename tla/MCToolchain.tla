---------------------------- MODULE MCToolchain ----------------------------
(* TLC instances of Toolchain: the scripts of the repository, the command  *)
(* lines spelled in several ways, run on two versions of the text.         *)
EXTENDS Toolchain

Does(does, line) == [does |-> does, argv |-> line, path |-> <<"", "">>]
RunFile(name, suffix) == [does |-> "run", argv |-> <<>>, path |-> <<name, suffix>>]
SaveText == Does("save", <<>>)

O == Short("-o", <<"o">>)
I == Short("-i", <<"i">>)
Prog == Plain("prog")
Ast  == Plain("ast")

FrontLines ==
  {<<Prog, O, Ast>>, <<Short("-io", <<"i", "o">>), Prog, Ast>>,
   <<Short("-ot", <<"o", "t">>), Ast, Plain("9"), Prog>>, <<Prog>>}

X86Lines ==
  {<<Ast, O, Prog>>, <<I, Prog, Ast, O, Prog>>,
   <<Full("--output"), Prog, Full("--taxes"), Short("-", <<>>), Ast>>,
   <<Ast, Short("-So", <<"S", "o">>), Prog, Full("--lst")>>,
   <<Full("--help")>>, <<O, Prog>>}

SPULines ==
  {<<Full("--spu"), Ast, O, Prog>>,
   <<Full("--spu"), Short("- o", <<" ", "o">>), Prog, Ast>>,
   <<Full("--spu"), Full("--lst"), Ast, O, Prog>>}

Builds(front, lines, suffix) ==
  {<<Does("front.out", f), Does("back.out", b), RunFile("prog", suffix)>> :
     f \in front, b \in lines}

AnyBuild(front) == Builds(front, X86Lines, ".elf") \union Builds(front, SPULines, ".asm2")

(* The reverse front end between two compilations, as a formatter. *)
Format == <<Does("front.out", <<Ast, Short("-1", <<"1">>), O, Plain("again")>>),
            Does("front.out", <<Plain("again"), O, Ast>>)>>

Refresh == {<<SaveText>>, <<SaveText, Does("front.out", <<Plain("lost"), O, Ast>>)>>}

MCScripts ==
  {first \o refresh \o second :
     first \in AnyBuild({<<Prog, O, Ast>>}), refresh \in Refresh, second \in AnyBuild(FrontLines)}
  \union {<<build[1]>> \o Format \o <<build[2], build[3]>> : build \in AnyBuild(FrontLines)}
  \union {<<Does("back.out", <<Prog, O, Ast>>)>>,
          <<Does("front.out", <<Prog, Short("-1", <<"1">>), O, Ast>>)>>}

MCFileNames == {"prog", "ast", "again", "lost"}
MCIntOf(text) == IF text = "9" THEN 9 ELSE 0
=============================================================================

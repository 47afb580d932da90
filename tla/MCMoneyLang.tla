---------------------------- MODULE MCMoneyLang ----------------------------
(* TLC instances of MoneyLang: the families of programs of MCPrograms.     *)
EXTENDS MoneyLang

P == INSTANCE MCPrograms
MCId == P!MCId
MCNameTable(tree) == P!MCNameTable(tree)
MCAllPrograms == P!BlockPrograms \union P!FunctionPrograms
MCMissingArgument == P!MissingArgument
MCNodes(tree) == P!MCNodes(tree)
MCParamLists == {<<>>, <<P!a>>, <<P!b>>, <<P!a, P!b>>}
MCInputs == {<<5, 3>>}
=============================================================================

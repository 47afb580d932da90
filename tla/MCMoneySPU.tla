----------------------------- MODULE MCMoneySPU -----------------------------
(* TLC instances of MoneySPU: the families of programs of MCPrograms, the  *)
(* ones whose last statement is text taxed.                                *)
EXTENDS MoneySPU

P == INSTANCE MCPrograms
MCId == P!MCId
MCNameTable(tree) == P!MCNameTable(tree)
MCNodes(tree) == P!MCNodes(tree)
MCParameters(tree) ==
  UNION {P!MCNodes(n.l.r) : n \in PartsOf(tree, "FUNC_DECL")} \ {Nothing}
MCPrograms == P!BlockPrograms \union P!FunctionPrograms
MCTaxed(tree) == PartsOf(tree, "TEXT") # {}
MCInputs == {<<5, 3>>}
=============================================================================

---------------------------- MODULE MCScopeStack ----------------------------
(* TLC instance of ScopeStack: two names, functions of up to two parameters *)
(* and a short stack. *)
EXTENDS ScopeStack

MCId == {0, 1}
MCParamLists == {<<>>, <<0, 1>>}
=============================================================================

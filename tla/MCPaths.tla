------------------------------- MODULE MCPaths -------------------------------
(* Paths for TLC: the arguments of the calls.                              *)
EXTENDS Paths

MCArgs == {<<>>, <<"a">>, <<".", "a">>, <<"a", ".", "w", "v">>, <<"/", "a">>, <<".", "/", "a">>, <<".", ".">>, <<"/">>}
=============================================================================

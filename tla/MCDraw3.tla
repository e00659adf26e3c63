------------------------------ MODULE MCDraw3 ------------------------------
(***************************************************************************)
(* A configuration with one defined parameter.                             *)
(***************************************************************************)
EXTENDS Draw3

OneHome == [d \in Defined |-> SomePrefix]
AllBases == [p \in Prefixes |-> Prefixes]

=============================================================================

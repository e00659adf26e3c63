---------------------------- MODULE MCParcookIPC ----------------------------
(* Small instances of ParcookIPC for TLC. *)
EXTENDS ParcookIPC, TLC

\* one formula that refers to the minute averages (a parameter "n.1")
OneRef == <<SEM_MINUTE>>

Symmetry == Permutations(Readers) \cup Permutations(Tokens)
=============================================================================

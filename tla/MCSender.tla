------------------------------ MODULE MCSender ------------------------------
(***************************************************************************)
(* Two set points: each with a unit of its own, or both of the same unit.  *)
(***************************************************************************)
EXTENDS Sender

TwoConfigs == {<<1, 2>>, <<1, 1>>}

=============================================================================

-------------------------- MODULE MCParcookAverages --------------------------
(* Small instances of ParcookAverages for TLC. *)
EXTENDS ParcookAverages

\* one single parameter
SingleInfo == [p \in {1} |-> [type |-> "SINGLE", lsw_msw |-> "MSW", other |-> 1]]

\* one combined parameter, the high word first
CombinedInfo ==
  [p \in {1, 2} |-> [type |-> "COMBINED",
                     lsw_msw |-> IF p = 1 THEN "MSW" ELSE "LSW",
                     other |-> 3 - p]]

\* no data, the most negative datum and a positive one
SingleData == {SZARP_NO_DATA, 1 - Half, Half - 2}
CombinedData == {SZARP_NO_DATA, 1 - Half, 1}
=============================================================================

----------------------------- MODULE MCExecute -----------------------------
(* Instances of Execute: cycles of three seconds and one or two sections.  *)
EXTENDS Execute

Sec(due, retry, parallel, limitstr) ==
  [due |-> due, retry |-> retry, parallel |-> parallel, limitstr |-> limitstr]

(* One section, in every cycle, with a limit one second before the next.   *)
One == <<Sec({2, 3, 4}, 1, FALSE, 2)>>

(* The second section waits for the first.                                 *)
Two == <<Sec({2, 3}, 0, FALSE, 2), Sec({2, 3}, 1, FALSE, 2)>>

(* The second section may start while the first runs.                      *)
Mixed == <<Sec({2, 3}, 1, TRUE, 2), Sec({2, 3}, 0, FALSE, 0)>>
=============================================================================

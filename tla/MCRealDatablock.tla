--------------------------- MODULE MCRealDatablock ---------------------------
(***************************************************************************)
(* A parameter and the stamp, two months of three probes.                  *)
(***************************************************************************)
EXTENDS RealSearch

\* Cycles are saved up to the first of the second month, in order.  A block
\* with a flaw is not followed further: nothing is claimed of it, and as the
\* only block of the cache it leaves no trace when it is evicted.
Horizon ==
  /\ ~again /\ (time[1] = LastMonth => time[2] = 0)
  /\ \A m \in Months : blk[m].flaw = "none"

=============================================================================

-------------------------- MODULE MCIntervalMove --------------------------
(* Small instances of IntervalMove for TLC; the constants are in the cfg. *)
EXTENDS IntervalMove

(* A bound, as a CONSTRAINT: intervals are added in the order they begin.  *)
InOrder == \A i, j \in Ids : i < j => itv[i].begin <= itv[j].begin
=============================================================================

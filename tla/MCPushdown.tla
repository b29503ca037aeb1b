----------------------------- MODULE MCPushdown ----------------------------
(* Small instances of Pushdown for TLC; the constants are in the cfg files. *)
EXTENDS Pushdown

CONSTANTS
    AnyOrder,   \* bound: problems up to this many intervals come in any order
    AnyTime     \* bound: and end at this time

(* Larger problems are those of the pass: it adds an interval for every    *)
(* alloc operation, in program order, each of which has a time of its own. *)
InProgramOrder == \A i, j \in Ids : i < j => itv[i].begin < itv[j].begin

(* A bound, as a CONSTRAINT. *)
ProblemBound ==
    \/ Len(itv) <= AnyOrder /\ \A i \in Ids : itv[i].end <= AnyTime
    \/ InProgramOrder
=============================================================================

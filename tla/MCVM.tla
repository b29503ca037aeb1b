-------------------------------- MODULE MCVM --------------------------------
(* Small instances of VM for TLC. *)
EXTENDS VM

(* Bounds, as CONSTRAINTs: programs in which an operation reads the last   *)
(* result; a second run, and a second device model, where memory is kept   *)
(* between runs, of programs with at most MaxKept operations.              *)
CONSTANT MaxKept
Read(v) == \E i \in Ops : v \in body[i].reads
Returns == body # <<>> /\ body[Len(body)].op = "return"
MCPrograms == Cardinality({v \in Tensors \ {0} : ~Read(v)}) <= IF Returns THEN 0 ELSE 1
MCRuns ==
    forwards > 0 \/ active > 1 =>
        \/ status \in {"idle", "destroyed", "undefined"}
        \/ Is("dynamic") # {} /\ Len(body) <= MaxKept
=============================================================================

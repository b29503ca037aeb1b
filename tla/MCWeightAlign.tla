--------------------------- MODULE MCWeightAlign ---------------------------
(* Instances of WeightAlign: all buffers of up to MaxAddress bytes that    *)
(* hold two or three short weights.                                        *)
EXTENDS WeightAlign

CONSTANTS MaxBase, Lengths

MCLayouts ==
    {l \in [base : 0..MaxBase, origin : [Weights -> Address],
            length : [Weights -> Lengths], half : [Weights -> BOOLEAN]] :
        Apart(l) /\ \A w \in Weights : l.half[w] => l.length[w] % 2 = 0}
=============================================================================

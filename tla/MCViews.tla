------------------------------ MODULE MCViews ------------------------------
(* Small instances of Views for TLC: what chains are made of. *)
EXTENDS Views

CONSTANTS
    Indices,    \* of the index descriptions, where the axis has them
    MaxThird    \* bound: the elements a third operation may be applied to

MCSteps == {1, 2, -1, -2}
MCShapes == {<<4, 3>>, <<2, 1, 3>>}

Slice(axis, begin, end, step) ==
    [axis |-> axis, begin |-> begin, end |-> end, step |-> step, index |-> Missing]
At(axis, index) ==
    [axis |-> axis, begin |-> Missing, end |-> Missing, step |-> 1, index |-> index]

(* All ranges of the longest axis; with or without numbers that count from *)
(* the end.  Of any two axes, and of the others, a few.                    *)
All(shape, i, low, steps) ==
    LET n == shape[i]
    IN  {Slice(i - 1, b, e, s) : b \in {Missing} \cup low..n - 1, e \in {Missing} \cup low..n, s \in steps}
        \cup {At(i - 1, k) : k \in Indices \cap low..n - 1}

Few(shape, i, steps) ==
    {Slice(i - 1, 1, Missing, 1), At(i - 1, shape[i] - 1)}
    \cup {Slice(i - 1, Missing, Missing, s) : s \in steps \cap {2, -1}}

Longest(shape) == CHOOSE i \in Axes(shape) : \A j \in Axes(shape) : shape[j] <= shape[i]

AllDescs(shape, low, steps) ==
    {{d} : d \in All(shape, Longest(shape), low, steps)}
    \cup UNION {{{d, e} : d \in Few(shape, i, steps), e \in Few(shape, j, steps)} :
                    i, j \in Axes(shape)}

IsValid(shape, D) == {descs \in D : Valid(descs, shape)}
MCDescs(shape) == IsValid(shape, AllDescs(shape, -1, MCSteps))
BackDescs(shape) ==
    LET axis == Longest(shape) - 1
    IN  {{Slice(axis, 0, -1, 1)}, {Slice(axis, -2, Missing, 1)}, {Slice(axis, Missing, Missing, -1)}}
MCInstrDescs(shape) == IsValid(shape, AllDescs(shape, 0, {s \in MCSteps : s > 0}) \cup BackDescs(shape))

MCPatterns(shape) ==
    CASE Len(shape) = 1 -> {<<0, -1>>, <<-1, 0>>}
      [] Len(shape) = 2 -> {<<1, 0>>, <<0, -1, 1>>}
      [] Len(shape) = 3 -> {<<2, 0, 1>>, <<0, 2, 1>>}
      [] Len(shape) = 4 -> {<<3, 0, 2, 1>>}
      [] OTHER -> {[i \in Axes(shape) |-> Len(shape) - i]}
MCPermutations(shape) == {p \in MCPatterns(shape) : Len(p) = Len(shape)}
MCNewShapes(shape) ==
    LET n == NumElems(shape)
    IN  {<<n>>, <<1, -1>>} \cup (IF n % 2 = 0 THEN {<<2, -1>>, <<-1, 2>>} ELSE {})
                           \cup (IF n % 3 = 0 THEN {<<3, -1>>} ELSE {})
MCBroadcastShapes(shape) ==
    LET repeated == {[shape EXCEPT ![i] = 2] : i \in {j \in Axes(shape) : shape[j] = 1}}
    IN  repeated \cup {<<2>> \o s : s \in {shape} \cup repeated}

(* They are what Views takes them for; here, of shapes of up to 3 axes.    *)
ASSUME MCOperandsAssumption ==
    \A rank \in 1..3 : \A shape \in [1..rank -> 1..3] : OperandsFit(shape)

(* Bounds, as a CONSTRAINT: a third operation only on a small tensor; and  *)
(* none after one that could not take its operand.                         *)
ChainBound ==
    /\ unfit = {}
    /\ forwarded + executed = 2 => NumElems(IF isDynamicShape THEN meant.shape ELSE value.shape) <= MaxThird
=============================================================================

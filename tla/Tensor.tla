------------------------------- MODULE Tensor ------------------------------
(***************************************************************************)
(* What the operations that rearrange tensors mean: a tensor is a shape    *)
(* and its elements in row-major order, and an operation says which        *)
(* element comes where.  Nothing is said of memory; MemoryForward (the     *)
(* compiler's views) and LayoutInstr (the runtime's instructions) are      *)
(* checked against this.                                                   *)
(***************************************************************************)
EXTENDS Integers, Sequences, FiniteSets

CONSTANTS
    Missing,    \* a member of an index description that is not there
    Unset       \* what memory holds before anything is written

ASSUME MissingAssumption == Missing \notin Int

Axes(shape) == 1..Len(shape)

(* The distance between neighbours along an axis, in row-major order. *)
RowMajor(shape) ==
    LET stride[i \in Axes(shape)] ==
            IF i = Len(shape) THEN 1 ELSE shape[i + 1] * stride[i + 1]
    IN  [i \in Axes(shape) |-> stride[i]]

NumElems(shape) == shape[1] * RowMajor(shape)[1]
Places(shape) == 0..NumElems(shape) - 1

(* The k-th place of a shape, as one coordinate for each axis; and back. *)
Coords(shape, k) ==
    LET stride == RowMajor(shape) IN [i \in Axes(shape) |-> (k \div stride[i]) % shape[i]]

Dot(coords, stride) ==
    LET sum[i \in 0..Len(stride)] ==
            IF i = 0 THEN 0 ELSE sum[i - 1] + coords[i] * stride[i]
    IN  sum[Len(stride)]

Place(shape, coords) == Dot(coords, RowMajor(shape))

(* A tensor of the shape whose element at given coordinates is At(coords). *)
Tensor(shape, At(_)) ==
    [shape |-> shape, data |-> [k \in Places(shape) |-> At(Coords(shape, k))]]

ElementAt(t, coords) == t.data[Place(t.shape, coords)]

(***************************************************************************)
(* Index descriptions, as in x[1:4:2] and x[3]: of an axis (from 0), the   *)
(* range begin:end:step, or the index.  A negative number counts from the  *)
(* end.  The positions they select along an axis of n.                     *)
(***************************************************************************)
FromEnd(v, n) == IF v < 0 THEN v + n ELSE v

Selected(d, n) ==
    IF d.index # Missing THEN <<FromEnd(d.index, n)>>
    ELSE LET up == d.step > 0
             first == IF d.begin # Missing THEN FromEnd(d.begin, n) ELSE IF up THEN 0 ELSE n - 1
             limit == IF d.end # Missing THEN FromEnd(d.end, n) ELSE IF up THEN n ELSE -1
             within(p) == IF up THEN p < limit ELSE p > limit
             count == Cardinality({k \in 0..n - 1 : within(first + k * d.step)})
         IN  [k \in 1..count |-> first + (k - 1) * d.step]

DescOf(descs, i) == CHOOSE d \in descs : d.axis = i - 1
Described(descs, i) == \E d \in descs : d.axis = i - 1
SelectedAlong(descs, shape, i) ==
    IF Described(descs, i) THEN Selected(DescOf(descs, i), shape[i])
    ELSE [k \in 1..shape[i] |-> k - 1]

(* MegEngine refuses an index outside its axis and an empty range. *)
Valid(descs, shape) ==
    /\ \A d, e \in descs : d.axis = e.axis => d = e
    /\ \A d \in descs : d.axis + 1 \in Axes(shape)
    /\ \A i \in Axes(shape) :
         LET sel == SelectedAlong(descs, shape, i)
         IN  sel # <<>> /\ \A k \in DOMAIN sel : sel[k] \in 0..shape[i] - 1

(* The axes that are left: not those with an index, but at least one. *)
Kept(descs, shape) ==
    LET ranged == {i \in Axes(shape) : Described(descs, i) => DescOf(descs, i).index = Missing}
    IN  IF ranged # {} THEN ranged ELSE {1}

(* The coordinates in the source of the selected element at coords. *)
SourceCoords(descs, shape, coords) ==
    LET kept == Kept(descs, shape)
        at(i) == IF i \in kept THEN coords[Cardinality({j \in kept : j <= i})] ELSE 0
    IN  [i \in Axes(shape) |-> SelectedAlong(descs, shape, i)[at(i) + 1]]

SelectedShape(descs, shape) ==
    LET kept == Kept(descs, shape)
        axis(p) == CHOOSE i \in kept : Cardinality({j \in kept : j <= i}) = p
    IN  [p \in 1..Cardinality(kept) |-> Len(SelectedAlong(descs, shape, axis(p)))]

SubTensor(t, descs) ==
    LET At(coords) == ElementAt(t, SourceCoords(descs, t.shape, coords))
    IN  Tensor(SelectedShape(descs, t.shape), At)

(* Memory mem after the writes, each a place and what is written there. *)
Written(mem, writes) ==
    [c \in DOMAIN mem |->
        IF \E w \in writes : w.at = c THEN (CHOOSE w \in writes : w.at = c).elem ELSE mem[c]]

(* The selected elements are replaced by those of v, in row-major order. *)
SetSubTensor(t, descs, v) ==
    LET target(k) == Place(t.shape, SourceCoords(descs, t.shape, Coords(v.shape, k)))
        writes == {[at |-> target(k), elem |-> v.data[k]] : k \in Places(v.shape)}
    IN  [t EXCEPT !.data = Written(@, writes)]

(* Axis i of the result is axis pattern[i] (from 0); -1 adds an axis. *)
DimShuffle(t, pattern) ==
    LET shape == [i \in DOMAIN pattern |-> IF pattern[i] < 0 THEN 1 ELSE t.shape[pattern[i] + 1]]
        At(coords) == ElementAt(t, [a \in Axes(t.shape) |->
                          coords[CHOOSE i \in DOMAIN pattern : pattern[i] = a - 1]])
    IN  Tensor(shape, At)

(* One extent may be -1: whatever the others leave. *)
ResolvedShape(n, shape) ==
    LET known == [i \in DOMAIN shape |-> IF shape[i] < 0 THEN 1 ELSE shape[i]]
    IN  [i \in DOMAIN shape |-> IF shape[i] < 0 THEN n \div NumElems(known) ELSE shape[i]]
ReShape(t, shape) == [t EXCEPT !.shape = ResolvedShape(NumElems(t.shape), shape)]

(* An axis of extent 1 is repeated, and so is the tensor along new first   *)
(* axes.                                                                   *)
BroadCast(t, shape) ==
    LET new == Len(shape) - Len(t.shape)
        At(coords) == ElementAt(t, [i \in Axes(t.shape) |-> IF t.shape[i] = 1 THEN 0 ELSE coords[new + i]])
    IN  Tensor(shape, At)

(* Tensor u after tensor t along an axis (from 1). *)
ConCat(t, u, axis) ==
    LET n == t.shape[axis]
        At(coords) == IF coords[axis] < n THEN ElementAt(t, coords)
                      ELSE ElementAt(u, [coords EXCEPT ![axis] = @ - n])
    IN  Tensor([t.shape EXCEPT ![axis] = @ + u.shape[axis]], At)
=============================================================================

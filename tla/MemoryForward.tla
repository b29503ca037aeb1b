--------------------------- MODULE MemoryForward ---------------------------
(***************************************************************************)
(* The compiler's way to rearrange a tensor whose shape is known: no       *)
(* element moves.  memoryForward() of Kernel::Reshape, Dimshuffle and      *)
(* Subtensor (KernelDialect.cpp) gives the result a memref type, that is,  *)
(* a shape, a stride for each axis and an offset, into the memory of the   *)
(* input; the memory forwarding pass copies (Relayout) where a user cannot *)
(* take the layout, or where no layout exists.  SetSubtensor and Concat    *)
(* write through such a view (MGBToKernel.cpp).  When the memory has been  *)
(* planned, the static memory planning pass computes all views again from  *)
(* the planned address (StaticMemoryPlanning.cpp).                         *)
(* Strides count elements, the offset bytes.                               *)
(***************************************************************************)
EXTENDS Tensor, SequencesExt

CONSTANTS
    DtypeSize,  \* the bytes of an element
    PlanAddr    \* where the planning pass places the buffer (bytes)

ASSUME DtypeAssumption == DtypeSize \in Nat \ {0} /\ PlanAddr \in Nat

(* buffer is the memory that memref is a view of, and value the tensor     *)
(* that the view stands for.  planned is the same view, from PlanAddr.     *)
(* compiles is FALSE once an assertion has failed.                         *)
VARIABLES value, buffer, memref, planned, compiles, forwarded
views == <<value, buffer, memref, planned, compiles, forwarded>>

Contiguous(shape) == [shape |-> shape, stride |-> RowMajor(shape), offset |-> 0]

(* assignOffset(): where the plan puts what was at the start of a buffer.  *)
assignOffset(layout) == [layout EXCEPT !.offset = PlanAddr]

(* What the memory of a view holds, element by element. *)
Cell(layout, k) == layout.offset \div DtypeSize + Dot(Coords(layout.shape, k), layout.stride)
Held(mem, c) == IF c \in DOMAIN mem THEN mem[c] ELSE Unset
Content(mem, layout) ==
    [shape |-> layout.shape, data |-> [k \in Places(layout.shape) |-> Held(mem, Cell(layout, k))]]

(* RelayoutKernel: the elements of t are written through a view. *)
Relayouted(mem, layout, t) ==
    LET writes == {[at |-> Cell(layout, k), elem |-> t.data[k]] : k \in Places(layout.shape)}
    IN  Written(mem, writes)
Blank(shape) == [c \in Places(shape) |-> Unset]

(* isContiguous(): a kernel may go through the elements one by one. *)
isContiguous(layout) ==
    LET dense == RowMajor(layout.shape)
    IN  \A i \in Axes(layout.shape) : layout.shape[i] > 1 => layout.stride[i] = dense[i]

-----------------------------------------------------------------------------
(* TensorLayout::try_reshape() of megdnn (not in the repository): the      *)
(* layout of the new shape that reads the same elements, if there is one.  *)
(* An axis of extent 1 may have any stride.                                *)
reshaped(layout, shape) ==
    LET dense == RowMajor(shape)
        stride(i) == IF shape[i] = 1 THEN dense[i] ELSE Cell(layout, dense[i]) - Cell(layout, 0)
    IN  [layout EXCEPT !.shape = shape, !.stride = [i \in Axes(shape) |-> stride(i)]]
try_reshape(layout, shape) ==
    \A k \in Places(shape) : Cell(reshaped(layout, shape), k) = Cell(layout, k)

(* A slip: the offset of the input is lost. *)
Reshape_without_offset(layout, shape) ==
    [reshaped(layout, ResolvedShape(NumElems(layout.shape), shape)) EXCEPT !.offset = 0]

Reshape_memoryForward(layout, shape) == reshaped(layout, ResolvedShape(NumElems(layout.shape), shape))

(* -1 adds an axis, with the stride of the axis before. *)
Dimshuffle_memoryForward(layout, pattern) ==
    LET added(i) == Cardinality({j \in 1..i : pattern[j] < 0})
        stride(i) == IF pattern[i] >= 0 THEN layout.stride[pattern[i] + 1]
                     ELSE IF i > 1 THEN layout.stride[i - added(i)]
                     ELSE layout.stride[1] * layout.shape[1]
    IN  [layout EXCEPT
            !.shape = [i \in DOMAIN pattern |-> IF pattern[i] < 0 THEN 1 ELSE layout.shape[pattern[i] + 1]],
            !.stride = [i \in DOMAIN pattern |-> stride(i)]]

(***************************************************************************)
(* Subtensor: the importer writes a default, and a flag, for a member that *)
(* is missing; the index is looked at by its value, and its default is -1. *)
(***************************************************************************)
index_of(d) == IF d.index = Missing THEN -1 ELSE d.index
begin_of(d, n) ==
    IF d.begin # Missing THEN FromEnd(d.begin, n)
    ELSE IF d.index = Missing /\ d.step < 0 THEN n - 1 ELSE 0
end_of(d, n) ==
    IF d.end # Missing THEN FromEnd(d.end, n)
    ELSE IF d.index # Missing THEN n - 1
    ELSE IF d.step < 0 THEN -1 ELSE n

Abs(v) == IF v < 0 THEN -v ELSE v

(* A slip: the offset is counted in steps. *)
first_byte_stepped(layout, axis, begin, step) == layout.stride[axis] * step * begin * DtypeSize
first_byte(layout, axis, begin, step) == layout.stride[axis] * begin * DtypeSize

(* Axes of extent 1 get the stride that a contiguous layout would have. *)
StridesRelaxed(layout, axis) ==
    LET n == Len(layout.shape)
        a == IF layout.shape[axis] # 1 /\ axis > 1 THEN axis - 1 ELSE axis
        stride == IF a < n THEN layout.stride[a + 1] * layout.shape[a + 1] ELSE 1
        run == {i \in 1..a : \A j \in i..a : layout.shape[j] = 1}
    IN  [layout EXCEPT !.stride = [i \in 1..n |-> IF i \in run THEN stride ELSE @[i]]]

merge(inp, layout, d) ==
    LET axis == d.axis + 1
        indexed == index_of(d) # -1
        begin == IF indexed THEN index_of(d) ELSE begin_of(d, inp.shape[axis])
        step == IF indexed THEN 1 ELSE d.step
        end == IF indexed THEN begin + step ELSE end_of(d, inp.shape[axis])
        extent == (Abs(end - begin) + Abs(step) - 1) \div Abs(step)
        sliced == [layout EXCEPT !.shape[axis] = extent, !.stride[axis] = @ * step]
    IN  [StridesRelaxed(sliced, axis) EXCEPT !.offset = @ + first_byte(layout, axis, begin, step)]

(* CC_ASSERT in merge(): the range is not empty. *)
RangeOk(inp, d) ==
    index_of(d) = -1 =>
        LET n == inp.shape[d.axis + 1]
        IN  IF d.step > 0 THEN begin_of(d, n) < end_of(d, n) ELSE begin_of(d, n) > end_of(d, n)

(* The descriptions are sorted: the last axis is sliced first, and of the  *)
(* axes that have an index the last one is removed first.                  *)
Sliced(layout, descs) ==
    LET n == Len(layout.shape)
        from[i \in 1..n + 1] ==    \* the axes from i on are sliced
            IF i = n + 1 THEN layout
            ELSE IF Described(descs, i) THEN merge(layout, from[i + 1], DescOf(descs, i))
            ELSE from[i + 1]
    IN  from[1]

RemoveAxis(layout, i) ==
    IF Len(layout.shape) = 1 THEN layout
    ELSE [layout EXCEPT !.shape = RemoveAt(@, i), !.stride = RemoveAt(@, i)]

Subtensor_memoryForward(layout, descs) ==
    LET n == Len(layout.shape)
        from[i \in 1..n + 1] ==    \* the axes from i on are removed
            IF i = n + 1 THEN Sliced(layout, descs)
            ELSE IF Described(descs, i) /\ index_of(DescOf(descs, i)) # -1
            THEN RemoveAxis(from[i + 1], i)
            ELSE from[i + 1]
    IN  from[1]

-----------------------------------------------------------------------------
(* An input of the function: elements 0, 1, ... in a buffer of their own. *)
InitViews(shapes) ==
    \E shape \in shapes :
        /\ value = [shape |-> shape, data |-> [k \in Places(shape) |-> k]]
        /\ buffer = value.data
        /\ memref = Contiguous(shape) /\ planned = assignOffset(Contiguous(shape))
        /\ compiles = TRUE /\ forwarded = 0

(* tryMemoryForward(): the result is a view of the same buffer. *)
View(t, layout, plannedLayout) ==
    /\ value' = t
    /\ memref' = layout /\ planned' = plannedLayout
    /\ forwarded' = forwarded + 1
    /\ UNCHANGED buffer

AssertsHold(inp, descs) == compiles' = \A d \in descs : RangeOk(inp, d)

(* A new buffer (memref.alloc) with mem in it. *)
NewBuffer(t, mem) ==
    /\ value' = t
    /\ buffer' = mem
    /\ memref' = Contiguous(t.shape) /\ planned' = assignOffset(Contiguous(t.shape))
    /\ forwarded' = forwarded + 1

Subtensor(descs) ==
    /\ Valid(descs, value.shape)
    /\ AssertsHold(memref, descs)
    /\ View(SubTensor(value, descs),
            Subtensor_memoryForward(memref, descs), Subtensor_memoryForward(planned, descs))

Dimshuffle(pattern) ==
    /\ Len(value.shape) = Cardinality({i \in DOMAIN pattern : pattern[i] >= 0})
    /\ View(DimShuffle(value, pattern),
            Dimshuffle_memoryForward(memref, pattern), Dimshuffle_memoryForward(planned, pattern))
    /\ UNCHANGED compiles

Reshape(shape) ==
    /\ try_reshape(memref, ResolvedShape(NumElems(memref.shape), shape))
    /\ View(ReShape(value, shape),
            Reshape_memoryForward(memref, shape), Reshape_memoryForward(planned, shape))
    /\ UNCHANGED compiles

(* onMemoryForwardFailure(): the input is copied to a new buffer, which    *)
(* has the new shape, through a view that has the input's shape.           *)
Reshape_copies(shape) ==
    /\ ~try_reshape(memref, ResolvedShape(NumElems(memref.shape), shape))
    /\ LET t == ReShape(value, shape)
           back == reshaped(Contiguous(t.shape), memref.shape)
       IN  NewBuffer(t, Relayouted(Blank(t.shape), back, Content(buffer, memref)))
    /\ UNCHANGED compiles

(* A use that needs a contiguous layout, a kernel or the return: a copy is *)
(* made of a view that has another one.                                    *)
Relayout ==
    /\ ~isContiguous(memref)
    /\ NewBuffer(value, Relayouted(Blank(value.shape), Contiguous(value.shape), Content(buffer, memref)))
    /\ UNCHANGED compiles

(* The result is a copy of the input; the elements of v, which are new,    *)
(* are then written through a view of it.                                  *)
NewElements(shape) == [shape |-> shape, data |-> [k \in Places(shape) |-> -1 - k]]
SetSubtensor(descs) ==
    /\ Valid(descs, value.shape)
    /\ LET dst == Contiguous(value.shape)
           copy == Relayouted(Blank(value.shape), dst, Content(buffer, memref))
           v == NewElements(SelectedShape(descs, value.shape))
       IN  /\ AssertsHold(dst, descs)
           /\ NewBuffer(SetSubTensor(value, descs, v),
                        Relayouted(copy, Subtensor_memoryForward(dst, descs), v))

(* Every operand is written through a view of its part of the result.      *)
(* Here there are two: the tensor, and one of new elements.                *)
MakeConcatArrayAttr(axis, start, n) ==
    [axis |-> axis - 1, begin |-> start, end |-> start + n, step |-> 1, index |-> -1]
Concat(axis) ==
    LET u == NewElements([value.shape EXCEPT ![axis] = 1])
        t == ConCat(value, u, axis)
        dst == Contiguous(t.shape)
        desc(start, x) == {MakeConcatArrayAttr(axis, start, x.shape[axis])}
        first == desc(0, value)
        second == desc(value.shape[axis], u)
        one == Relayouted(Blank(t.shape), Subtensor_memoryForward(dst, first), Content(buffer, memref))
    IN  /\ AssertsHold(dst, first \cup second)
        /\ NewBuffer(t, Relayouted(one, Subtensor_memoryForward(dst, second), u))

-----------------------------------------------------------------------------
(* A layout fits its buffer, which starts at base: whole elements from     *)
(* there, and all of them inside.                                          *)
InBuffer(layout, base) ==
    /\ layout.offset % DtypeSize = base % DtypeSize
    /\ \A k \in Places(layout.shape) : Cell(layout, k) - base \div DtypeSize \in DOMAIN buffer

TypeOKViews ==
    /\ compiles \in BOOLEAN /\ forwarded \in Nat
    /\ \A l \in {memref, planned} :
         /\ Len(l.shape) > 0 /\ Len(l.stride) = Len(l.shape)
         /\ l.shape = value.shape
    /\ InBuffer(memref, 0) /\ InBuffer(planned, PlanAddr)

(* A view reads the elements that its operations select, in their order,   *)
(* through any chain of views, before and after the buffer is planned; and *)
(* a kernel that takes the elements of a contiguous view one after another *)
(* from its offset gets the same ones.  No assertion fails.                *)
ViewsFaithful ==
    /\ compiles
    /\ Content(buffer, memref) = value
    /\ \A k \in Places(value.shape) :
         Held(buffer, Cell(planned, k) - PlanAddr \div DtypeSize) = value.data[k]
    /\ isContiguous(memref) =>
         \A k \in Places(value.shape) : Held(buffer, memref.offset \div DtypeSize + k) = value.data[k]
=============================================================================

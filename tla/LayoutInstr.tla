---------------------------- MODULE LayoutInstr ----------------------------
(***************************************************************************)
(* The runtime's way to rearrange a tensor whose shape is known only when  *)
(* the model runs: the instructions Subtensor, SetSubtensor, Dimshuffle,   *)
(* Broadcast and Reshape (runtime/src/vm).  Each deduces the layout of its *)
(* output and copies the elements one by one with two iterators, one over  *)
(* the layout of the source and one over that of the destination; Reshape  *)
(* alone shares the memory of its input.  Strides count elements.          *)
(***************************************************************************)
EXTENDS Tensor, SequencesExt

(* tensor is the one in memory, and meant the tensor it stands for.  The   *)
(* cells of mem are counted from the pointer of the tensor.  unfit is      *)
(* history: what instructions were given that they cannot take.            *)
VARIABLES meant, tensor, executed, unfit
instrs == <<meant, tensor, executed, unfit>>

force_layout_contiguous(dims) == [dims |-> dims, stride |-> RowMajor(dims)]

(***************************************************************************)
(* NoconIter: the counters of all axes, and the offset of the element.     *)
(***************************************************************************)
init_iter(layout) == [inc_dims |-> [i \in Axes(layout.dims) |-> 0], offset |-> 0]

(* A slip: one element too far back. *)
reset_stride_whole(layout, i) == layout.dims[i] * layout.stride[i]
reset_stride(layout, i) == (layout.dims[i] - 1) * layout.stride[i]

(* The last axis that is not at its end goes one further (0: none is);     *)
(* those after it go back to their first element.                          *)
inc_iter(layout, it) ==
    LET open == {i \in Axes(layout.dims) : it.inc_dims[i] + 1 < layout.dims[i]}
        axis == IF open = {} THEN 0 ELSE CHOOSE i \in open : \A j \in open : j <= i
        back == [i \in Axes(layout.dims) |-> IF i > axis THEN 1 ELSE 0]
        reset == [i \in Axes(layout.dims) |-> reset_stride(layout, i)]
    IN  [inc_dims |-> [i \in Axes(layout.dims) |->
             IF i > axis THEN 0 ELSE it.inc_dims[i] + (IF i = axis THEN 1 ELSE 0)],
         offset |-> it.offset - Dot(back, reset) + (IF axis = 0 THEN 0 ELSE layout.stride[axis])]

Offsets(layout, n) ==
    LET it[k \in 0..n - 1] == IF k = 0 THEN init_iter(layout) ELSE inc_iter(layout, it[k - 1])
    IN  [k \in 0..n - 1 |-> it[k].offset]

Read(mem, c) == IF c \in DOMAIN mem THEN mem[c] ELSE Unset

(* The loop that copies n elements; to and from are the first cells. *)
Copied(dst, to, dst_layout, src, from, src_layout, n) ==
    LET dst_iter == Offsets(dst_layout, n)
        src_iter == Offsets(src_layout, n)
        writes == {[at |-> to + dst_iter[k], elem |-> Read(src, from + src_iter[k])] : k \in 0..n - 1}
    IN  Written(dst, writes)

alloc_tensor(dims) == [c \in Places(dims) |-> Unset]

-----------------------------------------------------------------------------
(* update_layout(): in is the layout of the input, which becomes that of   *)
(* the selected elements; out is the layout of the output.  The last axis  *)
(* comes first (sort_descs()).                                             *)
remove_axis(dims, i) == IF Len(dims) = 1 THEN [dims EXCEPT ![i] = 1] ELSE RemoveAt(dims, i)

range_start(d) == IF d.begin # Missing THEN d.begin ELSE 0
range_end(d, n) == LET end == IF d.end # Missing THEN d.end ELSE -1
                IN  IF end < 0 THEN end + n + 1 ELSE end

quotient(a, b) == IF a < 0 THEN -(-a \div b) ELSE a \div b

select(l, d) ==
    LET i == d.axis + 1
        start == range_start(d)
        step_abs == IF d.step < 0 THEN -d.step ELSE d.step
        first == IF d.step < 0 /\ d.begin = Missing THEN l.in.dims[i] ELSE start
        extent == quotient(range_end(d, l.in.dims[i]) - first + step_abs - 1, step_abs)
    IN  IF d.index # Missing
        THEN [in |-> [l.in EXCEPT !.dims[i] = 1], out |-> remove_axis(l.out, i),
              offset |-> l.offset + l.in.stride[i] * d.index]
        ELSE [in |-> [l.in EXCEPT !.dims[i] = extent, !.stride[i] = @ * d.step],
              out |-> [l.out EXCEPT ![i] = extent],
              offset |-> l.offset + l.in.stride[i] * first]

update_layout(layout, descs) ==
    LET n == Len(layout.dims)
        from[i \in 1..n + 1] ==
            IF i = n + 1 THEN [in |-> layout, out |-> layout.dims, offset |-> 0]
            ELSE IF Described(descs, i) THEN select(from[i + 1], DescOf(descs, i))
            ELSE from[i + 1]
    IN  from[1]

(* The offset is unsigned: a negative one is beyond all memory.            *)
Far == 1000
unsigned(offset) == IF offset < 0 THEN Far ELSE offset

is_contiguous(layout) == layout.stride = RowMajor(layout.dims)
Dense(layout) ==
    LET dense == RowMajor(layout.dims)
    IN  \A i \in Axes(layout.dims) : layout.dims[i] > 1 => layout.stride[i] = dense[i]

-----------------------------------------------------------------------------
InitInstrs(shapes) ==
    \E shape \in shapes :
        /\ meant = [shape |-> shape, data |-> [k \in Places(shape) |-> k]]
        /\ tensor = [layout |-> force_layout_contiguous(shape), mem |-> meant.data]
        /\ executed = 0 /\ unfit = {}

(* A view that the compiler made becomes the operand of an instruction:    *)
(* the exporter writes its shape and strides to the model, and the pointer *)
(* is that of its first cell.                                              *)
memref_to_tensor(t, shape, stride, first, buffer) ==
    /\ meant' = t
    /\ tensor' = [layout |-> [dims |-> shape, stride |-> stride],
                  mem |-> [c \in {b - first : b \in DOMAIN buffer} |-> buffer[c + first]]]
    /\ UNCHANGED <<executed, unfit>>

(* What an instruction cannot take, and no pass of the compiler prevents:  *)
(*   "backward"  numbers that count from the end, and negative steps;      *)
(*   "reversed"  a view whose selected elements begin before its pointer;  *)
(*   "strided"   a view with gaps, where the elements must follow each     *)
(*               other: Reshape goes on with the pointer alone, and the    *)
(*               output of SetSubtensor, planned for the elements, gets a  *)
(*               copy of the memory that the view spans;                   *)
(*   "raised"    a tensor of fewer axes than a Broadcast makes, where the  *)
(*               extent at the place of another axis decides.              *)
Unless(ok, reason) == IF ok THEN {} ELSE {reason}
CountsBack(d) ==
    \/ d.step < 0
    \/ d.begin # Missing /\ d.begin < 0
    \/ d.end # Missing /\ d.end < 0
CountedBack(descs) == \E d \in descs : CountsBack(d)

Executed(reasons, t, layout, mem) ==
    /\ meant' = t
    /\ tensor' = [layout |-> layout, mem |-> mem]
    /\ executed' = executed + 1
    /\ unfit' = unfit \cup reasons

(* A bound: with an extent below 0, which is 2^32 too large, the run ends. *)
NoneWraps(dims) == \A i \in DOMAIN dims : dims[i] >= 0

execute_subtensor(descs) ==
    /\ Valid(descs, meant.shape)
    /\ LET l == update_layout(tensor.layout, descs)
           out == force_layout_contiguous(l.out)
       IN  /\ NoneWraps(l.out)
           /\ Executed(IF CountedBack(descs) THEN {"backward"} ELSE Unless(l.offset >= 0, "reversed"),
                       SubTensor(meant, descs), out,
                       Copied(alloc_tensor(l.out), 0, out, tensor.mem, unsigned(l.offset), l.in, NumElems(l.out)))

(* v is written over the selected elements of a copy of the input, which   *)
(* takes the cells one by one and keeps the layout; a v as long as the     *)
(* input is copied at once.                                                *)
execute_setsubtensor(descs) ==
    /\ Valid(descs, meant.shape)
    /\ LET shape == SelectedShape(descs, meant.shape)
           v == [shape |-> shape, data |-> [k \in Places(shape) |-> -1 - k]]
           value == force_layout_contiguous(shape)
           l == update_layout(tensor.layout, descs)
           copy == [c \in Places(meant.shape) |-> Read(tensor.mem, c)]
           fast == is_contiguous(tensor.layout) /\ NumElems(shape) = NumElems(meant.shape)
       IN  /\ NoneWraps(l.in.dims)
           /\ Executed(IF CountedBack(descs) THEN {"backward"} ELSE Unless(Dense(tensor.layout), "strided"),
                       SetSubTensor(meant, descs, v), tensor.layout,
                       IF fast THEN v.data
                       ELSE Copied(copy, unsigned(l.offset), l.in, v.data, 0, value, NumElems(l.in.dims)))

execute_dimshuffle(pattern) ==
    /\ Len(pattern) = Len(meant.shape)
    /\ LET from == [dims |-> [i \in DOMAIN pattern |-> tensor.layout.dims[pattern[i] + 1]],
                    stride |-> [i \in DOMAIN pattern |-> tensor.layout.stride[pattern[i] + 1]]]
           out == force_layout_contiguous(from.dims)
       IN  Executed({}, DimShuffle(meant, pattern), out,
                    Copied(alloc_tensor(from.dims), 0, out, tensor.mem, 0, from, NumElems(from.dims)))

(* An axis of extent 1 is repeated, and new axes come first.  Whether an   *)
(* axis has extent 1 is read from dims[i] and not from dims[i - dim_diff]; *)
(* beyond the axes of the input that is what the array held before.        *)
execute_broadcast(dims) ==
    LET in == tensor.layout
        dim_diff == Len(dims) - Len(in.dims)
    IN  /\ dim_diff >= 0
        /\ \A i \in Axes(in.dims) : in.dims[i] \in {1, dims[dim_diff + i]}
        /\ \E stale \in SUBSET (Len(in.dims) + 1..Len(dims)) :
             LET is_one(i) == IF i \in Axes(in.dims) THEN in.dims[i] = 1 ELSE i \in stale
                 stride(i) == IF i <= dim_diff \/ (is_one(i) /\ dims[i] # 1) THEN 0
                              ELSE in.stride[i - dim_diff]
                 right(i) == dims[i] # 1 => (is_one(i) <=> in.dims[i - dim_diff] = 1)
                 from == [dims |-> dims, stride |-> [i \in DOMAIN dims |-> stride(i)]]
                 out == force_layout_contiguous(dims)
             IN  Executed(Unless(\A i \in dim_diff + 1..Len(dims) : right(i), "raised"),
                          BroadCast(meant, dims), out,
                          Copied(alloc_tensor(dims), 0, out, tensor.mem, 0, from, NumElems(dims)))

(* The extents that are given divide the number of elements in turn. *)
execute_reshape(tshape) ==
    LET left[i \in 0..Len(tshape)] ==
            IF i = 0 THEN NumElems(tensor.layout.dims)
            ELSE IF tshape[i] > 0 THEN left[i - 1] \div tshape[i] ELSE left[i - 1]
        dims == [i \in DOMAIN tshape |-> IF tshape[i] > 0 THEN tshape[i] ELSE left[Len(tshape)]]
    IN  Executed(Unless(Dense(tensor.layout), "strided"),
                 ReShape(meant, tshape), force_layout_contiguous(dims), tensor.mem)

-----------------------------------------------------------------------------
TypeOKInstrs ==
    /\ executed \in Nat
    /\ unfit = {} =>
         /\ Len(tensor.layout.stride) = Len(meant.shape)
         /\ executed > 0 => /\ Dense(tensor.layout)
                            /\ Places(meant.shape) \subseteq DOMAIN tensor.mem

(* A tensor holds the elements that its operations mean, read through its  *)
(* layout, after any chain of instructions, whatever view of the compiler  *)
(* the first of them got, as long as none was given what it cannot take    *)
(* (unfit): the layout that an instruction deduces and the elements that   *)
(* its two iterators visit agree.                                          *)
InstructionsFaithful == unfit = {} =>
    /\ tensor.layout.dims = meant.shape
    /\ \A k \in Places(meant.shape) :
         Read(tensor.mem, Dot(Coords(meant.shape, k), tensor.layout.stride)) = meant.data[k]
=============================================================================

------------------------------- MODULE Views -------------------------------
(***************************************************************************)
(* A tensor that goes through a chain of operations: as long as all shapes *)
(* are known the compiler makes views (MemoryForward); an operation with   *)
(* an operand that is only known at run time, its input, a shape or an     *)
(* index, becomes an instruction (LayoutInstr), whose input may be a view  *)
(* of the compiler.  Its result has a dynamic shape, and the operations    *)
(* that follow become instructions too (MGBToKernel.cpp:316-470).          *)
(***************************************************************************)
EXTENDS MemoryForward, LayoutInstr

CONSTANTS
    Shapes,             \* shapes of the input
    Descs(_),           \* index descriptions the compiler gets, by shape
    InstrDescs(_),      \* and the instructions
    Patterns(_), NewShapes(_), BroadcastShapes(_),
    MaxOps,             \* bound: the operations of a chain
    MaxElems            \* bound: the elements a Concat may make

(* What these operators give for a shape: descriptions whose numbers are   *)
(* in their axis, or count from its end (an index never does); patterns    *)
(* that name every axis once, and add at most one before the first (of a   *)
(* second the compiler takes the stride of an axis that is not there);     *)
(* extents of as many elements.                                            *)
IsShape(s) == s \in Seq(Nat \ {0}) /\ s # <<>>
IsDesc(d, n, low, steps) ==
    /\ d.step \in steps /\ d.index \in {Missing} \cup 0..n - 1
    /\ d.begin \in {Missing} \cup low..n - 1 /\ d.end \in {Missing} \cup low..n
OperandsFit(shape) ==
    LET n == Len(shape)
    IN  /\ \A descs \in Descs(shape) : \A d \in descs :
             d.axis \in 0..n - 1 /\ IsDesc(d, shape[d.axis + 1], -shape[d.axis + 1], Int \ {0})
        /\ \A descs \in InstrDescs(shape) : \A d \in descs :
             d.axis \in 0..n - 1 /\ IsDesc(d, shape[d.axis + 1], -shape[d.axis + 1], Int \ {0})
        /\ \A p \in Patterns(shape) :
             /\ p \in Seq(-1..n - 1)
             /\ \A i \in 2..Len(p) : \E j \in 1..i : p[j] >= 0
             /\ \A a \in 1..n : \E i \in DOMAIN p : \A j \in DOMAIN p : p[j] = a - 1 <=> j = i
        /\ \A s \in NewShapes(shape) :
             LET resolved == ResolvedShape(NumElems(shape), s)
             IN  /\ s \in Seq(Int) /\ \A i \in DOMAIN s : s[i] # 0
                 /\ IsShape(resolved) /\ NumElems(resolved) = NumElems(shape)
        /\ \A dims \in BroadcastShapes(shape) : IsShape(dims)

VARIABLE isDynamicShape

vars == <<isDynamicShape, views, instrs>>

Init ==
    /\ isDynamicShape = FALSE
    /\ InitViews(Shapes) /\ InitInstrs({value.shape})

Forward ==
    /\ ~isDynamicShape /\ forwarded < MaxOps
    /\ \/ \E descs \in Descs(value.shape) : Subtensor(descs) \/ SetSubtensor(descs)
       \/ \E pattern \in Patterns(value.shape) : Dimshuffle(pattern)
       \/ \E shape \in NewShapes(value.shape) : Reshape(shape) \/ Reshape_copies(shape)
       \/ \E axis \in Axes(value.shape) : NumElems(value.shape) < MaxElems /\ Concat(axis)
       \/ Relayout

(* From here on the operations are instructions. *)
ToRuntime ==
    /\ ~isDynamicShape /\ isDynamicShape' = TRUE /\ forwarded < MaxOps
    /\ memref_to_tensor(value, memref.shape, memref.stride, Cell(memref, 0), buffer)
    /\ UNCHANGED views

Execute ==
    /\ isDynamicShape /\ forwarded + executed < MaxOps
    /\ \/ \E descs \in InstrDescs(meant.shape) : execute_subtensor(descs) \/ execute_setsubtensor(descs)
       \/ \E pattern \in Patterns(meant.shape) : execute_dimshuffle(pattern)
       \/ \E shape \in NewShapes(meant.shape) : execute_reshape(shape)
       \/ \E dims \in BroadcastShapes(meant.shape) : execute_broadcast(dims)

Next ==
    \/ Forward /\ UNCHANGED <<isDynamicShape, instrs>>
    \/ ToRuntime
    \/ Execute /\ UNCHANGED <<isDynamicShape, views>>

Spec == Init /\ [][Next]_vars
-----------------------------------------------------------------------------
TypeOK == isDynamicShape \in BOOLEAN /\ TypeOKViews /\ TypeOKInstrs
=============================================================================

------------------------ MODULE StaticMemoryPlanning ------------------------
(***************************************************************************)
(* From the lowered function to planned memory: the lowering to the Kernel *)
(* dialect gives every result a buffer just before the operation that      *)
(* fills it (MGBToKernel.cpp), the materialization adds workspaces, and    *)
(* the static memory planning pass (StaticMemoryPlanning.cpp) takes from   *)
(* the place of an allocation, and of the last use of it or of a view of   *)
(* it, how long each buffer is in use, and gives the intervals to the      *)
(* allocator.  The allocator is what MemPlan promises: any plan.           *)
(*                                                                         *)
(* A value is named by the place of the operation that defines it; 0 is    *)
(* the argument of the function.  Memory is counted in units.              *)
(***************************************************************************)
EXTENDS Integers, Sequences, FiniteSets, FiniteSetsExt

CONSTANTS
    MaxOps,             \* bound: the operations of a function
    Sizes,              \* of buffers, workspaces and views
    ArgSize,            \* that of the argument
    MaxMemory,          \* bound: the memory of all buffers, and of a plan
    ReshapesPlanned     \* TRUE: ReshapeIns may get an operand whose memory is planned

ASSUME SizesAssumption == Sizes \subseteq Nat \ {0} /\ {ArgSize, MaxOps, MaxMemory} \subseteq Nat \ {0}
ASSUME ReshapesAssumption == ReshapesPlanned \in BOOLEAN

VARIABLES
    body,       \* the operations of the function
    stage,      \* "lowering", "described", "planned"
    itv,        \* the intervals given to the solver, by the value
    addr, tot   \* its solution: start addresses, and tot_alloc()
plan == <<body, stage, itv, addr, tot>>

Operation(name) ==
    [op |-> name, reads |-> {}, to |-> 0, workspace |-> 0, size |-> 0, root |-> 0, offset |-> 0, sum |-> 0]
Ops == DOMAIN body
Is(name) == {i \in Ops : body[i].op = name}
allocs == Is("alloc")

(* A view of a view has the root of that one.                              *)
IsView(v) == v # 0 /\ body[v].op = "view"
Root(v) == IF IsView(v) THEN body[v].root ELSE v
alias_itself(v) == {v}      \* a slip
aliases(v) == {i \in Ops : Root(i) = v}
source(i) == CHOOSE v \in body[i].reads : TRUE
StaticSize(v) == IF v = 0 THEN ArgSize ELSE body[v].size

(* The tensors of the program: results of kernels and of instructions, and *)
(* views that nothing is written through.                                  *)
Written == {body[i].to : i \in Is("kernel") \cup Is("reshape")}
Tensors == {0} \cup (Written \ Is("view")) \cup (Is("view") \ Written)
Dynamic(v) == v \in Is("dynamic")

-----------------------------------------------------------------------------
InitPlan == body = <<>> /\ stage = "lowering" /\ itv = <<>> /\ addr = <<>> /\ tot = 0

Memory(ops) == MapThenSumSet(LAMBDA i : IF ops[i].op = "alloc" THEN ops[i].size ELSE 0, DOMAIN ops)
Emit(ops) ==
    /\ stage = "lowering" /\ Len(body) + Len(ops) < MaxOps
    /\ Memory(body \o ops) <= MaxMemory
    /\ \A i \in Ops : body[i].op # "return"
    /\ body' = body \o ops
    /\ UNCHANGED <<stage, itv, addr, tot>>
Next1 == Len(body) + 1

(* asBuffer(): the shape of a result is known, or is not. *)
AllocOp(s) == [Operation("alloc") EXCEPT !.size = s]
DynamicAlloc == Operation("dynamic")
Buffers == {AllocOp(s) : s \in Sizes} \cup {DynamicAlloc}
View(v, s, k) ==
    [Operation("view") EXCEPT !.reads = {v}, !.size = s, !.root = Root(v), !.offset = k,
                              !.sum = k + IF IsView(v) THEN body[v].sum ELSE 0]
Kernel(reads, to) == [Operation("kernel") EXCEPT !.reads = reads, !.to = to]

(* createOp() of an operation that becomes a kernel or an instruction with *)
(* memory of its own; only a kernel of known shape has a workspace         *)
(* (KernelMaterialization.cpp:243-260).                                    *)
createOp(reads, buffer) == Emit(<<buffer, Kernel(reads, Next1)>>)
createOp_workspace(reads, s, w) ==
    Emit(<<AllocOp(s), AllocOp(w), [Kernel(reads, Next1) EXCEPT !.workspace = Next1 + 1]>>)

(* Kernel::Reshape, Dimshuffle, Subtensor of a known shape: no memory. *)
createView(v, s, k) ==
    /\ ~Dynamic(v) /\ s + k <= StaticSize(v)
    /\ Emit(<<View(v, s, k)>>)

(* Reshape to a shape that is not known: its operand or the tensor that    *)
(* holds the shape are of dynamic shape.                                   *)
createReshapeIns(v) ==
    /\ ReshapesPlanned \/ Root(v) \notin allocs
    /\ Emit(<<DynamicAlloc, [Operation("reshape") EXCEPT !.reads = {v}, !.to = Next1]>>)

(* SetSubtensor of known shapes: copied, then written through a view. *)
createSetSubtensor(v, part, k) ==
    /\ ~Dynamic(v) /\ ~Dynamic(part) /\ StaticSize(part) + k <= StaticSize(v)
    /\ Emit(<<AllocOp(StaticSize(v)), Kernel({v}, Next1),
              [View(0, StaticSize(part), k) EXCEPT !.reads = {Next1}, !.root = Next1],
              Kernel({part}, Next1 + 2)>>)

ReturnOp(v) ==
    /\ stage = "lowering" /\ body # <<>> /\ body[Len(body)].op # "return"
    /\ body' = Append(body, [Operation("return") EXCEPT !.reads = {v}])
    /\ UNCHANGED <<stage, itv, addr, tot>>

-----------------------------------------------------------------------------
(* constructProblem()                                                      *)
Uses(i, v) == v \in body[i].reads \cup {body[i].to, body[i].workspace}
LastUse(v) ==
    LET at == {i \in Ops : \E a \in aliases(v) : i = a \/ Uses(i, a)}
    IN  CHOOSE i \in at : \A j \in at : j <= i
lifetime(v) == [begin |-> v, end |-> LastUse(v) + 1, size |-> body[v].size]
constructProblem ==
    /\ stage = "lowering" /\ body # <<>> /\ body[Len(body)].op = "return"
    /\ itv' = [v \in allocs |-> lifetime(v)]
    /\ stage' = "described" /\ UNCHANGED <<body, addr, tot>>

Solver == INSTANCE MemPlan WITH specs <- <<>>, alignment <- 1, honoured <- {}

(* makePlan(), by whatever allocator; applySolution() *)
makePlan ==
    /\ stage = "described" /\ stage' = "planned"
    /\ \E f \in [allocs -> 0..MaxMemory - 1], n \in 0..MaxMemory :
         Solver!Plan(f, {}, n) /\ addr' = f /\ tot' = n
    /\ UNCHANGED <<body, itv>>

(* removeUnusedMemFwd(): a view of planned memory is planned as well.      *)
Planned(v) == Root(v) \in allocs
Offset(v) == IF IsView(v) THEN addr[body[v].root] + body[v].sum ELSE addr[v]

NextPlan ==
    \/ \E reads \in (SUBSET Tensors) \ {{}} :
         /\ Cardinality(reads) <= 2
         /\ \/ \E buffer \in Buffers : createOp(reads, buffer)
            \/ \E s, w \in Sizes : createOp_workspace(reads, s, w)
    \/ \E v \in Tensors :
         \/ (\E s \in Sizes, k \in 0..1 : createView(v, s, k))
         \/ createReshapeIns(v) \/ ReturnOp(v)
         \/ \E part \in Tensors, k \in 0..1 : createSetSubtensor(v, part, k)
    \/ constructProblem \/ makePlan

=============================================================================

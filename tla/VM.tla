--------------------------------- MODULE VM ---------------------------------
(***************************************************************************)
(* The virtual machine of the TinyNN runtime (vm.c, vm/op.c, vm/common.h,  *)
(* vm/memforward.c, vm/reshape.c; LITE_forward() and LITE_destroy_network()*)
(* of lite/network.c), executing a function as the compiler planned it.    *)
(* A tensor is a pointer.  That of a planned tensor is into one block for  *)
(* all of them; a tensor of dynamic shape gets memory when an instruction  *)
(* writes it, and keeps it for the next run; views and the results of      *)
(* Reshape point into the memory of another tensor.                        *)
(*                                                                         *)
(* Every unit of memory holds a name for what was written there.  meant    *)
(* holds, for each tensor, what the program means it to hold.              *)
(***************************************************************************)
EXTENDS StaticMemoryPlanning

CONSTANTS
    Lengths,            \* of tensors of dynamic shape
    Models,             \* the device models of a network, 1..n; here they are alike
    MaxForwards,        \* bound: runs of a network
    DestroysFromLast    \* TRUE: when a client destroys a network, no device model after
                        \* the active one has memory for tensors of dynamic shape

ASSUME VMAssumption ==
    /\ Lengths \subseteq Nat \ {0} /\ MaxForwards \in Nat /\ DestroysFromLast \in BOOLEAN
    /\ Models = 1..Cardinality(Models)

VARIABLES
    active,     \* active_device_model_idx
    pc,         \* the instruction that is executed, or is next
    ptr,        \* of the tensors of each device model
    size,       \* tensor->size of those of dynamic shape
    blocks,     \* all memory: what it holds, and whether it was freed
    meant,
    forwards,
    status      \* "none", the memory is not initialized; "idle"; "running";
                \* "computing" and "writing", within an instruction; "destroyed";
                \* "undefined", memory that was freed was used, or freed again

machine == <<active, pc, ptr, size, blocks, meant, forwards, status>>
vars == <<plan, machine>>

NULL == [block |-> 0, offset |-> 0]
At(b, k) == [block |-> b, offset |-> k]
Arena == 1      \* max_tensor_memroy->ptr
Client == 2     \* the memory that the client gives for the input

Anything(n) == [k \in 1..n |-> <<0, 0, 0>>]
Block(n) == [data |-> Anything(n), live |-> TRUE]
Replaced(data, offset, by) ==
    [k \in DOMAIN data |-> IF k - offset \in DOMAIN by THEN by[k - offset] ELSE data[k]]
Write(bs, p, by) == [bs EXCEPT ![p.block].data = Replaced(@, p.offset, by)]
Part(data, offset, n) == SubSeq(data, offset + 1, offset + n)
Holds(p, data) == Part(blocks[p.block].data, p.offset, Len(data)) = data
InRange(p, n) ==
    /\ p # NULL /\ blocks[p.block].live
    /\ p.offset + n <= Len(blocks[p.block].data)

-----------------------------------------------------------------------------
InitMachine ==
    /\ active = 1 /\ pc = 1 /\ ptr = <<>> /\ size = <<>> /\ blocks = <<>> /\ meant = <<>>
    /\ forwards = 0 /\ status = "none"

(* init_model_memory(), and the input that the client sets.                *)
address(v) ==
    IF v = 0 THEN At(Client, 0)
    ELSE IF Dynamic(v) THEN NULL
    ELSE At(Arena, IF Planned(v) THEN Offset(v) ELSE body[v].sum)
init_model_memory ==
    /\ stage = "planned" /\ status = "none" /\ status' = "idle"
    /\ ptr' = [m \in Models |-> [v \in {0} \cup Ops |-> address(v)]]
    /\ size' = [m \in Models |-> [v \in Ops |-> 0]]
    /\ blocks' = <<Block(tot), Block(ArgSize)>>
    /\ UNCHANGED <<plan, active, pc, meant, forwards>>

(* Allocations are no instructions.                                        *)
IsInstruction(i) == body[i].op \notin {"alloc", "dynamic"}
After(i) == CHOOSE j \in Ops : j > i /\ IsInstruction(j) /\ \A k \in i + 1..j - 1 : ~IsInstruction(k)

(* The client writes the input; another layout chooses the device model.   *)
Fresh(i, n) == [k \in 1..n |-> <<forwards + 1, i, k>>]
LITE_forward(m) ==
    /\ status = "idle" /\ forwards < MaxForwards
    /\ status' = "running" /\ active' = m /\ pc' = After(0)
    /\ blocks' = Write(blocks, At(Client, 0), Fresh(0, ArgSize))
    /\ meant' = [v \in {0} \cup Ops |-> IF v = 0 THEN Fresh(0, ArgSize) ELSE <<>>]
    /\ UNCHANGED <<plan, ptr, size, forwards>>

Here == ptr[active]
At_(name) == status = "running" /\ body[pc].op = name

(* MemForward; nor is a view that was planned.                             *)
execute_memforward ==
    LET v == source(pc)
        k == body[pc].offset
    IN  /\ At_("view") /\ pc' = After(pc)
        /\ meant' = [meant EXCEPT ![pc] = Part(meant[v], k, body[pc].size)]
        /\ ptr' = IF Planned(pc) THEN ptr
                  ELSE [ptr EXCEPT ![active][pc] = At(Here[v].block, Here[v].offset + k)]
        /\ UNCHANGED <<plan, active, size, blocks, forwards, status>>

(* Reshape: the output takes the pointer of the input.                     *)
execute_reshape ==
    LET v == source(pc)
        to == body[pc].to
    IN  /\ At_("reshape") /\ pc' = After(pc)
        /\ meant' = [meant EXCEPT ![to] = meant[v]]
        /\ ptr' = [ptr EXCEPT ![active][to] = Here[v]]
        /\ size' = [size EXCEPT ![active][to] = Len(meant[v])]
        /\ UNCHANGED <<plan, active, blocks, forwards, status>>

(* Slip: the memory is kept even if it is too small.                       *)
kept_if_any(v, n) == Here[v] # NULL
kept(v, n) == Here[v] # NULL /\ size[active][v] >= n
freed(v) == IF Here[v] = NULL THEN blocks ELSE [blocks EXCEPT ![Here[v].block].live = FALSE]

(* alloc_tensor_opt() *)
alloc_tensor_opt(v, n) ==
    IF ~Dynamic(v) \/ kept(v, n) THEN UNCHANGED <<ptr, size, blocks>>
    ELSE /\ ptr' = [ptr EXCEPT ![active][v] = At(Len(blocks) + 1, 0)]
         /\ size' = [size EXCEPT ![active][v] = n]
         /\ blocks' = Append(freed(v), Block(n))

(* execute_single_opr(), and the instructions with memory of their own: the*)
(* shape of the output is deduced and memory obtained for it;              *)
DeducedLengths(v) == IF Dynamic(v) THEN Lengths ELSE {StaticSize(v)}
execute_deduce ==
    LET v == body[pc].to IN
    /\ At_("kernel") /\ status' = "computing"
    /\ \E n \in DeducedLengths(v) :
         /\ alloc_tensor_opt(v, n)
         /\ meant' = IF v \in Is("view")
                     THEN [meant EXCEPT ![source(v)] = Replaced(@, body[v].offset, Fresh(pc, n)),
                                        ![v] = Fresh(pc, n)]
                     ELSE [meant EXCEPT ![v] = Fresh(pc, n)]
    /\ UNCHANGED <<plan, active, pc, forwards>>

(* the kernel reads its operands while it writes to its workspace and to   *)
(* its output;                                                             *)
workspace_used(bs) ==
    LET w == body[pc].workspace
    IN  IF w = 0 THEN bs ELSE Write(bs, Here[w], Anything(body[w].size))
execute_kernel ==
    LET v == body[pc].to
        n == Len(meant[v])
    IN  /\ status = "computing"
        /\ status' = IF InRange(Here[v], n) THEN "writing" ELSE "undefined"
        /\ blocks' = IF InRange(Here[v], n)
                     THEN workspace_used(Write(blocks, Here[v], Anything(n))) ELSE blocks
        /\ UNCHANGED <<plan, active, pc, ptr, size, meant, forwards>>

(* then the output holds the result, or the kernel gives an error.         *)
execute_ends ==
    /\ status = "writing" /\ status' = "running" /\ pc' = After(pc)
    /\ blocks' = workspace_used(Write(blocks, Here[body[pc].to], meant[body[pc].to]))
    /\ UNCHANGED <<plan, active, ptr, size, meant, forwards>>
forward_ends ==
    /\ status' = "idle" /\ pc' = 1 /\ meant' = <<>> /\ forwards' = forwards + 1
    /\ UNCHANGED <<plan, active, ptr, size, blocks>>
execute_fails == status = "writing" /\ forward_ends
forward_returns == At_("return") /\ forward_ends

(***************************************************************************)
(* LITE_destroy_network(): device model after device model, instruction    *)
(* after instruction, the memory of outputs of dynamic shape is freed, by  *)
(* the device of the active device model; then the device model is freed.  *)
(***************************************************************************)
Outputs == {body[i].to : i \in Is("kernel")}        \* of instructions that free them
with_memory(m) == {v \in Outputs : Dynamic(v) /\ ptr[m][v] # NULL}
destroy_network ==
    LET given == UNION {{<<m, v>> : v \in with_memory(m)} : m \in Models}
        block(x) == ptr[x[1]][x[2]].block
        twice == \E x, y \in given : x # y /\ block(x) = block(y)
        active_is_gone == \E x \in given : x[1] > active
    IN  /\ status = "idle" /\ (DestroysFromLast => ~active_is_gone)
        /\ status' = IF twice \/ active_is_gone \/ \E x \in given : ~blocks[block(x)].live
                     THEN "undefined" ELSE "destroyed"
        /\ blocks' = [b \in DOMAIN blocks |->
                        [blocks[b] EXCEPT !.live = @ /\ b # Arena /\ \A x \in given : block(x) # b]]
        /\ UNCHANGED <<plan, active, pc, ptr, size, meant, forwards>>

Init == InitPlan /\ InitMachine
Stopped ==
    /\ status \in {"destroyed", "undefined"} \/ (status = "idle" /\ forwards = MaxForwards)
    /\ UNCHANGED vars
NextMachine ==
    \/ init_model_memory \/ (\E m \in Models : LITE_forward(m))
    \/ execute_memforward \/ execute_reshape
    \/ execute_deduce \/ execute_kernel \/ execute_ends \/ execute_fails
    \/ forward_returns \/ destroy_network
    \/ Stopped
Next == (NextPlan /\ UNCHANGED machine) \/ NextMachine
Spec == Init /\ [][Next]_vars
-----------------------------------------------------------------------------
(* An operand holds what the program means it to hold until the            *)
(* instruction that reads it is done, whatever memory the plan gave to     *)
(* others meanwhile, whatever other memory was obtained, freed and pointed *)
(* to, and whatever earlier runs left; and so does the result of the       *)
(* function (StaticMemoryPlanning.cpp:56-83, common.h:11-25).              *)
OperandsHeld ==
    status \in {"computing", "writing"} \/ (status = "running" /\ body[pc].op \in {"reshape", "return"}) =>
        \A v \in body[pc].reads : InRange(Here[v], Len(meant[v])) /\ Holds(Here[v], meant[v])

(* No instruction and no destructor uses memory that was freed or that is  *)
(* too small, or frees memory twice; a planned tensor and the views of it  *)
(* point to the planned place from the start, whatever instructions store; *)
(* when the network is destroyed, all of its memory was freed.             *)
MemorySafe ==
    /\ status # "undefined"
    /\ status # "none" => \A m \in Models, v \in Ops :
         Root(v) \in allocs =>
             ptr[m][v] = At(Arena, addr[Root(v)] + IF IsView(v) THEN body[v].sum ELSE 0)
    /\ status = "destroyed" => \A b \in DOMAIN blocks : b # Client => ~blocks[b].live
=============================================================================

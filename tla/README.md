# A verification project for MegCC's memory planning and runtime, and for LKCompiler

The repository holds two compilers. `src/MegCC/` is MegCC, a compiler from
MegEngine models to C kernels plus TinyNN, the small C runtime that executes the
result. `src/src/main/` is LKCompiler, an incomplete compiler for a C-like
language in Java (most of it does not build in this tree). This project models
the parts of MegCC in which a mistake silently corrupts data: who owns which
memory, and for how long, and which element of a tensor lies where. It models
how LKCompiler turns the statements of a function into instructions. It proves
the main results about the memory.

## 1. The system

### Inventory

| Part | State | Operations | Interacts with | What makes it correct |
|---|---|---|---|---|
| **Static memory allocator**, `compiler/lib/Dialect/Kernel/Transforms/migrate/static_mem_alloc/`: client interface, overwrite linking and result checker (`impl.{h,cpp}`) | intervals, overwrite specifications, links between intervals, addresses | `add`, `add_overwrite_spec`, `alignment`, `padding`, `solve`, `tot_alloc`, `tot_alloc_lower_bound`, `get_start_addr` | called by the planning pass; calls `do_solve()` of an algorithm | intervals in use together share no memory unless one overwrites the other; the checker accepts exactly the good plans; the lower bound is one |
| **Best fit** (`best_fit*.{h,cpp}`) | a simulated heap in three maps | callbacks `alloc`, `alloc_overwrite`, `free` of `BestFitHelper::run()` | driven by time | no byte of the heap is lost or handed out twice; free chunks are merged |
| **Push down** (`pushdown.{h,cpp}`) | a list of blocks, a relation "directly below", addresses | the same callbacks, then `get_interval_addr_end()` | driven by time; used by the pass | the relation has no cycle and separates all that is alive together |
| **Interval move** (`interval_move.{h,cpp}`) | for each interval those recorded to lie above it, a peak | `do_solve`: sort, place, move | selectable only | what was recorded above stays above; the peak grows as predicted |
| **Views**, memory forwarding and `memoryForward()` (`KernelDialect.cpp`, `MemoryForwarding.cpp`, `MGBToKernel.cpp`) | memref types: shape, strides, offset | Reshape, Dimshuffle, Subtensor, SetSubtensor, Concat, Relayout | planning computes them again from the planned address | element k of a view is the element the operation means |
| **Planning pass** (`StaticMemoryPlanning.cpp`) | lifetimes of memrefs | one walk per function | uses the allocator; its offsets go into the exported model | lifetimes cover all uses, those through views included |
| **Importer, lowering, fusion, materialization, exporter** | the MLIR module | rewrite patterns | pipeline | meaning is kept |
| **Code generators** (`KernelGen/`, 76,000 lines) | none | print C code | called by the materialization | outside what a state machine says |
| **Runtime: parser** (`runtime/src/parse.c`) | the model buffer, tensors, weights | `parse_model` | called by the LITE interface | weights moved inside the buffer stay intact |
| **Runtime: initialization** (`init.c`) | processed weights, use counts, tensor addresses | `init_model_weights`, `init_model_memory` | LITE interface, kernels | every operator reads the weight it was compiled for; each memory is freed once |
| **Runtime: LITE interface** (`lite/`) | networks, shared runtime memory, IO tensors | make, load, get tensor, share, forward, destroy | client | shared memory is large enough and alive |
| **Runtime: VM** (`vm.c`, `vm/`) | dynamic tensors, views, a workspace | one call per instruction | LITE interface | a kernel reads what the program means it to read; memory is freed once; views do not outlive it |
| **Runtime: layout instructions** (`vm/subtensor.c`, `reshape.c`, `dimshuffle.c`, `broadcast.c`) | two iterators | copy element by element | VM; views of the compiler | the same as for views |
| **Runtime: external loaders** (`vm/extern_opr.c`) | one table for all networks | register, unregister, load, destruct | LITE interface | an operator finds its loader |
| **LKCompiler** (`src/src/main/`) | scopes, intermediate code, stack frames | one pass after the other | pipeline | the instructions do what the source means |

`PROJECT.json` lists all parts with the reason for those left out.

### How the parts interact

The importer counts the uses of each weight, the planning pass asks the allocator
for the offsets of all intermediate tensors, and the exporter writes both into the
model file. The runtime loads the file: `parse.c` aligns the weights inside the
buffer of the file, `init.c` lets kernels turn weights into another layout and
frees what has no uses left, `network.c` gives all tensors one block of memory at
the planned offsets, possibly shared with other networks, and runs the
instructions. What the compiler knows the shape of, it plans and views; the rest
is left to the VM, which gives it memory when it runs. No part runs concurrently with another; there are no threads and
there is no persistent state. What is hard is *order* and *lifetime*: which of
several events at one time step comes first, what a piece of memory holds when it
is read, who frees it, and long sequences of splits, merges and moves.

### Hard behaviours

`PROJECT.json` lists them under `hazards`, each at its line. The main ones:

* intervals that begin, end and take one another over at the same time step;
* an order assembled from neighbours at different times that must have no cycle;
* unsigned sizes rounded up with an offset (lower bound, clipped floors);
* moving weights down inside the buffer they are read from;
* weights freed, or overwritten by the processed weight, while still in use;
* three implementations of weight preprocessing that must agree on use counts;
* runtime memory shared by networks of different sizes, in any order of calls;
* a lifetime that has to cover all uses through views, some made only at run time;
* memory of a tensor of dynamic shape kept from run to run, and freed by whom;
* strides and offsets of views of views: negative steps, removed axes, in place;
* one table of loaders that every network fills and any network empties;
* operands translated right to left and evaluated after side effects moved out of
  them; values held in a register, or on a stack known only at compile time, while
  the other operand is computed.

## 2. Modules

```
MemPlan                     what any allocator promises (abstract)
StaticMemAllocImpl          impl.{h,cpp}: the client's calls, the linking
  <- ResultCheck            impl.cpp: the checker and the lower bound
      <- BestFitHelper      best_fit_helper.cpp: the event loop
          <- BestFit        best_fit.{h,cpp}          -- refines MemPlan
          <- Pushdown       pushdown.{h,cpp}          -- refines MemPlan
      <- IntervalMove       interval_move.{h,cpp}     -- refines MemPlan
Tensor                      what rearranging a tensor means (abstract)
  <- MemoryForward          KernelDialect.cpp, MGBToKernel.cpp: the compiler's views
  <- LayoutInstr            runtime/src/vm: the runtime's instructions
      <- Views              both, one after the other (also <- MemoryForward)
StaticMemoryPlanning        lowering, workspaces, lifetimes, the plan
  <- VM                     vm.c, vm/, lite/: running what was planned
WeightAlign                 parse.c: weights aligned in place (names end in Align, so
                            that one module can prove of it and of LiteNetwork)
WeightInit                  init.c, network.c: weights processed and freed
LiteNetwork                 lite/, init.c, parse.c: networks that share memory
  <- LiteExtern             vm/extern_opr.c: and external loaders
SourceLanguage              what a function of LKCompiler's language means
  <- IRGenerator            IRGenerator.java: intermediate code, and its meaning
      <- CodeGenerator      x86/CodeGenerator.java: instructions, and the machine
          <- LKCompiler     the two in sequence
MC*                         instances for TLC
*_proof                     lemmas and theorems, checked by TLAPS
```

`<-` is EXTENDS (`A <- B`: B extends A, which stands above it). The variables of a
class are declared once, in the module of the class that has them. A definition
called a *slip* in a comment is a wrong variant of the one that follows it; the
mutants of `PROJECT.json` put it in place of that one.

### The allocators

**`StaticMemAllocImpl`.** `itv` is `m_interval_storage` (ids are positions),
`specs` is `m_overwrite_spec`; `dest`, `src`, `offset`, `root`, `rootOffset` are
the members of `Interval` that the linking fills in; `addr` is `addr_begin`. `stage`
says how far the object is: `build` (the client's calls) - `link` (one
specification of `init_overwrite_dest()` per step) - `root` (one interval of the
path compression per step) - `solve` ... `check` - `done`, or `reject` (the
documented assertion on a specification whose source begins too late) or `abort`
(any other assertion). `path_compression(i)` is taken when the recursion returns
for `i`; intervals are compressed in an order that the recursion allows, and a
recursion that does not end is a `root` stage in which no step is possible.

**`ResultCheck`.** `check_result_and_calc_lower_bound()` has no interaction with
anything, so it is one action, `check_result`, whose outcome is computed by
operators: the unsigned usage, the lower bound, the address checks, and the sweep
with the map `cur_allocated` as the set of its intervals, one time after the other.

**`BestFitHelper`.** `Due(phase, time)` is the list of intervals of one of the
three inner loops of `run()`; `CallBack` takes them in order of id, as the vectors
hold them. Times without events are passed over by empty phases.

**`BestFit`.** The two indices of free chunks hold the same chunks under other
keys, so they are one set; what differs, that a chunk without an aligned byte is
in only one of them and that keys must be new to both, is `Indexed`, `IndexKey`
and `KeysUnique`. `alloc`, `alloc_overwrite` and `free` are the callbacks with
every call they make.

**`Pushdown`.** `blocks` is the `std::list` with the intervals that own blocks;
`below` is `m_interval_below`, filled in as the results are made: `init_topo_order()` fills it
in afterwards from the saved results, in the same order, and nothing reads it in
between. `get_interval_addr_end(r)` is taken when the recursion places the chain
of overwriters of root `r`.

**`IntervalMove`.** The sizes are aligned and the lifetimes extended while
`do_solve()` works, so `size` and `end_of` are operators beside `itv`. One step
places one root with all it moves: `move_conflict` is a set for each interval, and
the recursive move is the least set of pushes that keeps every recorded pair
apart. `std::sort` leaves the order of equal intervals open, and so does the model.

**`MemPlan`.** One step, `Solve`, gives addresses to all intervals; `Plan` says
which addresses are good, without links, roots, order or heap. Which of the
specifications are honoured is left open, as the documentation ("could
overwrite") does: only those in place (the source begins in the last step of the
destination), and at most one per source and destination.

Abstractions: user keys are ids; wording of assertions and the name-keyed map are
left out; sizes and times are natural numbers (a `size_t` wraps only beyond
2^64). Unsigned subtraction is modelled where the code subtracts.

### Tensors and what they lie in

**`Tensor`** says what an operation means: a tensor is a shape and its elements in
row-major order. Elements are named by where they were in the input, so a wrong
one shows.

**`MemoryForward`.** `memref` is the type that `memoryForward()` computes, `buffer`
the memory it is a view of, `value` the tensor it should be (a history variable),
`planned` the same view as `StaticMemoryPlanning.cpp` computes it again from the
address that was planned. `Relayout` is the copy that the pass puts in where no
view exists; SetSubtensor and Concat write through a view.

**`LayoutInstr`.** An iterator (`NoconIter`) is a record of counters and an offset; `Copied`
is the copy by two of them. Strides and the order of axes are those
of the C code, unsigned offsets included. Reshape takes the pointer. An
instruction gets whatever tensor and numbers there are; where it computes something else
than the operation means, for reasons that no pass of the compiler prevents, the history
variable `unfit` records the reason: "backward" (numbers that count from the end, negative
steps), "reversed" (the selected elements begin before the pointer), "strided" (gaps between
the elements), "raised" (a Broadcast to more axes that looks at the wrong extent). What
the array of extents holds beyond its axes is left open.

**`Views`** puts one after the other: the input of the first instruction may be a
view the compiler made, as it is when only a shape or an index is not known.

**`StaticMemoryPlanning`.** A function grows one operation at a time, with the
buffers that `MGBToKernel.cpp` gives its result. `LastUse` follows the aliases,
as the buffer view analysis does. The allocator is not one of the three modules
but what they all refine: every plan that keeps overlapping intervals apart.

**`VM`.** Memory is cells; a cell holds the name of the instruction, and the run,
that wrote it last, and `meant` what a tensor should hold. So a tensor that was
overwritten, freed, or never written shows when it is read. Blocks obtained for
tensors of dynamic shape are kept for the next run, as `vm/common.h` does.

### The runtime

**`WeightAlign`.** A byte is named by its address in the file; `mem` says which
byte is at an address now. So "a weight is intact" is "its bytes are its own".
`alloc_weight` and `align_weight` are the two branches of the loop, `alloc_fails`
the logged but unhandled failure of `malloc`. `Apart` states the one assumption
about the file: a vector of bytes in a flatbuffer follows its own length, so weights
do not touch each other or the beginning of the buffer.

**`WeightInit`.** What a piece of memory holds is the weight in it followed by the
init functions it went through, so processing a weight twice, or reading it
after it was overwritten, shows. `init_weight` covers all three ways of
`init_model_weights()`: they differ in the uses given up (`uses_given_up`), in
whether a shared weight's memory is taken over, in whether the pointer of a freed
weight is cleared, and in which operators get the processed weight (`replaced`).
`user_count` is the importer's count; the constant `NodesShared` says whether the
operators of one network that read the same weight read it from one parameter
node (then the importer counts one use) or from several.

**`LiteNetwork`.** Any number of networks, each made, loaded and destroyed once,
with one action per call of `network.c` and `tensor.c` that changes state. A
`Memory` object has the name of the network it was made for; `max_tensor_memroy`
is the pointer to one. `object` and `block` say what became of the object and of
what its `ptr` points to, `size` how large the block really is, which the code
does not record. `status` becomes "undefined" when freed memory is used, "overrun"
when a block is too small, "abort" when an assertion fails. `init_model_memory` is an
operator, used by the two calls that make it. The values of tensors, names and
`ComboIOTensor` lists are left out, as are the calls that only read and
`LITE_reset_tensor_memory()` of an output.

**`LiteExtern`** adds `loader_maps`, which is one for the process, to every step of
`LiteNetwork` that loads or destroys, and the client's own registrations. A
name of which `delete_loader()` moved some bytes only is `Spoilt`.

### LKCompiler

**`SourceLanguage`** is the reference: an evaluator for expressions and statements
on words, with pointers, arrays and calls. A function that depends on the order
of evaluation where the language leaves it open, does not end within `Fuel` rounds
of a loop, or reads what was never written has no meaning and is asked nothing.
**`IRGenerator`** has one operator per `visit` method on a state with the members
of the class (statements, scopes, stacks of jump targets); `IROutcome` is what the
result does when it runs. **`CodeGenerator`** does the same for the instructions:
the frame, the virtual stack, and a machine with the registers that the generator
uses (`CodeOutcome`). The callee of a call is external; it changes the global
variable, so the order and number of calls show. With `-fPIC` the global variable and
the called function may each be local or not (private, or defined here under `-fPIE`):
g@GOT, g@GOTOFF, f or f@PLT. A call through the PLT needs the base of the table in bx.

## 3. Runs

Every bound is a constant of the cfg. A run marked V finds the violation that a
finding describes.

| Run | Shows | States |
|---|---|---|
| `bestfit` | three intervals, two specifications, three time steps, alignment 1 or 2: heap, disjointness, lower bound, no failed assertion, refinement of `MemPlan` | 263,234 |
| `pushdown` | as `bestfit`, for the algorithm of the pass, with four time steps: all problems of three intervals, those of four in program order; the recorded order is acyclic and separates what is alive together | 1,088,018 |
| `pushdown_live` | `solve()` returns | 1,213 |
| `interval_move` | four intervals, one specification: recorded pairs stay ordered through all later moves, the peak grows as predicted, refinement of `MemPlan` | 132,142 |
| `weight_align` | all layouts of two weights in 15 bytes, alignment 4 | 111,704 |
| `weight_init` | one device model of up to three instructions, two of up to two | 390,472 |
| `weight_init_nodes` V | operators on one parameter node: a weight is freed or overwritten while it is read | |
| `lite_network` | three networks in every order of calls that keeps the client's part, destroyed in every order: memory there and large enough, nothing freed is used, nothing leaks, no input lost, loaders found | 303,253 |
| `views` | chains of two operations on tensors of 12 and of 6 elements, and a third on small ones: compiler's views, runtime's instructions, the second after the first, up to an operand that an instruction cannot take | 30,814 |
| `vm` | all functions of up to six operations, with every plan, run, with errors, run again, destroyed: every operand holds what it should | 138,304 |
| `planned_reshape` V | a ReshapeIns of planned memory: the plan gives away what its result points to | |
| `lkc` | 3,207 functions around small expressions and loops: intermediate code and instructions have the meaning of the source, position independent or not | 12,072 |

### Why the bounds are enough

A conflict between intervals is between two of them; what can cause it involves a
third (whose free chunk is split or merged), and a chain of overwriters needs
three intervals and two specifications. Sizes 1 and 3 with offsets 0 and 1 give
overwriters of the whole, the head, the middle and the tail of a destination. Three time
steps let one interval end, one continue and one begin at the same time. With
sizes 1 and 3 and alignment 2 there are chunks that lie within one unit of
alignment and chunks that reach from one into the next. For `Pushdown`
the recorded order is the risk, and it takes four intervals to have a block
between two neighbours whose neighbourhood is older; to keep these within reach,
`ProblemBound` takes problems of four intervals only in the order, and at the times,
in which a pass through a program gives them (`AnyOrder`, `AnyTime`). `InOrder` does
the same for `IntervalMove`, which places in an order of its own anyway: ids
decide only between equal ones. `BestFit` is proved for all
values, so there the bounds matter only for what is not proved.

Two weights and an alignment of 4 give all cases of a weight that is moved, stays,
or is copied, next to one that is. Two device models with two instructions each
are enough for one model to give up the uses of the other; three instructions
let one weight be processed twice and read by a third.

Three networks are an owner, one that shares, and one that comes later; the files
need less, more, or the most memory in a second device model. `LiteNetwork` is
proved for any number of networks and any files. The files of `lite_network` differ
also in their external operators: none, one, and two in the other order than their
library has them; with a loader of the client's own the table doubles.

A view is of one operation on another one: two operations give every pair, and a
third is applied where the result is small (`MaxThird`). Axes have 1 to 4
elements, enough for steps of 2 and for ranges that leave something out at both ends.
The planned address is not a multiple of the element size. Instructions also get ranges that
count from the end, and broadcasts to one more axis; all four reasons of `unfit` occur,
and a chain is followed to the first (`ChainBound`). `Views` is proved for
tensors of any shape and chains of any length; operands outside `OperandsFit` are in neither.

`VM` is proved for any function. An operand of `vm` is lost when one more tensor gets its memory between its last
recorded use and its real one: a buffer, a view of it, another buffer, a reader
and the return are five operations; six add a workspace, a second view or an
output of dynamic shape. Memory kept between runs matters only with tensors of
dynamic shape, so only functions with one run twice or under a second device model,
and only those of at most `MaxKept` operations with the return.

Expressions of `lkc` nest two deep, three where a value has to survive a call or a
division; loops go round up to `Fuel` = 4 times; a run of intermediate code may take
2^`MaxSteps` steps, of which the longest function needs a part.

### Client discipline

Constants name what the code relies on and does not check. `TRUE` stands for the
discipline (for `NodesShared` and `ReshapesPlanned`: `FALSE`), and the modules allow
the other value too:

| Constant | Says |
|---|---|
| `ForwardSpecs` | an overwriter is added after its destination and begins later; so do passes that go through a program in order (`StaticMemoryPlanning.cpp` calls only `add`) |
| `Sizes` without 0 | no interval is empty |
| `NodesShared` | operators of one network that read the same weight read it from one parameter node (`weight_init_nodes` shows it) |
| `AlikeInits` | an operator of a second device model has an init function only where that of the first has one; one import gives every device model the same operators |
| `OrphansRest` | when the owner of a memory was destroyed, or gave it up to share another one, the networks that shared it are not run and not shared any more; destroying them, in any order, is fine |
| `SharesEarly` | no third network has used a memory that is to be shared |
| `ChecksLoad` | a network that failed to load is not destroyed |
| `LoadersKept` | no network with external operators is loaded after one was destroyed |
| `TakesLast` | a client unregisters the loader that was registered last |
| `ReshapesPlanned` | a ReshapeIns may get an operand whose memory is planned (`planned_reshape` shows it) |
| `DestroysFromLast` | when a network is destroyed, no device model after the active one has memory for tensors of dynamic shape |

A client of the LITE interface also loads a network once, and before any other
call that needs it. Section 5 says what happens without each.

### Fairness

Liveness is claimed only for `solve()`, under weak fairness of the whole
next-state relation: `solve()` is one sequential call, and a process that is
not stopped goes on. No fairness is assumed of the client.

## 4. Theorems

All under the assumptions of the constants only (each module names them); the
allocator theorems also under `ForwardSpecs` and sizes above 0, those of the
networks under `OrphansRest` and `ChecksLoad` (`RuntimeMemoryAlwaysSafe` and
`NothingEverLeaks` also under `SharesEarly`), those of weight
initialization under `~NodesShared` and alike init functions, those of the VM under
`~ReshapesPlanned` (`planned_reshape` shows why) and `DestroysFromLast`, those of
`Views` under `OperandsSuit`, that operands are as `OperandsFit` says for every shape
(`MCOperandsAssumption` has TLC evaluate it of the operands of `views`, for shapes of up
to three axes).

* `BestFit_proof`: `TypeCorrect`, `HeapAlwaysTiled`, `FreeAlwaysCoalesced`,
  `ChunksAlwaysHeld`, `AllComesBack`, `HeapAlwaysSound`, `LiveAlwaysDisjoint`,
  `RootOffsetsAgree`, `RootsAlwaysResolved`, `SolvingNeverAsserts`,
  `CheckerAlwaysAccepts`, `LowerBoundAlwaysSound`, `PlanPromised`.
* `Pushdown_proof`: `TypeCorrect`, `BlocksAlwaysSound`, `OrderAlwaysAcyclic`,
  `OrderAlwaysKept`, `LiveAlwaysDisjoint`, `RootOffsetsAgree`, `NeverAsserts`,
  `PlanPromised`.
* `IntervalMove_proof`: `TypeCorrect`, `ConflictsAlwaysOrdered`,
  `PeakAlwaysReached`, `NeverAsserts`, `PlanPromised`.
* `Views_proof`: `ViewsAlwaysFaithful`, `InstructionsAlwaysFaithful`, `OnlyViewsUnfit`,
  `ChainsTyped`.
* `Runtime_proof`: of `WeightAlign` `AligningTypeCorrect`, `WeightsAlwaysIntact`,
  `SharedAlwaysAligned`, `AligningNeverAsserts`; of `LiteNetwork`
  `NetworksTypeCorrect`, `RuntimeMemoryAlwaysSafe`,
  `NothingFreedIsEverUsed`, `NothingEverLeaks`, `InputsAlwaysKept`; of `LiteExtern`
  `ExternsLeaveNetworks`, `LoadersAlwaysFound`.
* `WeightInit_proof`: `WeightsTypeCorrect`, `OperandsAlwaysIntact`,
  `UseCountsAlwaysExact`, `WeightsAlwaysFreedOnce`.
* `VM_proof`: `PlansKeepApart`, `OperandsAlwaysHeld`, `MemoryAlwaysSafe`.

**Argument for `BestFit`.** The inductive invariant has three parts.
`StaticMemAllocImpl_proof` shows that the linking keeps the links inverse to each
other and pointing forward in time (`Prepared`), from which the recursion of the
path compression ends (the earliest interval not yet compressed has its root).
It also says which intervals hold memory before and after each callback of
`BestFitHelper` (`Holders`). `BestFit_proof` first shows of the heap alone that each of its
three operations takes a well-formed heap (tiled, coalesced) to a well-formed one
whose allocated chunks differ by the one chunk, and then joins the two: the
allocated chunks are those of `Holders`, every interval alive at a time lies within the
chunk of a holder, and chunks are disjoint. Disjointness of live intervals is
not inductive by itself: an overwriter's placement is safe only because its
root's chunk was never shared.

**Argument for `Pushdown`.** The order is recorded only between neighbours in the
list of blocks, and only when a block is taken or given back; two intervals that
hold memory at the same time need never have been neighbours. So no invariant about
pairs of `below` will do, and `IInv` speaks of all assignments of addresses instead:
every one that respects `below` keeps each block of the list at or above the end of
the block before it (`OrderOK`), and keeps apart any two intervals that were ever in
use together. That the recorded order has no cycle follows from a single
assignment that respects it, and there always is one: the positions in the list,
free blocks included, of what is allocated, shifted up as the list grows
(`LayoutOK`). Placing the chains in the order of the recursion then yields an
assignment that respects `below` (`AddressesRespect`), and `OrderOK` says
what that is worth. The other half is the linking again (`Prepared`): chains of overwriters
nest, so that the recursion over a chain is over one interval at a time.

**Argument for `IntervalMove`.** `Board` says of the roots placed so far that
what was recorded above an interval is above it, that no two that meet went unrecorded,
and that the peak is what they reach. An insertion keeps it wherever it puts
the new interval (`PutKeepsBoard`): whoever moves pushes all that is recorded above
it at least as far, and nobody is pushed to less than the end of the new interval
(`PushedBeyond`), so that what stays is apart from what moves. Where the choice of the
chunk matters is the assertion about the peak. That the prediction is enough
(`GrowthEnough`) goes from the lowest interval that is moved upwards, that it is used in
full (`GrowthNeeded`) from the highest downwards: an interval pushed beyond its
space pushes somebody, in the end, beyond the peak. Both recursions, of the space and
of the moves, have one solution because they go along addresses (`FixedPoint`).

**The checker and the promise.** What the checker computes does not depend on the
algorithm, so `StaticMemAllocImpl_proof` proves once, for any addresses that keep
intervals in use apart and overwriters in their place, that all its assertions hold
(`CheckerPasses`). The sweep is the difficult part: its map holds, at every moment,
the last interval of each chain that is in use (`LiveAfter`), because at
most two members of a chain are in use at a moment, and then one overwrites the
other (`ChainMoment`). The loops of the checker are recursive functions; what they
compute is proved by giving the closed form and showing that it satisfies the same
equation, with the least place where they differ as the induction. The same
addresses are a plan in the sense of `MemPlan` (`PlanKept`), and the client's calls
only add to the problem (`PrepareDescribes`). Of an algorithm this asks for one
invariant more, about the total: it is what some interval reaches, up to the alignment
(`TopReached` in `BestFit_proof`, `PeakOK` in `Pushdown_proof`, part of `Board` in
`IntervalMove_proof`). With it,
`stage # "abort"` is invariant, and each step refines a step of `MemPlan` or none
(`StepRefines`).

**The lower bound.** The usage that the checker adds up at a moment is the sum of
the aligned sizes of the intervals that count then, each with what its offset adds; at
aligned offsets that is nothing. Intervals that count lie apart (`SameMomentApart`:
a destination is given back before its overwriter is counted), and at aligned addresses
so do their aligned blocks. That blocks that lie apart below the total are together
no larger (`Packed`) is an induction over their number: take the last one out and
move what lies above it down. The addresses are aligned because those of the roots
are and root offsets are true (`OffsetsFound`).

**Argument for `Views`.** The properties are about functions that go along the axes of
a tensor, of which there may be any number. What such a function computes is proved
like that of the checker's loops: a closed form is shown to satisfy the same
equation, along a chain of natural numbers (`Upward`, `LoopUp`, `LoopDown`). The
closed forms are these. A cell is its first one plus a sum over the axes (`DotSum`);
coordinates are numbers in a system of mixed base, and `Place` is the inverse of
`Coords` (`PlaceOfCoords`, `CoordsOfPlace`). Descriptions merged into a layout, last axis
first, move the first cell by the sum of what each takes off, multiply each stride
by its step, and leave the other axes alone, whatever became of the strides of axes of
extent 1 (`StridesRelaxed` runs in between, and no cell notices); removing the axes
that have an index renumbers those behind, and the positions that are left are those
that `Kept` counts. Hence a view sees the cells of its source at the coordinates
that the operation names (`Sees`), and a chain of views is a chain of such
statements (`ViewReads`). That is `ViewInv`: every element stands at the cell of its
coordinates, that cell is in the buffer, and the planned view is the same one
`PlanAddr` further on, of which only the remainder by the size of an element enters:
`PlanAddr` may be unaligned, as the planner's alignment of 1 allows
(`StaticMemoryPlanning.cpp:36`). For an operation that copies, writes to
different elements must go to different cells, or agree (`Writing`, `WrittenAt`).
At run time the same is proved of the two iterators: after k steps the counters
are the coordinates of k and the offset is their sum (`OffsetsAre`), so a copy
takes what the layouts say (`Gathered`); and of `update_layout()`, whose
equations differ from those of `merge()` in every line, that it selects the same
elements (`UpdateSees`). All this is claimed, and proved, until an instruction is given what it
cannot take: the variable `unfit` gets the reason in the step in which that
happens. The invariant is therefore `unfit = {} => InstrInv`. `InstrInv` adds that an
output is dense and all in memory, which is why only the view that the compiler
hands over can be strided or reversed in a way that matters (`OnlyViewsUnfit`); what is left
for later instructions are numbers that count from the end and Broadcasts to more axes.
The proofs led to two restrictions that the operands of the run obeyed without saying so, now
in `OperandsFit`: the number in a description lies in its axis, and no second axis is
added before the first (`KernelDialect.cpp:111`).

**Argument for `WeightAlign`.** The invariant says that the end of what was moved
is not above the next weight, and that all bytes from there on are as in the file.
A move goes to an address between the two (`NewPlace`), so it changes no byte of
a weight still to come; the arithmetic of rounding is a handful of lemmas about `%`.

**Argument for `LiteNetwork`.** The properties say nothing of who owns what, so
none is inductive. `IInv` does: a Memory whose owner is loaded is there (`OwnersLive`), and
long enough for all networks that use it (`UsersHold`); a Memory that nobody owns
is gone (`OthersGone`), and that of a network is used by none before it is loaded
(`UsedOnceLoaded`). Whoever destroys or gives up a Memory owned it, whatever the order, so
none is freed twice; networks that are left without an owner are outside `UsersHold`, and
`OrphansRest` keeps clients from touching them. Under `SharesEarly` a block is as
long as its Memory says, because none exists yet when a length grows.
External operators leave this alone (`ExternsLeaveNetworks`); their table of
loaders is well formed, and has all operators from the first library opened until
the first network with external operators is destroyed (`LoadersInv`). The flag
that says the library was opened outlives the table, hence `LoadersKept`; removing a
loader that is not the last spoils a name, hence `TakesLast`.

**Argument for `WeightInit`.** That every operand names the right weight says
nothing of what memory holds, and what it holds depends on who was visited. The
invariant `IInv` therefore says, for the set `left` of instructions still to be
visited, what each operand is (`OperandsWhen`), which weights are processed
(`ProcessedWhen`) and hence what each use count is: the number of operands that
still name the weight. And it says what memory holds: a weight that is still read
is at its place and unprocessed (`WeightsHeld`); a processed one is in memory of
its own, or in that of a weight that nobody reads any more (`ProcessedHeld`). A
visit takes away exactly the reads it gives up (`GivenUp`), all of one weight; if
none is left, nobody is hurt when the weight's memory is freed or taken over. This is
where `~NodesShared` is needed: with it, counts of the importer are counts of reads.

**Argument for `VM`.** `OperandsHeld` speaks of the instruction at hand; what makes it true
is spread over the lowering, the planner and earlier runs. `IInv` has a part for
each. `BodyOK` says what every function that the lowering makes is like: an
operand was written before (`Known`), each tensor has one writer, a view lies within
its root, and a kernel's output shares memory with no operand, except the
copy that SetSubtensor writes a part of. Each of the ways to lower an operation
keeps it (`createOpKeeps` and the like). From it, the last use that the planner
finds covers all of a buffer's uses, those through views included
(`InUseInLifetime`), so a plan that keeps lifetimes apart keeps apart what is in use
together (`PlanOK`). `MemoryInv` says who has which memory between instructions and
between runs: planned tensors are at their planned place, each tensor of
dynamic shape that has memory has a live block to itself, as large as `size` says,
and every live block but the two first has such an owner: hence nothing is freed
twice and nothing leaks. `RunInv` says that each known tensor holds what it is
meant to hold, a planned one as long as somebody still reads it, and that one whose memory is
not planned lies in a block of the client's or of an output of dynamic shape.
A kernel then writes only cells that no such tensor has (`Untouched`): planned ones
because of `PlanOK`, others because blocks have one owner. While a copy is being
written through a view, it holds neither its old nor its new value, and
`OutputOK` says of each cell which of the two is there.

**Model-checked only.** Liveness (`pushdown_live`: weak fairness is beyond the
provers). LKCompiler (`IRFaithful`, `CodeFaithful`): its evaluators and generators
are RECURSIVE operators over trees, which the provers do not take, and what they
compute for every tree is an induction over data.

## 5. Findings

`PROJECT.json` quotes the lines of two, each with the run that shows it: use counts
count parameter nodes, not operators (`importer.cpp:526`, `weight_init_nodes`); the
plan does not know that the result of a ReshapeIns points into its operand
(`StaticMemoryPlanning.cpp:65`, `planned_reshape`).

Seen while modelling, without a run of their own; the first group follows from
the modules with the other value of a constant above:

* Sharing checks only two of the networks that share (`network.c:288`, `:299`); a
  failed load leaves pointers that destroying frees again (`parse.c:528`);
  destroying one external operator empties the table of all networks, and the flag
  that it was filled stays set (`extern_opr.c:403`, `:285`); an entry of the table is
  removed by moving as many bytes as there are entries (`extern_opr.c:61`); a device
  model is freed before destructors of later ones reach it (`network.c:358`,
  `op.c:189`).
* Allocators: the lower bound can exceed the memory used when an overwriter lies at
  an unaligned offset (`impl.cpp:118`); an assertion of the checker can fail on a
  correct plan with an empty interval (`impl.cpp:203`); two specifications of
  one time step that each overwrite the other recurse for ever (`impl.cpp:37`); an
  overwriter added before its destination that ends with it, at an offset, trips
  `impl.cpp:164`; padding applies to overwriters (`impl.cpp:67`) although
  `static_mem_alloc.h:78` excepts them; a second `solve()` starts from the links of the
  first; `freeblock_cls_count` of `pushdown.cpp` is static and never reset.
* Views: the second of two axes added in front takes its stride from before the
  beginning of the strides (`KernelDialect.cpp:111`); x[-1] is taken for a range in the
  compiler (`KernelDialect.cpp:216`).
* Layout instructions; each is in the model, gives wrong elements there, and is recorded in
  `unfit`, beyond which `InstructionsFaithful` claims nothing. A strided view given to
  ReshapeIns or SetSubtensorIns is taken for a dense one (`reshape.c:51`); a negative
  stride meets an unsigned offset in Subtensor (`subtensor.c:28`); x[0:-1] keeps its last
  element and x[::-1] has none (`subtensor.c:50`); a Broadcast to more axes decides by
  the wrong extent whether an axis is repeated: `dims[i]`, where `dims[i - dim_diff]` is
  meant (`broadcast.c:62`), so that [2,1] made [4,2,5] repeats the first row's element. No pass
  of the compiler keeps these from the instructions.
* Runtime: the comparison of device models ignores init functions of later ones
  where the first has none (`init.c:265`); memory that a client gives for an output of
  dynamic shape is freed by the runtime (`tensor.c:111`); failed allocations are
  used (`parse.c:256`), and 0 bytes may be allocated as NULL (`init.c:448`).
* LKCompiler: the right side of `op=` is a tree that is computed after the side
  effects of the left side, though the comment says "Evaluate RHS before LHS"
  (`IRGenerator.java:447`); this is only seen in functions that the reference calls
  open. A char is stored with 4 bytes (`CodeGenerator.java:776`). With `-fPIC` a call goes
  through `f@PLT` (`CodeGenerator.java:101`), which needs the base of the table in bx; it
  is loaded if an operand of the body names bx (`:422`), and a call names none. A body that
  calls and reads no global variable jumps through whatever table its caller's bx points
  to; the machine sends such a call astray, and `CodeFaithful` leaves these bodies out.
  (`AssemblyCode`, which decides what an operand names, is not in this tree: were a call
  to count, bx would be saved and loaded.)

## 6. Not modelled

The reasons are in `PROJECT.json`, component by component: serializers, parsers
and tables (no state to go wrong over several steps), the kernel generators (their
properties are about the C text they print), fusion patterns (local), vendored and
generated code. These are most of the tree: of its roughly 118,000 lines of code,
`KernelGen/` alone has 76,000, and `gi_int.h`, `gi_float.h` and flatcc are
headers from elsewhere. The map is therefore a small share of all lines, and a
large one of those that keep state.

Inside modelled components:

* **Views**: axes are numbered from 0, and an index counts from 0; a chain whose
  instructions deduce an extent below 0 ends there; a Dimshuffle adds at most one axis in
  front (`OperandsFit` says all this); Concat has two operands; whether MLIR finds a layout for a Reshape (`try_reshape`) is external:
  where one exists it is taken, or not. The deletion of dead copies is left out.
* **VM**: device models of a network are alike; views are of tensors of known shape; the
  shape operand of ReshapeIns is not a read; the reading of instructions,
  `DEV_MEM_ALLOC` and `DEV_MEM_FREE`, which no exported function has, are left out.
  That an interval ends one step after its last use is not told apart.
* **Networks**: loading twice, and `LITE_reset_tensor_memory()` of an output;
  one library of external operators per file.
* **LKCompiler**: words only (no structs, casts, pointer arithmetic, strings), one function
  with one parameter and one global variable, no goto, no optimizer; the value of
  `&&` and `||` is that of the last operand computed, as in the code. The generators for
  ARM and MIPS are copies of the one for x86.

## 7. Plan

Done: the three allocators, views and layout instructions, planning and the VM,
weights, networks with loaders, LKCompiler's two generators; proofs of the
three allocators, of `Views`, `WeightAlign`, `LiteNetwork`, `WeightInit` and `VM`. Left,
in this order:

1. `LITE_reset_tensor_memory()` of outputs, and the deletion of dead copies in the
   memory forwarding pass.
2. Proofs: that each of the three allocators gives a plan as `StaticMemoryPlanning`
   assumes it (both sides are proved against `MemPlan`, the composition is not stated).
3. goto and structs in LKCompiler.

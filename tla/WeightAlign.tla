---------------------------- MODULE WeightAlign ----------------------------
(***************************************************************************)
(* alignment_or_alloc_weights() of the TinyNN runtime (runtime/src/        *)
(* parse.c): the weights of a model lie in the model buffer, at addresses  *)
(* that need not be aligned.  Going up, each is moved down to the next     *)
(* aligned address, in the buffer itself, over bytes of the model that are *)
(* no longer needed; one that has no room to move gets memory of its own.  *)
(*                                                                         *)
(* A byte is named by the address it has in the file: what mem says of an  *)
(* address is which byte is there now.                                     *)
(***************************************************************************)
EXTENDS Integers, FiniteSets

CONSTANTS
    Weights,        \* the indices of model->weights
    Alignment,      \* host_dev->alignment
    MaxAddress,     \* bound: addresses that the model buffer may use
    Layouts         \* the layouts of a buffer, see Layout

(* Where the buffer begins; where each weight lies and how long it is; and *)
(* which weights are floats stored as halves.                              *)
Address == 0..MaxAddress
Layout == [base : Address, origin : [Weights -> Address],
           length : [Weights -> Nat], half : [Weights -> BOOLEAN]]

(* A vector of bytes follows its own length in a flatbuffer: no weight     *)
(* begins right at the end of another one.                                 *)
Apart(l) ==
    /\ \A w \in Weights : l.base < l.origin[w] /\ l.origin[w] + l.length[w] <= MaxAddress
    /\ \A v, w \in Weights : v # w =>
         \/ l.origin[v] + l.length[v] < l.origin[w]
         \/ l.origin[w] + l.length[w] < l.origin[v]

ASSUME AddressAssumption == MaxAddress \in Nat /\ Alignment \in Nat \ {0}
ASSUME WeightsAssumption == IsFiniteSet(Weights)
ASSUME LayoutsAssumption == Layouts \subseteq Layout /\ \A l \in Layouts : Apart(l)

VARIABLES
    layout,         \* what parse_weight() found
    share_weights,  \* the argument of parse_model()
    mem,            \* the model buffer
    todo,           \* the weights that the loop has not reached
    current_addr,   \* where the last weight kept in the buffer ends
    ptr,            \* weight->ptr
    is_shared,      \* weight->is_shared
    copy,           \* the memory of the weights that are not shared
    stage           \* "align", "done", or how the program stopped

aligning == <<layout, share_weights, mem, todo, current_addr, ptr, is_shared, copy, stage>>

Base == layout.base
origin == layout.origin
length == layout.length
compressed(w) == layout.half[w] /\ length[w] > 0
Nil == -1
Buffer == Base..MaxAddress

RoundDown(a) == a - (a % Alignment)
RoundUp(a) == RoundDown(a + Alignment - 1)

(* The bytes of a weight in the file, as an array of n bytes or, when they *)
(* are halves, of the pairs that half_to_float() reads.                    *)
Bytes(m, a, n) == [k \in 0..n - 1 |-> m[a + k]]
Halves(m, a, n) == [k \in 0..(n \div 2) - 1 |-> <<m[a + 2 * k], m[a + 2 * k + 1]>>]
Read(m, w) == IF compressed(w) THEN Halves(m, origin[w], length[w])
                               ELSE Bytes(m, origin[w], length[w])

(* memmove(dst, a, n) *)
Moved(m, dst, a, n) ==
    [b \in DOMAIN m |-> IF dst <= b /\ b < dst + n THEN m[b - dst + a] ELSE m[b]]

-----------------------------------------------------------------------------
InitAlign ==
    /\ layout \in Layouts
    /\ share_weights \in BOOLEAN
    /\ mem = [a \in Buffer |-> a]
    /\ todo = Weights
    /\ current_addr = Base
    /\ ptr = origin
    /\ is_shared = [w \in Weights |-> TRUE]
    /\ copy = [w \in Weights |-> <<>>]
    /\ stage = "align"

(* The loop goes by address, after qsort(). *)
NextWeight(w) == stage = "align" /\ w \in todo /\ \A v \in todo : origin[w] <= origin[v]

(* Slips: the end of the previous weight is not rounded up; a weight       *)
(* always moves by a whole unit; its end is rounded up, or is one short.   *)
fit_addr_unaligned == current_addr
addr_one_unit_down(w) == RoundDown(origin[w]) - Alignment
end_rounded_up(w) == RoundUp(current_addr) + RoundUp(length[w])
end_one_short(w) == RoundUp(current_addr) + length[w] - 1

Keeps(w) == share_weights /\ current_addr <= RoundDown(origin[w]) /\ ~compressed(w)
more_fit_addr == RoundUp(current_addr)
alignment_addr(w) ==
    IF RoundDown(origin[w]) > more_fit_addr THEN more_fit_addr ELSE RoundDown(origin[w])
new_addr(w) == alignment_addr(w) + length[w]

(* The assertion of every round: "weight pointer addr error."              *)
Ahead(w) == current_addr < origin[w]
TINYNN_ASSERT(ok) == stage' = IF ok THEN stage ELSE "abort"

(* The weight gets memory of its own; malloc(0) gives NULL.                *)
alloc_weight(w) ==
    /\ NextWeight(w) /\ ~Keeps(w)
    /\ TINYNN_ASSERT(Ahead(w))
    /\ ptr' = [ptr EXCEPT ![w] = Nil]
    /\ is_shared' = [is_shared EXCEPT ![w] = FALSE]
    /\ copy' = [copy EXCEPT ![w] = Read(mem, w)]
    /\ todo' = todo \ {w}
    /\ UNCHANGED <<layout, share_weights, mem, current_addr>>

(* malloc() fails: the failure is logged, and the copy goes to NULL.       *)
alloc_fails(w) ==
    /\ NextWeight(w) /\ ~Keeps(w) /\ length[w] > 0
    /\ Ahead(w)
    /\ stage' = "crash"
    /\ UNCHANGED <<layout, share_weights, mem, todo, current_addr, ptr, is_shared, copy>>

(* The weight is moved down, or left where it is if that is aligned.       *)
align_weight(w) ==
    /\ NextWeight(w) /\ Keeps(w)
    /\ TINYNN_ASSERT(Ahead(w) /\ alignment_addr(w) <= origin[w])
    /\ mem' = Moved(mem, alignment_addr(w), origin[w], length[w])
    /\ ptr' = [ptr EXCEPT ![w] = alignment_addr(w)]
    /\ is_shared' = [is_shared EXCEPT ![w] = TRUE]
    /\ current_addr' = new_addr(w)
    /\ todo' = todo \ {w}
    /\ UNCHANGED <<layout, share_weights, copy>>

all_aligned ==
    /\ stage = "align" /\ todo = {}
    /\ stage' = "done"
    /\ UNCHANGED <<layout, share_weights, mem, todo, current_addr, ptr, is_shared, copy>>

AlignStopped == stage # "align" /\ UNCHANGED aligning

NextAlign ==
    \/ \E w \in Weights : alloc_weight(w) \/ alloc_fails(w) \/ align_weight(w)
    \/ all_aligned
    \/ AlignStopped

SpecAlign == InitAlign /\ [][NextAlign]_aligning

-----------------------------------------------------------------------------
TypeOKAlign ==
    /\ layout \in Layouts /\ share_weights \in BOOLEAN
    /\ mem \in [Buffer -> Address]
    /\ todo \subseteq Weights /\ current_addr \in Address
    /\ ptr \in [Weights -> Address \cup {Nil}]
    /\ is_shared \in [Weights -> BOOLEAN]
    /\ DOMAIN copy = Weights
    /\ stage \in {"align", "done", "abort", "crash"}

(* What a weight holds, read from where it is now.                         *)
Holds(w) == IF is_shared[w] THEN Bytes(mem, ptr[w], length[w]) ELSE copy[w]
File == [a \in Buffer |-> a]

(* No move overwrites a weight, one that was moved before or one that is   *)
(* still to be read: each holds what the file says, the moved ones at      *)
(* their new address, the others where the file has them.                  *)
WeightsIntact ==
    /\ \A w \in todo : ptr[w] = origin[w] /\ Bytes(mem, origin[w], length[w])
                                               = Bytes(File, origin[w], length[w])
    /\ \A w \in Weights \ todo : Holds(w) = Read(File, w)

(* In the end every weight that stays in the buffer is aligned and inside  *)
(* the buffer.                                                             *)
SharedAligned ==
    \A w \in Weights \ todo : is_shared[w] =>
        ptr[w] % Alignment = 0 /\ ptr[w] \in Buffer

(* Neither assertion of the loop ever fails.                               *)
AlignNeverAsserts == stage # "abort"
=============================================================================

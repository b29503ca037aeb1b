------------------------------ MODULE Pushdown ------------------------------
(***************************************************************************)
(* StaticMemAllocPushdown (static_mem_alloc/pushdown.{h,cpp}), the         *)
(* algorithm that the StaticMemoryPlanning pass uses.  BestfitPrealloc     *)
(* keeps a list of blocks, driven by BestFitHelper: it has no addresses,   *)
(* only an order, and its free blocks may grow.  What counts is which      *)
(* interval was directly below which; each interval is then pushed down    *)
(* onto those below it.                                                    *)
(***************************************************************************)
EXTENDS BestFitHelper

VARIABLES
    blocks,     \* m_mem_block
    below,      \* m_interval_below, filled in as the alloc_results are made
    peak        \* m_peak_usage

prealloc == <<blocks, below>>
vars == <<problem, stage, links, todo, addr, lowerBound, loop, prealloc, peak>>

(* A block is an interval's or free.  Free blocks have a size and a stamp, *)
(* obj_idx, that grows with every new one; only its order matters.         *)
Block == [owner : Ids \cup {Nil}, size : Nat, stamp : Nat]
allocated(b) == b.owner # Nil
owned(i) == [owner |-> i, size |-> 0, stamp |-> 0]
FreeAt(bs) == {k \in DOMAIN bs : ~allocated(bs[k])}
PositionsOf(bs, i) == {k \in DOMAIN bs : bs[k].owner = i}

(* The blocks from first to last are replaced. *)
Replaced(bs, first, last, new) == SubSeq(bs, 1, first - 1) \o new \o SubSeq(bs, last + 1, Len(bs))

(* insert_free_blk_before() and a slip, which forgets the block before:    *)
(* the new free block joins a free one on either side; an empty one is     *)
(* not inserted.                                                           *)
SizeAt(bs, k) == IF k \in FreeAt(bs) THEN bs[k].size ELSE 0
insert_merging_next(bs, pos, size) ==
    LET merged == {pos} \cap FreeAt(bs)
        total == size + SizeAt(bs, pos)
        stamp == 1 + Max({0} \cup {bs[k].stamp : k \in FreeAt(bs) \ merged})
    IN  Replaced(bs, pos, IF pos \in merged THEN pos ELSE pos - 1,
                 IF total = 0 THEN <<>>
                 ELSE <<[owner |-> Nil, size |-> total, stamp |-> stamp]>>)
insert_free_blk_before(bs, pos, size) ==
    LET merged == {pos - 1, pos} \cap FreeAt(bs)
        total == size + SizeAt(bs, pos - 1) + SizeAt(bs, pos)
        stamp == 1 + Max({0} \cup {bs[k].stamp : k \in FreeAt(bs) \ merged})
    IN  Replaced(bs, IF pos - 1 \in merged THEN pos - 1 ELSE pos,
                     IF pos \in merged THEN pos ELSE pos - 1,
                 IF total = 0 THEN <<>>
                 ELSE <<[owner |-> Nil, size |-> total, stamp |-> stamp]>>)
insert_free_blk_after(bs, pos, size) == insert_free_blk_before(bs, pos + 1, size)

(* make_alloc_result(): the intervals next to block k, past one free block.*)
prev(bs, k) ==
    CASE k = 1 -> Nil
      [] k > 2 /\ ~allocated(bs[k - 1]) -> bs[k - 2].owner
      [] OTHER -> bs[k - 1].owner
next_backward(bs, k) == prev(bs, k)     \* a slip
next(bs, k) ==
    CASE k = Len(bs) -> Nil
      [] k + 1 < Len(bs) /\ ~allocated(bs[k + 1]) -> bs[k + 2].owner
      [] OTHER -> bs[k + 1].owner
FoundNoAdjacentFree(bs, k) ==
    /\ k > 2 /\ ~allocated(bs[k - 1]) => allocated(bs[k - 2])
    /\ k + 1 < Len(bs) /\ ~allocated(bs[k + 1]) => allocated(bs[k + 2])

(* A slip: only what lies below i is recorded.                             *)
RecordedPrev(i, bs) ==
    LET k == CHOOSE k \in DOMAIN bs : bs[k].owner = i
    IN  [below EXCEPT ![i] = @ \cup ({prev(bs, k)} \ {Nil})]

(* What init_topo_order() makes of the result for interval i. *)
Recorded(i, bs) ==
    LET k == CHOOSE k \in DOMAIN bs : bs[k].owner = i
    IN  [j \in Ids |-> below[j] \cup (IF j = next(bs, k) THEN {i} ELSE {})
                                \cup (IF j = i THEN {prev(bs, k)} \ {Nil} ELSE {})]

-----------------------------------------------------------------------------
CC_ASSERT(ok) == stage' = IF ok THEN stage ELSE "abort"

(* BestfitPrealloc::alloc(): the smallest free block that is large enough, *)
(* the oldest one of these; else the largest one, the newest of these, is  *)
(* made large enough; a new block at the end if there is no free one.      *)
Earlier(bs, j, k) == \/ bs[j].size < bs[k].size
                     \/ bs[j].size = bs[k].size /\ bs[j].stamp <= bs[k].stamp
BestFree(bs, s) ==
    LET fitting == {k \in FreeAt(bs) : bs[k].size >= s}
    IN  IF fitting # {} THEN {k \in fitting : \A j \in fitting : Earlier(bs, k, j)}
        ELSE {k \in FreeAt(bs) : \A j \in FreeAt(bs) : Earlier(bs, j, k)}
TakenUngrown(bs, k, i) ==                \* a slip
    insert_free_blk_after([bs EXCEPT ![k] = owned(i)], k, bs[k].size - itv[i].size)
Taken(bs, k, i) ==
    LET s == itv[i].size
        left == IF bs[k].size > s THEN bs[k].size - s ELSE 0
    IN  insert_free_blk_after([bs EXCEPT ![k] = owned(i)], k, left)

alloc(i) ==
    /\ CallBack("alloc", i)
    /\ \E bs \in IF FreeAt(blocks) = {} THEN {Append(blocks, owned(i))}
                 ELSE {Taken(blocks, k, i) : k \in BestFree(blocks, itv[i].size)} :
        /\ blocks' = bs
        /\ below' = Recorded(i, bs)
        /\ CC_ASSERT(\A k \in PositionsOf(bs, i) : FoundNoAdjacentFree(bs, k))
    /\ UNCHANGED <<addr, peak>>

(* BestfitPrealloc::alloc_overwrite(): what the overwriter leaves of its   *)
(* destination becomes free, before and after it.                          *)
Overwritten(bs, k, d, i) ==
    LET tail == itv[d].size - (offset[i] + itv[i].size)
        before == insert_free_blk_before(bs, k, offset[i])
    IN  \* the block of d may have moved
        {[insert_free_blk_after(before, m, tail) EXCEPT ![m] = owned(i)] :
            m \in PositionsOf(before, d)}

alloc_overwrite(i) ==
    /\ CallBack("overwrite", i)
    /\ LET d == dest[i] IN
       IF PositionsOf(blocks, d) = {} \/ itv[d].size < offset[i] + itv[i].size
       THEN CC_ASSERT(FALSE) /\ UNCHANGED prealloc
       ELSE \E k \in PositionsOf(blocks, d) : \E bs \in Overwritten(blocks, k, d, i) :
            /\ blocks' = bs
            /\ below' = Recorded(i, bs)
            /\ CC_ASSERT(\A m \in PositionsOf(bs, i) : FoundNoAdjacentFree(bs, m))
    /\ UNCHANGED <<addr, peak>>

(* BestfitPrealloc::free() *)
Freed(bs, k, i) == insert_free_blk_before(Replaced(bs, k, k, <<>>), k, itv[i].size)

free(i) ==
    /\ CallBack("free", i)
    /\ IF PositionsOf(blocks, i) = {}
       THEN CC_ASSERT(FALSE) /\ UNCHANGED blocks
       ELSE CC_ASSERT(TRUE) /\ \E k \in PositionsOf(blocks, i) : blocks' = Freed(blocks, k, i)
    /\ UNCHANGED <<addr, below, peak>>

-----------------------------------------------------------------------------
(* init_topo_order() is over: do_solve() goes through the intervals. *)
start_push == end_loop("place") /\ UNCHANGED <<prealloc, peak>>

(* get_interval_addr_end(): it first pushes down, recursively, all that is *)
(* directly below an interval or a member of its chain of overwriters;     *)
(* then the chain is placed on them.  So a chain is placed once all below  *)
(* it are; the order among these makes no difference.  If the order had a  *)
(* cycle, no chain on it would ever be placed.                             *)
ChainOfOne(r) == {r}                     \* a slip
Chain(r) == {i \in Ids : root[i] = r}
Unplaced(r) == is_overwrite_root(r) /\ addr[r] = INVALID
CanPlace(r) == Unplaced(r) /\ \A i \in Chain(r) : \A j \in below[i] : addr[j] # INVALID

(* The addresses that the root r must not be below. *)
Floors(r) == {0} \cup UNION {{addr_end(j) - rootOffset[i] : j \in below[i]} : i \in Chain(r)}

(* The address of a member of a chain; a slip aligns the root downwards.   *)
RoundedDown(a, i) == (a - (a % alignment)) + rootOffset[i]
Pushed(a, i) == align(a) + rootOffset[i]

get_interval_addr_end(r) ==
    /\ stage = "place"
    /\ CanPlace(r) /\ \A s \in Ids : CanPlace(s) => r <= s
    /\ \E a \in Floors(r) :
        /\ \A b \in Floors(r) : b <= a
        /\ addr' = [i \in Ids |-> IF i \in Chain(r) THEN Pushed(a, i) ELSE addr[i]]
        /\ LET end == align(Pushed(a, r) + itv[r].size)
           IN  peak' = IF end > peak THEN end ELSE peak
    /\ CC_ASSERT(rootOffset[r] = 0)
    /\ UNCHANGED <<problem, links, todo, lowerBound, loop, prealloc>>

end_push ==
    /\ stage = "place" /\ \A r \in Ids : ~Unplaced(r)
    /\ stage' = "check"
    /\ UNCHANGED <<problem, links, todo, addr, lowerBound, loop, prealloc, peak>>

tot_alloc == peak

(* solve() has returned or the program has aborted. *)
Stopped == stage \in {"done", "reject", "abort"} /\ UNCHANGED vars

-----------------------------------------------------------------------------
Init ==
    /\ InitProblem /\ InitLoop
    /\ lowerBound = 0
    /\ blocks = <<>> /\ below = <<>> /\ peak = 0

(* do_solve() starts. *)
start_prealloc ==
    /\ start_loop
    /\ blocks' = <<>> /\ below' = [i \in Ids |-> {}] /\ peak' = 0

Next ==
    \/ Prepare /\ UNCHANGED <<lowerBound, loop, prealloc, peak>>
    \/ start_prealloc
    \/ next_phase /\ UNCHANGED <<prealloc, peak>>
    \/ \E i \in Ids : alloc(i) \/ alloc_overwrite(i) \/ free(i)
    \/ start_push
    \/ \E r \in Ids : get_interval_addr_end(r)
    \/ end_push
    \/ check_result(tot_alloc) /\ UNCHANGED <<loop, prealloc, peak>>
    \/ Stopped

Spec == Init /\ [][Next]_vars /\ WF_vars(Next)

-----------------------------------------------------------------------------
TypeOK ==
    /\ TypeOKProblem
    /\ now \in 0..MaxTime /\ phase \in Phases
    /\ blocks \in Seq(Block) /\ peak \in Nat
    /\ stage \in {"solve", "place", "check", "done"} => below \in [Ids -> SUBSET Ids]

(* Each interval that holds memory, and no other, has exactly one block;   *)
(* two free blocks are never next to each other, so that the neighbour of  *)
(* an interval is at most one block away (pushdown.cpp:217, 230).          *)
BlocksOfHolders ==
    stage \in {"solve", "place"} =>
        /\ \A i \in Ids : Cardinality(PositionsOf(blocks, i)) = IF i \in Holders THEN 1 ELSE 0
        /\ \A k \in FreeAt(blocks) : k + 1 \notin FreeAt(blocks)

(* What lies between two free blocks is not lost: when the loop ends, all  *)
(* blocks have been merged into one.                                       *)
AllReturned ==
    stage = "place" => Len(blocks) <= 1 /\ FreeAt(blocks) = DOMAIN blocks

(* The order has no cycle, though it mixes neighbours of different times   *)
(* and chains of overwriters: the recursion of get_interval_addr_end()     *)
(* always finds a chain that rests on placed ones only.                    *)
OrderAcyclic ==
    stage = "place" /\ (\E r \in Ids : Unplaced(r)) => \E r \in Ids : CanPlace(r)

(* An interval directly below another ends at or before its begin          *)
(* (pushdown.h:14-17), though either of them may lie in an overwritten one.*)
OrderKept ==
    stage \in {"check", "done"} => \A i \in Ids : \A j \in below[i] : addr_end(j) <= addr[i]

(* The list of blocks is sound from the first allocation to the last free. *)
BlocksSound == BlocksOfHolders /\ AllReturned

(* No assertion fails in the linking, in the loop, in BestfitPrealloc or   *)
(* when the intervals are pushed down, and the checker, which computes     *)
(* addresses and overlaps its own way, accepts the plan (impl.cpp:100-209).*)
NeverAborts == [][stage' # "abort"]_vars

(* Pushdown implements what an allocator promises. *)
Abstract == INSTANCE MemPlan WITH
    stage <- PlanStage,
    honoured <- IF Ready THEN HonouredSpecs ELSE {},
    addr <- IF Ready THEN addr ELSE <<>>,
    tot <- IF Ready THEN tot_alloc ELSE 0
ImplementsMemPlan == Abstract!Spec
=============================================================================

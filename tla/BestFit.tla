------------------------------ MODULE BestFit ------------------------------
(***************************************************************************)
(* StaticMemAllocBestFit (static_mem_alloc/best_fit.{h,cpp}): a simulated  *)
(* heap of free and allocated chunks, driven by BestFitHelper.  Both       *)
(* indices of the free chunks, by address and by aligned size, are the one *)
(* set heap.free; Indexed and IndexKey say what the second one holds.      *)
(***************************************************************************)
EXTENDS BestFitHelper

VARIABLE
    heap    \* m_top, the free chunks, m_allocated_chunk

vars == <<problem, stage, links, todo, addr, lowerBound, loop, heap>>

Chunk == [addr : Nat, size : Nat]
chunk(a, s) == [addr |-> a, size |-> s]
chunk_end(c) == c.addr + c.size

(* m_free_by_size_addr_align holds the chunks that reach beyond their      *)
(* aligned address.                                                        *)
Indexed(c) == align(c.addr) < chunk_end(c)
aligned_size(c) == chunk_end(c) - align(c.addr)
IndexKey(c) == <<aligned_size(c), align(c.addr)>>

(* insert_free(): empty chunks are dropped; the keys of a chunk must be    *)
(* new to both indices.                                                    *)
NonEmpty(S) == {c \in S : c.size # 0}
insert_free(rest, new) == rest \cup NonEmpty(new)
KeysUnique(F) ==
    \A c, d \in F : c # d =>
        /\ c.addr # d.addr
        /\ Indexed(c) /\ Indexed(d) => IndexKey(c) # IndexKey(d)
InsertOk(rest, new) ==
    /\ NonEmpty(new) \cap rest = {}
    /\ KeysUnique(insert_free(rest, new))

(* m_allocated_chunk[a] = s *)
set_allocated(A, a, s) == {c \in A : c.addr # a} \cup {chunk(a, s)}

-----------------------------------------------------------------------------
(* Slips: a chunk one byte too small will do; the rest of a chunk is lost. *)
CandidatesTooSmall(h, s) == {c \in h.free : Indexed(c) /\ aligned_size(c) >= s - 1}
SplitHead(c, a, s) == {chunk(c.addr, a - c.addr)}

(* alloc_aligned_addr(): the smallest free chunk that is large enough from *)
(* its aligned address on, the lowest one of these; else memory is added.  *)
Candidates(h, s) == {c \in h.free : Indexed(c) /\ aligned_size(c) >= s}
IsBest(h, c, s) ==
    /\ c \in Candidates(h, s)
    /\ \A d \in Candidates(h, s) :
         \/ aligned_size(c) < aligned_size(d)
         \/ aligned_size(c) = aligned_size(d) /\ align(c.addr) <= align(d.addr)

(* Size s at address a is cut out of the free chunk c. *)
Split(c, a, s) == {chunk(c.addr, a - c.addr), chunk(a + s, chunk_end(c) - (a + s))}
Cut(h, c, a, s) ==
    [top |-> h.top,
     free |-> insert_free(h.free \ {c}, Split(c, a, s)),
     allocated |-> set_allocated(h.allocated, a, s)]
CutOk(h, c, a, s) ==
    c.addr <= a /\ a + s <= chunk_end(c) /\ InsertOk(h.free \ {c}, Split(c, a, s))

(* No candidate: m_top grows by s, and by what aligns it, which is free. *)
AtTop(h, s) == {chunk(h.top + s, align(h.top + s) - (h.top + s))}
Grown(h, s) ==
    [top |-> align(h.top + s),
     free |-> insert_free(h.free, AtTop(h, s)),
     allocated |-> set_allocated(h.allocated, h.top, s)]

(* alloc_placement(): the last free chunk that begins at or below a. *)
FreeBelow(h, a) ==
    {c \in h.free : c.addr <= a /\ \A d \in h.free : d.addr <= a => d.addr <= c.addr}

(* Slips: a chunk is not merged with the next one; a freed chunk stays in  *)
(* m_allocated_chunk; an overwriter goes to the start of its destination.  *)
NeverAfter(h, c) == {}
overwrite_addr_no_offset(i) == addr[dest[i]]

(* merge_free_and_insert(): a chunk joins the free chunk that ends where   *)
(* it begins and the one that begins where it ends.                        *)
Before(h, c) == {p \in h.free : /\ p.addr < c.addr /\ chunk_end(p) = c.addr
                                /\ \A q \in h.free : q.addr < c.addr => q.addr <= p.addr}
After(h, c) == {n \in h.free : /\ n.addr >= c.addr /\ n.addr = chunk_end(c)
                               /\ \A q \in h.free : q.addr >= c.addr => n.addr <= q.addr}
Merged(h, c) ==
    LET first == {p.addr : p \in Before(h, c)} \cup {c.addr}
        last == {chunk_end(n) : n \in After(h, c)} \cup {chunk_end(c)}
    IN  {chunk(a, e - a) : a \in {x \in first : \A y \in first : x <= y},
                           e \in {x \in last : \A y \in last : x >= y}}
Unmerged(h, c) == h.free \ (Before(h, c) \cup After(h, c))

(* free(): the chunk allocated at the address becomes free. *)
ChunksAt(h, a) == {c \in h.allocated : c.addr = a}
ReleasedButKept(h, c) ==
    [top |-> h.top,
     free |-> insert_free(Unmerged(h, c), Merged(h, c)),
     allocated |-> h.allocated]
Released(h, c) ==
    [top |-> h.top,
     free |-> insert_free(Unmerged(h, c), Merged(h, c)),
     allocated |-> h.allocated \ {c}]
ReleaseOk(h, c) == InsertOk(Unmerged(h, c), Merged(h, c))

-----------------------------------------------------------------------------
(* The callbacks of do_solve().  A failed assertion aborts the program. *)
CC_ASSERT(ok) == stage' = IF ok THEN stage ELSE "abort"

alloc(i) ==
    /\ CallBack("alloc", i)
    /\ LET s == itv[i].size IN
       IF Candidates(heap, s) = {}
       THEN /\ CC_ASSERT(InsertOk(heap.free, AtTop(heap, s)))
            /\ heap' = Grown(heap, s)
            /\ addr' = [addr EXCEPT ![i] = heap.top]
       ELSE \E c \in heap.free :
            /\ IsBest(heap, c, s)
            /\ CC_ASSERT(CutOk(heap, c, align(c.addr), s))
            /\ heap' = Cut(heap, c, align(c.addr), s)
            /\ addr' = [addr EXCEPT ![i] = align(c.addr)]

(* alloc_overwrite(): the destination is freed, and the overwriter placed inside it. *)
overwrite_addr(i) == addr[dest[i]] + offset[i]

alloc_overwrite(i) ==
    /\ CallBack("overwrite", i)
    /\ LET d == dest[i]
           a == overwrite_addr(i)
       IN  IF \E c \in ChunksAt(heap, addr[d]) : FreeBelow(Released(heap, c), a) # {}
           THEN \E c \in ChunksAt(heap, addr[d]) : \E b \in FreeBelow(Released(heap, c), a) :
                /\ CC_ASSERT(ReleaseOk(heap, c) /\ CutOk(Released(heap, c), b, a, itv[i].size))
                /\ heap' = Cut(Released(heap, c), b, a, itv[i].size)
                /\ addr' = [addr EXCEPT ![i] = a]
           ELSE CC_ASSERT(FALSE) /\ UNCHANGED <<heap, addr>>

free(i) ==
    /\ CallBack("free", i)
    /\ IF ChunksAt(heap, addr[i]) # {}
       THEN \E c \in ChunksAt(heap, addr[i]) :
                CC_ASSERT(ReleaseOk(heap, c)) /\ heap' = Released(heap, c)
       ELSE CC_ASSERT(FALSE) /\ UNCHANGED heap
    /\ UNCHANGED addr

tot_alloc == heap.top

(* solve() has returned or the program has aborted. *)
Stopped == stage \in {"done", "reject", "abort"} /\ UNCHANGED vars

-----------------------------------------------------------------------------
Init ==
    /\ InitProblem /\ InitLoop
    /\ lowerBound = 0
    /\ heap = [top |-> 0, free |-> {}, allocated |-> {}]

Next ==
    \/ Prepare /\ UNCHANGED <<lowerBound, loop, heap>>
    \/ (start_loop \/ next_phase \/ end_loop("check")) /\ UNCHANGED heap
    \/ \E i \in Ids : alloc(i) \/ alloc_overwrite(i) \/ free(i)
    \/ check_result(tot_alloc) /\ UNCHANGED <<loop, heap>>
    \/ Stopped

Spec == Init /\ [][Next]_vars /\ WF_vars(Next)

-----------------------------------------------------------------------------
TypeOK ==
    /\ TypeOKProblem
    /\ now \in 0..MaxTime /\ phase \in Phases
    /\ heap \in [top : Nat, free : SUBSET Chunk, allocated : SUBSET Chunk]

Chunks == heap.free \cup heap.allocated

(* Every byte below m_top is in one chunk, free or allocated: splitting,   *)
(* merging and growing lose nothing and count nothing twice.               *)
HeapTiled ==
    /\ \A a \in 0..heap.top - 1 : \E c \in Chunks : c.addr <= a /\ a < chunk_end(c)
    /\ \A c, d \in Chunks : c # d => chunk_end(c) <= d.addr \/ chunk_end(d) <= c.addr
    /\ heap.free \cap heap.allocated = {}

(* Free chunks never touch: a free block is never split in two entries     *)
(* that best fit would see as too small.                                   *)
FreeCoalesced == \A c, d \in heap.free : chunk_end(c) # d.addr

(* The allocated chunks are those of the intervals that hold memory: one    *)
(* that has begun, not ended and not been overwritten.                     *)
ChunksOfHolders ==
    stage \in {"solve", "check", "done"} =>
        heap.allocated = {chunk(addr[i], itv[i].size) : i \in Holders}

(* When the loop ends all memory has come back as one free chunk.          *)
AllReturned ==
    stage \in {"check", "done"} =>
        heap.allocated = {} /\ heap.free = NonEmpty({chunk(0, heap.top)})

(* The heap is sound: what a chunk holds is known at every moment, nothing *)
(* is lost when it is split, merged, grown or overwritten, and all of it   *)
(* comes back (best_fit.cpp:6-112).                                        *)
HeapSound == HeapTiled /\ FreeCoalesced /\ ChunksOfHolders /\ AllReturned

(* No assertion fails while do_solve() runs: not in the loop, not in the   *)
(* heap (best_fit.cpp:36, 47, 56, 103, 106) and not in the linking.        *)
SolveNeverAsserts ==
    [][(stage \in {"link", "root", "solve"} => stage' # "abort")]_vars

(* The checker, which computes addresses and overlaps its own way, accepts *)
(* every plan that do_solve() makes (impl.cpp:100-209).                    *)
CheckerAccepts == [][(stage = "check" => stage' # "abort")]_vars

(* The lower bound of the memory usage that solve() reports never exceeds  *)
(* what a plan needs (static_mem_alloc.h:57-61), whatever the offsets.     *)
LowerBoundSound == stage = "done" => lowerBound <= tot_alloc

(* It does not when all overwriters lie at aligned offsets.                *)
OffsetsAligned == \A i \in Ids : rootOffset[i] % alignment = 0
LowerBoundSoundIfAligned == stage = "done" /\ OffsetsAligned => lowerBound <= tot_alloc

(* BestFit implements what an allocator promises. *)
Abstract == INSTANCE MemPlan WITH
    stage <- PlanStage,
    honoured <- IF Ready THEN HonouredSpecs ELSE {},
    addr <- IF Ready THEN addr ELSE <<>>,
    tot <- IF Ready THEN tot_alloc ELSE 0
ImplementsMemPlan == Abstract!Spec
=============================================================================

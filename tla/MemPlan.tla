------------------------------ MODULE MemPlan ------------------------------
(***************************************************************************)
(* What a static memory allocator promises its client (StaticMemAlloc,     *)
(* static_mem_alloc.h), whatever its algorithm.  The client describes      *)
(* intervals and overwrite specifications; one step then gives every       *)
(* interval an address, such that no two intervals that are in use at the  *)
(* same time share memory unless one overwrites the other.                 *)
(***************************************************************************)
EXTENDS Integers, Sequences

VARIABLES
    itv,        \* sequence of [begin, end, size]
    specs,      \* sequence of [src, dest, offset]
    alignment,
    stage,      \* "open", "planned" or "rejected"
    honoured,   \* the specifications the plan follows
    addr,       \* the address of every interval
    tot         \* tot_alloc()

vars == <<itv, specs, alignment, stage, honoured, addr, tot>>

Ids == DOMAIN itv
Specs == {specs[k] : k \in DOMAIN specs}
alignUp(a) == a + ((alignment - (a % alignment)) % alignment)

(* Whether an interval can take over memory of another: it begins in the   *)
(* last time step of the other one.                                        *)
InPlace(p) == itv[p.src].begin = itv[p.dest].end - 1
TooLate(p) == itv[p.src].begin >= itv[p.dest].end

(* An interval is overwritten by one other at most, and overwrites one.    *)
Compatible(H) ==
    /\ H \subseteq {p \in Specs : InPlace(p)}
    /\ \A p, q \in H : p.src = q.src \/ p.dest = q.dest => p = q

(* Intervals linked by a chain of overwrites: no set closed under H tells  *)
(* them apart.                                                             *)
Chained(H, i, j) ==
    \A S \in SUBSET Ids :
        i \in S /\ (\A p \in H : p.src \in S <=> p.dest \in S) => j \in S

EndOf(f, i) == f[i] + itv[i].size
Meet(i, j) == itv[i].begin < itv[j].end /\ itv[j].begin < itv[i].end
Share(f, i, j) == f[i] < EndOf(f, j) /\ f[j] < EndOf(f, i)

(* A plan the client can use. *)
Plan(f, H, n) ==
    /\ \A i \in Ids : f[i] \in Nat
    /\ \A i \in Ids : (\A p \in H : p.src # i) => alignUp(f[i]) = f[i]
    /\ \A p \in H : f[p.src] = f[p.dest] + p.offset
    /\ \A i, j \in Ids : Meet(i, j) /\ ~Chained(H, i, j) => ~Share(f, i, j)
    /\ \A i \in Ids : EndOf(f, i) <= n
    /\ n > 0 => \E i \in Ids : n <= alignUp(EndOf(f, i))

-----------------------------------------------------------------------------
Init ==
    /\ itv = <<>> /\ specs = <<>> /\ alignment = 1
    /\ stage = "open" /\ honoured = {} /\ addr = <<>> /\ tot = 0

(* add(), add_overwrite_spec(), alignment(): the description only grows. *)
Describe ==
    /\ stage = "open"
    /\ Len(itv) <= Len(itv') /\ itv = SubSeq(itv', 1, Len(itv))
    /\ Len(specs) <= Len(specs') /\ specs = SubSeq(specs', 1, Len(specs))
    /\ UNCHANGED <<stage, honoured, addr, tot>>

(* solve() *)
Solve ==
    /\ stage = "open" /\ stage' = "planned"
    /\ \A p \in Specs : ~TooLate(p)
    /\ Compatible(honoured')
    /\ DOMAIN addr' = Ids /\ tot' >= 0
    /\ Plan(addr', honoured', tot')
    /\ UNCHANGED <<itv, specs, alignment>>

(* solve() on a specification whose source begins after its destination. *)
Refuse ==
    /\ stage = "open" /\ stage' = "rejected"
    /\ \E p \in Specs : TooLate(p)
    /\ UNCHANGED <<itv, specs, alignment, honoured, addr, tot>>

Next == Describe \/ Solve \/ Refuse
Spec == Init /\ [][Next]_vars
=============================================================================

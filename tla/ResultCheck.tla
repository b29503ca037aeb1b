---------------------------- MODULE ResultCheck ----------------------------
(***************************************************************************)
(* check_result_and_calc_lower_bound() of StaticMemAllocImplHelper: what   *)
(* solve() asserts of the addresses an algorithm has chosen, and the lower *)
(* bound of the memory usage that it reports.                              *)
(***************************************************************************)
EXTENDS StaticMemAllocImpl, SequencesExt

VARIABLE
    lowerBound      \* m_peak_lower_bound

(* The size an interval counts with in the lower bound. *)
lower_bound_size(i) ==
    IF is_overwrite_root(i)
    THEN align(itv[i].size)
    ELSE align(rootOffset[i] + itv[i].size) - (rootOffset[i] - (rootOffset[i] % alignment))

(* Whether an interval counts once the events of time t are seen: a root   *)
(* from its begin on, an overwriter when the interval it overwrites ends.  *)
(* A slip: the overwriter counts while that one still does.                *)
counts_early(i, t) == itv[i].begin <= t
counts(i, t) ==
    IF is_overwrite_root(i) THEN itv[i].begin <= t ELSE itv[dest[i]].end <= t

(* The usage once the events of time t are seen. *)
usage(t) ==
    LET counted(i) == IF counts(i, t) THEN lower_bound_size(i) ELSE 0
        given_back(i) == IF itv[i].end <= t THEN lower_bound_size(i) ELSE 0
        sum[k \in 0..Len(itv)] ==
            IF k = 0 THEN 0 ELSE sum[k - 1] + counted(k) - given_back(k)
    IN  sum[Len(itv)]

peak_lower_bound == Max({0} \cup {usage(t) : t \in 0..MaxTime})

(* Addresses are set, the roots' are aligned, overwriters lie where their  *)
(* specification says, and the total is what the intervals reach.          *)
PlacedAsSpecified(tot) ==
    LET peak == Max({0} \cup {addr_end(i) : i \in Ids})
    IN  /\ \A i \in Ids : addr[i] # INVALID
        /\ \A i \in Ids : is_overwrite_root(i) => addr[i] = align(addr[i])
        /\ \A i \in Ids : ~is_overwrite_root(i) => addr[dest[i]] + offset[i] = addr[i]
        /\ peak <= tot /\ align(peak) = align(tot)

(* The sweep over time keeps cur_allocated, a map from address to interval:*)
(* here the set of its intervals, and whether every assertion has held.    *)
At(live, a) == {j \in live : addr[j] = a}

remove_alloc(sweep, i) ==
    LET rest == sweep.live \ {i}
        overwriter == {src[i]} \ {Nil}
    IN  [live |-> rest \cup overwriter,
         ok |-> sweep.ok /\ i \in sweep.live
                /\ \A s \in overwriter : At(rest, addr[s]) = {}]

check_alloc(sweep, i) ==
    LET above == {j \in sweep.live : addr[j] >= addr[i]}
        below == {j \in sweep.live : addr[j] < addr[i]}
    IN  [live |-> (sweep.live \ At(sweep.live, addr[i])) \cup {i},
         ok |-> /\ sweep.ok
                /\ \A j \in above : (\A k \in above : addr[j] <= addr[k])
                                        => addr_end(i) <= addr[j]
                /\ \A j \in below : (\A k \in below : addr[k] <= addr[j])
                                        => addr_end(j) <= addr[i]]

(* An overwriter that ends with its destination, at the same address, is   *)
(* removed after the others.                                               *)
Deferred(i) ==
    ~is_overwrite_root(i) /\ itv[i].end = itv[dest[i]].end /\ offset[i] = 0

(* A loop over intervals, in the order of their ids. *)
ForEach(step(_, _), start, S) ==
    LET after[k \in 0..Len(itv)] ==
            IF k = 0 THEN start
            ELSE IF k \in S THEN step(after[k - 1], k) ELSE after[k - 1]
    IN  after[Len(itv)]

sweep_time(sweep, t) ==
    LET ending == {i \in Ids : itv[i].end = t}
        deferred == {i \in ending : Deferred(i)}
        beginning == {i \in Ids : itv[i].begin = t /\ is_overwrite_root(i)}
    IN  ForEach(check_alloc,
                ForEach(remove_alloc, ForEach(remove_alloc, sweep, ending \ deferred), deferred),
                beginning)

NoConflicts ==
    LET swept[k \in 0..MaxTime + 1] ==
            IF k = 0 THEN [live |-> {}, ok |-> TRUE] ELSE sweep_time(swept[k - 1], k - 1)
        end == swept[MaxTime + 1]
    IN  end.ok /\ end.live = {}

(* check_result_and_calc_lower_bound(): solve() returns, or an assertion   *)
(* of the checker aborts the program.                                      *)
check_result(tot) ==
    /\ stage = "check"
    /\ lowerBound' = peak_lower_bound
    /\ stage' = IF PlacedAsSpecified(tot) /\ usage(MaxTime) = 0 /\ NoConflicts
                THEN "done" ELSE "abort"
    /\ UNCHANGED <<problem, links, todo, addr>>
=============================================================================

---------------------------- MODULE IntervalMove ----------------------------
(***************************************************************************)
(* StaticMemAllocIntervalMove (static_mem_alloc/interval_move.{h,cpp}).    *)
(* The roots are placed from the one that lives longest to the shortest.   *)
(* Each goes to the free chunk between the intervals it conflicts with     *)
(* that needs the least growth of the peak; a chunk that is too small is   *)
(* made larger by moving the intervals above it to higher addresses, with  *)
(* all that was recorded to lie above these.                               *)
(***************************************************************************)
EXTENDS ResultCheck

VARIABLES
    time_end,       \* Interval::time_end, extended by do_solve()
    move_conflict,  \* IntervalExtraInfo::move_conflict, as sets
    peak            \* m_peak

vars == <<problem, stage, links, todo, addr, lowerBound, time_end, move_conflict, peak>>

Roots == {i \in Ids : is_overwrite_root(i)}
Placed == Roots \ todo

(* do_solve() works with aligned sizes, and with roots that live as long   *)
(* as the last of their overwriters; the checker restores both.            *)
size(i) == align(itv[i].size)
end_of(i) == addr[i] + size(i)
unextended(r) == itv[r].end         \* a slip
extended(r) == Max({itv[i].end : i \in {j \in Ids : root[j] = r}})
time_length(r) == time_end[r] - itv[r].begin
meet(i, j) == itv[i].begin < time_end[j] /\ itv[j].begin < time_end[i]

(* sort_intervals(): std::sort leaves the order of equal ones open. *)
Precedes(a, b) ==
    \/ time_length(a) > time_length(b)
    \/ /\ time_length(a) = time_length(b)
       /\ \/ itv[a].begin < itv[b].begin
          \/ itv[a].begin = itv[b].begin /\ size(a) > size(b)

(* merge_interval_by_addr() and the loop over its result: the free chunks  *)
(* between the intervals of C, some of them empty.  One ends at each        *)
(* interval that none before it reaches beyond, the last one at the peak.  *)
SortsBefore(i, j) ==
    \/ addr[i] < addr[j]
    \/ addr[i] = addr[j] /\ end_of(i) < end_of(j)
    \/ addr[i] = addr[j] /\ end_of(i) = end_of(j) /\ i < j
reach(S) == Max({0} \cup {end_of(i) : i \in S})
reach_before(C, i) == reach({j \in C : SortsBefore(j, i)})
free_chunks(C) ==
    {[begin |-> reach_before(C, i), end |-> addr[i]] :
        i \in {j \in C : reach_before(C, j) <= addr[j]}}
    \cup {[begin |-> reach(C), end |-> peak]}

(* get_move_space_size(): how far an interval can move without a growth of *)
(* the peak.  The record of the version is only a memo: no address changes *)
(* between two queries of one version.                                     *)
space_above_only(i) == peak - end_of(i)     \* a slip: what lies above is ignored
space_above(i) ==
    LET space[j \in Placed] ==
            Min({peak - end_of(j)}
                \cup {space[k] + addr[k] - end_of(j) : k \in move_conflict[j]})
    IN  space[i]

(* consider_free_chunk(), for a chunk that is too small: what it lacks,    *)
(* and by how much the peak would grow.                                    *)
Fits(c, s) == c.end - c.begin >= s
Lacks(c, s) == s - (c.end - c.begin)
peak_add(C, c, s) ==
    Max({Max({c.begin + s, peak}) - peak}
        \cup {Lacks(c, s) - (addr[i] - c.end + space_above(i)) :
                i \in {j \in C : end_of(j) > c.begin}})

(* A slip: an interval is put at the end of its chunk.                     *)
address_at_end(c, s) == c.end - s
address(c, s) == c.begin

(* find_best_fit(): the first of the tightest chunks if one is large       *)
(* enough, else the first that costs least.                                *)
Cost(C, c, s) == IF Fits(c, s) THEN <<0, 0, (c.end - c.begin) - s, c.begin>>
                 ELSE <<1, peak_add(C, c, s), Lacks(c, s), c.begin>>
Less(u, v) == \E n \in 1..4 : u[n] < v[n] /\ \A m \in 1..n - 1 : u[m] = v[m]
IsBest(C, c, s) ==
    /\ c \in free_chunks(C)
    /\ \A d \in free_chunks(C) : d = c \/ Less(Cost(C, c, s), Cost(C, d, s))
find_best_fit(C, s) ==
    LET best == CHOOSE c \in free_chunks(C) : IsBest(C, c, s)
    IN  [addr |-> address(best, s),
         peak_incr |-> Cost(C, best, s)[2],
         ok |-> \A c \in free_chunks(C) :
                  /\ c.begin <= c.end
                  /\ ~Fits(c, s) => \A i \in C : end_of(i) <= c.begin \/ c.end <= addr[i]]

(* move_interval_higher() for every conflicting interval that reaches      *)
(* beyond the new one: where the placed intervals are after it.            *)
moved_shallow(C, a, s) ==               \* a slip: no recursion
    [i \in Placed |-> IF i \in C /\ end_of(i) > a /\ addr[i] < a + s THEN a + s ELSE addr[i]]
moved(C, a, s) ==
    LET new[i \in Placed] ==
            LET pushers == {j \in Placed : i \in move_conflict[j] /\ new[j] > addr[j]}
            IN  Max({addr[i]} \cup {a + s : j \in {i} \cap {k \in C : end_of(k) > a}}
                              \cup {new[j] + size(j) : j \in pushers})
    IN  new

-----------------------------------------------------------------------------
CC_ASSERT(ok) == stage' = IF ok THEN stage ELSE "abort"

(* do_solve() starts, the path compression is over. *)
start_move ==
    /\ stage = "root" /\ todo = {}
    /\ stage' = "place" /\ todo' = Roots
    /\ time_end' = [i \in Ids |-> IF i \in Roots THEN extended(i) ELSE itv[i].end]
    /\ move_conflict' = [i \in Ids |-> {}] /\ peak' = 0
    /\ UNCHANGED <<problem, links, addr, lowerBound>>

(* What do_solve() records of the new interval and those it meets, by who  *)
(* is above whom.                                                          *)
Recorded(C, r, f) ==
    [i \in Ids |-> IF i = r THEN {j \in C : f[j] >= f[r]}
                   ELSE move_conflict[i] \cup {k \in {r} : i \in C /\ f[i] < f[r]}]
Apart(C, r, f) ==
    \A i \in C : IF f[i] < f[r] THEN f[i] + size(i) <= f[r] ELSE f[r] + size(r) <= f[i]

(* Both functions that place an interval raise the peak to its end.        *)
peak_after_insert(r, f) == Max({peak, f[r] + size(r)})   \* a slip: not those moved
peak_after(r, f) == Max({peak} \cup {f[i] + size(i) : i \in Placed \cup {r}})

(* One round of do_solve(): insert_interval() of the next root, then the   *)
(* conflicts are recorded.                                                 *)
insert_interval(r) ==
    /\ stage = "place"
    /\ r \in todo /\ \A s \in todo : ~Precedes(s, r)
    /\ LET C == {i \in Placed : meet(i, r)}
           fit == IF C = {} THEN [addr |-> 0, peak_incr |-> 0, ok |-> TRUE]
                  ELSE find_best_fit(C, size(r))
           new == moved(C, fit.addr, size(r))
           f == [[i \in Ids |-> IF i \in Placed THEN new[i] ELSE addr[i]] EXCEPT ![r] = fit.addr]
       IN  /\ addr' = f
           /\ peak' = peak_after(r, f)
           /\ move_conflict' = Recorded(C, r, f)
           /\ CC_ASSERT(/\ fit.ok /\ Apart(C, r, f)
                        /\ C # {} => peak' = peak + fit.peak_incr)
    /\ todo' = todo \ {r}
    /\ UNCHANGED <<problem, links, lowerBound, time_end>>

(* The last loop of do_solve(): the overwriters follow their roots. *)
place_overwriters ==
    /\ stage = "place" /\ todo = {}
    /\ stage' = "check"
    /\ addr' = [i \in Ids |-> addr[root[i]] + rootOffset[i]]
    /\ UNCHANGED <<problem, links, todo, lowerBound, time_end, move_conflict, peak>>

(* tot_alloc() asserts that some memory is used: a client solves a problem *)
(* with an interval that is not empty.                                     *)
tot_alloc == peak
NotEmpty == \E i \in Ids : itv[i].size > 0

Stopped == stage \in {"done", "reject", "abort"} /\ UNCHANGED vars

Init ==
    /\ InitProblem
    /\ lowerBound = 0 /\ time_end = <<>> /\ move_conflict = <<>> /\ peak = 0

Next ==
    \/ /\ Prepare /\ (stage' = "link" => NotEmpty)
       /\ UNCHANGED <<lowerBound, time_end, move_conflict, peak>>
    \/ start_move
    \/ \E r \in Ids : insert_interval(r)
    \/ place_overwriters
    \/ check_result(tot_alloc) /\ UNCHANGED <<time_end, move_conflict, peak>>
    \/ Stopped

Spec == Init /\ [][Next]_vars /\ WF_vars(Next)

-----------------------------------------------------------------------------
TypeOK ==
    /\ TypeOKProblem
    /\ peak \in Nat
    /\ stage \in {"place", "check", "done"} =>
         time_end \in [Ids -> 0..MaxTime] /\ move_conflict \in [Ids -> SUBSET Roots]

(* What was recorded stays true however far intervals have moved since:    *)
(* two placed roots that meet in time are recorded, one way only, and the  *)
(* upper one begins where the lower one ends or above (interval_move.cpp:  *)
(* 47-62).  Moving only what is recorded then never causes an overlap.     *)
ConflictsOrdered ==
    move_conflict # <<>> =>
        \A i, j \in Placed :
            /\ j \in move_conflict[i] => end_of(i) <= addr[j] /\ i \notin move_conflict[j]
            /\ i # j /\ meet(i, j) => j \in move_conflict[i] \/ i \in move_conflict[j]

(* The peak is what the placed intervals reach, no more: growth that was   *)
(* predicted from the memo is used in full.                                *)
PeakReached ==
    move_conflict # <<>> /\ Placed # {} =>
        /\ \A i \in Placed : end_of(i) <= peak
        /\ \E i \in Placed : end_of(i) = peak

(* No assertion fails: not in the linking, not in do_solve(), where        *)
(* interval_move.cpp:98 says that the peak grows as find_best_fit() has    *)
(* predicted, and not in the checker.                                      *)
NeverAborts == [][stage' # "abort"]_vars

(* IntervalMove implements what an allocator promises. *)
Abstract == INSTANCE MemPlan WITH
    stage <- PlanStage,
    honoured <- IF Ready THEN HonouredSpecs ELSE {},
    addr <- IF Ready THEN addr ELSE <<>>,
    tot <- IF Ready THEN tot_alloc ELSE 0
ImplementsMemPlan == Abstract!Spec
=============================================================================

--------------------------- MODULE BestFitHelper ---------------------------
(***************************************************************************)
(* BestFitHelper::run() (static_mem_alloc/best_fit_helper.cpp): goes       *)
(* through the event times in order and calls back, at each of them, free  *)
(* for the intervals that end, then alloc for the roots that begin, then   *)
(* alloc_overwrite for the overwriters that begin.  An algorithm gives the *)
(* callbacks; the module says which of them is due.                        *)
(***************************************************************************)
EXTENDS ResultCheck

VARIABLES
    now,        \* the event time of tpair
    phase       \* which of its three loops runs

loop == <<now, phase>>
Phases == {"free", "alloc", "overwrite"}

(* Slips: the end of an interval is taken for its last time step; an       *)
(* overwritten interval is freed at its end too; an overwriter never is.   *)
DueEarly(ph, t) ==
    CASE ph = "free" -> {i \in Ids : itv[i].end = t + 1 /\ src[i] = Nil}
      [] ph = "alloc" -> {i \in Ids : itv[i].begin = t /\ is_overwrite_root(i)}
      [] ph = "overwrite" -> {i \in Ids : itv[i].begin = t /\ ~is_overwrite_root(i)}
DueTwice(ph, t) ==
    CASE ph = "free" -> {i \in Ids : itv[i].end = t}
      [] ph = "alloc" -> {i \in Ids : itv[i].begin = t /\ is_overwrite_root(i)}
      [] ph = "overwrite" -> {i \in Ids : itv[i].begin = t /\ ~is_overwrite_root(i)}
DueRootsOnly(ph, t) ==
    CASE ph = "free" -> {i \in Ids : itv[i].end = t /\ src[i] = Nil /\ is_overwrite_root(i)}
      [] ph = "alloc" -> {i \in Ids : itv[i].begin = t /\ is_overwrite_root(i)}
      [] ph = "overwrite" -> {i \in Ids : itv[i].begin = t /\ ~is_overwrite_root(i)}

(* An overwritten interval is freed when its overwriter is allocated. *)
Due(ph, t) ==
    CASE ph = "free" -> {i \in Ids : itv[i].end = t /\ src[i] = Nil}
      [] ph = "alloc" -> {i \in Ids : itv[i].begin = t /\ is_overwrite_root(i)}
      [] ph = "overwrite" -> {i \in Ids : itv[i].begin = t /\ ~is_overwrite_root(i)}

InitLoop == now = 0 /\ phase = "free"

(* The path compression is over: do_solve() starts to run the loop. *)
start_loop ==
    /\ stage = "root" /\ todo = {}
    /\ stage' = "solve"
    /\ now' = 0 /\ phase' = "free" /\ todo' = Due("free", 0)
    /\ UNCHANGED <<problem, links, lowerBound, addr>>

(* The callback of phase ph is due for interval i; then the loop goes on.  *)
CallBack(ph, i) ==
    /\ stage = "solve" /\ phase = ph /\ NextTodo(i)
    /\ todo' = todo \ {i}
    /\ UNCHANGED <<problem, links, lowerBound, loop>>

(* A slip: the time does not advance.                                      *)
next_phase_same_time ==
    /\ stage = "solve" /\ todo = {}
    /\ phase = "overwrite" => now < MaxTime
    /\ phase' = CASE phase = "free" -> "alloc" [] phase = "alloc" -> "overwrite"
                  [] phase = "overwrite" -> "free"
    /\ now' = now
    /\ todo' = Due(phase', now')
    /\ UNCHANGED <<problem, stage, links, lowerBound, addr>>

(* A loop is over: the next one starts, or the next time does. *)
next_phase ==
    /\ stage = "solve" /\ todo = {}
    /\ phase = "overwrite" => now < MaxTime
    /\ phase' = CASE phase = "free" -> "alloc" [] phase = "alloc" -> "overwrite"
                  [] phase = "overwrite" -> "free"
    /\ now' = IF phase = "overwrite" THEN now + 1 ELSE now
    /\ todo' = Due(phase', now')
    /\ UNCHANGED <<problem, stage, links, lowerBound, addr>>

(* run() returns. *)
end_loop(next) ==
    /\ stage = "solve" /\ todo = {} /\ phase = "overwrite" /\ now = MaxTime
    /\ stage' = next
    /\ UNCHANGED <<problem, links, lowerBound, loop, todo, addr>>

-----------------------------------------------------------------------------
(* What the loop has done so far, from where it stands: whether callback   *)
(* ph has been made for interval i, due at time t.                         *)
Passed(ph, i, t) ==
    \/ t < now
    \/ /\ t = now
       /\ \/ phase = ph /\ i \notin todo
          \/ ph = "free" /\ phase # "free"
          \/ ph = "alloc" /\ phase = "overwrite"

Begun(i) == Passed(IF is_overwrite_root(i) THEN "alloc" ELSE "overwrite", i, itv[i].begin)
Ended(i) == IF src[i] # Nil THEN Begun(src[i]) ELSE Passed("free", i, itv[i].end)
Holders == {i \in Ids : Begun(i) /\ ~Ended(i)}
=============================================================================

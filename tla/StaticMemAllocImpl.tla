------------------------ MODULE StaticMemAllocImpl ------------------------
(***************************************************************************)
(* The part of the static memory allocators of MegCC that all algorithms  *)
(* share: class StaticMemAllocImplHelper, static_mem_alloc/impl.{h,cpp}.   *)
(* A client describes a problem with add(), add_overwrite_spec(),          *)
(* alignment() and padding(); solve() links the overwrite specifications,  *)
(* lets the algorithm assign addresses, and checks the result.             *)
(*                                                                         *)
(* An interval is named by its id: 1, 2, ... in the order of add().  The   *)
(* user key of an interval is abstracted to its id.                        *)
(***************************************************************************)
EXTENDS Integers, Sequences, FiniteSets

CONSTANTS
    MaxIntervals,   \* bound: calls of add()
    MaxSpecs,       \* bound: calls of add_overwrite_spec()
    MaxTime,        \* bound: time steps of the planned program
    Sizes,          \* the sizes passed to add()
    Offsets,        \* the offsets passed to add_overwrite_spec()
    Alignments,     \* the values passed to alignment()
    Paddings,       \* the values passed to padding()
    ForwardSpecs    \* TRUE: a source is added, and begins, after its destination

ASSUME BoundsAssumption ==
    MaxIntervals \in Nat /\ MaxSpecs \in Nat /\ MaxTime \in Nat
ASSUME SizesAssumption == Sizes \subseteq Nat /\ Offsets \subseteq Nat
ASSUME LayoutAssumption == Alignments \subseteq Nat \ {0} /\ Paddings \subseteq Nat
ASSUME PowerOfTwoAssumption == \A a \in Alignments : \E k \in 0..a : a = 2^k
ASSUME ForwardSpecsAssumption == ForwardSpecs \in BOOLEAN

VARIABLES
    itv,        \* m_interval_storage: the requests, in the order of add()
    specs,      \* m_overwrite_spec
    alignment,  \* m_alignment
    padding,    \* m_padding
    stage,      \* what the client or solve() is at
    linked,     \* how many specifications init_overwrite_dest() has gone through
    dest,       \* Interval::m_overwrite_dest, Nil for nullptr
    src,        \* Interval::m_overwrite_src
    offset,     \* Interval::m_offset_in_overwrite_dest
    root,       \* Interval::m_overwrite_dest_root; an interval without one is its own
    rootOffset, \* Interval::m_offset_in_overwrite_dest_root
    todo,       \* the intervals the running loop has still to visit
    addr        \* Interval::addr_begin

problem == <<itv, specs, alignment, padding>>
links == <<linked, dest, src, offset, root, rootOffset>>

Nil == 0
INVALID == -1
Ids == DOMAIN itv
Interval == [begin : 0..MaxTime, end : 0..MaxTime, size : Nat]

Stages == {"build", "link", "root", "solve", "place", "check", "done", "reject", "abort"}

align(a) == a + ((alignment - (a % alignment)) % alignment)
addr_end(i) == addr[i] + itv[i].size
is_overwrite_root(i) == dest[i] = Nil

(* The least element of todo: loops over intervals go by id. *)
NextTodo(i) == i \in todo /\ \A j \in todo : i <= j

(* Interval::time_overlap *)
time_overlap(i, j) == itv[i].begin < itv[j].end /\ itv[j].begin < itv[i].end
(* Interval::addr_overlap *)
addr_overlap(i, j) == addr[i] < addr_end(j) /\ addr[j] < addr_end(i)

-----------------------------------------------------------------------------
InitProblem ==
    /\ itv = <<>> /\ specs = <<>>
    /\ alignment = 1 /\ padding = 0
    /\ stage = "build"
    /\ linked = 0
    /\ dest = <<>> /\ src = <<>> /\ offset = <<>>
    /\ root = <<>> /\ rootOffset = <<>>
    /\ todo = {} /\ addr = <<>>

(* add(): a client passes begin < end. *)
add(b, e, s) ==
    /\ stage = "build" /\ Len(itv) < MaxIntervals
    /\ b < e
    /\ itv' = Append(itv, [begin |-> b, end |-> e, size |-> s + padding])
    /\ UNCHANGED <<specs, alignment, padding, stage, links, todo, addr>>

(* add_overwrite_spec(): s could overwrite the part of d that starts at o. *)
add_overwrite_spec(s, d, o) ==
    /\ stage = "build" /\ Len(specs) < MaxSpecs
    /\ s # d
    /\ o + itv[s].size <= itv[d].size
    /\ ForwardSpecs => d < s /\ itv[d].begin < itv[s].begin
    /\ specs' = Append(specs, [src |-> s, dest |-> d, offset |-> o])
    /\ UNCHANGED <<itv, alignment, padding, stage, links, todo, addr>>

(* alignment() and padding() come before the calls they have to precede. *)
set_alignment(a) ==
    /\ stage = "build" /\ alignment # a
    /\ alignment' = a
    /\ UNCHANGED <<itv, specs, padding, stage, links, todo, addr>>

set_padding(p) ==
    /\ stage = "build" /\ itv = <<>> /\ padding # p
    /\ padding' = p
    /\ UNCHANGED <<itv, specs, alignment, stage, links, todo, addr>>

(* solve() starts: every interval is unlinked and has no address. *)
solve ==
    /\ stage = "build"
    /\ stage' = "link"
    /\ linked' = 0
    /\ dest' = [i \in Ids |-> Nil] /\ src' = [i \in Ids |-> Nil]
    /\ offset' = [i \in Ids |-> 0]
    /\ root' = [i \in Ids |-> i] /\ rootOffset' = [i \in Ids |-> 0]
    /\ addr' = [i \in Ids |-> INVALID]
    /\ UNCHANGED <<problem, todo>>

-----------------------------------------------------------------------------
(* A slip: any overlap in time is enough to overwrite.                     *)
AcceptedWhenOverlapping(p) ==
    /\ dest[p.src] = Nil
    /\ src[p.dest] # Nil => itv[p.src].size > itv[src[p.dest]].size

(* init_overwrite_dest(), first loop: whether specification p is taken. *)
Accepted(p) ==
    /\ itv[p.src].begin = itv[p.dest].end - 1
    /\ dest[p.src] = Nil
    /\ src[p.dest] # Nil => itv[p.src].size > itv[src[p.dest]].size

(* One specification: a larger source displaces the source of the          *)
(* destination; a source that starts after its destination ends is refused.*)
link_spec ==
    /\ stage = "link" /\ linked < Len(specs)
    /\ LET p == specs[linked + 1]
           displaced == {src[p.dest]} \ {Nil}
       IN  IF itv[p.src].begin >= itv[p.dest].end
           THEN /\ stage' = "reject"
                /\ UNCHANGED <<linked, dest, src, offset>>
           ELSE /\ linked' = linked + 1
                /\ stage' = stage
                /\ IF Accepted(p)
                   THEN /\ dest' = [i \in Ids |-> IF i = p.src THEN p.dest
                                     ELSE IF i \in displaced THEN Nil ELSE dest[i]]
                        /\ offset' = [i \in Ids |-> IF i = p.src THEN p.offset
                                     ELSE IF i \in displaced THEN 0 ELSE offset[i]]
                        /\ src' = [src EXCEPT ![p.dest] = p.src]
                   ELSE UNCHANGED <<dest, src, offset>>
    /\ UNCHANGED <<problem, root, rootOffset, todo, addr>>

(* init_overwrite_dest(), second loop: the links must be each other's      *)
(* inverse; then the roots are looked for.                                 *)
Mirrored(i) ==
    /\ dest[i] # Nil => src[dest[i]] = i
    /\ src[i] # Nil => dest[src[i]] = i

links_done ==
    /\ stage = "link" /\ linked = Len(specs)
    /\ stage' = IF \A i \in Ids : Mirrored(i) THEN "root" ELSE "abort"
    /\ todo' = Ids
    /\ UNCHANGED <<problem, links, addr>>

(* overwrite_dest_root_path_compression(): the recursion reaches the       *)
(* destination of an interval before the interval itself, so an interval is *)
(* resolved once its destination is.  A cycle of destinations never is.    *)
Resolvable(i) == i \in todo /\ dest[i] \notin todo

(* A slip: the offset of the destination is left out.                      *)
root_offset_of_dest(i) == offset[i]

root_offset(i) == offset[i] + rootOffset[dest[i]]

path_compression(i) ==
    /\ stage = "root"
    /\ Resolvable(i) /\ \A j \in todo : Resolvable(j) => i <= j
    /\ IF is_overwrite_root(i)
       THEN UNCHANGED <<root, rootOffset>>
       ELSE /\ root' = [root EXCEPT ![i] = root[dest[i]]]
            /\ rootOffset' = [rootOffset EXCEPT ![i] = root_offset(i)]
    /\ todo' = todo \ {i}
    /\ UNCHANGED <<problem, stage, linked, dest, src, offset, addr>>

(* The client's calls and the steps of solve() before do_solve(). *)
Prepare ==
    \/ \E b, e \in 0..MaxTime, s \in Sizes : add(b, e, s)
    \/ \E s, d \in Ids, o \in Offsets : add_overwrite_spec(s, d, o)
    \/ \E a \in Alignments : set_alignment(a)
    \/ \E p \in Paddings : set_padding(p)
    \/ solve
    \/ link_spec
    \/ links_done
    \/ \E i \in Ids : path_compression(i)

-----------------------------------------------------------------------------
TypeOKProblem ==
    /\ itv \in Seq(Interval)
    /\ specs \in Seq([src : Ids, dest : Ids, offset : Nat])
    /\ alignment \in Nat \ {0} /\ padding \in Nat
    /\ stage \in Stages
    /\ linked \in 0..Len(specs)
    /\ todo \subseteq Ids
    /\ stage # "build" =>
         /\ dest \in [Ids -> Ids \cup {Nil}] /\ src \in [Ids -> Ids \cup {Nil}]
         /\ offset \in [Ids -> Nat] /\ rootOffset \in [Ids -> Nat]
         /\ root \in [Ids -> Ids]
         /\ addr \in [Ids -> Nat \cup {INVALID}]

(* The recursion of the path compression always has an interval to return  *)
(* from: the destinations of overwriters form no cycle (impl.h:118-124).   *)
RootsResolved ==
    stage = "root" /\ todo # {} => \E i \in todo : Resolvable(i)

(* What MemPlan sees of the links and of the stage. *)
Ready == stage = "done"
PlanStage == CASE stage = "done" -> "planned" [] stage = "reject" -> "rejected"
               [] stage = "abort" -> "aborted" [] OTHER -> "open"
HonouredSpecs ==
    {specs[k] : k \in {n \in DOMAIN specs :
        dest[specs[n].src] = specs[n].dest /\ offset[specs[n].src] = specs[n].offset}}

(* What the path compression found agrees with what the algorithm did: an  *)
(* overwriter lies in its root, at the sum of the offsets on the way there. *)
RootOffsets ==
    stage \in {"check", "done"} =>
        \A i \in Ids : /\ is_overwrite_root(root[i])
                       /\ addr[i] = addr[root[i]] + rootOffset[i]

(* Intervals in use at the same time share no memory, unless one of them   *)
(* overwrites the other, maybe through others (what solve() is for).       *)
LiveDisjoint ==
    stage \in {"check", "done"} =>
        \A i, j \in Ids : time_overlap(i, j) /\ root[i] # root[j] => ~addr_overlap(i, j)

(* solve() returns. *)
SolveReturns == stage = "link" ~> stage \in {"done", "reject"}
=============================================================================

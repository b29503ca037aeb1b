---------------------- MODULE StaticMemAllocImpl_proof ----------------------
(***************************************************************************)
(* What every static memory allocator can rely on once solve() has linked  *)
(* the overwrite specifications: the links are each other's inverse, an    *)
(* overwriter fits in its destination and begins in its last time step,    *)
(* and an interval has the root of its destination.  Proved as an          *)
(* invariant of Prepare, for the proofs about the algorithms.  At the end, *)
(* what each callback of BestFitHelper::run() does to the set of intervals *)
(* that hold memory, and that its callers find the interval they name      *)
(* among them.                                                             *)
(***************************************************************************)
EXTENDS BestFitHelper, SequenceTheorems, WellFoundedInduction, TLAPS

PositiveSizes == 0 \notin Sizes

Spec_ == [src : Ids, dest : Ids, offset : Nat]

ProblemOK ==
    /\ itv \in Seq(Interval)
    /\ specs \in Seq(Spec_)
    /\ alignment \in Nat \ {0} /\ padding \in Nat
    /\ stage \in Stages
    /\ linked \in 0..Len(specs)
    /\ \A i \in Ids : itv[i].begin < itv[i].end /\ itv[i].size # 0
    /\ \A k \in DOMAIN specs :
         /\ specs[k].src # specs[k].dest
         /\ specs[k].offset + itv[specs[k].src].size <= itv[specs[k].dest].size
         /\ ForwardSpecs => /\ specs[k].dest < specs[k].src
                            /\ itv[specs[k].dest].begin < itv[specs[k].src].begin

LinkedPair(i, d) ==
    /\ d \in Ids /\ src[d] = i
    /\ itv[i].begin = itv[d].end - 1
    /\ offset[i] + itv[i].size <= itv[d].size
    /\ ForwardSpecs => d < i /\ itv[d].begin < itv[i].begin

LinksOK ==
    stage # "build" =>
      /\ dest \in [Ids -> Ids \cup {Nil}] /\ src \in [Ids -> Ids \cup {Nil}]
      /\ offset \in [Ids -> Nat] /\ rootOffset \in [Ids -> Nat]
      /\ root \in [Ids -> Ids]
      /\ \A i \in Ids : dest[i] # Nil => LinkedPair(i, dest[i])
      /\ \A i \in Ids : src[i] # Nil => dest[src[i]] = i

(* Every link is one that a specification asks for, and no specification   *)
(* that was gone through comes too late.                                   *)
Asked(i) == \E k \in DOMAIN specs : specs[k] = [src |-> i, dest |-> dest[i], offset |-> offset[i]]
Followed ==
    stage # "build" =>
      /\ \A i \in Ids : dest[i] # Nil => Asked(i)
      /\ \A k \in 1..linked : itv[specs[k].src].begin < itv[specs[k].dest].end
      /\ stage \notin {"link", "reject"} => linked = Len(specs)

(* Where the root of an interval is known, so is that of its destination.  *)
RootsOK ==
    stage \in {"root", "solve", "place", "check", "done"} =>
      \A i \in Ids : (stage = "root" => i \notin todo) =>
        /\ stage = "root" => dest[i] \notin todo
        /\ dest[i] = Nil => root[i] = i /\ rootOffset[i] = 0
        /\ dest[i] # Nil => /\ root[i] = root[dest[i]]
                            /\ rootOffset[i] = offset[i] + rootOffset[dest[i]]

(* Until its root is looked for, an interval is its own.                   *)
Fresh ==
    stage \in {"link", "root"} =>
      \A i \in Ids : (stage = "link" \/ i \in todo) => root[i] = i /\ rootOffset[i] = 0

(* No address is chosen before do_solve().                                 *)
NoAddresses ==
    stage \in {"link", "root"} => addr = [i \in Ids |-> INVALID]

TodoAddrOK ==
    /\ todo \subseteq Ids
    /\ stage # "build" => addr \in [Ids -> Nat \cup {INVALID}]

Prepared == ProblemOK /\ LinksOK /\ Followed /\ RootsOK /\ Fresh /\ NoAddresses

LEMMA InitPrepared == InitProblem => Prepared /\ TodoAddrOK
  <1> SUFFICES ASSUME InitProblem PROVE Prepared /\ TodoAddrOK
    OBVIOUS
  <1> USE DEF InitProblem
  <1>1. itv \in Seq(Interval) /\ specs \in Seq(Spec_) /\ Len(specs) = 0
        /\ Ids = {} /\ DOMAIN specs = {}
    BY EmptySeq DEF Ids
  <1>2. ProblemOK
    BY <1>1 DEF ProblemOK, Stages
  <1>3. LinksOK /\ Followed /\ RootsOK /\ Fresh /\ NoAddresses
    BY DEF LinksOK, Followed, RootsOK, Fresh, NoAddresses
  <1> QED BY <1>1, <1>2, <1>3 DEF Prepared, TodoAddrOK

LEMMA SpecTyped ==
    ASSUME specs \in Seq(Spec_), NEW k \in DOMAIN specs
    PROVE  /\ specs[k].src \in Ids /\ specs[k].dest \in Ids /\ specs[k].offset \in Nat
           /\ DOMAIN specs = 1..Len(specs) /\ Len(specs) \in Nat
  <1>1. DOMAIN specs = 1..Len(specs) /\ Len(specs) \in Nat
    BY LenProperties
  <1>2. specs[k] \in Spec_
    BY <1>1, ElementOfSeq
  <1> QED BY <1>1, <1>2 DEF Spec_

(* add() keeps the intervals there are, so what was said of them.          *)
LEMMA AddPrepared ==
    ASSUME PositiveSizes, Prepared, TodoAddrOK,
           NEW b \in 0..MaxTime, NEW e \in 0..MaxTime, NEW s \in Sizes, add(b, e, s)
    PROVE  Prepared' /\ TodoAddrOK'
  <1> DEFINE new == [begin |-> b, end |-> e, size |-> s + padding]
  <1>1. /\ itv \in Seq(Interval) /\ specs \in Seq(Spec_) /\ padding \in Nat
        /\ stage = "build" /\ b < e /\ itv' = Append(itv, new)
        /\ UNCHANGED <<specs, alignment, padding, stage, links, todo, addr>>
    BY DEF add, Prepared, ProblemOK
  <1>2. new \in Interval /\ new.size # 0
    BY <1>1, SizesAssumption, BoundsAssumption DEF Interval, PositiveSizes
  <1>3. /\ itv' \in Seq(Interval)
        /\ Len(itv') = Len(itv) + 1 /\ Len(itv) \in Nat
        /\ Ids = 1..Len(itv) /\ Ids' = 1..Len(itv) + 1
        /\ \A i \in Ids : itv'[i] = itv[i]
        /\ itv'[Len(itv) + 1] = new
    BY <1>1, <1>2, AppendProperties, LenProperties DEF Ids
  <1>4. Ids \subseteq Ids'
    BY <1>3
  <1>5. specs' \in Seq(Spec_')
    <2>1. Spec_ \subseteq Spec_'
      BY <1>4 DEF Spec_
    <2> QED BY <2>1, <1>1, SeqMonotonic
  <1>6. \A i \in Ids' : itv'[i].begin < itv'[i].end /\ itv'[i].size # 0
    BY <1>1, <1>2, <1>3 DEF Prepared, ProblemOK
  <1>7. \A k \in DOMAIN specs' :
         /\ specs'[k].src # specs'[k].dest
         /\ specs'[k].offset + itv'[specs'[k].src].size <= itv'[specs'[k].dest].size
         /\ ForwardSpecs => /\ specs'[k].dest < specs'[k].src
                            /\ itv'[specs'[k].dest].begin < itv'[specs'[k].src].begin
    <2>1. \A k \in DOMAIN specs : specs[k].src \in Ids /\ specs[k].dest \in Ids
      BY <1>1, SpecTyped
    <2> QED BY <2>1, <1>1, <1>3 DEF Prepared, ProblemOK
  <1>8. ProblemOK'
    BY <1>1, <1>3, <1>5, <1>6, <1>7 DEF Prepared, ProblemOK, links
  <1>9. stage' = "build" /\ todo' \subseteq Ids'
    BY <1>1, <1>4 DEF TodoAddrOK
  <1> QED BY <1>8, <1>9 DEF Prepared, LinksOK, Followed, RootsOK, Fresh, NoAddresses, TodoAddrOK

LEMMA AddSpecPrepared ==
    ASSUME Prepared, TodoAddrOK,
           NEW s \in Ids, NEW d \in Ids, NEW o \in Offsets, add_overwrite_spec(s, d, o)
    PROVE  Prepared' /\ TodoAddrOK'
  <1> DEFINE new == [src |-> s, dest |-> d, offset |-> o]
  <1>1. /\ specs \in Seq(Spec_) /\ specs' = Append(specs, new) /\ s # d
        /\ o + itv[s].size <= itv[d].size
        /\ ForwardSpecs => d < s /\ itv[d].begin < itv[s].begin
        /\ stage = "build"
        /\ UNCHANGED <<itv, alignment, padding, stage, links, todo, addr>>
    BY DEF add_overwrite_spec, Prepared, ProblemOK
  <1>2. new \in Spec_
    BY SizesAssumption DEF Spec_
  <1>3. /\ specs' \in Seq(Spec_)
        /\ Len(specs') = Len(specs) + 1 /\ Len(specs) \in Nat
        /\ DOMAIN specs = 1..Len(specs) /\ DOMAIN specs' = 1..Len(specs) + 1
        /\ \A k \in DOMAIN specs : specs'[k] = specs[k]
        /\ specs'[Len(specs) + 1] = new
    BY <1>1, <1>2, AppendProperties, LenProperties
  <1>4. Ids' = Ids /\ Spec_' = Spec_
    BY <1>1 DEF Ids, Spec_
  <1>5. ProblemOK'
    BY <1>1, <1>3, <1>4 DEF Prepared, ProblemOK, links
  <1> QED BY <1>1, <1>4, <1>5 DEF Prepared, LinksOK, Followed, RootsOK, Fresh, NoAddresses, TodoAddrOK

LEMMA SolvePrepared ==
    ASSUME Prepared, TodoAddrOK, solve
    PROVE  Prepared' /\ TodoAddrOK'
  <1>1. /\ stage' = "link" /\ linked' = 0
        /\ dest' = [i \in Ids |-> Nil] /\ src' = [i \in Ids |-> Nil]
        /\ offset' = [i \in Ids |-> 0]
        /\ root' = [i \in Ids |-> i] /\ rootOffset' = [i \in Ids |-> 0]
        /\ addr' = [i \in Ids |-> INVALID]
        /\ UNCHANGED <<itv, specs, alignment, padding, todo>>
    BY DEF solve, problem
  <1>2. Ids' = Ids /\ Spec_' = Spec_ /\ Len(specs) \in Nat
    BY <1>1, LenProperties DEF Ids, Spec_, Prepared, ProblemOK
  <1>3. ProblemOK'
    BY <1>1, <1>2 DEF Prepared, ProblemOK, Stages
  <1>4. LinksOK' /\ Followed'
    BY <1>1, <1>2 DEF LinksOK, Followed
  <1>5. RootsOK' /\ Fresh' /\ NoAddresses' /\ TodoAddrOK'
    BY <1>1, <1>2 DEF RootsOK, Fresh, NoAddresses, TodoAddrOK
  <1> QED BY <1>3, <1>4, <1>5 DEF Prepared

(* A specification that is taken displaces at most one link, and keeps the *)
(* links each other's inverse.                                             *)
LEMMA LinkSpecPrepared ==
    ASSUME Prepared, TodoAddrOK, link_spec
    PROVE  Prepared' /\ TodoAddrOK'
  <1> DEFINE p == specs[linked + 1]
             displaced == {src[p.dest]} \ {Nil}
  <1>1. /\ stage = "link" /\ linked < Len(specs)
        /\ UNCHANGED <<itv, specs, alignment, padding, root, rootOffset, todo, addr>>
        /\ stage' \in {"link", "reject"}
    BY DEF link_spec, problem
  <1>2. /\ Ids' = Ids /\ Spec_' = Spec_ /\ linked \in Nat /\ Len(specs) \in Nat
        /\ linked + 1 \in DOMAIN specs
        /\ p.src \in Ids /\ p.dest \in Ids /\ p.offset \in Nat
    <2>1. linked \in 0..Len(specs) /\ Len(specs) \in Nat /\ DOMAIN specs = 1..Len(specs)
      BY LenProperties DEF Prepared, ProblemOK
    <2>2. linked + 1 \in DOMAIN specs
      BY <1>1, <2>1
    <2>3. specs \in Seq(Spec_)
      BY DEF Prepared, ProblemOK
    <2>4. p.src \in Ids /\ p.dest \in Ids /\ p.offset \in Nat
      BY <2>2, <2>3, SpecTyped
    <2>5. Ids' = Ids /\ Spec_' = Spec_
      BY <1>1 DEF Ids, Spec_
    <2> QED BY <2>1, <2>2, <2>4, <2>5
  <1>3. ProblemOK'
    <2>1. linked' \in {linked, linked + 1}
      BY DEF link_spec
    <2>2. linked' \in 0..Len(specs')
      BY <1>1, <1>2, <2>1
    <2> QED BY <1>1, <1>2, <2>2 DEF Prepared, ProblemOK, Stages
  <1>4. LinksOK'
    <2>1. CASE UNCHANGED <<dest, src, offset>>
      BY <1>1, <1>2, <2>1 DEF Prepared, LinksOK, LinkedPair
    <2>2. CASE ~UNCHANGED <<dest, src, offset>>
      <3>1. /\ Accepted(p)
            /\ dest' = [i \in Ids |-> IF i = p.src THEN p.dest
                                      ELSE IF i \in displaced THEN Nil ELSE dest[i]]
            /\ offset' = [i \in Ids |-> IF i = p.src THEN p.offset
                                        ELSE IF i \in displaced THEN 0 ELSE offset[i]]
            /\ src' = [src EXCEPT ![p.dest] = p.src]
        BY <2>2 DEF link_spec
      <3>2. /\ dest \in [Ids -> Ids \cup {Nil}] /\ src \in [Ids -> Ids \cup {Nil}]
            /\ offset \in [Ids -> Nat] /\ rootOffset \in [Ids -> Nat] /\ root \in [Ids -> Ids]
            /\ \A i \in Ids : dest[i] # Nil => LinkedPair(i, dest[i])
            /\ \A i \in Ids : src[i] # Nil => dest[src[i]] = i
        BY <1>1 DEF Prepared, LinksOK
      <3>3. Nil \notin Ids
        BY LenProperties DEF Ids, Nil, Prepared, ProblemOK
      <3>4. /\ itv[p.src].begin = itv[p.dest].end - 1 /\ dest[p.src] = Nil
            /\ p.offset + itv[p.src].size <= itv[p.dest].size
            /\ ForwardSpecs => p.dest < p.src /\ itv[p.dest].begin < itv[p.src].begin
        BY <1>2, <3>1 DEF Accepted, Prepared, ProblemOK
      <3>5. /\ dest' \in [Ids' -> Ids' \cup {Nil}] /\ src' \in [Ids' -> Ids' \cup {Nil}]
            /\ offset' \in [Ids' -> Nat] /\ rootOffset' \in [Ids' -> Nat] /\ root' \in [Ids' -> Ids']
        BY <1>1, <1>2, <3>1, <3>2
      <3>6. ASSUME NEW i \in Ids, dest'[i] # Nil PROVE LinkedPair(i, dest[i])'
        <4>1. CASE i = p.src
          BY <4>1, <1>1, <1>2, <3>1, <3>2, <3>4 DEF LinkedPair
        <4>2. CASE i # p.src
          <5>1. i \notin displaced /\ dest'[i] = dest[i] /\ offset'[i] = offset[i] /\ dest[i] # Nil
            BY <4>2, <3>1, <3>6
          <5>2. LinkedPair(i, dest[i])
            BY <5>1, <3>2
          <5>3. dest[i] # p.dest
            BY <5>1, <5>2, <3>3 DEF LinkedPair
          <5>4. src'[dest[i]] = src[dest[i]]
            BY <5>2, <5>3, <3>1, <3>2 DEF LinkedPair
          <5> QED BY <5>1, <5>2, <5>4, <1>1, <1>2 DEF LinkedPair
        <4> QED BY <4>1, <4>2
      <3>7. ASSUME NEW i \in Ids, src'[i] # Nil PROVE dest'[src'[i]] = i
        <4>1. CASE i = p.dest
          BY <4>1, <1>2, <3>1, <3>2
        <4>2. CASE i # p.dest
          <5>1. src'[i] = src[i] /\ src[i] \in Ids /\ dest[src[i]] = i
            BY <4>2, <3>1, <3>2, <3>7
          <5>2. src[i] # p.src
            BY <5>1, <3>3, <3>4
          <5>3. src[i] \notin displaced
            BY <5>1, <4>2, <3>2, <1>2
          <5> QED BY <5>1, <5>2, <5>3, <3>1
        <4> QED BY <4>1, <4>2
      <3> QED BY <3>5, <3>6, <3>7, <1>2 DEF LinksOK
    <2> QED BY <2>1, <2>2
  <1>5. RootsOK' /\ Fresh' /\ NoAddresses' /\ TodoAddrOK'
    BY <1>1, <1>2 DEF RootsOK, Prepared, Fresh, NoAddresses, TodoAddrOK
  <1>6. Followed'
    <2>1. /\ \A i \in Ids : dest[i] # Nil => Asked(i)
          /\ \A k \in 1..linked : itv[specs[k].src].begin < itv[specs[k].dest].end
      BY <1>1 DEF Prepared, Followed
    <2>2. ASSUME NEW i \in Ids, dest'[i] # Nil PROVE Asked(i)'
      <3>1. CASE UNCHANGED <<dest, src, offset>>
        BY <3>1, <2>1, <2>2, <1>1 DEF Asked
      <3>2. CASE i = p.src /\ ~UNCHANGED <<dest, src, offset>>
        <4>1. dest'[i] = p.dest /\ offset'[i] = p.offset
          BY <3>2, <1>2 DEF link_spec
        <4>2. p \in Spec_
          BY <1>2, ElementOfSeq, LenProperties DEF Prepared, ProblemOK
        <4>3. p = [src |-> p.src, dest |-> p.dest, offset |-> p.offset]
          BY <4>2 DEF Spec_
        <4> QED BY <3>2, <4>1, <4>3, <1>1, <1>2 DEF Asked
      <3>3. CASE i # p.src /\ ~UNCHANGED <<dest, src, offset>>
        <4>1. dest'[i] = dest[i] /\ offset'[i] = offset[i]
          BY <3>3, <2>2, <1>2 DEF link_spec
        <4> QED BY <4>1, <2>1, <2>2, <1>1 DEF Asked
      <3> QED BY <3>1, <3>2, <3>3
    <2>3. ASSUME NEW k \in 1..linked' PROVE itv[specs[k].src].begin < itv[specs[k].dest].end
      <3>1. k \in 1..linked \/ (k = linked + 1 /\ linked' = linked + 1)
        BY <2>3, <1>2 DEF link_spec
      <3>2. CASE k = linked + 1 /\ linked' = linked + 1
        <4>1. ~(itv[p.src].begin >= itv[p.dest].end)
          BY <3>2, <1>2 DEF link_spec
        <4>2. itv[p.src] \in Interval /\ itv[p.dest] \in Interval
          BY <1>2, ElementOfSeq, LenProperties DEF Prepared, ProblemOK, Ids
        <4> QED BY <3>2, <4>1, <4>2, BoundsAssumption DEF Interval
      <3> QED BY <3>1, <3>2, <2>1
    <2> QED BY <2>2, <2>3, <1>1, <1>2 DEF Followed
  <1> QED BY <1>3, <1>4, <1>5, <1>6 DEF Prepared

(* The links pass the assertions of init_overwrite_dest().                 *)
LEMMA LinksDonePrepared ==
    ASSUME Prepared, TodoAddrOK, links_done
    PROVE  Prepared' /\ TodoAddrOK' /\ stage' = "root"
  <1>1. /\ stage = "link" /\ todo' = Ids
        /\ stage' = IF \A i \in Ids : Mirrored(i) THEN "root" ELSE "abort"
        /\ UNCHANGED <<itv, specs, alignment, padding, addr>>
        /\ UNCHANGED <<linked, dest, src, offset, root, rootOffset>>
    BY DEF links_done, problem, links
  <1>2. Ids' = Ids /\ Spec_' = Spec_
    BY <1>1 DEF Ids, Spec_
  <1>3. \A i \in Ids : Mirrored(i)
    BY <1>1 DEF Prepared, LinksOK, LinkedPair, Mirrored
  <1>4. stage' = "root"
    BY <1>1, <1>3
  <1>5. ProblemOK'
    BY <1>1, <1>2, <1>4 DEF Prepared, ProblemOK, Stages
  <1>6. LinksOK' /\ Followed'
    <2>1. linked = Len(specs)
      BY DEF links_done
    <2> QED BY <2>1, <1>1, <1>2, <1>4 DEF Prepared, LinksOK, LinkedPair, Followed, Asked
  <1>7. RootsOK' /\ Fresh' /\ NoAddresses' /\ TodoAddrOK'
    BY <1>1, <1>2, <1>4 DEF RootsOK, Prepared, Fresh, NoAddresses, TodoAddrOK
  <1> QED BY <1>4, <1>5, <1>6, <1>7 DEF Prepared

LEMMA CompressionPrepared ==
    ASSUME Prepared, TodoAddrOK, NEW i \in Ids, path_compression(i)
    PROVE  Prepared' /\ TodoAddrOK'
  <1>1. /\ stage = "root" /\ i \in todo /\ dest[i] \notin todo
        /\ todo' = todo \ {i} /\ stage' = "root"
        /\ UNCHANGED <<itv, specs, alignment, padding, addr, linked, dest, src, offset>>
        /\ IF dest[i] = Nil
           THEN UNCHANGED <<root, rootOffset>>
           ELSE /\ root' = [root EXCEPT ![i] = root[dest[i]]]
                /\ rootOffset' = [rootOffset EXCEPT ![i] = offset[i] + rootOffset[dest[i]]]
    BY DEF path_compression, root_offset, problem, Resolvable, is_overwrite_root
  <1>2. Ids' = Ids /\ Spec_' = Spec_
    BY <1>1 DEF Ids, Spec_
  <1>3. /\ dest \in [Ids -> Ids \cup {Nil}] /\ src \in [Ids -> Ids \cup {Nil}]
        /\ offset \in [Ids -> Nat] /\ rootOffset \in [Ids -> Nat] /\ root \in [Ids -> Ids]
        /\ \A j \in Ids : dest[j] # Nil => dest[j] \in Ids
    BY <1>1 DEF Prepared, LinksOK, LinkedPair
  <1>4. ProblemOK'
    BY <1>1, <1>2 DEF Prepared, ProblemOK
  <1>5. LinksOK'
    BY <1>1, <1>2, <1>3 DEF Prepared, LinksOK, LinkedPair
  <1>9. Followed'
    BY <1>1, <1>2 DEF Prepared, Followed, Asked
  <1>6. RootsOK'
    <2> SUFFICES ASSUME NEW j \in Ids, j \notin todo'
                 PROVE  /\ dest[j] \notin todo'
                        /\ dest[j] = Nil => root'[j] = j /\ rootOffset'[j] = 0
                        /\ dest[j] # Nil => /\ root'[j] = root'[dest[j]]
                                            /\ rootOffset'[j] = offset[j] + rootOffset'[dest[j]]
      BY <1>1, <1>2 DEF RootsOK
    <2>1. CASE j # i
      <3>1. j \notin todo
        BY <2>1, <1>1
      <3>2. /\ dest[j] \notin todo
            /\ dest[j] = Nil => root[j] = j /\ rootOffset[j] = 0
            /\ dest[j] # Nil => /\ root[j] = root[dest[j]]
                                /\ rootOffset[j] = offset[j] + rootOffset[dest[j]]
        BY <3>1, <1>1 DEF Prepared, RootsOK
      <3>3. dest[j] # i
        BY <3>2, <1>1
      <3> QED BY <3>2, <3>3, <2>1, <1>1, <1>3
    <2>2. CASE j = i
      <3>1. dest[i] # i
        BY <1>1
      <3>2. dest[i] = Nil => root[i] = i /\ rootOffset[i] = 0
        BY <1>1 DEF Prepared, Fresh
      <3> QED BY <3>1, <3>2, <2>2, <1>1, <1>3
    <2> QED BY <2>1, <2>2
  <1>7. NoAddresses' /\ TodoAddrOK'
    BY <1>1, <1>2 DEF Prepared, NoAddresses, TodoAddrOK
  <1>8. Fresh'
    BY <1>1, <1>2, <1>3 DEF Prepared, Fresh
  <1> QED BY <1>4, <1>5, <1>6, <1>7, <1>8, <1>9 DEF Prepared

LEMMA SettersPrepared ==
    ASSUME Prepared, TodoAddrOK,
           \/ \E a \in Alignments : set_alignment(a)
           \/ \E p \in Paddings : set_padding(p)
    PROVE  Prepared' /\ TodoAddrOK'
  <1>1. /\ alignment' \in Nat \ {0} /\ padding' \in Nat /\ stage = "build"
        /\ UNCHANGED <<itv, specs, stage, links, todo, addr>>
    BY LayoutAssumption DEF set_alignment, set_padding, Prepared, ProblemOK
  <1>2. Ids' = Ids /\ Spec_' = Spec_
    BY <1>1 DEF Ids, Spec_
  <1>3. ProblemOK'
    BY <1>1, <1>2 DEF Prepared, ProblemOK, links
  <1> QED BY <1>1, <1>2, <1>3 DEF Prepared, LinksOK, Followed, RootsOK, Fresh, NoAddresses,
                                  TodoAddrOK

(* The client's calls and the preparation of solve() keep the invariant.   *)
LEMMA PreparePreserves ==
    ASSUME PositiveSizes, Prepared, TodoAddrOK, Prepare
    PROVE  Prepared' /\ TodoAddrOK'
  <1>1. CASE \E b, e \in 0..MaxTime, s \in Sizes : add(b, e, s)
    BY <1>1, AddPrepared
  <1>2. CASE \E s, d \in Ids, o \in Offsets : add_overwrite_spec(s, d, o)
    BY <1>2, AddSpecPrepared
  <1>3. CASE \/ \E a \in Alignments : set_alignment(a)
             \/ \E p \in Paddings : set_padding(p)
    BY <1>3, SettersPrepared
  <1>4. CASE solve
    BY <1>4, SolvePrepared
  <1>5. CASE link_spec
    BY <1>5, LinkSpecPrepared
  <1>6. CASE links_done
    BY <1>6, LinksDonePrepared
  <1>7. CASE \E i \in Ids : path_compression(i)
    BY <1>7, CompressionPrepared
  <1> QED BY <1>1, <1>2, <1>3, <1>4, <1>5, <1>6, <1>7 DEF Prepare

(* The client's calls and the linking neither place nor abort.             *)
LEMMA PrepareStages ==
    ASSUME Prepared, TodoAddrOK, Prepare
    PROVE  stage \in {"build", "link", "root"} /\ stage' \in {"build", "link", "root", "reject"}
  <1>1. CASE links_done
    BY <1>1, LinksDonePrepared DEF links_done
  <1>2. CASE \E i \in Ids : path_compression(i)
    BY <1>2 DEF path_compression
  <1>3. CASE link_spec
    BY <1>3 DEF link_spec
  <1>4. CASE \E b, e \in 0..MaxTime, s \in Sizes : add(b, e, s)
    BY <1>4 DEF add
  <1>5. CASE \E s, d \in Ids, o \in Offsets : add_overwrite_spec(s, d, o)
    BY <1>5 DEF add_overwrite_spec
  <1> QED BY <1>1, <1>2, <1>3, <1>4, <1>5 DEF Prepare, set_alignment, set_padding, solve

(* The steps of an algorithm leave the problem and the links alone.        *)
LEMMA PlacingPreserves ==
    ASSUME Prepared, UNCHANGED <<problem, links>>,
           stage \in {"root", "solve", "place", "check"}, stage = "root" => todo = {},
           stage' \in {"solve", "place", "check", "done", "abort"}
    PROVE  Prepared'
  <1>1. Ids' = Ids /\ Spec_' = Spec_
    BY DEF Ids, Spec_, problem
  <1>2. UNCHANGED <<itv, specs, alignment, padding, linked, dest, src, offset, root, rootOffset>>
    BY DEF problem, links
  <1>3. ProblemOK'
    BY <1>1, <1>2 DEF Prepared, ProblemOK, Stages
  <1>4. LinksOK' /\ Followed'
    BY <1>1, <1>2 DEF Prepared, LinksOK, LinkedPair, Followed, Asked
  <1>5. RootsOK' /\ Fresh' /\ NoAddresses'
    BY <1>1, <1>2 DEF Prepared, RootsOK, Fresh, NoAddresses
  <1> QED BY <1>3, <1>4, <1>5 DEF Prepared

LEMMA TimesTyped ==
    ASSUME Prepared
    PROVE  /\ Nil \notin Ids
           /\ \A i \in Ids : /\ itv[i].begin \in 0..MaxTime /\ itv[i].end \in 0..MaxTime
                             /\ itv[i].begin < itv[i].end
                             /\ itv[i].size \in Nat /\ itv[i].size # 0
  <1>1. itv \in Seq(Interval)
    BY DEF Prepared, ProblemOK
  <1>2. Ids = 1..Len(itv) /\ Len(itv) \in Nat
    BY <1>1, LenProperties DEF Ids
  <1>3. \A i \in Ids : itv[i] \in Interval
    BY <1>1, <1>2, ElementOfSeq
  <1> QED BY <1>2, <1>3 DEF Interval, Nil, Prepared, ProblemOK

LEMMA LinksTyped ==
    ASSUME Prepared, stage \in {"solve", "place", "check", "done"}
    PROVE  /\ \A i \in Ids : dest[i] # Nil =>
                /\ dest[i] \in Ids /\ src[dest[i]] = i
                /\ itv[i].begin = itv[dest[i]].end - 1
                /\ ForwardSpecs => dest[i] < i /\ itv[dest[i]].begin < itv[i].begin
                /\ offset[i] \in Nat /\ offset[i] + itv[i].size <= itv[dest[i]].size
                /\ root[i] = root[dest[i]]
           /\ \A i \in Ids : src[i] # Nil => src[i] \in Ids /\ dest[src[i]] = i
           /\ \A i \in Ids : dest[i] = Nil => root[i] = i
  BY DEF Prepared, LinksOK, LinkedPair, RootsOK

(* A nonempty set of numbers has a least one; if it is bounded, it has a   *)
(* greatest one.  The numbers of a sequence are bounded.                   *)
LEMMA LeastExists ==
    ASSUME NEW T \in SUBSET Nat, T # {}
    PROVE  \E m \in T : \A n \in T : m <= n
  <1> DEFINE R == {p \in Nat \X Nat : p[1] < p[2]}
  <1>1. IsWellFoundedOn(R, Nat)
    BY NatLessThanWellFounded DEF OpToRel
  <1>2. PICK m \in T : \A n \in T : ~ (<<n, m>> \in R)
    <2> HIDE DEF R
    <2> QED BY <1>1, WFMin
  <1>3. ASSUME NEW n \in T, n < m PROVE FALSE
    BY <1>2, <1>3
  <1> QED BY <1>3

LEMMA GreatestExists ==
    ASSUME NEW T \in SUBSET Nat, T # {}, NEW M \in Nat, \A n \in T : n <= M
    PROVE  Max(T) \in T /\ \A n \in T : n <= Max(T)
  <1> DEFINE U == {u \in Nat : \A n \in T : n <= u}
  <1>1. PICK m \in U : \A u \in U : m <= u
    <2>1. U \in SUBSET Nat /\ U # {}
      OBVIOUS
    <2> HIDE DEF U
    <2> QED BY <2>1, LeastExists
  <1>2. m \in T
    <2>1. SUFFICES ASSUME m \notin T PROVE FALSE
      OBVIOUS
    <2>2. \A n \in T : n <= m - 1 /\ n \in Nat
      BY <2>1, <1>1
    <2>3. PICK n \in T : TRUE
      OBVIOUS
    <2>4. m - 1 \in Nat
      BY <2>2, <2>3, <1>1
    <2>5. m - 1 \in U
      BY <2>2, <2>4
    <2> QED BY <2>5, <1>1
  <1>3. \E x \in T : \A y \in T : x >= y
    BY <1>1, <1>2
  <1> QED BY <1>3 DEF Max

LEMMA SequenceBounded ==
    ASSUME NEW n \in Nat, NEW g \in [1..n -> Nat]
    PROVE  \E M \in Nat : \A k \in 1..n : g[k] <= M
  <1> DEFINE Good(m) == \E M \in Nat : \A k \in 1..m : g[k] <= M
             T == {m \in 0..n : ~Good(m)}
  <1>1. SUFFICES ASSUME ~Good(n) PROVE FALSE
    OBVIOUS
  <1>2. PICK m \in T : \A l \in T : m <= l
    <2>1. T \in SUBSET Nat /\ n \in T
      BY <1>1
    <2> HIDE DEF T
    <2> QED BY <2>1, LeastExists
  <1>3. m # 0
    BY <1>2
  <1>4. Good(m - 1)
    <2>1. m - 1 \in 0..n /\ m - 1 < m
      BY <1>2, <1>3
    <2> HIDE DEF Good
    <2> QED BY <2>1, <1>2
  <1>5. PICK M \in Nat : \A k \in 1..m - 1 : g[k] <= M
    BY <1>4
  <1>6. g[m] \in Nat
    BY <1>2, <1>3
  <1> DEFINE B == IF g[m] > M THEN g[m] ELSE M
  <1>7. B \in Nat /\ B >= M /\ B >= g[m]
    BY <1>6
  <1>8. \A k \in 1..m : g[k] <= B
    <2> SUFFICES ASSUME NEW k \in 1..m PROVE g[k] <= B
      OBVIOUS
    <2>1. g[k] \in Nat
      BY <1>2
    <2> HIDE DEF B
    <2>2. CASE k = m
      BY <2>2, <1>7
    <2>3. CASE k # m
      <3>1. k \in 1..m - 1
        BY <2>3, <1>2
      <3> QED BY <3>1, <2>1, <1>5, <1>7
    <2> QED BY <2>2, <2>3
  <1> QED BY <1>2, <1>7, <1>8

(* A functional that looks only at values of smaller rank has a fixed      *)
(* point: one that is right below rank n can be made right at rank n.      *)
LooksBelow(P, V, rank, N, G) ==
    /\ V # {} /\ rank \in [P -> Nat] /\ N \in Nat /\ \A i \in P : rank[i] < N
    /\ G \in [[P -> V] -> [P -> V]]
    /\ \A f, g \in [P -> V] : \A i \in P :
         (\A j \in P : rank[j] < rank[i] => f[j] = g[j]) => G[f][i] = G[g][i]

LEMMA FixedPoint ==
    ASSUME NEW P, NEW V, NEW rank, NEW N, NEW G, LooksBelow(P, V, rank, N, G)
    PROVE  \E f \in [P -> V] : f = G[f]
  <1> USE DEF LooksBelow
  <1> DEFINE Right(n) == \E f \in [P -> V] : \A i \in P : rank[i] < n => f[i] = G[f][i]
             T == {n \in Nat : ~Right(n)}
  <1>1. Right(N)
    <2>1. SUFFICES ASSUME ~Right(N) PROVE FALSE
      OBVIOUS
    <2>2. PICK n \in T : \A m \in T : n <= m
      <3>1. T \in SUBSET Nat /\ T # {}
        BY <2>1
      <3> HIDE DEF T
      <3> QED BY <3>1, LeastExists
    <2>3. n # 0
      <3>1. PICK v : v \in V
        OBVIOUS
      <3>2. [i \in P |-> v] \in [P -> V]
        BY <3>1
      <3>3. \A i \in P : ~(rank[i] < 0)
        OBVIOUS
      <3>4. Right(0)
        BY <3>2, <3>3
      <3> QED BY <3>4, <2>2
    <2>4. n - 1 \in Nat /\ n - 1 \notin T
      BY <2>2, <2>3
    <2>5. PICK f \in [P -> V] : \A i \in P : rank[i] < n - 1 => f[i] = G[f][i]
      BY <2>4
    <2> DEFINE g == [i \in P |-> IF rank[i] = n - 1 THEN G[f][i] ELSE f[i]]
    <2>6. G[f] \in [P -> V]
      OBVIOUS
    <2>7. g \in [P -> V]
      BY <2>6
    <2>8. \A i \in P : rank[i] < n - 1 => g[i] = f[i]
      BY <2>4
    <2>9. ASSUME NEW i \in P, rank[i] < n PROVE g[i] = G[g][i]
      <3>1. rank[i] = n - 1 \/ rank[i] < n - 1
        BY <2>4, <2>9
      <3>2. \A j \in P : rank[j] < rank[i] => g[j] = f[j]
        BY <2>4, <2>8, <3>1
      <3>3. G[g][i] = G[f][i]
        <4> HIDE DEF g
        <4> QED BY <2>7, <3>2
      <3> QED BY <3>1, <3>3, <2>5
    <2>10. Right(n)
      <3> HIDE DEF g
      <3> QED BY <2>7, <2>9
    <2> QED BY <2>2, <2>10
  <1>2. PICK f \in [P -> V] : \A i \in P : f[i] = G[f][i]
    BY <1>1
  <1>3. G[f] \in [P -> V]
    OBVIOUS
  <1> QED BY <1>2, <1>3

(* Some interval of a set begins no later than the others.                 *)
LEMMA EarliestExists ==
    ASSUME Prepared, NEW S \in SUBSET Ids, S # {}
    PROVE  \E i \in S : \A j \in S : itv[i].begin <= itv[j].begin
  <1> DEFINE T == {itv[i].begin : i \in S}
  <1>1. T \in SUBSET Nat /\ T # {}
    BY TimesTyped, BoundsAssumption
  <1>2. PICK m \in T : \A n \in T : m <= n
    <2> HIDE DEF T
    <2> QED BY <1>1, LeastExists
  <1> QED BY <1>2

(* Forward specifications form no cycle: of the intervals whose root is    *)
(* looked for, the earliest has no destination among them.                 *)
LEMMA ForwardResolves ==
    ASSUME ForwardSpecs, Prepared, TodoAddrOK
    PROVE  RootsResolved
  <1> SUFFICES ASSUME stage = "root", todo # {}
               PROVE  \E i \in todo : dest[i] \notin todo
    BY DEF RootsResolved, Resolvable
  <1>1. todo \subseteq Ids
    BY DEF TodoAddrOK
  <1>2. PICK i \in todo : \A j \in todo : itv[i].begin <= itv[j].begin
    BY <1>1, EarliestExists
  <1>3. CASE dest[i] = Nil
    BY <1>1, <1>3, TimesTyped
  <1>4. CASE dest[i] # Nil
    <2>1. dest[i] \in Ids /\ itv[dest[i]].begin < itv[i].begin
      BY <1>1, <1>4 DEF Prepared, LinksOK, LinkedPair
    <2> QED BY <2>1, <1>1, <1>2, TimesTyped, BoundsAssumption
  <1> QED BY <1>3, <1>4

(* A root begins before everything in its chain of overwriters.            *)
LEMMA RootFirst ==
    ASSUME ForwardSpecs, Prepared, stage \in {"solve", "place", "check", "done"}
    PROVE  \A i \in Ids : /\ root[i] \in Ids /\ dest[root[i]] = Nil
                          /\ dest[i] # Nil => itv[root[i]].begin < itv[i].begin
  <1> DEFINE First(i) == /\ dest[root[i]] = Nil
                         /\ dest[i] # Nil => itv[root[i]].begin < itv[i].begin
             S == {i \in Ids : ~First(i)}
  <1>1. \A i \in Ids : root[i] \in Ids
    BY DEF Prepared, LinksOK
  <1>2. SUFFICES ASSUME S # {} PROVE FALSE
    BY <1>1
  <1>3. PICK i \in S : \A j \in S : itv[i].begin <= itv[j].begin
    <2>1. S \in SUBSET Ids
      OBVIOUS
    <2> HIDE DEF S
    <2> QED BY <1>2, <2>1, EarliestExists
  <1>4. dest[i] # Nil
    BY <1>3, LinksTyped
  <1>5. /\ dest[i] \in Ids /\ itv[dest[i]].begin < itv[i].begin /\ root[i] = root[dest[i]]
        /\ dest[dest[i]] = Nil => root[dest[i]] = dest[i]
    BY <1>3, <1>4, LinksTyped
  <1>6. \A j \in Ids : itv[j].begin \in Nat
    BY TimesTyped, BoundsAssumption
  <1>7. First(dest[i])
    BY <1>3, <1>5, <1>6
  <1> QED BY <1>1, <1>3, <1>4, <1>5, <1>6, <1>7

(* A chain of overwriters is linear: of two intervals in it, the later one *)
(* overwrites one that is not earlier than the other.                      *)
LEMMA ChainLinear ==
    ASSUME ForwardSpecs, Prepared, stage \in {"solve", "place", "check", "done"},
           NEW a \in Ids, NEW b \in Ids, root[a] = root[b], itv[a].begin <= itv[b].begin, a # b
    PROVE  /\ dest[b] # Nil /\ itv[a].begin <= itv[dest[b]].begin
           /\ src[a] # Nil /\ itv[src[a]].begin <= itv[b].begin
  <1> DEFINE Pair(x, y) == root[x] = root[y] /\ itv[x].begin <= itv[y].begin /\ x # y
             Fine(x, y) == src[x] # Nil /\ itv[src[x]].begin <= itv[y].begin
             Sum(x, y) == itv[x].begin + itv[y].begin
             T == {n \in Nat : \E x, y \in Ids : n = Sum(x, y) /\ Pair(x, y) /\ ~Fine(x, y)}
  <1>1. /\ \A i \in Ids : itv[i].begin \in Nat
        /\ Nil \notin Ids /\ \A i \in Ids : src[i] # Nil => src[i] \in Ids
        /\ \A i \in Ids : dest[i] = Nil => root[i] = i
        /\ \A i \in Ids : dest[i] # Nil => /\ dest[i] \in Ids /\ src[dest[i]] = i
                                          /\ itv[dest[i]].begin < itv[i].begin
                                          /\ root[i] = root[dest[i]]
        /\ \A i \in Ids : root[i] \in Ids /\ itv[root[i]].begin <= itv[i].begin
        /\ \A i \in Ids : dest[i] # Nil => itv[root[i]].begin < itv[i].begin
    BY TimesTyped, LinksTyped, RootFirst, BoundsAssumption
  <1>2. ASSUME NEW x \in Ids, NEW y \in Ids, Pair(x, y),
               \A u, v \in Ids : Pair(u, v) /\ Sum(u, v) < Sum(x, y) => Fine(u, v)
        PROVE  dest[y] # Nil /\ itv[x].begin <= itv[dest[y]].begin
    <2>1. dest[y] # Nil
      BY <1>1, <1>2
    <2>2. SUFFICES ASSUME itv[dest[y]].begin < itv[x].begin PROVE FALSE
      BY <2>1, <1>1
    <2>3. dest[x] # Nil
      BY <1>1, <1>2, <2>1, <2>2
    <2>4. Pair(dest[x], dest[y]) \/ Pair(dest[y], dest[x])
      BY <1>1, <1>2, <2>1, <2>3
    <2>5. Fine(dest[x], dest[y]) \/ Fine(dest[y], dest[x])
      <3>1. Sum(dest[x], dest[y]) < Sum(x, y) /\ Sum(dest[y], dest[x]) < Sum(x, y)
        BY <1>1, <2>1, <2>3
      <3> HIDE DEF Sum, Pair, Fine
      <3> QED BY <3>1, <2>1, <2>3, <2>4, <1>1, <1>2
    <2> QED BY <1>1, <1>2, <2>1, <2>2, <2>3, <2>5
  <1>3. T = {}
    <2> SUFFICES ASSUME T # {} PROVE FALSE
      OBVIOUS
    <2>1. PICK n \in T : \A m \in T : n <= m
      <3>1. T \in SUBSET Nat
        OBVIOUS
      <3> HIDE DEF T
      <3> QED BY <3>1, LeastExists
    <2>2. PICK x \in Ids, y \in Ids : n = Sum(x, y) /\ Pair(x, y) /\ ~Fine(x, y)
      BY <2>1
    <2>3. \A u, v \in Ids : Pair(u, v) /\ Sum(u, v) < Sum(x, y) => Fine(u, v)
      <3>1. \A u, v \in Ids : Sum(u, v) \in Nat
        BY <1>1
      <3> QED BY <3>1, <2>1, <2>2
    <2>4. dest[y] # Nil /\ itv[x].begin <= itv[dest[y]].begin
      <3> HIDE DEF Sum, Pair, Fine
      <3> QED BY <1>2, <2>2, <2>3
    <2>5. dest[y] = x \/ Pair(x, dest[y])
      BY <1>1, <2>2, <2>4
    <2>6. Pair(x, dest[y]) => Fine(x, dest[y])
      <3>1. Sum(x, dest[y]) < Sum(x, y)
        BY <1>1, <2>4
      <3> HIDE DEF Sum, Pair, Fine
      <3> QED BY <3>1, <2>3, <2>4, <1>1
    <2>7. CASE dest[y] = x
      BY <1>1, <2>2, <2>4, <2>7
    <2>8. CASE Fine(x, dest[y])
      BY <1>1, <2>2, <2>4, <2>8
    <2> QED BY <2>5, <2>6, <2>7, <2>8
  <1>4. \A u, v \in Ids : Pair(u, v) => Fine(u, v)
    <2>1. \A u, v \in Ids : Sum(u, v) \in Nat
      BY <1>1
    <2> QED BY <2>1, <1>3
  <1>5. Pair(a, b)
    OBVIOUS
  <1>6. src[a] # Nil /\ itv[src[a]].begin <= itv[b].begin
    BY <1>4, <1>5
  <1> HIDE DEF Sum, Pair, Fine
  <1> QED BY <1>2, <1>4, <1>5, <1>6

(* Two intervals of a chain that are in use at the same time: one of them  *)
(* overwrites the other.                                                   *)
LEMMA ChainMoment ==
    ASSUME ForwardSpecs, Prepared, stage \in {"solve", "place", "check", "done"},
           NEW a \in Ids, NEW b \in Ids, a # b, root[a] = root[b],
           NEW t \in Nat, itv[a].begin <= t, t < itv[a].end, itv[b].begin <= t, t < itv[b].end
    PROVE  src[a] = b \/ src[b] = a
  <1> DEFINE Times(x) == itv[x].begin \in Nat /\ itv[x].end \in Nat
  <1>1. \A x \in Ids : Times(x)
    BY TimesTyped, BoundsAssumption
  <1>2. ASSUME NEW x \in Ids, NEW y \in Ids, x # y, root[x] = root[y],
               itv[x].begin <= itv[y].begin, itv[y].begin <= t, t < itv[x].end
        PROVE  src[x] = y
    <2>1. src[x] # Nil /\ itv[src[x]].begin <= itv[y].begin
      BY <1>2, ChainLinear
    <2>2. /\ src[x] \in Ids /\ dest[src[x]] = x /\ x # Nil
          /\ itv[src[x]].begin = itv[x].end - 1 /\ root[src[x]] = root[x]
      BY <2>1, LinksTyped, TimesTyped
    <2>3. itv[src[x]].begin = itv[y].begin
      BY <2>1, <2>2, <1>1, <1>2
    <2>4. SUFFICES ASSUME src[x] # y PROVE FALSE
      OBVIOUS
    <2>5. dest[y] # Nil /\ itv[src[x]].begin <= itv[dest[y]].begin
      BY <2>2, <2>3, <2>4, <1>1, <1>2, ChainLinear
    <2>6. dest[y] \in Ids /\ itv[dest[y]].begin < itv[y].begin
      BY <2>5, LinksTyped
    <2> QED BY <2>2, <2>3, <2>5, <2>6, <1>1
  <1>3. itv[a].begin <= itv[b].begin \/ itv[b].begin <= itv[a].begin
    BY <1>1
  <1> QED BY <1>2, <1>3

-----------------------------------------------------------------------------
(* The checker *)

(* Functions that are defined by the same recursion are equal.             *)
SameSteps(f, g, n) ==
    /\ f[0] = g[0]
    /\ \A k \in 1..n : f[k - 1] = g[k - 1] => f[k] = g[k]

LEMMA SameFromZero ==
    ASSUME NEW n \in Nat, NEW f, NEW g, SameSteps(f, g, n)
    PROVE  \A k \in 0..n : f[k] = g[k]
  <1> DEFINE T == {k \in 0..n : f[k] # g[k]}
  <1> SUFFICES ASSUME T # {} PROVE FALSE
    OBVIOUS
  <1>1. PICK m \in T : \A k \in T : m <= k
    <2>1. T \in SUBSET Nat
      OBVIOUS
    <2> HIDE DEF T
    <2> QED BY <2>1, LeastExists
  <1>2. m \in 1..n /\ m - 1 \in 0..n /\ ~(m <= m - 1)
    BY <1>1 DEF SameSteps
  <1> QED BY <1>1, <1>2 DEF SameSteps

(* What the usage is made of comes back to 0.                              *)
LEMMA UsageComesBack ==
    ASSUME Prepared, stage = "check"
    PROVE  usage(MaxTime) = 0
  <1> DEFINE counted(i) == IF counts(i, MaxTime) THEN lower_bound_size(i) ELSE 0
             given_back(i) == IF itv[i].end <= MaxTime THEN lower_bound_size(i) ELSE 0
             sum == CHOOSE f : f = [k \in 0..Len(itv) |->
                        IF k = 0 THEN 0 ELSE f[k - 1] + counted(k) - given_back(k)]
             g == [k \in 0..Len(itv) |-> 0]
  <1>1. Len(itv) \in Nat /\ Ids = 1..Len(itv)
    BY LenProperties DEF Prepared, ProblemOK, Ids
  <1>2. \A k \in 1..Len(itv) : counted(k) = given_back(k) /\ counted(k) \in Int
    <2> SUFFICES ASSUME NEW k \in Ids
                 PROVE  counted(k) = given_back(k) /\ counted(k) \in Int
      BY <1>1
    <2>1. /\ itv[k].begin <= MaxTime /\ itv[k].end <= MaxTime /\ itv[k].size \in Nat
          /\ dest[k] # Nil => itv[dest[k]].end <= MaxTime
      BY LinksTyped, TimesTyped, BoundsAssumption
    <2>2. rootOffset[k] \in Nat /\ alignment \in Nat \ {0}
      BY DEF Prepared, ProblemOK, LinksOK
    <2>3. \A a \in Nat : align(a) \in Int /\ a % alignment \in Int
      BY <2>2 DEF align
    <2>4. lower_bound_size(k) \in Int
      BY <2>1, <2>2, <2>3 DEF lower_bound_size
    <2>5. counted(k) = lower_bound_size(k) /\ given_back(k) = lower_bound_size(k)
      BY <2>1 DEF counts, is_overwrite_root
    <2> QED BY <2>4, <2>5
  <1> HIDE DEF counted, given_back
  <1>3. g = [k \in 0..Len(itv) |-> IF k = 0 THEN 0 ELSE g[k - 1] + counted(k) - given_back(k)]
    BY <1>1, <1>2
  <1> HIDE DEF g
  <1>4. sum = [k \in 0..Len(itv) |-> IF k = 0 THEN 0 ELSE sum[k - 1] + counted(k) - given_back(k)]
    BY <1>3, Zenon
  <1> HIDE DEF sum
  <1>5. SameSteps(sum, g, Len(itv))
    BY <1>1, <1>3, <1>4 DEF SameSteps
  <1>6. sum[Len(itv)] = g[Len(itv)]
    <2>1. Len(itv) \in Nat
      BY <1>1
    <2>2. \A k \in 0..Len(itv) : sum[k] = g[k]
      BY ONLY <1>5, <2>1, SameFromZero
    <2> QED BY <2>1, <2>2
  <1>7. usage(MaxTime) = sum[Len(itv)]
    BY DEF usage, sum, counted, given_back
  <1> QED BY <1>1, <1>6, <1>7 DEF g

(* What cur_allocated holds when the intervals of R have been removed and  *)
(* the roots of B put in, if nothing was wrong.                            *)
LiveAfter(R, B) ==
    {x \in Ids : x \notin R /\ IF dest[x] = Nil THEN x \in B ELSE dest[x] \in R}
SweepOK(R, B) == [live |-> LiveAfter(R, B), ok |-> TRUE]
EndedBy(t) == {x \in Ids : itv[x].end < t}
BegunBy(t) == {x \in Ids : itv[x].begin < t}

(* The removals of time t so far: an interval goes after its destination.  *)
Removed(R, t) ==
    /\ EndedBy(t) \subseteq R /\ R \subseteq EndedBy(t + 1)
    /\ \A x \in R : dest[x] # Nil => dest[x] \in R

(* What the checker gets from an algorithm.                                *)
PlanMade ==
    /\ ForwardSpecs /\ Prepared /\ stage = "check"
    /\ addr \in [Ids -> Nat]
    /\ LiveDisjoint

LEMMA SameMomentApart ==
    ASSUME PlanMade, NEW i \in Ids, NEW j \in Ids, i # j, src[i] # j, src[j] # i,
           NEW t \in Nat, itv[i].begin <= t, t < itv[i].end, itv[j].begin <= t, t < itv[j].end
    PROVE  addr_end(i) <= addr[j] \/ addr_end(j) <= addr[i]
  <1>1. root[i] # root[j]
    BY ChainMoment DEF PlanMade
  <1>2. /\ itv[i].begin \in Nat /\ itv[i].end \in Nat /\ itv[i].size \in Nat
        /\ itv[j].begin \in Nat /\ itv[j].end \in Nat /\ itv[j].size \in Nat
        /\ addr[i] \in Nat /\ addr[j] \in Nat
    BY TimesTyped, BoundsAssumption DEF PlanMade
  <1>3. time_overlap(i, j)
    BY <1>2 DEF time_overlap
  <1>4. ~addr_overlap(i, j)
    BY <1>1, <1>3 DEF PlanMade, LiveDisjoint
  <1> QED BY <1>2, <1>4 DEF addr_overlap, addr_end

(* remove_alloc() finds the interval, and puts its overwriter in a place   *)
(* that nobody else has.                                                   *)
LEMMA RemoveOne ==
    ASSUME PlanMade, NEW t \in 0..MaxTime, NEW R, Removed(R, t),
           NEW i \in Ids, i \notin R, itv[i].end = t, dest[i] # Nil => dest[i] \in R
    PROVE  /\ remove_alloc(SweepOK(R, BegunBy(t)), i) = SweepOK(R \cup {i}, BegunBy(t))
           /\ Removed(R \cup {i}, t)
  <1> DEFINE live == LiveAfter(R, BegunBy(t))
             rest == live \ {i}
             overwriter == {src[i]} \ {Nil}
  <1>1. /\ \A x \in Ids : dest[x] # Nil => /\ dest[x] \in Ids /\ src[dest[x]] = x
                                          /\ itv[x].begin = itv[dest[x]].end - 1
        /\ \A x \in Ids : src[x] # Nil => src[x] \in Ids /\ dest[src[x]] = x
    BY LinksTyped DEF PlanMade
  <1>2. /\ Nil \notin Ids
        /\ \A x \in Ids : /\ itv[x].begin \in Nat /\ itv[x].end \in Nat
                          /\ itv[x].begin < itv[x].end
                          /\ itv[x].size \in Nat /\ itv[x].size # 0 /\ addr[x] \in Nat
    BY TimesTyped, BoundsAssumption DEF PlanMade
  <1>3. t \in Nat /\ t - 1 \in Nat
    BY <1>2, BoundsAssumption
  <1>4. /\ \A x \in Ids : itv[x].end < t => x \in R
        /\ \A x \in R : x \in Ids /\ itv[x].end <= t
        /\ \A x \in R : dest[x] # Nil => dest[x] \in R
    BY <1>2, <1>3 DEF Removed, EndedBy
  <1>5. i \in live
    BY <1>2, <1>3 DEF LiveAfter, BegunBy
  <1>6. \A x \in live : x \in Ids /\ itv[x].begin <= t - 1 /\ t - 1 < itv[x].end
    BY <1>1, <1>2, <1>3, <1>4 DEF LiveAfter, BegunBy
  <1>7. rest \cup overwriter = LiveAfter(R \cup {i}, BegunBy(t))
    BY <1>1, <1>2, <1>4 DEF LiveAfter
  <1>8. ASSUME NEW s \in overwriter PROVE At(rest, addr[s]) = {}
    <2>1. /\ s \in Ids /\ src[i] = s /\ dest[s] = i /\ s # i
          /\ itv[s].begin <= t - 1 /\ t - 1 < itv[s].end
      BY <1>1, <1>2, <1>3, <1>8
    <2>2. ASSUME NEW x \in rest PROVE addr[x] # addr[s]
      <3>1. x \in Ids /\ x # i /\ x # s /\ itv[x].begin <= t - 1 /\ t - 1 < itv[x].end
        BY <1>2, <1>6, <2>1 DEF LiveAfter
      <3>2. src[x] # s
        BY <1>1, <1>2, <2>1, <3>1
      <3>3. src[s] # x
        BY <1>1, <1>2, <1>4, <2>1, <3>1 DEF LiveAfter
      <3>4. addr_end(x) <= addr[s] \/ addr_end(s) <= addr[x]
        BY <1>3, <2>1, <3>1, <3>2, <3>3, SameMomentApart
      <3> QED BY <1>2, <2>1, <3>1, <3>4 DEF addr_end
    <2> QED BY <2>2 DEF At
  <1>9. remove_alloc(SweepOK(R, BegunBy(t)), i) = SweepOK(R \cup {i}, BegunBy(t))
    <2>1. SweepOK(R, BegunBy(t)).live = live /\ SweepOK(R, BegunBy(t)).ok = TRUE
      BY DEF SweepOK
    <2> HIDE DEF live
    <2> QED BY <1>5, <1>7, <1>8, <2>1 DEF remove_alloc, SweepOK
  <1>10. Removed(R \cup {i}, t)
    BY <1>2, <1>3, <1>4 DEF Removed, EndedBy
  <1> QED BY <1>9, <1>10

(* A root that begins finds its place empty.                               *)
LEMMA CheckOne ==
    ASSUME PlanMade, NEW t \in 0..MaxTime,
           NEW B, BegunBy(t) \subseteq B, B \subseteq BegunBy(t + 1),
           NEW i \in Ids, i \notin B, itv[i].begin = t, dest[i] = Nil
    PROVE  check_alloc(SweepOK(EndedBy(t + 1), B), i) = SweepOK(EndedBy(t + 1), B \cup {i})
  <1> DEFINE R == EndedBy(t + 1)
             live == LiveAfter(R, B)
  <1>1. /\ \A x \in Ids : dest[x] # Nil => /\ dest[x] \in Ids /\ src[dest[x]] = x
                                          /\ itv[x].begin = itv[dest[x]].end - 1
        /\ \A x \in Ids : src[x] # Nil => src[x] \in Ids /\ dest[src[x]] = x
    BY LinksTyped DEF PlanMade
  <1>2. /\ Nil \notin Ids
        /\ \A x \in Ids : /\ itv[x].begin \in Nat /\ itv[x].end \in Nat
                          /\ itv[x].begin < itv[x].end
                          /\ itv[x].size \in Nat /\ itv[x].size # 0 /\ addr[x] \in Nat
    BY TimesTyped, BoundsAssumption DEF PlanMade
  <1>3. t \in Nat
    BY BoundsAssumption
  <1>4. \A x \in Ids : x \in R <=> itv[x].end <= t
    BY <1>2, <1>3 DEF EndedBy
  <1>5. \A x \in B : x \in Ids /\ itv[x].begin <= t
    BY <1>2, <1>3 DEF BegunBy
  <1>6. \A x \in live : /\ x \in Ids /\ x # i /\ itv[x].begin <= t /\ t < itv[x].end
                        /\ src[x] # i /\ src[i] # x
    BY <1>1, <1>2, <1>3, <1>4, <1>5 DEF LiveAfter
  <1>7. ASSUME NEW x \in live
        PROVE  /\ addr[i] \in Nat /\ addr[x] \in Nat /\ addr[x] # addr[i]
               /\ addr[x] >= addr[i] => addr_end(i) <= addr[x]
               /\ addr[x] < addr[i] => addr_end(x) <= addr[i]
    <2>1. /\ x \in Ids /\ x # i /\ itv[x].begin <= t /\ t < itv[x].end
          /\ src[x] # i /\ src[i] # x /\ itv[i].begin <= t /\ t < itv[i].end
      BY <1>2, <1>3, <1>6
    <2>2. addr_end(i) <= addr[x] \/ addr_end(x) <= addr[i]
      BY <1>3, <2>1, SameMomentApart
    <2> QED BY <1>2, <2>1, <2>2 DEF addr_end
  <1>8. (live \ At(live, addr[i])) \cup {i} = LiveAfter(R, B \cup {i})
    <2>1. At(live, addr[i]) = {}
      BY <1>7 DEF At
    <2>2. i \notin R
      BY <1>2, <1>3, <1>4
    <2> QED BY <2>1, <2>2 DEF LiveAfter
  <1>9. SweepOK(R, B).live = live /\ SweepOK(R, B).ok = TRUE
    BY DEF SweepOK
  <1> HIDE DEF live, R
  <1>10. check_alloc(SweepOK(R, B), i) = SweepOK(R, B \cup {i})
    BY <1>7, <1>8, <1>9 DEF check_alloc, SweepOK
  <1> QED BY <1>10 DEF R

(* The loops over the intervals that end, and over those that begin.       *)
LEMMA RemoveEach ==
    ASSUME PlanMade, NEW t \in 0..MaxTime, NEW R, Removed(R, t),
           NEW S \in SUBSET Ids,
           \A x \in S : /\ itv[x].end = t /\ x \notin R
                        /\ dest[x] # Nil => dest[x] \in R \/ (dest[x] \in S /\ dest[x] < x)
    PROVE  /\ ForEach(remove_alloc, SweepOK(R, BegunBy(t)), S) = SweepOK(R \cup S, BegunBy(t))
           /\ Removed(R \cup S, t)
  <1> DEFINE n == Len(itv)
             Upto(k) == R \cup {x \in S : x <= k}
             start == SweepOK(R, BegunBy(t))
             after == CHOOSE f : f = [k \in 0..n |->
                          IF k = 0 THEN start
                          ELSE IF k \in S THEN remove_alloc(f[k - 1], k) ELSE f[k - 1]]
             g == [k \in 0..n |-> SweepOK(Upto(k), BegunBy(t))]
  <1>1. n \in Nat /\ Ids = 1..n
    BY LenProperties DEF PlanMade, Prepared, ProblemOK, Ids
  <1>12. \A x \in S : x \in Nat /\ ~(x <= 0) /\ x <= n
    BY <1>1
  <1>2. Upto(0) = R /\ Upto(n) = R \cup S
    BY <1>12, Zenon
  <1>3. ASSUME NEW k \in 0..n PROVE Removed(Upto(k), t)
    <2>1. /\ EndedBy(t) \subseteq R /\ R \subseteq EndedBy(t + 1)
          /\ \A x \in R : dest[x] # Nil => dest[x] \in R
      BY DEF Removed
    <2>2. S \subseteq EndedBy(t + 1)
      BY BoundsAssumption DEF EndedBy
    <2>3. ASSUME NEW x \in Upto(k), dest[x] # Nil PROVE dest[x] \in Upto(k)
      <3>1. CASE x \in R
        BY <3>1, <2>1, <2>3
      <3>2. CASE x \notin R
        <4>1. x \in S /\ x <= k
          BY <3>2
        <4>2. dest[x] \in R \/ (dest[x] \in S /\ dest[x] < x)
          BY <4>1, <2>3
        <4>3. dest[x] \in S /\ dest[x] < x => dest[x] <= k
          BY <4>1, <1>12
        <4> QED BY <4>2, <4>3
      <3> QED BY <3>1, <3>2
    <2> QED BY <2>1, <2>2, <2>3 DEF Removed
  <1>4. ASSUME NEW k \in 1..n, k \in S
        PROVE  remove_alloc(SweepOK(Upto(k - 1), BegunBy(t)), k) = SweepOK(Upto(k), BegunBy(t))
    <2>1. k \in Ids /\ k \notin Upto(k - 1) /\ itv[k].end = t
      BY <1>1, <1>4
    <2>2. dest[k] # Nil => dest[k] \in Upto(k - 1)
      <3>1. dest[k] \in S /\ dest[k] < k => dest[k] <= k - 1
        BY <1>12
      <3>2. dest[k] # Nil => dest[k] \in R \/ (dest[k] \in S /\ dest[k] < k)
        BY <1>4
      <3> QED BY <3>1, <3>2
    <2>3. Removed(Upto(k - 1), t)
      <3>1. k - 1 \in 0..n
        BY <1>1
      <3> HIDE DEF Upto
      <3> QED BY <3>1, <1>3
    <2>4. Upto(k - 1) \cup {k} = Upto(k)
      <3>1. \A x \in S : x <= k <=> x <= k - 1 \/ x = k
        BY <1>1
      <3> QED BY <3>1, <1>4
    <2> HIDE DEF Upto
    <2> QED BY <2>1, <2>2, <2>3, <2>4, RemoveOne
  <1>5. ASSUME NEW k \in 1..n, k \notin S PROVE Upto(k - 1) = Upto(k)
    <2>1. \A x \in S : x <= k <=> x <= k - 1
      BY <1>1, <1>5
    <2> QED BY <2>1
  <1> HIDE DEF Upto
  <1>11. Removed(R \cup S, t)
    <2>1. n \in 0..n
      BY <1>1
    <2>2. Removed(Upto(n), t)
      BY <2>1, <1>3
    <2> QED BY <2>2, <1>2
  <1>6. g = [k \in 0..n |-> IF k = 0 THEN start
                            ELSE IF k \in S THEN remove_alloc(g[k - 1], k) ELSE g[k - 1]]
    BY <1>1, <1>2, <1>4, <1>5
  <1> HIDE DEF g
  <1>7. after = [k \in 0..n |-> IF k = 0 THEN start
                                ELSE IF k \in S THEN remove_alloc(after[k - 1], k) ELSE after[k - 1]]
    BY <1>6, Zenon
  <1> HIDE DEF after
  <1>8. SameSteps(after, g, n)
    <2>1. after[0] = g[0] /\ \A k \in 1..n : after[k - 1] = g[k - 1] => after[k] = g[k]
      BY <1>1, <1>6, <1>7
    <2> QED BY ONLY <2>1 DEF SameSteps
  <1>9. \A k \in 0..n : after[k] = g[k]
    <2> HIDE DEF n
    <2> QED BY <1>1, <1>8, SameFromZero
  <1>10. ForEach(remove_alloc, start, S) = after[n]
    BY DEF ForEach, after
  <1>13. after[n] = SweepOK(R \cup S, BegunBy(t))
    <2>1. n \in 0..n
      BY <1>1
    <2> QED BY <2>1, <1>2, <1>9 DEF g
  <1> HIDE DEF n
  <1> QED BY <1>10, <1>11, <1>13

LEMMA CheckEach ==
    ASSUME PlanMade, NEW t \in 0..MaxTime
    PROVE  LET S == {i \in Ids : itv[i].begin = t /\ is_overwrite_root(i)}
           IN  ForEach(check_alloc, SweepOK(EndedBy(t + 1), BegunBy(t)), S)
                 = SweepOK(EndedBy(t + 1), BegunBy(t + 1))
  <1> DEFINE n == Len(itv)
             S == {i \in Ids : itv[i].begin = t /\ is_overwrite_root(i)}
             R == EndedBy(t + 1)
             Upto(k) == BegunBy(t) \cup {x \in S : x <= k}
             start == SweepOK(R, BegunBy(t))
             after == CHOOSE f : f = [k \in 0..n |->
                          IF k = 0 THEN start
                          ELSE IF k \in S THEN check_alloc(f[k - 1], k) ELSE f[k - 1]]
             g == [k \in 0..n |-> SweepOK(R, Upto(k))]
  <1>1. n \in Nat /\ Ids = 1..n /\ t \in Nat
    BY LenProperties, BoundsAssumption DEF PlanMade, Prepared, ProblemOK, Ids
  <1>2. \A x \in Ids : itv[x].begin \in Nat
    BY TimesTyped, BoundsAssumption DEF PlanMade
  <1>3. S \in SUBSET Ids /\ \A x \in S : itv[x].begin = t /\ dest[x] = Nil
    BY DEF is_overwrite_root
  <1>4. Upto(0) = BegunBy(t)
    BY <1>1, <1>3
  <1>5. SweepOK(R, Upto(n)) = SweepOK(R, BegunBy(t + 1))
    <2>1. \A x \in Ids : dest[x] = Nil => (x \in Upto(n) <=> x \in BegunBy(t + 1))
      BY <1>1, <1>2 DEF BegunBy, is_overwrite_root
    <2> HIDE DEF Upto, R
    <2> QED BY <2>1 DEF SweepOK, LiveAfter
  <1> HIDE DEF S
  <1>6. ASSUME NEW k \in 1..n, k \in S
        PROVE  check_alloc(SweepOK(R, Upto(k - 1)), k) = SweepOK(R, Upto(k))
    <2>1. k \in Ids /\ k \notin Upto(k - 1) /\ itv[k].begin = t /\ dest[k] = Nil
      BY <1>1, <1>2, <1>3, <1>6 DEF BegunBy
    <2>2. BegunBy(t) \subseteq Upto(k - 1) /\ Upto(k - 1) \subseteq BegunBy(t + 1)
      <3>1. BegunBy(t) \subseteq BegunBy(t + 1)
        BY <1>1, <1>2 DEF BegunBy
      <3>2. S \subseteq BegunBy(t + 1)
        BY <1>1, <1>3 DEF BegunBy
      <3> QED BY <3>1, <3>2
    <2>3. Upto(k - 1) \cup {k} = Upto(k)
      <3>1. \A x \in S : x <= k <=> x <= k - 1 \/ x = k
        BY <1>1, <1>3
      <3> QED BY <3>1, <1>6
    <2> HIDE DEF Upto
    <2> QED BY <2>1, <2>2, <2>3, CheckOne
  <1>7. ASSUME NEW k \in 1..n, k \notin S PROVE Upto(k - 1) = Upto(k)
    <2>1. \A x \in S : x <= k <=> x <= k - 1
      BY <1>1, <1>3, <1>7
    <2> QED BY <2>1
  <1> HIDE DEF Upto, R
  <1>8. g = [k \in 0..n |-> IF k = 0 THEN start
                            ELSE IF k \in S THEN check_alloc(g[k - 1], k) ELSE g[k - 1]]
    BY <1>1, <1>4, <1>6, <1>7
  <1> HIDE DEF g
  <1>9. after = [k \in 0..n |-> IF k = 0 THEN start
                                ELSE IF k \in S THEN check_alloc(after[k - 1], k) ELSE after[k - 1]]
    BY <1>8, Zenon
  <1> HIDE DEF after
  <1>10. SameSteps(after, g, n)
    BY <1>1, <1>8, <1>9 DEF SameSteps
  <1>11. \A k \in 0..n : after[k] = g[k]
    <2>1. n \in Nat
      BY <1>1
    <2> HIDE DEF n
    <2> QED BY ONLY <2>1, <1>10, SameFromZero
  <1>12. ForEach(check_alloc, start, S) = after[n]
    BY DEF ForEach, after
  <1>13. ForEach(check_alloc, start, S) = SweepOK(R, BegunBy(t + 1))
    BY <1>1, <1>5, <1>11, <1>12 DEF g
  <1> QED BY <1>13 DEF S, R

(* An interval that is removed late has no overwriter, so that everything  *)
(* goes after what it overwrites.                                          *)
LEMMA SweepOne ==
    ASSUME PlanMade, NEW t \in 0..MaxTime
    PROVE  sweep_time(SweepOK(EndedBy(t), BegunBy(t)), t) = SweepOK(EndedBy(t + 1), BegunBy(t + 1))
  <1> DEFINE ending == {i \in Ids : itv[i].end = t}
             deferred == {i \in ending : Deferred(i)}
             beginning == {i \in Ids : itv[i].begin = t /\ is_overwrite_root(i)}
             early == ending \ deferred
  <1>1. /\ ForwardSpecs
        /\ \A x \in Ids : dest[x] # Nil => /\ dest[x] \in Ids /\ dest[x] < x
                                          /\ itv[dest[x]].begin < itv[x].begin
                                          /\ itv[x].begin = itv[dest[x]].end - 1
                                          /\ offset[x] \in Nat
    BY LinksTyped DEF PlanMade
  <1>2. t \in Nat /\ \A x \in Ids : /\ itv[x].begin \in Nat /\ itv[x].end \in Nat
                                    /\ itv[x].begin < itv[x].end
    BY TimesTyped, BoundsAssumption DEF PlanMade
  <1>3. \A x \in Ids : dest[x] # Nil => ~Deferred(dest[x])
    BY <1>1, <1>2 DEF Deferred, is_overwrite_root
  <1>4. Removed(EndedBy(t), t)
    BY <1>1, <1>2 DEF Removed, EndedBy
  <1>5. \A x \in ending : /\ x \notin EndedBy(t)
                          /\ dest[x] # Nil => dest[x] \in EndedBy(t) \/ dest[x] \in early
    BY <1>1, <1>2, <1>3 DEF EndedBy
  <1>6. /\ early \in SUBSET Ids /\ deferred \in SUBSET Ids
        /\ \A x \in early : itv[x].end = t /\ x \in ending
        /\ \A x \in deferred : itv[x].end = t /\ x \in ending /\ x \notin early
    OBVIOUS
  <1>7. EndedBy(t) \cup early \cup deferred = EndedBy(t + 1)
    BY <1>2 DEF EndedBy
  <1>8. /\ ForEach(remove_alloc, SweepOK(EndedBy(t), BegunBy(t)), early)
             = SweepOK(EndedBy(t) \cup early, BegunBy(t))
        /\ Removed(EndedBy(t) \cup early, t)
    <2>1. \A x \in early : dest[x] # Nil => dest[x] < x
      BY <1>1, <1>6
    <2> HIDE DEF early, deferred, ending
    <2> QED BY <2>1, <1>4, <1>5, <1>6, RemoveEach
  <1>9. ForEach(remove_alloc, SweepOK(EndedBy(t) \cup early, BegunBy(t)), deferred)
             = SweepOK(EndedBy(t) \cup early \cup deferred, BegunBy(t))
    <2> HIDE DEF early, deferred, ending
    <2>1. \A x \in deferred : /\ itv[x].end = t /\ x \notin EndedBy(t) \cup early
                              /\ dest[x] # Nil => dest[x] \in EndedBy(t) \cup early
      BY <1>5, <1>6
    <2>2. DEFINE R == EndedBy(t) \cup early
    <2>3. Removed(R, t)
      BY <1>8
    <2>4. \A x \in deferred : /\ itv[x].end = t /\ x \notin R
                              /\ dest[x] # Nil => dest[x] \in R \/ (dest[x] \in deferred /\ dest[x] < x)
      BY <2>1
    <2> HIDE DEF R
    <2>5. ForEach(remove_alloc, SweepOK(R, BegunBy(t)), deferred)
            = SweepOK(R \cup deferred, BegunBy(t))
      BY <2>3, <2>4, <1>6, RemoveEach
    <2> QED BY <2>5 DEF R
  <1>10. ForEach(check_alloc, SweepOK(EndedBy(t + 1), BegunBy(t)), beginning)
           = SweepOK(EndedBy(t + 1), BegunBy(t + 1))
    BY CheckEach
  <1>11. sweep_time(SweepOK(EndedBy(t), BegunBy(t)), t)
           = ForEach(check_alloc,
                     ForEach(remove_alloc,
                             ForEach(remove_alloc, SweepOK(EndedBy(t), BegunBy(t)), early),
                             deferred),
                     beginning)
    BY DEF sweep_time
  <1> HIDE DEF early, deferred, beginning
  <1> QED BY <1>7, <1>8, <1>9, <1>10, <1>11

(* The checker finds no conflict in disjoint intervals.                    *)
LEMMA NoConflictsFound ==
    ASSUME PlanMade
    PROVE  NoConflicts
  <1> DEFINE n == MaxTime + 1
             start == [live |-> {}, ok |-> TRUE]
             swept == CHOOSE f : f = [k \in 0..MaxTime + 1 |->
                          IF k = 0 THEN start ELSE sweep_time(f[k - 1], k - 1)]
             g == [k \in 0..n |-> SweepOK(EndedBy(k), BegunBy(k))]
  <1>1. n \in Nat /\ \A k \in 1..n : k - 1 \in 0..MaxTime /\ k - 1 \in 0..n /\ k - 1 + 1 = k
    BY BoundsAssumption
  <1>2. \A x \in Ids : /\ itv[x].begin \in Nat /\ itv[x].end \in Nat /\ itv[x].end <= MaxTime
                       /\ dest[x] # Nil => dest[x] \in Ids
    BY TimesTyped, LinksTyped, BoundsAssumption DEF PlanMade
  <1>3. SweepOK(EndedBy(0), BegunBy(0)) = start
    <2>1. EndedBy(0) = {} /\ BegunBy(0) = {}
      BY <1>2 DEF EndedBy, BegunBy
    <2> QED BY <2>1 DEF SweepOK, LiveAfter
  <1>4. LiveAfter(EndedBy(n), BegunBy(n)) = {}
    BY <1>2, BoundsAssumption DEF LiveAfter, EndedBy
  <1>5. \A k \in 1..n : sweep_time(SweepOK(EndedBy(k - 1), BegunBy(k - 1)), k - 1)
                          = SweepOK(EndedBy(k), BegunBy(k))
    <2> SUFFICES ASSUME NEW k \in 1..n
                 PROVE  sweep_time(SweepOK(EndedBy(k - 1), BegunBy(k - 1)), k - 1)
                          = SweepOK(EndedBy(k), BegunBy(k))
      OBVIOUS
    <2> DEFINE m == k - 1
    <2>1. m \in 0..MaxTime /\ m + 1 = k
      BY <1>1
    <2> HIDE DEF m
    <2>2. sweep_time(SweepOK(EndedBy(m), BegunBy(m)), m) = SweepOK(EndedBy(k), BegunBy(k))
      BY <2>1, SweepOne
    <2> QED BY <2>2 DEF m
  <1>6. g = [k \in 0..MaxTime + 1 |-> IF k = 0 THEN start ELSE sweep_time(g[k - 1], k - 1)]
    BY <1>1, <1>3, <1>5
  <1> HIDE DEF g
  <1>7. swept = [k \in 0..MaxTime + 1 |-> IF k = 0 THEN start ELSE sweep_time(swept[k - 1], k - 1)]
    BY <1>6, Zenon
  <1> HIDE DEF swept
  <1>8. SameSteps(swept, g, n)
    <2>1. \A k \in 1..n : k \in 0..MaxTime + 1 /\ k # 0 /\ 0 \in 0..MaxTime + 1
      BY <1>1
    <2>2. 0 \in 0..MaxTime + 1
      BY <1>1
    <2> HIDE DEF n, start
    <2> QED BY <2>1, <2>2, <1>6, <1>7 DEF SameSteps
  <1>9. \A k \in 0..n : swept[k] = g[k]
    <2> HIDE DEF n
    <2> QED BY <1>1, <1>8, SameFromZero
  <1>10. swept[MaxTime + 1] = SweepOK(EndedBy(n), BegunBy(n))
    BY <1>1, <1>9 DEF g
  <1>11. NoConflicts <=> swept[MaxTime + 1].ok /\ swept[MaxTime + 1].live = {}
    BY DEF NoConflicts, swept
  <1> QED BY <1>4, <1>10, <1>11 DEF SweepOK

-----------------------------------------------------------------------------
(* What the checker compares                                               *)

LEMMA AlignUp ==
    ASSUME alignment \in Nat \ {0}, NEW a \in Nat
    PROVE  align(a) \in Nat /\ a <= align(a) /\ align(a) % alignment = 0
  <1>1. PICK n \in Nat : n = alignment /\ n > 0
    OBVIOUS
  <1>2. PICK x \in Nat, y \in Nat : a = x * n + y /\ y < n /\ a % n = y
    <2>1. /\ a % n \in 0..n - 1 /\ a \div n \in Nat
          /\ a = n * (a \div n) + (a % n)
      BY <1>1
    <2>2. n * (a \div n) = (a \div n) * n
      BY <2>1
    <2>3. a % n \in Nat /\ a % n < n
      BY <2>1
    <2> QED BY <2>1, <2>2, <2>3
  <1>3. CASE y = 0
    BY <1>1, <1>2, <1>3 DEF align
  <1>4. CASE y # 0
    <2>1. (n - y) % n = n - y
      BY <1>1, <1>2, <1>4
    <2>2. align(a) = (x + 1) * n
      BY <1>1, <1>2, <2>1 DEF align
    <2> QED BY <1>1, <1>2, <2>2
  <1> QED BY <1>3, <1>4

(* No aligned address lies between a and align(a).                         *)
LEMMA AlignLeast ==
    ASSUME alignment \in Nat \ {0}, NEW a \in Nat, NEW b \in Nat, a <= b, b % alignment = 0
    PROVE  align(a) <= b
  <1>1. PICK n \in Nat : n = alignment /\ n > 0
    OBVIOUS
  <1>2. PICK x \in Nat, y \in Nat : a = x * n + y /\ y < n /\ a % n = y
    <2>1. /\ a % n \in 0..n - 1 /\ a \div n \in Nat
          /\ a = n * (a \div n) + (a % n)
      BY <1>1
    <2>2. n * (a \div n) = (a \div n) * n
      BY <2>1
    <2>3. a % n \in Nat /\ a % n < n
      BY <2>1
    <2> QED BY <2>1, <2>2, <2>3
  <1>3. PICK z \in Nat : b = z * n
    <2>1. b % n = 0 /\ b \div n \in Nat /\ b = n * (b \div n) + (b % n)
      BY <1>1
    <2>2. PICK z \in Nat : z = b \div n
      BY <2>1
    <2>3. b = n * z /\ n * z = z * n
      BY <2>1, <2>2
    <2> QED BY <2>3
  <1>4. CASE y = 0
    BY <1>1, <1>2, <1>4 DEF align
  <1>5. CASE y # 0
    <2>1. (n - y) % n = n - y
      BY <1>1, <1>2, <1>5
    <2>2. align(a) = (x + 1) * n
      BY <1>1, <1>2, <2>1 DEF align
    <2>3. x < z
      <3>1. SUFFICES ASSUME z <= x PROVE FALSE
        OBVIOUS
      <3>2. z * n <= x * n
        BY ONLY <3>1, n \in Nat, x \in Nat, z \in Nat
      <3> QED BY <3>2, <1>1, <1>2, <1>3, <1>5
    <2>4. (x + 1) * n <= z * n
      BY ONLY <2>3, n \in Nat, x \in Nat, z \in Nat
    <2> QED BY <2>2, <2>4, <1>3
  <1> QED BY <1>4, <1>5

LEMMA AlignedStays ==
    ASSUME alignment \in Nat \ {0}, NEW a \in Nat, a % alignment = 0
    PROVE  align(a) = a
  BY AlignUp, AlignLeast

(* The sum of two aligned addresses is aligned.                            *)
LEMMA AlignedSum ==
    ASSUME NEW n \in Nat \ {0}, NEW a \in Nat, NEW b \in Nat, a % n = 0, b % n = 0
    PROVE  (a + b) % n = 0
  <1>1. n \in Nat /\ n > 0
    OBVIOUS
  <1>2. \A c \in Nat : c % n = 0 => \E z \in Nat : c = z * n
    <2> SUFFICES ASSUME NEW c \in Nat, c % n = 0 PROVE \E z \in Nat : c = z * n
      OBVIOUS
    <2>1. c \div n \in Nat /\ c = n * (c \div n) + (c % n)
      BY <1>1
    <2>2. PICK z \in Nat : z = c \div n
      BY <2>1
    <2>3. c = n * z /\ n * z = z * n
      BY <2>1, <2>2
    <2> QED BY <2>3
  <1>3. PICK x \in Nat, y \in Nat : a = x * n /\ b = y * n
    BY <1>2
  <1>4. PICK z \in Nat : z = x + y
    OBVIOUS
  <1>5. a + b = z * n
    BY <1>3, <1>4
  <1>6. (z * n) % n = 0
    BY <1>1
  <1> QED BY <1>5, <1>6

(* What an algorithm reports as its total.                                 *)
Reaches(tot) ==
    /\ \A i \in Ids : addr_end(i) <= tot
    /\ tot # 0 => \E i \in Ids : tot <= align(addr_end(i))

LEMMA PlacedRight ==
    ASSUME PlanMade, NEW tot \in Nat, Reaches(tot),
           \A i \in Ids : dest[i] = Nil => addr[i] % alignment = 0,
           \A i \in Ids : dest[i] # Nil => addr[i] = addr[dest[i]] + offset[i]
    PROVE  PlacedAsSpecified(tot)
  <1> DEFINE T == {0} \cup {addr_end(i) : i \in Ids}
  <1>1. alignment \in Nat \ {0} /\ \A i \in Ids : addr_end(i) \in Nat /\ addr[i] \in Nat
    BY TimesTyped DEF PlanMade, Prepared, ProblemOK, addr_end
  <1>2. Max(T) \in Nat /\ (\A n \in T : n <= Max(T)) /\ Max(T) <= tot
    <2>1. T \in SUBSET Nat /\ T # {} /\ \A n \in T : n <= tot
      BY <1>1 DEF Reaches
    <2> HIDE DEF T
    <2> QED BY <2>1, GreatestExists
  <1>3. \A i \in Ids : addr_end(i) <= Max(T)
    BY <1>2
  <1>4. tot = 0 => Max(T) = 0
    BY <1>2
  <1> DEFINE p == Max(T)
  <1>5. p \in Nat /\ p <= tot /\ \A i \in Ids : addr_end(i) <= p
    BY <1>2, <1>3
  <1> HIDE DEF p
  <1>6. align(p) = align(tot)
    <2>1. CASE tot = 0
      BY <1>4, <2>1 DEF p
    <2>2. CASE tot # 0
      <3>1. PICK i \in Ids : tot <= align(addr_end(i))
        BY <2>2 DEF Reaches
      <3>2. /\ align(p) \in Nat /\ p <= align(p) /\ align(p) % alignment = 0
            /\ align(tot) \in Nat /\ tot <= align(tot) /\ align(tot) % alignment = 0
            /\ align(addr_end(i)) \in Nat
        BY <1>1, <1>5, AlignUp
      <3>3. align(addr_end(i)) <= align(p)
        <4>1. addr_end(i) \in Nat /\ addr_end(i) <= align(p)
          BY <1>1, <1>5, <3>2
        <4> QED BY <4>1, <3>2, <1>1, AlignLeast
      <3>4. align(tot) <= align(p)
        <4>1. tot <= align(p)
          BY <3>1, <3>2, <3>3
        <4> QED BY <4>1, <3>2, <1>1, AlignLeast
      <3>5. align(p) <= align(tot)
        <4>1. p <= align(tot)
          BY <1>5, <3>2
        <4> QED BY <4>1, <3>2, <1>1, <1>5, AlignLeast
      <3> QED BY <3>2, <3>4, <3>5
    <2> QED BY <2>1, <2>2
  <1>7. \A i \in Ids : dest[i] = Nil => addr[i] = align(addr[i])
    BY <1>1, AlignedStays
  <1>8. \A i \in Ids : addr[i] # INVALID
    BY <1>1 DEF INVALID
  <1> QED BY <1>5, <1>6, <1>7, <1>8 DEF p, PlacedAsSpecified, is_overwrite_root

(* Then no assertion of the checker fails.                                 *)
LEMMA CheckerPasses ==
    ASSUME PlanMade, NEW tot \in Nat, Reaches(tot), check_result(tot),
           \A i \in Ids : dest[i] = Nil => addr[i] % alignment = 0,
           \A i \in Ids : dest[i] # Nil => addr[i] = addr[dest[i]] + offset[i]
    PROVE  stage' = "done"
  <1>1. PlacedAsSpecified(tot) /\ usage(MaxTime) = 0 /\ NoConflicts
    BY PlacedRight, UsageComesBack, NoConflictsFound DEF PlanMade
  <1> QED BY <1>1 DEF check_result

-----------------------------------------------------------------------------
(* The lower bound                                                         *)

(* Blocks 1..n, those that are not empty apart from each other and below T.*)
Packs(a, w, n, T) ==
    /\ \A k \in 1..n : w[k] # 0 => a[k] + w[k] <= T
    /\ \A k, l \in 1..n : k # l /\ w[k] # 0 /\ w[l] # 0 =>
          a[k] + w[k] <= a[l] \/ a[l] + w[l] <= a[k]
SumsUp(f, w, n) == f[0] = 0 /\ \A k \in 1..n : f[k] = f[k - 1] + w[k]

(* They are together no larger than T: take the last one out, and move     *)
(* what lies above it down into its place.                                 *)
LEMMA Packed ==
    ASSUME NEW n \in Nat, NEW w \in [1..n -> Nat], NEW f, SumsUp(f, w, n),
           NEW a \in [1..n -> Nat], NEW T \in Nat, Packs(a, w, n, T)
    PROVE  f[n] \in Nat /\ f[n] <= T
  <1> DEFINE Good(m) == /\ f[m] \in Nat
                        /\ \A b \in [1..n -> Nat], M \in Nat : Packs(b, w, m, M) => f[m] <= M
             S == {m \in 0..n : ~Good(m)}
  <1>1. ASSUME NEW m \in 1..n, Good(m - 1) PROVE Good(m)
    <2>1. PICK g \in Nat, s \in Nat : g = f[m - 1] /\ s = w[m] /\ f[m] = g + s
      BY <1>1 DEF SumsUp
    <2>2. /\ \A k : k \in 1..m <=> k \in 1..m - 1 \/ k = m
          /\ \A k \in 1..m - 1 : k # m /\ k \in 1..n
      OBVIOUS
    <2>3. \A b \in [1..n -> Nat], M \in Nat : Packs(b, w, m - 1, M) => g <= M
      BY <1>1, <2>1
    <2>4. ASSUME NEW b \in [1..n -> Nat], NEW M \in Nat, Packs(b, w, m, M) PROVE g + s <= M
      <3>1. Packs(b, w, m - 1, M)
        BY <2>2, <2>4 DEF Packs
      <3>2. CASE s = 0
        <4>1. g <= M
          BY <2>3, <3>1
        <4> QED BY <3>2, <4>1
      <3>3. CASE s # 0
        <4>1. PICK p \in Nat : p = b[m]
          OBVIOUS
        <4>2. p + s <= M /\ M - s \in Nat
          <5>1. p + s <= M
            BY <2>1, <2>4, <3>3, <4>1 DEF Packs
          <5> QED BY <5>1
        <4> DEFINE c == [k \in 1..n |-> IF p + s <= b[k] THEN b[k] - s ELSE b[k]]
        <4>3. c \in [1..n -> Nat]
          <5> SUFFICES ASSUME NEW k \in 1..n PROVE c[k] \in Nat
            OBVIOUS
          <5>1. PICK x \in Nat : x = b[k]
            OBVIOUS
          <5> QED BY <5>1
        <4>4. ASSUME NEW k \in 1..m - 1, w[k] # 0, NEW x, NEW u, x = b[k], u = w[k]
              PROVE  /\ x \in Nat /\ u \in Nat /\ u # 0
                     /\ x + u <= M /\ (x + u <= p \/ p + s <= x)
                     /\ c[k] = IF p + s <= x THEN x - s ELSE x
          BY <2>1, <2>2, <2>4, <3>3, <4>1, <4>4 DEF Packs
        <4> HIDE DEF c
        <4>5. ASSUME NEW k \in 1..m - 1, w[k] # 0 PROVE c[k] + w[k] <= M - s
          <5>1. PICK x, u : x = b[k] /\ u = w[k]
            OBVIOUS
          <5>2. /\ x \in Nat /\ u \in Nat /\ u # 0
                /\ x + u <= M /\ (x + u <= p \/ p + s <= x)
                /\ c[k] = IF p + s <= x THEN x - s ELSE x
            BY <4>4, <4>5, <5>1
          <5>3. (IF p + s <= x THEN x - s ELSE x) + u <= M - s
            BY ONLY <4>2, <5>2, p \in Nat, s \in Nat, M \in Nat
          <5> QED BY <5>1, <5>2, <5>3
        <4>6. ASSUME NEW k \in 1..m - 1, NEW l \in 1..m - 1, w[k] # 0, w[l] # 0, b[k] + w[k] <= b[l]
              PROVE  c[k] + w[k] <= c[l]
          <5>1. PICK x, y, u, v : x = b[k] /\ y = b[l] /\ u = w[k] /\ v = w[l]
            OBVIOUS
          <5>2. /\ x \in Nat /\ u \in Nat /\ u # 0
                /\ x + u <= p \/ p + s <= x
                /\ c[k] = IF p + s <= x THEN x - s ELSE x
            BY <4>4, <4>6, <5>1
          <5>3. /\ y \in Nat /\ v \in Nat /\ v # 0
                /\ y + v <= p \/ p + s <= y
                /\ c[l] = IF p + s <= y THEN y - s ELSE y
            BY <4>4, <4>6, <5>1
          <5>4. x + u <= y
            BY <4>6, <5>1
          <5>5. (IF p + s <= x THEN x - s ELSE x) + u <= (IF p + s <= y THEN y - s ELSE y)
            BY ONLY <5>2, <5>3, <5>4, p \in Nat, s \in Nat
          <5> QED BY <5>1, <5>2, <5>3, <5>5
        <4>7. Packs(c, w, m - 1, M - s)
          BY <3>1, <4>5, <4>6 DEF Packs
        <4>8. g <= M - s
          BY <2>3, <4>2, <4>3, <4>7
        <4> QED BY <4>2, <4>8
      <3> QED BY <3>2, <3>3
    <2>5. f[m] \in Nat
      BY <2>1
    <2>6. \A b \in [1..n -> Nat], M \in Nat : Packs(b, w, m, M) => f[m] <= M
      <3> SUFFICES ASSUME NEW b \in [1..n -> Nat], NEW M \in Nat, Packs(b, w, m, M) PROVE f[m] <= M
        OBVIOUS
      <3>1. g + s <= M
        BY <2>4
      <3> QED BY <2>1, <3>1
    <2> QED BY <2>5, <2>6
  <1>2. Good(0)
    BY DEF SumsUp
  <1>3. S = {}
    <2> SUFFICES ASSUME S # {} PROVE FALSE
      OBVIOUS
    <2>1. PICK m \in S : \A k \in S : m <= k
      <3>1. S \in SUBSET Nat
        OBVIOUS
      <3> HIDE DEF S
      <3> QED BY <3>1, LeastExists
    <2> HIDE DEF Good
    <2>2. m \in 1..n /\ m - 1 \in 0..n /\ ~(m <= m - 1)
      BY <1>2, <2>1
    <2> QED BY <1>1, <2>1, <2>2
  <1>4. Good(n)
    <2> HIDE DEF Good
    <2> QED BY <1>3
  <1> QED BY <1>4

LEMMA SumExists ==
    ASSUME NEW n \in Nat, NEW w \in [1..n -> Int]
    PROVE  \E f \in [0..n -> Int] : f = [k \in 0..n |-> IF k = 0 THEN 0 ELSE f[k - 1] + w[k]]
  <1> DEFINE Round(f, k) == IF k = 0 THEN 0 ELSE f[k - 1] + w[k]
             rank == [k \in 0..n |-> k]
             G == [f \in [0..n -> Int] |-> [k \in 0..n |-> Round(f, k)]]
  <1>1. \A f \in [0..n -> Int] : [k \in 0..n |-> Round(f, k)] \in [0..n -> Int]
    <2> SUFFICES ASSUME NEW f \in [0..n -> Int], NEW k \in 0..n PROVE Round(f, k) \in Int
      OBVIOUS
    <2>1. CASE k # 0
      <3>1. k - 1 \in 0..n /\ k \in 1..n
        BY <2>1
      <3> QED BY <3>1
    <2> QED BY <2>1
  <1>2. ASSUME NEW f \in [0..n -> Int], NEW g \in [0..n -> Int], NEW k \in 0..n,
               \A j \in 0..n : rank[j] < rank[k] => f[j] = g[j]
        PROVE  G[f][k] = G[g][k]
    <2>1. CASE k # 0
      <3>1. k - 1 \in 0..n /\ k - 1 < k
        BY <2>1
      <3> QED BY <1>2, <3>1
    <2> QED BY <2>1
  <1>3. LooksBelow(0..n, Int, rank, n + 1, G)
    <2>1. Int # {} /\ rank \in [0..n -> Nat] /\ n + 1 \in Nat /\ \A k \in 0..n : rank[k] < n + 1
      OBVIOUS
    <2>2. G \in [[0..n -> Int] -> [0..n -> Int]]
      BY <1>1
    <2> HIDE DEF G, rank
    <2> QED BY <1>2, <2>1, <2>2 DEF LooksBelow
  <1>4. PICK f \in [0..n -> Int] : f = G[f]
    <2> HIDE DEF G, rank
    <2> QED BY <1>3, FixedPoint
  <1> QED BY <1>4

(* From an aligned address on, a block needs its size rounded up.          *)
LEMMA AlignedBlock ==
    ASSUME alignment \in Nat \ {0}, NEW a \in Nat, a % alignment = 0, NEW s \in Nat
    PROVE  align(a + s) = a + align(s)
  <1>1. PICK n \in Nat : n = alignment /\ n > 0
    OBVIOUS
  <1>2. PICK x \in Nat : a = x * n
    <2>1. a % n = 0 /\ a \div n \in Nat /\ a = n * (a \div n) + (a % n)
      BY <1>1
    <2>2. PICK z \in Nat : z = a \div n
      BY <2>1
    <2>3. a = n * z /\ n * z = z * n
      BY <2>1, <2>2
    <2> QED BY <2>3
  <1>3. PICK y \in Nat : y = s % n /\ y < n
    BY <1>1
  <1>4. (a + s) % n = y
    <2>1. PICK q \in Nat : s = q * n + y
      <3>1. s \div n \in Nat /\ s = n * (s \div n) + (s % n)
        BY <1>1
      <3>2. PICK z \in Nat : z = s \div n
        BY <3>1
      <3>3. s = n * z + y /\ n * z = z * n
        BY <1>3, <3>1, <3>2
      <3> QED BY <3>3
    <2>2. a + s = (x + q) * n + y
      BY <1>2, <2>1
    <2>3. PICK z \in Nat : z = x + q
      OBVIOUS
    <2>4. a + s = z * n + y
      BY <2>2, <2>3
    <2>5. (z * n + y) % n = y
      BY <1>1, <1>3
    <2> QED BY <2>4, <2>5
  <1>5. align(a + s) = (a + s) + ((n - y) % n) /\ align(s) = s + ((n - y) % n)
    BY <1>1, <1>3, <1>4 DEF align
  <1>6. PICK r \in Nat : r = (n - y) % n
    BY <1>1, <1>3
  <1> QED BY <1>5, <1>6

(* Roots and overwriters at aligned offsets lie at aligned addresses.      *)
AlignedPlan ==
    /\ PlanMade
    /\ \A i \in Ids : rootOffset[i] \in Nat /\ rootOffset[i] % alignment = 0
    /\ \A i \in Ids : addr[i] % alignment = 0

LEMMA BlockSize ==
    ASSUME AlignedPlan, NEW i \in Ids
    PROVE  /\ lower_bound_size(i) = align(itv[i].size) /\ align(itv[i].size) \in Nat
           /\ addr[i] + align(itv[i].size) = align(addr_end(i))
  <1>1. alignment \in Nat \ {0} /\ addr[i] \in Nat
    BY DEF AlignedPlan, PlanMade, Prepared, ProblemOK
  <1>2. PICK s \in Nat : s = itv[i].size
    BY TimesTyped DEF AlignedPlan, PlanMade
  <1>3. align(s) \in Nat /\ align(addr[i] + s) = addr[i] + align(s)
    BY <1>1, AlignUp, AlignedBlock DEF AlignedPlan
  <1>4. PICK o \in Nat : o = rootOffset[i] /\ o % alignment = 0
    BY DEF AlignedPlan
  <1>5. align(o + s) = o + align(s)
    BY <1>1, <1>4, AlignedBlock
  <1>6. lower_bound_size(i) = align(s)
    BY <1>2, <1>3, <1>4, <1>5 DEF lower_bound_size
  <1> QED BY <1>2, <1>3, <1>6 DEF addr_end

(* The intervals that count at a moment lie apart, their aligned sizes     *)
(* included: no two of them are in one chain.                              *)
LEMMA UsageFits ==
    ASSUME AlignedPlan, NEW tot \in Nat, tot % alignment = 0, \A i \in Ids : addr_end(i) <= tot,
           NEW t \in 0..MaxTime
    PROVE  usage(t) \in Nat /\ usage(t) <= tot
  <1> DEFINE n == Len(itv)
             L == {i \in Ids : counts(i, t) /\ t < itv[i].end}
             w == [k \in 1..n |-> IF k \in L THEN align(itv[k].size) ELSE 0]
             counted(i) == IF counts(i, t) THEN lower_bound_size(i) ELSE 0
             given_back(i) == IF itv[i].end <= t THEN lower_bound_size(i) ELSE 0
             sum == CHOOSE f : f = [k \in 0..n |->
                        IF k = 0 THEN 0 ELSE f[k - 1] + counted(k) - given_back(k)]
  <1>1. /\ n \in Nat /\ Ids = 1..n /\ t \in Nat /\ alignment \in Nat \ {0}
        /\ ForwardSpecs /\ Prepared /\ stage = "check" /\ addr \in [1..n -> Nat]
    BY LenProperties, BoundsAssumption DEF AlignedPlan, PlanMade, Prepared, ProblemOK, Ids
  <1>2. /\ \A i \in Ids : /\ itv[i].begin \in Nat /\ itv[i].end \in Nat /\ itv[i].begin < itv[i].end
                          /\ addr[i] \in Nat /\ addr_end(i) \in Nat
        /\ \A i \in Ids : dest[i] # Nil => /\ dest[i] \in Ids /\ src[dest[i]] = i
                                          /\ itv[i].begin = itv[dest[i]].end - 1
        /\ \A i \in Ids : src[i] # Nil => src[i] \in Ids /\ dest[src[i]] = i
        /\ Nil \notin Ids
    BY <1>1, TimesTyped, LinksTyped, BoundsAssumption DEF addr_end
  <1>3. \A i \in Ids : lower_bound_size(i) = align(itv[i].size) /\ align(itv[i].size) \in Nat
    BY BlockSize
  <1>4. w \in [1..n -> Nat]
    BY <1>1, <1>3
  <1>5. \A k \in 1..n : w[k] = counted(k) - given_back(k) /\ counted(k) \in Nat /\ given_back(k) \in Nat
    <2> SUFFICES ASSUME NEW k \in Ids
                 PROVE  w[k] = counted(k) - given_back(k) /\ counted(k) \in Nat /\ given_back(k) \in Nat
      BY <1>1
    <2>1. itv[k].end <= t => counts(k, t)
      <3>1. PICK b \in Nat, e \in Nat : b = itv[k].begin /\ e = itv[k].end /\ b < e
        BY <1>2
      <3>2. CASE dest[k] = Nil
        <4>1. e <= t => b <= t
          BY <1>1, <3>1
        <4> QED BY <3>1, <3>2, <4>1 DEF counts, is_overwrite_root
      <3>3. CASE dest[k] # Nil
        <4>1. PICK c \in Nat : c = itv[dest[k]].end /\ b = c - 1
          BY <1>2, <3>1, <3>3
        <4>2. e <= t => c <= t
          BY <1>1, <3>1, <4>1
        <4> QED BY <3>1, <3>3, <4>1, <4>2 DEF counts, is_overwrite_root
      <3> QED BY <3>2, <3>3
    <2>2. PICK s \in Nat : s = lower_bound_size(k) /\ s = align(itv[k].size)
      BY <1>3
    <2>3. (t < itv[k].end) <=> ~(itv[k].end <= t)
      BY <1>1, <1>2
    <2>4. w[k] = IF counts(k, t) /\ t < itv[k].end THEN s ELSE 0
      BY <1>1, <2>2
    <2> QED BY <2>1, <2>2, <2>3, <2>4
  <1>6. ASSUME NEW i \in L, NEW j \in L, i # j
        PROVE  addr_end(i) <= addr[j] \/ addr_end(j) <= addr[i]
    <2>1. ASSUME NEW x \in L
          PROVE  /\ x \in Ids /\ itv[x].begin <= t /\ t < itv[x].end
                 /\ dest[x] # Nil => itv[dest[x]].end <= t
      <3>1. x \in Ids /\ counts(x, t) /\ t < itv[x].end
        OBVIOUS
      <3>2. CASE dest[x] = Nil
        BY <3>1, <3>2 DEF counts, is_overwrite_root
      <3>3. CASE dest[x] # Nil
        <4>1. itv[dest[x]].end <= t /\ dest[x] \in Ids /\ itv[x].begin = itv[dest[x]].end - 1
          BY <1>2, <3>1, <3>3 DEF counts, is_overwrite_root
        <4>2. PICK b, e \in Nat : b = itv[x].begin /\ e = itv[dest[x]].end
          BY <1>2, <3>1, <4>1
        <4>3. b <= t
          BY ONLY <1>1, <4>1, <4>2
        <4> QED BY <3>1, <4>1, <4>2, <4>3
      <3> QED BY <3>2, <3>3
    <2> HIDE DEF L
    <2>2. ASSUME NEW x \in L, NEW y \in L PROVE src[x] # y
      <3> SUFFICES ASSUME src[x] = y PROVE FALSE
        OBVIOUS
      <3>1. x \in Ids /\ y \in Ids /\ y # Nil
        BY <1>2, <2>1
      <3>2. dest[y] = x /\ dest[y] # Nil
        BY <1>2, <3>1
      <3>3. itv[x].end <= t /\ t < itv[x].end /\ itv[x].end \in Nat
        BY <1>2, <2>1, <3>1, <3>2
      <3> QED BY <1>1, <3>3
    <2>3. i \in Ids /\ j \in Ids /\ src[i] # j /\ src[j] # i
      BY <2>1, <2>2
    <2> QED BY <1>1, <1>6, <2>1, <2>3, SameMomentApart DEF AlignedPlan
  <1>7. Packs(addr, w, n, tot)
    <2>1. \A k \in 1..n : w[k] # 0 => k \in L /\ addr[k] + w[k] = align(addr_end(k))
      BY <1>1, BlockSize
    <2>2. \A k \in 1..n : align(addr_end(k)) <= tot
      BY <1>1, <1>2, AlignLeast
    <2>3. \A k, l \in 1..n : addr_end(k) <= addr[l] => align(addr_end(k)) <= addr[l]
      BY <1>1, <1>2, AlignLeast DEF AlignedPlan
    <2> HIDE DEF L, w
    <2> QED BY <1>6, <2>1, <2>2, <2>3 DEF Packs
  <1>8. PICK f \in [0..n -> Int] : f = [k \in 0..n |-> IF k = 0 THEN 0 ELSE f[k - 1] + w[k]]
    <2>1. w \in [1..n -> Int]
      BY <1>4
    <2> HIDE DEF w, n
    <2> QED BY <1>1, <2>1, SumExists DEF n
  <1> HIDE DEF w, counted, given_back, n
  <1>9. f = [k \in 0..n |-> IF k = 0 THEN 0 ELSE f[k - 1] + counted(k) - given_back(k)]
    <2>1. ASSUME NEW k \in 0..n, k # 0 PROVE f[k - 1] + w[k] = f[k - 1] + counted(k) - given_back(k)
      <3>1. k - 1 \in 0..n /\ k \in 1..n
        BY <1>1, <2>1
      <3>2. f[k - 1] \in Int
        BY <1>8, <3>1
      <3> QED BY <1>5, <3>1, <3>2
    <2> QED BY <1>8, <2>1
  <1>10. sum = [k \in 0..n |-> IF k = 0 THEN 0 ELSE sum[k - 1] + counted(k) - given_back(k)]
    BY <1>9, Zenon
  <1> HIDE DEF sum
  <1>11. SumsUp(sum, w, n)
    <2>1. ASSUME NEW k \in 1..n, sum[k - 1] = f[k - 1] PROVE sum[k] = f[k]
      <3>1. k \in 0..n /\ k # 0
        BY <1>1
      <3>2. sum[k] = sum[k - 1] + counted(k) - given_back(k)
        BY <1>10, <3>1
      <3>3. f[k] = f[k - 1] + counted(k) - given_back(k)
        BY <1>9, <3>1
      <3> QED BY <2>1, <3>2, <3>3
    <2>2. sum[0] = f[0]
      BY <1>1, <1>9, <1>10
    <2>3. \A k \in 0..n : sum[k] = f[k]
      <3>1. SameSteps(sum, f, n)
        BY <2>1, <2>2 DEF SameSteps
      <3>2. n \in Nat
        BY <1>1
      <3> QED BY ONLY <3>1, <3>2, SameFromZero
    <2>4. f[0] = 0 /\ \A k \in 1..n : f[k] = f[k - 1] + w[k] /\ k \in 0..n /\ k - 1 \in 0..n
      <3>1. \A k \in 1..n : k \in 0..n /\ k # 0 /\ k - 1 \in 0..n
        BY <1>1
      <3> QED BY <1>1, <1>8, <3>1
    <2>5. 0 \in 0..n
      BY <1>1
    <2> QED BY <2>3, <2>4, <2>5 DEF SumsUp
  <1>12. sum[n] \in Nat /\ sum[n] <= tot
    BY <1>1, <1>4, <1>7, <1>11, Packed
  <1>13. usage(t) = sum[n]
    BY DEF usage, sum, counted, given_back, n
  <1> QED BY <1>12, <1>13

LEMMA LowerBoundFits ==
    ASSUME AlignedPlan, NEW tot \in Nat, tot % alignment = 0, \A i \in Ids : addr_end(i) <= tot
    PROVE  peak_lower_bound <= tot
  <1> DEFINE T == {0} \cup {usage(t) : t \in 0..MaxTime}
  <1>1. T \in SUBSET Nat /\ T # {} /\ \A n \in T : n <= tot
    BY UsageFits
  <1>2. Max(T) \in T
    <2> HIDE DEF T
    <2> QED BY <1>1, GreatestExists
  <1> QED BY <1>1, <1>2 DEF peak_lower_bound

-----------------------------------------------------------------------------
(* What MemPlan promises                                                   *)

Promise == INSTANCE MemPlan WITH honoured <- HonouredSpecs, tot <- 0

(* The specifications that are honoured are the links.                     *)
LEMMA HonouredLinks ==
    ASSUME Prepared, stage = "check"
    PROVE  /\ \A p \in HonouredSpecs :
                /\ p \in Spec_ /\ p.src \in Ids /\ p.dest \in Ids /\ \E k \in DOMAIN specs : p = specs[k]
                /\ dest[p.src] = p.dest /\ offset[p.src] = p.offset /\ dest[p.src] # Nil
           /\ \A i \in Ids : dest[i] # Nil =>
                \E p \in HonouredSpecs : p.src = i /\ p.dest = dest[i] /\ p.offset = offset[i]
  <1>1. \A k \in DOMAIN specs : specs[k] \in Spec_ /\ specs[k].src \in Ids /\ specs[k].dest \in Ids
    <2>1. specs \in Seq(Spec_)
      BY DEF Prepared, ProblemOK
    <2>2. DOMAIN specs = 1..Len(specs)
      BY <2>1, LenProperties
    <2> QED BY <2>1, <2>2, SpecTyped, ElementOfSeq
  <1>2. Nil \notin Ids
    BY TimesTyped
  <1>3. \A p \in HonouredSpecs : \E k \in DOMAIN specs :
            p = specs[k] /\ dest[specs[k].src] = specs[k].dest /\ offset[specs[k].src] = specs[k].offset
    BY DEF HonouredSpecs
  <1>4. ASSUME NEW i \in Ids, dest[i] # Nil
        PROVE  \E p \in HonouredSpecs : p.src = i /\ p.dest = dest[i] /\ p.offset = offset[i]
    <2>1. PICK k \in DOMAIN specs : specs[k] = [src |-> i, dest |-> dest[i], offset |-> offset[i]]
      BY <1>4 DEF Prepared, Followed, Asked
    <2>2. specs[k].src = i /\ specs[k].dest = dest[i] /\ specs[k].offset = offset[i]
      BY <2>1
    <2>3. specs[k] \in HonouredSpecs
      BY <2>2 DEF HonouredSpecs
    <2> QED BY <2>2, <2>3
  <1>5. ASSUME NEW p \in HonouredSpecs
        PROVE  /\ p \in Spec_ /\ p.src \in Ids /\ p.dest \in Ids /\ \E k \in DOMAIN specs : p = specs[k]
               /\ dest[p.src] = p.dest /\ offset[p.src] = p.offset /\ dest[p.src] # Nil
    <2>1. PICK k \in DOMAIN specs :
              p = specs[k] /\ dest[specs[k].src] = specs[k].dest /\ offset[specs[k].src] = specs[k].offset
      BY <1>3
    <2> QED BY <2>1, <1>1, <1>2
  <1> QED BY <1>4, <1>5

(* Intervals with the same root are linked by honoured specifications.     *)
LEMMA SameRootChained ==
    ASSUME ForwardSpecs, Prepared, stage = "check",
           NEW i \in Ids, NEW j \in Ids, root[i] = root[j]
    PROVE  Promise!Chained(HonouredSpecs, i, j)
  <1> SUFFICES ASSUME NEW S \in SUBSET Ids, i \in S,
                      \A p \in HonouredSpecs : p.src \in S <=> p.dest \in S
               PROVE  j \in S
    BY DEF Promise!Chained, Promise!Ids, Ids
  <1> DEFINE T == {x \in Ids : ~(x \in S <=> root[x] \in S)}
  <1>1. T = {}
    <2> SUFFICES ASSUME T # {} PROVE FALSE
      OBVIOUS
    <2>1. PICK x \in T : \A y \in T : itv[x].begin <= itv[y].begin
      <3>1. T \in SUBSET Ids
        OBVIOUS
      <3> HIDE DEF T
      <3> QED BY <3>1, EarliestExists
    <2>2. dest[x] # Nil
      BY <2>1, LinksTyped
    <2>3. /\ dest[x] \in Ids /\ itv[dest[x]].begin < itv[x].begin /\ root[dest[x]] = root[x]
          /\ itv[x].begin \in Nat /\ itv[dest[x]].begin \in Nat
      BY <2>1, <2>2, LinksTyped, TimesTyped, BoundsAssumption
    <2>4. dest[x] \in S <=> root[x] \in S
      BY <2>1, <2>3
    <2>5. x \in S <=> dest[x] \in S
      <3>1. PICK p \in HonouredSpecs : p.src = x /\ p.dest = dest[x]
        BY <2>1, <2>2, HonouredLinks
      <3> QED BY <3>1
    <2> QED BY <2>1, <2>4, <2>5
  <1> QED BY <1>1

(* What the checker accepts is a plan that the client can use.             *)
LEMMA PlanKept ==
    ASSUME PlanMade, NEW tot \in Nat, Reaches(tot),
           \A i \in Ids : dest[i] = Nil => addr[i] % alignment = 0,
           \A i \in Ids : dest[i] # Nil => addr[i] = addr[dest[i]] + offset[i]
    PROVE  /\ Promise!Compatible(HonouredSpecs)
           /\ Promise!Plan(addr, HonouredSpecs, tot)
           /\ \A p \in Promise!Specs : ~Promise!TooLate(p)
           /\ DOMAIN addr = Promise!Ids
  <1>1. /\ ForwardSpecs /\ Prepared /\ stage = "check" /\ alignment \in Nat \ {0}
        /\ addr \in [Ids -> Nat]
    BY DEF PlanMade, Prepared, ProblemOK
  <1>2. \A i \in Ids : /\ itv[i].begin \in Nat /\ itv[i].end \in Nat
                       /\ addr_end(i) \in Nat /\ addr[i] \in Nat
    BY <1>1, TimesTyped, BoundsAssumption DEF addr_end
  <1>3. \A i \in Ids : dest[i] # Nil => /\ src[dest[i]] = i
                                        /\ itv[i].begin = itv[dest[i]].end - 1
    BY <1>1, LinksTyped
  <1>4. Promise!Ids = Ids /\ Promise!Specs = {specs[k] : k \in DOMAIN specs}
    BY DEF Promise!Ids, Ids, Promise!Specs
  <1>5. Promise!Compatible(HonouredSpecs)
    <2>1. ASSUME NEW p \in HonouredSpecs PROVE p \in Promise!Specs /\ Promise!InPlace(p)
      BY <1>1, <1>3, <1>4, HonouredLinks DEF Promise!InPlace
    <2>2. ASSUME NEW p \in HonouredSpecs, NEW q \in HonouredSpecs, p.src = q.src \/ p.dest = q.dest
          PROVE  p = q
      <3>1. /\ p \in Spec_ /\ q \in Spec_ /\ p.src \in Ids /\ q.src \in Ids
            /\ dest[p.src] = p.dest /\ offset[p.src] = p.offset /\ dest[p.src] # Nil
            /\ dest[q.src] = q.dest /\ offset[q.src] = q.offset /\ dest[q.src] # Nil
        BY <1>1, HonouredLinks
      <3>2. p.src = q.src
        BY <2>2, <3>1, <1>3
      <3>3. p.dest = q.dest /\ p.offset = q.offset
        BY <3>1, <3>2
      <3> QED BY <3>1, <3>2, <3>3 DEF Spec_
    <2> QED BY <2>1, <2>2 DEF Promise!Compatible
  <1>6. \A p \in Promise!Specs : ~Promise!TooLate(p)
    <2> SUFFICES ASSUME NEW k \in DOMAIN specs
                 PROVE  ~(itv[specs[k].src].begin >= itv[specs[k].dest].end)
      BY <1>4 DEF Promise!TooLate
    <2>1. specs \in Seq(Spec_) /\ linked = Len(specs)
      BY <1>1 DEF Prepared, ProblemOK, Followed
    <2>2. k \in 1..linked /\ specs[k].src \in Ids /\ specs[k].dest \in Ids
      BY <2>1, SpecTyped
    <2>3. itv[specs[k].src].begin < itv[specs[k].dest].end
      BY <2>2, <1>1 DEF Prepared, Followed
    <2> QED BY <2>2, <2>3, <1>2
  <1>7. Promise!Plan(addr, HonouredSpecs, tot)
    <2>1. \A i \in Ids : (\A p \in HonouredSpecs : p.src # i) => Promise!alignUp(addr[i]) = addr[i]
      <3> SUFFICES ASSUME NEW i \in Ids, \A p \in HonouredSpecs : p.src # i
                   PROVE  Promise!alignUp(addr[i]) = addr[i]
        OBVIOUS
      <3>1. dest[i] = Nil
        BY <1>1, HonouredLinks
      <3>2. align(addr[i]) = addr[i]
        BY <3>1, <1>1, <1>2, AlignedStays
      <3> QED BY <3>2 DEF align, Promise!alignUp
    <2>2. \A p \in HonouredSpecs : addr[p.src] = addr[p.dest] + p.offset
      BY <1>1, HonouredLinks
    <2>3. ASSUME NEW i \in Ids, NEW j \in Ids, Promise!Meet(i, j),
                 ~Promise!Chained(HonouredSpecs, i, j)
          PROVE  ~Promise!Share(addr, i, j)
      <3>1. root[i] # root[j]
        BY <2>3, <1>1, SameRootChained
      <3>2. time_overlap(i, j)
        BY <2>3 DEF Promise!Meet, time_overlap
      <3>3. ~addr_overlap(i, j)
        BY <3>1, <3>2 DEF PlanMade, LiveDisjoint
      <3> QED BY <3>3 DEF addr_overlap, addr_end, Promise!Share, Promise!EndOf
    <2>4. \A i \in Ids : Promise!EndOf(addr, i) = addr_end(i)
      BY DEF Promise!EndOf, addr_end
    <2>5. \A i \in Ids : Promise!EndOf(addr, i) <= tot
      BY <2>4 DEF Reaches
    <2>6. tot > 0 => \E i \in Ids : tot <= Promise!alignUp(Promise!EndOf(addr, i))
      <3> SUFFICES ASSUME tot > 0
                   PROVE  \E i \in Ids : tot <= Promise!alignUp(Promise!EndOf(addr, i))
        OBVIOUS
      <3>1. PICK i \in Ids : tot <= align(addr_end(i))
        BY DEF Reaches
      <3>2. Promise!alignUp(Promise!EndOf(addr, i)) = align(addr_end(i))
        BY <2>4 DEF align, Promise!alignUp
      <3> QED BY <3>1, <3>2
    <2> QED BY <1>2, <1>4, <2>1, <2>2, <2>3, <2>5, <2>6 DEF Promise!Plan
  <1> QED BY <1>1, <1>4, <1>5, <1>6, <1>7

(* The client's calls only add to the problem, and solve() refuses one     *)
(* with a specification that comes too late.                               *)
LEMMA PrepareDescribes ==
    ASSUME Prepared, TodoAddrOK, Prepare
    PROVE  /\ Len(itv) <= Len(itv') /\ itv = SubSeq(itv', 1, Len(itv))
           /\ Len(specs) <= Len(specs') /\ specs = SubSeq(specs', 1, Len(specs))
           /\ stage' = "reject" => /\ \E p \in Promise!Specs : Promise!TooLate(p)
                                   /\ UNCHANGED <<itv, specs, alignment>>
  <1>1. itv \in Seq(Interval) /\ specs \in Seq(Spec_)
    BY DEF Prepared, ProblemOK
  <1>2. /\ Len(itv) \in Nat /\ DOMAIN itv = 1..Len(itv) /\ \A k \in 1..Len(itv) : itv[k] \in Interval
        /\ Len(specs) \in Nat /\ DOMAIN specs = 1..Len(specs) /\ \A k \in 1..Len(specs) : specs[k] \in Spec_
    BY <1>1, LenProperties, ElementOfSeq
  <1>3. itv = SubSeq(itv, 1, Len(itv)) /\ specs = SubSeq(specs, 1, Len(specs))
    BY <1>1, SubSeqFull
  <1>4. CASE \E b, e \in 0..MaxTime, s \in Sizes : add(b, e, s)
    <2>1. PICK x : itv' = Append(itv, x) /\ UNCHANGED specs /\ stage' = "build"
      BY <1>4 DEF add
    <2> QED BY <2>1, <1>1, <1>2, <1>3
  <1>5. CASE \E s, d \in Ids, o \in Offsets : add_overwrite_spec(s, d, o)
    <2>1. PICK x : specs' = Append(specs, x) /\ UNCHANGED itv /\ stage' = "build"
      BY <1>5 DEF add_overwrite_spec
    <2> QED BY <2>1, <1>1, <1>2, <1>3
  <1>6. CASE link_spec
    <2>1. UNCHANGED <<itv, specs, alignment>>
      BY <1>6 DEF link_spec, problem
    <2>2. ASSUME stage' = "reject" PROVE \E p \in Promise!Specs : Promise!TooLate(p)
      <3>1. linked < Len(specs) /\ linked \in Nat
        BY <1>6 DEF link_spec, Prepared, ProblemOK
      <3>2. linked + 1 \in DOMAIN specs
        BY <3>1, <1>2
      <3>3. itv[specs[linked + 1].src].begin >= itv[specs[linked + 1].dest].end
        BY <1>6, <2>2 DEF link_spec
      <3>4. specs[linked + 1] \in Promise!Specs
        BY <3>2 DEF Promise!Specs
      <3> QED BY <3>3, <3>4 DEF Promise!TooLate
    <2> QED BY <2>1, <2>2, <1>2, <1>3
  <1>7. CASE \/ \E a \in Alignments : set_alignment(a)
             \/ \E p \in Paddings : set_padding(p)
             \/ solve
             \/ links_done
             \/ \E i \in Ids : path_compression(i)
    <2>1. UNCHANGED <<itv, specs>> /\ stage' # "reject"
      BY <1>7 DEF set_alignment, set_padding, solve, links_done, path_compression, problem
    <2> QED BY <2>1, <1>2, <1>3
  <1> QED BY <1>4, <1>5, <1>6, <1>7 DEF Prepare

-----------------------------------------------------------------------------
(* BestFitHelper::run()                                                    *)

LoopOK ==
    /\ now \in 0..MaxTime /\ phase \in Phases
    /\ stage = "solve" => todo \subseteq Due(phase, now)
    /\ stage \in {"place", "check", "done"} => phase = "overwrite" /\ now = MaxTime /\ todo = {}

LEMMA FreeCallBack ==
    ASSUME Prepared, LoopOK, NEW i \in Ids, CallBack("free", i), stage' \in {"solve", "abort"}
    PROVE  /\ LoopOK'
           /\ i \in Holders /\ Holders' = Holders \ {i}
           /\ \A j \in Ids : Begun(j)' <=> Begun(j)
  <1>1. /\ stage = "solve" /\ phase = "free" /\ i \in todo /\ todo' = todo \ {i}
        /\ UNCHANGED <<itv, dest, src, now, phase>>
    BY DEF CallBack, NextTodo, problem, links, loop
  <1>2. itv[i].end = now /\ src[i] = Nil
    BY <1>1 DEF LoopOK, Due
  <1>3. Ids' = Ids
    BY <1>1 DEF Ids
  <1>4. \A j \in Ids : /\ itv[j].begin \in 0..MaxTime /\ itv[j].end \in 0..MaxTime
                       /\ itv[j].begin < itv[j].end
    BY TimesTyped
  <1>5. \A j \in Ids : src[j] # Nil => src[j] \in Ids
    BY <1>1, LinksTyped
  <1>6. \A j \in Ids : Begun(j)' <=> Begun(j)
    BY <1>1, <1>4 DEF Begun, Passed, is_overwrite_root
  <1>7. ASSUME NEW j \in Ids, j # i PROVE Ended(j)' <=> Ended(j)
    BY <1>1, <1>4, <1>5, <1>6, <1>7 DEF Ended, Passed
  <1>8. Ended(i)' /\ ~Ended(i) /\ Begun(i)
    BY <1>1, <1>2, <1>4 DEF Ended, Begun, Passed, LoopOK
  <1>9. LoopOK'
    BY <1>1, <1>3 DEF LoopOK, Due, is_overwrite_root
  <1> QED BY <1>3, <1>6, <1>7, <1>8, <1>9 DEF Holders

LEMMA AllocCallBack ==
    ASSUME Prepared, LoopOK, NEW i \in Ids, CallBack("alloc", i), stage' \in {"solve", "abort"}
    PROVE  /\ LoopOK'
           /\ i \notin Holders /\ Holders' = Holders \cup {i}
           /\ dest[i] = Nil /\ itv[i].begin = now
           /\ ~Begun(i) /\ \A j \in Ids : Begun(j)' <=> Begun(j) \/ j = i
  <1>1. /\ stage = "solve" /\ phase = "alloc" /\ i \in todo /\ todo' = todo \ {i}
        /\ UNCHANGED <<itv, dest, src, now, phase>>
    BY DEF CallBack, NextTodo, problem, links, loop
  <1>2. itv[i].begin = now /\ dest[i] = Nil
    BY <1>1 DEF LoopOK, Due, is_overwrite_root
  <1>3. Ids' = Ids
    BY <1>1 DEF Ids
  <1>4. \A j \in Ids : /\ itv[j].begin \in 0..MaxTime /\ itv[j].end \in 0..MaxTime
                       /\ itv[j].begin < itv[j].end
    BY TimesTyped
  <1>5. \A j \in Ids : src[j] # Nil => src[j] \in Ids /\ dest[src[j]] = j
    BY <1>1, LinksTyped
  <1>6. \A j \in Ids : Begun(j)' <=> Begun(j) \/ j = i
    BY <1>1, <1>2, <1>4 DEF Begun, Passed, is_overwrite_root
  <1>7. ~Begun(i)
    BY <1>1, <1>2, <1>4 DEF Begun, Passed, is_overwrite_root, LoopOK
  <1>8. Nil \notin Ids
    BY TimesTyped
  <1>9. \A j \in Ids : Ended(j)' <=> Ended(j)
    <2> SUFFICES ASSUME NEW j \in Ids PROVE Ended(j)' <=> Ended(j)
      OBVIOUS
    <2>1. CASE src[j] # Nil
      <3>1. src[j] \in Ids /\ src[j] # i
        BY <2>1, <1>2, <1>5, <1>8
      <3> QED BY <2>1, <3>1, <1>1, <1>6 DEF Ended
    <2>2. CASE src[j] = Nil
      BY <2>2, <1>1, <1>4 DEF Ended, Passed
    <2> QED BY <2>1, <2>2
  <1>10. ~Ended(i)
    <2>1. CASE src[i] # Nil
      <3>1. src[i] \in Ids /\ dest[src[i]] # Nil
        BY <2>1, <1>5, <1>8
      <3>2. itv[src[i]].begin = itv[i].end - 1
        BY <2>1, <3>1, <1>1, <1>5, LinksTyped
      <3> QED BY <2>1, <3>1, <3>2, <1>1, <1>2, <1>4 DEF Ended, Begun, Passed, is_overwrite_root, LoopOK
    <2>2. CASE src[i] = Nil
      BY <2>2, <1>1, <1>2, <1>4 DEF Ended, Passed, LoopOK
    <2> QED BY <2>1, <2>2
  <1>11. LoopOK'
    BY <1>1, <1>3 DEF LoopOK, Due, is_overwrite_root
  <1> QED BY <1>2, <1>3, <1>6, <1>7, <1>9, <1>10, <1>11 DEF Holders

(* The destination of an overwriter is found holding its memory: it began  *)
(* at an earlier time, and nothing but its overwriter ends it.             *)
LEMMA OverwriteCallBack ==
    ASSUME ForwardSpecs, Prepared, LoopOK, NEW i \in Ids, CallBack("overwrite", i),
           stage' \in {"solve", "abort"}
    PROVE  /\ LoopOK'
           /\ dest[i] \in Holders /\ i \notin Holders
           /\ Holders' = (Holders \ {dest[i]}) \cup {i}
           /\ dest[i] # Nil /\ itv[i].begin = now
           /\ ~Begun(i) /\ \A j \in Ids : Begun(j)' <=> Begun(j) \/ j = i
  <1> DEFINE d == dest[i]
  <1>1. /\ stage = "solve" /\ phase = "overwrite" /\ i \in todo /\ todo' = todo \ {i}
        /\ UNCHANGED <<itv, dest, src, now, phase>>
    BY DEF CallBack, NextTodo, problem, links, loop
  <1>2. itv[i].begin = now /\ d # Nil
    BY <1>1 DEF LoopOK, Due, is_overwrite_root
  <1>3. Ids' = Ids
    BY <1>1 DEF Ids
  <1>4. \A j \in Ids : /\ itv[j].begin \in 0..MaxTime /\ itv[j].end \in 0..MaxTime
                       /\ itv[j].begin < itv[j].end
    BY TimesTyped
  <1>5. \A j \in Ids : src[j] # Nil => src[j] \in Ids /\ dest[src[j]] = j
    BY <1>1, LinksTyped
  <1>6. d \in Ids /\ src[d] = i /\ itv[d].begin < itv[i].begin
    BY <1>1, <1>2, LinksTyped
  <1>7. \A j \in Ids : Begun(j)' <=> Begun(j) \/ j = i
    BY <1>1, <1>2, <1>4 DEF Begun, Passed, is_overwrite_root
  <1>8. ~Begun(i)
    BY <1>1, <1>2, <1>4 DEF Begun, Passed, is_overwrite_root, LoopOK
  <1>9. Nil \notin Ids
    BY TimesTyped
  <1>10. \A j \in Ids : j # d => (Ended(j)' <=> Ended(j))
    <2> SUFFICES ASSUME NEW j \in Ids, j # d PROVE Ended(j)' <=> Ended(j)
      OBVIOUS
    <2>1. CASE src[j] # Nil
      <3>1. src[j] \in Ids /\ src[j] # i
        BY <2>1, <1>5
      <3> QED BY <2>1, <3>1, <1>1, <1>7 DEF Ended
    <2>2. CASE src[j] = Nil
      BY <2>2, <1>1, <1>4 DEF Ended, Passed
    <2> QED BY <2>1, <2>2
  <1>11. ~Ended(d) /\ Ended(d)' /\ Begun(d)
    <2>1. Begun(d)
      BY <1>1, <1>2, <1>4, <1>6 DEF Begun, Passed, LoopOK
    <2>2. i # Nil
      BY <1>9
    <2> QED BY <2>1, <2>2, <1>1, <1>6, <1>7, <1>8 DEF Ended
  <1>12. ~Ended(i)
    <2>1. CASE src[i] # Nil
      <3>1. src[i] \in Ids /\ dest[src[i]] # Nil
        BY <2>1, <1>5, <1>9
      <3>2. itv[src[i]].begin > now
        BY <2>1, <3>1, <1>1, <1>2, <1>5, LinksTyped
      <3> QED BY <2>1, <3>1, <3>2, <1>1, <1>4 DEF Ended, Begun, Passed, LoopOK
    <2>2. CASE src[i] = Nil
      BY <2>2, <1>1, <1>2, <1>4 DEF Ended, Passed, LoopOK
    <2> QED BY <2>1, <2>2
  <1>13. LoopOK'
    BY <1>1, <1>3 DEF LoopOK, Due, is_overwrite_root
  <1>14. i # d
    BY <1>6, <1>4
  <1>15. d \in Holders /\ i \notin Holders
    BY <1>6, <1>8, <1>11 DEF Holders
  <1>16. Holders' = (Holders \ {d}) \cup {i}
    <2>1. \A j \in Ids : j # d => (j \in Holders' <=> j \in Holders \/ j = i)
      BY <1>3, <1>7, <1>10, <1>12 DEF Holders
    <2>2. \A j \in Ids : j = d => j \notin Holders'
      <3>1. \A j \in Ids : j = d => (Ended(j))'
        BY <1>1, <1>6, <1>7, <1>9 DEF Ended
      <3> QED BY <3>1 DEF Holders
    <2>3. Holders' \subseteq Ids /\ Holders \subseteq Ids
      BY <1>3 DEF Holders
    <2> HIDE DEF d
    <2> QED BY <2>1, <2>2, <2>3, <1>14
  <1> QED BY <1>2, <1>7, <1>8, <1>13, <1>15, <1>16

(* Nothing begins or ends between the loops.                               *)
LEMMA NextPhaseHolders ==
    ASSUME Prepared, LoopOK, next_phase
    PROVE  /\ LoopOK'
           /\ Holders' = Holders /\ \A j \in Ids : Begun(j)' <=> Begun(j)
  <1>1. /\ stage = "solve" /\ stage' = "solve" /\ todo = {} /\ todo' = Due(phase', now')
        /\ phase = "overwrite" => now < MaxTime
        /\ phase' = CASE phase = "free" -> "alloc" [] phase = "alloc" -> "overwrite"
                      [] phase = "overwrite" -> "free"
        /\ now' = IF phase = "overwrite" THEN now + 1 ELSE now
        /\ UNCHANGED <<itv, dest, src>>
    BY DEF next_phase, problem, links
  <1>2. /\ now \in 0..MaxTime
        /\ \/ phase = "free" /\ phase' = "alloc" /\ now' = now
           \/ phase = "alloc" /\ phase' = "overwrite" /\ now' = now
           \/ phase = "overwrite" /\ phase' = "free" /\ now' = now + 1 /\ now < MaxTime
    BY <1>1 DEF LoopOK, Phases
  <1>3. Ids' = Ids
    BY <1>1 DEF Ids
  <1>4. \A j \in Ids : /\ itv[j].begin \in 0..MaxTime /\ itv[j].end \in 0..MaxTime
    BY TimesTyped
  <1>5. LoopOK'
    <2>1. todo' \subseteq Due(phase, now)'
      BY <1>1, <1>3 DEF Due, is_overwrite_root
    <2>2. now' \in 0..MaxTime /\ phase' \in Phases
      BY <1>2, BoundsAssumption DEF Phases
    <2> QED BY <1>1, <2>1, <2>2 DEF LoopOK
  <1>6. /\ phase' = "free" => todo' = {i \in Ids : itv[i].end = now' /\ src[i] = Nil}
        /\ phase' = "alloc" => todo' = {i \in Ids : itv[i].begin = now' /\ dest[i] = Nil}
        /\ phase' = "overwrite" => todo' = {i \in Ids : itv[i].begin = now' /\ dest[i] # Nil}
    BY <1>1, <1>2 DEF Due, is_overwrite_root
  <1>7. \A j \in Ids : Begun(j)' <=> Begun(j)
    BY <1>1, <1>2, <1>4, <1>6 DEF Begun, Passed, is_overwrite_root
  <1>8. \A j \in Ids : src[j] # Nil => src[j] \in Ids
    BY <1>1, LinksTyped
  <1>9. \A j \in Ids : Ended(j)' <=> Ended(j)
    BY <1>1, <1>2, <1>4, <1>6, <1>7, <1>8 DEF Ended, Passed
  <1> QED BY <1>3, <1>5, <1>7, <1>9 DEF Holders

LEMMA StartLoopHolders ==
    ASSUME Prepared, LoopOK, start_loop, Prepared'
    PROVE  LoopOK' /\ Holders' = {} /\ \A j \in Ids : ~Begun(j)'
  <1>1. /\ stage' = "solve" /\ now' = 0 /\ phase' = "free" /\ todo' = Due("free", 0)
        /\ UNCHANGED <<itv, dest, src>> /\ Ids' = Ids
    BY DEF start_loop, problem, links, Ids
  <1>2. \A j \in Ids : itv[j].begin \in 0..MaxTime
    BY TimesTyped
  <1>3. \A j \in Ids : ~Begun(j)'
    BY <1>1, <1>2 DEF Begun, Passed, is_overwrite_root
  <1>4. LoopOK'
    BY <1>1, BoundsAssumption DEF LoopOK, Phases, Due, is_overwrite_root
  <1> QED BY <1>1, <1>3, <1>4 DEF Holders

(* When the loop is over, every interval has begun and has ended.          *)
LEMMA AllEnded ==
    ASSUME Prepared, LoopOK, stage \in {"place", "check", "done"}
    PROVE  Holders = {} /\ \A i \in Ids : Begun(i)
  <1>1. phase = "overwrite" /\ now = MaxTime /\ todo = {}
    BY DEF LoopOK
  <1>2. \A j \in Ids : itv[j].begin \in 0..MaxTime /\ itv[j].end \in 0..MaxTime
    BY TimesTyped
  <1>3. \A i \in Ids : Begun(i)
    BY <1>1, <1>2, BoundsAssumption DEF Begun, Passed
  <1>4. \A i \in Ids : Ended(i)
    BY <1>1, <1>2, <1>3, LinksTyped, BoundsAssumption DEF Ended, Passed
  <1> QED BY <1>3, <1>4 DEF Holders

(* An interval that begins now and one that has begun before, if they      *)
(* overlap: the other one is still holding its memory, as long as no       *)
(* overwriter begins now.                                                  *)
LEMMA OverlappingHolds ==
    ASSUME Prepared, LoopOK, stage = "solve", phase = "alloc",
           NEW i \in Ids, NEW j \in Ids, itv[i].begin = now, Begun(j), time_overlap(i, j)
    PROVE  j \in Holders
  <1>1. /\ itv[j].end > now /\ itv[j].begin \in 0..MaxTime /\ itv[j].end \in 0..MaxTime
        /\ now \in 0..MaxTime
    BY TimesTyped DEF time_overlap, LoopOK
  <1>2. ~Ended(j)
    <2>1. CASE src[j] = Nil
      BY <2>1, <1>1 DEF Ended, Passed
    <2>2. CASE src[j] # Nil
      <3>1. src[j] \in Ids /\ dest[src[j]] = j /\ j # Nil
        BY <2>2, LinksTyped, TimesTyped
      <3>2. itv[src[j]].begin >= now /\ itv[src[j]].begin \in Int
        BY <3>1, <1>1, LinksTyped
      <3> QED BY <2>2, <3>1, <3>2, <1>1 DEF Ended, Begun, Passed, is_overwrite_root
    <2> QED BY <2>1, <2>2
  <1> QED BY <1>2 DEF Holders

(* Steps that leave the loop and the links alone.                          *)
LEMMA LoopStays ==
    ASSUME UNCHANGED <<problem, links, loop, todo>>
    PROVE  Ids' = Ids /\ Holders' = Holders /\ \A j : Begun(j)' <=> Begun(j)
  <1>1. Ids' = Ids /\ UNCHANGED <<itv, dest, src, now, phase, todo>>
    BY DEF problem, links, loop, Ids
  <1>2. \A j : Begun(j)' <=> Begun(j)
    BY <1>1 DEF Begun, Passed, is_overwrite_root
  <1>3. \A j : Ended(j)' <=> Ended(j)
    BY <1>1, <1>2 DEF Ended, Passed
  <1> QED BY <1>1, <1>2, <1>3 DEF Holders

LEMMA StutterPreserves ==
    ASSUME Prepared, TodoAddrOK, LoopOK, UNCHANGED <<problem, stage, links, loop, todo, addr>>
    PROVE  Prepared' /\ TodoAddrOK' /\ LoopOK'
  <1>1. UNCHANGED <<itv, specs, alignment, padding, stage, linked, dest, src, offset, root,
                    rootOffset, todo, addr, now, phase>>
    BY DEF problem, links, loop
  <1>2. Ids' = Ids /\ Spec_' = Spec_
    BY <1>1 DEF Ids, Spec_
  <1>3. Prepared' /\ TodoAddrOK'
    BY <1>1, <1>2 DEF Prepared, ProblemOK, LinksOK, LinkedPair, Followed, Asked, RootsOK,
                      Fresh, NoAddresses, TodoAddrOK
  <1>4. LoopOK'
    BY <1>1, <1>2 DEF LoopOK, Due, is_overwrite_root
  <1> QED BY <1>3, <1>4

(* run() returns, and solve() goes on with stage next.                     *)
LEMMA EndLoopHolders ==
    ASSUME LoopOK, NEW next \in {"place", "check"}, end_loop(next)
    PROVE  LoopOK' /\ Ids' = Ids /\ Holders' = Holders /\ \A j : Begun(j)' <=> Begun(j)
  <1>1. /\ stage' = next /\ phase = "overwrite" /\ now = MaxTime /\ todo = {}
        /\ UNCHANGED <<problem, links, loop, now, phase, todo>>
    BY DEF end_loop, loop
  <1>2. LoopOK'
    BY <1>1 DEF LoopOK
  <1> QED BY <1>1, <1>2, LoopStays
=============================================================================

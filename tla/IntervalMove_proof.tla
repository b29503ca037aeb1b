------------------------- MODULE IntervalMove_proof -------------------------
(***************************************************************************)
(* Theorems about IntervalMove, for every value of its constants: what was *)
(* recorded to lie above an interval stays above it, the peak is reached   *)
(* and grows as predicted, so that no assertion fails, and the plan is one *)
(* that MemPlan allows.  They assume what StaticMemAllocImpl leaves to the *)
(* client: intervals are not empty, and specifications point forward.      *)
(***************************************************************************)
EXTENDS IntervalMove, StaticMemAllocImpl_proof

(* The board: the roots placed so far, at aligned addresses; what was      *)
(* recorded lies above; the peak is what they reach.                       *)
Board ==
    /\ alignment \in Nat \ {0} /\ peak \in Nat
    /\ todo \subseteq Roots
    /\ \A i \in Placed : addr[i] \in Nat /\ addr[i] % alignment = 0
    /\ move_conflict \in [Ids -> SUBSET Placed]
    /\ \A i \in Placed : \A j \in move_conflict[i] : end_of(i) <= addr[j]
    /\ \A i, j \in Placed : i # j /\ meet(i, j) => j \in move_conflict[i] \/ i \in move_conflict[j]
    /\ \A i \in Placed : end_of(i) <= peak
    /\ IF Placed = {} THEN peak = 0 ELSE \E i \in Placed : end_of(i) = peak

-----------------------------------------------------------------------------
(* Numbers, and sets of them                                               *)

LEMMA LeastIs ==
    ASSUME NEW T \in SUBSET Nat, T # {}
    PROVE  Min(T) \in T /\ \A n \in T : Min(T) <= n
  <1>1. \E x \in T : \A y \in T : x <= y
    BY LeastExists
  <1> QED BY <1>1 DEF Min

(* A bounded set of integers, some of them natural, has a greatest one.    *)
LEMMA GreatestInteger ==
    ASSUME NEW T \in SUBSET Int, NEW z \in T, z >= 0, NEW M \in Nat, \A n \in T : n <= M
    PROVE  Max(T) \in T /\ Max(T) \in Nat /\ \A n \in T : n <= Max(T)
  <1> DEFINE U == T \cap Nat
  <1>1. U \in SUBSET Nat /\ U # {} /\ \A n \in U : n <= M
    OBVIOUS
  <1>2. PICK m \in U : \A n \in U : n <= m
    <2> HIDE DEF U
    <2> QED BY <1>1, GreatestExists
  <1>3. m \in T /\ \A n \in T : m >= n
    BY <1>2
  <1>4. Max(T) \in T /\ \A n \in T : Max(T) >= n
    BY <1>3 DEF Max
  <1>5. PICK w \in T : w = Max(T)
    BY <1>4
  <1>6. w \in Int /\ z <= w
    BY <1>4, <1>5
  <1>7. w \in Nat
    BY <1>6
  <1>8. \A n \in T : n <= w
    BY <1>4, <1>5
  <1> QED BY <1>5, <1>7, <1>8

(* The values of a function on Placed are bounded.                         *)
LEMMA ValuesBounded ==
    ASSUME Prepared, NEW S \in SUBSET Ids, NEW f, \A i \in S : f[i] \in Nat
    PROVE  \E M \in Nat : \A i \in S : f[i] <= M
  <1>1. PICK N \in Nat : Ids = 1..N
    BY LenProperties DEF Prepared, ProblemOK, Ids
  <1> DEFINE g == [k \in 1..N |-> IF k \in S THEN f[k] ELSE 0]
  <1>2. g \in [1..N -> Nat]
    OBVIOUS
  <1>3. PICK M \in Nat : \A k \in 1..N : g[k] <= M
    <2> HIDE DEF g
    <2> QED BY <1>2, SequenceBounded
  <1>4. \A i \in S : f[i] <= M
    BY <1>1, <1>3
  <1> QED BY <1>4

-----------------------------------------------------------------------------
(* move_interval_higher()                                                  *)

LEMMA SizeAligned ==
    ASSUME Prepared
    PROVE  \A i \in Ids : /\ size(i) \in Nat /\ size(i) # 0 /\ size(i) % alignment = 0
                          /\ itv[i].size <= size(i)
  <1> SUFFICES ASSUME NEW i \in Ids
               PROVE  /\ size(i) \in Nat /\ size(i) # 0 /\ size(i) % alignment = 0
                      /\ itv[i].size <= size(i)
    OBVIOUS
  <1>1. itv[i].size \in Nat /\ itv[i].size # 0 /\ alignment \in Nat \ {0}
    BY TimesTyped DEF Prepared, ProblemOK
  <1>2. align(itv[i].size) \in Nat /\ itv[i].size <= align(itv[i].size)
        /\ align(itv[i].size) % alignment = 0
    BY <1>1, AlignUp
  <1> QED BY <1>1, <1>2 DEF size

LEMMA BoardTyped ==
    ASSUME Prepared, Board
    PROVE  /\ Placed \in SUBSET Ids
           /\ \A i \in Placed : /\ addr[i] \in Nat /\ size(i) \in Nat /\ size(i) # 0
                                /\ end_of(i) \in Nat /\ end_of(i) = addr[i] + size(i)
                                /\ end_of(i) <= peak /\ end_of(i) % alignment = 0
                                /\ move_conflict[i] \in SUBSET Placed
           /\ \A i \in Placed : \A j \in move_conflict[i] : addr[i] < addr[j] /\ end_of(i) <= addr[j]
  <1>1. Placed \in SUBSET Ids
    BY DEF Placed, Roots
  <1>2. \A i \in Placed : /\ addr[i] \in Nat /\ size(i) \in Nat /\ size(i) # 0
                          /\ end_of(i) = addr[i] + size(i) /\ move_conflict[i] \in SUBSET Placed
                          /\ end_of(i) <= peak
    BY <1>1, SizeAligned DEF Board, end_of
  <1>3. \A i \in Placed : end_of(i) % alignment = 0
    BY <1>1, <1>2, SizeAligned, AlignedSum DEF Board
  <1>4. \A i \in Placed : \A j \in move_conflict[i] : end_of(i) <= addr[j]
    BY DEF Board
  <1>5. \A i \in Placed : \A j \in move_conflict[i] : addr[i] < addr[j]
    <2> SUFFICES ASSUME NEW i \in Placed, NEW j \in move_conflict[i] PROVE addr[i] < addr[j]
      OBVIOUS
    <2>1. j \in Placed
      BY <1>2
    <2> QED BY <2>1, <1>2, <1>4
  <1> QED BY <1>1, <1>2, <1>3, <1>4, <1>5

(* What pushes interval i: the new one at a, and those it lies above.      *)
Pushers(f, i) == {j \in Placed : i \in move_conflict[j] /\ f[j] > addr[j]}
PushedTo(C, a, s, f, i) ==
    {addr[i]} \cup {a + s : j \in {i} \cap {k \in C : end_of(k) > a}}
              \cup {f[j] + size(j) : j \in Pushers(f, i)}

LEMMA PushedToTyped ==
    ASSUME Prepared, Board, NEW C \in SUBSET Placed, NEW a \in Nat, NEW s \in Nat,
           NEW f \in [Placed -> Nat], NEW i \in Placed
    PROVE  LET T == PushedTo(C, a, s, f, i)
           IN  T \in SUBSET Nat /\ Max(T) \in T /\ \A n \in T : n <= Max(T)
  <1> DEFINE T == PushedTo(C, a, s, f, i)
  <1>1. \A j \in Placed : f[j] \in Nat /\ size(j) \in Nat /\ addr[j] \in Nat
    BY BoardTyped
  <1>2. T \in SUBSET Nat /\ T # {}
    BY <1>1 DEF PushedTo, Pushers
  <1>3. PICK M \in Nat : \A j \in Placed : f[j] + size(j) <= M
    <2> DEFINE g == [j \in Placed |-> f[j] + size(j)]
    <2>1. \A j \in Placed : g[j] \in Nat
      BY <1>1
    <2>2. \E M \in Nat : \A j \in Placed : g[j] <= M
      <3> HIDE DEF g
      <3> QED BY <2>1, BoardTyped, ValuesBounded
    <2> QED BY <2>2
  <1>4. \A n \in T : n <= M + addr[i] + a + s
    BY <1>1, <1>3 DEF PushedTo, Pushers
  <1>5. M + addr[i] + a + s \in Nat
    BY <1>1
  <1> HIDE DEF T
  <1>6. Max(T) \in T /\ \A n \in T : n <= Max(T)
    BY <1>2, <1>4, <1>5, GreatestExists
  <1> QED BY <1>2, <1>6 DEF T

(* The recursion pushes only upwards, so that it ends.                     *)
LEMMA MovedIs ==
    ASSUME Prepared, Board, NEW C \in SUBSET Placed, NEW a \in Nat, NEW s \in Nat
    PROVE  /\ moved(C, a, s) \in [Placed -> Nat]
           /\ \A i \in Placed : moved(C, a, s)[i] = Max(PushedTo(C, a, s, moved(C, a, s), i))
  <1> DEFINE G == [f \in [Placed -> Nat] |-> [i \in Placed |-> Max(PushedTo(C, a, s, f, i))]]
             rank == [i \in Placed |-> addr[i]]
  <1>1. G \in [[Placed -> Nat] -> [Placed -> Nat]]
    <2>1. \A f \in [Placed -> Nat] : \A i \in Placed : Max(PushedTo(C, a, s, f, i)) \in Nat
      BY PushedToTyped
    <2> QED BY <2>1
  <1>2. rank \in [Placed -> Nat] /\ \A i \in Placed : rank[i] < peak + 1
    <2>1. \A i \in Placed : addr[i] \in Nat /\ addr[i] < peak + 1 /\ peak \in Nat
      BY BoardTyped DEF Board
    <2> QED BY <2>1
  <1>3. ASSUME NEW f, NEW g, NEW i \in Placed,
               \A j \in Placed : addr[j] < addr[i] => f[j] = g[j]
        PROVE  PushedTo(C, a, s, f, i) = PushedTo(C, a, s, g, i)
    <2>1. \A j \in Placed : i \in move_conflict[j] => f[j] = g[j]
      BY <1>3, BoardTyped
    <2>2. Pushers(f, i) = Pushers(g, i) /\ \A j \in Pushers(f, i) : f[j] = g[j]
      BY <2>1 DEF Pushers
    <2>3. {f[j] + size(j) : j \in Pushers(f, i)} = {g[j] + size(j) : j \in Pushers(g, i)}
      BY <2>2
    <2> QED BY <2>3 DEF PushedTo
  <1>4. \A f, g \in [Placed -> Nat] : \A i \in Placed :
            (\A j \in Placed : rank[j] < rank[i] => f[j] = g[j]) => G[f][i] = G[g][i]
    <2> SUFFICES ASSUME NEW f \in [Placed -> Nat], NEW g \in [Placed -> Nat], NEW i \in Placed,
                        \A j \in Placed : rank[j] < rank[i] => f[j] = g[j]
                 PROVE  G[f][i] = G[g][i]
      OBVIOUS
    <2>1. PushedTo(C, a, s, f, i) = PushedTo(C, a, s, g, i)
      BY <1>3
    <2> QED BY <2>1
  <1>5. PICK f \in [Placed -> Nat] : f = G[f]
    <2> HIDE DEF G, rank
    <2>1. LooksBelow(Placed, Nat, rank, peak + 1, G)
      <3>1. peak + 1 \in Nat /\ Nat # {}
        BY DEF Board
      <3> QED BY <1>1, <1>2, <1>4, <3>1 DEF LooksBelow
    <2> QED BY <2>1, FixedPoint
  <1>6. f = [i \in Placed |-> Max(PushedTo(C, a, s, f, i))]
    BY <1>5
  <1> DEFINE h == CHOOSE x : x = [i \in Placed |-> Max(PushedTo(C, a, s, x, i))]
  <1>7. h = [i \in Placed |-> Max(PushedTo(C, a, s, h, i))]
    BY <1>6, Zenon
  <1>8. moved(C, a, s) = h
    BY DEF moved, PushedTo, Pushers
  <1> HIDE DEF h, G
  <1>9. \A i \in Placed : h[i] = f[i]
    <2> DEFINE D == {i \in Placed : h[i] # f[i]}
               R == {addr[i] : i \in D}
    <2>1. SUFFICES ASSUME D # {} PROVE FALSE
      OBVIOUS
    <2>2. R \in SUBSET Nat /\ R # {}
      BY <2>1, BoardTyped
    <2>3. PICK m \in R : \A n \in R : m <= n
      <3> HIDE DEF R
      <3> QED BY <2>2, LeastExists
    <2>4. PICK i \in D : m = addr[i]
      BY <2>3
    <2>5. \A j \in Placed : addr[j] < addr[i] => h[j] = f[j]
      <3> SUFFICES ASSUME NEW j \in Placed, addr[j] < addr[i], h[j] # f[j] PROVE FALSE
        OBVIOUS
      <3>1. addr[j] \in R
        OBVIOUS
      <3>2. addr[j] \in Nat /\ addr[i] \in Nat
        BY BoardTyped
      <3> QED BY <3>1, <3>2, <2>3, <2>4
    <2>6. PushedTo(C, a, s, h, i) = PushedTo(C, a, s, f, i)
      BY <2>5, <1>3
    <2>7. h[i] = Max(PushedTo(C, a, s, h, i)) /\ f[i] = Max(PushedTo(C, a, s, f, i))
      BY <1>6, <1>7
    <2> QED BY <2>4, <2>6, <2>7
  <1>10. h = f
    <2>1. h = [i \in Placed |-> h[i]]
      BY <1>7
    <2> QED BY <2>1, <1>9
  <1> QED BY <1>6, <1>8, <1>10

(* Some interval of a set is lowest, some is highest.                      *)
LEMMA LowestExists ==
    ASSUME Prepared, Board, NEW D \in SUBSET Placed, D # {}
    PROVE  /\ \E i \in D : \A j \in D : addr[i] <= addr[j]
           /\ \E i \in D : \A j \in D : addr[j] <= addr[i]
  <1> DEFINE R == {addr[i] : i \in D}
  <1>1. \A i \in D : addr[i] \in Nat /\ addr[i] <= peak
    BY BoardTyped DEF Board
  <1>2. R \in SUBSET Nat /\ R # {} /\ peak \in Nat /\ \A n \in R : n <= peak
    BY <1>1 DEF Board
  <1>3. PICK m \in R : \A n \in R : m <= n
    <2> HIDE DEF R
    <2> QED BY <1>2, LeastExists
  <1>4. PICK g \in R : \A n \in R : n <= g
    <2> HIDE DEF R
    <2> QED BY <1>2, GreatestExists
  <1> QED BY <1>3, <1>4

-----------------------------------------------------------------------------
(* get_move_space_size()                                                   *)

(* How far an interval can move: as far as the peak, or as those above it. *)
SpaceTo(f, j) ==
    {peak - end_of(j)} \cup {f[k] + addr[k] - end_of(j) : k \in move_conflict[j]}

LEMMA SpaceToTyped ==
    ASSUME Prepared, Board, NEW f \in [Placed -> Nat], NEW j \in Placed
    PROVE  LET T == SpaceTo(f, j)
           IN  T \in SUBSET Nat /\ Min(T) \in T /\ \A n \in T : Min(T) <= n
  <1> DEFINE T == SpaceTo(f, j)
  <1>1. peak - end_of(j) \in Nat
    BY BoardTyped DEF Board
  <1>2. ASSUME NEW k \in move_conflict[j] PROVE f[k] + addr[k] - end_of(j) \in Nat
    <2>1. k \in Placed /\ end_of(j) <= addr[k] /\ addr[k] \in Nat /\ end_of(j) \in Nat
      BY BoardTyped
    <2>2. f[k] \in Nat
      BY <2>1
    <2> QED BY <2>1, <2>2
  <1>3. T \in SUBSET Nat /\ T # {}
    BY <1>1, <1>2 DEF SpaceTo
  <1> HIDE DEF T
  <1>4. Min(T) \in T /\ \A n \in T : Min(T) <= n
    BY <1>3, LeastIs
  <1> QED BY <1>3, <1>4 DEF T

LEMMA SpaceIs ==
    ASSUME Prepared, Board
    PROVE  \A j \in Placed :
             /\ space_above(j) \in Nat /\ space_above(j) <= peak - end_of(j)
             /\ \A k \in move_conflict[j] : space_above(j) <= space_above(k) + addr[k] - end_of(j)
             /\ \/ space_above(j) = peak - end_of(j)
                \/ \E k \in move_conflict[j] : space_above(j) = space_above(k) + addr[k] - end_of(j)
  <1> DEFINE G == [f \in [Placed -> Nat] |-> [j \in Placed |-> Min(SpaceTo(f, j))]]
             rank == [j \in Placed |-> peak - addr[j]]
  <1>1. G \in [[Placed -> Nat] -> [Placed -> Nat]]
    <2>1. \A f \in [Placed -> Nat] : \A j \in Placed : Min(SpaceTo(f, j)) \in Nat
      BY SpaceToTyped
    <2> QED BY <2>1
  <1>2. rank \in [Placed -> Nat] /\ \A j \in Placed : rank[j] < peak + 1
    <2>1. \A j \in Placed : peak - addr[j] \in Nat /\ peak - addr[j] < peak + 1
      BY BoardTyped DEF Board
    <2> QED BY <2>1
  <1>3. ASSUME NEW f, NEW g, NEW j \in Placed,
               \A k \in Placed : addr[j] < addr[k] => f[k] = g[k]
        PROVE  SpaceTo(f, j) = SpaceTo(g, j)
    <2>1. \A k \in move_conflict[j] : f[k] = g[k]
      BY <1>3, BoardTyped
    <2>2. {f[k] + addr[k] - end_of(j) : k \in move_conflict[j]}
            = {g[k] + addr[k] - end_of(j) : k \in move_conflict[j]}
      BY <2>1
    <2> QED BY <2>2 DEF SpaceTo
  <1>4. \A f, g \in [Placed -> Nat] : \A j \in Placed :
            (\A k \in Placed : rank[k] < rank[j] => f[k] = g[k]) => G[f][j] = G[g][j]
    <2> SUFFICES ASSUME NEW f \in [Placed -> Nat], NEW g \in [Placed -> Nat], NEW j \in Placed,
                        \A k \in Placed : rank[k] < rank[j] => f[k] = g[k]
                 PROVE  G[f][j] = G[g][j]
      OBVIOUS
    <2>1. \A k \in Placed : addr[j] < addr[k] => rank[k] < rank[j]
      <3> SUFFICES ASSUME NEW k \in Placed, addr[j] < addr[k] PROVE peak - addr[k] < peak - addr[j]
        OBVIOUS
      <3>1. peak \in Nat /\ addr[j] \in Nat /\ addr[k] \in Nat
        BY BoardTyped DEF Board
      <3> QED BY <3>1
    <2>2. SpaceTo(f, j) = SpaceTo(g, j)
      BY <2>1, <1>3
    <2> QED BY <2>2
  <1>5. PICK f \in [Placed -> Nat] : f = G[f]
    <2> HIDE DEF G, rank
    <2>1. LooksBelow(Placed, Nat, rank, peak + 1, G)
      <3>1. peak + 1 \in Nat /\ Nat # {}
        BY DEF Board
      <3> QED BY <1>1, <1>2, <1>4, <3>1 DEF LooksBelow
    <2> QED BY <2>1, FixedPoint
  <1>6. f = [j \in Placed |-> Min(SpaceTo(f, j))]
    BY <1>5
  <1> DEFINE h == CHOOSE x : x = [j \in Placed |-> Min(SpaceTo(x, j))]
  <1>7. h = [j \in Placed |-> Min(SpaceTo(h, j))]
    BY <1>6, Zenon
  <1>8. \A j : space_above(j) = h[j]
    BY DEF space_above, SpaceTo
  <1> HIDE DEF h, G
  <1>9. \A j \in Placed : h[j] = f[j]
    <2> DEFINE D == {j \in Placed : h[j] # f[j]}
    <2>1. SUFFICES ASSUME D # {} PROVE FALSE
      OBVIOUS
    <2>2. PICK j \in D : \A k \in D : addr[k] <= addr[j]
      <3>1. D \in SUBSET Placed
        OBVIOUS
      <3> HIDE DEF D
      <3> QED BY <2>1, <3>1, LowestExists
    <2>3. \A k \in Placed : addr[j] < addr[k] => h[k] = f[k]
      <3> SUFFICES ASSUME NEW k \in Placed, addr[j] < addr[k], h[k] # f[k] PROVE FALSE
        OBVIOUS
      <3>1. addr[k] <= addr[j]
        BY <2>2
      <3>2. addr[k] \in Nat /\ addr[j] \in Nat
        BY BoardTyped
      <3> QED BY <3>1, <3>2
    <2>4. SpaceTo(h, j) = SpaceTo(f, j)
      BY <2>3, <1>3
    <2>5. h[j] = Min(SpaceTo(h, j)) /\ f[j] = Min(SpaceTo(f, j))
      BY <1>6, <1>7
    <2> QED BY <2>2, <2>4, <2>5
  <1> SUFFICES ASSUME NEW j \in Placed
               PROVE  /\ f[j] \in Nat /\ f[j] <= peak - end_of(j)
                      /\ \A k \in move_conflict[j] : f[j] <= f[k] + addr[k] - end_of(j)
                      /\ \/ f[j] = peak - end_of(j)
                         \/ \E k \in move_conflict[j] : f[j] = f[k] + addr[k] - end_of(j)
    <2>1. \A j \in Placed : space_above(j) = f[j] /\ move_conflict[j] \in SUBSET Placed
      BY <1>8, <1>9, BoardTyped
    <2>2. \A j \in Placed : \A k \in move_conflict[j] : space_above(k) = f[k]
      BY <2>1
    <2> QED BY <2>1, <2>2
  <1> DEFINE T == SpaceTo(f, j)
  <1>10. f[j] = Min(T)
    BY <1>6
  <1>11. Min(T) \in T /\ \A n \in T : Min(T) <= n
    BY SpaceToTyped
  <1>12. f[j] \in T /\ \A n \in T : f[j] <= n
    BY <1>10, <1>11
  <1> QED BY <1>12 DEF SpaceTo

-----------------------------------------------------------------------------
(* Who is moved, and how far                                               *)

(* m is where the intervals are once one of size s is put at a.            *)
Shifted(C, a, s, m) ==
    /\ m \in [Placed -> Nat]
    /\ \A i \in Placed : m[i] >= addr[i]
    /\ \A i \in C : end_of(i) > a => m[i] >= a + s
    /\ \A i \in Placed : m[i] > addr[i] => \A j \in move_conflict[i] : m[i] + size(i) <= m[j]
    /\ \A i \in Placed : m[i] > addr[i] =>
         \/ i \in C /\ end_of(i) > a /\ m[i] = a + s
         \/ \E j \in Placed : i \in move_conflict[j] /\ m[j] > addr[j] /\ m[i] = m[j] + size(j)

LEMMA MovedShifts ==
    ASSUME Prepared, Board, NEW C \in SUBSET Placed, NEW a \in Nat, NEW s \in Nat
    PROVE  Shifted(C, a, s, moved(C, a, s))
  <1>1. PICK m : m = moved(C, a, s)
    OBVIOUS
  <1>2. m \in [Placed -> Nat] /\ \A i \in Placed : m[i] = Max(PushedTo(C, a, s, m, i))
    BY <1>1, MovedIs
  <1>3. \A i \in Placed : /\ m[i] \in PushedTo(C, a, s, m, i)
                          /\ \A n \in PushedTo(C, a, s, m, i) : n <= m[i]
    BY <1>2, PushedToTyped
  <1>4. \A i \in Placed : m[i] \in Nat /\ addr[i] \in Nat
    BY <1>2, BoardTyped
  <1>5. \A i \in Placed : m[i] >= addr[i]
    <2>1. \A i \in Placed : addr[i] \in PushedTo(C, a, s, m, i)
      BY DEF PushedTo
    <2>2. \A i \in Placed : addr[i] <= m[i]
      BY <1>3, <2>1
    <2> QED BY <1>4, <2>2
  <1>6. ASSUME NEW i \in C, end_of(i) > a PROVE m[i] >= a + s
    <2>1. a + s \in PushedTo(C, a, s, m, i)
      BY <1>6 DEF PushedTo
    <2>2. a + s <= m[i]
      BY <1>3, <2>1
    <2> QED BY <1>4, <2>2
  <1>7. ASSUME NEW i \in Placed, m[i] > addr[i], NEW j \in move_conflict[i]
        PROVE  m[i] + size(i) <= m[j]
    <2>1. j \in Placed
      BY BoardTyped
    <2>2. i \in Pushers(m, j)
      BY <1>7 DEF Pushers
    <2>3. m[i] + size(i) \in PushedTo(C, a, s, m, j)
      BY <2>2 DEF PushedTo
    <2> QED BY <1>3, <2>1, <2>3
  <1>8. ASSUME NEW i \in Placed, m[i] > addr[i]
        PROVE  \/ i \in C /\ end_of(i) > a /\ m[i] = a + s
               \/ \E j \in Placed : i \in move_conflict[j] /\ m[j] > addr[j] /\ m[i] = m[j] + size(j)
    <2>1. m[i] \in PushedTo(C, a, s, m, i) /\ m[i] # addr[i]
      BY <1>3, <1>4, <1>8
    <2> QED BY <2>1 DEF PushedTo, Pushers
  <1>9. Shifted(C, a, s, m)
    BY <1>2, <1>5, <1>6, <1>7, <1>8 DEF Shifted
  <1> QED BY <1>1, <1>9

(* The one at the bottom of a chain of pushes is pushed by the new one: all *)
(* others end beyond it.                                                   *)
LEMMA PushedBeyond ==
    ASSUME Prepared, Board, NEW C \in SUBSET Placed, NEW a \in Nat, NEW s \in Nat, NEW m,
           Shifted(C, a, s, m)
    PROVE  \A i \in Placed : m[i] > addr[i] => m[i] >= a + s
  <1> DEFINE D == {i \in Placed : m[i] > addr[i] /\ ~(m[i] >= a + s)}
  <1>1. SUFFICES ASSUME D # {} PROVE FALSE
    OBVIOUS
  <1>2. PICK i \in D : \A j \in D : addr[i] <= addr[j]
    <2>1. D \in SUBSET Placed
      OBVIOUS
    <2> HIDE DEF D
    <2> QED BY <1>1, <2>1, LowestExists
  <1>3. i \in Placed /\ m[i] > addr[i] /\ ~(m[i] >= a + s)
    BY <1>2
  <1>4. \A j \in Placed : addr[j] \in Nat /\ size(j) \in Nat /\ m[j] \in Nat
    BY BoardTyped DEF Shifted
  <1>5. PICK j \in Placed : i \in move_conflict[j] /\ m[j] > addr[j] /\ m[i] = m[j] + size(j)
    <2>1. m[i] # a + s
      BY <1>3, <1>4
    <2> QED BY <1>3, <2>1 DEF Shifted
  <1>6. addr[j] < addr[i]
    BY <1>5, BoardTyped
  <1>7. j \in D
    <2>1. ~(m[j] >= a + s)
      BY <1>3, <1>4, <1>5
    <2> QED BY <1>5, <2>1
  <1> QED BY <1>2, <1>4, <1>6, <1>7

LEMMA ShiftedAligned ==
    ASSUME Prepared, Board, NEW C \in SUBSET Placed, NEW a \in Nat, NEW s \in Nat, NEW m,
           Shifted(C, a, s, m), a % alignment = 0, s % alignment = 0
    PROVE  \A i \in Placed : m[i] % alignment = 0
  <1> DEFINE D == {i \in Placed : m[i] % alignment # 0}
  <1>1. SUFFICES ASSUME D # {} PROVE FALSE
    OBVIOUS
  <1>2. PICK i \in D : \A j \in D : addr[i] <= addr[j]
    <2>1. D \in SUBSET Placed
      OBVIOUS
    <2> HIDE DEF D
    <2> QED BY <1>1, <2>1, LowestExists
  <1>3. \A j \in Placed : /\ addr[j] \in Nat /\ size(j) \in Nat /\ m[j] \in Nat
                          /\ addr[j] % alignment = 0 /\ size(j) % alignment = 0
    BY BoardTyped, SizeAligned DEF Shifted, Board
  <1>4. alignment \in Nat \ {0}
    BY DEF Board
  <1>5. m[i] % alignment = 0
    <2>1. CASE m[i] = addr[i]
      BY <2>1, <1>3
    <2>2. CASE i \in C /\ end_of(i) > a /\ m[i] = a + s
      BY <2>2, <1>4, AlignedSum
    <2>3. CASE \E j \in Placed : i \in move_conflict[j] /\ m[j] > addr[j] /\ m[i] = m[j] + size(j)
      <3>1. PICK j \in Placed : i \in move_conflict[j] /\ m[i] = m[j] + size(j)
        BY <2>3
      <3>2. addr[j] < addr[i]
        BY <3>1, BoardTyped
      <3>3. m[j] % alignment = 0
        BY <1>2, <1>3, <3>2
      <3>4. (m[j] + size(j)) % alignment = 0
        BY <1>3, <1>4, <3>3, AlignedSum
      <3> QED BY <3>1, <3>4
    <2>4. m[i] = addr[i] \/ m[i] > addr[i]
      BY <1>3 DEF Shifted
    <2> QED BY <2>1, <2>2, <2>3, <2>4 DEF Shifted
  <1> QED BY <1>2, <1>5

-----------------------------------------------------------------------------
(* insert_interval() keeps the board, wherever it puts the interval        *)

Met(r) == {i \in Placed : meet(i, r)}
PutAt(m, r, a) == [[i \in Ids |-> IF i \in Placed THEN m[i] ELSE addr[i]] EXCEPT ![r] = a]

(* The new interval r is at a, the others where they have been moved to.   *)
Put(r, a, f) ==
    /\ r \in todo /\ a \in Nat /\ a % alignment = 0
    /\ f = PutAt(moved(Met(r), a, size(r)), r, a)

LEMMA PutTyped ==
    ASSUME Prepared, Board, NEW r, NEW a, NEW f, Put(r, a, f)
    PROVE  /\ r \in Ids /\ r \notin Placed /\ f[r] = a /\ a \in Nat
           /\ Met(r) \in SUBSET Placed /\ size(r) \in Nat /\ size(r) # 0
           /\ \E m : Shifted(Met(r), a, size(r), m) /\ \A i \in Placed : f[i] = m[i]
           /\ \A i \in Placed : f[i] \in Nat /\ f[i] >= addr[i]
           /\ \A i \in Placed \cup {r} : f[i] \in Nat /\ f[i] % alignment = 0
  <1>1. r \in todo /\ a \in Nat /\ a % alignment = 0
        /\ f = PutAt(moved(Met(r), a, size(r)), r, a)
    BY DEF Put
  <1>2. r \in Ids /\ r \notin Placed /\ Placed \in SUBSET Ids /\ Met(r) \in SUBSET Placed
    BY <1>1 DEF Board, Placed, Roots, Met
  <1>3. size(r) \in Nat /\ size(r) # 0 /\ size(r) % alignment = 0
    BY <1>2, SizeAligned
  <1> DEFINE m == moved(Met(r), a, size(r))
  <1>4. Shifted(Met(r), a, size(r), m)
    BY <1>1, <1>2, <1>3, MovedShifts
  <1>5. f[r] = a /\ \A i \in Placed : f[i] = m[i]
    BY <1>1, <1>2 DEF PutAt
  <1> HIDE DEF m
  <1>6. \A i \in Placed : m[i] \in Nat /\ m[i] >= addr[i]
    BY <1>4 DEF Shifted
  <1>7. \A i \in Placed : m[i] % alignment = 0
    <2>1. PICK C \in SUBSET Placed : C = Met(r)
      BY <1>2
    <2>2. PICK s \in Nat : s = size(r)
      BY <1>3
    <2>3. PICK b \in Nat : b = a
      BY <1>1
    <2>4. Shifted(C, b, s, m) /\ b % alignment = 0 /\ s % alignment = 0
      BY <1>1, <1>3, <1>4, <2>1, <2>2, <2>3
    <2> QED BY <2>4, ShiftedAligned
  <1> QED BY <1>1, <1>2, <1>3, <1>4, <1>5, <1>6, <1>7

LEMMA PutApart ==
    ASSUME Prepared, Board, NEW r, NEW a, NEW f, Put(r, a, f)
    PROVE  Apart(Met(r), r, f)
  <1>1. /\ r \in Ids /\ r \notin Placed /\ f[r] = a /\ a \in Nat
        /\ Met(r) \in SUBSET Placed /\ size(r) \in Nat /\ size(r) # 0
    BY PutTyped
  <1>2. PICK m : Shifted(Met(r), a, size(r), m) /\ \A i \in Placed : f[i] = m[i]
    BY PutTyped
  <1> SUFFICES ASSUME NEW i \in Met(r)
               PROVE  IF f[i] < f[r] THEN f[i] + size(i) <= f[r] ELSE f[r] + size(r) <= f[i]
    BY DEF Apart
  <1>3. /\ i \in Placed /\ f[i] = m[i] /\ m[i] \in Nat /\ m[i] >= addr[i] /\ addr[i] \in Nat
        /\ size(i) \in Nat /\ size(i) # 0 /\ end_of(i) = addr[i] + size(i)
    BY <1>1, <1>2, BoardTyped DEF Shifted
  <1>4. CASE m[i] >= a + size(r)
    BY <1>1, <1>3, <1>4
  <1>5. CASE ~(m[i] >= a + size(r))
    <2>1. ~(end_of(i) > a)
      BY <1>2, <1>5 DEF Shifted
    <2>2. ~(m[i] > addr[i])
      BY <1>1, <1>2, <1>3, <1>5, PushedBeyond
    <2> QED BY <1>1, <1>3, <2>1, <2>2
  <1> QED BY <1>4, <1>5

(* The peak covers the new interval and those that moved, no more.         *)
LEMMA PeakAfter ==
    ASSUME Prepared, Board, NEW r, NEW a, NEW f, Put(r, a, f)
    PROVE  /\ peak_after(r, f) \in Nat /\ peak <= peak_after(r, f)
           /\ \A i \in Placed \cup {r} : f[i] + size(i) <= peak_after(r, f)
           /\ \/ peak_after(r, f) = peak
              \/ \E i \in Placed \cup {r} : peak_after(r, f) = f[i] + size(i)
  <1> DEFINE S == Placed \cup {r}
             T == {peak} \cup {f[i] + size(i) : i \in S}
  <1>1. S \in SUBSET Ids /\ peak \in Nat /\ \A i \in S : f[i] \in Nat /\ size(i) \in Nat
    BY PutTyped, BoardTyped DEF Board
  <1>2. PICK M \in Nat : \A i \in S : f[i] + size(i) <= M
    <2> DEFINE g == [j \in S |-> f[j] + size(j)]
    <2>1. \A j \in S : g[j] \in Nat
      BY <1>1
    <2>2. \E M \in Nat : \A j \in S : g[j] <= M
      <3> HIDE DEF g, S
      <3> QED BY <1>1, <2>1, ValuesBounded
    <2> QED BY <2>2
  <1>3. T \in SUBSET Nat /\ T # {}
    BY <1>1
  <1>4. \A n \in T : n <= M + peak
    BY <1>1, <1>2
  <1>5. M + peak \in Nat
    BY <1>1
  <1>6. peak_after(r, f) = Max(T)
    BY DEF peak_after
  <1>7. Max(T) \in T /\ \A n \in T : n <= Max(T)
    <2> HIDE DEF T
    <2> QED BY <1>3, <1>4, <1>5, GreatestExists
  <1>8. PICK p \in T : p = Max(T)
    BY <1>7
  <1>9. \A n \in T : n <= p
    BY <1>7, <1>8
  <1>10. p \in Nat
    BY <1>3, <1>8
  <1>11. peak <= p /\ (\A i \in S : f[i] + size(i) <= p) /\ (p = peak \/ \E i \in S : p = f[i] + size(i))
    BY <1>9
  <1> QED BY <1>6, <1>8, <1>10, <1>11

LEMMA PutKeepsBoard ==
    ASSUME Prepared, Board, NEW r, NEW a, NEW f, Put(r, a, f),
           addr' = f, peak' = peak_after(r, f), move_conflict' = Recorded(Met(r), r, f),
           todo' = todo \ {r}, UNCHANGED <<problem, links, time_end>>
    PROVE  Board'
  <1>1. /\ r \in Ids /\ r \notin Placed /\ f[r] = a /\ a \in Nat
        /\ Met(r) \in SUBSET Placed /\ size(r) \in Nat /\ size(r) # 0
        /\ \A i \in Placed : f[i] \in Nat /\ f[i] >= addr[i]
        /\ \A i \in Placed \cup {r} : f[i] \in Nat /\ f[i] % alignment = 0
    BY PutTyped
  <1>2. PICK m : Shifted(Met(r), a, size(r), m) /\ \A i \in Placed : f[i] = m[i]
    BY PutTyped
  <1>3. Apart(Met(r), r, f)
    BY PutApart
  <1>4. /\ peak' \in Nat /\ peak <= peak' /\ \A i \in Placed \cup {r} : f[i] + size(i) <= peak'
        /\ peak' = peak \/ \E i \in Placed \cup {r} : peak' = f[i] + size(i)
    BY PeakAfter
  <1>5. UNCHANGED <<itv, alignment, dest>> /\ Ids' = Ids /\ Roots' = Roots
    BY DEF problem, links, Ids, Roots, is_overwrite_root
  <1>6. Placed' = Placed \cup {r} /\ todo' \subseteq Roots /\ r \in Roots
    BY <1>5 DEF Placed, Put, Board
  <1>7. \A i : size(i)' = size(i)
    BY <1>5 DEF size, align
  <1>8. \A i : end_of(i)' = f[i] + size(i)
    BY <1>7 DEF end_of
  <1>9. \A i, j : meet(i, j)' = meet(i, j)
    BY <1>5 DEF meet
  <1>10. \A i \in Placed : /\ addr[i] \in Nat /\ size(i) \in Nat /\ size(i) # 0
                           /\ end_of(i) = addr[i] + size(i) /\ end_of(i) <= peak
                           /\ move_conflict[i] \in SUBSET Placed
                           /\ \A j \in move_conflict[i] : end_of(i) <= addr[j]
    BY BoardTyped
  <1>11. Placed \in SUBSET Ids
    BY BoardTyped
  <1> DEFINE rec == Recorded(Met(r), r, f)
  <1>12. /\ rec \in [Ids -> SUBSET (Placed \cup {r})]
         /\ rec[r] = {j \in Met(r) : f[j] >= f[r]}
         /\ \A i \in Placed : rec[i] = move_conflict[i] \cup {k \in {r} : i \in Met(r) /\ f[i] < f[r]}
    <2>1. move_conflict \in [Ids -> SUBSET Placed]
      BY DEF Board
    <2> QED BY <1>1, <1>11, <2>1 DEF Recorded
  <1> HIDE DEF rec
  <1>13. ASSUME NEW i \in Placed \cup {r}, NEW j \in rec[i]
         PROVE  f[i] + size(i) <= f[j]
    <2>1. CASE i = r
      <3>1. j \in Met(r) /\ f[j] >= f[r] /\ f[j] \in Nat /\ f[r] \in Nat
        BY <1>1, <1>12, <1>13, <2>1
      <3>2. f[r] + size(r) <= f[j]
        BY <1>3, <3>1 DEF Apart
      <3> QED BY <2>1, <3>2
    <2>2. CASE i \in Placed /\ j \in move_conflict[i]
      <3>1. j \in Placed /\ end_of(i) <= addr[j] /\ addr[j] \in Nat
        BY <1>10, <2>2
      <3>2. CASE m[i] > addr[i]
        BY <1>2, <2>2, <3>1, <3>2 DEF Shifted
      <3>3. CASE ~(m[i] > addr[i])
        <4>1. m[i] = addr[i] /\ m[j] >= addr[j] /\ m[j] \in Nat
          BY <1>1, <1>2, <1>10, <2>2, <3>1, <3>3
        <4> QED BY <1>2, <1>10, <2>2, <3>1, <4>1
      <3> QED BY <3>2, <3>3
    <2>3. CASE i \in Placed /\ j = r /\ i \in Met(r) /\ f[i] < f[r]
      BY <2>3, <1>3 DEF Apart
    <2> QED BY <2>1, <2>2, <2>3, <1>12, <1>13
  <1>14. ASSUME NEW i \in Placed \cup {r}, NEW j \in Placed \cup {r}, i # j, meet(i, j)
         PROVE  j \in rec[i] \/ i \in rec[j]
    <2>1. CASE i \in Placed /\ j \in Placed
      <3>1. j \in move_conflict[i] \/ i \in move_conflict[j]
        BY <1>14, <2>1 DEF Board
      <3> QED BY <2>1, <3>1, <1>12
    <2>2. \A x \in Placed : meet(x, r) => r \in rec[x] \/ x \in rec[r]
      <3> SUFFICES ASSUME NEW x \in Placed, meet(x, r) PROVE r \in rec[x] \/ x \in rec[r]
        OBVIOUS
      <3>1. x \in Met(r)
        BY DEF Met
      <3>2. f[x] < f[r] \/ f[x] >= f[r]
        BY <1>1
      <3> QED BY <3>1, <3>2, <1>12
    <2>3. meet(j, i)
      BY <1>14 DEF meet
    <2> QED BY <1>14, <2>1, <2>2, <2>3
  <1>15. \E i \in Placed \cup {r} : f[i] + size(i) = peak'
    <2>1. CASE peak' = peak
      <3>1. peak # 0
        BY <1>1, <1>4, <2>1
      <3>2. PICK i \in Placed : end_of(i) = peak
        BY <3>1 DEF Board
      <3>3. f[i] + size(i) >= peak
        BY <3>2, <1>1, <1>10
      <3>4. f[i] + size(i) <= peak'
        BY <1>4
      <3> QED BY <2>1, <3>3, <3>4, <1>1, <1>4, <1>10
    <2>2. CASE peak' # peak
      BY <2>2, <1>4
    <2> QED BY <2>1, <2>2
  <1>16. alignment \in Nat \ {0}
    BY DEF Board
  <1>17. \A i \in Placed \cup {r} : end_of(i)' <= peak'
    BY <1>4, <1>8
  <1>18. \A i \in Placed' : \A j \in move_conflict'[i] : end_of(i)' <= addr'[j]
    BY <1>6, <1>8, <1>13 DEF rec
  <1>19. \A i, j \in Placed' : i # j /\ meet(i, j)' => j \in move_conflict'[i] \/ i \in move_conflict'[j]
    BY <1>6, <1>9, <1>14 DEF rec
  <1>20. move_conflict' \in [Ids' -> SUBSET Placed']
    BY <1>5, <1>6, <1>12 DEF rec
  <1>21. \E i \in Placed' : end_of(i)' = peak'
    BY <1>6, <1>8, <1>15
  <1>22. Placed' # {} /\ \A i \in Placed' : addr'[i] \in Nat /\ addr'[i] % alignment' = 0
    BY <1>1, <1>5, <1>6
  <1> QED BY <1>4, <1>5, <1>6, <1>16, <1>17, <1>18, <1>19, <1>20, <1>21, <1>22 DEF Board

-----------------------------------------------------------------------------
(* find_best_fit() finds a chunk                                           *)

LEMMA ReachIs ==
    ASSUME Prepared, Board, NEW S \in SUBSET Placed
    PROVE  /\ reach(S) \in Nat /\ reach(S) % alignment = 0 /\ reach(S) <= peak
           /\ \A i \in S : end_of(i) <= reach(S)
  <1> DEFINE T == {0} \cup {end_of(i) : i \in S}
  <1>1. \A i \in S : end_of(i) \in Nat /\ end_of(i) <= peak /\ end_of(i) % alignment = 0
    BY BoardTyped
  <1>2. T \in SUBSET Nat /\ T # {} /\ peak \in Nat /\ \A n \in T : n <= peak
    BY <1>1 DEF Board
  <1>3. Max(T) \in T /\ \A n \in T : n <= Max(T)
    <2> HIDE DEF T
    <2> QED BY <1>2, GreatestExists
  <1>4. 0 % alignment = 0
    <2>1. PICK n \in Nat : n = alignment /\ n > 0
      BY DEF Board
    <2>2. 0 % n = 0
      BY <2>1
    <2> QED BY <2>1, <2>2
  <1>5. \A n \in T : n % alignment = 0
    BY <1>1, <1>4
  <1>6. reach(S) = Max(T)
    BY DEF reach
  <1> HIDE DEF T
  <1>7. reach(S) \in T /\ \A n \in T : n <= reach(S)
    BY <1>3, <1>6
  <1>8. reach(S) \in Nat /\ reach(S) % alignment = 0 /\ reach(S) <= peak
    BY <1>2, <1>5, <1>7
  <1>9. \A i \in S : end_of(i) <= reach(S)
    BY <1>7 DEF T
  <1> QED BY <1>8, <1>9

(* A free chunk begins at an aligned address and ends at the peak or lower; *)
(* the intervals it was found among are below it or above it.              *)
Chunk(C, c) ==
    /\ c = [begin |-> c.begin, end |-> c.end]
    /\ c.begin \in Nat /\ c.end \in Nat /\ c.begin % alignment = 0
    /\ c.begin <= c.end /\ c.end <= peak
    /\ \A i \in C : end_of(i) <= c.begin \/ c.end <= addr[i]

LEMMA ChunksFree ==
    ASSUME Prepared, Board, NEW C \in SUBSET Placed
    PROVE  free_chunks(C) # {} /\ \A c \in free_chunks(C) : Chunk(C, c)
  <1>1. [begin |-> reach(C), end |-> peak] \in free_chunks(C)
    BY DEF free_chunks
  <1>2. \A i \in Placed : /\ addr[i] \in Nat /\ end_of(i) \in Nat /\ addr[i] <= peak /\ i \in Nat
                          /\ end_of(i) <= peak
    <2>1. PICK N \in Nat : Ids = 1..N
      BY LenProperties DEF Prepared, ProblemOK, Ids
    <2>2. peak \in Nat
      BY DEF Board
    <2> QED BY <2>1, <2>2, BoardTyped
  <1> SUFFICES ASSUME NEW c \in free_chunks(C) PROVE Chunk(C, c)
    BY <1>1
  <1>3. CASE c = [begin |-> reach(C), end |-> peak]
    <2>1. c.begin = reach(C) /\ c.end = peak /\ c = [begin |-> c.begin, end |-> c.end]
      BY <1>3
    <2> HIDE <1>3
    <2>2. peak \in Nat
      BY DEF Board
    <2> QED BY <2>1, <2>2, ReachIs DEF Chunk
  <1>4. ASSUME NEW i \in C, reach_before(C, i) <= addr[i],
               c = [begin |-> reach_before(C, i), end |-> addr[i]]
        PROVE  Chunk(C, c)
    <2> DEFINE S == {j \in C : SortsBefore(j, i)}
    <2>1. c.begin = reach_before(C, i) /\ c.end = addr[i] /\ c = [begin |-> c.begin, end |-> c.end]
      BY <1>4
    <2>2. reach_before(C, i) = reach(S) /\ S \in SUBSET Placed
      BY DEF reach_before
    <2> HIDE DEF S
    <2>3. /\ reach(S) \in Nat /\ reach(S) % alignment = 0
          /\ \A j \in S : end_of(j) <= reach(S)
      BY <2>2, ReachIs
    <2>4. ASSUME NEW j \in C PROVE end_of(j) <= reach(S) \/ addr[i] <= addr[j]
      <3>1. CASE SortsBefore(j, i)
        BY <2>3, <3>1 DEF S
      <3>2. CASE ~SortsBefore(j, i)
        <4>1. ~(addr[j] < addr[i])
          BY <3>2 DEF SortsBefore
        <4> QED BY <1>2, <4>1
      <3> QED BY <3>1, <3>2
    <2>5. addr[i] \in Nat /\ addr[i] <= peak /\ reach(S) <= addr[i]
      BY <1>2, <1>4, <2>2
    <2> QED BY <2>1, <2>2, <2>3, <2>4, <2>5 DEF Chunk
  <1> QED BY <1>3, <1>4 DEF free_chunks

LEMMA LeastKey ==
    ASSUME NEW T, T # {}, NEW g, \A c \in T : g[c] \in Nat
    PROVE  \E c \in T : \A d \in T : g[c] <= g[d]
  <1> DEFINE R == {g[c] : c \in T}
  <1>1. R \in SUBSET Nat /\ R # {}
    OBVIOUS
  <1>2. PICK m \in R : \A n \in R : m <= n
    <2> HIDE DEF R
    <2> QED BY <1>1, LeastExists
  <1> QED BY <1>2

(* Of things with four numbers each, one is least in the order of Less.    *)
LEMMA LeastOfFour ==
    ASSUME NEW T, T # {}, NEW k, \A c \in T : k[c] \in Nat \X Nat \X Nat \X Nat
    PROVE  \E c \in T : \A d \in T : k[c] = k[d] \/ Less(k[c], k[d])
  <1>1. \A c \in T : /\ k[c][1] \in Nat /\ k[c][2] \in Nat /\ k[c][3] \in Nat /\ k[c][4] \in Nat
                     /\ k[c] = <<k[c][1], k[c][2], k[c][3], k[c][4]>>
    OBVIOUS
  <1>2. PICK c1 \in T : \A d \in T : k[c1][1] <= k[d][1]
    <2> DEFINE g == [c \in T |-> k[c][1]]
    <2>1. \A c \in T : g[c] \in Nat
      BY <1>1
    <2>2. \E c \in T : \A d \in T : g[c] <= g[d]
      <3> HIDE DEF g
      <3> QED BY <2>1, LeastKey
    <2> QED BY <2>2
  <1> DEFINE T2 == {c \in T : k[c][1] = k[c1][1]}
  <1>3. PICK c2 \in T2 : \A d \in T2 : k[c2][2] <= k[d][2]
    <2> DEFINE g == [c \in T2 |-> k[c][2]]
    <2>1. (\A c \in T2 : g[c] \in Nat) /\ T2 # {}
      BY <1>1, <1>2
    <2>2. \E c \in T2 : \A d \in T2 : g[c] <= g[d]
      <3> HIDE DEF g, T2
      <3> QED BY <2>1, LeastKey
    <2> QED BY <2>2
  <1> DEFINE T3 == {c \in T2 : k[c][2] = k[c2][2]}
  <1>4. PICK c3 \in T3 : \A d \in T3 : k[c3][3] <= k[d][3]
    <2> DEFINE g == [c \in T3 |-> k[c][3]]
    <2>1. (\A c \in T3 : g[c] \in Nat) /\ T3 # {}
      BY <1>1, <1>3
    <2>2. \E c \in T3 : \A d \in T3 : g[c] <= g[d]
      <3> HIDE DEF g, T3
      <3> QED BY <2>1, LeastKey
    <2> QED BY <2>2
  <1> DEFINE T4 == {c \in T3 : k[c][3] = k[c3][3]}
  <1>5. PICK c4 \in T4 : \A d \in T4 : k[c4][4] <= k[d][4]
    <2> DEFINE g == [c \in T4 |-> k[c][4]]
    <2>1. (\A c \in T4 : g[c] \in Nat) /\ T4 # {}
      BY <1>1, <1>4
    <2>2. \E c \in T4 : \A d \in T4 : g[c] <= g[d]
      <3> HIDE DEF g, T4
      <3> QED BY <2>1, LeastKey
    <2> QED BY <2>2
  <1>6. c4 \in T /\ c4 \in T2 /\ c4 \in T3 /\ c4 \in T4
    OBVIOUS
  <1>7. /\ k[c4][1] = k[c1][1] /\ k[c4][2] = k[c2][2] /\ k[c4][3] = k[c3][3]
    OBVIOUS
  <1> SUFFICES ASSUME NEW d \in T PROVE k[c4] = k[d] \/ Less(k[c4], k[d])
    BY <1>6
  <1>8. CASE k[d][1] # k[c4][1]
    <2>1. k[c4][1] < k[d][1]
      BY <1>1, <1>2, <1>6, <1>7, <1>8
    <2> QED BY <2>1 DEF Less
  <1>9. CASE d \in T2 /\ k[d][2] # k[c4][2]
    <2>1. k[c4][1] = k[d][1] /\ k[c4][2] < k[d][2]
      BY <1>1, <1>3, <1>6, <1>7, <1>9
    <2> QED BY <2>1 DEF Less
  <1>10. CASE d \in T3 /\ k[d][3] # k[c4][3]
    <2>1. k[c4][1] = k[d][1] /\ k[c4][2] = k[d][2] /\ k[c4][3] < k[d][3]
      BY <1>1, <1>4, <1>6, <1>7, <1>10
    <2> QED BY <2>1 DEF Less
  <1>11. CASE d \in T4
    <2>1. /\ k[c4][1] = k[d][1] /\ k[c4][2] = k[d][2] /\ k[c4][3] = k[d][3]
          /\ k[c4][4] <= k[d][4]
      BY <1>5, <1>7, <1>11
    <2>2. CASE k[c4][4] = k[d][4]
      BY <1>1, <1>6, <2>1, <2>2
    <2>3. CASE k[c4][4] # k[d][4]
      <3>1. k[c4][4] < k[d][4]
        BY <1>1, <1>6, <2>1, <2>3
      <3> QED BY <2>1, <3>1 DEF Less
    <2> QED BY <2>2, <2>3
  <1> QED BY <1>7, <1>8, <1>9, <1>10, <1>11

(* The predicted growth is what the new interval or one of those above the *)
(* chunk needs beyond the peak.                                            *)
LEMMA PeakAddIs ==
    ASSUME Prepared, Board, NEW C \in SUBSET Placed, NEW c, Chunk(C, c), NEW s \in Nat
    PROVE  /\ peak_add(C, c, s) \in Nat
           /\ c.begin + s <= peak + peak_add(C, c, s)
           /\ \A i \in C : end_of(i) > c.begin =>
                c.begin + s <= addr[i] + space_above(i) + peak_add(C, c, s)
           /\ \/ peak_add(C, c, s) = 0 \/ peak + peak_add(C, c, s) = c.begin + s
              \/ \E i \in C : /\ end_of(i) > c.begin
                              /\ c.begin + s = addr[i] + space_above(i) + peak_add(C, c, s)
  <1>1. peak \in Nat /\ c.begin \in Nat /\ c.end \in Nat /\ c.end <= peak
    BY DEF Board, Chunk
  <1>2. \A i \in C : addr[i] \in Nat /\ space_above(i) \in Nat
    BY BoardTyped, SpaceIs
  <1>3. PICK top \in Nat : top = Max({c.begin + s, peak}) /\ c.begin + s <= top /\ peak <= top
                           /\ top \in {c.begin + s, peak}
    <2> DEFINE U == {c.begin + s, peak}
    <2>1. U \in SUBSET Nat /\ U # {} /\ c.begin + s + peak \in Nat
          /\ \A n \in U : n <= c.begin + s + peak
      BY <1>1
    <2>2. Max(U) \in U /\ \A n \in U : n <= Max(U)
      <3> HIDE DEF U
      <3> QED BY <2>1, GreatestExists
    <2>3. PICK top \in U : top = Max(U) /\ \A n \in U : n <= top
      BY <2>2
    <2> QED BY <2>1, <2>3
  <1> DEFINE v(i) == Lacks(c, s) - (addr[i] - c.end + space_above(i))
             T == {top - peak} \cup {v(i) : i \in {j \in C : end_of(j) > c.begin}}
  <1>4. \A i \in C : v(i) \in Int /\ v(i) = c.begin + s - addr[i] - space_above(i)
    BY <1>1, <1>2 DEF Lacks
  <1>5. \A i \in C : v(i) <= c.begin + s
    BY <1>1, <1>2, <1>4
  <1>6. peak_add(C, c, s) = Max(T)
    BY <1>3 DEF peak_add
  <1> HIDE DEF v
  <1>7. /\ T \in SUBSET Int /\ top - peak \in T /\ top - peak >= 0
        /\ c.begin + s + top \in Nat /\ \A n \in T : n <= c.begin + s + top
    BY <1>1, <1>3, <1>4, <1>5
  <1>8. Max(T) \in T /\ Max(T) \in Nat /\ \A n \in T : n <= Max(T)
    <2> HIDE DEF T
    <2> QED BY <1>7, GreatestInteger
  <1>9. PICK p \in Nat : p = peak_add(C, c, s) /\ p \in T /\ \A n \in T : n <= p
    BY <1>6, <1>8
  <1>10. c.begin + s <= peak + p
    <2>1. top - peak <= p
      BY <1>9
    <2> QED BY <2>1, <1>1, <1>3
  <1>11. ASSUME NEW i \in C, end_of(i) > c.begin PROVE c.begin + s <= addr[i] + space_above(i) + p
    <2>1. v(i) <= p
      BY <1>9, <1>11
    <2> QED BY <2>1, <1>1, <1>2, <1>4
  <1>12. \/ p = 0 \/ peak + p = c.begin + s
         \/ \E i \in C : end_of(i) > c.begin /\ c.begin + s = addr[i] + space_above(i) + p
    <2>1. CASE p = top - peak
      BY <2>1, <1>1, <1>3
    <2>2. CASE \E i \in C : end_of(i) > c.begin /\ p = v(i)
      <3>1. PICK i \in C : end_of(i) > c.begin /\ p = v(i)
        BY <2>2
      <3>2. c.begin + s = addr[i] + space_above(i) + p
        BY <3>1, <1>1, <1>2, <1>4
      <3> QED BY <3>1, <3>2
    <2> QED BY <2>1, <2>2, <1>9
  <1> QED BY <1>9, <1>10, <1>11, <1>12

(* Chunks that cost the same are the same, so that one is the best.        *)
LEMMA BestIsChunk ==
    ASSUME Prepared, Board, NEW C \in SUBSET Placed, NEW s \in Nat
    PROVE  \E c : /\ c \in free_chunks(C) /\ Chunk(C, c)
                  /\ find_best_fit(C, s).addr = c.begin
                  /\ find_best_fit(C, s).peak_incr = IF Fits(c, s) THEN 0 ELSE peak_add(C, c, s)
                  /\ find_best_fit(C, s).ok
  <1>1. free_chunks(C) # {} /\ \A c \in free_chunks(C) : Chunk(C, c)
    BY ChunksFree
  <1> DEFINE k == [c \in free_chunks(C) |-> Cost(C, c, s)]
  <1>2. \A c \in free_chunks(C) : k[c] \in Nat \X Nat \X Nat \X Nat
    <2> SUFFICES ASSUME NEW c \in free_chunks(C) PROVE k[c] \in Nat \X Nat \X Nat \X Nat
      OBVIOUS
    <2>1. Chunk(C, c)
      BY <1>1
    <2>2. c.begin \in Nat /\ c.end \in Nat /\ c.begin <= c.end /\ peak_add(C, c, s) \in Nat
      BY <2>1, PeakAddIs DEF Chunk
    <2>3. CASE Fits(c, s)
      <3>1. (c.end - c.begin) - s \in Nat
        BY <2>2, <2>3 DEF Fits
      <3> QED BY <2>2, <2>3, <3>1 DEF Cost
    <2>4. CASE ~Fits(c, s)
      <3>1. Lacks(c, s) \in Nat
        BY <2>2, <2>4 DEF Fits, Lacks
      <3> QED BY <2>2, <2>4, <3>1 DEF Cost
    <2> QED BY <2>3, <2>4
  <1>3. ASSUME NEW c \in free_chunks(C), NEW d \in free_chunks(C), k[c] = k[d]
        PROVE  c = d
    <2>1. Chunk(C, c) /\ Chunk(C, d)
      BY <1>1
    <2>2. c.begin = d.begin
      BY <1>3 DEF Cost
    <2>3. Fits(c, s) <=> Fits(d, s)
      BY <1>3 DEF Cost
    <2>4. c.end = d.end
      <3>0. PICK x \in Nat, y \in Nat, z \in Nat : x = c.begin /\ x = d.begin /\ y = c.end /\ z = d.end
        BY <2>1, <2>2 DEF Chunk
      <3>1. CASE Fits(c, s)
        <4>1. (c.end - c.begin) - s = (d.end - d.begin) - s
          BY <1>3, <2>3, <3>1 DEF Cost
        <4>2. (y - x) - s = (z - x) - s
          BY <3>0, <4>1
        <4> QED BY <3>0, <4>2
      <3>2. CASE ~Fits(c, s)
        <4>1. Lacks(c, s) = Lacks(d, s)
          BY <1>3, <2>3, <3>2 DEF Cost
        <4>2. s - (y - x) = s - (z - x)
          BY <3>0, <4>1 DEF Lacks
        <4> QED BY <3>0, <4>2
      <3> QED BY <3>1, <3>2
    <2> QED BY <2>1, <2>2, <2>4 DEF Chunk
  <1>4. PICK b \in free_chunks(C) : \A d \in free_chunks(C) : k[b] = k[d] \/ Less(k[b], k[d])
    <2> HIDE DEF k
    <2> QED BY <1>1, <1>2, LeastOfFour
  <1>5. IsBest(C, b, s)
    BY <1>3, <1>4 DEF IsBest
  <1> DEFINE best == CHOOSE c \in free_chunks(C) : IsBest(C, c, s)
  <1>6. best \in free_chunks(C)
    BY <1>5
  <1>7. /\ find_best_fit(C, s).addr = best.begin
        /\ find_best_fit(C, s).peak_incr = Cost(C, best, s)[2]
        /\ find_best_fit(C, s).ok =
             \A c \in free_chunks(C) :
               /\ c.begin <= c.end
               /\ ~Fits(c, s) => \A i \in C : end_of(i) <= c.begin \/ c.end <= addr[i]
    BY DEF find_best_fit, address
  <1> HIDE DEF best
  <1>8. find_best_fit(C, s).ok
    BY <1>1, <1>7 DEF Chunk
  <1>9. Cost(C, best, s)[2] = IF Fits(best, s) THEN 0 ELSE peak_add(C, best, s)
    BY DEF Cost
  <1> QED BY <1>1, <1>6, <1>7, <1>8, <1>9

-----------------------------------------------------------------------------
(* The peak grows as predicted (interval_move.cpp:98)                      *)

(* An interval placed in a chunk that is large enough moves nobody.        *)
LEMMA FittingMovesNone ==
    ASSUME Prepared, Board, NEW C \in SUBSET Placed, NEW c, Chunk(C, c), NEW s \in Nat, Fits(c, s),
           NEW m, Shifted(C, c.begin, s, m)
    PROVE  \A i \in Placed : m[i] = addr[i]
  <1> DEFINE D == {i \in Placed : m[i] > addr[i]}
  <1>1. \A i \in Placed : m[i] \in Nat /\ addr[i] \in Nat /\ m[i] >= addr[i]
    BY BoardTyped DEF Shifted
  <1>2. SUFFICES ASSUME D # {} PROVE FALSE
    BY <1>1
  <1>3. PICK i \in D : \A j \in D : addr[i] <= addr[j]
    <2>1. D \in SUBSET Placed
      OBVIOUS
    <2> HIDE DEF D
    <2> QED BY <1>2, <2>1, LowestExists
  <1>4. i \in Placed /\ m[i] > addr[i]
    BY <1>3
  <1>5. CASE i \in C /\ end_of(i) > c.begin /\ m[i] = c.begin + s
    <2>1. c.end <= addr[i] /\ c.begin \in Nat /\ c.end \in Nat
      BY <1>4, <1>5, BoardTyped DEF Chunk
    <2>2. c.end - c.begin >= s
      BY DEF Fits
    <2> QED BY <1>1, <1>4, <1>5, <2>1, <2>2
  <1>6. CASE \E j \in Placed : i \in move_conflict[j] /\ m[j] > addr[j] /\ m[i] = m[j] + size(j)
    <2>1. PICK j \in Placed : i \in move_conflict[j] /\ m[j] > addr[j]
      BY <1>6
    <2>2. addr[j] < addr[i] /\ j \in D
      BY <2>1, BoardTyped
    <2>3. addr[i] <= addr[j]
      BY <1>3, <2>2
    <2> QED BY <1>1, <1>4, <2>1, <2>2, <2>3
  <1> QED BY <1>4, <1>5, <1>6 DEF Shifted

(* No interval moves further beyond its space than the predicted growth.   *)
LEMMA GrowthEnough ==
    ASSUME Prepared, Board, NEW C \in SUBSET Placed, NEW c, Chunk(C, c), NEW s \in Nat,
           NEW m, Shifted(C, c.begin, s, m)
    PROVE  \A i \in Placed : m[i] + size(i) <= peak + peak_add(C, c, s)
  <1>1. PICK p \in Nat : p = peak_add(C, c, s)
    BY PeakAddIs
  <1>2. \A i \in Placed : /\ m[i] \in Nat /\ addr[i] \in Nat /\ m[i] >= addr[i]
                          /\ size(i) \in Nat /\ end_of(i) = addr[i] + size(i) /\ end_of(i) <= peak
                          /\ space_above(i) \in Nat /\ space_above(i) <= peak - end_of(i)
    BY BoardTyped, SpaceIs DEF Shifted
  <1>3. peak \in Nat /\ c.begin \in Nat
    BY DEF Board, Chunk
  <1> DEFINE D == {i \in Placed : m[i] > addr[i] /\ ~(m[i] <= addr[i] + space_above(i) + p)}
  <1>4. D = {}
    <2>1. SUFFICES ASSUME D # {} PROVE FALSE
      OBVIOUS
    <2>2. PICK i \in D : \A j \in D : addr[i] <= addr[j]
      <3>1. D \in SUBSET Placed
        OBVIOUS
      <3> HIDE DEF D
      <3> QED BY <2>1, <3>1, LowestExists
    <2>3. i \in Placed /\ m[i] > addr[i] /\ ~(m[i] <= addr[i] + space_above(i) + p)
      BY <2>2
    <2>4. CASE i \in C /\ end_of(i) > c.begin /\ m[i] = c.begin + s
      <3>1. c.begin + s <= addr[i] + space_above(i) + p
        BY <1>1, <2>4, PeakAddIs
      <3> QED BY <2>3, <2>4, <3>1
    <2>5. CASE \E j \in Placed : i \in move_conflict[j] /\ m[j] > addr[j] /\ m[i] = m[j] + size(j)
      <3>1. PICK j \in Placed : i \in move_conflict[j] /\ m[j] > addr[j] /\ m[i] = m[j] + size(j)
        BY <2>5
      <3>2. addr[j] < addr[i]
        BY <3>1, BoardTyped
      <3>3. j \notin D
        BY <1>2, <2>2, <2>3, <3>1, <3>2
      <3>4. m[j] <= addr[j] + space_above(j) + p
        BY <3>1, <3>3
      <3>5. space_above(j) <= space_above(i) + addr[i] - end_of(j)
        BY <3>1, SpaceIs
      <3>6. /\ m[i] \in Nat /\ m[j] \in Nat /\ addr[i] \in Nat /\ addr[j] \in Nat /\ size(j) \in Nat
            /\ space_above(i) \in Nat /\ space_above(j) \in Nat /\ end_of(j) = addr[j] + size(j)
        BY <1>2, <2>3, <3>1
      <3>7. m[i] <= addr[i] + space_above(i) + p
        BY <3>1, <3>4, <3>5, <3>6
      <3> QED BY <2>3, <3>7
    <2> QED BY <2>3, <2>4, <2>5 DEF Shifted
  <1>5. ASSUME NEW i \in Placed PROVE m[i] + size(i) <= peak + p
    <2>1. m[i] <= addr[i] + space_above(i) + p
      BY <1>2, <1>4, <1>5
    <2> QED BY <2>1, <1>2, <1>3
  <1> QED BY <1>1, <1>5

(* What is pushed beyond its space pushes somebody beyond the peak.        *)
LEMMA GrowthNeeded ==
    ASSUME Prepared, Board, NEW C \in SUBSET Placed, NEW a \in Nat, NEW s \in Nat,
           NEW m, Shifted(C, a, s, m), NEW p \in Nat, p # 0,
           NEW i \in Placed, m[i] >= addr[i] + space_above(i) + p
    PROVE  \E k \in Placed : m[k] + size(k) >= peak + p
  <1> DEFINE D == {j \in Placed : m[j] >= addr[j] + space_above(j) + p}
  <1>1. D # {}
    OBVIOUS
  <1>2. PICK j \in D : \A k \in D : addr[k] <= addr[j]
    <2>1. D \in SUBSET Placed
      OBVIOUS
    <2> HIDE DEF D
    <2> QED BY <1>1, <2>1, LowestExists
  <1>3. \A k \in Placed : /\ m[k] \in Nat /\ addr[k] \in Nat /\ size(k) \in Nat
                          /\ end_of(k) = addr[k] + size(k) /\ space_above(k) \in Nat
    BY BoardTyped, SpaceIs DEF Shifted
  <1>4. j \in Placed /\ m[j] >= addr[j] + space_above(j) + p /\ m[j] > addr[j]
    <2>1. j \in Placed /\ m[j] >= addr[j] + space_above(j) + p
      BY <1>2
    <2> QED BY <2>1, <1>3
  <1>5. CASE space_above(j) = peak - end_of(j)
    <2>1. peak \in Nat
      BY DEF Board
    <2>2. m[j] + size(j) >= peak + p
      BY <1>3, <1>4, <1>5, <2>1
    <2> QED BY <1>4, <2>2
  <1>6. CASE \E k \in move_conflict[j] : space_above(j) = space_above(k) + addr[k] - end_of(j)
    <2>1. PICK k \in move_conflict[j] : space_above(j) = space_above(k) + addr[k] - end_of(j)
      BY <1>6
    <2>2. k \in Placed /\ addr[j] < addr[k]
      BY <1>4, BoardTyped
    <2>3. m[j] + size(j) <= m[k]
      BY <1>4 DEF Shifted
    <2>4. m[k] >= addr[k] + space_above(k) + p
      BY <1>3, <1>4, <2>1, <2>2, <2>3
    <2>5. addr[k] <= addr[j]
      BY <1>2, <2>2, <2>4
    <2> QED BY <1>3, <1>4, <2>2, <2>5
  <1> QED BY <1>4, <1>5, <1>6, SpaceIs

(* What an interval placed in a chunk adds to the peak.                    *)
LEMMA Predicted ==
    ASSUME Prepared, Board, NEW r, NEW f, NEW c, Chunk(Met(r), c), Put(r, c.begin, f)
    PROVE  peak_after(r, f)
             = peak + IF Fits(c, size(r)) THEN 0 ELSE peak_add(Met(r), c, size(r))
  <1>1. /\ r \in Ids /\ r \notin Placed /\ f[r] = c.begin /\ c.begin \in Nat
        /\ Met(r) \in SUBSET Placed /\ size(r) \in Nat
    BY PutTyped
  <1>2. PICK m : Shifted(Met(r), c.begin, size(r), m) /\ \A i \in Placed : f[i] = m[i]
    BY PutTyped
  <1>3. PICK top \in Nat :
          /\ top = peak_after(r, f) /\ peak <= top
          /\ \A i \in Placed \cup {r} : f[i] + size(i) <= top
          /\ top = peak \/ \E i \in Placed \cup {r} : top = f[i] + size(i)
    BY PeakAfter
  <1>4. peak \in Nat /\ c.end \in Nat /\ c.end <= peak
    BY DEF Board, Chunk
  <1>5. \A i \in Placed : /\ m[i] \in Nat /\ addr[i] \in Nat /\ size(i) \in Nat
                          /\ addr[i] + size(i) <= peak /\ space_above(i) \in Nat
    BY <1>2, BoardTyped, SpaceIs DEF Shifted
  <1>6. CASE Fits(c, size(r))
    <2>1. \A i \in Placed : m[i] = addr[i]
      BY <1>1, <1>2, <1>6, FittingMovesNone
    <2>2. \A i \in Placed : f[i] + size(i) <= peak
      BY <1>2, <1>5, <2>1
    <2>3. f[r] + size(r) <= peak
      BY <1>1, <1>4, <1>6 DEF Fits
    <2>4. top = peak
      BY <1>3, <1>4, <2>2, <2>3
    <2> QED BY <1>3, <1>4, <1>6, <2>4
  <1>7. CASE ~Fits(c, size(r))
    <2>1. PICK p \in Nat :
            /\ p = peak_add(Met(r), c, size(r))
            /\ c.begin + size(r) <= peak + p
            /\ \/ p = 0 \/ peak + p = c.begin + size(r)
               \/ \E i \in Met(r) : /\ end_of(i) > c.begin
                                    /\ c.begin + size(r) = addr[i] + space_above(i) + p
      <3>1. PICK p \in Nat : p = peak_add(Met(r), c, size(r))
        BY <1>1, PeakAddIs
      <3>2. c.begin + size(r) <= peak + p
        BY <1>1, <3>1, PeakAddIs
      <3>3. \/ p = 0 \/ peak + p = c.begin + size(r)
            \/ \E i \in Met(r) : /\ end_of(i) > c.begin
                                 /\ c.begin + size(r) = addr[i] + space_above(i) + p
        BY <1>1, <3>1, PeakAddIs
      <3> QED BY <3>1, <3>2, <3>3
    <2>2. \A i \in Placed : m[i] + size(i) <= peak + p
      BY <1>1, <1>2, <2>1, GrowthEnough
    <2>3. top <= peak + p
      BY <1>1, <1>2, <1>3, <1>4, <2>1, <2>2
    <2>4. peak + p <= top
      <3>1. CASE p = 0
        BY <1>3, <1>4, <3>1
      <3>2. CASE peak + p = c.begin + size(r)
        BY <1>1, <1>3, <3>2
      <3>3. ASSUME p # 0, NEW i \in Met(r), end_of(i) > c.begin,
                   c.begin + size(r) = addr[i] + space_above(i) + p
            PROVE  peak + p <= top
        <4>1. i \in Placed /\ m[i] >= c.begin + size(r)
          BY <1>1, <1>2, <3>3 DEF Shifted
        <4>2. m[i] >= addr[i] + space_above(i) + p
          BY <3>3, <4>1
        <4>3. PICK k \in Placed : m[k] + size(k) >= peak + p
          BY <1>1, <1>2, <3>3, <4>1, <4>2, GrowthNeeded
        <4>4. m[k] + size(k) <= top
          BY <1>2, <1>3
        <4> QED BY <1>3, <1>4, <1>5, <4>3, <4>4
      <3> QED BY <2>1, <3>1, <3>2, <3>3
    <2>5. top = peak + p
      BY <1>3, <1>4, <2>3, <2>4
    <2> QED BY <1>3, <1>7, <2>1, <2>5
  <1> QED BY <1>6, <1>7

(* The whole of insert_interval(): no assertion fails.                     *)
LEMMA InsertKeeps ==
    ASSUME Prepared, Board, NEW r, insert_interval(r)
    PROVE  /\ Board' /\ stage = "place" /\ stage' = "place"
           /\ \A i \in Ids : addr'[i] \in Nat \/ addr'[i] = addr[i]
           /\ DOMAIN addr' = Ids
           /\ UNCHANGED <<problem, links, lowerBound, time_end>>
  <1> DEFINE fit == IF Met(r) = {} THEN [addr |-> 0, peak_incr |-> 0, ok |-> TRUE]
                    ELSE find_best_fit(Met(r), size(r))
             f == PutAt(moved(Met(r), fit.addr, size(r)), r, fit.addr)
  <1>1. /\ stage = "place" /\ r \in todo
        /\ addr' = f /\ peak' = peak_after(r, f) /\ move_conflict' = Recorded(Met(r), r, f)
        /\ stage' = IF /\ fit.ok /\ Apart(Met(r), r, f)
                       /\ Met(r) # {} => peak' = peak + fit.peak_incr
                    THEN stage ELSE "abort"
        /\ todo' = todo \ {r} /\ UNCHANGED <<problem, links, lowerBound, time_end>>
    BY DEF insert_interval, CC_ASSERT, Met, PutAt
  <1>2. r \in Ids /\ Met(r) \in SUBSET Placed
    BY <1>1 DEF Board, Roots, Met
  <1>3. size(r) \in Nat
    BY <1>2, SizeAligned
  <1>4. fit.addr \in Nat /\ fit.addr % alignment = 0 /\ fit.ok
        /\ (Met(r) # {} => \E c : /\ Chunk(Met(r), c) /\ fit.addr = c.begin
                                  /\ fit.peak_incr = IF Fits(c, size(r)) THEN 0
                                                     ELSE peak_add(Met(r), c, size(r)))
    <2>1. CASE Met(r) = {}
      <3>1. fit.addr = 0 /\ fit.ok
        BY <2>1
      <3>2. PICK n \in Nat : n = alignment /\ n > 0
        BY DEF Board
      <3>3. 0 % n = 0
        BY <3>2
      <3> QED BY <2>1, <3>1, <3>2, <3>3
    <2>2. CASE Met(r) # {}
      <3>1. fit = find_best_fit(Met(r), size(r))
        BY <2>2
      <3>2. PICK c : /\ Chunk(Met(r), c)
                     /\ find_best_fit(Met(r), size(r)).addr = c.begin
                     /\ find_best_fit(Met(r), size(r)).peak_incr
                          = IF Fits(c, size(r)) THEN 0 ELSE peak_add(Met(r), c, size(r))
                     /\ find_best_fit(Met(r), size(r)).ok
        BY <1>2, <1>3, BestIsChunk
      <3>3. c.begin \in Nat /\ c.begin % alignment = 0
        BY <3>2 DEF Chunk
      <3> HIDE DEF fit
      <3> QED BY <3>1, <3>2, <3>3
    <2> QED BY <2>1, <2>2
  <1> HIDE DEF fit
  <1>5. Put(r, fit.addr, f)
    BY <1>1, <1>4 DEF Put
  <1> HIDE DEF f
  <1>6. Board' /\ Apart(Met(r), r, f)
    BY <1>1, <1>5, PutKeepsBoard, PutApart
  <1>7. ASSUME Met(r) # {} PROVE peak' = peak + fit.peak_incr
    <2>1. PICK c : /\ Chunk(Met(r), c) /\ fit.addr = c.begin
                   /\ fit.peak_incr = IF Fits(c, size(r)) THEN 0 ELSE peak_add(Met(r), c, size(r))
      BY <1>4, <1>7
    <2>2. Put(r, c.begin, f)
      BY <1>5, <2>1
    <2> QED BY <1>1, <2>1, <2>2, Predicted
  <1>8. stage' = "place"
    BY <1>1, <1>4, <1>6, <1>7
  <1>9. \A i \in Ids : addr'[i] \in Nat \/ addr'[i] = addr[i]
    <2>1. \A i \in Placed \cup {r} : f[i] \in Nat
      BY <1>5, PutTyped
    <2>2. \A i \in Ids : i \notin Placed \cup {r} => f[i] = addr[i]
      BY DEF f, PutAt
    <2> QED BY <1>1, <2>1, <2>2
  <1>10. DOMAIN f = Ids
    BY DEF f, PutAt
  <1> QED BY <1>1, <1>6, <1>8, <1>9, <1>10

-----------------------------------------------------------------------------
(* The invariant                                                           *)

(* A root is in use as long as its chain.                                  *)
TimesOK ==
    /\ time_end \in [Ids -> 0..MaxTime]
    /\ \A i \in Ids : root[i] \in Roots => itv[i].end <= time_end[root[i]]

FollowRoots == \A i \in Ids : addr[i] = addr[root[i]] + rootOffset[i]

(* No step aborts the program.                                             *)
IInv ==
    /\ Prepared /\ TodoAddrOK /\ peak \in Nat
    /\ stage \notin {"solve", "abort"}
    /\ stage \in {"build", "link", "root", "reject"} => move_conflict = <<>>
    /\ stage \in {"place", "check", "done"} => Board /\ TimesOK
    /\ stage \in {"check", "done"} => todo = {} /\ FollowRoots

LEMMA InitIInv == Init => IInv
  <1> SUFFICES ASSUME Init PROVE IInv
    OBVIOUS
  <1>1. Prepared /\ TodoAddrOK /\ stage = "build"
    BY InitPrepared DEF Init, InitProblem
  <1>2. move_conflict = <<>> /\ peak = 0
    BY DEF Init
  <1> QED BY <1>1, <1>2 DEF IInv

LEMMA PrepareKeepsIInv ==
    ASSUME PositiveSizes, IInv, Prepare, UNCHANGED <<lowerBound, time_end, move_conflict, peak>>
    PROVE  IInv' /\ stage \in {"build", "link", "root"}
                 /\ stage' \in {"build", "link", "root", "reject"}
  <1>1. stage \in {"build", "link", "root"} /\ stage' \in {"build", "link", "root", "reject"}
    BY PrepareStages DEF IInv
  <1>2. Prepared' /\ TodoAddrOK'
    BY PreparePreserves DEF IInv
  <1> QED BY <1>1, <1>2 DEF IInv

LEMMA StartKeepsIInv ==
    ASSUME IInv, start_move
    PROVE  IInv'
  <1>1. /\ stage = "root" /\ todo = {} /\ stage' = "place" /\ todo' = Roots
        /\ time_end' = [i \in Ids |-> IF i \in Roots THEN extended(i) ELSE itv[i].end]
        /\ move_conflict' = [i \in Ids |-> {}] /\ peak' = 0
        /\ UNCHANGED <<problem, links, addr, lowerBound>>
        /\ Prepared /\ TodoAddrOK
    BY DEF start_move, IInv
  <1>2. Prepared'
    BY <1>1, PlacingPreserves
  <1>3. UNCHANGED <<itv, alignment, dest, root>> /\ Ids' = Ids /\ Roots' = Roots
    BY <1>1 DEF problem, links, Ids, Roots, is_overwrite_root
  <1>4. TodoAddrOK'
    BY <1>1, <1>3 DEF TodoAddrOK, Roots
  <1>5. Placed' = {}
    BY <1>1, <1>3 DEF Placed
  <1>6. alignment \in Nat \ {0}
    BY <1>1 DEF Prepared, ProblemOK
  <1>7. move_conflict' \in [Ids' -> SUBSET Placed'] /\ \A i \in Ids : move_conflict'[i] = {}
    BY <1>1, <1>3
  <1>8. Board'
    BY <1>1, <1>3, <1>5, <1>6, <1>7 DEF Board
  <1>9. ASSUME NEW r \in Roots
        PROVE  /\ extended(r) \in 0..MaxTime
               /\ \A i \in Ids : root[i] = r => itv[i].end <= extended(r)
    <2> DEFINE T == {itv[i].end : i \in {j \in Ids : root[j] = r}}
    <2>1. \A i \in Ids : itv[i].end \in 0..MaxTime
      BY <1>1, TimesTyped
    <2>2. r \in Ids /\ root[r] = r
      BY <1>1 DEF Roots, is_overwrite_root, Prepared, RootsOK
    <2>3. T \in SUBSET Nat /\ T # {} /\ MaxTime \in Nat /\ \A n \in T : n <= MaxTime
      BY <2>1, <2>2, BoundsAssumption
    <2>4. Max(T) \in T /\ \A n \in T : n <= Max(T)
      <3> HIDE DEF T
      <3> QED BY <2>3, GreatestExists
    <2>5. extended(r) = Max(T)
      BY DEF extended
    <2>6. extended(r) \in T /\ \A n \in T : n <= extended(r)
      BY <2>4, <2>5
    <2> QED BY <2>1, <2>6
  <1>10. TimesOK'
    <2>1. \A i \in Ids : itv[i].end \in 0..MaxTime
      BY <1>1, TimesTyped
    <2>2. time_end' \in [Ids -> 0..MaxTime] /\ \A r \in Roots : time_end'[r] = extended(r)
      BY <1>1, <1>9, <2>1 DEF Roots
    <2> QED BY <1>3, <1>9, <2>2 DEF TimesOK
  <1> QED BY <1>1, <1>2, <1>4, <1>8, <1>10 DEF IInv

LEMMA InsertKeepsIInv ==
    ASSUME IInv, NEW r \in Ids, insert_interval(r)
    PROVE  IInv' /\ stage = "place" /\ stage' = "place" /\ UNCHANGED problem
  <1>1. stage = "place" /\ Prepared /\ TodoAddrOK /\ Board /\ TimesOK
    BY DEF insert_interval, IInv
  <1>2. /\ Board' /\ stage' = "place" /\ UNCHANGED <<problem, links, lowerBound, time_end>>
        /\ \A i \in Ids : addr'[i] \in Nat \/ addr'[i] = addr[i]
        /\ DOMAIN addr' = Ids
    BY <1>1, InsertKeeps
  <1>3. Prepared'
    BY <1>1, <1>2, PlacingPreserves
  <1>4. UNCHANGED <<itv, dest, root>> /\ Ids' = Ids /\ Roots' = Roots
    BY <1>2 DEF problem, links, Ids, Roots, is_overwrite_root
  <1>5. TodoAddrOK'
    <2>1. addr' = [i \in Ids |-> addr'[i]]
      BY <1>2 DEF insert_interval
    <2>2. \A i \in Ids : addr'[i] \in Nat \cup {INVALID}
      BY <1>1, <1>2 DEF TodoAddrOK
    <2>3. todo' \subseteq Ids
      BY <1>2, <1>4 DEF Board, Roots
    <2> QED BY <1>2, <1>4, <2>1, <2>2, <2>3 DEF TodoAddrOK
  <1>6. TimesOK'
    BY <1>1, <1>2, <1>4 DEF TimesOK
  <1>7. (peak \in Nat)'
    BY <1>2 DEF Board
  <1> QED BY <1>1, <1>2, <1>3, <1>5, <1>6, <1>7 DEF IInv

(* A step that moves no root keeps the board.                              *)
LEMMA BoardFrame ==
    ASSUME Board, UNCHANGED <<problem, links, todo, time_end, move_conflict, peak>>,
           \A i \in Placed : addr'[i] = addr[i]
    PROVE  Board'
  <1>1. UNCHANGED <<itv, alignment, dest, todo, time_end, move_conflict, peak>>
        /\ Ids' = Ids /\ Roots' = Roots
    BY DEF problem, links, Ids, Roots, is_overwrite_root
  <1>2. Placed' = Placed /\ (\A i, j : meet(i, j)' = meet(i, j))
        /\ (\A i : size(i)' = size(i))
    BY <1>1 DEF Placed, meet, size, align
  <1>3. \A i \in Placed : end_of(i)' = end_of(i)
    BY <1>2 DEF end_of
  <1>4. move_conflict \in [Ids -> SUBSET Placed] /\ Placed \in SUBSET Ids
    BY DEF Board, Placed, Roots
  <1>5. \A i \in Placed : \A j \in move_conflict[i] : j \in Placed
    BY <1>4
  <1>6. \A i \in Placed : \A j \in move_conflict[i] : end_of(i)' <= addr'[j]
    BY <1>3, <1>5 DEF Board
  <1> QED BY <1>1, <1>2, <1>3, <1>4, <1>6 DEF Board

LEMMA RootsPlaced ==
    ASSUME ForwardSpecs, Prepared, Board, stage \in {"place", "check", "done"}, todo = {}
    PROVE  /\ Placed = Roots
           /\ \A i \in Ids : /\ root[i] \in Roots /\ root[root[i]] = root[i]
                             /\ rootOffset[i] \in Nat /\ addr[root[i]] \in Nat
           /\ \A r \in Roots : r \in Ids /\ root[r] = r /\ rootOffset[r] = 0 /\ addr[r] \in Nat
  <1>1. Placed = Roots
    BY DEF Placed
  <1>2. \A r \in Roots : r \in Ids /\ root[r] = r /\ rootOffset[r] = 0 /\ addr[r] \in Nat
    BY <1>1 DEF Roots, is_overwrite_root, Prepared, RootsOK, Board
  <1>3. \A i \in Ids : root[i] \in Roots /\ rootOffset[i] \in Nat
    BY RootFirst DEF Roots, is_overwrite_root, Prepared, LinksOK
  <1> QED BY <1>1, <1>2, <1>3

LEMMA FollowKeepsIInv ==
    ASSUME ForwardSpecs, IInv, place_overwriters
    PROVE  IInv'
  <1>1. /\ stage = "place" /\ todo = {} /\ stage' = "check"
        /\ addr' = [i \in Ids |-> addr[root[i]] + rootOffset[i]]
        /\ UNCHANGED <<problem, links, todo, lowerBound, time_end, move_conflict, peak>>
        /\ Prepared /\ TodoAddrOK /\ Board /\ TimesOK /\ peak \in Nat
    BY DEF place_overwriters, IInv
  <1>2. /\ Placed = Roots
        /\ \A i \in Ids : /\ root[i] \in Roots /\ root[root[i]] = root[i]
                          /\ rootOffset[i] \in Nat /\ addr[root[i]] \in Nat
        /\ \A r \in Roots : r \in Ids /\ root[r] = r /\ rootOffset[r] = 0 /\ addr[r] \in Nat
    BY <1>1, RootsPlaced
  <1>3. Prepared'
    BY <1>1, PlacingPreserves
  <1>4. UNCHANGED <<itv, dest, root, rootOffset>> /\ Ids' = Ids /\ Roots' = Roots
    BY <1>1 DEF problem, links, Ids, Roots, is_overwrite_root
  <1>5. \A r \in Roots : addr'[r] = addr[r]
    BY <1>1, <1>2
  <1>6. Board'
    BY <1>1, <1>2, <1>5, BoardFrame
  <1>7. \A i \in Ids : addr'[i] \in Nat
    BY <1>1, <1>2
  <1>8. TodoAddrOK'
    BY <1>1, <1>4, <1>7 DEF TodoAddrOK
  <1>9. TimesOK'
    BY <1>1, <1>4 DEF TimesOK
  <1>10. FollowRoots'
    BY <1>1, <1>2, <1>4, <1>5 DEF FollowRoots
  <1> QED BY <1>1, <1>3, <1>6, <1>8, <1>9, <1>10 DEF IInv

-----------------------------------------------------------------------------
(* The checker, and what an allocator promises                             *)

(* An overwriter lies inside its root.                                     *)
LEMMA InsideRoot ==
    ASSUME ForwardSpecs, Prepared, stage = "check"
    PROVE  \A i \in Ids : /\ rootOffset[i] \in Nat
                          /\ rootOffset[i] + itv[i].size <= itv[root[i]].size
  <1>1. \A i \in Ids : rootOffset[i] \in Nat /\ root[i] \in Ids
    BY DEF Prepared, LinksOK
  <1> DEFINE S == {i \in Ids : ~(rootOffset[i] + itv[i].size <= itv[root[i]].size)}
  <1>2. SUFFICES ASSUME S # {} PROVE FALSE
    BY <1>1
  <1>3. PICK i \in S : \A j \in S : itv[i].begin <= itv[j].begin
    <2>1. S \in SUBSET Ids
      OBVIOUS
    <2> HIDE DEF S
    <2> QED BY <1>2, <2>1, EarliestExists
  <1>4. \A j \in Ids : itv[j].size \in Nat /\ itv[j].begin \in Nat
    BY TimesTyped, BoundsAssumption
  <1>5. CASE dest[i] = Nil
    <2>1. root[i] = i /\ rootOffset[i] = 0
      BY <1>3, <1>5 DEF Prepared, RootsOK
    <2> QED BY <1>3, <1>4, <2>1
  <1>6. CASE dest[i] # Nil
    <2>1. /\ dest[i] \in Ids /\ itv[dest[i]].begin < itv[i].begin
          /\ offset[i] \in Nat /\ offset[i] + itv[i].size <= itv[dest[i]].size
          /\ root[i] = root[dest[i]]
      BY <1>3, <1>6, LinksTyped
    <2>2. rootOffset[i] = offset[i] + rootOffset[dest[i]]
      BY <1>3, <1>6 DEF Prepared, RootsOK
    <2>3. rootOffset[dest[i]] + itv[dest[i]].size <= itv[root[i]].size
      BY <1>1, <1>3, <1>4, <2>1
    <2>4. /\ rootOffset[dest[i]] \in Nat /\ itv[i].size \in Nat /\ itv[dest[i]].size \in Nat
          /\ itv[root[i]].size \in Nat
      BY <1>1, <1>3, <1>4, <2>1
    <2>5. rootOffset[i] + itv[i].size <= itv[root[i]].size
      BY <2>1, <2>2, <2>3, <2>4
    <2> QED BY <1>3, <2>5
  <1> QED BY <1>5, <1>6

LEMMA AlignShift ==
    ASSUME alignment \in Nat \ {0}, NEW a \in Nat, NEW s \in Nat, a % alignment = 0
    PROVE  a + align(s) <= align(a + s)
  <1>1. PICK n \in Nat : n = alignment /\ n > 0
    OBVIOUS
  <1>2. PICK b \in Nat : b = align(a + s) /\ a + s <= b /\ b % alignment = 0
    BY AlignUp
  <1>3. \A c \in Nat : c % n = 0 => \E z \in Nat : c = z * n
    <2> SUFFICES ASSUME NEW c \in Nat, c % n = 0 PROVE \E z \in Nat : c = z * n
      OBVIOUS
    <2>1. c \div n \in Nat /\ c = n * (c \div n) + (c % n)
      BY <1>1
    <2>2. PICK z \in Nat : z = c \div n
      BY <2>1
    <2>3. c = n * z /\ n * z = z * n
      BY <2>1, <2>2
    <2> QED BY <2>3
  <1>4. PICK x \in Nat, y \in Nat : a = x * n /\ b = y * n
    BY <1>1, <1>2, <1>3
  <1>5. x <= y
    <2>1. SUFFICES ASSUME y < x PROVE FALSE
      OBVIOUS
    <2>2. PICK d \in Nat : x = y + 1 + d
      BY <2>1
    <2>3. x * n = y * n + n + d * n /\ d * n \in Nat
      BY <2>2
    <2> QED BY <1>1, <1>2, <1>4, <2>3
  <1>6. PICK z \in Nat : z = y - x
    BY <1>5
  <1>7. b - a = z * n
    BY <1>4, <1>6
  <1>8. (z * n) % n = 0
    BY <1>1
  <1>9. PICK e \in Nat : e = b - a /\ s <= e
    BY <1>2
  <1>10. e % alignment = 0
    BY <1>1, <1>7, <1>8, <1>9
  <1>11. align(s) <= e
    BY <1>9, <1>10, AlignLeast
  <1>12. align(s) \in Nat
    BY AlignUp
  <1> QED BY <1>2, <1>9, <1>11, <1>12

(* What the checker is given is what CheckerPasses and PlanKept ask for.   *)
LEMMA PlacedByIntervalMove ==
    ASSUME ForwardSpecs, IInv, stage = "check"
    PROVE  /\ PlanMade /\ tot_alloc \in Nat /\ Reaches(tot_alloc)
           /\ \A i \in Ids : dest[i] = Nil => addr[i] % alignment = 0
           /\ \A i \in Ids : dest[i] # Nil => addr[i] = addr[dest[i]] + offset[i]
  <1>1. Prepared /\ TodoAddrOK /\ Board /\ TimesOK /\ todo = {} /\ FollowRoots /\ peak \in Nat
    BY DEF IInv
  <1>2. /\ Placed = Roots
        /\ \A i \in Ids : /\ root[i] \in Roots /\ root[root[i]] = root[i]
                          /\ rootOffset[i] \in Nat /\ addr[root[i]] \in Nat
        /\ \A r \in Roots : r \in Ids /\ root[r] = r /\ rootOffset[r] = 0 /\ addr[r] \in Nat
    BY <1>1, RootsPlaced
  <1>3. \A i \in Ids : addr[i] \in Nat /\ addr[i] = addr[root[i]] + rootOffset[i]
    BY <1>1, <1>2 DEF FollowRoots
  <1>4. addr \in [Ids -> Nat]
    BY <1>1, <1>3 DEF TodoAddrOK
  <1>5. \A i \in Ids : /\ itv[i].size \in Nat /\ itv[i].begin \in Nat /\ itv[i].end \in Nat
                       /\ size(i) \in Nat /\ itv[i].size <= size(i)
    BY <1>1, TimesTyped, SizeAligned, BoundsAssumption
  <1>6. ASSUME NEW i \in Ids
        PROVE  /\ addr_end(i) \in Nat /\ addr[root[i]] <= addr[i]
               /\ addr_end(i) <= end_of(root[i]) /\ end_of(root[i]) \in Nat
               /\ end_of(root[i]) <= peak
    <2>1. root[i] \in Ids /\ root[i] \in Placed
      BY <1>2
    <2>2. rootOffset[i] + itv[i].size <= itv[root[i]].size
      BY <1>1, InsideRoot
    <2>3. end_of(root[i]) <= peak
      BY <1>1, <2>1 DEF Board
    <2>4. /\ addr[i] \in Nat /\ addr[root[i]] \in Nat /\ rootOffset[i] \in Nat
          /\ addr[i] = addr[root[i]] + rootOffset[i]
          /\ itv[i].size \in Nat /\ itv[root[i]].size \in Nat /\ size(root[i]) \in Nat
          /\ itv[root[i]].size <= size(root[i])
      BY <1>2, <1>3, <1>5, <2>1
    <2>5. end_of(root[i]) = addr[root[i]] + size(root[i]) /\ addr_end(i) = addr[i] + itv[i].size
      BY DEF end_of, addr_end
    <2> QED BY <2>2, <2>3, <2>4, <2>5
  <1>7. ASSUME NEW i \in Ids, NEW j \in Ids, time_overlap(i, j), root[i] # root[j]
        PROVE  ~addr_overlap(i, j)
    <2>1. \A k \in Ids : itv[root[k]].begin <= itv[k].begin /\ itv[k].end <= time_end[root[k]]
      <3> SUFFICES ASSUME NEW k \in Ids
                   PROVE  itv[root[k]].begin <= itv[k].begin /\ itv[k].end <= time_end[root[k]]
        OBVIOUS
      <3>1. itv[k].end <= time_end[root[k]]
        BY <1>1, <1>2 DEF TimesOK
      <3>2. CASE dest[k] = Nil
        <4>1. root[k] = k
          BY <1>1, <3>2, LinksTyped
        <4> QED BY <1>5, <3>1, <4>1
      <3>3. CASE dest[k] # Nil
        <4>1. root[k] \in Ids /\ itv[root[k]].begin < itv[k].begin
          BY <1>1, <3>3, RootFirst
        <4> QED BY <1>5, <3>1, <4>1
      <3> QED BY <3>2, <3>3
    <2>2. \A k \in Ids : root[k] \in Placed /\ root[k] \in Ids /\ time_end[root[k]] \in Nat
      BY <1>1, <1>2, BoundsAssumption DEF TimesOK
    <2>3. itv[i].begin < itv[j].end /\ itv[j].begin < itv[i].end
      BY <1>7 DEF time_overlap
    <2>4. /\ itv[root[i]].begin \in Nat /\ itv[root[j]].begin \in Nat
          /\ itv[i].begin \in Nat /\ itv[j].begin \in Nat /\ itv[i].end \in Nat /\ itv[j].end \in Nat
          /\ time_end[root[i]] \in Nat /\ time_end[root[j]] \in Nat
      BY <1>5, <2>2
    <2>5. meet(root[i], root[j])
      <3>1. /\ itv[root[i]].begin <= itv[i].begin /\ itv[j].end <= time_end[root[j]]
            /\ itv[root[j]].begin <= itv[j].begin /\ itv[i].end <= time_end[root[i]]
        BY <2>1
      <3>2. itv[root[i]].begin < time_end[root[j]] /\ itv[root[j]].begin < time_end[root[i]]
        BY ONLY <2>3, <2>4, <3>1
      <3> QED BY <3>2 DEF meet
    <2>6. root[j] \in move_conflict[root[i]] \/ root[i] \in move_conflict[root[j]]
      BY <1>1, <1>7, <2>2, <2>5 DEF Board
    <2>7. end_of(root[i]) <= addr[root[j]] \/ end_of(root[j]) <= addr[root[i]]
      BY <1>1, <2>2, <2>6 DEF Board
    <2>8. addr_end(i) <= addr[j] \/ addr_end(j) <= addr[i]
      <3>1. /\ addr_end(i) \in Nat /\ addr[root[i]] <= addr[i] /\ addr_end(i) <= end_of(root[i])
            /\ end_of(root[i]) \in Nat
            /\ addr_end(j) \in Nat /\ addr[root[j]] <= addr[j] /\ addr_end(j) <= end_of(root[j])
            /\ end_of(root[j]) \in Nat
        BY <1>6
      <3>2. addr[i] \in Nat /\ addr[j] \in Nat /\ addr[root[i]] \in Nat /\ addr[root[j]] \in Nat
        BY <1>2, <1>3
      <3> QED BY ONLY <2>7, <3>1, <3>2
    <2>9. addr_end(i) \in Nat /\ addr_end(j) \in Nat /\ addr[i] \in Nat /\ addr[j] \in Nat
      BY <1>3, <1>6
    <2> QED BY <2>8, <2>9 DEF addr_overlap
  <1>8. LiveDisjoint
    BY <1>7 DEF LiveDisjoint
  <1>9. \A i \in Ids : addr_end(i) <= peak
    BY <1>1, <1>6
  <1>10. ASSUME peak # 0 PROVE \E i \in Ids : peak <= align(addr_end(i))
    <2>1. PICK i \in Placed : end_of(i) = peak
      BY <1>1, <1>10 DEF Board
    <2>2. i \in Ids /\ addr[i] \in Nat /\ addr[i] % alignment = 0 /\ alignment \in Nat \ {0}
      BY <1>1, <1>2 DEF Board
    <2>3. itv[i].size \in Nat
      BY <1>5, <2>2
    <2>4. addr[i] + align(itv[i].size) <= align(addr[i] + itv[i].size)
      BY <2>2, <2>3, AlignShift
    <2> QED BY <2>1, <2>2, <2>4 DEF end_of, size, addr_end
  <1>11. Reaches(tot_alloc)
    BY <1>9, <1>10 DEF Reaches, tot_alloc
  <1>12. \A i \in Ids : dest[i] = Nil => addr[i] % alignment = 0
    BY <1>1, <1>2 DEF Board, Roots, is_overwrite_root
  <1>13. ASSUME NEW i \in Ids, dest[i] # Nil PROVE addr[i] = addr[dest[i]] + offset[i]
    <2>1. dest[i] \in Ids /\ root[i] = root[dest[i]] /\ offset[i] \in Nat
      BY <1>1, <1>13, LinksTyped
    <2>2. rootOffset[i] = offset[i] + rootOffset[dest[i]]
      BY <1>1, <1>13 DEF Prepared, RootsOK
    <2>3. /\ addr[i] = addr[root[i]] + rootOffset[i]
          /\ addr[dest[i]] = addr[root[i]] + rootOffset[dest[i]]
          /\ addr[root[i]] \in Nat /\ rootOffset[dest[i]] \in Nat
      BY <1>2, <1>3, <2>1
    <2> QED BY <2>1, <2>2, <2>3
  <1> QED BY <1>1, <1>4, <1>8, <1>11, <1>12, <1>13 DEF PlanMade, tot_alloc

LEMMA CheckKeepsIInv ==
    ASSUME ForwardSpecs, IInv, check_result(tot_alloc), UNCHANGED <<time_end, move_conflict, peak>>
    PROVE  IInv' /\ stage' = "done"
  <1>1. stage = "check" /\ UNCHANGED <<problem, links, todo, addr>>
    BY DEF check_result
  <1>2. /\ Prepared /\ TodoAddrOK /\ Board /\ TimesOK /\ todo = {} /\ FollowRoots
    BY <1>1 DEF IInv
  <1>3. stage' = "done"
    BY <1>1, PlacedByIntervalMove, CheckerPasses
  <1>4. Prepared'
    BY <1>1, <1>2, <1>3, PlacingPreserves
  <1>5. UNCHANGED <<itv, dest, root, rootOffset>> /\ Ids' = Ids /\ Roots' = Roots
    BY <1>1 DEF problem, links, Ids, Roots, is_overwrite_root
  <1>6. Board'
    BY <1>1, <1>2, BoardFrame
  <1>7. TodoAddrOK' /\ TimesOK' /\ FollowRoots'
    BY <1>1, <1>2, <1>3, <1>5 DEF TodoAddrOK, TimesOK, FollowRoots
  <1> QED BY <1>1, <1>2, <1>3, <1>4, <1>6, <1>7 DEF IInv

LEMMA StutterKeepsIInv ==
    ASSUME IInv, UNCHANGED vars
    PROVE  IInv'
  <1>1. /\ UNCHANGED <<itv, specs, alignment, padding, stage, linked, dest, src, offset, root,
                       rootOffset, todo, addr, time_end, move_conflict, peak>>
        /\ Ids' = Ids
    BY DEF vars, problem, links, Ids
  <1>2. ProblemOK' /\ LinksOK' /\ Followed' /\ RootsOK' /\ Fresh' /\ NoAddresses' /\ TodoAddrOK'
    BY <1>1 DEF IInv, Prepared, ProblemOK, LinksOK, LinkedPair, Followed, Asked, RootsOK, Fresh,
                NoAddresses, TodoAddrOK, Spec_
  <1>3. (stage \in {"place", "check", "done"}) => Board' /\ TimesOK'
    <2>1. Roots' = Roots /\ UNCHANGED <<problem, links>>
      BY <1>1 DEF Roots, is_overwrite_root, problem, links
    <2>2. Board => Board'
      BY <1>1, <2>1, BoardFrame
    <2> QED BY <1>1, <2>1, <2>2 DEF IInv, TimesOK
  <1> QED BY <1>1, <1>2, <1>3 DEF IInv, Prepared, FollowRoots

LEMMA NextIInv ==
    ASSUME PositiveSizes, ForwardSpecs, IInv, [Next]_vars
    PROVE  IInv'
  <1>1. CASE Prepare /\ UNCHANGED <<lowerBound, time_end, move_conflict, peak>>
    BY <1>1, PrepareKeepsIInv
  <1>2. CASE start_move
    BY <1>2, StartKeepsIInv
  <1>3. CASE \E r \in Ids : insert_interval(r)
    BY <1>3, InsertKeepsIInv
  <1>4. CASE place_overwriters
    BY <1>4, FollowKeepsIInv
  <1>5. CASE check_result(tot_alloc) /\ UNCHANGED <<time_end, move_conflict, peak>>
    BY <1>5, CheckKeepsIInv
  <1>6. CASE UNCHANGED vars
    BY <1>6, StutterKeepsIInv
  <1> QED BY <1>1, <1>2, <1>3, <1>4, <1>5, <1>6 DEF Next, Stopped

LEMMA Invariance ==
    ASSUME PositiveSizes, ForwardSpecs
    PROVE  Spec => []IInv
  <1>1. IInv /\ [Next]_vars => IInv'
    BY NextIInv
  <1> QED BY <1>1, InitIInv, PTL DEF Spec

-----------------------------------------------------------------------------
(* The theorems                                                            *)

(* The variables of IntervalMove keep their types.                         *)
THEOREM TypeCorrect ==
    ASSUME PositiveSizes, ForwardSpecs
    PROVE  Spec => []TypeOK
  <1>1. IInv => TypeOK
    <2> SUFFICES ASSUME IInv PROVE TypeOK
      OBVIOUS
    <2>1. TypeOKProblem /\ peak \in Nat
      BY DEF IInv, Prepared, ProblemOK, LinksOK, TodoAddrOK, TypeOKProblem, Spec_
    <2>2. ASSUME stage \in {"place", "check", "done"}
          PROVE  time_end \in [Ids -> 0..MaxTime] /\ move_conflict \in [Ids -> SUBSET Roots]
      <3>1. move_conflict \in [Ids -> SUBSET Placed] /\ Placed \subseteq Roots
        BY <2>2 DEF IInv, Board, Placed
      <3> QED BY <2>2, <3>1 DEF IInv, TimesOK
    <2> QED BY <2>1, <2>2 DEF TypeOK
  <1> QED BY <1>1, Invariance, PTL

(* What was recorded to lie above an interval stays above it, and no two   *)
(* intervals that meet go unrecorded, however far they are moved.          *)
THEOREM ConflictsAlwaysOrdered ==
    ASSUME PositiveSizes, ForwardSpecs
    PROVE  Spec => []ConflictsOrdered
  <1>1. IInv => ConflictsOrdered
    <2> SUFFICES ASSUME IInv, move_conflict # <<>>, NEW i \in Placed, NEW j \in Placed
                 PROVE  /\ j \in move_conflict[i] => end_of(i) <= addr[j] /\ i \notin move_conflict[j]
                        /\ i # j /\ meet(i, j) => j \in move_conflict[i] \/ i \in move_conflict[j]
      BY DEF ConflictsOrdered
    <2>1. Prepared /\ Board
      BY DEF IInv, Prepared, ProblemOK, Stages
    <2>2. j \in move_conflict[i] => end_of(i) <= addr[j] /\ addr[i] < addr[j]
      BY <2>1, BoardTyped
    <2>3. i \in move_conflict[j] => addr[j] < addr[i]
      BY <2>1, BoardTyped
    <2>4. addr[i] \in Nat /\ addr[j] \in Nat
      BY <2>1, BoardTyped
    <2>5. j \in move_conflict[i] => i \notin move_conflict[j]
      BY <2>2, <2>3, <2>4
    <2>6. i # j /\ meet(i, j) => j \in move_conflict[i] \/ i \in move_conflict[j]
      BY <2>1 DEF Board
    <2> QED BY <2>2, <2>5, <2>6
  <1> QED BY <1>1, Invariance, PTL

(* The peak is the end of the highest interval placed.                     *)
THEOREM PeakAlwaysReached ==
    ASSUME PositiveSizes, ForwardSpecs
    PROVE  Spec => []PeakReached
  <1>1. IInv => PeakReached
    <2> SUFFICES ASSUME IInv, move_conflict # <<>>, Placed # {}
                 PROVE  /\ \A i \in Placed : end_of(i) <= peak
                        /\ \E i \in Placed : end_of(i) = peak
      BY DEF PeakReached
    <2>1. Board
      BY DEF IInv, Prepared, ProblemOK, Stages
    <2> QED BY <2>1 DEF Board
  <1> QED BY <1>1, Invariance, PTL

(* No assertion ever fails: not in the linking, not in do_solve(), where   *)
(* the peak grows as find_best_fit() predicts, and not in the checker.     *)
THEOREM NeverAsserts ==
    ASSUME PositiveSizes, ForwardSpecs
    PROVE  Spec => NeverAborts
  <1>1. IInv /\ [Next]_vars => [stage' # "abort"]_vars
    BY NextIInv DEF IInv
  <1> QED BY <1>1, Invariance, PTL DEF Spec, NeverAborts

(* A step of the allocator is a step that the client of MemPlan may see,   *)
(* or none.                                                                *)
LEMMA StepRefines ==
    ASSUME PositiveSizes, ForwardSpecs, IInv, [Next]_vars
    PROVE  [Abstract!Next]_(Abstract!vars)
  <1>1. IInv' /\ stage # "abort" /\ stage' # "abort"
    BY NextIInv DEF IInv
  <1>2. CASE Prepare /\ UNCHANGED <<lowerBound, time_end, move_conflict, peak>>
    <2>1. stage \in {"build", "link", "root"} /\ stage' \in {"build", "link", "root", "reject"}
      BY <1>2, PrepareKeepsIInv
    <2>2. /\ Len(itv) <= Len(itv') /\ itv = SubSeq(itv', 1, Len(itv))
          /\ Len(specs) <= Len(specs') /\ specs = SubSeq(specs', 1, Len(specs))
          /\ stage' = "reject" => /\ \E p \in Promise!Specs : Promise!TooLate(p)
                                  /\ UNCHANGED <<itv, specs, alignment>>
      BY <1>2, PrepareDescribes DEF IInv
    <2>3. CASE stage' # "reject"
      <3>1. Abstract!Describe
        BY <2>1, <2>2, <2>3 DEF Abstract!Describe, PlanStage, Ready
      <3> QED BY <3>1 DEF Abstract!Next
    <2>4. CASE stage' = "reject"
      <3>1. \E p \in Abstract!Specs : Abstract!TooLate(p)
        BY <2>2, <2>4 DEF Promise!Specs, Promise!TooLate, Abstract!Specs, Abstract!TooLate
      <3>2. Abstract!Refuse
        BY <2>1, <2>2, <2>4, <3>1 DEF Abstract!Refuse, PlanStage, Ready
      <3> QED BY <3>2 DEF Abstract!Next
    <2> QED BY <2>3, <2>4
  <1>3. ASSUME stage \in {"root", "place"}, stage' \in {"place", "check"}, UNCHANGED problem
        PROVE  UNCHANGED Abstract!vars
    BY <1>1, <1>3 DEF Abstract!vars, PlanStage, Ready, problem
  <1>4. CASE start_move
    BY <1>3, <1>4 DEF start_move
  <1>5. CASE \E r \in Ids : insert_interval(r)
    BY <1>3, <1>5, InsertKeepsIInv
  <1>6. CASE place_overwriters
    BY <1>3, <1>6 DEF place_overwriters
  <1>7. CASE check_result(tot_alloc) /\ UNCHANGED <<time_end, move_conflict, peak>>
    <2>1. /\ stage = "check" /\ stage' = "done"
          /\ UNCHANGED <<itv, specs, alignment, dest, offset, addr, peak>>
      BY <1>7, CheckKeepsIInv DEF check_result, problem, links
    <2>2. /\ Promise!Compatible(HonouredSpecs)
          /\ Promise!Plan(addr, HonouredSpecs, tot_alloc)
          /\ \A p \in Promise!Specs : ~Promise!TooLate(p)
          /\ DOMAIN addr = Promise!Ids
      BY <2>1, PlacedByIntervalMove, PlanKept
    <2>3. Abstract!Compatible(HonouredSpecs)
      BY <2>2 DEF Promise!Compatible, Promise!Specs, Promise!InPlace,
                  Abstract!Compatible, Abstract!Specs, Abstract!InPlace
    <2>4. \A p \in Abstract!Specs : ~Abstract!TooLate(p)
      BY <2>2 DEF Promise!Specs, Promise!TooLate, Abstract!Specs, Abstract!TooLate
    <2>5. DOMAIN addr = Abstract!Ids
      BY <2>2 DEF Promise!Ids, Abstract!Ids
    <2>6. Abstract!Plan(addr, HonouredSpecs, tot_alloc)
      <3>1. \A i, j : Promise!Chained(HonouredSpecs, i, j) <=> Abstract!Chained(HonouredSpecs, i, j)
        BY DEF Promise!Chained, Abstract!Chained, Promise!Ids, Abstract!Ids
      <3> QED BY <2>2, <3>1
          DEF Promise!Plan, Promise!Ids, Promise!alignUp, Promise!Meet, Promise!Share, Promise!EndOf,
              Abstract!Plan, Abstract!Ids, Abstract!alignUp, Abstract!Meet, Abstract!Share,
              Abstract!EndOf
    <2>7. HonouredSpecs' = HonouredSpecs /\ tot_alloc' = tot_alloc /\ tot_alloc >= 0
      BY <2>1, PlacedByIntervalMove DEF HonouredSpecs, tot_alloc
    <2>8. PlanStage = "open" /\ PlanStage' = "planned" /\ Ready'
      BY <2>1 DEF PlanStage, Ready
    <2>9. Abstract!Solve
      BY <2>1, <2>3, <2>4, <2>5, <2>6, <2>7, <2>8 DEF Abstract!Solve
    <2> QED BY <2>9 DEF Abstract!Next
  <1>8. CASE UNCHANGED vars
    <2>1. UNCHANGED <<itv, specs, alignment, stage, dest, offset, addr, peak>>
      BY <1>8 DEF vars, problem, links
    <2> QED BY <2>1 DEF Abstract!vars, PlanStage, Ready, HonouredSpecs, tot_alloc
  <1> QED BY <1>2, <1>4, <1>5, <1>6, <1>7, <1>8 DEF Next, Stopped

(* IntervalMove keeps the promise of an allocator: one step gives all      *)
(* intervals their addresses, a plan that the client can use.              *)
THEOREM PlanPromised ==
    ASSUME PositiveSizes, ForwardSpecs
    PROVE  Spec => ImplementsMemPlan
  <1>1. Init => Abstract!Init
    BY DEF Init, InitProblem, Abstract!Init, PlanStage, Ready
  <1>2. IInv /\ [Next]_vars => [Abstract!Next]_(Abstract!vars)
    BY StepRefines
  <1> QED BY <1>1, <1>2, Invariance, PTL DEF Spec, ImplementsMemPlan, Abstract!Spec
=============================================================================

---------------------------- MODULE Views_proof -----------------------------
(***************************************************************************)
(* For every shape of any number of axes, every element size and every     *)
(* planned address: a view that Subtensor, Dimshuffle, Reshape, Relayout,  *)
(* SetSubtensor and Concat make, in any order, has the elements that the   *)
(* operations mean; and so has the tensor that the instructions Subtensor, *)
(* SetSubtensor, Dimshuffle, Broadcast and Reshape make of such a view.    *)
(* Assumed of the operands is what OperandsFit says of them.  What the     *)
(* instructions make is said up to the first that is given what it cannot  *)
(* take (unfit), and OnlyViewsUnfit says when that can be.  The invariant  *)
(* of the views (ViewInv) says that each element stands at the cell of its *)
(* coordinates, that all cells are in the buffer, and that the planned     *)
(* view is the same view PlanAddr further on; that of the instructions     *)
(* (InstrInv) says the same of the tensor in memory, and that an output is *)
(* dense.  The lemmas say what one operation does to the cells of any      *)
(* layout.                                                                 *)
(***************************************************************************)
EXTENDS Views, SequenceTheorems, FiniteSetTheorems, WellFoundedInduction, TLAPS

-----------------------------------------------------------------------------
(* Induction, and loops as functions.                                      *)

(* Induction up to a number, and down from it.                             *)
LEMMA LeastOf ==
    ASSUME NEW T \in SUBSET Nat, T # {}
    PROVE  \E m \in T : \A n \in T : m <= n
  <1> DEFINE R == {p \in Nat \X Nat : p[1] < p[2]}
  <1>1. IsWellFoundedOn(R, Nat)
    BY NatLessThanWellFounded DEF OpToRel
  <1>2. PICK m \in T : \A n \in T : ~ (<<n, m>> \in R)
    <2> HIDE DEF R
    <2> QED BY <1>1, WFMin
  <1>3. ASSUME NEW n \in T, n < m PROVE FALSE
    BY <1>2, <1>3
  <1> QED BY <1>3

LEMMA Upward ==
    ASSUME NEW n \in Nat, NEW S, 0 \in S, \A k \in 0..n - 1 : k \in S => k + 1 \in S
    PROVE  \A k \in 0..n : k \in S
  <1> DEFINE T == {k \in Nat : k <= n /\ k \notin S}
  <1>1. SUFFICES ASSUME T # {} PROVE FALSE
    OBVIOUS
  <1>2. PICK m \in T : \A k \in T : m <= k
    <2>1. T \in SUBSET Nat
      OBVIOUS
    <2> HIDE DEF T
    <2> QED BY <1>1, <2>1, LeastOf
  <1>3. m - 1 \in 0..n - 1 /\ m - 1 \notin T
    BY <1>2
  <1> QED BY <1>2, <1>3

LEMMA Downward ==
    ASSUME NEW n \in Nat, NEW S, n \in S, \A k \in 0..n - 1 : k + 1 \in S => k \in S
    PROVE  \A k \in 0..n : k \in S
  <1> DEFINE T == {k \in 0..n : n - k \in S}
  <1>1. 0 \in T
    OBVIOUS
  <1>2. ASSUME NEW k \in 0..n - 1, k \in T PROVE k + 1 \in T
    <2>1. n - k - 1 \in 0..n - 1 /\ (n - k - 1) + 1 = n - k /\ n - (k + 1) = n - k - 1
      OBVIOUS
    <2> QED BY <1>2, <2>1
  <1>3. \A k \in 0..n : k \in T
    <2> HIDE DEF T
    <2> QED BY <1>1, <1>2, Upward
  <1>4. \A k \in 0..n : n - k \in 0..n /\ n - (n - k) = k
    OBVIOUS
  <1> QED BY <1>3, <1>4

(* A loop over 1, ..., n has a result, and so has one over n, ..., 1.      *)
Rounds(n, V, b, F) == n \in Nat /\ b \in V /\ \A k \in 1..n : F[k] \in [V -> V]

LEMMA LoopUp ==
    ASSUME NEW n, NEW V, NEW b, NEW F, Rounds(n, V, b, F)
    PROVE  \E f : /\ f \in [0..n -> V] /\ f[0] = b
                  /\ \A k \in 1..n : f[k] = F[k][f[k - 1]]
  <1> USE DEF Rounds
  <1> DEFINE Made(m, f) == f \in [0..m -> V] /\ f[0] = b /\ \A k \in 1..m : f[k] = F[k][f[k - 1]]
             S == {m \in 0..n : \E f : Made(m, f)}
  <1>1. 0 \in S
    <2>1. Made(0, [k \in 0..0 |-> b])
      OBVIOUS
    <2> HIDE DEF Made
    <2> QED BY <2>1
  <1>2. ASSUME NEW m \in 0..n - 1, m \in S PROVE m + 1 \in S
    <2>1. PICK f : Made(m, f)
      BY <1>2
    <2> DEFINE g == [k \in 0..m + 1 |-> IF k = m + 1 THEN F[m + 1][f[m]] ELSE f[k]]
    <2>2. F[m + 1][f[m]] \in V
      BY <2>1
    <2>3. g \in [0..m + 1 -> V] /\ g[0] = b
      BY <2>1, <2>2
    <2>4. ASSUME NEW k \in 1..m + 1 PROVE g[k] = F[k][g[k - 1]]
      <3>1. k - 1 \in 0..m /\ g[k - 1] = f[k - 1]
        OBVIOUS
      <3> QED BY <2>1, <3>1
    <2>5. Made(m + 1, g)
      <3> HIDE DEF g
      <3> QED BY <2>3, <2>4
    <2> HIDE DEF Made, g
    <2> QED BY <2>5
  <1>3. n \in S
    <2> HIDE DEF S
    <2>1. \A k \in 0..n : k \in S
      BY <1>1, <1>2, Upward
    <2> QED BY <2>1
  <1> QED BY <1>3

LEMMA LoopDown ==
    ASSUME NEW n, NEW V, NEW b, NEW F, Rounds(n, V, b, F)
    PROVE  \E f : /\ f \in [1..n + 1 -> V] /\ f[n + 1] = b
                  /\ \A i \in 1..n : f[i] = F[i][f[i + 1]]
  <1>5. n \in Nat /\ b \in V /\ \A i \in 1..n : F[i] \in [V -> V]
    BY DEF Rounds
  <1> DEFINE H == [k \in 1..n |-> F[n + 1 - k]]
  <1>1. Rounds(n, V, b, H)
    BY <1>5 DEF Rounds
  <1>2. PICK g : g \in [0..n -> V] /\ g[0] = b /\ \A k \in 1..n : g[k] = H[k][g[k - 1]]
    <2> HIDE DEF H
    <2> QED BY <1>1, LoopUp
  <1> DEFINE f == [i \in 1..n + 1 |-> g[n + 1 - i]]
  <1>3. f \in [1..n + 1 -> V] /\ f[n + 1] = b
    BY <1>2, <1>5
  <1>4. ASSUME NEW i \in 1..n PROVE f[i] = F[i][f[i + 1]]
    <2>1. n + 1 - i \in 1..n /\ n + 1 - (n + 1 - i) = i /\ n + 1 - i - 1 = n + 1 - (i + 1)
      BY <1>5
    <2>2. g[n + 1 - i] = H[n + 1 - i][g[n + 1 - i - 1]]
      <3> HIDE DEF H
      <3> QED BY <1>2, <2>1, <1>5
    <2>3. i + 1 \in 1..n + 1 /\ f[i] = g[n + 1 - i] /\ f[i + 1] = g[n + 1 - (i + 1)]
      BY <1>5
    <2> QED BY <2>1, <2>2, <2>3
  <1> HIDE DEF f
  <1> QED BY <1>3, <1>4

-----------------------------------------------------------------------------
(* Shapes, strides and sums.                                               *)

LEMMA ShapeTyped ==
    ASSUME NEW s, IsShape(s)
    PROVE  /\ Len(s) \in Nat \ {0} /\ Axes(s) = 1..Len(s) /\ DOMAIN s = 1..Len(s)
           /\ s \in [1..Len(s) -> Nat \ {0}]
  <1>1. s \in Seq(Nat \ {0}) /\ s # <<>>
    BY DEF IsShape
  <1> QED BY <1>1, LenProperties, EmptySeq DEF Axes

LEMMA FunctionSeq ==
    ASSUME NEW n \in Nat, NEW S, NEW f \in [1..n -> S]
    PROVE  f \in Seq(S) /\ Len(f) = n
  <1>1. f \in Seq(S)
    BY SeqDef
  <1> QED BY <1>1, LenProperties

LEMMA FunctionShape ==
    ASSUME NEW n \in Nat \ {0}, NEW f \in [1..n -> Nat \ {0}]
    PROVE  IsShape(f) /\ Len(f) = n
  <1>1. f \in Seq(Nat \ {0}) /\ Len(f) = n
    BY FunctionSeq
  <1> QED BY <1>1, EmptySeq DEF IsShape

(* RowMajor(): products of the extents that follow.                        *)
Strides(s, r) ==
    /\ r \in [1..Len(s) -> Nat \ {0}] /\ r[Len(s)] = 1
    /\ \A i \in 1..Len(s) - 1 : r[i] = s[i + 1] * r[i + 1]

LEMMA RowMajorStrides ==
    ASSUME NEW s, IsShape(s)
    PROVE  Strides(s, RowMajor(s))
  <1>1. PICK n \in Nat \ {0} : n = Len(s)
    BY ShapeTyped
  <1>2. s \in [1..n -> Nat \ {0}] /\ Axes(s) = 1..n
    BY ShapeTyped, <1>1
  <1> DEFINE F == [i \in 1..n - 1 |-> [v \in Nat \ {0} |-> s[i + 1] * v]]
             R == CHOOSE r : r = [i \in Axes(s) |-> IF i = Len(s) THEN 1 ELSE s[i + 1] * r[i + 1]]
  <1>3. Rounds(n - 1, Nat \ {0}, 1, F)
    <2>1. ASSUME NEW i \in 1..n - 1, NEW v \in Nat \ {0} PROVE s[i + 1] * v \in Nat \ {0}
      <3>1. PICK e \in Nat \ {0} : e = s[i + 1]
        BY <1>2
      <3>2. e * v \in Nat \ {0}
        OBVIOUS
      <3> QED BY <3>1, <3>2
    <2> QED BY <2>1 DEF Rounds
  <1>4. PICK f : /\ f \in [1..n - 1 + 1 -> Nat \ {0}] /\ f[n - 1 + 1] = 1
                 /\ \A i \in 1..n - 1 : f[i] = F[i][f[i + 1]]
    <2> HIDE DEF F
    <2> QED BY <1>3, LoopDown
  <1>5. f = [i \in Axes(s) |-> IF i = Len(s) THEN 1 ELSE s[i + 1] * f[i + 1]]
    <2>1. ASSUME NEW i \in 1..n - 1 PROVE f[i] = s[i + 1] * f[i + 1]
      <3>1. f[i + 1] \in Nat \ {0}
        BY <1>4
      <3>2. f[i] = F[i][f[i + 1]]
        BY <1>4
      <3> QED BY <3>1, <3>2
    <2> QED BY <1>1, <1>2, <1>4, <2>1
  <1>6. R = [i \in Axes(s) |-> IF i = Len(s) THEN 1 ELSE s[i + 1] * R[i + 1]]
    BY <1>5, Zenon
  <1>7. RowMajor(s) = [i \in Axes(s) |-> R[i]]
    BY DEF RowMajor
  <1> HIDE DEF R
  <1>8. R[n] = 1 /\ \A i \in 1..n - 1 : R[i] = s[i + 1] * R[i + 1]
    BY <1>1, <1>2, <1>6
  <1>9. \A k \in 0..n - 1 : k + 1 \in {i \in 1..n : R[i] \in Nat \ {0}}
    <2> DEFINE S == {k \in 0..n - 1 : R[k + 1] \in Nat \ {0}}
    <2>1. n - 1 \in S
      BY <1>8
    <2>2. ASSUME NEW k \in 0..n - 1 - 1, k + 1 \in S PROVE k \in S
      <3>1. PICK v \in Nat \ {0} : v = R[k + 1 + 1]
        BY <2>2
      <3>2. PICK e \in Nat \ {0} : e = s[k + 1 + 1]
        BY <1>2
      <3>3. R[k + 1] = e * v
        BY <1>8, <3>1, <3>2
      <3>4. e * v \in Nat \ {0}
        OBVIOUS
      <3> QED BY <3>3, <3>4
    <2>3. \A k \in 0..n - 1 : k \in S
      <3> HIDE DEF S
      <3> QED BY <2>1, <2>2, Downward
    <2> QED BY <2>3
  <1>10. \A i \in 1..n : R[i] \in Nat \ {0}
    <2>1. \A i \in 1..n : i - 1 \in 0..n - 1 /\ i - 1 + 1 = i
      OBVIOUS
    <2> QED BY <1>9, <2>1
  <1> QED BY <1>1, <1>2, <1>7, <1>8, <1>10 DEF Strides

LEMMA NumElemsTyped ==
    ASSUME NEW s, IsShape(s)
    PROVE  NumElems(s) \in Nat \ {0}
  <1>1. 1 \in 1..Len(s) /\ s[1] \in Nat \ {0} /\ RowMajor(s)[1] \in Nat \ {0}
    BY ShapeTyped, RowMajorStrides DEF Strides
  <1>2. \A a, b \in Nat \ {0} : a * b \in Nat \ {0}
    OBVIOUS
  <1> QED BY <1>1, <1>2 DEF NumElems

(* Sums.                                                                   *)
Adds(f, w, n) == f \in [0..n -> Int] /\ f[0] = 0 /\ \A i \in 1..n : f[i] = f[i - 1] + w[i]

LEMMA SumExists ==
    ASSUME NEW n \in Nat, NEW w, \A i \in 1..n : w[i] \in Int
    PROVE  \E f : Adds(f, w, n)
  <1> DEFINE F == [i \in 1..n |-> [v \in Int |-> v + w[i]]]
  <1>4. PICK m, Z, b : m = n /\ Z = Int /\ b = 0
    OBVIOUS
  <1>1. Rounds(m, Z, b, F)
    BY <1>4 DEF Rounds
  <1>2. PICK f : f \in [0..m -> Z] /\ f[0] = b /\ \A k \in 1..m : f[k] = F[k][f[k - 1]]
    <2> HIDE DEF F
    <2> QED BY <1>1, LoopUp
  <1>3. ASSUME NEW k \in 1..n PROVE f[k] = f[k - 1] + w[k]
    <2>1. f[k - 1] \in Int
      BY <1>2, <1>4
    <2>2. f[k] = F[k][f[k - 1]]
      BY <1>2, <1>4
    <2> QED BY <2>1, <2>2
  <1> QED BY <1>2, <1>3, <1>4, SMTT(20) DEF Adds

(* Dot() adds the products of the coordinates and the strides.             *)
Row(n, c, t) == n \in Nat /\ Len(t) = n /\ \A i \in 1..n : c[i] \in Int /\ t[i] \in Int
Terms(f, w, n, c, t) ==
    /\ Adds(f, w, n) /\ Dot(c, t) = f[n] /\ Dot(c, t) \in Int
    /\ \A i \in 1..n : w[i] = c[i] * t[i] /\ w[i] \in Int

LEMMA DotSum ==
    ASSUME NEW l, NEW c, NEW t, Row(l, c, t)
    PROVE  \E f, w : Terms(f, w, l, c, t)
  <1>0. PICK n \in Nat : n = l /\ Len(t) = n /\ \A i \in 1..n : c[i] \in Int /\ t[i] \in Int
    BY DEF Row
  <1> DEFINE sum == CHOOSE f : f = [i \in 0..Len(t) |-> IF i = 0 THEN 0 ELSE f[i - 1] + c[i] * t[i]]
             w == [i \in 1..n |-> c[i] * t[i]]
  <1>1. \A i \in 1..n : w[i] = c[i] * t[i] /\ w[i] \in Int
    BY <1>0
  <1> HIDE DEF w
  <1>2. PICK f : Adds(f, w, n)
    BY <1>1, SumExists
  <1>3. f = [i \in 0..Len(t) |-> IF i = 0 THEN 0 ELSE f[i - 1] + c[i] * t[i]]
    <2>1. f = [i \in 0..n |-> f[i]] /\ f[0] = 0
      BY <1>2 DEF Adds
    <2>2. ASSUME NEW i \in 0..n, i # 0 PROVE f[i] = f[i - 1] + c[i] * t[i]
      <3>1. i \in 1..n
        BY <2>2
      <3> QED BY <1>1, <1>2, <3>1 DEF Adds
    <2> QED BY <1>0, <2>1, <2>2
  <1>4. sum = [i \in 0..Len(t) |-> IF i = 0 THEN 0 ELSE sum[i - 1] + c[i] * t[i]]
    BY <1>3, Zenon
  <1>5. Dot(c, t) = sum[n]
    BY <1>0 DEF Dot
  <1> HIDE DEF sum
  <1>6. sum[0] = 0 /\ \A i \in 1..n : sum[i] = sum[i - 1] + c[i] * t[i]
    BY <1>0, <1>4
  <1> DEFINE S == {k \in 0..n : sum[k] = f[k]}
  <1>7. 0 \in S
    BY <1>6, <1>2 DEF Adds
  <1>8. ASSUME NEW k \in 0..n - 1, k \in S PROVE k + 1 \in S
    <2>1. k + 1 \in 1..n /\ k + 1 - 1 = k
      OBVIOUS
    <2>2. f[k + 1] = f[k] + c[k + 1] * t[k + 1]
      BY <1>1, <1>2, <2>1 DEF Adds
    <2>3. sum[k + 1] = sum[k] + c[k + 1] * t[k + 1]
      BY <1>6, <2>1
    <2> QED BY <1>8, <2>2, <2>3
  <1>9. \A k \in 0..n : k \in S
    <2> HIDE DEF S
    <2> QED BY <1>7, <1>8, Upward
  <1>10. sum[n] = f[n]
    BY <1>9
  <1>11. f[n] \in Int
    BY <1>2 DEF Adds
  <1>12. Terms(f, w, l, c, t)
    BY <1>0, <1>1, <1>2, <1>5, <1>10, <1>11 DEF Terms
  <1> QED BY <1>12

(* Sums with the same terms; with one term more by x; with the terms in    *)
(* another order, among terms that are 0; and differences of sums.         *)
LEMMA SumSame ==
    ASSUME NEW n \in Nat, NEW f, NEW g, NEW v, NEW w, Adds(f, v, n), Adds(g, w, n),
           \A i \in 1..n : v[i] = w[i]
    PROVE  f[n] = g[n]
  <1> DEFINE S == {k \in 0..n : f[k] = g[k]}
  <1>1. 0 \in S
    BY DEF Adds
  <1>2. ASSUME NEW k \in 0..n - 1, k \in S PROVE k + 1 \in S
    <2>1. k + 1 \in 1..n /\ k + 1 - 1 = k
      OBVIOUS
    <2>2. f[k + 1] = f[k] + v[k + 1] /\ g[k + 1] = g[k] + w[k + 1] /\ v[k + 1] = w[k + 1]
      BY <2>1 DEF Adds
    <2> QED BY <1>2, <2>2
  <1>3. \A k \in 0..n : k \in S
    <2> HIDE DEF S
    <2> QED BY <1>1, <1>2, Upward
  <1> QED BY <1>3

LEMMA SumPoint ==
    ASSUME NEW n \in Nat, NEW f, NEW g, NEW v, NEW w, Adds(f, v, n), Adds(g, w, n),
           NEW p \in 1..n, NEW x \in Int,
           \A i \in 1..n : v[i] \in Int,
           \A i \in 1..n : w[i] = IF i = p THEN v[i] + x ELSE v[i]
    PROVE  g[n] = f[n] + x
  <1> DEFINE S == {k \in 0..n : g[k] = IF k < p THEN f[k] ELSE f[k] + x}
  <1>1. 0 \in S
    BY DEF Adds
  <1>2. ASSUME NEW k \in 0..n - 1, k \in S PROVE k + 1 \in S
    <2>1. k + 1 \in 1..n /\ k + 1 - 1 = k /\ f[k] \in Int /\ v[k + 1] \in Int
      BY DEF Adds
    <2>2. f[k + 1] = f[k] + v[k + 1] /\ g[k + 1] = g[k] + w[k + 1]
      BY <2>1 DEF Adds
    <2>3. w[k + 1] = IF k + 1 = p THEN v[k + 1] + x ELSE v[k + 1]
      BY <2>1
    <2>4. PICK a, b, c \in Int : a = f[k] /\ b = v[k + 1] /\ c = x
      BY <2>1
    <2> QED BY <1>2, <2>2, <2>3, <2>4
  <1>3. \A k \in 0..n : k \in S
    <2> HIDE DEF S
    <2> QED BY <1>1, <1>2, Upward
  <1> QED BY <1>3

LEMMA SumMinus ==
    ASSUME NEW n \in Nat, NEW f, NEW g, NEW h, NEW u, NEW v, NEW w,
           Adds(f, u, n), Adds(g, v, n), Adds(h, w, n),
           \A i \in 1..n : u[i] \in Int /\ v[i] \in Int /\ w[i] = u[i] - v[i]
    PROVE  h[n] = f[n] - g[n]
  <1> DEFINE S == {k \in 0..n : h[k] = f[k] - g[k]}
  <1>1. 0 \in S
    BY DEF Adds
  <1>2. ASSUME NEW k \in 0..n - 1, k \in S PROVE k + 1 \in S
    <2>1. k + 1 \in 1..n /\ k + 1 - 1 = k /\ f[k] \in Int /\ g[k] \in Int
      BY DEF Adds
    <2>2. /\ f[k + 1] = f[k] + u[k + 1] /\ g[k + 1] = g[k] + v[k + 1]
          /\ h[k + 1] = h[k] + w[k + 1]
      BY <2>1 DEF Adds
    <2>3. u[k + 1] \in Int /\ v[k + 1] \in Int /\ w[k + 1] = u[k + 1] - v[k + 1]
      BY <2>1
    <2>4. h[k] = f[k] - g[k]
      BY <1>2
    <2>5. h[k + 1] = f[k + 1] - g[k + 1]
      <3> QED BY ONLY <2>1, <2>2, <2>3, <2>4
    <2> QED BY <2>5
  <1>3. \A k \in 0..n : k \in S
    <2> HIDE DEF S
    <2> QED BY <1>1, <1>2, Upward
  <1> QED BY <1>3

LEMMA SumReorder ==
    ASSUME NEW n \in Nat, NEW m \in Nat, NEW f, NEW g, NEW v, NEW w, Adds(f, v, n), Adds(g, w, m),
           \A i \in 1..n : v[i] \in Int, \A a \in 1..m : w[a] \in Int,
           NEW h, \A a \in 1..m : h[a] \in 1..n /\ w[a] = v[h[a]],
           \A a, b \in 1..m : h[a] = h[b] => a = b,
           \A i \in 1..n : (\A a \in 1..m : h[a] # i) => v[i] = 0
    PROVE  f[n] = g[m]
  <1> DEFINE Upto(k) == [i \in 1..n |-> IF \E a \in 1..k : h[a] = i THEN v[i] ELSE 0]
             S == {k \in 0..m : \A e : Adds(e, Upto(k), n) => e[n] = g[k]}
  <1>1. 0 \in S
    <2>1. ASSUME NEW e, Adds(e, Upto(0), n) PROVE e[n] = g[0]
      <3>1. \A i \in 1..n : Upto(0)[i] = 0
        OBVIOUS
      <3> DEFINE T == {k \in 0..n : e[k] = 0}
      <3>2. 0 \in T
        BY <2>1 DEF Adds
      <3> HIDE DEF Upto
      <3>3. ASSUME NEW k \in 0..n - 1, k \in T PROVE k + 1 \in T
        <4>1. k + 1 \in 1..n /\ k + 1 - 1 = k
          OBVIOUS
        <4>2. e[k + 1] = e[k] + Upto(0)[k + 1]
          BY <2>1, <4>1 DEF Adds
        <4> QED BY <3>1, <3>3, <4>1, <4>2
      <3>4. \A k \in 0..n : k \in T
        <4> HIDE DEF T
        <4> QED BY <3>2, <3>3, Upward
      <3> QED BY <3>4 DEF Adds
    <2> HIDE DEF Upto
    <2> QED BY <2>1
  <1>2. ASSUME NEW k \in 0..m - 1, k \in S PROVE k + 1 \in S
    <2>1. k + 1 \in 1..m /\ k + 1 - 1 = k
      OBVIOUS
    <2>2. ASSUME NEW e, Adds(e, Upto(k + 1), n) PROVE e[n] = g[k + 1]
      <3>1. \A i \in 1..n : Upto(k)[i] \in Int
        OBVIOUS
      <3>2. PICK d : Adds(d, Upto(k), n)
        <4> HIDE DEF Upto
        <4> QED BY <3>1, SumExists
      <3>3. d[n] = g[k]
        BY <1>2, <3>2
      <3>4. PICK p \in 1..n, x \in Int : p = h[k + 1] /\ x = v[p]
        BY <2>1
      <3>5. ASSUME NEW i \in 1..n
            PROVE  Upto(k + 1)[i] = IF i = p THEN Upto(k)[i] + x ELSE Upto(k)[i]
        <4>1. \A a \in 1..k + 1 : a \in 1..k \/ a = k + 1
          OBVIOUS
        <4>2. \A a \in 1..k : a \in 1..m /\ a \in 1..k + 1 /\ a # k + 1
          OBVIOUS
        <4>3. CASE i = p
          <5>1. \A a \in 1..k : h[a] # i
            BY <4>2, <4>3, <3>4, <2>1
          <5>2. k + 1 \in 1..k + 1 /\ h[k + 1] = i
            BY <4>3, <3>4
          <5>3. Upto(k)[i] = 0 /\ Upto(k + 1)[i] = v[i]
            BY <5>1, <5>2
          <5> HIDE DEF Upto
          <5> QED BY <5>3, <4>3, <3>4
        <4>4. CASE i # p
          <5>1. (\E a \in 1..k + 1 : h[a] = i) <=> (\E a \in 1..k : h[a] = i)
            BY <4>1, <4>2, <4>4, <3>4
          <5> QED BY <5>1, <4>4
        <4> QED BY <4>3, <4>4
      <3>6. e[n] = d[n] + x
        <4> HIDE DEF Upto
        <4>1. PICK vd, ve : vd = Upto(k) /\ ve = Upto(k + 1)
          OBVIOUS
        <4>2. /\ Adds(d, vd, n) /\ Adds(e, ve, n) /\ \A i \in 1..n : vd[i] \in Int
              /\ \A i \in 1..n : ve[i] = IF i = p THEN vd[i] + x ELSE vd[i]
          BY <2>2, <3>1, <3>2, <3>5, <4>1
        <4> QED BY ONLY n \in Nat, p \in 1..n, x \in Int, <4>2, SumPoint
      <3>7. g[k + 1] = g[k] + w[k + 1] /\ w[k + 1] = x
        BY <2>1, <3>4 DEF Adds
      <3> QED BY <3>3, <3>6, <3>7
    <2> HIDE DEF Upto
    <2> QED BY <2>1, <2>2
  <1>3. m \in S
    <2>1. \A k \in 0..m : k \in S
      <3> HIDE DEF S
      <3> QED BY <1>1, <1>2, Upward
    <2> QED BY <2>1
  <1>4. \A i \in 1..n : Upto(m)[i] = v[i]
    OBVIOUS
  <1>5. \A i \in 1..n : Upto(m)[i] \in Int
    OBVIOUS
  <1>6. PICK e : Adds(e, Upto(m), n)
    <2> HIDE DEF Upto
    <2> QED BY <1>5, SumExists
  <1> HIDE DEF Upto
  <1>7. e[n] = g[m]
    BY <1>3, <1>6
  <1>8. e[n] = f[n]
    BY <1>4, <1>6, SumSame
  <1> QED BY <1>7, <1>8

-----------------------------------------------------------------------------
(* Arithmetic, and sums of products.                                       *)

LEMMA Times ==
    ASSUME NEW a \in Int, NEW b \in Int
    PROVE  /\ a * b \in Int /\ a * b = b * a
           /\ a > 0 /\ b > 0 => a * b >= a /\ a * b >= b
           /\ a >= 0 /\ b >= 0 => a * b >= 0
           /\ a > 0 /\ b <= -1 => a * b <= -a
           /\ a * 0 = 0 /\ 0 * b = 0 /\ a * 1 = a /\ 1 * b = b
  <1>1. a * b \in Int /\ a * b = b * a
    OBVIOUS
  <1>2. a > 0 /\ b > 0 => a * b >= a /\ a * b >= b
    OBVIOUS
  <1>3. a >= 0 /\ b >= 0 => a * b >= 0
    OBVIOUS
  <1>4. a > 0 /\ b <= -1 => a * b <= -a
    OBVIOUS
  <1>5. a * 0 = 0 /\ 0 * b = 0 /\ a * 1 = a /\ 1 * b = b
    OBVIOUS
  <1> QED BY <1>1, <1>2, <1>3, <1>4, <1>5

LEMMA Distribute ==
    ASSUME NEW a \in Int, NEW b \in Int, NEW c \in Int
    PROVE  /\ a * (b + c) = a * b + a * c /\ (b + c) * a = b * a + c * a
           /\ a * (b - c) = a * b - a * c /\ (b - c) * a = b * a - c * a
           /\ a * (b * c) = (a * b) * c
  OBVIOUS

(* Division with a remainder.                                              *)
LEMMA Divided ==
    ASSUME NEW a \in Int, NEW b \in Nat \ {0}
    PROVE  /\ a \div b \in Int /\ a % b \in 0..b - 1 /\ a = b * (a \div b) + (a % b)
           /\ a >= 0 => a \div b >= 0
  OBVIOUS

LEMMA DividedBy ==
    ASSUME NEW a \in Int, NEW b \in Nat \ {0}, NEW q \in Int, NEW r \in 0..b - 1, a = b * q + r
    PROVE  a \div b = q /\ a % b = r
  <1>1. PICK d, m \in Int : d = a \div b /\ m = a % b /\ m \in 0..b - 1 /\ a = b * d + m
    BY Divided
  <1>2. b * (q - d) = m - r
    <2>1. b * (q - d) = b * q - b * d
      BY Distribute, <1>1
    <2>2. b * q \in Int /\ b * d \in Int
      BY <1>1
    <2> QED BY ONLY <2>1, <2>2, <1>1, a = b * q + r, r \in 0..b - 1, b \in Nat, a \in Int
  <1>3. ~(q - d > 0)
    <2>1. q - d > 0 => b * (q - d) >= b
      BY <1>1, Times
    <2> QED BY ONLY <2>1, <1>1, <1>2, r \in 0..b - 1, b \in Nat \ {0}, q \in Int
  <1>4. ~(q - d <= -1)
    <2>1. q - d <= -1 => b * (q - d) <= -b
      BY <1>1, Times
    <2> QED BY ONLY <2>1, <1>1, <1>2, r \in 0..b - 1, b \in Nat \ {0}, q \in Int
  <1>5. q = d
    BY ONLY <1>1, <1>3, <1>4, q \in Int
  <1>6. r = m
    <2>1. b * q \in Int
      OBVIOUS
    <2> QED BY ONLY <1>5, <1>1, <2>1, a = b * q + r, r \in 0..b - 1, b \in Nat
  <1> QED BY <1>1, <1>5, <1>6

LEMMA DotInt ==
    ASSUME NEW n, NEW c, NEW t, Row(n, c, t)
    PROVE  Dot(c, t) \in Int
  <1>1. PICK f, w : Terms(f, w, n, c, t)
    BY DotSum
  <1> QED BY <1>1 DEF Terms

LEMMA DotSame ==
    ASSUME NEW n, NEW c, NEW t, NEW d, NEW u, Row(n, c, t), Row(n, d, u),
           \A i \in 1..n : c[i] * t[i] = d[i] * u[i]
    PROVE  Dot(c, t) = Dot(d, u)
  <1>1. PICK f, v : Terms(f, v, n, c, t)
    BY DotSum
  <1>2. PICK g, w : Terms(g, w, n, d, u)
    BY DotSum
  <1>3. \A i \in 1..n : v[i] = w[i]
    BY <1>1, <1>2 DEF Terms
  <1>4. n \in Nat /\ Adds(f, v, n) /\ Adds(g, w, n) /\ Dot(c, t) = f[n] /\ Dot(d, u) = g[n]
    BY <1>1, <1>2 DEF Terms, Row
  <1> QED BY ONLY <1>3, <1>4, SumSame

Bumped(n, c, t, d, u, p, x) ==
    /\ p \in 1..n /\ x \in Int
    /\ \A i \in 1..n : d[i] * u[i] = IF i = p THEN c[i] * t[i] + x ELSE c[i] * t[i]

LEMMA DotPoint ==
    ASSUME NEW n, NEW c, NEW t, NEW d, NEW u, Row(n, c, t), Row(n, d, u), NEW p, NEW x, Bumped(n, c, t, d, u, p, x)
    PROVE  Dot(d, u) = Dot(c, t) + x
  <1>1. PICK f, v : Terms(f, v, n, c, t)
    BY DotSum
  <1>2. PICK g, w : Terms(g, w, n, d, u)
    BY DotSum
  <1>3. p \in 1..n /\ x \in Int /\ \A i \in 1..n : v[i] \in Int /\ w[i] = IF i = p THEN v[i] + x ELSE v[i]
    BY <1>1, <1>2 DEF Terms, Bumped
  <1>4. n \in Nat /\ Adds(f, v, n) /\ Adds(g, w, n) /\ Dot(c, t) = f[n] /\ Dot(d, u) = g[n]
    BY <1>1, <1>2 DEF Terms, Row
  <1> QED BY ONLY <1>3, <1>4, SumPoint

LEMMA DotMinus ==
    ASSUME NEW n, NEW c, NEW t, NEW d, NEW u, NEW e, NEW y,
           Row(n, c, t), Row(n, d, u), Row(n, e, y),
           \A i \in 1..n : e[i] * y[i] = c[i] * t[i] - d[i] * u[i]
    PROVE  Dot(e, y) = Dot(c, t) - Dot(d, u)
  <1>1. PICK f, v : Terms(f, v, n, c, t)
    BY DotSum
  <1>2. PICK g, w : Terms(g, w, n, d, u)
    BY DotSum
  <1>3. PICK h, z : Terms(h, z, n, e, y)
    BY DotSum
  <1>4. \A i \in 1..n : v[i] \in Int /\ w[i] \in Int /\ z[i] = v[i] - w[i]
    BY <1>1, <1>2, <1>3 DEF Terms
  <1>5. /\ n \in Nat /\ Adds(f, v, n) /\ Adds(g, w, n) /\ Adds(h, z, n)
        /\ Dot(c, t) = f[n] /\ Dot(d, u) = g[n] /\ Dot(e, y) = h[n]
    BY <1>1, <1>2, <1>3 DEF Terms, Row
  <1> QED BY ONLY <1>4, <1>5, SumMinus

Embeds(h, m, n) == (\A a \in 1..m : h[a] \in 1..n) /\ \A a, b \in 1..m : h[a] = h[b] => a = b

LEMMA DotReorder ==
    ASSUME NEW n, NEW m, NEW c, NEW t, NEW d, NEW u, Row(n, c, t), Row(m, d, u),
           NEW h, Embeds(h, m, n), \A a \in 1..m : d[a] * u[a] = c[h[a]] * t[h[a]],
           \A i \in 1..n : (\A a \in 1..m : h[a] # i) => c[i] * t[i] = 0
    PROVE  Dot(c, t) = Dot(d, u)
  <1>1. PICK f, v : Terms(f, v, n, c, t)
    BY DotSum
  <1>2. PICK g, w : Terms(g, w, m, d, u)
    BY DotSum
  <1>3. \A a \in 1..m : h[a] \in 1..n /\ w[a] = v[h[a]]
    BY <1>1, <1>2 DEF Terms, Embeds
  <1>4. \A i \in 1..n : (\A a \in 1..m : h[a] # i) => v[i] = 0
    BY <1>1 DEF Terms
  <1>5. (\A i \in 1..n : v[i] \in Int) /\ \A a \in 1..m : w[a] \in Int
    BY <1>1, <1>2 DEF Terms
  <1>6. n \in Nat /\ m \in Nat /\ Adds(f, v, n) /\ Adds(g, w, m) /\ Dot(c, t) = f[n] /\ Dot(d, u) = g[m]
    BY <1>1, <1>2 DEF Terms, Row
  <1>7. \A a, b \in 1..m : h[a] = h[b] => a = b
    BY DEF Embeds
  <1>8. f[n] = g[m]
    BY ONLY <1>3, <1>4, <1>5, <1>6, <1>7, SumReorder
  <1> QED BY <1>6, <1>8

-----------------------------------------------------------------------------
(* Places and coordinates.                                                 *)

LEMMA Quotient ==
    ASSUME NEW a \in Int, NEW b \in Nat \ {0}
    PROVE  \E q \in Int, r \in 0..b - 1 :
             q = a \div b /\ r = a % b /\ a = b * q + r /\ (a >= 0 => q >= 0)
  <1>1. a \div b \in Int /\ a % b \in 0..b - 1 /\ a = b * (a \div b) + (a % b) /\ (a >= 0 => a \div b >= 0)
    BY Divided
  <1> QED BY <1>1, Zenon

LEMMA NestedDivision ==
    ASSUME NEW k \in Int, NEW a \in Nat \ {0}, NEW b \in Nat \ {0}
    PROVE  /\ a * b \in Nat \ {0}
           /\ k \div (a * b) = (k \div b) \div a
           /\ k % (a * b) = b * ((k \div b) % a) + (k % b)
  <1>0. k \in Int /\ a \in Nat \ {0} /\ b \in Nat \ {0}
    OBVIOUS
  <1>1. PICK q \in Int, r \in 0..b - 1 : q = k \div b /\ r = k % b /\ k = b * q + r
    BY ONLY <1>0, Quotient
  <1>2. PICK p \in Int, c \in 0..a - 1 : p = q \div a /\ c = q % a /\ q = a * p + c
    BY ONLY <1>0, q \in Int, Quotient
  <1>3. PICK x \in Nat \ {0} : x = a * b
    BY <1>0
  <1>4. PICK y \in Int : y = b * c
    BY <1>0, <1>2
  <1>5. k = x * p + (y + r)
    <2>1. b * q = b * (a * p) + b * c
      BY <1>0, <1>2, Distribute
    <2>2. b * (a * p) = (b * a) * p /\ b * a = a * b
      BY <1>0, <1>2, Distribute, Times
    <2>3. x * p \in Int
      BY <1>0, <1>2, <1>3
    <2>4. b * q = x * p + y
      BY ONLY <1>0, <2>1, <2>2, <1>3, <1>4
    <2> QED BY ONLY <1>0, <2>3, <2>4, <1>1, <1>4
  <1>6. y + r \in 0..x - 1
    <2>1. y >= 0
      BY <1>0, <1>2, <1>4, Times
    <2>2. PICK d \in Nat : d = a - 1 - c
      BY <1>0, <1>2
    <2>3. b * d \in Nat
      BY <1>0, <2>2
    <2>4. x = y + b * d + b
      <3>1. a = c + (d + 1)
        BY <1>0, <2>2, <1>2
      <3>2. b * (c + (d + 1)) = b * c + b * (d + 1)
        BY ONLY <1>0, Distribute, c \in 0..a - 1, d \in Nat
      <3>3. b * (d + 1) = b * d + b
        BY ONLY <1>0, d \in Nat
      <3>4. b * a = a * b
        BY <1>0
      <3> QED BY <3>1, <3>2, <3>3, <3>4, <1>3, <1>4, <2>3
    <2> QED BY ONLY <1>0, <2>1, <2>3, <2>4, <1>1, <1>3, <1>4
  <1>7. k \div x = p /\ k % x = y + r
    BY ONLY <1>0, <1>2, <1>3, <1>5, <1>6, DividedBy
  <1> QED BY ONLY <1>0, <1>1, <1>2, <1>3, <1>4, <1>7

Factors(k, a, b) == k \in Int /\ a \in Nat \ {0} /\ b \in Nat \ {0}

LEMMA DividedTwice ==
    ASSUME NEW k, NEW a, NEW b, Factors(k, a, b)
    PROVE  /\ a * b \in Nat \ {0}
           /\ k \div (a * b) = (k \div b) \div a
           /\ k % (a * b) = b * ((k \div b) % a) + (k % b)
  <1>1. k \in Int /\ a \in Nat \ {0} /\ b \in Nat \ {0}
    BY DEF Factors
  <1> QED BY ONLY <1>1, NestedDivision

InBox(c, s) == \A i \in 1..Len(s) : c[i] \in 0..s[i] - 1

LEMMA CoordsInBox ==
    ASSUME NEW s, IsShape(s), NEW k, k \in Int
    PROVE  /\ InBox(Coords(s, k), s)
           /\ \A i \in 1..Len(s) : Coords(s, k)[i] = (k \div RowMajor(s)[i]) % s[i]
  <1>1. PICK l \in Int : l = k
    OBVIOUS
  <1>2. ASSUME NEW i \in 1..Len(s)
        PROVE  Coords(s, k)[i] = (k \div RowMajor(s)[i]) % s[i] /\ Coords(s, k)[i] \in 0..s[i] - 1
    <2>1. PICK e, r \in Nat \ {0} : e = s[i] /\ r = RowMajor(s)[i]
      BY ShapeTyped, RowMajorStrides DEF Strides
    <2>2. Coords(s, k)[i] = (k \div RowMajor(s)[i]) % s[i]
      BY ShapeTyped DEF Coords
    <2>3. PICK q \in Int : q = l \div r
      BY <2>1, Divided
    <2>4. q % e \in 0..e - 1
      BY <2>1, <2>3, Divided
    <2> QED BY <1>1, <2>1, <2>2, <2>3, <2>4
  <1> QED BY <1>2 DEF InBox

LEMMA BoxRow ==
    ASSUME NEW s, IsShape(s), NEW c, InBox(c, s)
    PROVE  Row(Len(s), c, RowMajor(s))
  <1>1. Len(s) \in Nat /\ RowMajor(s) \in [1..Len(s) -> Nat \ {0}] /\ s \in [1..Len(s) -> Nat \ {0}]
    BY ShapeTyped, RowMajorStrides DEF Strides
  <1>2. Len(RowMajor(s)) = Len(s)
    BY <1>1, FunctionSeq
  <1>3. \A i \in 1..Len(s) : c[i] \in Int /\ RowMajor(s)[i] \in Int
    BY <1>1 DEF InBox
  <1> QED BY <1>1, <1>2, <1>3 DEF Row

(* The coordinates of a place are those of no other.                       *)
LEMMA PlaceOfCoords ==
    ASSUME NEW s, IsShape(s), NEW k, k \in Places(s)
    PROVE  Place(s, Coords(s, k)) = k
  <1>0. NumElems(s) \in Nat
    BY NumElemsTyped
  <1>1. PICK n \in Nat \ {0}, l \in Nat : n = Len(s) /\ l = k /\ l < NumElems(s)
    BY <1>0, ShapeTyped DEF Places
  <1>2. PICK R : R = RowMajor(s)
    OBVIOUS
  <1>3. R \in [1..n -> Nat \ {0}] /\ R[n] = 1 /\ \A i \in 1..n - 1 : R[i] = s[i + 1] * R[i + 1]
    BY <1>1, <1>2, RowMajorStrides DEF Strides
  <1>4. s \in [1..n -> Nat \ {0}]
    BY <1>1, ShapeTyped
  <1>5. PICK c : c = Coords(s, k)
    OBVIOUS
  <1>6. InBox(c, s) /\ \A i \in 1..n : c[i] = (l \div R[i]) % s[i]
    BY <1>1, <1>2, <1>5, CoordsInBox
  <1>7. Row(n, c, R)
    BY <1>1, <1>2, <1>6, BoxRow
  <1>8. PICK f, w : Terms(f, w, n, c, R)
    BY ONLY <1>7, DotSum
  <1>9. /\ f \in [0..n -> Int] /\ f[0] = 0 /\ Dot(c, R) = f[n]
        /\ \A i \in 1..n : f[i] = f[i - 1] + c[i] * R[i]
    BY <1>8 DEF Terms, Adds
  <1> DEFINE S == {j \in 0..n - 1 : f[j + 1] = l - (l % R[j + 1])}
  <1>10. 0 \in S
    <2>1. PICK e, r \in Nat \ {0} : e = s[1] /\ r = R[1]
      BY <1>3, <1>4
    <2>2. PICK q \in Int, m \in 0..r - 1 : q = l \div r /\ m = l % r /\ l = r * q + m /\ q >= 0
      BY ONLY r \in Nat \ {0}, l \in Nat, Quotient
    <2>3. l < e * r
      BY <1>1, <1>2, <2>1 DEF NumElems
    <2>4. q < e
      <3>1. r * (q - e) = r * q - r * e /\ r * e = e * r
        BY ONLY Distribute, r \in Nat \ {0}, q \in Int, e \in Nat \ {0}
      <3>2. q - e >= 0 => r * (q - e) >= 0
        BY ONLY Times, r \in Nat \ {0}, q \in Int, e \in Nat \ {0}
      <3>3. r * q \in Int /\ r * e \in Int
        OBVIOUS
      <3> QED BY ONLY <3>1, <3>2, <3>3, <2>2, <2>3, l \in Nat, r \in Nat, e \in Nat, q \in Int, m \in 0..r - 1
    <2>5. q % e = q
      <3>1. q = e * 0 + q
        BY <2>2
      <3> QED BY ONLY <3>1, <2>2, <2>4, DividedBy, e \in Nat \ {0}
    <2>6. f[1] = f[0] + c[1] * R[1] /\ c[1] = q
      BY <1>6, <1>9, <2>1, <2>2, <2>5
    <2>7. f[1] = l - m
      <3>1. q * r = r * q /\ q * r \in Int
        BY <2>2, Times
      <3> QED BY ONLY <3>1, <2>6, <2>1, <2>2, <1>9
    <2> QED BY <2>1, <2>2, <2>7
  <1>11. ASSUME NEW j \in 0..n - 1 - 1, j \in S PROVE j + 1 \in S
    <2>1. j + 1 \in 1..n - 1 /\ j + 2 \in 1..n /\ j + 1 + 1 = j + 2 /\ j + 2 - 1 = j + 1 /\ j + 1 \in 0..n - 1
      OBVIOUS
    <2>2. PICK e, r \in Nat \ {0} : e = s[j + 2] /\ r = R[j + 2]
      BY <1>3, <1>4, <2>1
    <2>3. R[j + 1] = e * r
      BY <1>3, <2>1, <2>2
    <2>4. PICK q \in Int, m \in 0..r - 1 : q = l \div r /\ m = l % r
      BY ONLY r \in Nat \ {0}, l \in Nat, Quotient
    <2>5. PICK x \in Int : x = q % e
      BY ONLY q \in Int, e \in Nat \ {0}, Quotient
    <2>12. Factors(l, e, r)
      BY DEF Factors
    <2>11. x = c[j + 2]
      BY <1>6, <2>1, <2>2, <2>4, <2>5
    <2>6. l % (e * r) = r * x + m
      <3>1. l % (e * r) = r * ((l \div r) % e) + (l % r)
        BY ONLY DividedTwice, <2>12
      <3> QED BY ONLY <3>1, <2>4, <2>5
    <2>7. f[j + 2] = f[j + 1] + x * r
      BY <1>9, <2>1, <2>2, <2>11
    <2>8. f[j + 1] = l - (l % (e * r))
      BY <1>11, <2>3
    <2>9. x * r = r * x /\ x * r \in Int
      BY <2>2, <2>5, Times
    <2>10. f[j + 2] = l - m
      BY ONLY <2>6, <2>7, <2>8, <2>9, x \in Int, m \in 0..r - 1, r \in Nat, l \in Nat
    <2> QED BY <2>1, <2>2, <2>4, <2>10
  <1>12. \A j \in 0..n - 1 : j \in S
    <2> HIDE DEF S
    <2> QED BY <1>10, <1>11, Upward
  <1>13. f[n] = l - (l % 1)
    <2>1. n - 1 \in 0..n - 1 /\ n - 1 + 1 = n
      OBVIOUS
    <2> QED BY <1>12, <2>1, <1>3
  <1>14. l % 1 = 0
    OBVIOUS
  <1> QED BY <1>1, <1>2, <1>5, <1>9, <1>13, <1>14 DEF Place

LEMMA Below ==
    ASSUME NEW e \in Nat \ {0}, NEW r \in Nat \ {0}, NEW c \in 0..e - 1, NEW t \in 0..r - 1
    PROVE  c * r + t \in 0..e * r - 1
  <1>1. PICK d \in Nat : d = e - 1 - c
    OBVIOUS
  <1>2. e * r = c * r + d * r + r
    <2>1. e = c + (d + 1)
      BY <1>1
    <2>2. (c + (d + 1)) * r = c * r + (d + 1) * r
      BY Distribute
    <2>3. (d + 1) * r = d * r + r
      OBVIOUS
    <2>4. c * r \in Int /\ d * r \in Int
      OBVIOUS
    <2> QED BY ONLY <2>1, <2>2, <2>3, <2>4, r \in Nat
  <1>3. c * r \in Nat /\ d * r \in Nat /\ e * r \in Int
    OBVIOUS
  <1> QED BY ONLY <1>2, <1>3, r \in Nat, t \in 0..r - 1

Digit(p, q, e, c, r, t) ==
    /\ q \in Int /\ e \in Nat \ {0} /\ c \in 0..e - 1 /\ r \in Nat \ {0} /\ t \in 0..r - 1
    /\ p \in Int /\ p = (q * e + c) * r + t

LEMMA QuotientOf ==
    ASSUME NEW p, NEW q, NEW e, NEW c, NEW r, NEW t, Digit(p, q, e, c, r, t)
    PROVE  (p \div r) % e = c
  <1>1. /\ q \in Int /\ e \in Nat \ {0} /\ c \in 0..e - 1 /\ r \in Nat \ {0} /\ t \in 0..r - 1
        /\ p \in Int /\ p = (q * e + c) * r + t
    BY DEF Digit
  <1>2. PICK q1, p1 \in Int, e1, r1 \in Nat \ {0} : q1 = q /\ p1 = p /\ e1 = e /\ r1 = r
    BY <1>1
  <1>3. PICK c1 \in 0..e1 - 1, t1 \in 0..r1 - 1 : c1 = c /\ t1 = t
    BY <1>1, <1>2
  <1>4. p1 = (q1 * e1 + c1) * r1 + t1
    BY <1>1, <1>2, <1>3
  <1>5. PICK x \in Int : x = q1 * e1 + c1
    OBVIOUS
  <1>6. p1 = r1 * x + t1
    <2>1. x * r1 = r1 * x
      OBVIOUS
    <2> QED BY ONLY <2>1, <1>4, <1>5
  <1>7. p1 \div r1 = x
    BY ONLY <1>6, x \in Int, p1 \in Int, r1 \in Nat \ {0}, t1 \in 0..r1 - 1, DividedBy
  <1>8. x = e1 * q1 + c1
    BY <1>5
  <1>9. x % e1 = c1
    BY ONLY <1>8, x \in Int, q1 \in Int, e1 \in Nat \ {0}, c1 \in 0..e1 - 1, DividedBy
  <1> QED BY <1>2, <1>3, <1>7, <1>9

LEMMA CoordsOfPlace ==
    ASSUME NEW s, IsShape(s), NEW c, InBox(c, s)
    PROVE  /\ Place(s, c) \in Places(s)
           /\ \A i \in 1..Len(s) : Coords(s, Place(s, c))[i] = c[i]
  <1>1. PICK n \in Nat \ {0} : n = Len(s)
    BY ShapeTyped
  <1>2. PICK R : R = RowMajor(s)
    OBVIOUS
  <1>3. R \in [1..n -> Nat \ {0}] /\ R[n] = 1 /\ \A i \in 1..n - 1 : R[i] = s[i + 1] * R[i + 1]
    BY <1>1, <1>2, RowMajorStrides DEF Strides
  <1>4. s \in [1..n -> Nat \ {0}]
    BY <1>1, ShapeTyped
  <1>5. \A i \in 1..n : c[i] \in 0..s[i] - 1
    BY <1>1 DEF InBox
  <1>6. Row(n, c, R)
    BY <1>1, <1>2, BoxRow
  <1>7. PICK f, w : Terms(f, w, n, c, R)
    BY ONLY <1>6, DotSum
  <1>8. /\ f \in [0..n -> Int] /\ f[0] = 0 /\ Dot(c, R) = f[n]
        /\ \A i \in 1..n : f[i] = f[i - 1] + c[i] * R[i]
    BY <1>7 DEF Terms, Adds
  <1> DEFINE S == {j \in 0..n - 1 : f[n] - f[j + 1] \in 0..R[j + 1] - 1}
             T == {j \in 0..n - 1 : \E q \in Int : f[j + 1] = (q * s[j + 1] + c[j + 1]) * R[j + 1]}
  <1>9. n - 1 \in S
    <2>1. n - 1 + 1 = n /\ f[n] \in Int
      BY <1>8
    <2>2. f[n] - f[n] = 0
      BY <2>1
    <2> QED BY <2>1, <2>2, <1>3
  <1>10. ASSUME NEW j \in 0..n - 1 - 1, j + 1 \in S PROVE j \in S
    <2>1. j + 1 \in 1..n - 1 /\ j + 2 \in 1..n /\ j + 1 + 1 = j + 2 /\ j + 2 - 1 = j + 1 /\ j + 1 \in 0..n
      OBVIOUS
    <2>2. PICK e, r \in Nat \ {0} : e = s[j + 2] /\ r = R[j + 2]
      BY <1>3, <1>4, <2>1
    <2>3. PICK x \in 0..e - 1 : x = c[j + 2]
      BY <1>5, <2>1, <2>2
    <2>4. PICK t \in 0..r - 1 : t = f[n] - f[j + 2]
      BY <1>10, <2>1, <2>2
    <2>8. R[j + 1] = e * r
      BY <1>3, <2>1, <2>2
    <2>9. f[j + 2] = f[j + 1] + x * r
      BY <1>8, <2>1, <2>2, <2>3
    <2>5. R[j + 1] = e * r /\ f[j + 2] = f[j + 1] + x * r
      BY <2>8, <2>9
    <2>6. x * r + t \in 0..e * r - 1
      BY ONLY Below, e \in Nat \ {0}, r \in Nat \ {0}, x \in 0..e - 1, t \in 0..r - 1
    <2>7. f[n] - f[j + 1] = x * r + t
      <3>1. f[n] \in Int /\ f[j + 1] \in Int /\ f[j + 2] \in Int /\ x * r \in Int
        BY <1>8, <2>1
      <3> QED BY ONLY <3>1, <2>4, <2>5
    <2> QED BY <2>5, <2>6, <2>7
  <1>11. \A j \in 0..n - 1 : j \in S
    <2> HIDE DEF S
    <2> QED BY <1>9, <1>10, Downward
  <1>12. 0 \in T
    <2>1. f[1] = (0 * s[1] + c[1]) * R[1]
      <3>1. f[1] = f[0] + c[1] * R[1] /\ c[1] \in Int /\ s[1] \in Int /\ R[1] \in Int
        BY <1>3, <1>4, <1>5, <1>8
      <3>2. PICK x, y, z \in Int : x = c[1] /\ y = s[1] /\ z = R[1]
        BY <3>1
      <3>3. 0 * y + x = x /\ x * z \in Int
        OBVIOUS
      <3> QED BY <3>1, <3>2, <3>3, <1>8
    <2> QED BY <2>1
  <1>13. ASSUME NEW j \in 0..n - 1 - 1, j \in T PROVE j + 1 \in T
    <2>1. /\ j + 1 \in 1..n - 1 /\ j + 2 \in 1..n /\ j + 1 + 1 = j + 2 /\ j + 2 - 1 = j + 1
          /\ j + 1 \in 0..n - 1 /\ j + 1 \in 1..n
      OBVIOUS
    <2>2. PICK e, r \in Nat \ {0} : e = s[j + 2] /\ r = R[j + 2]
      BY <1>3, <1>4, <2>1
    <2>3. PICK x \in Int : x = c[j + 2]
      BY <1>5, <2>1, <2>2
    <2>4. PICK q \in Int : f[j + 1] = (q * s[j + 1] + c[j + 1]) * R[j + 1]
      BY <1>13
    <2>5. PICK g, h \in Int : g = s[j + 1] /\ h = c[j + 1]
      BY <1>4, <1>5, <2>1
    <2>6. PICK p \in Int : p = q * g + h
      OBVIOUS
    <2>10. R[j + 1] = e * r
      BY <1>3, <2>1, <2>2
    <2>11. f[j + 2] = f[j + 1] + x * r
      BY <1>8, <2>1, <2>2, <2>3
    <2>12. f[j + 1] = p * R[j + 1]
      BY <2>4, <2>5, <2>6
    <2>7. f[j + 1] = p * (e * r) /\ f[j + 2] = f[j + 1] + x * r
      BY ONLY <2>10, <2>11, <2>12
    <2>8. p * (e * r) = (p * e) * r /\ (p * e + x) * r = (p * e) * r + x * r
      <3>1. p * e \in Int
        OBVIOUS
      <3>2. PICK z \in Int : z = p * e
        BY <3>1
      <3>3. (z + x) * r = z * r + x * r
        BY ONLY Distribute, z \in Int, x \in Int, r \in Nat
      <3>4. p * (e * r) = (p * e) * r
        BY ONLY Distribute, p \in Int, e \in Nat, r \in Nat
      <3> QED BY <3>2, <3>3, <3>4
    <2>9. f[j + 2] = (p * e + x) * r
      BY ONLY <2>7, <2>8
    <2> QED BY <2>1, <2>2, <2>3, <2>9
  <1>14. \A j \in 0..n - 1 : j \in T
    <2> HIDE DEF T
    <2> QED BY <1>12, <1>13, Upward
  <1>15. Place(s, c) = f[n] /\ f[n] \in Int
    BY <1>2, <1>8 DEF Place
  <1>16. ASSUME NEW i \in 1..n PROVE Coords(s, Place(s, c))[i] = c[i]
    <2>1. i - 1 \in 0..n - 1 /\ i - 1 + 1 = i
      OBVIOUS
    <2>2. PICK e, r \in Nat \ {0} : e = s[i] /\ r = R[i]
      BY <1>3, <1>4
    <2>3. PICK x \in 0..e - 1 : x = c[i]
      BY <1>5, <2>2
    <2>4. i - 1 \in S /\ i - 1 \in T
      BY <1>11, <1>14, <2>1
    <2>5. PICK q \in Int : f[i] = (q * e + x) * r
      BY <2>1, <2>2, <2>3, <2>4
    <2>6. PICK t \in 0..r - 1 : t = f[n] - f[i]
      BY <2>1, <2>2, <2>4
    <2>7. PICK p \in Int : p = f[n]
      BY <1>15
    <2>8. p = (q * e + x) * r + t
      <3>1. f[i] \in Int
        BY <1>8
      <3> QED BY ONLY <3>1, <2>5, <2>6, <2>7
    <2>11. Digit(p, q, e, x, r, t)
      BY <2>8 DEF Digit
    <2>9. (p \div r) % e = x
      BY ONLY <2>11, QuotientOf
    <2>10. Coords(s, Place(s, c))[i] = (f[n] \div R[i]) % s[i]
      BY <1>1, <1>2, <1>15, CoordsInBox
    <2> QED BY <2>2, <2>3, <2>7, <2>9, <2>10
  <1>17. Place(s, c) \in Places(s)
    <2>1. PICK e, r \in Nat \ {0} : e = s[1] /\ r = R[1]
      BY <1>3, <1>4
    <2>2. PICK x \in 0..e - 1 : x = c[1]
      BY <1>5, <2>1
    <2>3. 0 \in S
      BY <1>11
    <2>4. PICK t \in 0..r - 1 : t = f[n] - f[1]
      BY <2>1, <2>3
    <2>5. x * r + t \in 0..e * r - 1
      BY ONLY Below, e \in Nat \ {0}, r \in Nat \ {0}, x \in 0..e - 1, t \in 0..r - 1
    <2>6. f[1] = x * r
      <3>1. f[1] = f[0] + c[1] * R[1] /\ x * r \in Int
        BY <1>8
      <3> QED BY <3>1, <1>8, <2>1, <2>2
    <2>7. f[n] = x * r + t
      <3>1. x * r \in Int /\ f[n] \in Int
        BY <1>15
      <3> QED BY ONLY <3>1, <2>4, <2>6
    <2> QED BY <1>2, <1>15, <2>1, <2>5, <2>7 DEF Places, NumElems
  <1> QED BY <1>1, <1>16, <1>17

-----------------------------------------------------------------------------
(* Layouts, and one description merged into a layout.                      *)

(* Layouts of the compiler, and what is at given coordinates of one.       *)
Fields(l) == l = [shape |-> l.shape, stride |-> l.stride, offset |-> l.offset]
Layout(l) ==
    /\ Fields(l)
    /\ IsShape(l.shape) /\ l.stride \in [1..Len(l.shape) -> Int]
    /\ l.offset \in Int
SameBytes(m, l) == m.offset % DtypeSize = l.offset % DtypeSize
At(l, c) == l.offset \div DtypeSize + Dot(c, l.stride)

LEMMA NewShape ==
    ASSUME NEW l, NEW e, Fields(l)
    PROVE  [l EXCEPT !.shape = e] = [shape |-> e, stride |-> l.stride, offset |-> l.offset]
  <1> USE DEF Fields
  <1> DEFINE a == [l EXCEPT !.shape = e]
             b == [shape |-> e, stride |-> l.stride, offset |-> l.offset]
  <1>1. DOMAIN a = {"shape", "stride", "offset"} /\ DOMAIN b = {"shape", "stride", "offset"}
    OBVIOUS
  <1>2. a.shape = b.shape /\ a.stride = b.stride /\ a.offset = b.offset
    OBVIOUS
  <1>3. a = [i \in DOMAIN a |-> a[i]] /\ b = [i \in DOMAIN b |-> b[i]]
    OBVIOUS
  <1> HIDE DEF a, b, Fields
  <1>4. \A i \in DOMAIN a : a[i] = b[i]
    BY ONLY <1>1, <1>2
  <1>5. a = b
    BY ONLY <1>1, <1>3, <1>4
  <1> QED BY <1>5 DEF a, b

LEMMA NewStride ==
    ASSUME NEW l, NEW e, Fields(l)
    PROVE  [l EXCEPT !.stride = e] = [shape |-> l.shape, stride |-> e, offset |-> l.offset]
  <1> USE DEF Fields
  <1> DEFINE a == [l EXCEPT !.stride = e]
             b == [shape |-> l.shape, stride |-> e, offset |-> l.offset]
  <1>1. DOMAIN a = {"shape", "stride", "offset"} /\ DOMAIN b = {"shape", "stride", "offset"}
    OBVIOUS
  <1>2. a.shape = b.shape /\ a.stride = b.stride /\ a.offset = b.offset
    OBVIOUS
  <1>3. a = [i \in DOMAIN a |-> a[i]] /\ b = [i \in DOMAIN b |-> b[i]]
    OBVIOUS
  <1> HIDE DEF a, b, Fields
  <1>4. \A i \in DOMAIN a : a[i] = b[i]
    BY ONLY <1>1, <1>2
  <1>5. a = b
    BY ONLY <1>1, <1>3, <1>4
  <1> QED BY <1>5 DEF a, b

LEMMA NewOffset ==
    ASSUME NEW l, NEW e, Fields(l)
    PROVE  [l EXCEPT !.offset = e] = [shape |-> l.shape, stride |-> l.stride, offset |-> e]
  <1> USE DEF Fields
  <1> DEFINE a == [l EXCEPT !.offset = e]
             b == [shape |-> l.shape, stride |-> l.stride, offset |-> e]
  <1>1. DOMAIN a = {"shape", "stride", "offset"} /\ DOMAIN b = {"shape", "stride", "offset"}
    OBVIOUS
  <1>2. a.shape = b.shape /\ a.stride = b.stride /\ a.offset = b.offset
    OBVIOUS
  <1>3. a = [i \in DOMAIN a |-> a[i]] /\ b = [i \in DOMAIN b |-> b[i]]
    OBVIOUS
  <1> HIDE DEF a, b, Fields
  <1>4. \A i \in DOMAIN a : a[i] = b[i]
    BY ONLY <1>1, <1>2
  <1>5. a = b
    BY ONLY <1>1, <1>3, <1>4
  <1> QED BY <1>5 DEF a, b

LEMMA NewShapeStride ==
    ASSUME NEW l, NEW e, NEW f, Fields(l)
    PROVE  [l EXCEPT !.shape = e, !.stride = f] = [shape |-> e, stride |-> f, offset |-> l.offset]
  <1>1. PICK m : m = [l EXCEPT !.shape = e]
    OBVIOUS
  <1>2. m = [shape |-> e, stride |-> l.stride, offset |-> l.offset]
    BY <1>1, NewShape
  <1>3. m.shape = e /\ m.stride = l.stride /\ m.offset = l.offset
    BY <1>2
  <1>4. Fields(m)
    BY <1>2, <1>3 DEF Fields
  <1>5. [m EXCEPT !.stride = f] = [shape |-> m.shape, stride |-> f, offset |-> m.offset]
    BY ONLY <1>4, NewStride
  <1>6. [l EXCEPT !.shape = e, !.stride = f] = [m EXCEPT !.stride = f]
    BY <1>1
  <1> QED BY <1>3, <1>5, <1>6

LEMMA BytesAdded ==
    ASSUME NEW o \in Int, NEW d \in Nat \ {0}, NEW x \in Int
    PROVE  (o + x * d) % d = o % d /\ (o + x * d) \div d = (o \div d) + x /\ o + x * d \in Int
  <1>1. PICK q \in Int, r \in 0..d - 1 : q = o \div d /\ r = o % d /\ o = d * q + r
    BY ONLY o \in Int, d \in Nat \ {0}, Quotient
  <1>2. PICK y \in Int : y = o + x * d
    OBVIOUS
  <1>3. y = d * (q + x) + r
    <2>1. d * (q + x) = d * q + d * x /\ d * x = x * d /\ d * q \in Int /\ d * x \in Int
      BY Distribute
    <2>2. r \in Int
      OBVIOUS
    <2> QED BY ONLY <2>1, <2>2, <1>1, <1>2
  <1>4. PICK z \in Int : z = q + x
    OBVIOUS
  <1>5. y \div d = z /\ y % d = r
    <2>1. y = d * z + r /\ r \in 0..d - 1
      BY <1>3, <1>4
    <2> QED BY ONLY <2>1, y \in Int, z \in Int, d \in Nat \ {0}, DividedBy
  <1> QED BY <1>1, <1>2, <1>4, <1>5

LEMMA Relaxed ==
    ASSUME NEW l, Layout(l), NEW axis \in 1..Len(l.shape)
    PROVE  \E T : /\ T \in [1..Len(l.shape) -> Int]
                  /\ StridesRelaxed(l, axis) = [l EXCEPT !.stride = T]
                  /\ \A i \in 1..Len(l.shape) : T[i] = l.stride[i] \/ l.shape[i] = 1
  <1>1. PICK n \in Nat \ {0} : n = Len(l.shape)
    BY ShapeTyped DEF Layout
  <1>2. l.stride \in [1..n -> Int] /\ l.shape \in [1..n -> Nat \ {0}] /\ axis \in 1..n
    BY <1>1, ShapeTyped DEF Layout
  <1> DEFINE a == IF l.shape[axis] # 1 /\ axis > 1 THEN axis - 1 ELSE axis
             stride == IF a < n THEN l.stride[a + 1] * l.shape[a + 1] ELSE 1
             run == {i \in 1..a : \A j \in i..a : l.shape[j] = 1}
             T == [i \in 1..n |-> IF i \in run THEN stride ELSE l.stride[i]]
  <1>3. a \in 1..n
    BY <1>2
  <1>4. stride \in Int
    <2>1. CASE a < n
      <3> HIDE DEF a
      <3>6. a + 1 \in 1..n
        BY <1>3, <2>1
      <3>1. l.stride[a + 1] \in Int /\ l.shape[a + 1] \in Int
        BY <1>2, <3>6
      <3>2. PICK x : x = l.stride[a + 1]
        OBVIOUS
      <3>3. PICK y : y = l.shape[a + 1]
        OBVIOUS
      <3>4. x \in Int /\ y \in Int
        BY ONLY <3>1, <3>2, <3>3
      <3>5. x * y \in Int
        BY ONLY <3>4, Times
      <3> QED BY <2>1, <3>2, <3>3, <3>5
    <2> QED BY <2>1
  <1>5. \A i \in run : l.shape[i] = 1
    <2> HIDE DEF a
    <2> QED BY <1>3
  <1>6. T \in [1..n -> Int]
    <2> HIDE DEF stride, run
    <2> QED BY <1>2, <1>4
  <1>7. StridesRelaxed(l, axis) = [l EXCEPT !.stride = T]
    BY <1>1 DEF StridesRelaxed, Layout
  <1>8. \A i \in 1..n : T[i] = l.stride[i] \/ l.shape[i] = 1
    <2> HIDE DEF stride, run
    <2> QED BY <1>5
  <1> HIDE DEF T
  <1> QED BY <1>1, <1>6, <1>7, <1>8

(* What merge() takes along an axis of n.                                  *)
First(d, n) == IF index_of(d) # -1 THEN index_of(d) ELSE begin_of(d, n)
Step(d) == IF index_of(d) # -1 THEN 1 ELSE d.step
Extent(d, n) ==
    LET end == IF index_of(d) # -1 THEN First(d, n) + Step(d) ELSE end_of(d, n)
    IN  (Abs(end - First(d, n)) + Abs(Step(d)) - 1) \div Abs(Step(d))

Takes(d, n, f, p, e) ==
    f = First(d, n) /\ p = Step(d) /\ e = Extent(d, n) /\ f \in Int /\ p \in Int /\ e \in Nat \ {0}
Moves(b, c, n, i, f, p) == \A j \in 1..n : b[j] = IF j = i THEN f + p * c[j] ELSE c[j]
Slicing(m, l, i, f, p, e) ==
    /\ Layout(m) /\ m.shape = [l.shape EXCEPT ![i] = e] /\ SameBytes(m, l)
    /\ \A c, b : InBox(c, m.shape) /\ Moves(b, c, Len(l.shape), i, f, p) => At(m, c) = At(l, b)

LEMMA Merged ==
    ASSUME NEW inp, NEW l, Layout(l), NEW d, NEW i, i = d.axis + 1, i \in 1..Len(l.shape),
           NEW f, NEW p, NEW e, Takes(d, inp.shape[i], f, p, e)
    PROVE  Slicing(merge(inp, l, d), l, i, f, p, e)
  <1>1. PICK n \in Nat \ {0} : n = Len(l.shape)
    BY ShapeTyped DEF Layout
  <1>2. l.stride \in [1..n -> Int] /\ l.shape \in [1..n -> Nat \ {0}] /\ i \in 1..n
    BY <1>1, ShapeTyped DEF Layout
  <1>3. f \in Int /\ p \in Int /\ e \in Nat \ {0}
    BY DEF Takes
  <1> DEFINE shape == [l.shape EXCEPT ![i] = e]
             stride == [l.stride EXCEPT ![i] = l.stride[i] * p]
             sliced == [shape |-> shape, stride |-> stride, offset |-> l.offset]
             m == merge(inp, l, d)
  <1>4. shape \in [1..n -> Nat \ {0}] /\ IsShape(shape) /\ Len(shape) = n
    <2>1. shape \in [1..n -> Nat \ {0}]
      BY <1>2, <1>3
    <2> HIDE DEF shape
    <2> QED BY <2>1, FunctionShape
  <1>5. stride \in [1..n -> Int]
    <2>1. PICK x, y \in Int : x = l.stride[i] /\ y = p
      BY <1>2, <1>3
    <2>2. x * y \in Int
      OBVIOUS
    <2> QED BY <1>2, <2>1, <2>2
  <1>6. [l EXCEPT !.shape[i] = e, !.stride[i] = @ * p] = sliced
    <2>1. [l EXCEPT !.shape[i] = e, !.stride[i] = @ * p]
            = [l EXCEPT !.shape = [l.shape EXCEPT ![i] = e], !.stride = [l.stride EXCEPT ![i] = l.stride[i] * p]]
      OBVIOUS
    <2>2. Fields(l)
      BY DEF Layout
    <2> HIDE DEF shape, stride
    <2>3. [l EXCEPT !.shape = shape, !.stride = stride] = sliced
      BY ONLY <2>2, NewShapeStride
    <2> USE DEF shape, stride
    <2> QED BY <2>1, <2>3
  <1>7. Layout(sliced)
    <2> HIDE DEF shape, stride
    <2> QED BY <1>4, <1>5 DEF Layout, Fields
  <1>8. PICK T : /\ T \in [1..n -> Int]
                 /\ StridesRelaxed(sliced, i) = [sliced EXCEPT !.stride = T]
                 /\ \A j \in 1..n : T[j] = stride[j] \/ shape[j] = 1
    <2>1. PICK s : s = sliced
      OBVIOUS
    <2>2. s.shape = shape /\ s.stride = stride /\ Len(s.shape) = n /\ Layout(s)
      BY <2>1, <1>4, <1>7
    <2>3. i \in 1..Len(s.shape)
      BY <2>2, <1>2
    <2> HIDE DEF shape, stride, sliced
    <2>4. \E T : /\ T \in [1..Len(s.shape) -> Int]
                 /\ StridesRelaxed(s, i) = [s EXCEPT !.stride = T]
                 /\ \A j \in 1..Len(s.shape) : T[j] = s.stride[j] \/ s.shape[j] = 1
      BY ONLY <2>2, <2>3, Relaxed
    <2>5. PICK T : /\ T \in [1..Len(s.shape) -> Int]
                   /\ StridesRelaxed(s, i) = [s EXCEPT !.stride = T]
                   /\ \A j \in 1..Len(s.shape) : T[j] = s.stride[j] \/ s.shape[j] = 1
      BY <2>4
    <2>6. /\ T \in [1..n -> Int] /\ StridesRelaxed(sliced, i) = [sliced EXCEPT !.stride = T]
          /\ \A j \in 1..n : T[j] = stride[j] \/ shape[j] = 1
      BY <2>1, <2>2, <2>5
    <2> QED BY <2>6
  <1> DEFINE offset == l.offset + l.stride[i] * f * DtypeSize
  <1>9. m = [shape |-> shape, stride |-> T, offset |-> offset]
    <2>1. m = [StridesRelaxed([l EXCEPT !.shape[i] = e, !.stride[i] = @ * p], i)
                 EXCEPT !.offset = @ + l.stride[i] * f * DtypeSize]
      BY DEF merge, Takes, First, Step, Extent, first_byte
    <2>2. m = [[sliced EXCEPT !.stride = T] EXCEPT !.offset = @ + l.stride[i] * f * DtypeSize]
      BY <1>6, <1>8, <2>1
    <2>3. [sliced EXCEPT !.stride = T] = [shape |-> shape, stride |-> T, offset |-> l.offset]
      <3> HIDE DEF shape, stride
      <3> QED OBVIOUS
    <2> HIDE DEF m, shape, sliced
    <2> QED BY <2>2, <2>3
  <1>10. PICK x \in Int : x = l.stride[i] * f
    <2>1. PICK y, z \in Int : y = l.stride[i] /\ z = f
      BY <1>2, <1>3
    <2>2. y * z \in Int
      OBVIOUS
    <2> QED BY <2>1, <2>2
  <1>11. offset \in Int /\ offset % DtypeSize = l.offset % DtypeSize /\ offset \div DtypeSize = (l.offset \div DtypeSize) + x
    <2>1. PICK D \in Nat \ {0}, o \in Int : D = DtypeSize /\ o = l.offset
      BY DtypeAssumption DEF Layout
    <2>2. (o + x * D) % D = o % D /\ (o + x * D) \div D = (o \div D) + x /\ o + x * D \in Int
      BY ONLY <2>1, x \in Int, BytesAdded
    <2> QED BY <1>10, <2>1, <2>2
  <1>12. Layout(m) /\ m.shape = shape /\ SameBytes(m, l)
    <2> HIDE DEF m, shape, offset
    <2> QED BY <1>4, <1>8, <1>9, <1>11 DEF Layout, Fields, SameBytes
  <1>13. ASSUME NEW c, NEW b, InBox(c, shape), Moves(b, c, n, i, f, p)
         PROVE  At(m, c) = At(l, b)
    <2>1. \A j \in 1..n : c[j] \in Nat /\ c[j] < shape[j]
      <3> HIDE DEF shape
      <3> QED BY <1>4, <1>13 DEF InBox
    <2>2. \A j \in 1..n : (j # i => b[j] = c[j]) /\ b[i] = f + p * c[i]
      BY <1>2, <1>13 DEF Moves
    <2>3. b[i] \in Int
      <3>1. PICK u, v, w \in Int : u = f /\ v = p /\ w = c[i]
        BY <1>2, <1>3, <2>1, SMTT(20)
      <3>2. u + v * w \in Int
        OBVIOUS
      <3> QED BY <1>2, <2>2, <3>1, <3>2
    <2>4. /\ Row(n, c, T) /\ Row(n, c, stride) /\ Row(n, b, l.stride)
      <3>1. Len(T) = n /\ Len(stride) = n /\ Len(l.stride) = n
        <4> HIDE DEF stride
        <4> QED BY <1>2, <1>5, <1>8, FunctionSeq
      <3>2. \A j \in 1..n : c[j] \in Int /\ b[j] \in Int /\ T[j] \in Int /\ stride[j] \in Int /\ l.stride[j] \in Int
        <4> HIDE DEF stride
        <4>1. ASSUME NEW j \in 1..n PROVE c[j] \in Int /\ b[j] \in Int
          BY <2>1, <2>2, <2>3
        <4>2. ASSUME NEW j \in 1..n PROVE T[j] \in Int /\ stride[j] \in Int /\ l.stride[j] \in Int
          BY <1>2, <1>5, <1>8
        <4> QED BY <4>1, <4>2
      <3> HIDE DEF stride
      <3> QED BY <3>1, <3>2 DEF Row
    <2>5. Dot(c, T) = Dot(c, stride)
      <3>1. ASSUME NEW j \in 1..n PROVE c[j] * T[j] = c[j] * stride[j]
        <4>1. CASE T[j] = stride[j]
          BY <4>1
        <4>2. CASE shape[j] = 1
          <5>1. c[j] = 0 /\ T[j] \in Int /\ stride[j] \in Int
            <6> HIDE DEF shape, stride
            <6> QED BY <1>5, <1>8, <2>1, <4>2
          <5> HIDE DEF stride
          <5>2. PICK u : u = T[j]
            OBVIOUS
          <5>3. PICK v : v = stride[j]
            OBVIOUS
          <5>4. u \in Int /\ v \in Int
            BY <5>1, <5>2, <5>3
          <5>5. 0 * u = 0 /\ 0 * v = 0
            BY ONLY <5>4, Times
          <5> QED BY <5>1, <5>2, <5>3, <5>5
        <4> QED BY <1>8, <4>1, <4>2
      <3> HIDE DEF stride
      <3> QED BY ONLY <2>4, <3>1, DotSame
    <2>6. Dot(b, l.stride) = Dot(c, stride) + x
      <3>1. ASSUME NEW j \in 1..n
            PROVE  b[j] * l.stride[j] = IF j = i THEN c[j] * stride[j] + x ELSE c[j] * stride[j]
        <4>1. CASE j = i
          <5>6. c[i] \in Int /\ l.stride[i] \in Int
            <6> HIDE DEF stride
            <6>1. c[i] \in Int
              BY ONLY <1>2, <2>4 DEF Row
            <6>2. l.stride[i] \in Int
              BY ONLY <1>2
            <6> QED BY ONLY <6>1, <6>2
          <5>1. PICK u, v, w, t \in Int : u = f /\ v = p /\ w = c[i] /\ t = l.stride[i]
            BY <1>3, <5>6
          <5>2. (u + v * w) * t = w * (t * v) + t * u
            <6>1. PICK z \in Int : z = v * w
              OBVIOUS
            <6>2. (u + z) * t = u * t + z * t /\ u * t = t * u
              BY ONLY Distribute, Times, u \in Int, z \in Int, t \in Int
            <6>3. (v * w) * t = w * (t * v)
              OBVIOUS
            <6>4. u * t \in Int /\ z * t \in Int
              OBVIOUS
            <6> QED BY ONLY <6>1, <6>2, <6>3, <6>4
          <5>3. stride[i] = t * v
            BY <1>2, <5>1
          <5>4. b[i] = u + v * w /\ x = t * u
            BY <1>2, <1>10, <2>2, <5>1
          <5> HIDE DEF stride
          <5> QED BY <4>1, <5>1, <5>2, <5>3, <5>4
        <4>2. CASE j # i
          <5>1. b[j] = c[j] /\ stride[j] = l.stride[j]
            BY <1>2, <2>2, <4>2
          <5> QED BY <4>2, <5>1
        <4> QED BY <4>1, <4>2
      <3> HIDE DEF stride
      <3>2. Bumped(n, c, stride, b, l.stride, i, x)
        BY <1>2, <3>1 DEF Bumped
      <3> QED BY ONLY <2>4, <3>2, DotPoint
    <2>7. At(m, c) = (offset \div DtypeSize) + Dot(c, T)
      <3> HIDE DEF m, offset, shape
      <3> QED BY <1>9 DEF At
    <2>8. PICK u, v, w \in Int : u = l.offset \div DtypeSize /\ v = Dot(c, stride) /\ w = Dot(b, l.stride)
      <3>1. Dot(c, stride) \in Int /\ Dot(b, l.stride) \in Int
        <4> HIDE DEF stride
        <4> QED BY ONLY <2>4, DotInt
      <3>2. PICK D \in Nat \ {0}, o \in Int : D = DtypeSize /\ o = l.offset
        BY DtypeAssumption DEF Layout
      <3>3. o \div D \in Int
        OBVIOUS
      <3> QED BY <3>1, <3>2, <3>3
    <2>9. At(m, c) = (u + x) + v /\ At(l, b) = u + w /\ w = v + x
      <3> HIDE DEF m, offset, stride
      <3> QED BY <1>11, <2>5, <2>6, <2>7, <2>8 DEF At
    <2> QED BY ONLY <2>9, u \in Int, v \in Int, x \in Int
  <1>14. Len(l.shape) = n /\ m.shape = shape
    BY <1>1, <1>12
  <1> HIDE DEF m, shape
  <1>15. \A c, b : InBox(c, m.shape) /\ Moves(b, c, Len(l.shape), i, f, p) => At(m, c) = At(l, b)
    BY <1>13, <1>14
  <1> USE DEF shape
  <1>16. m.shape = [l.shape EXCEPT ![i] = e]
    BY <1>12
  <1> HIDE DEF shape
  <1>17. Slicing(m, l, i, f, p, e)
    BY ONLY <1>12, <1>15, <1>16 DEF Slicing
  <1> QED BY <1>17 DEF m

-----------------------------------------------------------------------------
(* All descriptions merged.                                                *)

(* What the descriptions take along each axis.                             *)
Ranges(F, P, E, s) ==
    \A i \in 1..Len(s) :
        /\ F[i] \in Int /\ P[i] \in Int /\ E[i] \in Nat \ {0}
        /\ \A x \in 0..E[i] - 1 : F[i] + P[i] * x \in 0..s[i] - 1
Slices(F, P, E, s, descs) ==
    /\ Ranges(F, P, E, s)
    /\ \A i \in 1..Len(s) :
         IF Described(descs, i) THEN Takes(DescOf(descs, i), s[i], F[i], P[i], E[i])
         ELSE F[i] = 0 /\ P[i] = 1 /\ E[i] = s[i]

(* The axes after k are sliced.                                            *)
Source(b, c, n, k, F, P) == \A j \in 1..n : b[j] = IF j > k THEN F[j] + P[j] * c[j] ELSE c[j]
SlicedFrom(m, l, k, F, P, E) ==
    /\ Layout(m) /\ m.shape = [j \in 1..Len(l.shape) |-> IF j > k THEN E[j] ELSE l.shape[j]]
    /\ SameBytes(m, l)
    /\ \A c, b : InBox(c, m.shape) /\ Source(b, c, Len(l.shape), k, F, P) => At(m, c) = At(l, b)

LEMMA SlicedOnce ==
    ASSUME NEW l, Layout(l), NEW m, NEW F, NEW P, NEW E, Ranges(F, P, E, l.shape),
           NEW i, i \in 1..Len(l.shape), NEW r, Slicing(r, m, i, F[i], P[i], E[i]),
           SlicedFrom(m, l, i, F, P, E)
    PROVE  SlicedFrom(r, l, i - 1, F, P, E)
  <1>1. PICK n \in Nat \ {0} : n = Len(l.shape)
    BY ShapeTyped DEF Layout
  <1>2. PICK k \in 1..n : k = i
    BY <1>1
  <1>3. PICK s : s = l.shape
    OBVIOUS
  <1>4. s \in [1..n -> Nat \ {0}]
    BY <1>1, <1>3, ShapeTyped DEF Layout
  <1>5. PICK q : q = m.shape
    OBVIOUS
  <1>6. q = [j \in 1..n |-> IF j > k THEN E[j] ELSE s[j]]
    BY <1>1, <1>2, <1>3, <1>5 DEF SlicedFrom
  <1>7. Layout(r) /\ r.shape = [q EXCEPT ![k] = E[k]]
    BY <1>2, <1>5 DEF Slicing
  <1>8. [q EXCEPT ![k] = E[k]] = [j \in 1..n |-> IF j > k - 1 THEN E[j] ELSE s[j]]
    BY <1>6
  <1>9. \A j \in 1..n : E[j] \in Nat \ {0} /\ F[j] \in Int /\ P[j] \in Int
    BY <1>1 DEF Ranges
  <1>10. Len(q) = n
    <2>1. q \in [1..n -> Nat \ {0}]
      BY <1>4, <1>6, <1>9
    <2> QED BY <2>1, FunctionSeq
  <1>11. Len(r.shape) = n
    <2>1. r.shape \in [1..n -> Nat \ {0}]
      BY <1>4, <1>7, <1>8, <1>9
    <2> QED BY <2>1, FunctionSeq
  <1>12. ASSUME NEW c, NEW b, InBox(c, r.shape), Source(b, c, n, k - 1, F, P) PROVE At(r, c) = At(l, b)
    <2>1. \A j \in 1..n : c[j] \in 0..(IF j > k - 1 THEN E[j] ELSE s[j]) - 1
      BY <1>7, <1>8, <1>11, <1>12 DEF InBox
    <2> DEFINE a == [j \in 1..n |-> IF j = k THEN F[k] + P[k] * c[j] ELSE c[j]]
    <2>2. Moves(a, c, n, k, F[k], P[k])
      BY DEF Moves
    <2>3. At(r, c) = At(m, a)
      <3> HIDE DEF a
      <3> QED BY <1>2, <1>5, <1>10, <1>12, <2>2 DEF Slicing
    <2>4. InBox(a, q)
      <3>1. a[k] \in 0..s[k] - 1
        <4>1. c[k] \in 0..E[k] - 1
          BY <2>1
        <4>2. F[k] + P[k] * c[k] \in 0..s[k] - 1
          BY <1>1, <1>2, <1>3, <4>1 DEF Ranges
        <4> QED BY <4>2
      <3>2. ASSUME NEW j \in 1..n, j # k PROVE a[j] \in 0..q[j] - 1
        <4>1. a[j] = c[j] /\ ((j > k - 1) <=> (j > k))
          BY <3>2
        <4>2. c[j] \in 0..(IF j > k THEN E[j] ELSE s[j]) - 1
          BY <2>1, <4>1
        <4> HIDE DEF a
        <4> QED BY <1>6, <4>1, <4>2
      <3>3. q[k] = s[k]
        BY <1>6
      <3> HIDE DEF a
      <3> QED BY <1>10, <3>1, <3>2, <3>3 DEF InBox
    <2>5. Source(b, a, n, k, F, P)
      <3>1. ASSUME NEW j \in 1..n PROVE b[j] = IF j > k THEN F[j] + P[j] * a[j] ELSE a[j]
        <4>1. b[j] = IF j > k - 1 THEN F[j] + P[j] * c[j] ELSE c[j]
          BY <1>12 DEF Source
        <4>2. CASE j = k
          BY <4>1, <4>2
        <4>3. CASE j # k
          <5>1. a[j] = c[j] /\ ((j > k - 1) <=> (j > k))
            BY <4>3
          <5> HIDE DEF a
          <5> QED BY <4>1, <5>1
        <4> QED BY <4>2, <4>3
      <3> HIDE DEF a
      <3> QED BY <3>1 DEF Source
    <2>6. At(m, a) = At(l, b)
      <3> HIDE DEF a
      <3> QED BY <1>1, <1>2, <1>5, <2>4, <2>5 DEF SlicedFrom
    <2> QED BY <2>3, <2>6
  <1>13. r.shape = [j \in 1..n |-> IF j > k - 1 THEN E[j] ELSE s[j]]
    BY <1>7, <1>8
  <1>14. SameBytes(r, l)
    BY DEF SlicedFrom, Slicing, SameBytes
  <1> QED BY <1>1, <1>2, <1>3, <1>7, <1>12, <1>13, <1>14 DEF SlicedFrom

LEMMA SlicedNone ==
    ASSUME NEW l, Layout(l), NEW m, NEW F, NEW P, NEW E, NEW i, i \in 1..Len(l.shape),
           F[i] = 0 /\ P[i] = 1 /\ E[i] = l.shape[i], SlicedFrom(m, l, i, F, P, E)
    PROVE  SlicedFrom(m, l, i - 1, F, P, E)
  <1>1. PICK n \in Nat \ {0} : n = Len(l.shape)
    BY ShapeTyped DEF Layout
  <1>2. PICK k \in 1..n : k = i
    BY <1>1
  <1>3. PICK s : s = l.shape
    OBVIOUS
  <1>4. s \in [1..n -> Nat \ {0}]
    BY <1>1, <1>3, ShapeTyped DEF Layout
  <1>5. m.shape = [j \in 1..n |-> IF j > k THEN E[j] ELSE s[j]]
    BY <1>1, <1>2, <1>3 DEF SlicedFrom
  <1>6. m.shape = [j \in 1..n |-> IF j > k - 1 THEN E[j] ELSE s[j]]
    <2>1. ASSUME NEW j \in 1..n PROVE (IF j > k THEN E[j] ELSE s[j]) = IF j > k - 1 THEN E[j] ELSE s[j]
      BY <1>2, <1>3
    <2> QED BY <1>5, <2>1
  <1>7. ASSUME NEW c, NEW b, InBox(c, m.shape), Source(b, c, n, k - 1, F, P) PROVE At(m, c) = At(l, b)
    <2>1. ASSUME NEW j \in 1..n PROVE b[j] = IF j > k THEN F[j] + P[j] * c[j] ELSE c[j]
      <3>1. b[j] = IF j > k - 1 THEN F[j] + P[j] * c[j] ELSE c[j]
        BY <1>7 DEF Source
      <3>2. CASE j = k
        <4>1. c[j] \in 0..s[j] - 1
          <5>1. Len(m.shape) = n /\ m.shape[k] = s[k]
            <6>1. Layout(m) /\ DOMAIN m.shape = 1..n
              BY <1>5 DEF SlicedFrom
            <6>2. DOMAIN m.shape = 1..Len(m.shape) /\ Len(m.shape) \in Nat
              BY <6>1, ShapeTyped DEF Layout
            <6> QED BY <1>5, <6>1, <6>2
          <5> QED BY <1>7, <3>2, <5>1 DEF InBox
        <4>2. c[j] \in Int
          BY <4>1
        <4> QED BY <1>2, <3>1, <3>2, <4>2
      <3>3. CASE j # k
        BY <3>1, <3>3
      <3> QED BY <3>2, <3>3
    <2>2. Source(b, c, n, k, F, P)
      BY <2>1 DEF Source
    <2> QED BY <1>1, <1>2, <1>7, <2>2 DEF SlicedFrom
  <1> QED BY <1>1, <1>2, <1>3, <1>6, <1>7 DEF SlicedFrom

LEMMA SlicedAll ==
    ASSUME NEW l, Layout(l), NEW descs, NEW F, NEW P, NEW E, Slices(F, P, E, l.shape, descs)
    PROVE  SlicedFrom(Sliced(l, descs), l, 0, F, P, E)
  <1>1. PICK n \in Nat \ {0} : n = Len(l.shape)
    BY ShapeTyped DEF Layout
  <1>2. l.shape \in [1..n -> Nat \ {0}] /\ l.stride \in [1..n -> Int] /\ Fields(l)
    BY <1>1, ShapeTyped DEF Layout
  <1> DEFINE D(i) == DescOf(descs, i)
             V == [shape : [1..n -> Nat \ {0}], stride : [1..n -> Int], offset : Int]
             G == [i \in 1..n |-> [m \in V |-> IF Described(descs, i) THEN merge(l, m, D(i)) ELSE m]]
             R == CHOOSE f : f = [i \in 1..n + 1 |->
                      IF i = n + 1 THEN l
                      ELSE IF Described(descs, i) THEN merge(l, f[i + 1], D(i)) ELSE f[i + 1]]
  <1>3. ASSUME NEW m PROVE m \in V <=> Layout(m) /\ Len(m.shape) = n
    <2>1. ASSUME m \in V PROVE Layout(m) /\ Len(m.shape) = n
      <3>1. /\ m.shape \in [1..n -> Nat \ {0}] /\ m.stride \in [1..n -> Int] /\ m.offset \in Int
            /\ Fields(m)
        BY <2>1 DEF Fields
      <3>2. IsShape(m.shape) /\ Len(m.shape) = n
        BY <3>1, FunctionShape
      <3> QED BY <3>1, <3>2 DEF Layout
    <2>2. ASSUME Layout(m), Len(m.shape) = n PROVE m \in V
      <3>1. PICK x, y, z : x = m.shape /\ y = m.stride /\ z = m.offset
        OBVIOUS
      <3>2. x \in [1..n -> Nat \ {0}] /\ y \in [1..n -> Int] /\ z \in Int
        BY <2>2, <3>1, ShapeTyped DEF Layout
      <3>3. m = [shape |-> x, stride |-> y, offset |-> z]
        BY <2>2, <3>1 DEF Layout, Fields
      <3> QED BY <3>2, <3>3
    <2> QED BY <2>1, <2>2
  <1> HIDE DEF V
  <1>4. ASSUME NEW i \in 1..n, NEW m \in V, Described(descs, i)
        PROVE  Slicing(merge(l, m, D(i)), m, i, F[i], P[i], E[i])
    <2>1. Layout(m) /\ Len(m.shape) = n
      BY <1>3
    <2>2. D(i).axis = i - 1
      BY <1>4 DEF Described, DescOf
    <2>3. i = D(i).axis + 1 /\ i \in 1..Len(m.shape)
      BY <2>1, <2>2
    <2>4. Takes(D(i), l.shape[i], F[i], P[i], E[i])
      BY <1>1, <1>4 DEF Slices
    <2> HIDE DEF D
    <2> QED BY ONLY <2>1, <2>3, <2>4, Merged
  <1>5. ASSUME NEW i \in 1..n, NEW m \in V, Described(descs, i) PROVE merge(l, m, D(i)) \in V
    <2>1. PICK r : r = merge(l, m, D(i))
      OBVIOUS
    <2>2. Layout(r) /\ r.shape = [m.shape EXCEPT ![i] = E[i]] /\ Len(m.shape) = n /\ Layout(m)
      BY <1>3, <1>4, <1>5, <2>1 DEF Slicing
    <2>3. DOMAIN r.shape = 1..n
      BY <2>2, ShapeTyped DEF Layout
    <2>4. Len(r.shape) = n
      <3>1. DOMAIN r.shape = 1..Len(r.shape) /\ Len(r.shape) \in Nat
        BY <2>2, ShapeTyped DEF Layout
      <3> QED BY <2>3, <3>1
    <2> HIDE DEF D
    <2> QED BY <1>3, <2>1, <2>2, <2>4
  <1>6. l \in V
    BY <1>1, <1>3
  <1>7. Rounds(n, V, l, G)
    <2> HIDE DEF D
    <2> QED BY <1>5, <1>6 DEF Rounds
  <1>8. PICK f : f \in [1..n + 1 -> V] /\ f[n + 1] = l /\ \A i \in 1..n : f[i] = G[i][f[i + 1]]
    <2> HIDE DEF G
    <2>1. PICK N : N = n
      OBVIOUS
    <2>2. Rounds(N, V, l, G)
      BY <1>7, <2>1
    <2>3. \E f : f \in [1..N + 1 -> V] /\ f[N + 1] = l /\ \A i \in 1..N : f[i] = G[i][f[i + 1]]
      BY ONLY <2>2, LoopDown
    <2> QED BY <2>1, <2>3
  <1>9. f = [i \in 1..n + 1 |->
               IF i = n + 1 THEN l
               ELSE IF Described(descs, i) THEN merge(l, f[i + 1], D(i)) ELSE f[i + 1]]
    <2>1. ASSUME NEW i \in 1..n PROVE f[i] = IF Described(descs, i) THEN merge(l, f[i + 1], D(i)) ELSE f[i + 1]
      <3>1. f[i + 1] \in V
        BY <1>8
      <3>2. f[i] = G[i][f[i + 1]]
        BY <1>8
      <3> HIDE DEF D
      <3> QED BY <3>1, <3>2
    <2> HIDE DEF D
    <2> QED BY <1>8, <2>1
  <1>10. R = [i \in 1..n + 1 |->
               IF i = n + 1 THEN l
               ELSE IF Described(descs, i) THEN merge(l, R[i + 1], D(i)) ELSE R[i + 1]]
    <2> HIDE DEF D
    <2> QED BY <1>9, Zenon
  <1>11. Sliced(l, descs) = R[1]
    BY <1>1 DEF Sliced
  <1> HIDE DEF R
  <1>12. R[n + 1] = l
    BY <1>10
  <1>13. \A i \in 1..n : R[i] = IF Described(descs, i) THEN merge(l, R[i + 1], D(i)) ELSE R[i + 1]
    <2> HIDE DEF D
    <2> QED BY <1>10
  <1> DEFINE S == {k \in 0..n : SlicedFrom(R[k + 1], l, k, F, P, E)}
  <1>14. n \in S
    <2>1. l.shape = [j \in 1..n |-> IF j > n THEN E[j] ELSE l.shape[j]]
      BY <1>2
    <2>2. ASSUME NEW c, NEW b, InBox(c, l.shape), Source(b, c, n, n, F, P) PROVE At(l, c) = At(l, b)
      <3>1. \A j \in 1..n : b[j] = c[j] /\ c[j] \in Int
        BY <1>1, <1>2, <2>2 DEF InBox, Source
      <3>2. Row(n, c, l.stride) /\ Row(n, b, l.stride)
        <4>1. Len(l.stride) = n
          BY <1>2, FunctionSeq
        <4> QED BY <1>2, <3>1, <4>1 DEF Row
      <3>3. Dot(c, l.stride) = Dot(b, l.stride)
        <4>1. \A j \in 1..n : c[j] * l.stride[j] = b[j] * l.stride[j]
          BY <3>1
        <4> QED BY ONLY <3>2, <4>1, DotSame
      <3> QED BY <3>3 DEF At
    <2>3. SlicedFrom(l, l, n, F, P, E)
      BY <1>1, <2>1, <2>2 DEF SlicedFrom, SameBytes
    <2> QED BY <1>12, <2>3
  <1>15. ASSUME NEW k \in 0..n - 1, k + 1 \in S PROVE k \in S
    <2>1. PICK i \in 1..n : i = k + 1 /\ i - 1 = k
      OBVIOUS
    <2>2. SlicedFrom(R[i + 1], l, i, F, P, E)
      BY <1>15, <2>1
    <2>3. R[i + 1] \in V
      <3>1. PICK m : m = R[i + 1]
        OBVIOUS
      <3>2. Layout(m) /\ DOMAIN m.shape = 1..n
        BY <1>1, <2>2, <3>1 DEF SlicedFrom
      <3>3. DOMAIN m.shape = 1..Len(m.shape) /\ Len(m.shape) \in Nat
        BY <3>2, ShapeTyped DEF Layout
      <3> QED BY <1>3, <3>1, <3>2, <3>3
    <2>4. SlicedFrom(R[i], l, i - 1, F, P, E)
      <3>1. CASE Described(descs, i)
        <4>1. PICK r, m : r = R[i] /\ m = R[i + 1]
          OBVIOUS
        <4>2. r = merge(l, m, D(i)) /\ m \in V
          BY <1>13, <2>3, <3>1, <4>1
        <4>3. Slicing(r, m, i, F[i], P[i], E[i])
          <5> HIDE DEF D
          <5> QED BY <1>4, <3>1, <4>2
        <4>4. i \in 1..Len(l.shape) /\ Ranges(F, P, E, l.shape) /\ SlicedFrom(m, l, i, F, P, E)
          BY <1>1, <2>2, <4>1 DEF Slices
        <4> QED BY ONLY Layout(l), <4>1, <4>3, <4>4, SlicedOnce
      <3>2. CASE ~Described(descs, i)
        <4>1. R[i] = R[i + 1]
          <5> HIDE DEF D
          <5> QED BY <1>13, <3>2
        <4>2. i \in 1..Len(l.shape) /\ F[i] = 0 /\ P[i] = 1 /\ E[i] = l.shape[i]
          BY <1>1, <3>2 DEF Slices
        <4> QED BY ONLY Layout(l), <4>1, <4>2, <2>2, SlicedNone
      <3> QED BY <3>1, <3>2
    <2> QED BY <2>1, <2>4
  <1>16. \A k \in 0..n : k \in S
    <2> HIDE DEF S
    <2> QED BY <1>14, <1>15, Downward
  <1>17. SlicedFrom(R[0 + 1], l, 0, F, P, E)
    BY <1>16
  <1> QED BY <1>11, <1>17

-----------------------------------------------------------------------------
(* Positions of axes among those that are left.                            *)

(* Positions in a set of axes.                                             *)
Rank(K, i) == Cardinality({j \in K : j <= i})

LEMMA RankSteps ==
    ASSUME NEW n \in Nat, NEW K, K \subseteq 1..n
    PROVE  /\ IsFiniteSet(K) /\ Cardinality(K) \in Nat
           /\ Rank(K, 0) = 0 /\ Rank(K, n) = Cardinality(K)
           /\ \A i \in 0..n : Rank(K, i) \in Nat
           /\ \A i \in 1..n : Rank(K, i) = Rank(K, i - 1) + (IF i \in K THEN 1 ELSE 0)
  <1>0. \A j \in K : j \in Int /\ 1 <= j /\ j <= n
    OBVIOUS
  <1>1. IsFiniteSet(K)
    <2>1. IsFiniteSet(1..n)
      BY FS_Interval
    <2>2. K \in SUBSET (1..n)
      OBVIOUS
    <2> QED BY <2>1, <2>2, FS_Subset
  <1>2. \A i : IsFiniteSet({j \in K : j <= i})
    BY <1>1, FS_Subset
  <1>3. \A i \in 0..n : Rank(K, i) \in Nat
    BY <1>2, FS_CardinalityType DEF Rank
  <1>4. Rank(K, 0) = 0
    <2>2. \A j \in K : ~(j <= 0)
      BY <1>0
    <2>1. {j \in K : j <= 0} = {}
      BY <2>2
    <2> QED BY <2>1, FS_EmptySet DEF Rank
  <1>5. Rank(K, n) = Cardinality(K)
    <2>1. {j \in K : j <= n} = K
      BY <1>0
    <2> QED BY <2>1 DEF Rank
  <1>6. ASSUME NEW i \in 1..n PROVE Rank(K, i) = Rank(K, i - 1) + (IF i \in K THEN 1 ELSE 0)
    <2>1. CASE i \in K
      <3>2. \A j \in K : j <= i <=> j <= i - 1 \/ j = i
        BY <1>0
      <3>3. ~(i <= i - 1) /\ i <= i
        OBVIOUS
      <3>1. {j \in K : j <= i} = {j \in K : j <= i - 1} \cup {i} /\ i \notin {j \in K : j <= i - 1}
        BY ONLY <2>1, <3>2, <3>3
      <3>4. PICK A : A = {j \in K : j <= i - 1}
        OBVIOUS
      <3>5. IsFiniteSet(A) /\ i \notin A /\ {j \in K : j <= i} = A \cup {i}
        BY <1>2, <3>1, <3>4
      <3>6. Cardinality(A \cup {i}) = Cardinality(A) + 1
        BY ONLY <3>5, FS_AddElement
      <3> QED BY <2>1, <3>4, <3>5, <3>6 DEF Rank
    <2>2. CASE i \notin K
      <3>3. \A j \in K : j <= i <=> j <= i - 1
        BY <1>0, <2>2
      <3>1. {j \in K : j <= i} = {j \in K : j <= i - 1}
        BY <3>3
      <3>2. Rank(K, i - 1) \in Nat
        BY <1>3
      <3> QED BY <2>2, <3>1, <3>2 DEF Rank
    <2> QED BY <2>1, <2>2
  <1>7. Cardinality(K) \in Nat
    BY <1>1, FS_CardinalityType
  <1> QED BY <1>1, <1>3, <1>4, <1>5, <1>6, <1>7

AxesOf(K, n) == n \in Nat /\ K \subseteq 1..n
LEMMA Ranks ==
    ASSUME NEW n, NEW K, AxesOf(K, n)
    PROVE  /\ \A i \in K : Rank(K, i) \in 1..Cardinality(K)
           /\ \A i, j \in K : Rank(K, i) = Rank(K, j) => i = j
           /\ \A i, j \in K : i < j => Rank(K, i) < Rank(K, j)
           /\ \A p \in 1..Cardinality(K) : \E i \in K : Rank(K, i) = p
           /\ \A i \in K : Rank(K, i) = Rank(K, i - 1) + 1
  <1>1. PICK m \in Nat : m = n /\ K \subseteq 1..m
    BY DEF AxesOf
  <1>2. PICK r : r = [i \in 0..m |-> Rank(K, i)]
    OBVIOUS
  <1>3. /\ r \in [0..m -> Nat] /\ r[0] = 0 /\ r[m] = Cardinality(K)
        /\ \A i \in 1..m : r[i] = r[i - 1] + (IF i \in K THEN 1 ELSE 0)
    <2>1. \A i \in 1..m : Rank(K, i) = Rank(K, i - 1) + (IF i \in K THEN 1 ELSE 0)
      BY <1>1, RankSteps
    <2>2. \A i \in 1..m : r[i] = Rank(K, i) /\ r[i - 1] = Rank(K, i - 1)
      BY <1>2
    <2>3. (\A i \in 0..m : Rank(K, i) \in Nat) /\ Rank(K, 0) = 0 /\ Rank(K, m) = Cardinality(K)
      BY <1>1, RankSteps
    <2>4. r \in [0..m -> Nat] /\ r[0] = 0 /\ r[m] = Cardinality(K)
      BY <1>2, <2>3
    <2> QED BY <2>1, <2>2, <2>4
  <1>4. ASSUME NEW i \in 0..m PROVE \A j \in i..m : r[i] <= r[j]
    <2> DEFINE S == {k \in 0..m : i <= k => r[i] <= r[k]}
    <2>1. 0 \in S
      BY <1>3
    <2>2. ASSUME NEW k \in 0..m - 1, k \in S PROVE k + 1 \in S
      <3>1. k + 1 \in 1..m /\ k + 1 - 1 = k
        OBVIOUS
      <3>2. r[k + 1] = r[k] + (IF k + 1 \in K THEN 1 ELSE 0) /\ r[k] \in Nat /\ r[i] \in Nat
        BY <1>3, <3>1
      <3> QED BY <2>2, <3>1, <3>2
    <2>3. \A k \in 0..m : k \in S
      <3> HIDE DEF S
      <3> QED BY <2>1, <2>2, Upward
    <2> QED BY <2>3
  <1>5. ASSUME NEW i \in K, NEW j \in K, i < j PROVE r[i] < r[j]
    <2>1. j - 1 \in i..m /\ i \in 0..m /\ j \in 1..m
      BY <1>1, <1>5
    <2>2. r[j] = r[j - 1] + 1 /\ r[i] <= r[j - 1] /\ r[j - 1] \in Nat /\ r[i] \in Nat
      BY <1>3, <1>4, <2>1
    <2> QED BY <2>2
  <1>6. ASSUME NEW i \in K PROVE r[i] \in 1..r[m] /\ r[i] = r[i - 1] + 1
    <2>1. i - 1 \in 0..m /\ i \in 1..m
      BY <1>1
    <2>2. r[i] = r[i - 1] + 1 /\ r[i - 1] \in Nat /\ r[i] <= r[m] /\ r[m] \in Nat
      BY <1>3, <1>4, <2>1
    <2> QED BY <2>2
  <1> DEFINE S == {k \in 0..m : \A p \in 1..r[k] : \E i \in K : r[i] = p}
  <1>7. 0 \in S
    BY <1>3
  <1>8. ASSUME NEW k \in 0..m - 1, k \in S PROVE k + 1 \in S
    <2>1. k + 1 \in 1..m /\ k + 1 - 1 = k
      OBVIOUS
    <2>2. r[k + 1] = r[k] + (IF k + 1 \in K THEN 1 ELSE 0) /\ r[k] \in Nat
      BY <1>3, <2>1
    <2>3. ASSUME NEW p \in 1..r[k + 1] PROVE \E i \in K : r[i] = p
      <3>1. CASE p <= r[k]
        BY <1>8, <2>2, <3>1
      <3>2. CASE ~(p <= r[k])
        <4>1. k + 1 \in K /\ p = r[k + 1]
          BY <2>2, <3>2
        <4> QED BY <4>1
      <3> QED BY <3>1, <3>2
    <2> QED BY <2>1, <2>3
  <1>9. \A k \in 0..m : k \in S
    <2> HIDE DEF S
    <2> QED BY <1>7, <1>8, Upward
  <1>10. \A p \in 1..r[m] : \E i \in K : r[i] = p
    BY <1>9
  <1>11. \A i \in K : i \in 0..m /\ i - 1 \in 0..m /\ r[i] = Rank(K, i) /\ r[i - 1] = Rank(K, i - 1)
    BY <1>1, <1>2
  <1>12. ASSUME NEW i \in K, NEW j \in K, Rank(K, i) = Rank(K, j) PROVE i = j
    <2>1. i \in Int /\ j \in Int /\ r[i] = r[j] /\ r[i] \in Nat /\ r[j] \in Nat
      BY <1>1, <1>3, <1>11, <1>12
    <2> QED BY <1>5, <2>1
  <1>13. \A i, j \in K : i < j => Rank(K, i) < Rank(K, j)
    BY <1>5, <1>11
  <1> HIDE DEF S
  <1> QED BY <1>3, <1>6, <1>10, <1>11, <1>12, <1>13

LEMMA RankPrefix ==
    ASSUME NEW j \in Nat, NEW K, 1..j \subseteq K, K \subseteq Nat \ {0}
    PROVE  Rank(K, j) = j
  <1>2. \A i \in K : i \in Int /\ 1 <= i
    OBVIOUS
  <1>3. \A i \in K : i <= j => i \in 1..j
    BY <1>2
  <1>5. \A i \in 1..j : i \in K /\ i <= j
    OBVIOUS
  <1>1. {i \in K : i <= j} = 1..j
    BY ONLY <1>3, <1>5
  <1>4. Cardinality(1..j) = j
    BY FS_Interval
  <1> QED BY <1>1, <1>4 DEF Rank

LEMMA RankWithout ==
    ASSUME NEW n \in Nat, NEW K, K \subseteq 1..n, NEW i \in K, NEW j \in 0..n
    PROVE  Rank(K \ {i}, j) = Rank(K, j) - (IF i <= j THEN 1 ELSE 0)
  <1>1. IsFiniteSet({k \in K : k <= j})
    BY RankSteps, FS_Subset
  <1>2. {k \in K \ {i} : k <= j} = {k \in K : k <= j} \ {i}
    OBVIOUS
  <1>3. Rank(K, j) \in Nat
    BY RankSteps
  <1> QED BY <1>1, <1>2, <1>3, FS_RemoveElement DEF Rank

Removable(q, k, l, S) == l \in Nat \ {0} /\ q \in [1..l -> S] /\ k \in 1..l
LEMMA Removed ==
    ASSUME NEW S, NEW q, NEW k, NEW l, Removable(q, k, l, S)
    PROVE  /\ RemoveAt(q, k) \in [1..l - 1 -> S]
           /\ \A p \in 1..l - 1 : RemoveAt(q, k)[p] = IF p < k THEN q[p] ELSE q[p + 1]
  <1>0. PICK m \in Nat \ {0} : m = l /\ q \in [1..m -> S]
    BY DEF Removable
  <1>9. PICK i \in 1..m : i = k
    BY <1>0 DEF Removable
  <1>1. Len(q) = m
    BY <1>0, FunctionSeq
  <1> DEFINE a == SubSeq(q, 1, i - 1)
             b == SubSeq(q, i + 1, m)
  <1>2. a \in Seq(S) /\ Len(a) = i - 1 /\ \A p \in 1..i - 1 : a[p] = q[p]
    <2>1. \A p \in 1..i - 1 : q[p] \in S
      BY <1>0
    <2>2. /\ a \in Seq(S) /\ Len(a) = (IF 1 <= i - 1 THEN i - 1 - 1 + 1 ELSE 0)
          /\ \A p \in 1..i - 1 - 1 + 1 : a[p] = q[1 + p - 1]
      BY <2>1, SubSeqProperties
    <2>3. i - 1 - 1 + 1 = i - 1 /\ \A p \in 1..i - 1 : 1 + p - 1 = p
      OBVIOUS
    <2> HIDE DEF a
    <2> QED BY <2>2, <2>3
  <1>3. b \in Seq(S) /\ Len(b) = m - i /\ \A p \in 1..m - i : b[p] = q[i + p]
    <2>1. \A p \in i + 1..m : q[p] \in S
      BY <1>0
    <2>2. /\ b \in Seq(S) /\ Len(b) = (IF i + 1 <= m THEN m - (i + 1) + 1 ELSE 0)
          /\ \A p \in 1..m - (i + 1) + 1 : b[p] = q[i + 1 + p - 1]
      BY <2>1, SubSeqProperties
    <2>3. m - (i + 1) + 1 = m - i /\ \A p \in 1..m - i : i + 1 + p - 1 = i + p
      OBVIOUS
    <2> HIDE DEF b
    <2> QED BY <2>2, <2>3
  <1>4. PICK r : r = a \o b
    OBVIOUS
  <1>5. RemoveAt(q, i) = r
    BY <1>1, <1>4 DEF RemoveAt
  <1> HIDE DEF a, b
  <1>6. /\ r \in Seq(S) /\ Len(r) = m - 1
        /\ \A p \in 1..m - 1 : r[p] = IF p <= i - 1 THEN a[p] ELSE b[p - (i - 1)]
    <2>1. /\ r \in Seq(S) /\ Len(r) = Len(a) + Len(b)
          /\ \A p \in 1..Len(a) + Len(b) : r[p] = IF p <= Len(a) THEN a[p] ELSE b[p - Len(a)]
      BY <1>2, <1>3, <1>4, ConcatProperties
    <2>2. Len(a) + Len(b) = m - 1
      BY <1>2, <1>3
    <2> QED BY <1>2, <2>1, <2>2
  <1>7. r \in [1..m - 1 -> S]
    BY <1>6, LenProperties
  <1>8. ASSUME NEW p \in 1..m - 1 PROVE r[p] = IF p < i THEN q[p] ELSE q[p + 1]
    <2>1. CASE p < i
      BY <1>2, <1>6, <2>1
    <2>2. CASE ~(p < i)
      <3>1. p - (i - 1) \in 1..m - i /\ i + (p - (i - 1)) = p + 1 /\ ~(p <= i - 1)
        BY <2>2
      <3> QED BY <1>3, <1>6, <2>2, <3>1
    <2> QED BY <2>1, <2>2
  <1> QED BY <1>0, <1>5, <1>7, <1>8, <1>9

-----------------------------------------------------------------------------
(* Axes with an index, removed one by one.                                 *)

(* The axes up to k, and of those after k the ones in K; a sequence that   *)
(* has what q has at the axes in T, in their order.                        *)
Left(K, k, n) == {j \in 1..n : j <= k \/ j \in K}
Packed(x, q, T, S) == x \in [1..Cardinality(T) -> S] /\ \A j \in T : x[Rank(T, j)] = q[j]

LEMMA LeftAxes ==
    ASSUME NEW n, NEW K, AxesOf(K, n)
    PROVE  /\ Left(K, n, n) = 1..n /\ Left(K, 0, n) = K
           /\ \A k \in 0..n : AxesOf(Left(K, k, n), n)
           /\ \A i \in 1..n : /\ i \in Left(K, i, n) /\ 1..i \subseteq Left(K, i, n)
                              /\ i \in K => Left(K, i - 1, n) = Left(K, i, n)
                              /\ i \notin K => Left(K, i - 1, n) = Left(K, i, n) \ {i}
  <1>1. PICK m \in Nat : m = n /\ K \subseteq 1..m
    BY DEF AxesOf
  <1>2. Left(K, m, m) = 1..m
    BY DEF Left
  <1>3. Left(K, 0, m) = K
    <2>1. \A j \in 1..m : ~(j <= 0)
      OBVIOUS
    <2> QED BY <1>1, <2>1 DEF Left
  <1>4. ASSUME NEW i \in 1..m
        PROVE  /\ i \in Left(K, i, m) /\ 1..i \subseteq Left(K, i, m)
               /\ i \in K => Left(K, i - 1, m) = Left(K, i, m)
               /\ i \notin K => Left(K, i - 1, m) = Left(K, i, m) \ {i}
    <2>1. \A j \in 1..m : j <= i <=> j <= i - 1 \/ j = i
      OBVIOUS
    <2>2. ~(i <= i - 1) /\ i <= i /\ \A j \in 1..i : j \in 1..m /\ j <= i
      OBVIOUS
    <2> QED BY <2>1, <2>2 DEF Left
  <1>5. \A k \in 0..m : AxesOf(Left(K, k, m), m)
    BY DEF AxesOf, Left
  <1> QED BY <1>1, <1>2, <1>3, <1>4, <1>5

LEMMA PackedAll ==
    ASSUME NEW n \in Nat, NEW S, NEW q \in [1..n -> S]
    PROVE  Packed(q, q, 1..n, S)
  <1>1. Cardinality(1..n) = n
    BY FS_Interval
  <1>2. ASSUME NEW j \in 1..n PROVE Rank(1..n, j) = j
    <2>1. 1..j \subseteq 1..n /\ 1..n \subseteq Nat \ {0} /\ j \in Nat
      OBVIOUS
    <2> QED BY <2>1, RankPrefix
  <1> QED BY <1>1, <1>2 DEF Packed

LEMMA PackedOnce ==
    ASSUME NEW n, NEW K, AxesOf(K, n), K # {}, NEW S, NEW x, NEW q, NEW i, i \in 1..n, i \notin K,
           Packed(x, q, Left(K, i, n), S)
    PROVE  Packed(RemoveAt(x, i), q, Left(K, i - 1, n), S) /\ Cardinality(Left(K, i, n)) > 1
  <1>1. PICK m \in Nat : m = n /\ K \subseteq 1..m
    BY DEF AxesOf
  <1>2. PICK k \in 1..m : k = i
    BY <1>1
  <1>3. PICK T, U : T = Left(K, i, n) /\ U = Left(K, i - 1, n)
    OBVIOUS
  <1>4. T \subseteq 1..m /\ k \in T /\ 1..k \subseteq T /\ U = T \ {k} /\ K \subseteq T /\ AxesOf(T, m)
    <2>1. AxesOf(T, m) /\ k \in T /\ 1..k \subseteq T /\ U = T \ {k}
      BY <1>1, <1>2, <1>3, LeftAxes
    <2>2. K \subseteq T
      BY <1>1, <1>3 DEF Left
    <2> QED BY <2>1, <2>2 DEF AxesOf
  <1>5. PICK c \in Nat : c = Cardinality(T)
    BY <1>4, RankSteps
  <1>6. /\ \A j \in T : Rank(T, j) \in 1..c /\ \A a \in T : j < a => Rank(T, j) < Rank(T, a)
        /\ \A a, b \in T : Rank(T, a) = Rank(T, b) => a = b
    BY ONLY <1>4, <1>5, Ranks
  <1>7. \A j \in 1..k : Rank(T, j) = j
    <2>1. ASSUME NEW j \in 1..k PROVE Rank(T, j) = j
      <3>1. j \in Nat /\ 1..j \subseteq T /\ T \subseteq Nat \ {0}
        BY <1>4
      <3> QED BY <3>1, RankPrefix
    <2> QED BY <2>1
  <1>8. c > 1
    <2>1. PICK a \in K : TRUE
      OBVIOUS
    <2>2. a \in T /\ a # k /\ k \in T
      BY <1>2, <1>4
    <2>3. Rank(T, a) \in 1..c /\ Rank(T, k) \in 1..c /\ Rank(T, a) # Rank(T, k)
      BY <1>6, <2>2
    <2> QED BY <2>3
  <1>9. k <= c
    <2>1. k \in 1..k
      OBVIOUS
    <2> QED BY <1>4, <1>6, <1>7, <2>1
  <1>10. x \in [1..c -> S] /\ \A j \in T : x[Rank(T, j)] = q[j]
    BY <1>3, <1>5 DEF Packed
  <1>11. PICK r : r = RemoveAt(x, k)
    OBVIOUS
  <1>12. r \in [1..c - 1 -> S] /\ \A p \in 1..c - 1 : r[p] = IF p < k THEN x[p] ELSE x[p + 1]
    <2>1. Removable(x, k, c, S)
      BY <1>8, <1>9, <1>10 DEF Removable
    <2>2. PICK y, a, d : y = x /\ a = k /\ d = c /\ Removable(y, a, d, S)
      BY <2>1
    <2>3. /\ RemoveAt(y, a) \in [1..d - 1 -> S]
          /\ \A p \in 1..d - 1 : RemoveAt(y, a)[p] = IF p < a THEN y[p] ELSE y[p + 1]
      BY ONLY <2>2, Removed
    <2> QED BY <1>11, <2>2, <2>3
  <1>13. Cardinality(U) = c - 1
    <2>1. IsFiniteSet(T)
      BY <1>4, RankSteps
    <2>2. Cardinality(T \ {k}) = IF k \in T THEN Cardinality(T) - 1 ELSE Cardinality(T)
      BY ONLY <2>1, FS_RemoveElement
    <2> QED BY <1>4, <1>5, <2>2
  <1>14. ASSUME NEW j \in U PROVE r[Rank(U, j)] = q[j]
    <2>1. j \in T /\ j # k /\ j \in 1..m
      BY <1>4
    <2>2. Rank(U, j) = Rank(T, j) - (IF k <= j THEN 1 ELSE 0)
      <3>1. j \in 0..m
        BY <2>1
      <3> QED BY <1>4, <3>1, RankWithout
    <2>3. PICK p \in 1..c : p = Rank(T, j)
      BY <1>6, <2>1
    <2>4. x[p] = q[j]
      BY <1>10, <2>1, <2>3
    <2>5. CASE j < k
      <3>1. j \in 1..k /\ ~(k <= j)
        BY <2>1, <2>5
      <3>2. p = j /\ Rank(U, j) = p
        BY <1>7, <2>2, <2>3, <3>1
      <3>3. p \in 1..c - 1 /\ p < k
        BY <1>9, <2>5, <3>2
      <3> QED BY <1>12, <2>4, <3>2, <3>3
    <2>6. CASE ~(j < k)
      <3>1. k < j /\ k <= j
        BY <2>1, <2>6
      <3>2. k < p
        <4>1. Rank(T, k) < Rank(T, j) /\ k \in 1..k
          BY <1>4, <1>6, <2>1, <3>1
        <4> QED BY <1>7, <2>3, <4>1
      <3>3. Rank(U, j) = p - 1 /\ p - 1 \in 1..c - 1 /\ ~(p - 1 < k) /\ p - 1 + 1 = p
        BY <2>2, <2>3, <3>1, <3>2
      <3> QED BY <1>12, <2>4, <3>3
    <2> QED BY <2>5, <2>6
  <1>15. Packed(r, q, U, S)
    BY <1>12, <1>13, <1>14 DEF Packed
  <1> QED BY <1>2, <1>3, <1>5, <1>8, <1>11, <1>15

(* Taking away the axes with an index.                                     *)
Indexed(descs, i) == Described(descs, i) /\ index_of(DescOf(descs, i)) # -1
Stays(descs, n) ==
    LET ranged == {i \in 1..n : ~Indexed(descs, i)}
    IN  IF ranged # {} THEN ranged ELSE {1}
RemovedFrom(m, l, K, k) ==
    /\ Fields(m) /\ m.offset = l.offset
    /\ Packed(m.shape, l.shape, Left(K, k, Len(l.shape)), Nat \ {0})
    /\ Packed(m.stride, l.stride, Left(K, k, Len(l.shape)), Int)

Removing(m, l, descs, K, i) ==
    /\ Layout(l) /\ K = Stays(descs, Len(l.shape)) /\ i \in 1..Len(l.shape)
    /\ RemovedFrom(m, l, K, i)
Less(m, descs, i) == IF Indexed(descs, i) THEN RemoveAxis(m, i) ELSE m

LEMMA RemovedOnce ==
    ASSUME NEW l, NEW descs, NEW K, NEW i, NEW m, Removing(m, l, descs, K, i)
    PROVE  /\ RemovedFrom(Less(m, descs, i), l, K, i - 1)
           /\ i \in 1..Len(m.shape) /\ Len(m.stride) = Len(m.shape)
  <1>0. /\ Layout(l) /\ K = Stays(descs, Len(l.shape)) /\ i \in 1..Len(l.shape)
        /\ RemovedFrom(m, l, K, i)
    BY DEF Removing
  <1>1. PICK n \in Nat \ {0} : n = Len(l.shape)
    BY <1>0, ShapeTyped DEF Layout
  <1>2. AxesOf(K, n) /\ K # {}
    BY <1>0, <1>1 DEF Stays, AxesOf
  <1>3. PICK T, U : T = Left(K, i, n) /\ U = Left(K, i - 1, n)
    OBVIOUS
  <1>4. /\ Fields(m) /\ m.offset = l.offset
        /\ Packed(m.shape, l.shape, T, Nat \ {0}) /\ Packed(m.stride, l.stride, T, Int)
    BY <1>0, <1>1, <1>3 DEF RemovedFrom
  <1>5. PICK c \in Nat : c = Cardinality(T)
    <2>1. AxesOf(T, n)
      BY <1>0, <1>1, <1>2, <1>3, LeftAxes
    <2> QED BY <1>1, <2>1, RankSteps DEF AxesOf
  <1>6. i \in 1..c
    <2>1. i \in T /\ 1..i \subseteq T /\ AxesOf(T, n)
      BY <1>0, <1>1, <1>2, <1>3, LeftAxes
    <2>2. PICK k \in Nat : k = i
      BY <1>0, <1>1
    <2>3. 1..k \subseteq T /\ T \subseteq Nat \ {0}
      BY <1>1, <2>1, <2>2 DEF AxesOf
    <2>4. Rank(T, k) = k
      BY <2>3, RankPrefix
    <2>5. Rank(T, i) \in 1..c
      BY <1>5, <2>1, Ranks
    <2> QED BY <2>2, <2>4, <2>5
  <1>7. Len(m.shape) = c /\ Len(m.stride) = c
    BY <1>4, <1>5, FunctionSeq DEF Packed
  <1>8. CASE i \in K
    <2>1. U = T
      BY <1>0, <1>1, <1>2, <1>3, <1>8, LeftAxes
    <2>2. Indexed(descs, i) => RemoveAxis(m, i) = m
      <3>1. SUFFICES ASSUME Indexed(descs, i) PROVE Len(m.shape) = 1
        BY DEF RemoveAxis
      <3>2. K = {1} /\ i = 1
        BY <1>0, <1>1, <1>8, <3>1 DEF Stays
      <3>3. T = {1}
        BY <1>1, <1>3, <3>2 DEF Left
      <3> QED BY <1>5, <1>7, <3>3, FS_Singleton
    <2>3. RemovedFrom(m, l, K, i - 1)
      BY <1>1, <1>3, <1>4, <2>1 DEF RemovedFrom
    <2> QED BY <1>6, <1>7, <2>2, <2>3 DEF Less
  <1>9. CASE i \notin K
    <2>1. Indexed(descs, i)
      BY <1>0, <1>1, <1>9 DEF Stays
    <2>2. /\ Packed(RemoveAt(m.shape, i), l.shape, U, Nat \ {0}) /\ c > 1
          /\ Packed(RemoveAt(m.stride, i), l.stride, U, Int)
      <3>1. i \in 1..n /\ Packed(m.shape, l.shape, Left(K, i, n), Nat \ {0}) /\ Packed(m.stride, l.stride, Left(K, i, n), Int)
        BY <1>0, <1>1, <1>3, <1>4
      <3>2. PICK N, I, a, b : N = Nat \ {0} /\ I = Int /\ a = m.shape /\ b = m.stride
        OBVIOUS
      <3>3. /\ Packed(RemoveAt(a, i), l.shape, Left(K, i - 1, n), N) /\ Cardinality(Left(K, i, n)) > 1
        BY ONLY <1>2, <1>9, <3>1, <3>2, PackedOnce
      <3>4. Packed(RemoveAt(b, i), l.stride, Left(K, i - 1, n), I)
        BY ONLY <1>2, <1>9, <3>1, <3>2, PackedOnce
      <3> QED BY <1>3, <1>5, <3>2, <3>3, <3>4
    <2>3. RemoveAxis(m, i) = [shape |-> RemoveAt(m.shape, i), stride |-> RemoveAt(m.stride, i), offset |-> m.offset]
      <3>1. RemoveAxis(m, i) = [m EXCEPT !.shape = RemoveAt(m.shape, i), !.stride = RemoveAt(m.stride, i)]
        BY <1>7, <2>2 DEF RemoveAxis
      <3> QED BY <1>4, <3>1, NewShapeStride
    <2>4. PICK r : r = RemoveAxis(m, i)
      OBVIOUS
    <2>5. Fields(r) /\ r.offset = l.offset /\ r.shape = RemoveAt(m.shape, i) /\ r.stride = RemoveAt(m.stride, i)
      BY <1>4, <2>3, <2>4 DEF Fields
    <2>6. RemovedFrom(r, l, K, i - 1)
      BY <1>1, <1>3, <2>2, <2>5 DEF RemovedFrom
    <2> QED BY <1>6, <1>7, <2>1, <2>4, <2>6 DEF Less
  <1> QED BY <1>8, <1>9

LEMMA RemovedAll ==
    ASSUME NEW layout, NEW descs, NEW l, l = Sliced(layout, descs), Layout(l), Len(l.shape) = Len(layout.shape),
           NEW K, K = Stays(descs, Len(l.shape))
    PROVE  RemovedFrom(Subtensor_memoryForward(layout, descs), l, K, 0)
  <1>1. PICK n \in Nat \ {0} : n = Len(l.shape)
    BY ShapeTyped DEF Layout
  <1>2. l.shape \in [1..n -> Nat \ {0}] /\ l.stride \in [1..n -> Int] /\ Fields(l) /\ l.offset \in Int
    BY <1>1, ShapeTyped DEF Layout
  <1> DEFINE V == [shape : Seq(Nat \ {0}), stride : Seq(Int), offset : Int]
             May(i, m) == Indexed(descs, i) /\ i \in 1..Len(m.shape) /\ Len(m.stride) = Len(m.shape)
             G == [i \in 1..n |-> [m \in V |-> IF May(i, m) THEN RemoveAxis(m, i) ELSE m]]
             R == CHOOSE f : f = [i \in 1..n + 1 |->
                      IF i = n + 1 THEN l
                      ELSE IF Indexed(descs, i) THEN RemoveAxis(f[i + 1], i) ELSE f[i + 1]]
  <1>3. ASSUME NEW i \in 1..n, NEW m \in V, May(i, m) PROVE RemoveAxis(m, i) \in V
    <2>1. CASE Len(m.shape) = 1
      BY <2>1 DEF RemoveAxis
    <2>2. CASE Len(m.shape) # 1
      <3>1. PICK a, b, c : a = m.shape /\ b = m.stride /\ c = Len(m.shape)
        OBVIOUS
      <3>2. a \in Seq(Nat \ {0}) /\ b \in Seq(Int) /\ c = Len(a) /\ c = Len(b) /\ i \in 1..c /\ m.offset \in Int
        BY <1>3, <3>1
      <3>3. c \in Nat \ {0} /\ a \in [1..c -> Nat \ {0}] /\ b \in [1..c -> Int]
        <4>1. Len(a) \in Nat /\ a \in [1..Len(a) -> Nat \ {0}]
          BY <3>2, LenProperties
        <4>2. b \in [1..Len(b) -> Int]
          BY <3>2, LenProperties
        <4>3. c \in Nat /\ c # 0
          BY <3>2, <4>1
        <4> QED BY <3>2, <4>1, <4>2, <4>3
      <3>4. PICK N, I : N = Nat \ {0} /\ I = Int
        OBVIOUS
      <3>5. Removable(a, i, c, N) /\ Removable(b, i, c, I)
        BY <3>2, <3>3, <3>4 DEF Removable
      <3>6. RemoveAt(a, i) \in [1..c - 1 -> N] /\ RemoveAt(b, i) \in [1..c - 1 -> I]
        BY ONLY <3>5, Removed
      <3>7. c - 1 \in Nat
        BY <3>3
      <3>8. RemoveAt(a, i) \in Seq(Nat \ {0}) /\ RemoveAt(b, i) \in Seq(Int)
        BY <3>4, <3>6, <3>7, FunctionSeq
      <3>9. RemoveAxis(m, i) = [m EXCEPT !.shape = RemoveAt(m.shape, i), !.stride = RemoveAt(m.stride, i)]
        BY <2>2 DEF RemoveAxis
      <3>10. Fields(m)
        BY <1>3 DEF Fields
      <3>11. RemoveAxis(m, i) = [shape |-> RemoveAt(a, i), stride |-> RemoveAt(b, i), offset |-> m.offset]
        BY <3>1, <3>9, <3>10, NewShapeStride
      <3> QED BY <3>2, <3>8, <3>11
    <2> QED BY <2>1, <2>2
  <1>4. l \in V
    <2>1. PICK a, b, c : a = l.shape /\ b = l.stride /\ c = l.offset
      OBVIOUS
    <2>2. a \in Seq(Nat \ {0}) /\ b \in Seq(Int) /\ c \in Int
      BY <1>2, <2>1, FunctionSeq
    <2>3. l = [shape |-> a, stride |-> b, offset |-> c]
      BY <1>2, <2>1 DEF Fields
    <2> QED BY <2>2, <2>3
  <1> HIDE DEF V
  <1>5. PICK N : N = n
    OBVIOUS
  <1>6. Rounds(N, V, l, G)
    <2> HIDE DEF May
    <2> QED BY <1>3, <1>4, <1>5 DEF Rounds
  <1>7. PICK f : f \in [1..n + 1 -> V] /\ f[n + 1] = l /\ \A i \in 1..n : f[i] = G[i][f[i + 1]]
    <2> HIDE DEF G
    <2>1. \E f : f \in [1..N + 1 -> V] /\ f[N + 1] = l /\ \A i \in 1..N : f[i] = G[i][f[i + 1]]
      BY ONLY <1>6, LoopDown
    <2> QED BY <1>5, <2>1
  <1>8. \A i \in 1..n : f[i] = IF May(i, f[i + 1]) THEN RemoveAxis(f[i + 1], i) ELSE f[i + 1]
    <2>1. ASSUME NEW i \in 1..n PROVE f[i] = IF May(i, f[i + 1]) THEN RemoveAxis(f[i + 1], i) ELSE f[i + 1]
      <3>1. f[i + 1] \in V
        BY <1>7
      <3>2. f[i] = G[i][f[i + 1]]
        BY <1>7
      <3> HIDE DEF May
      <3> QED BY <3>1, <3>2
    <2> QED BY <2>1
  <1>9. RemovedFrom(l, l, K, n)
    <2>1. AxesOf(K, n)
      BY <1>1 DEF Stays, AxesOf
    <2>2. Left(K, n, n) = 1..n
      BY <2>1, LeftAxes
    <2>3. PICK I, J : I = Nat \ {0} /\ J = Int
      OBVIOUS
    <2>4. Packed(l.shape, l.shape, 1..n, I) /\ Packed(l.stride, l.stride, 1..n, J)
      BY <1>2, <2>3, PackedAll
    <2> QED BY <1>1, <1>2, <2>2, <2>3, <2>4 DEF RemovedFrom
  <1>10. ASSUME NEW i \in 1..n, NEW m, RemovedFrom(m, l, K, i)
         PROVE  /\ RemovedFrom(IF Indexed(descs, i) THEN RemoveAxis(m, i) ELSE m, l, K, i - 1)
                /\ i \in 1..Len(m.shape) /\ Len(m.stride) = Len(m.shape)
    <2>1. i \in 1..Len(l.shape)
      BY <1>1
    <2>2. PICK a : a = i
      OBVIOUS
    <2>3. Removing(m, l, descs, K, a)
      BY <1>10, <2>1, <2>2 DEF Removing
    <2>4. /\ RemovedFrom(Less(m, descs, a), l, K, a - 1)
          /\ a \in 1..Len(m.shape) /\ Len(m.stride) = Len(m.shape)
      BY ONLY <2>3, RemovedOnce
    <2> QED BY <2>2, <2>4 DEF Less
  <1> DEFINE S(g) == {k \in 0..n : RemovedFrom(g[k + 1], l, K, k)}
  <1>11. \A k \in 0..n : k \in S(f)
    <2>1. n \in S(f)
      BY <1>7, <1>9
    <2>2. ASSUME NEW k \in 0..n - 1, k + 1 \in S(f) PROVE k \in S(f)
      <3>1. PICK i \in 1..n : i = k + 1 /\ i - 1 = k
        OBVIOUS
      <3>2. RemovedFrom(f[i + 1], l, K, i)
        BY <2>2, <3>1
      <3>3. RemovedFrom(f[i], l, K, i - 1)
        BY <1>8, <1>10, <3>2
      <3> QED BY <3>1, <3>3
    <2> HIDE DEF S
    <2> QED BY <2>1, <2>2, Downward
  <1>12. f = [i \in 1..n + 1 |->
                IF i = n + 1 THEN l ELSE IF Indexed(descs, i) THEN RemoveAxis(f[i + 1], i) ELSE f[i + 1]]
    <2>1. ASSUME NEW i \in 1..n PROVE f[i] = IF Indexed(descs, i) THEN RemoveAxis(f[i + 1], i) ELSE f[i + 1]
      <3>1. i \in 0..n /\ i \in S(f)
        BY <1>11
      <3>2. RemovedFrom(f[i + 1], l, K, i)
        BY <3>1
      <3>3. i \in 1..Len(f[i + 1].shape) /\ Len(f[i + 1].stride) = Len(f[i + 1].shape)
        BY <1>10, <3>2
      <3> QED BY <1>8, <3>3
    <2> QED BY <1>7, <2>1
  <1>13. R = [i \in 1..n + 1 |->
                IF i = n + 1 THEN l ELSE IF Indexed(descs, i) THEN RemoveAxis(R[i + 1], i) ELSE R[i + 1]]
    BY <1>12, Zenon
  <1>14. Subtensor_memoryForward(layout, descs) = R[1]
    BY <1>1 DEF Subtensor_memoryForward, Indexed
  <1> HIDE DEF R
  <1>15. \A k \in 0..n : k \in S(R)
    <2>1. n \in S(R)
      BY <1>9, <1>13
    <2>2. ASSUME NEW k \in 0..n - 1, k + 1 \in S(R) PROVE k \in S(R)
      <3>1. PICK i \in 1..n : i = k + 1 /\ i - 1 = k
        OBVIOUS
      <3>2. RemovedFrom(R[i + 1], l, K, i)
        BY <2>2, <3>1
      <3>3. R[i] = IF Indexed(descs, i) THEN RemoveAxis(R[i + 1], i) ELSE R[i + 1]
        BY <1>13
      <3>4. RemovedFrom(R[i], l, K, i - 1)
        BY <1>10, <3>2, <3>3
      <3> QED BY <3>1, <3>4
    <2> HIDE DEF S
    <2> QED BY <2>1, <2>2, Downward
  <1>16. RemovedFrom(R[0 + 1], l, K, 0)
    BY <1>15
  <1> QED BY <1>14, <1>16

-----------------------------------------------------------------------------
(* What a view of the compiler shows.                                      *)

(* The view of the axes in K, the others at their first element.           *)
Projecting(v, l, K) == Layout(l) /\ AxesOf(K, Len(l.shape)) /\ K # {} /\ RemovedFrom(v, l, K, 0)
Spread(b, c, K, n) == \A i \in 1..n : b[i] = IF i \in K THEN c[Rank(K, i)] ELSE 0

LEMMA Projected ==
    ASSUME NEW v, NEW l, NEW K, Projecting(v, l, K)
    PROVE  /\ Layout(v) /\ v.shape \in [1..Cardinality(K) -> Nat \ {0}] /\ Len(v.shape) = Cardinality(K)
           /\ SameBytes(v, l) /\ \A i \in K : v.shape[Rank(K, i)] = l.shape[i]
           /\ \A c, b : InBox(c, v.shape) /\ Spread(b, c, K, Len(l.shape)) =>
                            At(v, c) = At(l, b) /\ InBox(b, l.shape)
  <1>1. PICK n \in Nat \ {0} : n = Len(l.shape)
    BY ShapeTyped DEF Projecting, Layout
  <1>2. AxesOf(K, n) /\ K \subseteq 1..n /\ K # {} /\ Layout(l) /\ RemovedFrom(v, l, K, 0)
    BY <1>1 DEF Projecting, AxesOf
  <1>3. l.shape \in [1..n -> Nat \ {0}] /\ l.stride \in [1..n -> Int]
    BY <1>1, <1>2, ShapeTyped DEF Layout
  <1>4. PICK m \in Nat \ {0} : m = Cardinality(K)
    <2>1. Cardinality(K) \in Nat /\ IsFiniteSet(K)
      BY <1>2, RankSteps
    <2>2. Cardinality(K) # 0
      BY <1>2, <2>1, FS_EmptySet
    <2> QED BY <2>1, <2>2
  <1>5. /\ \A i \in K : Rank(K, i) \in 1..m
        /\ \A i, j \in K : Rank(K, i) = Rank(K, j) => i = j
        /\ \A p \in 1..m : \E i \in K : Rank(K, i) = p
    <2>1. PICK x : x = n
      OBVIOUS
    <2>2. AxesOf(K, x)
      BY <1>2, <2>1
    <2> QED BY ONLY <1>4, <2>2, Ranks
  <1>6. /\ v.shape \in [1..m -> Nat \ {0}] /\ v.stride \in [1..m -> Int]
        /\ \A i \in K : v.shape[Rank(K, i)] = l.shape[i] /\ v.stride[Rank(K, i)] = l.stride[i]
        /\ Fields(v) /\ v.offset = l.offset
    <2>1. Left(K, 0, n) = K
      BY <1>2, LeftAxes
    <2> QED BY <1>1, <1>2, <1>4, <2>1 DEF RemovedFrom, Packed
  <1>7. IsShape(v.shape) /\ Len(v.shape) = m /\ Len(v.stride) = m
    BY <1>6, FunctionShape, FunctionSeq
  <1>8. Layout(v)
    BY <1>2, <1>6, <1>7 DEF Layout
  <1>9. ASSUME NEW c, NEW b, InBox(c, v.shape), Spread(b, c, K, n)
        PROVE  At(v, c) = At(l, b) /\ InBox(b, l.shape)
    <2>1. \A p \in 1..m : c[p] \in 0..v.shape[p] - 1
      BY <1>9, <1>7 DEF InBox
    <2>2. \A i \in 1..n : b[i] = IF i \in K THEN c[Rank(K, i)] ELSE 0
      BY <1>9 DEF Spread
    <2>3. \A i \in 1..n : b[i] \in 0..l.shape[i] - 1
      <3>1. ASSUME NEW i \in 1..n PROVE b[i] \in 0..l.shape[i] - 1
        <4>1. CASE i \in K
          <5>1. Rank(K, i) \in 1..m /\ v.shape[Rank(K, i)] = l.shape[i] /\ b[i] = c[Rank(K, i)]
            BY <1>5, <1>6, <2>2, <4>1
          <5> QED BY <2>1, <5>1
        <4>2. CASE i \notin K
          <5>1. l.shape[i] \in Nat \ {0}
            BY <1>3
          <5> QED BY <2>2, <4>2, <5>1
        <4> QED BY <4>1, <4>2
      <3> QED BY <3>1
    <2>4. Row(n, b, l.stride)
      <3>1. \A i \in 1..n : b[i] \in Int
        <4>1. ASSUME NEW i \in 1..n PROVE b[i] \in Int
          <5>1. l.shape[i] \in Nat \ {0} /\ b[i] \in 0..l.shape[i] - 1
            BY <1>3, <2>3
          <5> QED BY <5>1
        <4> QED BY <4>1
      <3>2. Len(l.stride) = n
        BY <1>3, FunctionSeq
      <3> QED BY <1>3, <3>1, <3>2 DEF Row
    <2>5. Row(m, c, v.stride)
      <3>1. \A p \in 1..m : c[p] \in Int
        <4>1. ASSUME NEW p \in 1..m PROVE c[p] \in Int
          <5>1. v.shape[p] \in Nat \ {0} /\ c[p] \in 0..v.shape[p] - 1
            BY <1>6, <2>1
          <5> QED BY <5>1
        <4> QED BY <4>1
      <3> QED BY <1>6, <1>7, <3>1 DEF Row
    <2>6. PICK h : h = [p \in 1..m |-> CHOOSE i \in K : Rank(K, i) = p]
      OBVIOUS
    <2>7. \A p \in 1..m : h[p] \in K /\ Rank(K, h[p]) = p
      BY <1>5, <2>6
    <2>8. Embeds(h, m, n)
      <3>1. \A p, q \in 1..m : h[p] = h[q] => p = q
        BY <2>7
      <3> QED BY <1>2, <2>7, <3>1 DEF Embeds
    <2>9. \A p \in 1..m : c[p] * v.stride[p] = b[h[p]] * l.stride[h[p]]
      <3>1. ASSUME NEW p \in 1..m PROVE c[p] = b[h[p]] /\ v.stride[p] = l.stride[h[p]]
        <4>1. PICK i \in K : i = h[p] /\ Rank(K, i) = p
          BY <2>7
        <4>2. i \in 1..n
          BY <1>2
        <4> QED BY <1>6, <2>2, <4>1, <4>2
      <3> QED BY <3>1
    <2>10. \A i \in 1..n : (\A p \in 1..m : h[p] # i) => b[i] * l.stride[i] = 0
      <3>1. ASSUME NEW i \in 1..n, \A p \in 1..m : h[p] # i PROVE b[i] * l.stride[i] = 0
        <4>1. i \notin K
          <5>1. SUFFICES ASSUME i \in K PROVE FALSE
            OBVIOUS
          <5>2. PICK p \in 1..m : p = Rank(K, i)
            BY <1>5, <5>1
          <5>3. h[p] = i
            BY <1>5, <2>7, <5>1, <5>2
          <5> QED BY <3>1, <5>3
        <4>2. b[i] = 0 /\ l.stride[i] \in Int
          BY <1>3, <2>2, <4>1
        <4> QED BY <4>2
      <3> QED BY <3>1
    <2>11. Dot(b, l.stride) = Dot(c, v.stride)
      <3>1. PICK x, y : x = n /\ y = m
        OBVIOUS
      <3>2. /\ Row(x, b, l.stride) /\ Row(y, c, v.stride) /\ Embeds(h, y, x)
            /\ \A p \in 1..y : c[p] * v.stride[p] = b[h[p]] * l.stride[h[p]]
            /\ \A i \in 1..x : (\A p \in 1..y : h[p] # i) => b[i] * l.stride[i] = 0
        BY <2>4, <2>5, <2>8, <2>9, <2>10, <3>1
      <3> QED BY ONLY <3>2, DotReorder
    <2> QED BY <1>1, <1>6, <2>3, <2>11 DEF At, InBox
  <1> QED BY <1>1, <1>4, <1>6, <1>7, <1>8, <1>9 DEF SameBytes

(* The view that is made of a layout.                                      *)
Viewing(v, l, descs, K, F, P, E) ==
    /\ Layout(l) /\ Slices(F, P, E, l.shape, descs) /\ K = Stays(descs, Len(l.shape))
    /\ v = Subtensor_memoryForward(l, descs)
Picked(b, c, K, F, P, n) == \A i \in 1..n : b[i] = F[i] + P[i] * (IF i \in K THEN c[Rank(K, i)] ELSE 0)

LEMMA Viewed ==
    ASSUME NEW v, NEW l, NEW descs, NEW K, NEW F, NEW P, NEW E, Viewing(v, l, descs, K, F, P, E)
    PROVE  /\ Layout(v) /\ v.shape \in [1..Cardinality(K) -> Nat \ {0}] /\ Len(v.shape) = Cardinality(K)
           /\ SameBytes(v, l) /\ \A i \in K : v.shape[Rank(K, i)] = E[i]
           /\ \A c, b : InBox(c, v.shape) /\ Picked(b, c, K, F, P, Len(l.shape)) =>
                            At(v, c) = At(l, b) /\ InBox(b, l.shape)
  <1>1. PICK n \in Nat \ {0} : n = Len(l.shape)
    BY ShapeTyped DEF Viewing, Layout
  <1>2. Layout(l) /\ Slices(F, P, E, l.shape, descs) /\ K = Stays(descs, n)
    BY <1>1 DEF Viewing
  <1>3. PICK m : m = Sliced(l, descs)
    OBVIOUS
  <1>4. SlicedFrom(m, l, 0, F, P, E)
    BY <1>2, <1>3, SlicedAll
  <1>5. Layout(m) /\ m.shape = [j \in 1..n |-> IF j > 0 THEN E[j] ELSE l.shape[j]]
    BY <1>1, <1>4 DEF SlicedFrom
  <1>6. \A j \in 1..n : m.shape[j] = E[j]
    BY <1>5
  <1>7. Len(m.shape) = n
    <2>1. DOMAIN m.shape = 1..n
      BY <1>5
    <2>2. DOMAIN m.shape = 1..Len(m.shape) /\ Len(m.shape) \in Nat
      BY <1>5, ShapeTyped DEF Layout
    <2> QED BY <2>1, <2>2
  <1>8. RemovedFrom(v, m, K, 0)
    <2>1. Len(m.shape) = Len(l.shape) /\ K = Stays(descs, Len(m.shape))
      BY <1>1, <1>2, <1>7
    <2>2. v = Subtensor_memoryForward(l, descs)
      BY DEF Viewing
    <2> QED BY ONLY <1>3, <1>5, <2>1, <2>2, RemovedAll
  <1>9. AxesOf(K, n) /\ K # {} /\ K \subseteq 1..n
    BY <1>1, <1>2 DEF Stays, AxesOf
  <1>10. Projecting(v, m, K)
    BY <1>5, <1>7, <1>8, <1>9 DEF Projecting
  <1>11. /\ Layout(v) /\ v.shape \in [1..Cardinality(K) -> Nat \ {0}] /\ Len(v.shape) = Cardinality(K)
         /\ SameBytes(v, m) /\ \A i \in K : v.shape[Rank(K, i)] = m.shape[i]
         /\ \A c, b : InBox(c, v.shape) /\ Spread(b, c, K, Len(m.shape)) =>
                          At(v, c) = At(m, b) /\ InBox(b, m.shape)
    BY ONLY <1>10, Projected
  <1>12. ASSUME NEW c, NEW b, InBox(c, v.shape), Picked(b, c, K, F, P, n)
         PROVE  At(v, c) = At(l, b) /\ InBox(b, l.shape)
    <2>1. PICK d : d = [i \in 1..n |-> IF i \in K THEN c[Rank(K, i)] ELSE 0]
      OBVIOUS
    <2>2. Spread(d, c, K, n)
      BY <2>1 DEF Spread
    <2>3. At(v, c) = At(m, d) /\ InBox(d, m.shape)
      BY <1>7, <1>11, <1>12, <2>2
    <2>4. \A i \in 1..n : b[i] = F[i] + P[i] * d[i]
      BY <1>12, <2>1 DEF Picked
    <2>5. Source(b, d, n, 0, F, P)
      BY <2>4 DEF Source
    <2>6. At(m, d) = At(l, b)
      BY <1>1, <1>4, <2>3, <2>5 DEF SlicedFrom
    <2>7. InBox(b, l.shape)
      <3>1. ASSUME NEW i \in 1..n PROVE b[i] \in 0..l.shape[i] - 1
        <4>1. d[i] \in 0..E[i] - 1
          BY <1>6, <1>7, <2>3 DEF InBox
        <4> QED BY <1>1, <1>2, <2>4, <4>1 DEF Slices, Ranges
      <3> QED BY <1>1, <3>1 DEF InBox
    <2> QED BY <2>3, <2>6, <2>7
  <1>13. SameBytes(v, l)
    BY <1>4, <1>11 DEF SlicedFrom, SameBytes
  <1> QED BY <1>1, <1>6, <1>9, <1>11, <1>12, <1>13

-----------------------------------------------------------------------------
(* What an index description selects, and what the compiler takes.         *)

(* How many steps fit into a gap.                                          *)
Gap(g, s, n) == n \in Nat /\ g \in 1..n /\ s \in Nat \ {0}

LEMMA Counted ==
    ASSUME NEW g, NEW s, NEW n, Gap(g, s, n)
    PROVE  /\ (g + s - 1) \div s \in Nat \ {0}
           /\ {k \in 0..n - 1 : k * s < g} = 0..((g + s - 1) \div s) - 1
           /\ Cardinality({k \in 0..n - 1 : k * s < g}) = (g + s - 1) \div s
  <1>1. PICK a \in Int, b \in Nat \ {0}, m \in Nat : a = g /\ b = s /\ m = n /\ a >= 1 /\ a <= m
    BY DEF Gap
  <1>2. PICK q \in Int, r \in 0..b - 1 : q = (a + b - 1) \div b /\ a + b - 1 = b * q + r
    <2>1. PICK y \in Int : y = a + b - 1
      OBVIOUS
    <2>2. y \div b \in Int /\ y % b \in 0..b - 1 /\ y = b * (y \div b) + (y % b)
      BY Divided
    <2> QED BY <2>1, <2>2
  <1>3. ASSUME NEW k \in Int PROVE k * b < a <=> k < q
    <2>1. CASE k <= q - 1
      <3>1. PICK x \in Int : x = q - 1 - k /\ x >= 0 /\ q = k + 1 + x
        BY <2>1
      <3>2. b * q = b * k + b + b * x
        BY <3>1, Distribute
      <3>3. b * x >= 0 /\ b * x \in Int /\ b * k = k * b /\ b * k \in Int
        BY <3>1, Times
      <3>4. PICK u \in Int, v \in Int : u = b * x /\ v = k * b
        BY <3>3
      <3>5. a + b - 1 = v + b + u + r /\ u >= 0 /\ r >= 0
        BY <1>2, <3>2, <3>3, <3>4
      <3>6. v < a
        BY ONLY <3>5, r \in Int, a \in Int, b \in Int, u \in Int, v \in Int
      <3> QED BY <2>1, <3>4, <3>6
    <2>2. CASE k >= q
      <3>1. PICK x \in Int : x = k - q /\ x >= 0 /\ k = q + x
        BY <2>2
      <3>2. b * k = b * q + b * x
        BY <3>1, Distribute
      <3>3. b * x >= 0 /\ b * x \in Int /\ b * k = k * b /\ b * k \in Int /\ b * q \in Int
        BY <3>1, Times
      <3>4. PICK u \in Int, v \in Int, w \in Int : u = b * x /\ v = k * b /\ w = b * q
        BY <3>3
      <3>5. a + b - 1 = w + r /\ r <= b - 1 /\ v = w + u /\ u >= 0
        BY <1>2, <3>2, <3>3, <3>4
      <3>6. v >= a
        BY ONLY <3>5, r \in Int, a \in Int, b \in Int, u \in Int, v \in Int, w \in Int
      <3> QED BY <2>2, <3>4, <3>6
    <2> QED BY <2>1, <2>2
  <1>4. q > 0
    <2>1. 0 * b < a
      BY <1>1
    <2> QED BY <1>3, <2>1
  <1>5. ASSUME NEW k \in 0..q - 1 PROVE k \in 0..m - 1 /\ k * b < a
    <2>1. k * b < a
      BY <1>3
    <2>2. k * b >= k
      <3>1. CASE k = 0
        BY <3>1
      <3>2. CASE k > 0
        BY <3>2, Times
      <3> QED BY <3>1, <3>2
    <2>3. k * b \in Int
      BY Times
    <2> QED BY <1>1, <2>1, <2>2, <2>3
  <1>6. {k \in 0..m - 1 : k * b < a} = 0..q - 1
    <2>1. ASSUME NEW k \in 0..m - 1, k * b < a PROVE k \in 0..q - 1
      BY <1>3, <2>1
    <2> QED BY <1>5, <2>1
  <1>7. Cardinality(0..q - 1) = q
    BY <1>4, FS_Interval
  <1>8. PICK D : D = {k \in 0..m - 1 : k * b < a}
    OBVIOUS
  <1>9. q \in Nat \ {0} /\ D = 0..q - 1 /\ Cardinality(D) = q
    <2>1. q \in Nat \ {0}
      BY <1>4
    <2>2. D = 0..q - 1
      BY ONLY <1>6, <1>8
    <2> QED BY ONLY <1>7, <2>1, <2>2
  <1>10. a = g /\ b = s /\ m = n /\ q = (a + b - 1) \div b
    BY <1>1, <1>2
  <1>11. D = {k \in 0..n - 1 : k * s < g}
    BY ONLY <1>8, <1>10
  <1> QED BY ONLY <1>9, <1>10, <1>11

(* A description of an axis of n, and what it selects.                     *)
Fit(d, n) == n \in Nat \ {0} /\ IsDesc(d, n, -n, Int \ {0})
Selects(q, f, p, e) == q = [k \in 1..e |-> f + (k - 1) * p]

LEMMA RangedUp ==
    ASSUME NEW n \in Nat \ {0}, NEW f \in Int, NEW p \in Int, NEW t \in Int, p > 0, t <= n, f >= 0,
           NEW c, c = Cardinality({k \in 0..n - 1 : f + k * p < t}), f < t
    PROVE  /\ c = (Abs(t - f) + Abs(p) - 1) \div Abs(p) /\ c \in Nat \ {0}
  <1>1. PICK g \in 1..n : g = t - f /\ Abs(t - f) = g /\ Abs(p) = p
    BY DEF Abs
  <1>2. \A k \in 0..n - 1 : f + k * p < t <=> k * p < g
    <2>1. ASSUME NEW k \in 0..n - 1 PROVE f + k * p < t <=> k * p < g
      <3>1. PICK x \in Int : x = k * p
        BY Times
      <3> QED BY <1>1, <3>1
    <2> QED BY <2>1
  <1>3. {k \in 0..n - 1 : f + k * p < t} = {k \in 0..n - 1 : k * p < g}
    BY <1>2
  <1>4. Gap(g, p, n)
    BY DEF Gap
  <1>5. /\ (g + p - 1) \div p \in Nat \ {0}
        /\ Cardinality({k \in 0..n - 1 : k * p < g}) = (g + p - 1) \div p
    BY <1>4, Counted
  <1> QED BY <1>1, <1>3, <1>5

LEMMA RangedDown ==
    ASSUME NEW n \in Nat \ {0}, NEW f \in Int, NEW p \in Int, NEW t \in Int, p < 0, t >= -1, f <= n - 1,
           NEW c, c = Cardinality({k \in 0..n - 1 : f + k * p > t}), f > t
    PROVE  /\ c = (Abs(t - f) + Abs(p) - 1) \div Abs(p) /\ c \in Nat \ {0}
  <1>1. PICK g \in 1..n, s \in Nat \ {0} : g = f - t /\ Abs(t - f) = g /\ Abs(p) = s /\ p = -s
    BY DEF Abs
  <1>2. \A k \in 0..n - 1 : f + k * p > t <=> k * s < g
    <2>1. ASSUME NEW k \in 0..n - 1 PROVE f + k * p > t <=> k * s < g
      <3>1. PICK x \in Int : x = k * s
        BY Times
      <3>2. k * p = -x
        BY <1>1, <3>1
      <3> QED BY <1>1, <3>1, <3>2
    <2> QED BY <2>1
  <1>3. {k \in 0..n - 1 : f + k * p > t} = {k \in 0..n - 1 : k * s < g}
    BY <1>2
  <1>4. Gap(g, s, n)
    BY DEF Gap
  <1>5. /\ (g + s - 1) \div s \in Nat \ {0}
        /\ Cardinality({k \in 0..n - 1 : k * s < g}) = (g + s - 1) \div s
    BY <1>4, Counted
  <1> QED BY <1>1, <1>3, <1>5

LEMMA Ranged ==
    ASSUME NEW d, NEW n, Fit(d, n), d.index = Missing, NEW q, q = Selected(d, n),
           q # <<>>, \A k \in DOMAIN q : q[k] \in 0..n - 1
    PROVE  /\ Takes(d, n, First(d, n), Step(d), Extent(d, n))
           /\ Selects(q, First(d, n), Step(d), Extent(d, n))
           /\ IF d.step > 0 THEN begin_of(d, n) < end_of(d, n) ELSE begin_of(d, n) > end_of(d, n)
  <1>1. PICK m \in Nat \ {0} : m = n
    BY DEF Fit
  <1>2. /\ d.step \in Int \ {0}
        /\ d.begin # Missing => d.begin \in -m..m - 1
        /\ d.end # Missing => d.end \in -m..m
    BY <1>1 DEF Fit, IsDesc
  <1>3. PICK p \in Int \ {0} : p = d.step
    BY <1>2
  <1>4. PICK f \in 0..m - 1 :
            /\ f = begin_of(d, n)
            /\ f = IF d.begin # Missing THEN FromEnd(d.begin, n) ELSE IF p > 0 THEN 0 ELSE n - 1
    <2>1. CASE d.begin # Missing
      BY <1>1, <1>2, <2>1 DEF begin_of, FromEnd
    <2>2. CASE d.begin = Missing
      BY <1>1, <1>3, <2>2 DEF begin_of
    <2> QED BY <2>1, <2>2
  <1>5. PICK t \in -1..m :
            /\ t = end_of(d, n)
            /\ t = IF d.end # Missing THEN FromEnd(d.end, n) ELSE IF p > 0 THEN n ELSE -1
    <2>1. CASE d.end # Missing
      BY <1>1, <1>2, <2>1 DEF end_of, FromEnd
    <2>2. CASE d.end = Missing
      BY <1>1, <1>3, <2>2 DEF end_of
    <2> QED BY <2>1, <2>2
  <1>6. index_of(d) = -1
    BY DEF index_of
  <1>7. First(d, n) = f /\ Step(d) = p /\ Extent(d, n) = (Abs(t - f) + Abs(p) - 1) \div Abs(p)
    BY <1>3, <1>4, <1>5, <1>6 DEF First, Step, Extent
  <1>8. PICK c : c = Cardinality({k \in 0..n - 1 : IF p > 0 THEN f + k * p < t ELSE f + k * p > t})
    OBVIOUS
  <1>9. Selects(q, f, p, c)
    <2>1. q = [k \in 1..c |-> f + (k - 1) * p]
      BY <1>3, <1>4, <1>5, <1>8 DEF Selected
    <2> QED BY <2>1 DEF Selects
  <1>10. IF p > 0 THEN f < t ELSE f > t
    <2>1. SUFFICES ASSUME ~(IF p > 0 THEN f < t ELSE f > t) PROVE FALSE
      OBVIOUS
    <2>2. ASSUME NEW k \in 0..n - 1 PROVE ~(IF p > 0 THEN f + k * p < t ELSE f + k * p > t)
      <3>1. k \in Int /\ k >= 0
        BY <1>1
      <3>2. k * p \in Int /\ (p > 0 => k * p >= 0) /\ (p < 0 => k * p <= 0)
        <4>1. CASE p > 0
          BY <3>1, <4>1, Times
        <4>2. CASE p < 0
          <5>1. PICK b \in Int : b = -p /\ b > 0
            BY <4>2
          <5>2. k * b >= 0 /\ k * b \in Int /\ k * p = -(k * b)
            BY <3>1, <5>1, Times
          <5> QED BY <4>2, <5>2
        <4> QED BY <4>1, <4>2
      <3> QED BY <2>1, <3>2
    <2>3. {k \in 0..n - 1 : IF p > 0 THEN f + k * p < t ELSE f + k * p > t} = {}
      BY <2>2
    <2>4. c = 0
      BY <1>8, <2>3, FS_EmptySet
    <2>5. q = <<>>
      BY <1>9, <2>4 DEF Selects
    <2> QED BY <2>5
  <1>11. c = (Abs(t - f) + Abs(p) - 1) \div Abs(p) /\ c \in Nat \ {0}
    <2>1. CASE p > 0
      <3>1. c = Cardinality({k \in 0..m - 1 : f + k * p < t}) /\ f < t
        BY <1>1, <1>8, <1>10, <2>1
      <3>2. f \in Int /\ t \in Int /\ t <= m /\ f >= 0
        OBVIOUS
      <3> QED BY ONLY <2>1, <3>1, <3>2, m \in Nat \ {0}, p \in Int, RangedUp
    <2>2. CASE p < 0
      <3>1. c = Cardinality({k \in 0..m - 1 : f + k * p > t}) /\ f > t
        <4>1. \A k \in 0..n - 1 : (IF p > 0 THEN f + k * p < t ELSE f + k * p > t) <=> f + k * p > t
          BY <2>2
        <4>2. {k \in 0..n - 1 : IF p > 0 THEN f + k * p < t ELSE f + k * p > t} = {k \in 0..n - 1 : f + k * p > t}
          BY ONLY <4>1
        <4>3. f > t
          BY <1>10, <2>2
        <4>4. c = Cardinality({k \in 0..n - 1 : f + k * p > t})
          BY ONLY <1>8, <4>2
        <4>5. m = n
          BY <1>1
        <4> QED BY ONLY <4>3, <4>4, <4>5
      <3>2. f \in Int /\ t \in Int /\ t >= -1 /\ f <= m - 1
        OBVIOUS
      <3> QED BY ONLY <2>2, <3>1, <3>2, m \in Nat \ {0}, p \in Int, RangedDown
    <2> QED BY <2>1, <2>2
  <1>12. Takes(d, n, f, p, c)
    BY <1>7, <1>11 DEF Takes
  <1>13. f = First(d, n) /\ p = Step(d) /\ c = Extent(d, n)
    BY <1>7, <1>11
  <1>14. IF d.step > 0 THEN begin_of(d, n) < end_of(d, n) ELSE begin_of(d, n) > end_of(d, n)
    BY <1>3, <1>4, <1>5, <1>10
  <1> QED BY <1>9, <1>12, <1>13, <1>14

LEMMA Picks ==
    ASSUME NEW d, NEW n, Fit(d, n), d.index # Missing
    PROVE  /\ index_of(d) # -1
           /\ Takes(d, n, First(d, n), Step(d), Extent(d, n))
           /\ Selects(Selected(d, n), First(d, n), Step(d), Extent(d, n))
  <1>0. PICK m \in Nat \ {0} : m = n
    BY DEF Fit
  <1>1. PICK x \in 0..m - 1 : m = n /\ x = d.index
    BY <1>0 DEF Fit, IsDesc
  <1>2. index_of(d) = x /\ x # -1
    BY <1>1 DEF index_of
  <1>3. First(d, n) = x /\ Step(d) = 1
    BY <1>2 DEF First, Step
  <1>4. Extent(d, n) = 1
    <2>1. Extent(d, n) = (Abs(x + 1 - x) + Abs(1) - 1) \div Abs(1)
      BY <1>2, <1>3 DEF Extent
    <2>2. Abs(x + 1 - x) = 1 /\ Abs(1) = 1
      BY DEF Abs
    <2>3. (1 + 1 - 1) \div 1 = 1
      OBVIOUS
    <2> QED BY <2>1, <2>2, <2>3
  <1>5. Selected(d, n) = <<x>>
    BY <1>1 DEF Selected, FromEnd
  <1>6. <<x>> = [k \in 1..1 |-> x + (k - 1) * 1]
    <2>1. \A k \in 1..1 : x + (k - 1) * 1 = x
      OBVIOUS
    <2> QED BY <2>1
  <1> QED BY <1>2, <1>3, <1>4, <1>5, <1>6 DEF Takes, Selects

(* What descriptions that fit a shape take of it.                          *)
Fits(descs, s) == IsShape(s) /\ \A d \in descs : d.axis \in 0..Len(s) - 1 /\ Fit(d, s[d.axis + 1])
Along(descs, s, F, P, E) == \A i \in 1..Len(s) : Selects(SelectedAlong(descs, s, i), F[i], P[i], E[i])

LEMMA Reached ==
    ASSUME NEW n, NEW q, NEW f, NEW p, NEW e, Selects(q, f, p, e), f \in Int, p \in Int, e \in Nat \ {0},
           \A k \in DOMAIN q : q[k] \in 0..n - 1
    PROVE  \A x \in 0..e - 1 : f + p * x \in 0..n - 1 /\ q[x + 1] = f + p * x
  <1>1. PICK a \in Int, b \in Int, c \in Nat \ {0} : a = f /\ b = p /\ c = e
    OBVIOUS
  <1>2. q = [k \in 1..c |-> a + (k - 1) * b]
    BY <1>1 DEF Selects
  <1>3. ASSUME NEW x \in 0..c - 1 PROVE a + b * x \in 0..n - 1 /\ q[x + 1] = a + b * x
    <2>1. x + 1 \in 1..c /\ x + 1 - 1 = x
      OBVIOUS
    <2>2. q[x + 1] = a + x * b
      BY <1>2, <2>1
    <2>3. x * b = b * x
      BY Times
    <2>4. DOMAIN q = 1..c
      BY <1>2
    <2> QED BY <2>1, <2>2, <2>3, <2>4
  <1> QED BY <1>1, <1>3

LEMMA Chosen ==
    ASSUME NEW s, NEW descs, Fits(descs, s), Valid(descs, s)
    PROVE  /\ \E F, P, E : Slices(F, P, E, s, descs) /\ Along(descs, s, F, P, E)
           /\ Kept(descs, s) = Stays(descs, Len(s))
           /\ \A inp : inp.shape = s => \A d \in descs : RangeOk(inp, d)
  <1>1. PICK n \in Nat \ {0} : n = Len(s) /\ Axes(s) = 1..n
    BY ShapeTyped DEF Fits
  <1>2. s \in [1..n -> Nat \ {0}]
    BY <1>1, ShapeTyped DEF Fits
  <1>3. /\ \A d, e \in descs : d.axis = e.axis => d = e
        /\ \A i \in 1..n : LET sel == SelectedAlong(descs, s, i)
                           IN  sel # <<>> /\ \A k \in DOMAIN sel : sel[k] \in 0..s[i] - 1
    BY <1>1 DEF Valid
  <1>4. \A d \in descs : d.axis \in 0..n - 1 /\ Fit(d, s[d.axis + 1])
    BY <1>1 DEF Fits
  <1>5. ASSUME NEW i \in 1..n, Described(descs, i)
        PROVE  /\ DescOf(descs, i) \in descs /\ DescOf(descs, i).axis = i - 1
               /\ Fit(DescOf(descs, i), s[i])
               /\ SelectedAlong(descs, s, i) = Selected(DescOf(descs, i), s[i])
    <2>1. DescOf(descs, i) \in descs /\ DescOf(descs, i).axis = i - 1
      BY <1>5 DEF Described, DescOf
    <2>2. i - 1 + 1 = i
      OBVIOUS
    <2> QED BY <1>4, <1>5, <2>1, <2>2 DEF SelectedAlong
  <1>6. ASSUME NEW i \in 1..n, NEW d, d \in descs, d.axis = i - 1
        PROVE  /\ Takes(d, s[i], First(d, s[i]), Step(d), Extent(d, s[i]))
               /\ Selects(Selected(d, s[i]), First(d, s[i]), Step(d), Extent(d, s[i]))
               /\ index_of(d) # -1 <=> d.index # Missing
               /\ index_of(d) = -1 =>
                      IF d.step > 0 THEN begin_of(d, s[i]) < end_of(d, s[i]) ELSE begin_of(d, s[i]) > end_of(d, s[i])
    <2>1. Described(descs, i) /\ d = DescOf(descs, i)
      BY <1>3, <1>5, <1>6 DEF Described
    <2>2. Fit(d, s[i]) /\ SelectedAlong(descs, s, i) = Selected(d, s[i])
      BY <1>5, <2>1
    <2>3. PICK m, q : m = s[i] /\ q = Selected(d, m)
      OBVIOUS
    <2>4. q # <<>> /\ \A k \in DOMAIN q : q[k] \in 0..m - 1
      BY <1>3, <2>2, <2>3
    <2>5. CASE d.index = Missing
      <3>1. /\ Takes(d, m, First(d, m), Step(d), Extent(d, m))
            /\ Selects(q, First(d, m), Step(d), Extent(d, m))
            /\ IF d.step > 0 THEN begin_of(d, m) < end_of(d, m) ELSE begin_of(d, m) > end_of(d, m)
        BY ONLY <2>2, <2>3, <2>4, <2>5, Ranged
      <3>2. index_of(d) = -1
        BY <2>5 DEF index_of
      <3> QED BY <2>3, <2>5, <3>1, <3>2
    <2>6. CASE d.index # Missing
      <3>1. /\ index_of(d) # -1
            /\ Takes(d, m, First(d, m), Step(d), Extent(d, m))
            /\ Selects(Selected(d, m), First(d, m), Step(d), Extent(d, m))
        BY ONLY <2>2, <2>3, <2>6, Picks
      <3> QED BY <2>3, <2>6, <3>1
    <2> QED BY <2>5, <2>6
  <1>7. PICK F, P, E :
            /\ F = [i \in 1..n |-> IF Described(descs, i) THEN First(DescOf(descs, i), s[i]) ELSE 0]
            /\ P = [i \in 1..n |-> IF Described(descs, i) THEN Step(DescOf(descs, i)) ELSE 1]
            /\ E = [i \in 1..n |-> IF Described(descs, i) THEN Extent(DescOf(descs, i), s[i]) ELSE s[i]]
    OBVIOUS
  <1>8. ASSUME NEW i \in 1..n
        PROVE  /\ F[i] \in Int /\ P[i] \in Int /\ E[i] \in Nat \ {0}
               /\ Selects(SelectedAlong(descs, s, i), F[i], P[i], E[i])
               /\ IF Described(descs, i) THEN Takes(DescOf(descs, i), s[i], F[i], P[i], E[i])
                  ELSE F[i] = 0 /\ P[i] = 1 /\ E[i] = s[i]
    <2>1. CASE Described(descs, i)
      <3>1. PICK d : d = DescOf(descs, i)
        OBVIOUS
      <3>2. d \in descs /\ d.axis = i - 1 /\ SelectedAlong(descs, s, i) = Selected(d, s[i])
        BY <1>5, <2>1, <3>1
      <3>3. F[i] = First(d, s[i]) /\ P[i] = Step(d) /\ E[i] = Extent(d, s[i])
        BY <1>7, <2>1, <3>1
      <3>4. /\ Takes(d, s[i], F[i], P[i], E[i])
            /\ Selects(Selected(d, s[i]), F[i], P[i], E[i])
        BY <1>6, <3>2, <3>3
      <3>5. F[i] \in Int /\ P[i] \in Int /\ E[i] \in Nat \ {0}
        BY <3>4 DEF Takes
      <3> QED BY <2>1, <3>1, <3>2, <3>4, <3>5
    <2>2. CASE ~Described(descs, i)
      <3>1. F[i] = 0 /\ P[i] = 1 /\ E[i] = s[i] /\ s[i] \in Nat \ {0}
        BY <1>2, <1>7, <2>2
      <3>2. SelectedAlong(descs, s, i) = [k \in 1..s[i] |-> k - 1]
        BY <2>2 DEF SelectedAlong
      <3>3. \A k \in 1..s[i] : k - 1 = 0 + (k - 1) * 1
        BY <3>1
      <3>4. [k \in 1..s[i] |-> k - 1] = [k \in 1..s[i] |-> 0 + (k - 1) * 1]
        BY <3>3
      <3> QED BY <2>2, <3>1, <3>2, <3>4 DEF Selects
    <2> QED BY <2>1, <2>2
  <1>9. Ranges(F, P, E, s)
    <2>1. ASSUME NEW i \in 1..n, NEW x \in 0..E[i] - 1 PROVE F[i] + P[i] * x \in 0..s[i] - 1
      <3>1. PICK q, m, f, p, e : q = SelectedAlong(descs, s, i) /\ m = s[i] /\ f = F[i] /\ p = P[i] /\ e = E[i]
        OBVIOUS
      <3>2. Selects(q, f, p, e) /\ f \in Int /\ p \in Int /\ e \in Nat \ {0}
        BY <1>8, <3>1
      <3>3. \A k \in DOMAIN q : q[k] \in 0..m - 1
        BY <1>3, <3>1
      <3>4. \A y \in 0..e - 1 : f + p * y \in 0..m - 1
        BY ONLY <3>2, <3>3, Reached
      <3> QED BY <3>1, <3>4
    <2> QED BY <1>1, <1>8, <2>1 DEF Ranges
  <1>10. Slices(F, P, E, s, descs) /\ Along(descs, s, F, P, E)
    BY <1>1, <1>8, <1>9 DEF Slices, Along
  <1>11. Kept(descs, s) = Stays(descs, n)
    <2>1. ASSUME NEW i \in 1..n
          PROVE  (Described(descs, i) => DescOf(descs, i).index = Missing) <=> ~Indexed(descs, i)
      <3>1. CASE Described(descs, i)
        <4>1. index_of(DescOf(descs, i)) # -1 <=> DescOf(descs, i).index # Missing
          BY <1>5, <1>6, <3>1
        <4> QED BY <3>1, <4>1 DEF Indexed
      <3>2. CASE ~Described(descs, i)
        BY <3>2 DEF Indexed
      <3> QED BY <3>1, <3>2
    <2>2. {i \in 1..n : Described(descs, i) => DescOf(descs, i).index = Missing} = {i \in 1..n : ~Indexed(descs, i)}
      BY <2>1
    <2>3. {i \in Axes(s) : Described(descs, i) => DescOf(descs, i).index = Missing} = {i \in 1..n : ~Indexed(descs, i)}
      BY <1>1, <2>2
    <2> QED BY <2>3 DEF Kept, Stays
  <1>12. ASSUME NEW inp, inp.shape = s, NEW d \in descs PROVE RangeOk(inp, d)
    <2>1. PICK i \in 1..n : d.axis = i - 1 /\ d.axis + 1 = i
      <3>1. d.axis \in 0..n - 1
        BY <1>4
      <3> QED BY <3>1
    <2>2. index_of(d) = -1 =>
              IF d.step > 0 THEN begin_of(d, s[i]) < end_of(d, s[i]) ELSE begin_of(d, s[i]) > end_of(d, s[i])
      BY <1>6, <2>1
    <2> QED BY <1>12, <2>1, <2>2 DEF RangeOk
  <1> QED BY <1>1, <1>10, <1>11, <1>12

LEMMA SameFunction ==
    ASSUME NEW S, NEW T, NEW f \in [S -> T], NEW g \in [S -> T], \A x \in S : f[x] = g[x]
    PROVE  f = g
  OBVIOUS

(* The view of the elements that valid descriptions select.                *)
Seeing(v, l, descs) ==
    /\ Layout(l) /\ Fits(descs, l.shape) /\ Valid(descs, l.shape)
    /\ v = Subtensor_memoryForward(l, descs)

LEMMA SourceIs ==
    ASSUME NEW s, NEW descs, NEW F, NEW P, NEW E, IsShape(s), Slices(F, P, E, s, descs), Along(descs, s, F, P, E),
           NEW K, K = Kept(descs, s), AxesOf(K, Len(s)), NEW c, \A i \in K : c[Rank(K, i)] \in 0..E[i] - 1
    PROVE  Picked(SourceCoords(descs, s, c), c, K, F, P, Len(s))
  <1>1. PICK n \in Nat \ {0} : n = Len(s) /\ Axes(s) = 1..n
    BY ShapeTyped
  <1>2. PICK b : b = SourceCoords(descs, s, c)
    OBVIOUS
  <1>3. b = [i \in 1..n |-> SelectedAlong(descs, s, i)[(IF i \in K THEN c[Rank(K, i)] ELSE 0) + 1]]
    BY <1>1, <1>2 DEF SourceCoords, Rank
  <1>4. ASSUME NEW i \in 1..n PROVE b[i] = F[i] + P[i] * (IF i \in K THEN c[Rank(K, i)] ELSE 0)
    <2>1. PICK q, f, p, e : q = SelectedAlong(descs, s, i) /\ f = F[i] /\ p = P[i] /\ e = E[i]
      OBVIOUS
    <2>2. Selects(q, f, p, e) /\ f \in Int /\ p \in Int /\ e \in Nat \ {0}
      BY <1>1, <2>1 DEF Slices, Ranges, Along
    <2>3. PICK x \in 0..e - 1 : x = IF i \in K THEN c[Rank(K, i)] ELSE 0
      <3>1. CASE i \in K
        BY <2>1, <3>1
      <3>2. CASE i \notin K
        BY <2>2, <3>2
      <3> QED BY <3>1, <3>2
    <2>4. b[i] = q[x + 1]
      BY <1>3, <2>1, <2>3
    <2>5. q[x + 1] = f + p * x
      <3>1. PICK y \in Int, u \in Int, w \in Int, z \in Nat \ {0} : y = x /\ u = f /\ w = p /\ z = e
        BY <2>2
      <3>2. q = [k \in 1..z |-> u + (k - 1) * w]
        BY <2>2, <3>1 DEF Selects
      <3>3. y + 1 \in 1..z /\ y + 1 - 1 = y
        BY <2>3, <3>1
      <3>4. q[y + 1] = u + y * w
        BY <3>2, <3>3
      <3>5. y * w = w * y
        BY Times
      <3> QED BY <3>1, <3>4, <3>5
    <2> QED BY <2>1, <2>3, <2>4, <2>5
  <1> QED BY <1>1, <1>2, <1>4 DEF Picked

LEMMA SelectedView ==
    ASSUME NEW v, NEW l, NEW descs, Seeing(v, l, descs)
    PROVE  /\ Layout(v) /\ v.shape = SelectedShape(descs, l.shape) /\ SameBytes(v, l)
           /\ \A inp : inp.shape = l.shape => \A d \in descs : RangeOk(inp, d)
           /\ \A c : InBox(c, v.shape) => /\ InBox(SourceCoords(descs, l.shape, c), l.shape)
                                          /\ At(v, c) = At(l, SourceCoords(descs, l.shape, c))
  <1>1. PICK s : s = l.shape
    OBVIOUS
  <1>2. Layout(l) /\ Fits(descs, s) /\ Valid(descs, s) /\ v = Subtensor_memoryForward(l, descs) /\ IsShape(s)
    BY <1>1 DEF Seeing, Layout
  <1>3. PICK n \in Nat \ {0} : n = Len(s) /\ Axes(s) = 1..n
    BY <1>2, ShapeTyped
  <1>4. PICK K : K = Kept(descs, s)
    OBVIOUS
  <1>5. PICK F, P, E : Slices(F, P, E, s, descs) /\ Along(descs, s, F, P, E)
    BY <1>2, Chosen
  <1>6. K = Stays(descs, Len(s)) /\ \A inp : inp.shape = s => \A d \in descs : RangeOk(inp, d)
    BY ONLY <1>2, <1>4, Chosen
  <1>7. AxesOf(K, n) /\ K \subseteq 1..n
    BY <1>3, <1>6 DEF AxesOf, Stays
  <1>8. Viewing(v, l, descs, K, F, P, E)
    BY <1>1, <1>2, <1>5, <1>6 DEF Viewing
  <1>9. /\ Layout(v) /\ v.shape \in [1..Cardinality(K) -> Nat \ {0}] /\ Len(v.shape) = Cardinality(K)
        /\ SameBytes(v, l) /\ \A i \in K : v.shape[Rank(K, i)] = E[i]
        /\ \A c, b : InBox(c, v.shape) /\ Picked(b, c, K, F, P, Len(l.shape)) =>
                         At(v, c) = At(l, b) /\ InBox(b, l.shape)
    BY ONLY <1>8, Viewed
  <1>10. PICK m : m = Cardinality(K)
    OBVIOUS
  <1>11. /\ \A i \in K : Rank(K, i) \in 1..m
         /\ \A i, j \in K : Rank(K, i) = Rank(K, j) => i = j
         /\ \A p \in 1..m : \E i \in K : Rank(K, i) = p
    <2>1. PICK x : x = n
      OBVIOUS
    <2>2. AxesOf(K, x)
      BY <1>7, <2>1
    <2> QED BY ONLY <1>10, <2>2, Ranks
  <1>12. \A i \in 1..n : Len(SelectedAlong(descs, s, i)) = E[i]
    <2>1. ASSUME NEW i \in 1..n PROVE Len(SelectedAlong(descs, s, i)) = E[i]
      <3>1. PICK f \in Int, p \in Int, e \in Nat \ {0} : f = F[i] /\ p = P[i] /\ e = E[i]
        BY <1>3, <1>5 DEF Slices, Ranges
      <3>2. PICK q : q = SelectedAlong(descs, s, i)
        OBVIOUS
      <3>3. q = [k \in 1..e |-> f + (k - 1) * p]
        BY <1>3, <1>5, <3>1, <3>2 DEF Along, Selects
      <3>4. q \in [1..e -> Int]
        <4>1. \A k \in 1..e : f + (k - 1) * p \in Int
          <5>1. ASSUME NEW k \in 1..e PROVE f + (k - 1) * p \in Int
            <6>1. (k - 1) * p \in Int
              BY Times
            <6> QED BY <6>1
          <5> QED BY <5>1
        <4> QED BY <3>3, <4>1
      <3>5. Len(q) = e
        BY <3>4, FunctionSeq
      <3> QED BY <3>1, <3>2, <3>5
    <2> QED BY <2>1
  <1>13. v.shape = SelectedShape(descs, s)
    <2>1. SelectedShape(descs, s) =
              [p \in 1..m |-> Len(SelectedAlong(descs, s, CHOOSE i \in K : Rank(K, i) = p))]
      BY <1>4, <1>10 DEF SelectedShape, Rank
    <2>2. ASSUME NEW p \in 1..m
          PROVE  v.shape[p] = Len(SelectedAlong(descs, s, CHOOSE i \in K : Rank(K, i) = p))
      <3>1. PICK i \in K : i = (CHOOSE a \in K : Rank(K, a) = p) /\ Rank(K, i) = p
        BY <1>11
      <3>2. i \in 1..n
        BY <1>7
      <3> QED BY <1>9, <1>12, <3>1, <3>2
    <2>3. v.shape \in [1..m -> Nat \ {0}]
      BY <1>9, <1>10
    <2>4. PICK w : w = [p \in 1..m |-> Len(SelectedAlong(descs, s, CHOOSE i \in K : Rank(K, i) = p))]
      OBVIOUS
    <2>5. DOMAIN w = 1..m /\ \A p \in 1..m : w[p] = v.shape[p]
      BY <2>2, <2>4
    <2>6. w \in [1..m -> Nat \ {0}]
      BY <2>3, <2>4, <2>5
    <2>7. w = v.shape
      <3>1. PICK S, T, g : S = 1..m /\ T = Nat \ {0} /\ g = v.shape
        OBVIOUS
      <3>2. w \in [S -> T] /\ g \in [S -> T] /\ \A x \in S : w[x] = g[x]
        BY ONLY <2>3, <2>5, <2>6, <3>1
      <3>3. w = g
        BY ONLY <3>2, SameFunction
      <3> QED BY ONLY <3>1, <3>3
    <2> QED BY <2>1, <2>4, <2>7
  <1>14. ASSUME NEW c, InBox(c, v.shape)
         PROVE  /\ InBox(SourceCoords(descs, s, c), s)
                /\ At(v, c) = At(l, SourceCoords(descs, s, c))
    <2>1. \A i \in K : c[Rank(K, i)] \in 0..E[i] - 1
      <3>1. \A p \in 1..m : c[p] \in 0..v.shape[p] - 1
        BY <1>9, <1>10, <1>14 DEF InBox
      <3> QED BY <1>9, <1>11, <3>1
    <2>2. Picked(SourceCoords(descs, s, c), c, K, F, P, Len(s))
      <3>1. AxesOf(K, Len(s))
        BY <1>3, <1>7
      <3> QED BY ONLY <1>2, <1>4, <1>5, <2>1, <3>1, SourceIs
    <2> QED BY <1>1, <1>9, <1>14, <2>2
  <1> QED BY <1>1, <1>6, <1>9, <1>13, <1>14

-----------------------------------------------------------------------------
(* Views, the memory they are of, and what is written.                     *)

(* What a view holds.                                                      *)
TensorOf(t) ==
    /\ t = [shape |-> t.shape, data |-> t.data] /\ IsShape(t.shape)
    /\ DOMAIN t.data = Places(t.shape) /\ t.data = [k \in Places(t.shape) |-> t.data[k]]
Reads(l, mem, t) ==
    /\ Layout(l) /\ l.shape = t.shape
    /\ \A k \in Places(l.shape) : Cell(l, k) \in DOMAIN mem /\ mem[Cell(l, k)] = t.data[k]
Follows(p, l) ==
    /\ Layout(p) /\ Layout(l) /\ p.shape = l.shape
    /\ l.offset % DtypeSize = 0 /\ p.offset % DtypeSize = PlanAddr % DtypeSize
    /\ \A k \in Places(l.shape) : Cell(p, k) = Cell(l, k) + PlanAddr \div DtypeSize

LEMMA PlacesTyped ==
    ASSUME NEW s, IsShape(s)
    PROVE  Places(s) \subseteq Nat /\ 0 \in Places(s)
  <1>1. PICK n \in Nat \ {0} : n = NumElems(s)
    BY NumElemsTyped
  <1> QED BY <1>1 DEF Places

LEMMA CellOf ==
    ASSUME NEW l, Layout(l)
    PROVE  /\ \A k \in Places(l.shape) : /\ InBox(Coords(l.shape, k), l.shape)
                                         /\ Cell(l, k) = At(l, Coords(l.shape, k)) /\ Cell(l, k) \in Int
           /\ \A c : InBox(c, l.shape) => /\ Place(l.shape, c) \in Places(l.shape)
                                          /\ At(l, c) = Cell(l, Place(l.shape, c))
  <1>1. PICK s : s = l.shape /\ IsShape(s)
    BY DEF Layout
  <1>2. PICK n \in Nat \ {0} : n = Len(s) /\ s \in [1..n -> Nat \ {0}]
    BY <1>1, ShapeTyped
  <1>3. l.stride \in [1..n -> Int] /\ Len(l.stride) = n /\ l.offset \div DtypeSize \in Int
    <2>1. l.stride \in [1..n -> Int] /\ l.offset \in Int
      BY <1>1, <1>2 DEF Layout
    <2>2. l.offset \div DtypeSize \in Int
      BY <2>1, DtypeAssumption, Divided
    <2> QED BY <2>1, <2>2, FunctionSeq
  <1>4. ASSUME NEW c, InBox(c, s) PROVE Row(n, c, l.stride)
    <2>1. ASSUME NEW i \in 1..n PROVE c[i] \in Int
      <3>1. s[i] \in Nat \ {0} /\ c[i] \in 0..s[i] - 1
        BY <1>2, <1>4 DEF InBox
      <3> QED BY <3>1
    <2> QED BY <1>3, <2>1 DEF Row
  <1>5. ASSUME NEW k \in Places(s)
        PROVE  InBox(Coords(s, k), s) /\ Cell(l, k) = At(l, Coords(s, k)) /\ Cell(l, k) \in Int
    <2>1. k \in Int
      BY <1>1, PlacesTyped
    <2>2. InBox(Coords(s, k), s)
      BY <1>1, <2>1, CoordsInBox
    <2>3. Cell(l, k) = At(l, Coords(s, k))
      BY <1>1 DEF Cell, At
    <2>4. Dot(Coords(s, k), l.stride) \in Int
      <3>1. PICK x : x = n
        OBVIOUS
      <3>2. Row(x, Coords(s, k), l.stride)
        BY <1>4, <2>2, <3>1
      <3> QED BY ONLY <3>2, DotInt
    <2> QED BY <1>3, <2>2, <2>3, <2>4 DEF At
  <1>6. ASSUME NEW c, InBox(c, s)
        PROVE  Place(s, c) \in Places(s) /\ At(l, c) = Cell(l, Place(s, c))
    <2>1. Place(s, c) \in Places(s) /\ \A i \in 1..n : Coords(s, Place(s, c))[i] = c[i]
      BY <1>1, <1>2, <1>6, CoordsOfPlace
    <2>2. PICK d : d = Coords(s, Place(s, c)) /\ InBox(d, s)
      BY <1>5, <2>1
    <2>3. Dot(c, l.stride) = Dot(d, l.stride)
      <3>1. PICK x : x = n
        OBVIOUS
      <3>2. Row(x, c, l.stride) /\ Row(x, d, l.stride) /\ \A i \in 1..x : c[i] * l.stride[i] = d[i] * l.stride[i]
        BY <1>4, <1>6, <2>1, <2>2, <3>1
      <3> QED BY ONLY <3>2, DotSame
    <2> QED BY <1>5, <2>1, <2>2, <2>3 DEF At
  <1> QED BY <1>1, <1>5, <1>6

(* A view reads the elements that stand where its cells are.               *)
Sees(v, l, S) ==
    /\ Layout(v) /\ Layout(l) /\ SameBytes(v, l)
    /\ \A k \in Places(v.shape) : InBox(S[k], l.shape) /\ Cell(v, k) = At(l, S[k])

LEMMA ViewReads ==
    ASSUME NEW v, NEW l, NEW S, Sees(v, l, S), NEW mem, NEW t, Reads(l, mem, t)
    PROVE  \A k \in Places(v.shape) : Cell(v, k) \in DOMAIN mem /\ mem[Cell(v, k)] = ElementAt(t, S[k])
  <1>1. ASSUME NEW k \in Places(v.shape)
        PROVE  Cell(v, k) \in DOMAIN mem /\ mem[Cell(v, k)] = ElementAt(t, S[k])
    <2>1. Layout(l) /\ InBox(S[k], l.shape) /\ Cell(v, k) = At(l, S[k])
      BY DEF Sees
    <2>2. Place(l.shape, S[k]) \in Places(l.shape) /\ Cell(v, k) = Cell(l, Place(l.shape, S[k]))
      BY <2>1, CellOf
    <2> QED BY <2>2 DEF Reads, ElementAt
  <1> QED BY <1>1

LEMMA ViewFollows ==
    ASSUME NEW v, NEW l, NEW S, Sees(v, l, S), NEW w, NEW p, Sees(w, p, S), w.shape = v.shape, Follows(p, l)
    PROVE  Follows(w, v)
  <1>1. ASSUME NEW k \in Places(v.shape) PROVE Cell(w, k) = Cell(v, k) + PlanAddr \div DtypeSize
    <2>1. /\ Layout(l) /\ InBox(S[k], l.shape) /\ Cell(v, k) = At(l, S[k])
          /\ Layout(p) /\ InBox(S[k], p.shape) /\ Cell(w, k) = At(p, S[k])
      BY DEF Sees
    <2>2. Place(l.shape, S[k]) \in Places(l.shape) /\ Cell(v, k) = Cell(l, Place(l.shape, S[k]))
      BY <2>1, CellOf
    <2>3. Cell(w, k) = Cell(p, Place(p.shape, S[k]))
      BY <2>1, CellOf
    <2> QED BY <2>2, <2>3 DEF Follows
  <1>2. v.offset % DtypeSize = 0 /\ w.offset % DtypeSize = PlanAddr % DtypeSize
    BY DEF Follows, Sees, SameBytes
  <1> QED BY <1>1, <1>2 DEF Follows, Sees

(* What is in memory after the writes of a set of indices.                 *)
Writing(W, T, A, B) ==
    /\ W = {[at |-> A[k], elem |-> B[k]] : k \in T}
    /\ \A j, k \in T : A[j] = A[k] => B[j] = B[k]

LEMMA WrittenAt ==
    ASSUME NEW W, NEW T, NEW A, NEW B, Writing(W, T, A, B), NEW mem
    PROVE  /\ DOMAIN Written(mem, W) = DOMAIN mem
           /\ \A k \in T : A[k] \in DOMAIN mem => Written(mem, W)[A[k]] = B[k]
           /\ \A c \in DOMAIN mem : (\A k \in T : A[k] # c) => Written(mem, W)[c] = mem[c]
  <1>1. W = {[at |-> A[k], elem |-> B[k]] : k \in T} /\ \A j, k \in T : A[j] = A[k] => B[j] = B[k]
    BY DEF Writing
  <1>2. PICK r : r = Written(mem, W)
    OBVIOUS
  <1>3. /\ DOMAIN r = DOMAIN mem
        /\ \A c \in DOMAIN mem :
             r[c] = IF \E w \in W : w.at = c THEN (CHOOSE w \in W : w.at = c).elem ELSE mem[c]
    BY <1>2 DEF Written
  <1>4. ASSUME NEW k \in T, A[k] \in DOMAIN mem PROVE r[A[k]] = B[k]
    <2>1. PICK c : c = A[k]
      OBVIOUS
    <2>2. \E w \in W : w.at = c
      <3>1. PICK u : u = [at |-> A[k], elem |-> B[k]]
        OBVIOUS
      <3>2. u \in W
        BY <1>1, <3>1
      <3>3. u.at = c
        BY ONLY <2>1, <3>1
      <3> QED BY <3>2, <3>3
    <2>3. PICK u \in W : u = (CHOOSE w \in W : w.at = c) /\ u.at = c
      BY <2>2
    <2>4. PICK j \in T : u = [at |-> A[j], elem |-> B[j]]
      BY <1>1, <2>3
    <2>5. u.elem = B[k]
      <3>1. u.at = A[j] /\ u.elem = B[j]
        BY ONLY <2>4
      <3>2. u.at = A[k]
        BY ONLY <2>1, <2>3
      <3> QED BY <1>1, <3>1, <3>2
    <2>6. r[c] = u.elem
      BY <1>3, <1>4, <2>1, <2>2, <2>3
    <2> QED BY <2>1, <2>5, <2>6
  <1>5. ASSUME NEW c \in DOMAIN mem, \A k \in T : A[k] # c PROVE r[c] = mem[c]
    <2>1. ~\E w \in W : w.at = c
      BY <1>1, <1>5
    <2> QED BY <1>3, <2>1
  <1> QED BY <1>2, <1>3, <1>4, <1>5

(* A buffer of its own, and where the plan puts it.                        *)
LEMMA ContiguousCells ==
    ASSUME NEW s, IsShape(s)
    PROVE  /\ Layout(Contiguous(s)) /\ Contiguous(s).shape = s
           /\ \A c : At(Contiguous(s), c) = Place(s, c) + 0 \/ At(Contiguous(s), c) = 0 + Place(s, c)
           /\ \A c : InBox(c, s) => At(Contiguous(s), c) = Place(s, c)
           /\ \A k \in Places(s) : Cell(Contiguous(s), k) = k
  <1>1. PICK l : l = Contiguous(s)
    OBVIOUS
  <1>2. l.shape = s /\ l.stride = RowMajor(s) /\ l.offset = 0 /\ Fields(l)
    BY <1>1 DEF Contiguous, Fields
  <1>3. 0 \div DtypeSize = 0 /\ 0 % DtypeSize = 0
    <2>1. PICK b \in Nat \ {0} : b = DtypeSize
      BY DtypeAssumption
    <2>2. 0 = b * 0 + 0 /\ 0 \in 0..b - 1
      BY Times
    <2>3. 0 \div b = 0 /\ 0 % b = 0
      BY <2>2, DividedBy
    <2> QED BY <2>1, <2>3
  <1>4. RowMajor(s) \in [1..Len(s) -> Int]
    <2>1. RowMajor(s) \in [1..Len(s) -> Nat \ {0}]
      BY RowMajorStrides DEF Strides
    <2> QED BY <2>1
  <1>5. Layout(l)
    BY <1>2, <1>3, <1>4 DEF Layout
  <1>6. \A c : At(l, c) = 0 + Place(s, c)
    BY <1>2, <1>3 DEF At, Place
  <1>7. ASSUME NEW c, InBox(c, s) PROVE At(l, c) = Place(s, c)
    <2>1. Place(s, c) \in Places(s)
      BY <1>7, CoordsOfPlace
    <2>2. Place(s, c) \in Nat
      BY <2>1, PlacesTyped
    <2> QED BY <1>6, <2>2
  <1>8. ASSUME NEW k \in Places(s) PROVE Cell(l, k) = k
    <2>1. InBox(Coords(s, k), s) /\ Cell(l, k) = At(l, Coords(s, k))
      BY <1>2, <1>5, CellOf
    <2> QED BY <1>7, <2>1, PlaceOfCoords
  <1> QED BY <1>1, <1>2, <1>5, <1>6, <1>7, <1>8

-----------------------------------------------------------------------------
(* Relayout and Subtensor.                                                 *)

(* A tensor, the memory of its view, the view, and the view in the plan.   *)
Standing(t, mem, l, p) == TensorOf(t) /\ Reads(l, mem, t) /\ Follows(p, l)

LEMMA FreshBuffer ==
    ASSUME NEW t, TensorOf(t), NEW mem, DOMAIN mem = Places(t.shape), \A k \in Places(t.shape) : mem[k] = t.data[k]
    PROVE  Standing(t, mem, Contiguous(t.shape), assignOffset(Contiguous(t.shape)))
  <1>1. PICK s : s = t.shape /\ IsShape(s)
    BY DEF TensorOf
  <1>2. PICK l : l = Contiguous(s)
    OBVIOUS
  <1>3. Layout(l) /\ l.shape = s /\ \A k \in Places(s) : Cell(l, k) = k
    BY <1>1, <1>2, ContiguousCells
  <1>4. l.offset = 0
    BY <1>2 DEF Contiguous
  <1>5. Reads(l, mem, t)
    BY <1>1, <1>3 DEF Reads
  <1>6. PICK D \in Nat \ {0}, P \in Nat : D = DtypeSize /\ P = PlanAddr
    BY DtypeAssumption
  <1>7. 0 % D = 0 /\ 0 \div D = 0 /\ P \div D \in Int
    <2>1. 0 = D * 0 + 0 /\ 0 \in 0..D - 1
      BY Times
    <2>2. 0 \div D = 0 /\ 0 % D = 0
      BY <2>1, DividedBy
    <2> QED BY <2>2, Divided
  <1>8. PICK p : p = assignOffset(l)
    OBVIOUS
  <1>9. p = [shape |-> s, stride |-> l.stride, offset |-> P]
    <2>1. Fields(l)
      BY <1>3 DEF Layout
    <2>2. p = [shape |-> l.shape, stride |-> l.stride, offset |-> P]
      BY <1>6, <1>8, <2>1, NewOffset DEF assignOffset
    <2> QED BY <1>3, <2>2
  <1>10. p.shape = s /\ p.stride = l.stride /\ p.offset = P /\ Layout(p)
    BY <1>3, <1>9 DEF Layout, Fields
  <1>11. ASSUME NEW k \in Places(s) PROVE Cell(p, k) = Cell(l, k) + P \div D
    <2>1. PICK c : c = Dot(Coords(s, k), l.stride)
      OBVIOUS
    <2>2. Cell(l, k) = 0 + c /\ Cell(p, k) = P \div D + c
      BY <1>3, <1>4, <1>6, <1>7, <1>10, <2>1 DEF Cell
    <2>3. c \in Int
      <3>1. InBox(Coords(s, k), s)
        BY <1>3, CellOf
      <3>2. l.stride = RowMajor(s)
        BY <1>2 DEF Contiguous
      <3>3. Row(Len(s), Coords(s, k), RowMajor(s))
        BY <1>1, <3>1, BoxRow
      <3> QED BY <2>1, <3>2, <3>3, DotInt
    <2> QED BY <1>7, <2>2, <2>3
  <1>12. Follows(p, l)
    BY <1>3, <1>4, <1>6, <1>7, <1>10, <1>11 DEF Follows
  <1> QED BY <1>1, <1>2, <1>5, <1>8, <1>12 DEF Standing

LEMMA ContentOf ==
    ASSUME NEW t, NEW mem, NEW l, Reads(l, mem, t)
    PROVE  /\ Content(mem, l).shape = t.shape /\ DOMAIN Content(mem, l).data = Places(t.shape)
           /\ \A k \in Places(t.shape) : Content(mem, l).data[k] = t.data[k]
  BY DEF Reads, Content, Held

(* A copy to a buffer, through a view whose cells are in order.            *)
LEMMA CopiedInOrder ==
    ASSUME NEW s, NEW v, Places(v.shape) = Places(s), \A k \in Places(s) : Cell(v, k) = k, NEW x, NEW mem,
           DOMAIN mem = Places(s)
    PROVE  /\ DOMAIN Relayouted(mem, v, x) = Places(s)
           /\ \A k \in Places(s) : Relayouted(mem, v, x)[k] = x.data[k]
  <1>1. PICK T, A, B : T = Places(s) /\ A = [k \in T |-> Cell(v, k)] /\ B = [k \in T |-> x.data[k]]
    OBVIOUS
  <1>2. PICK W : W = {[at |-> Cell(v, k), elem |-> x.data[k]] : k \in Places(v.shape)}
    OBVIOUS
  <1>3. Relayouted(mem, v, x) = Written(mem, W)
    BY <1>2 DEF Relayouted
  <1>4. \A k \in T : A[k] = Cell(v, k) /\ B[k] = x.data[k] /\ A[k] = k
    BY <1>1
  <1>5. W = {[at |-> A[k], elem |-> B[k]] : k \in T}
    <2>1. W = {[at |-> Cell(v, k), elem |-> x.data[k]] : k \in T}
      BY <1>1, <1>2
    <2> QED BY <1>4, <2>1
  <1>6. Writing(W, T, A, B)
    BY <1>4, <1>5 DEF Writing
  <1>7. /\ DOMAIN Written(mem, W) = DOMAIN mem
        /\ \A k \in T : A[k] \in DOMAIN mem => Written(mem, W)[A[k]] = B[k]
    BY ONLY <1>6, WrittenAt
  <1> QED BY <1>1, <1>3, <1>4, <1>7

LEMMA RelayoutHolds ==
    ASSUME NEW t, NEW mem, NEW l, NEW p, Standing(t, mem, l, p),
           NEW m, m = Relayouted(Blank(t.shape), Contiguous(t.shape), Content(mem, l))
    PROVE  Standing(t, m, Contiguous(t.shape), assignOffset(Contiguous(t.shape)))
  <1>1. PICK s : s = t.shape /\ IsShape(s) /\ TensorOf(t)
    BY DEF Standing, TensorOf
  <1>2. PICK v, x, b : v = Contiguous(s) /\ x = Content(mem, l) /\ b = Blank(s)
    OBVIOUS
  <1>3. Places(v.shape) = Places(s) /\ \A k \in Places(s) : Cell(v, k) = k
    BY <1>1, <1>2, ContiguousCells
  <1>4. DOMAIN b = Places(s)
    BY <1>2 DEF Blank
  <1>5. DOMAIN m = Places(s) /\ \A k \in Places(s) : m[k] = x.data[k]
    <2>1. m = Relayouted(b, v, x)
      BY <1>1, <1>2
    <2>2. /\ DOMAIN Relayouted(b, v, x) = Places(s)
          /\ \A k \in Places(s) : Relayouted(b, v, x)[k] = x.data[k]
      BY ONLY <1>3, <1>4, CopiedInOrder
    <2> QED BY <2>1, <2>2
  <1>6. \A k \in Places(s) : x.data[k] = t.data[k]
    BY <1>1, <1>2, ContentOf DEF Standing
  <1> QED BY <1>1, <1>5, <1>6, FreshBuffer

LEMMA SubtensorHolds ==
    ASSUME NEW t, NEW mem, NEW l, NEW p, Standing(t, mem, l, p),
           NEW descs, Fits(descs, t.shape), Valid(descs, t.shape)
    PROVE  /\ Standing(SubTensor(t, descs), mem, Subtensor_memoryForward(l, descs), Subtensor_memoryForward(p, descs))
           /\ \A d \in descs : RangeOk(l, d)
  <1>1. PICK s : s = t.shape /\ s = l.shape /\ s = p.shape /\ Layout(l) /\ Layout(p)
    BY DEF Standing, Reads, Follows
  <1>2. PICK v, w : v = Subtensor_memoryForward(l, descs) /\ w = Subtensor_memoryForward(p, descs)
    OBVIOUS
  <1>3. Seeing(v, l, descs) /\ Seeing(w, p, descs)
    BY <1>1, <1>2 DEF Seeing
  <1>4. /\ Layout(v) /\ v.shape = SelectedShape(descs, s) /\ SameBytes(v, l)
        /\ \A inp : inp.shape = s => \A d \in descs : RangeOk(inp, d)
        /\ \A c : InBox(c, v.shape) => /\ InBox(SourceCoords(descs, s, c), s)
                                       /\ At(v, c) = At(l, SourceCoords(descs, s, c))
    <2>1. /\ Layout(v) /\ v.shape = SelectedShape(descs, l.shape) /\ SameBytes(v, l)
          /\ \A inp : inp.shape = l.shape => \A d \in descs : RangeOk(inp, d)
          /\ \A c : InBox(c, v.shape) => /\ InBox(SourceCoords(descs, l.shape, c), l.shape)
                                         /\ At(v, c) = At(l, SourceCoords(descs, l.shape, c))
      BY ONLY <1>3, SelectedView
    <2>2. s = l.shape
      BY <1>1
    <2> QED BY ONLY <2>1, <2>2
  <1>5. /\ Layout(w) /\ w.shape = SelectedShape(descs, s) /\ SameBytes(w, p)
        /\ \A c : InBox(c, w.shape) => /\ InBox(SourceCoords(descs, s, c), s)
                                       /\ At(w, c) = At(p, SourceCoords(descs, s, c))
    <2>1. /\ Layout(w) /\ w.shape = SelectedShape(descs, p.shape) /\ SameBytes(w, p)
          /\ \A c : InBox(c, w.shape) => /\ InBox(SourceCoords(descs, p.shape, c), p.shape)
                                         /\ At(w, c) = At(p, SourceCoords(descs, p.shape, c))
      BY ONLY <1>3, SelectedView
    <2>2. s = p.shape
      BY <1>1
    <2> QED BY ONLY <2>1, <2>2
  <1>6. PICK q, S : q = v.shape /\ S = [k \in Places(q) |-> SourceCoords(descs, s, Coords(q, k))]
    OBVIOUS
  <1>7. ASSUME NEW k \in Places(q)
        PROVE  /\ InBox(S[k], s) /\ Cell(v, k) = At(l, S[k]) /\ Cell(w, k) = At(p, S[k])
    <2>1. PICK c : c = Coords(q, k)
      OBVIOUS
    <2>2. InBox(c, q) /\ Cell(v, k) = At(v, c)
      BY <1>4, <1>6, <2>1, CellOf
    <2>3. Cell(w, k) = At(w, c) /\ w.shape = q
      BY <1>4, <1>5, <1>6, <2>1, CellOf
    <2>4. S[k] = SourceCoords(descs, s, c)
      BY <1>6, <2>1
    <2> QED BY <1>4, <1>5, <1>6, <2>2, <2>3, <2>4
  <1>8. Sees(v, l, S) /\ Sees(w, p, S) /\ w.shape = v.shape
    BY <1>1, <1>4, <1>5, <1>6, <1>7 DEF Sees
  <1>9. Follows(w, v)
    BY ONLY <1>8, Standing(t, mem, l, p), ViewFollows DEF Standing
  <1>10. \A k \in Places(q) : Cell(v, k) \in DOMAIN mem /\ mem[Cell(v, k)] = ElementAt(t, S[k])
    BY ONLY <1>6, <1>8, Standing(t, mem, l, p), ViewReads DEF Standing
  <1>11. PICK u : u = SubTensor(t, descs)
    OBVIOUS
  <1>12. u = [shape |-> q, data |-> [k \in Places(q) |-> ElementAt(t, SourceCoords(descs, s, Coords(q, k)))]]
    BY <1>1, <1>4, <1>6, <1>11 DEF SubTensor, Tensor
  <1>13. u.shape = q /\ DOMAIN u.data = Places(q) /\ \A k \in Places(q) : u.data[k] = ElementAt(t, S[k])
    BY <1>6, <1>12
  <1>14. TensorOf(u)
    BY <1>4, <1>6, <1>12, <1>13 DEF TensorOf, Layout
  <1>15. Reads(v, mem, u)
    BY <1>4, <1>6, <1>10, <1>13 DEF Reads
  <1> QED BY <1>1, <1>2, <1>4, <1>9, <1>11, <1>14, <1>15 DEF Standing

-----------------------------------------------------------------------------
(* Reshape.                                                                *)

LEMMA DotZero ==
    ASSUME NEW n, NEW c, NEW t, Row(n, c, t), \A i \in 1..n : c[i] = 0
    PROVE  Dot(c, t) = 0
  <1>1. \A i \in 1..n : c[i] * t[i] = c[i] * t[i] - c[i] * t[i]
    <2>1. ASSUME NEW i \in 1..n PROVE c[i] * t[i] = c[i] * t[i] - c[i] * t[i]
      <3>1. PICK a \in Int, b \in Int : a = c[i] /\ b = t[i] /\ a = 0
        BY DEF Row
      <3>2. a * b = 0
        BY <3>1
      <3> QED BY <3>1, <3>2
    <2> QED BY <2>1
  <1>2. Dot(c, t) = Dot(c, t) - Dot(c, t)
    BY ONLY Row(n, c, t), <1>1, DotMinus
  <1>3. Dot(c, t) \in Int
    BY ONLY Row(n, c, t), DotInt
  <1> QED BY <1>2, <1>3

(* The first element, and the neighbour of it along an axis.               *)
LEMMA FirstPlace ==
    ASSUME NEW s, IsShape(s)
    PROVE  /\ \A i \in 1..Len(s) : Coords(s, 0)[i] = 0
           /\ \A i \in 1..Len(s) : s[i] # 1 => RowMajor(s)[i] \in Places(s)
  <1>1. PICK n \in Nat \ {0} : n = Len(s) /\ s \in [1..n -> Nat \ {0}]
    BY ShapeTyped
  <1>2. PICK r : r = RowMajor(s) /\ r \in [1..n -> Nat \ {0}]
    BY <1>1, RowMajorStrides DEF Strides
  <1>3. PICK z : z = [i \in 1..n |-> 0]
    OBVIOUS
  <1>4. InBox(z, s)
    BY <1>1, <1>3 DEF InBox
  <1>5. Place(s, z) = 0
    <2>1. Row(Len(s), z, r) /\ \A i \in 1..Len(s) : z[i] = 0
      BY <1>1, <1>2, <1>3, <1>4, BoxRow
    <2>2. Dot(z, r) = 0
      BY ONLY <2>1, DotZero
    <2> QED BY <1>2, <2>2 DEF Place
  <1>6. \A i \in 1..n : Coords(s, 0)[i] = 0
    <2>1. \A i \in 1..n : Coords(s, Place(s, z))[i] = z[i]
      BY <1>1, <1>4, CoordsOfPlace
    <2> QED BY <1>3, <1>5, <2>1
  <1>7. ASSUME NEW i \in 1..n, s[i] # 1 PROVE r[i] \in Places(s)
    <2>1. PICK c : c = [j \in 1..n |-> IF j = i THEN 1 ELSE 0]
      OBVIOUS
    <2>2. InBox(c, s)
      <3>1. ASSUME NEW j \in 1..n PROVE c[j] \in 0..s[j] - 1
        <4>1. s[j] \in Nat \ {0} /\ (j = i => s[j] # 1)
          BY <1>1, <1>7
        <4> QED BY <2>1, <4>1
      <3> QED BY <1>1, <3>1 DEF InBox
    <2>3. Row(n, z, r) /\ Row(n, c, r)
      BY <1>1, <1>2, <1>4, <2>2, BoxRow
    <2>4. Bumped(n, z, r, c, r, i, r[i])
      <3>1. ASSUME NEW j \in 1..n
            PROVE  c[j] * r[j] = IF j = i THEN z[j] * r[j] + r[i] ELSE z[j] * r[j]
        <4>1. PICK a \in Nat \ {0} : a = r[j]
          BY <1>2
        <4>2. 1 * a = a /\ 0 * a = 0
          BY <4>1
        <4> QED BY <1>3, <2>1, <4>1, <4>2
      <3> QED BY <1>2, <3>1 DEF Bumped
    <2>5. Dot(c, r) = Dot(z, r) + r[i]
      <3>1. PICK m, x : m = n /\ x = r[i]
        OBVIOUS
      <3>2. Row(m, z, r) /\ Row(m, c, r) /\ Bumped(m, z, r, c, r, i, x)
        BY <2>3, <2>4, <3>1
      <3>3. Dot(c, r) = Dot(z, r) + x
        BY ONLY <3>2, DotPoint
      <3> QED BY <3>1, <3>3
    <2>6. Place(s, c) = r[i]
      BY <1>2, <1>5, <2>5 DEF Place
    <2> QED BY <2>2, <2>6, CoordsOfPlace
  <1> QED BY <1>1, <1>2, <1>6, <1>7

LEMMA CellZero ==
    ASSUME NEW l, Layout(l)
    PROVE  Cell(l, 0) = l.offset \div DtypeSize
  <1>1. PICK s : s = l.shape /\ IsShape(s)
    BY DEF Layout
  <1>2. PICK n : n = Len(s)
    OBVIOUS
  <1>3. 0 \in Places(s) /\ Coords(s, 0) \in {Coords(s, 0)} /\ InBox(Coords(s, 0), s)
    BY <1>1, PlacesTyped, CoordsInBox
  <1>4. \A i \in 1..n : Coords(s, 0)[i] = 0
    BY <1>1, <1>2, FirstPlace
  <1>5. Row(n, Coords(s, 0), l.stride)
    <2>1. n \in Nat /\ l.stride \in [1..n -> Int]
      BY <1>1, <1>2, ShapeTyped DEF Layout
    <2>2. Len(l.stride) = n
      BY <2>1, FunctionSeq
    <2> QED BY <1>4, <2>1, <2>2 DEF Row
  <1>6. Dot(Coords(s, 0), l.stride) = 0
    BY ONLY <1>4, <1>5, DotZero
  <1>7. l.offset \div DtypeSize \in Int
    BY DtypeAssumption, Divided DEF Layout
  <1> QED BY <1>1, <1>6, <1>7 DEF Cell

(* Reshaping.                                                              *)
Reshaping(l, r) == Layout(l) /\ IsShape(r) /\ Places(r) = Places(l.shape)
LEMMA ReshapedLayout ==
    ASSUME NEW l, NEW r, Reshaping(l, r)
    PROVE  /\ Layout(reshaped(l, r)) /\ reshaped(l, r).shape = r /\ reshaped(l, r).offset = l.offset
           /\ \A i \in 1..Len(r) :
                reshaped(l, r).stride[i] = IF r[i] = 1 THEN RowMajor(r)[i]
                                           ELSE Cell(l, RowMajor(r)[i]) - Cell(l, 0)
  <1>1. Layout(l) /\ IsShape(r) /\ Places(r) = Places(l.shape)
    BY DEF Reshaping
  <1>2. PICK n \in Nat \ {0} : n = Len(r) /\ r \in [1..n -> Nat \ {0}] /\ Axes(r) = 1..n
    BY <1>1, ShapeTyped
  <1>3. PICK d : d = RowMajor(r) /\ d \in [1..n -> Nat \ {0}]
    BY <1>1, <1>2, RowMajorStrides DEF Strides
  <1>4. PICK t : t = [i \in 1..n |-> IF r[i] = 1 THEN d[i] ELSE Cell(l, d[i]) - Cell(l, 0)]
    OBVIOUS
  <1>5. t \in [1..n -> Int]
    <2>1. ASSUME NEW i \in 1..n PROVE t[i] \in Int
      <3>1. CASE r[i] = 1
        <4>1. t[i] = d[i] /\ d[i] \in Nat \ {0}
          BY <1>3, <1>4, <3>1
        <4> QED BY <4>1
      <3>2. CASE r[i] # 1
        <4>1. d[i] \in Places(l.shape) /\ 0 \in Places(l.shape)
          BY <1>1, <1>2, <1>3, <3>2, FirstPlace, PlacesTyped
        <4>2. Cell(l, d[i]) \in Int /\ Cell(l, 0) \in Int
          BY <1>1, <4>1, CellOf
        <4>3. t[i] = Cell(l, d[i]) - Cell(l, 0)
          BY <1>4, <3>2
        <4> QED BY <4>2, <4>3
      <3> QED BY <3>1, <3>2
    <2> QED BY <1>4, <2>1
  <1>6. PICK v : v = reshaped(l, r)
    OBVIOUS
  <1>7. v = [shape |-> r, stride |-> t, offset |-> l.offset]
    <2>1. v = [l EXCEPT !.shape = r, !.stride = t]
      BY <1>2, <1>3, <1>4, <1>6 DEF reshaped
    <2>2. Fields(l)
      BY <1>1 DEF Layout
    <2> QED BY <2>1, <2>2, NewShapeStride
  <1>8. v.shape = r /\ v.stride = t /\ v.offset = l.offset
    BY <1>7
  <1>9. Layout(v)
    BY <1>1, <1>2, <1>5, <1>7, <1>8 DEF Layout, Fields
  <1> QED BY <1>2, <1>3, <1>4, <1>6, <1>8, <1>9

(* A tensor of another shape with as many elements.                        *)
NewForm(t, shape, r) ==
    r = ResolvedShape(NumElems(t.shape), shape) /\ IsShape(r) /\ NumElems(r) = NumElems(t.shape)

LEMMA NewFormOf ==
    ASSUME NEW t, NEW shape, NEW r, TensorOf(t), NewForm(t, shape, r)
    PROVE  /\ Places(r) = Places(t.shape) /\ TensorOf(ReShape(t, shape))
           /\ ReShape(t, shape).shape = r /\ ReShape(t, shape).data = t.data
  <1>1. PICK u : u = ReShape(t, shape)
    OBVIOUS
  <1>2. u = [shape |-> r, data |-> t.data]
    <2>1. t = [shape |-> t.shape, data |-> t.data]
      BY DEF TensorOf
    <2>2. u = [t EXCEPT !.shape = r]
      BY <1>1 DEF ReShape, NewForm
    <2> QED BY <2>1, <2>2
  <1>3. u.shape = r /\ u.data = t.data
    BY <1>2
  <1>4. Places(r) = Places(t.shape)
    BY DEF Places, NewForm
  <1> QED BY <1>1, <1>2, <1>3, <1>4 DEF TensorOf, NewForm

LEMMA ReshapeHolds ==
    ASSUME NEW t, NEW mem, NEW l, NEW p, Standing(t, mem, l, p), NEW shape, NEW r, NewForm(t, shape, r),
           try_reshape(l, ResolvedShape(NumElems(l.shape), shape))
    PROVE  Standing(ReShape(t, shape), mem, Reshape_memoryForward(l, shape), Reshape_memoryForward(p, shape))
  <1>1. PICK s : s = t.shape /\ s = l.shape /\ s = p.shape /\ Layout(l) /\ Layout(p) /\ TensorOf(t) /\ IsShape(s)
    BY DEF Standing, Reads, Follows, TensorOf
  <1>2. PICK u : u = ReShape(t, shape) /\ TensorOf(u) /\ u.shape = r /\ u.data = t.data /\ Places(r) = Places(s)
    <2>1. /\ Places(r) = Places(t.shape) /\ TensorOf(ReShape(t, shape))
          /\ ReShape(t, shape).shape = r /\ ReShape(t, shape).data = t.data
      BY ONLY <1>1, NewForm(t, shape, r), NewFormOf
    <2> QED BY ONLY <1>1, <2>1
  <1>3. PICK v, w : v = reshaped(l, r) /\ w = reshaped(p, r)
    OBVIOUS
  <1>4. v = Reshape_memoryForward(l, shape) /\ w = Reshape_memoryForward(p, shape) /\ try_reshape(l, r)
    BY <1>1, <1>3 DEF NewForm, Reshape_memoryForward
  <1>5. PICK n \in Nat \ {0} : n = Len(r) /\ r \in [1..n -> Nat \ {0}]
    BY ShapeTyped DEF NewForm
  <1>6. /\ Layout(v) /\ v.shape = r /\ v.offset = l.offset
        /\ \A i \in 1..n : v.stride[i] = IF r[i] = 1 THEN RowMajor(r)[i] ELSE Cell(l, RowMajor(r)[i]) - Cell(l, 0)
    <2>1. Reshaping(l, r)
      BY <1>1, <1>2 DEF Reshaping, NewForm
    <2> QED BY <1>3, <1>5, <2>1, ReshapedLayout
  <1>7. /\ Layout(w) /\ w.shape = r /\ w.offset = p.offset
        /\ \A i \in 1..n : w.stride[i] = IF r[i] = 1 THEN RowMajor(r)[i] ELSE Cell(p, RowMajor(r)[i]) - Cell(p, 0)
    <2>1. Reshaping(p, r)
      BY <1>1, <1>2 DEF Reshaping, NewForm
    <2> QED BY <1>3, <1>5, <2>1, ReshapedLayout
  <1>8. PICK B \in Int : B = PlanAddr \div DtypeSize
    BY DtypeAssumption, Divided
  <1>9. \A k \in Places(s) : Cell(l, k) \in Int /\ Cell(p, k) = Cell(l, k) + B
    BY <1>1, <1>8, CellOf DEF Standing, Follows
  <1>10. 0 \in Places(s)
    BY <1>1, PlacesTyped
  <1>11. p.offset \div DtypeSize = l.offset \div DtypeSize + B /\ l.offset \div DtypeSize \in Int
    BY <1>1, <1>9, <1>10, CellZero
  <1>12. ASSUME NEW i \in 1..n PROVE w.stride[i] = v.stride[i]
    <2>1. CASE r[i] = 1
      BY <1>6, <1>7, <2>1
    <2>2. CASE r[i] # 1
      <3>1. RowMajor(r)[i] \in Places(s)
        BY <1>2, <1>5, <2>2, FirstPlace DEF NewForm
      <3>2. PICK x \in Int, y \in Int : x = Cell(l, RowMajor(r)[i]) /\ y = Cell(l, 0)
        BY <1>9, <1>10, <3>1
      <3>3. Cell(p, RowMajor(r)[i]) = x + B /\ Cell(p, 0) = y + B
        BY <1>9, <1>10, <3>1, <3>2
      <3>4. w.stride[i] = (x + B) - (y + B) /\ v.stride[i] = x - y
        BY <1>6, <1>7, <2>2, <3>2, <3>3
      <3> QED BY <3>4
    <2> QED BY <2>1, <2>2
  <1>13. w.stride = v.stride
    <2>1. PICK S, T, f, g : S = 1..n /\ T = Int /\ f = w.stride /\ g = v.stride
      OBVIOUS
    <2>2. f \in [S -> T] /\ g \in [S -> T]
      BY <1>5, <1>6, <1>7, <2>1 DEF Layout
    <2>3. \A x \in S : f[x] = g[x]
      BY <1>12, <2>1
    <2>4. f = g
      BY ONLY <2>2, <2>3, SameFunction
    <2> QED BY <2>1, <2>4
  <1>14. ASSUME NEW k \in Places(r) PROVE Cell(w, k) = Cell(v, k) + B
    <2>1. PICK x \in Int, y \in Int : x = Dot(Coords(r, k), v.stride) /\ y = l.offset \div DtypeSize
      <3>1. InBox(Coords(r, k), r)
        BY <1>6, CellOf
      <3>2. Row(n, Coords(r, k), v.stride)
        <4>1. \A i \in 1..n : Coords(r, k)[i] \in Int
          <5>1. ASSUME NEW i \in 1..n PROVE Coords(r, k)[i] \in Int
            <6>1. r[i] \in Nat \ {0} /\ Coords(r, k)[i] \in 0..r[i] - 1
              BY <1>5, <3>1 DEF InBox
            <6> QED BY <6>1
          <5> QED BY <5>1
        <4>2. v.stride \in [1..n -> Int]
          BY <1>5, <1>6 DEF Layout
        <4>3. Len(v.stride) = n
          BY <4>2, FunctionSeq
        <4> QED BY <4>1, <4>2, <4>3 DEF Row
      <3>3. Dot(Coords(r, k), v.stride) \in Int
        <4>1. PICK m : m = n /\ Row(m, Coords(r, k), v.stride)
          BY <3>2
        <4> QED BY ONLY <4>1, DotInt
      <3> QED BY <1>11, <3>3
    <2>2. Cell(v, k) = y + x /\ Cell(w, k) = (y + B) + x
      BY <1>6, <1>7, <1>11, <1>13, <2>1 DEF Cell
    <2> QED BY <2>2
  <1>15. Follows(w, v)
    BY <1>6, <1>7, <1>8, <1>14 DEF Follows, Standing
  <1>16. Reads(v, mem, u)
    <2>1. \A k \in Places(r) : Cell(v, k) = Cell(l, k)
      BY <1>3, <1>4 DEF try_reshape
    <2> QED BY <1>1, <1>2, <1>6, <2>1 DEF Reads, Standing
  <1> QED BY <1>2, <1>4, <1>15, <1>16 DEF Standing

LEMMA ReshapeCopies ==
    ASSUME NEW t, NEW mem, NEW l, NEW p, Standing(t, mem, l, p), NEW shape, NEW r, NewForm(t, shape, r),
           NEW m, m = Relayouted(Blank(r), reshaped(Contiguous(r), l.shape), Content(mem, l))
    PROVE  Standing(ReShape(t, shape), m, Contiguous(r), assignOffset(Contiguous(r)))
  <1>1. PICK s : s = t.shape /\ s = l.shape /\ TensorOf(t) /\ IsShape(s) /\ Reads(l, mem, t)
    BY DEF Standing, Reads, TensorOf
  <1>2. PICK u : u = ReShape(t, shape) /\ TensorOf(u) /\ u.shape = r /\ u.data = t.data /\ Places(r) = Places(s)
    BY <1>1, NewFormOf
  <1>3. PICK n \in Nat \ {0} : n = Len(s) /\ s \in [1..n -> Nat \ {0}]
    BY <1>1, ShapeTyped
  <1>4. PICK c : c = Contiguous(r) /\ Layout(c) /\ c.shape = r /\ c.offset = 0 /\ \A k \in Places(s) : Cell(c, k) = k
    <2>1. IsShape(r)
      BY DEF NewForm
    <2> QED BY <1>2, <2>1, ContiguousCells DEF Contiguous
  <1>5. PICK v : v = reshaped(c, s)
    OBVIOUS
  <1>6. /\ Layout(v) /\ v.shape = s /\ v.offset = 0
        /\ \A i \in 1..n : v.stride[i] = IF s[i] = 1 THEN RowMajor(s)[i] ELSE Cell(c, RowMajor(s)[i]) - Cell(c, 0)
    <2>1. Reshaping(c, s)
      BY <1>1, <1>2, <1>4 DEF Reshaping
    <2> QED BY <1>3, <1>4, <1>5, <2>1, ReshapedLayout
  <1>7. ASSUME NEW i \in 1..n PROVE v.stride[i] = RowMajor(s)[i]
    <2>1. CASE s[i] = 1
      BY <1>6, <2>1
    <2>2. CASE s[i] # 1
      <3>1. RowMajor(s)[i] \in Places(s) /\ 0 \in Places(s)
        BY <1>1, <1>3, <2>2, FirstPlace, PlacesTyped
      <3>2. PICK x \in Nat : x = RowMajor(s)[i]
        BY <1>1, <3>1, PlacesTyped
      <3>3. v.stride[i] = x - 0
        BY <1>4, <1>6, <2>2, <3>1, <3>2
      <3> QED BY <3>2, <3>3
    <2> QED BY <2>1, <2>2
  <1>8. v.stride = RowMajor(s)
    <2>1. PICK S, T, f, g : S = 1..n /\ T = Int /\ f = v.stride /\ g = RowMajor(s)
      OBVIOUS
    <2>2. f \in [S -> T]
      BY <1>3, <1>6, <2>1 DEF Layout
    <2>3. g \in [S -> T]
      <3>1. RowMajor(s) \in [1..n -> Nat \ {0}]
        BY <1>1, <1>3, RowMajorStrides DEF Strides
      <3> QED BY <2>1, <3>1
    <2>4. \A x \in S : f[x] = g[x]
      BY <1>7, <2>1
    <2>5. f = g
      BY ONLY <2>2, <2>3, <2>4, SameFunction
    <2> QED BY <2>1, <2>5
  <1>9. v = Contiguous(s)
    BY <1>6, <1>8 DEF Contiguous, Layout, Fields
  <1>10. Places(v.shape) = Places(r) /\ \A k \in Places(r) : Cell(v, k) = k
    BY <1>1, <1>2, <1>6, <1>9, ContiguousCells
  <1>11. PICK b, x : b = Blank(r) /\ x = Content(mem, l) /\ DOMAIN b = Places(r)
    BY DEF Blank
  <1>12. /\ DOMAIN Relayouted(b, v, x) = Places(r)
         /\ \A k \in Places(r) : Relayouted(b, v, x)[k] = x.data[k]
    BY ONLY <1>10, <1>11, CopiedInOrder
  <1>13. m = Relayouted(b, v, x)
    BY <1>1, <1>4, <1>5, <1>11
  <1>14. \A k \in Places(r) : x.data[k] = t.data[k]
    <2>1. \A k \in Places(t.shape) : Content(mem, l).data[k] = t.data[k]
      <3>1. Reads(l, mem, t)
        BY <1>1
      <3> QED BY ONLY <3>1, ContentOf
    <2>2. Places(r) = Places(t.shape) /\ x = Content(mem, l)
      BY <1>1, <1>2, <1>11
    <2> QED BY ONLY <2>1, <2>2
  <1>15. DOMAIN m = Places(u.shape) /\ \A k \in Places(u.shape) : m[k] = u.data[k]
    BY <1>2, <1>12, <1>13, <1>14
  <1>16. Standing(u, m, Contiguous(u.shape), assignOffset(Contiguous(u.shape)))
    BY ONLY <1>2, <1>15, FreshBuffer
  <1> QED BY <1>2, <1>16

-----------------------------------------------------------------------------
(* Dimshuffle.                                                             *)

(* A pattern names every axis from 0 to n - 1 once; others are added.      *)
PatternOf(p, n) ==
    /\ n \in Nat \ {0} /\ p \in Seq(-1..n - 1)
    /\ \A i \in 2..Len(p) : \E j \in 1..i : p[j] >= 0
    /\ \A a \in 1..n : \E i \in DOMAIN p : \A j \in DOMAIN p : p[j] = a - 1 <=> j = i
WhereIs(p, n) == [a \in 1..n |-> CHOOSE i \in DOMAIN p : p[i] = a - 1]

LEMMA PatternIs ==
    ASSUME NEW n, NEW p, PatternOf(p, n)
    PROVE  /\ Len(p) \in Nat \ {0} /\ DOMAIN p = 1..Len(p) /\ p \in [1..Len(p) -> -1..n - 1]
           /\ Embeds(WhereIs(p, n), n, Len(p))
           /\ \A a \in 1..n : p[WhereIs(p, n)[a]] = a - 1
           /\ \A i \in 1..Len(p) : p[i] >= 0 => p[i] + 1 \in 1..n /\ WhereIs(p, n)[p[i] + 1] = i
  <1>0. PICK l \in Nat \ {0} : l = n
    BY DEF PatternOf
  <1>1. PICK m \in Nat : m = Len(p) /\ DOMAIN p = 1..m /\ p \in [1..m -> -1..n - 1]
    BY LenProperties DEF PatternOf
  <1>2. PICK h : h = WhereIs(p, n)
    OBVIOUS
  <1>3. ASSUME NEW a \in 1..n PROVE h[a] \in 1..m /\ p[h[a]] = a - 1 /\ \A j \in 1..m : p[j] = a - 1 => j = h[a]
    <2>1. PICK i \in 1..m : \A j \in 1..m : p[j] = a - 1 <=> j = i
      BY <1>1 DEF PatternOf
    <2>2. h[a] = CHOOSE x \in 1..m : p[x] = a - 1
      BY <1>1, <1>2 DEF WhereIs
    <2> QED BY <2>1, <2>2
  <1>4. m # 0
    <2>1. 1 \in 1..n
      BY <1>0
    <2> QED BY <1>3, <2>1
  <1>5. Embeds(h, n, m)
    <2>1. ASSUME NEW a \in 1..n, NEW b \in 1..n, h[a] = h[b] PROVE a = b
      <3>1. a - 1 = b - 1
        BY <1>3, <2>1
      <3>2. a \in Int /\ b \in Int
        BY <1>0
      <3> QED BY <3>1, <3>2
    <2> QED BY <1>3, <2>1 DEF Embeds
  <1>6. ASSUME NEW i \in 1..m, p[i] >= 0 PROVE p[i] + 1 \in 1..n /\ h[p[i] + 1] = i
    <2>1. PICK q \in -1..n - 1 : q = p[i] /\ q >= 0
      BY <1>1, <1>6
    <2>2. PICK a \in 1..n : a = q + 1 /\ a - 1 = q
      BY <1>0, <2>1
    <2> QED BY <1>3, <2>1, <2>2
  <1> QED BY <1>1, <1>2, <1>3, <1>4, <1>5, <1>6

(* Of the first i entries as many as are not -1 are axes.                  *)
LEMMA AxesBefore ==
    ASSUME NEW n \in Nat \ {0}, NEW p, PatternOf(p, n), NEW i \in 2..Len(p)
    PROVE  i - Cardinality({j \in 1..i : p[j] < 0}) \in 1..n
  <1>1. PICK m \in Nat \ {0} : m = Len(p) /\ p \in [1..m -> -1..n - 1]
    BY PatternIs
  <1>2. PICK N, A : N = {j \in 1..i : p[j] < 0} /\ A = {j \in 1..i : p[j] >= 0}
    OBVIOUS
  <1>3. i \in Nat /\ i <= m /\ \A j \in 1..i : j \in 1..m /\ p[j] \in -1..n - 1 /\ (p[j] < 0 <=> ~(p[j] >= 0))
    BY <1>1
  <1>4. IsFiniteSet(1..i) /\ Cardinality(1..i) = i
    BY <1>3, FS_Interval
  <1>5. N \subseteq 1..i /\ A = 1..i \ N /\ 1..i \cap N = N
    BY <1>2, <1>3
  <1>6. IsFiniteSet(A) /\ Cardinality(A) = i - Cardinality(N)
    <2>1. IsFiniteSet(1..i \ N) /\ Cardinality(1..i \ N) = Cardinality(1..i) - Cardinality(1..i \cap N)
      BY ONLY <1>4, FS_Difference
    <2> QED BY ONLY <1>4, <1>5, <2>1
  <1>7. Cardinality(A) \in Nat
    BY <1>6, FS_CardinalityType
  <1>8. Cardinality(A) # 0
    <2>1. \E j \in 1..i : p[j] >= 0
      BY <1>1 DEF PatternOf
    <2>2. A # {}
      BY <1>2, <2>1
    <2> QED BY <1>6, <2>2, FS_EmptySet
  <1>9. Cardinality(A) <= n
    <2>1. PICK f : f = [j \in A |-> p[j] + 1]
      OBVIOUS
    <2>2. \A j \in A : j \in 1..m /\ p[j] >= 0 /\ f[j] = p[j] + 1
      BY <1>2, <1>3, <2>1
    <2>0. \A j \in 1..Len(p) : p[j] >= 0 => p[j] + 1 \in 1..n /\ WhereIs(p, n)[p[j] + 1] = j
      BY ONLY PatternOf(p, n), PatternIs
    <2>3. \A j \in A : f[j] \in 1..n /\ WhereIs(p, n)[f[j]] = j
      BY <1>1, <2>0, <2>2
    <2>4. f \in Injection(A, 1..n)
      <3>1. f \in [A -> 1..n]
        BY <2>1, <2>3
      <3>2. \A a, b \in A : f[a] = f[b] => a = b
        BY <2>3
      <3> QED BY <3>1, <3>2 DEF Injection, IsInjective
    <2>5. IsFiniteSet(1..n) /\ Cardinality(1..n) = n
      BY FS_Interval
    <2> QED BY <2>4, <2>5, FS_Injection
  <1> QED BY <1>2, <1>6, <1>7, <1>8, <1>9

Turning(l, p) == Layout(l) /\ PatternOf(p, Len(l.shape))
Turned(b, c, p, n) == \A a \in 1..n : b[a] = c[WhereIs(p, n)[a]]

LEMMA TurnedLayout ==
    ASSUME NEW l, NEW p, Turning(l, p), NEW v, v = Dimshuffle_memoryForward(l, p)
    PROVE  /\ Layout(v) /\ SameBytes(v, l)
           /\ v.shape = [i \in DOMAIN p |-> IF p[i] < 0 THEN 1 ELSE l.shape[p[i] + 1]]
           /\ \A c, b : InBox(c, v.shape) /\ Turned(b, c, p, Len(l.shape)) =>
                            InBox(b, l.shape) /\ At(v, c) = At(l, b)
  <1>1. Layout(l) /\ PatternOf(p, Len(l.shape))
    BY DEF Turning
  <1>2. PICK n \in Nat \ {0} : n = Len(l.shape) /\ l.shape \in [1..n -> Nat \ {0}] /\ l.stride \in [1..n -> Int]
    BY <1>1, ShapeTyped DEF Layout
  <1>3. PICK h : h = WhereIs(p, n)
    OBVIOUS
  <1>4. PICK m \in Nat \ {0} : m = Len(p) /\ DOMAIN p = 1..m /\ p \in [1..m -> -1..n - 1]
    BY <1>1, <1>2, PatternIs
  <1>5. /\ Embeds(h, n, m) /\ \A a \in 1..n : h[a] \in 1..m /\ p[h[a]] = a - 1
        /\ \A i \in 1..m : p[i] >= 0 => p[i] + 1 \in 1..n /\ h[p[i] + 1] = i
    <2>1. PatternOf(p, n)
      BY <1>1, <1>2
    <2>2. /\ Embeds(WhereIs(p, n), n, Len(p))
          /\ \A a \in 1..n : p[WhereIs(p, n)[a]] = a - 1
          /\ \A i \in 1..Len(p) : p[i] >= 0 => p[i] + 1 \in 1..n /\ WhereIs(p, n)[p[i] + 1] = i
      BY ONLY <2>1, PatternIs
    <2>3. /\ Embeds(h, n, m) /\ \A a \in 1..n : p[h[a]] = a - 1
          /\ \A i \in 1..m : p[i] >= 0 => p[i] + 1 \in 1..n /\ h[p[i] + 1] = i
      BY ONLY <2>2, <1>3, <1>4
    <2> QED BY <2>3 DEF Embeds
  <1>6. PICK added : added = [i \in 1..m |-> Cardinality({j \in 1..i : p[j] < 0})]
    OBVIOUS
  <1>7. PICK e, t :
          /\ e = [i \in 1..m |-> IF p[i] < 0 THEN 1 ELSE l.shape[p[i] + 1]]
          /\ t = [i \in 1..m |-> IF p[i] >= 0 THEN l.stride[p[i] + 1]
                                 ELSE IF i > 1 THEN l.stride[i - added[i]] ELSE l.stride[1] * l.shape[1]]
    OBVIOUS
  <1>8. v = [l EXCEPT !.shape = e, !.stride = t]
    BY <1>4, <1>6, <1>7 DEF Dimshuffle_memoryForward
  <1>9. v = [shape |-> e, stride |-> t, offset |-> l.offset]
    BY <1>1, <1>8, NewShapeStride DEF Layout
  <1>10. e \in [1..m -> Nat \ {0}]
    <2>1. ASSUME NEW i \in 1..m PROVE e[i] \in Nat \ {0}
      <3>1. CASE p[i] < 0
        BY <1>7, <3>1
      <3>2. CASE ~(p[i] < 0)
        <4>1. p[i] >= 0 /\ e[i] = l.shape[p[i] + 1]
          BY <1>4, <1>7, <3>2
        <4> QED BY <1>2, <1>5, <4>1
      <3> QED BY <3>1, <3>2
    <2> QED BY <1>7, <2>1
  <1>11. t \in [1..m -> Int]
    <2>1. ASSUME NEW i \in 1..m PROVE t[i] \in Int
      <3>1. CASE p[i] >= 0
        <4>1. p[i] + 1 \in 1..n /\ t[i] = l.stride[p[i] + 1]
          BY <1>5, <1>7, <3>1
        <4> QED BY <1>2, <4>1
      <3>2. CASE ~(p[i] >= 0) /\ i > 1
        <4>1. i \in 2..Len(p)
          BY <1>4, <3>2
        <4>2. i - added[i] \in 1..n
          BY <1>1, <1>2, <1>6, <4>1, AxesBefore
        <4>3. t[i] = l.stride[i - added[i]]
          BY <1>7, <3>2
        <4> QED BY <1>2, <4>2, <4>3
      <3>3. CASE ~(p[i] >= 0) /\ ~(i > 1)
        <4>1. PICK x \in Int, y \in Int : x = l.stride[1] /\ y = l.shape[1]
          BY <1>2
        <4>2. x * y \in Int
          BY Times
        <4> QED BY <1>7, <3>3, <4>1, <4>2
      <3> QED BY <3>1, <3>2, <3>3
    <2> QED BY <1>7, <2>1
  <1>12. v.shape = e /\ v.stride = t /\ v.offset = l.offset /\ Len(e) = m /\ Len(t) = m /\ IsShape(e)
    BY <1>9, <1>10, <1>11, FunctionShape, FunctionSeq
  <1>13. Layout(v) /\ SameBytes(v, l)
    BY <1>1, <1>9, <1>11, <1>12 DEF Layout, Fields, SameBytes
  <1>14. ASSUME NEW c, NEW b, InBox(c, e), Turned(b, c, p, n) PROVE InBox(b, l.shape) /\ At(v, c) = At(l, b)
    <2>1. \A i \in 1..m : c[i] \in 0..e[i] - 1 /\ c[i] \in Int
      <3>1. ASSUME NEW i \in 1..m PROVE c[i] \in 0..e[i] - 1 /\ c[i] \in Int
        <4>1. e[i] \in Nat \ {0} /\ c[i] \in 0..e[i] - 1
          BY <1>10, <1>12, <1>14 DEF InBox
        <4> QED BY <4>1
      <3> QED BY <3>1
    <2>2. ASSUME NEW a \in 1..n
          PROVE  /\ b[a] = c[h[a]] /\ l.stride[a] = t[h[a]] /\ l.shape[a] = e[h[a]] /\ h[a] \in 1..m
                 /\ b[a] \in 0..l.shape[a] - 1 /\ b[a] \in Int /\ l.stride[a] \in Int
      <3>1. PICK i \in 1..m : i = h[a] /\ p[i] = a - 1
        BY <1>5
      <3>2. ~(p[i] < 0) /\ p[i] >= 0 /\ p[i] + 1 = a
        BY <3>1
      <3>3. l.stride[a] = t[i] /\ l.shape[a] = e[i]
        BY <1>7, <3>2
      <3>4. b[a] = c[i]
        BY <1>3, <1>14, <3>1 DEF Turned
      <3> QED BY <1>2, <2>1, <3>1, <3>3, <3>4
    <2>3. InBox(b, l.shape)
      BY <1>2, <2>2 DEF InBox
    <2>4. Row(m, c, t)
      BY <1>11, <1>12, <2>1 DEF Row
    <2>5. Row(n, b, l.stride)
      <3>1. Len(l.stride) = n
        BY <1>2, FunctionSeq
      <3> QED BY <2>2, <3>1 DEF Row
    <2>6. \A i \in 1..m : (\A a \in 1..n : h[a] # i) => c[i] * t[i] = 0
      <3>1. ASSUME NEW i \in 1..m, \A a \in 1..n : h[a] # i PROVE c[i] * t[i] = 0
        <4>1. p[i] < 0
          <5>1. p[i] \in -1..n - 1 /\ ~(p[i] >= 0)
            BY <1>4, <1>5, <3>1
          <5> QED BY <5>1
        <4>2. e[i] = 1
          BY <1>7, <4>1
        <4>3. c[i] = 0
          BY <2>1, <4>2
        <4>4. t[i] \in Int
          BY <1>11
        <4> QED BY <4>3, <4>4
      <3> QED BY <3>1
    <2>7. Dot(c, t) = Dot(b, l.stride)
      <3>1. PICK x, y : x = m /\ y = n
        OBVIOUS
      <3>2. /\ Row(x, c, t) /\ Row(y, b, l.stride) /\ Embeds(h, y, x)
            /\ \A a \in 1..y : b[a] * l.stride[a] = c[h[a]] * t[h[a]]
            /\ \A i \in 1..x : (\A a \in 1..y : h[a] # i) => c[i] * t[i] = 0
        BY <1>5, <2>2, <2>4, <2>5, <2>6, <3>1
      <3> QED BY ONLY <3>2, DotReorder
    <2> QED BY <1>12, <2>3, <2>7 DEF At
  <1> QED BY <1>2, <1>4, <1>7, <1>12, <1>13, <1>14

-----------------------------------------------------------------------------
(* Dimshuffle and SetSubtensor, in memory.                                 *)

LEMMA DimshuffleHolds ==
    ASSUME NEW t, NEW mem, NEW l, NEW p, Standing(t, mem, l, p), NEW pattern, PatternOf(pattern, Len(t.shape))
    PROVE  Standing(DimShuffle(t, pattern), mem,
                    Dimshuffle_memoryForward(l, pattern), Dimshuffle_memoryForward(p, pattern))
  <1>1. PICK s : s = t.shape /\ s = l.shape /\ s = p.shape /\ Layout(l) /\ Layout(p) /\ IsShape(s)
    BY DEF Standing, Reads, Follows, TensorOf
  <1>2. PICK n \in Nat \ {0} : n = Len(s) /\ Axes(s) = 1..n
    BY <1>1, ShapeTyped
  <1>3. PICK v, w : v = Dimshuffle_memoryForward(l, pattern) /\ w = Dimshuffle_memoryForward(p, pattern)
    OBVIOUS
  <1>4. PICK q : q = [i \in DOMAIN pattern |-> IF pattern[i] < 0 THEN 1 ELSE s[pattern[i] + 1]]
    OBVIOUS
  <1>5. Turning(l, pattern) /\ Turning(p, pattern)
    BY <1>1 DEF Turning
  <1>6. /\ Layout(v) /\ SameBytes(v, l) /\ v.shape = q
        /\ \A c, b : InBox(c, v.shape) /\ Turned(b, c, pattern, n) => InBox(b, s) /\ At(v, c) = At(l, b)
    <2>1. /\ Layout(v) /\ SameBytes(v, l)
          /\ v.shape = [i \in DOMAIN pattern |-> IF pattern[i] < 0 THEN 1 ELSE l.shape[pattern[i] + 1]]
          /\ \A c, b : InBox(c, v.shape) /\ Turned(b, c, pattern, Len(l.shape)) =>
                           InBox(b, l.shape) /\ At(v, c) = At(l, b)
      BY ONLY <1>3, <1>5, TurnedLayout
    <2>2. l.shape = s /\ n = Len(s)
      BY <1>1, <1>2
    <2> QED BY ONLY <2>1, <2>2, <1>4
  <1>7. /\ Layout(w) /\ SameBytes(w, p) /\ w.shape = q
        /\ \A c, b : InBox(c, w.shape) /\ Turned(b, c, pattern, n) => InBox(b, s) /\ At(w, c) = At(p, b)
    <2>1. /\ Layout(w) /\ SameBytes(w, p)
          /\ w.shape = [i \in DOMAIN pattern |-> IF pattern[i] < 0 THEN 1 ELSE p.shape[pattern[i] + 1]]
          /\ \A c, b : InBox(c, w.shape) /\ Turned(b, c, pattern, Len(p.shape)) =>
                           InBox(b, p.shape) /\ At(w, c) = At(p, b)
      BY ONLY <1>3, <1>5, TurnedLayout
    <2>2. p.shape = s /\ n = Len(s)
      BY <1>1, <1>2
    <2> QED BY ONLY <2>1, <2>2, <1>4
  <1>8. PICK S : S = [k \in Places(q) |-> [a \in 1..n |-> Coords(q, k)[WhereIs(pattern, n)[a]]]]
    OBVIOUS
  <1>9. ASSUME NEW k \in Places(q)
        PROVE  /\ InBox(S[k], s) /\ Cell(v, k) = At(l, S[k]) /\ Cell(w, k) = At(p, S[k])
    <2>1. PICK c, b : c = Coords(q, k) /\ b = S[k]
      OBVIOUS
    <2>2. InBox(c, q) /\ Cell(v, k) = At(v, c)
      BY <1>6, <2>1, CellOf
    <2>3. Cell(w, k) = At(w, c)
      BY <1>7, <2>1, CellOf
    <2>4. Turned(b, c, pattern, n)
      BY <1>8, <2>1 DEF Turned
    <2> QED BY <1>6, <1>7, <2>1, <2>2, <2>3, <2>4
  <1>10. Sees(v, l, S) /\ Sees(w, p, S) /\ w.shape = v.shape
    BY <1>1, <1>6, <1>7, <1>9 DEF Sees
  <1>11. Follows(w, v)
    BY ONLY <1>10, Standing(t, mem, l, p), ViewFollows DEF Standing
  <1>12. \A k \in Places(q) : Cell(v, k) \in DOMAIN mem /\ mem[Cell(v, k)] = ElementAt(t, S[k])
    <2>1. \A k \in Places(v.shape) : Cell(v, k) \in DOMAIN mem /\ mem[Cell(v, k)] = ElementAt(t, S[k])
      BY ONLY <1>10, Standing(t, mem, l, p), ViewReads DEF Standing
    <2> QED BY <1>6, <2>1
  <1>13. PICK u : u = DimShuffle(t, pattern)
    OBVIOUS
  <1>14. u = [shape |-> q, data |-> [k \in Places(q) |-> ElementAt(t, S[k])]]
    <2>1. PICK A : A = [k \in Places(q) |->
                          [a \in 1..n |-> Coords(q, k)[CHOOSE i \in DOMAIN pattern : pattern[i] = a - 1]]]
      OBVIOUS
    <2>2. u = [shape |-> q, data |-> [k \in Places(q) |-> ElementAt(t,
                [a \in 1..n |-> Coords(q, k)[CHOOSE i \in DOMAIN pattern : pattern[i] = a - 1]])]]
      <3>1. t.shape = s /\ Axes(t.shape) = 1..n
        BY <1>1, <1>2
      <3>2. u = Tensor(q, LAMBDA c : ElementAt(t,
                [a \in 1..n |-> c[CHOOSE i \in DOMAIN pattern : pattern[i] = a - 1]]))
        BY <1>4, <1>13, <3>1 DEF DimShuffle
      <3> QED BY <3>2 DEF Tensor
    <2>3. \A k \in Places(q) : S[k] = A[k]
      BY <1>8, <2>1 DEF WhereIs
    <2> QED BY <2>1, <2>2, <2>3
  <1>15. u.shape = q /\ DOMAIN u.data = Places(q) /\ \A k \in Places(q) : u.data[k] = ElementAt(t, S[k])
    BY <1>14
  <1>16. TensorOf(u)
    BY <1>6, <1>14, <1>15 DEF TensorOf, Layout
  <1>17. Reads(v, mem, u)
    BY <1>6, <1>12, <1>15 DEF Reads
  <1> QED BY <1>3, <1>11, <1>13, <1>16, <1>17 DEF Standing

LEMMA CopyOf ==
    ASSUME NEW t, NEW mem, NEW l, TensorOf(t), Reads(l, mem, t),
           NEW m, m = Relayouted(Blank(t.shape), Contiguous(t.shape), Content(mem, l))
    PROVE  DOMAIN m = Places(t.shape) /\ \A k \in Places(t.shape) : m[k] = t.data[k]
  <1>1. PICK s : s = t.shape /\ IsShape(s)
    BY DEF TensorOf
  <1>2. PICK v, x, b : v = Contiguous(s) /\ x = Content(mem, l) /\ b = Blank(s)
    OBVIOUS
  <1>3. Places(v.shape) = Places(s) /\ \A k \in Places(s) : Cell(v, k) = k
    BY <1>1, <1>2, ContiguousCells
  <1>4. DOMAIN b = Places(s)
    BY <1>2 DEF Blank
  <1>5. /\ DOMAIN Relayouted(b, v, x) = Places(s)
        /\ \A k \in Places(s) : Relayouted(b, v, x)[k] = x.data[k]
    BY ONLY <1>3, <1>4, CopiedInOrder
  <1>6. \A k \in Places(s) : x.data[k] = t.data[k]
    BY <1>1, <1>2, ContentOf
  <1> QED BY <1>1, <1>2, <1>5, <1>6

LEMMA SetSubtensorHolds ==
    ASSUME NEW t, NEW mem, NEW l, NEW p, Standing(t, mem, l, p),
           NEW descs, Fits(descs, t.shape), Valid(descs, t.shape),
           NEW v, v.shape = SelectedShape(descs, t.shape),
           NEW m, m = Relayouted(Relayouted(Blank(t.shape), Contiguous(t.shape), Content(mem, l)),
                                 Subtensor_memoryForward(Contiguous(t.shape), descs), v)
    PROVE  /\ Standing(SetSubTensor(t, descs, v), m, Contiguous(t.shape), assignOffset(Contiguous(t.shape)))
           /\ SetSubTensor(t, descs, v).shape = t.shape
           /\ \A d \in descs : RangeOk(Contiguous(t.shape), d)
  <1>1. PICK s : s = t.shape /\ IsShape(s) /\ TensorOf(t) /\ Reads(l, mem, t)
    BY DEF Standing, TensorOf
  <1>2. PICK dst : dst = Contiguous(s)
    OBVIOUS
  <1>3. Layout(dst) /\ dst.shape = s /\ \A c : InBox(c, s) => At(dst, c) = Place(s, c)
    BY <1>1, <1>2, ContiguousCells
  <1>4. PICK copy : copy = Relayouted(Blank(s), dst, Content(mem, l))
    OBVIOUS
  <1>5. DOMAIN copy = Places(s) /\ \A k \in Places(s) : copy[k] = t.data[k]
    <2>1. copy = Relayouted(Blank(t.shape), Contiguous(t.shape), Content(mem, l)) /\ TensorOf(t) /\ Reads(l, mem, t)
      BY <1>1, <1>2, <1>4
    <2>2. DOMAIN copy = Places(t.shape) /\ \A k \in Places(t.shape) : copy[k] = t.data[k]
      BY ONLY <2>1, CopyOf
    <2> QED BY <1>1, <2>2
  <1>6. PICK w : w = Subtensor_memoryForward(dst, descs)
    OBVIOUS
  <1>7. /\ Layout(w) /\ w.shape = SelectedShape(descs, s)
        /\ \A inp : inp.shape = s => \A d \in descs : RangeOk(inp, d)
        /\ \A c : InBox(c, w.shape) => /\ InBox(SourceCoords(descs, s, c), s)
                                       /\ At(w, c) = At(dst, SourceCoords(descs, s, c))
    <2>1. Seeing(w, dst, descs)
      BY <1>1, <1>3, <1>6 DEF Seeing
    <2>2. /\ Layout(w) /\ w.shape = SelectedShape(descs, dst.shape)
          /\ \A inp : inp.shape = dst.shape => \A d \in descs : RangeOk(inp, d)
          /\ \A c : InBox(c, w.shape) => /\ InBox(SourceCoords(descs, dst.shape, c), dst.shape)
                                         /\ At(w, c) = At(dst, SourceCoords(descs, dst.shape, c))
      BY ONLY <2>1, SelectedView
    <2>3. dst.shape = s
      BY <1>3
    <2> QED BY ONLY <2>2, <2>3
  <1>8. PICK q : q = v.shape /\ q = w.shape
    BY <1>1, <1>7
  <1>9. ASSUME NEW k \in Places(q) PROVE Cell(w, k) = Place(s, SourceCoords(descs, s, Coords(q, k)))
    <2>1. InBox(Coords(q, k), q) /\ Cell(w, k) = At(w, Coords(q, k))
      BY <1>7, <1>8, CellOf
    <2> QED BY <1>3, <1>7, <1>8, <2>1
  <1>10. PICK W : W = {[at |-> Cell(w, k), elem |-> v.data[k]] : k \in Places(q)}
    OBVIOUS
  <1>11. W = {[at |-> Place(s, SourceCoords(descs, s, Coords(q, k))), elem |-> v.data[k]] : k \in Places(q)}
    BY <1>9, <1>10
  <1>12. m = Written(copy, W)
    BY <1>1, <1>2, <1>4, <1>6, <1>8, <1>10 DEF Relayouted
  <1>13. PICK u : u = SetSubTensor(t, descs, v)
    OBVIOUS
  <1>14. u = [shape |-> s, data |-> Written(t.data, W)]
    <2>1. t = [shape |-> s, data |-> t.data]
      BY <1>1 DEF TensorOf
    <2>2. u = [t EXCEPT !.data = Written(t.data, W)]
      BY <1>1, <1>8, <1>11, <1>13 DEF SetSubTensor
    <2> QED BY <2>1, <2>2
  <1>15. u.shape = s /\ u.data = Written(t.data, W)
    BY <1>14
  <1>16. DOMAIN u.data = Places(s)
    BY <1>1, <1>15 DEF Written, TensorOf
  <1>17. ASSUME NEW k \in Places(s) PROVE m[k] = u.data[k]
    <2>1. k \in DOMAIN copy /\ k \in DOMAIN t.data /\ copy[k] = t.data[k]
      BY <1>1, <1>5 DEF TensorOf
    <2> QED BY <1>12, <1>15, <2>1 DEF Written
  <1>18. DOMAIN m = Places(s)
    BY <1>5, <1>12 DEF Written
  <1>19. TensorOf(u)
    <2>1. u.data = [c \in DOMAIN t.data |->
              IF \E w1 \in W : w1.at = c THEN (CHOOSE w1 \in W : w1.at = c).elem ELSE t.data[c]]
      BY <1>15 DEF Written
    <2>2. DOMAIN t.data = Places(s)
      BY <1>1 DEF TensorOf
    <2>3. u.data = [k \in Places(s) |-> u.data[k]]
      BY <2>1, <2>2
    <2>4. u = [shape |-> u.shape, data |-> u.data]
      BY <1>14, <1>15
    <2> QED BY <1>1, <1>15, <1>16, <2>3, <2>4 DEF TensorOf
  <1>20. Standing(u, m, Contiguous(u.shape), assignOffset(Contiguous(u.shape)))
    <2>1. DOMAIN m = Places(u.shape) /\ \A k \in Places(u.shape) : m[k] = u.data[k]
      BY <1>15, <1>17, <1>18
    <2> QED BY ONLY <1>19, <2>1, FreshBuffer
  <1> QED BY <1>1, <1>2, <1>3, <1>7, <1>13, <1>15, <1>20

-----------------------------------------------------------------------------
(* Concat.                                                                 *)

(* The part of a contiguous layout that an operand of Concat fills.        *)
Part(v, s, a, f, x) ==
    /\ IsShape(s) /\ a \in 1..Len(s) /\ f \in Nat /\ x \in Nat \ {0} /\ f + x <= s[a]
    /\ v = Subtensor_memoryForward(Contiguous(s), {MakeConcatArrayAttr(a, f, x)})
Shifted(b, c, n, a, f) == \A i \in 1..n : b[i] = IF i = a THEN c[i] + f ELSE c[i]
PartOf(d, a, f, x) == a \in Int /\ f \in Nat /\ x \in Nat \ {0} /\ d = MakeConcatArrayAttr(a, f, x)

LEMMA PartRange ==
    ASSUME NEW a, NEW f, NEW x, NEW d, PartOf(d, a, f, x)
    PROVE  /\ index_of(d) = -1 /\ d.axis = a - 1 /\ d.step = 1
           /\ \A e : begin_of(d, e) = f /\ end_of(d, e) = f + x /\ Takes(d, e, f, 1, x)
  <1> SUFFICES ASSUME NEW e
               PROVE  /\ index_of(d) = -1 /\ d.axis = a - 1 /\ d.step = 1
                      /\ begin_of(d, e) = f /\ end_of(d, e) = f + x /\ Takes(d, e, f, 1, x)
    OBVIOUS
  <1> USE DEF PartOf
  <1>1. /\ d.axis = a - 1 /\ d.begin = f /\ d.end = f + x /\ d.step = 1 /\ d.index = -1
    BY DEF MakeConcatArrayAttr
  <1>2. index_of(d) = -1
    BY <1>1 DEF index_of
  <1>3. d.begin # Missing /\ d.end # Missing
    <2>1. f \in Int /\ f + x \in Int
      OBVIOUS
    <2> QED BY <1>1, <2>1, MissingAssumption
  <1>4. begin_of(d, e) = f /\ end_of(d, e) = f + x
    BY <1>1, <1>3 DEF begin_of, end_of, FromEnd
  <1>5. First(d, e) = f /\ Step(d) = 1
    BY <1>1, <1>2, <1>4 DEF First, Step
  <1>6. Extent(d, e) = x
    <2>1. Extent(d, e) = (Abs(f + x - f) + Abs(1) - 1) \div Abs(1)
      BY <1>2, <1>4, <1>5 DEF Extent
    <2>2. Abs(f + x - f) = x /\ Abs(1) = 1
      BY DEF Abs
    <2>3. (x + 1 - 1) \div 1 = x
      OBVIOUS
    <2> QED BY <2>1, <2>2, <2>3
  <1> QED BY <1>1, <1>2, <1>4, <1>5, <1>6 DEF Takes

LEMMA PartView ==
    ASSUME NEW v, NEW s, NEW a, NEW f, NEW x, Part(v, s, a, f, x)
    PROVE  /\ Layout(v) /\ v.shape = [s EXCEPT ![a] = x]
           /\ \A c, b : InBox(c, v.shape) /\ Shifted(b, c, Len(s), a, f) => InBox(b, s) /\ At(v, c) = Place(s, b)
           /\ \A inp : inp.shape = s => RangeOk(inp, MakeConcatArrayAttr(a, f, x))
  <1>1. PICK n \in Nat \ {0} : n = Len(s) /\ s \in [1..n -> Nat \ {0}] /\ a \in 1..n
    BY ShapeTyped DEF Part
  <1>2. PICK l : l = Contiguous(s)
    OBVIOUS
  <1>3. Layout(l) /\ l.shape = s /\ \A c : InBox(c, s) => At(l, c) = Place(s, c)
    <2>1. IsShape(s)
      BY DEF Part
    <2> QED BY ONLY <1>2, <2>1, ContiguousCells
  <1>4. PICK d : d = MakeConcatArrayAttr(a, f, x)
    OBVIOUS
  <1>5. f \in Nat /\ x \in Nat \ {0} /\ f + x <= s[a] /\ s[a] \in Nat \ {0} /\ a \in Int
    BY <1>1 DEF Part
  <1>6. /\ index_of(d) = -1 /\ d.axis = a - 1 /\ d.step = 1
        /\ \A e : begin_of(d, e) = f /\ end_of(d, e) = f + x /\ Takes(d, e, f, 1, x)
    <2>1. PartOf(d, a, f, x)
      BY <1>4, <1>5 DEF PartOf
    <2> QED BY ONLY <2>1, PartRange
  <1>7. PICK descs : descs = {d}
    OBVIOUS
  <1>8. \A i \in 1..n : Described(descs, i) <=> i = a
    BY <1>1, <1>6, <1>7 DEF Described
  <1>9. DescOf(descs, a) = d
    BY <1>6, <1>7 DEF DescOf
  <1>10. PICK F, P, E, K : /\ F = [i \in 1..n |-> IF i = a THEN f ELSE 0] /\ P = [i \in 1..n |-> 1]
                           /\ E = [i \in 1..n |-> IF i = a THEN x ELSE s[i]] /\ K = 1..n
    OBVIOUS
  <1>11. Slices(F, P, E, s, descs)
    <2>1. Ranges(F, P, E, s)
      BY <1>1, <1>5, <1>10, SMTT(20) DEF Ranges
    <2>2. ASSUME NEW i \in 1..n
          PROVE  IF Described(descs, i) THEN Takes(DescOf(descs, i), s[i], F[i], P[i], E[i])
                 ELSE F[i] = 0 /\ P[i] = 1 /\ E[i] = s[i]
      BY <1>5, <1>6, <1>8, <1>9, <1>10
    <2> QED BY <1>1, <2>1, <2>2 DEF Slices
  <1>12. K = Stays(descs, n)
    <2>1. \A i \in 1..n : ~Indexed(descs, i)
      BY <1>6, <1>8, <1>9 DEF Indexed
    <2> QED BY <1>1, <1>10, <2>1 DEF Stays
  <1>13. Viewing(v, l, descs, K, F, P, E)
    BY <1>1, <1>2, <1>3, <1>4, <1>7, <1>11, <1>12 DEF Viewing, Part
  <1>14. /\ Layout(v) /\ v.shape \in [1..Cardinality(K) -> Nat \ {0}]
         /\ \A i \in K : v.shape[Rank(K, i)] = E[i]
         /\ \A c, b : InBox(c, v.shape) /\ Picked(b, c, K, F, P, Len(l.shape)) =>
                          At(v, c) = At(l, b) /\ InBox(b, l.shape)
    BY ONLY <1>13, Viewed
  <1>15. \A i \in 1..n : Rank(K, i) = i
    BY <1>10, RankPrefix
  <1>16. Cardinality(K) = n
    <2>1. PICK N : N = n
      OBVIOUS
    <2>2. 1 \in Int /\ N \in Int /\ N - 1 + 1 = N /\ ~(1 > N)
      BY <2>1
    <2>3. Cardinality(1..N) = IF 1 > N THEN 0 ELSE N - 1 + 1
      BY ONLY <2>2, FS_Interval
    <2> QED BY <1>10, <2>1, <2>2, <2>3
  <1>17. v.shape = [s EXCEPT ![a] = x]
    <2>1. v.shape \in [1..n -> Nat \ {0}] /\ \A i \in 1..n : v.shape[i] = IF i = a THEN x ELSE s[i]
      BY <1>10, <1>14, <1>15, <1>16
    <2> QED BY <1>1, <1>5, <2>1
  <1>18. ASSUME NEW c, NEW b, InBox(c, v.shape), Shifted(b, c, n, a, f)
         PROVE  InBox(b, s) /\ At(v, c) = Place(s, b)
    <2>1. \A i \in 1..n : c[i] \in 0..v.shape[i] - 1 /\ v.shape[i] \in Nat
      <3>1. Len(v.shape) = n /\ v.shape \in [1..n -> Nat \ {0}]
        BY <1>14, <1>16, ShapeTyped DEF Layout
      <3> QED BY <1>18, <3>1 DEF InBox
    <2>2. Picked(b, c, K, F, P, n)
      <3>1. ASSUME NEW i \in 1..n PROVE b[i] = F[i] + P[i] * (IF i \in K THEN c[Rank(K, i)] ELSE 0)
        <4>1. c[i] \in Int /\ f \in Int
          BY <1>5, <2>1
        <4>2. b[i] = IF i = a THEN c[i] + f ELSE c[i]
          BY <1>18 DEF Shifted
        <4>3. i \in K /\ Rank(K, i) = i /\ F[i] = (IF i = a THEN f ELSE 0) /\ P[i] = 1
          BY <1>10, <1>15
        <4> QED BY <4>1, <4>2, <4>3
      <3> QED BY <3>1 DEF Picked
    <2>3. At(v, c) = At(l, b) /\ InBox(b, s)
      BY <1>1, <1>3, <1>14, <1>18, <2>2
    <2> QED BY <1>3, <2>3
  <1>19. ASSUME NEW inp, inp.shape = s PROVE RangeOk(inp, d)
    <2>1. d.step > 0 /\ inp.shape[d.axis + 1] \in Nat
      BY <1>1, <1>5, <1>6, <1>19
    <2>2. begin_of(d, inp.shape[d.axis + 1]) < end_of(d, inp.shape[d.axis + 1])
      BY <1>5, <1>6, <2>1
    <2> QED BY <2>1, <2>2 DEF RangeOk
  <1> QED BY <1>1, <1>4, <1>14, <1>17, <1>18, <1>19

(* Different coordinates are different places.                             *)
LEMMA SameCoords ==
    ASSUME NEW s, IsShape(s), NEW j, NEW k, j \in Places(s) /\ k \in Places(s),
           \A i \in 1..Len(s) : Coords(s, j)[i] = Coords(s, k)[i]
    PROVE  j = k
  <1>1. Axes(s) = 1..Len(s)
    BY ShapeTyped
  <1>2. Coords(s, j) = [i \in Axes(s) |-> Coords(s, j)[i]] /\ Coords(s, k) = [i \in Axes(s) |-> Coords(s, k)[i]]
    BY DEF Coords
  <1>3. Coords(s, j) = Coords(s, k)
    BY <1>1, <1>2
  <1>4. Place(s, Coords(s, j)) = j /\ Place(s, Coords(s, k)) = k
    BY PlaceOfCoords
  <1> QED BY <1>3, <1>4

(* What is in a buffer after a part of it has been written.                *)
Filled(m, mem, v, z, s, a, f, x) ==
    /\ Part(v, s, a, f, x) /\ DOMAIN mem = Places(s) /\ m = Relayouted(mem, v, z)
LEMMA PartWritten ==
    ASSUME NEW m, NEW mem, NEW v, NEW z, NEW s, NEW a, NEW f, NEW x, Filled(m, mem, v, z, s, a, f, x)
    PROVE  /\ DOMAIN m = Places(s)
           /\ \A k \in Places(s) : \A c :
                /\ Coords(s, k)[a] \in f..f + x - 1 /\ Shifted(Coords(s, k), c, Len(s), a, f)
                   /\ (\A i \in 1..Len(s) : c[i] \in Int)
                   => InBox(c, v.shape) /\ m[k] = z.data[Place(v.shape, c)]
                /\ Coords(s, k)[a] \notin f..f + x - 1 => m[k] = mem[k]
  <1>1. /\ IsShape(s) /\ a \in 1..Len(s) /\ f \in Nat /\ x \in Nat \ {0} /\ DOMAIN mem = Places(s)
        /\ m = Relayouted(mem, v, z)
    BY DEF Filled, Part
  <1>2. PICK n \in Nat \ {0} : n = Len(s) /\ s \in [1..n -> Nat \ {0}] /\ a \in 1..n
    BY <1>1, ShapeTyped
  <1>3. PICK q : q = v.shape
    OBVIOUS
  <1>4. /\ Layout(v) /\ q = [s EXCEPT ![a] = x]
        /\ \A c, b : InBox(c, q) /\ Shifted(b, c, n, a, f) => InBox(b, s) /\ At(v, c) = Place(s, b)
    <2>1. Part(v, s, a, f, x)
      BY DEF Filled
    <2>2. /\ Layout(v) /\ v.shape = [s EXCEPT ![a] = x]
          /\ \A c, b : InBox(c, v.shape) /\ Shifted(b, c, Len(s), a, f) => InBox(b, s) /\ At(v, c) = Place(s, b)
          /\ \A inp : inp.shape = s => RangeOk(inp, MakeConcatArrayAttr(a, f, x))
      BY ONLY <2>1, PartView
    <2> QED BY <1>2, <1>3, <2>2
  <1>5. IsShape(q) /\ Len(q) = n /\ q \in [1..n -> Nat \ {0}] /\ \A i \in 1..n : q[i] = IF i = a THEN x ELSE s[i]
    <2>1. IsShape(q)
      BY <1>3, <1>4 DEF Layout
    <2>2. q \in [1..n -> Nat \ {0}] /\ \A i \in 1..n : q[i] = IF i = a THEN x ELSE s[i]
      BY <1>1, <1>2, <1>4
    <2>3. DOMAIN q = 1..Len(q) /\ DOMAIN q = 1..n /\ Len(q) \in Nat
      BY <2>1, <2>2, ShapeTyped
    <2> QED BY <2>1, <2>2, <2>3
  <1>6. PICK A, B : /\ A = [j \in Places(q) |-> Cell(v, j)] /\ B = [j \in Places(q) |-> z.data[j]]
    OBVIOUS
  <1>7. PICK W : W = {[at |-> A[j], elem |-> B[j]] : j \in Places(q)}
    OBVIOUS
  <1>8. m = Written(mem, W)
    <2>1. W = {[at |-> Cell(v, k), elem |-> z.data[k]] : k \in Places(q)}
      BY <1>6, <1>7
    <2> QED BY <1>1, <1>3, <2>1 DEF Relayouted
  <1>9. ASSUME NEW j \in Places(q)
        PROVE  /\ InBox(Coords(q, j), q) /\ A[j] \in Places(s)
               /\ \A i \in 1..n : /\ Coords(q, j)[i] \in 0..q[i] - 1
                                  /\ Coords(s, A[j])[i] = IF i = a THEN Coords(q, j)[i] + f ELSE Coords(q, j)[i]
    <2>1. InBox(Coords(q, j), q) /\ A[j] = At(v, Coords(q, j))
      BY <1>3, <1>4, <1>6, CellOf
    <2>2. PICK b : b = [i \in 1..n |-> IF i = a THEN Coords(q, j)[i] + f ELSE Coords(q, j)[i]]
      OBVIOUS
    <2>3. Shifted(b, Coords(q, j), n, a, f)
      BY <2>2 DEF Shifted
    <2>4. InBox(b, s) /\ A[j] = Place(s, b)
      BY <1>4, <2>1, <2>3
    <2>5. Place(s, b) \in Places(s) /\ \A i \in 1..Len(s) : Coords(s, Place(s, b))[i] = b[i]
      BY <1>1, <2>4, CoordsOfPlace
    <2>6. \A i \in 1..n : Coords(s, A[j])[i] = b[i]
      BY <1>2, <2>4, <2>5
    <2>7. \A i \in 1..n : Coords(q, j)[i] \in 0..q[i] - 1
      BY <1>5, <2>1 DEF InBox
    <2> QED BY <2>1, <2>2, <2>4, <2>5, <2>6, <2>7
  <1>10. ASSUME NEW j \in Places(q), NEW k \in Places(q), A[j] = A[k] PROVE j = k
    <2>1. ASSUME NEW i \in 1..n PROVE Coords(q, j)[i] = Coords(q, k)[i]
      <3>1. Coords(q, j)[i] \in Int /\ Coords(q, k)[i] \in Int
        BY <1>5, <1>9
      <3>2. (IF i = a THEN Coords(q, j)[i] + f ELSE Coords(q, j)[i]) =
            (IF i = a THEN Coords(q, k)[i] + f ELSE Coords(q, k)[i])
        BY <1>9, <1>10
      <3> QED BY <1>1, <3>1, <3>2
    <2>2. \A i \in 1..Len(q) : Coords(q, j)[i] = Coords(q, k)[i]
      BY <1>5, <2>1
    <2> QED BY <1>5, <2>2, SameCoords
  <1>11. /\ DOMAIN m = Places(s)
         /\ \A j \in Places(q) : A[j] \in DOMAIN mem => m[A[j]] = B[j]
         /\ \A c \in DOMAIN mem : (\A j \in Places(q) : A[j] # c) => m[c] = mem[c]
    <2>1. \A j, k \in Places(q) : A[j] = A[k] => B[j] = B[k]
      BY <1>10
    <2>2. PICK T : T = Places(q)
      OBVIOUS
    <2>3. Writing(W, T, A, B)
      BY <1>7, <2>1, <2>2 DEF Writing
    <2>4. /\ DOMAIN Written(mem, W) = DOMAIN mem
          /\ \A k \in T : A[k] \in DOMAIN mem => Written(mem, W)[A[k]] = B[k]
          /\ \A c \in DOMAIN mem : (\A k \in T : A[k] # c) => Written(mem, W)[c] = mem[c]
      BY ONLY <2>3, WrittenAt
    <2> QED BY <1>1, <1>8, <2>2, <2>4
  <1>12. ASSUME NEW k \in Places(s), NEW c, Coords(s, k)[a] \in f..f + x - 1,
                Shifted(Coords(s, k), c, n, a, f), \A i \in 1..n : c[i] \in Int
         PROVE  InBox(c, q) /\ m[k] = z.data[Place(q, c)]
    <2>1. \A i \in 1..n : Coords(s, k)[i] \in 0..s[i] - 1
      <3>1. k \in Int
        BY <1>1, PlacesTyped
      <3> QED BY <1>1, <1>2, <3>1, CoordsInBox DEF InBox
    <2>2. InBox(c, q)
      <3>1. ASSUME NEW i \in 1..n PROVE c[i] \in 0..q[i] - 1
        <4>1. Coords(s, k)[i] = IF i = a THEN c[i] + f ELSE c[i]
          BY <1>12 DEF Shifted
        <4>2. q[i] = IF i = a THEN x ELSE s[i]
          BY <1>5
        <4>3. c[i] \in Int
          BY <1>12
        <4>4. CASE i = a
          <5>1. c[i] + f \in f..f + x - 1
            BY <1>12, <4>1, <4>4
          <5> QED BY <1>1, <4>2, <4>3, <4>4, <5>1
        <4>5. CASE i # a
          BY <2>1, <4>1, <4>2, <4>5
        <4> QED BY <4>4, <4>5
      <3> QED BY <1>5, <3>1 DEF InBox
    <2>3. PICK j : j = Place(q, c)
      OBVIOUS
    <2>4. j \in Places(q) /\ \A i \in 1..n : Coords(q, j)[i] = c[i]
      BY <1>5, <2>2, <2>3, CoordsOfPlace
    <2>5. A[j] = k
      <3>1. \A i \in 1..n : Coords(s, A[j])[i] = Coords(s, k)[i]
        BY <1>9, <1>12, <2>4 DEF Shifted
      <3>2. \A i \in 1..Len(s) : Coords(s, A[j])[i] = Coords(s, k)[i]
        BY <1>2, <3>1
      <3> QED BY <1>1, <1>9, <2>4, <3>2, SameCoords
    <2>6. m[k] = B[j]
      BY <1>1, <1>11, <2>4, <2>5
    <2> QED BY <1>6, <2>2, <2>3, <2>4, <2>6
  <1>13. ASSUME NEW k \in Places(s), Coords(s, k)[a] \notin f..f + x - 1 PROVE m[k] = mem[k]
    <2>1. ASSUME NEW j \in Places(q) PROVE A[j] # k
      <3>1. Coords(q, j)[a] \in 0..q[a] - 1 /\ Coords(s, A[j])[a] = Coords(q, j)[a] + f
        BY <1>2, <1>9
      <3>2. q[a] = x
        BY <1>2, <1>5
      <3>3. Coords(s, A[j])[a] \in f..f + x - 1
        BY <1>1, <3>1, <3>2
      <3> QED BY <1>13, <3>3
    <2> QED BY <1>1, <1>11, <2>1
  <1> QED BY <1>2, <1>3, <1>11, <1>12, <1>13

Joining(t, a, u, y) ==
    /\ TensorOf(t) /\ a \in 1..Len(t.shape) /\ u = NewElements([t.shape EXCEPT ![a] = 1]) /\ y = ConCat(t, u, a)
Joins(u, y, t, a) ==
    /\ TensorOf(u) /\ u.shape = [t.shape EXCEPT ![a] = 1]
    /\ TensorOf(y) /\ y.shape = [t.shape EXCEPT ![a] = t.shape[a] + 1]
    /\ \A k \in Places(y.shape) :
         y.data[k] = IF Coords(y.shape, k)[a] < t.shape[a] THEN ElementAt(t, Coords(y.shape, k))
                     ELSE ElementAt(u, [Coords(y.shape, k) EXCEPT ![a] = @ - t.shape[a]])
LEMMA Joined ==
    ASSUME NEW t, NEW a, NEW u, NEW y, Joining(t, a, u, y)
    PROVE  Joins(u, y, t, a)
  <1>1. PICK s : s = t.shape /\ IsShape(s)
    BY DEF Joining, TensorOf
  <1>2. PICK n \in Nat \ {0} : n = Len(s) /\ s \in [1..n -> Nat \ {0}] /\ a \in 1..n
    BY <1>1, ShapeTyped DEF Joining
  <1>3. PICK q : q = [s EXCEPT ![a] = 1]
    OBVIOUS
  <1>4. PICK r : r = [s EXCEPT ![a] = s[a] + 1]
    OBVIOUS
  <1>5. IsShape(q) /\ IsShape(r)
    <2>1. q \in [1..n -> Nat \ {0}] /\ r \in [1..n -> Nat \ {0}]
      BY <1>2, <1>3, <1>4
    <2> QED BY <2>1, FunctionShape
  <1>6. u.shape = q /\ u.data = [k \in Places(q) |-> -1 - k] /\ u = [shape |-> q, data |-> [k \in Places(q) |-> -1 - k]]
    BY <1>1, <1>3 DEF Joining, NewElements
  <1>7. TensorOf(u)
    BY <1>5, <1>6 DEF TensorOf
  <1>8. u.shape[a] = 1
    BY <1>2, <1>3, <1>6
  <1>9. y = [shape |-> [t.shape EXCEPT ![a] = t.shape[a] + u.shape[a]],
             data |-> [k \in Places([t.shape EXCEPT ![a] = t.shape[a] + u.shape[a]]) |->
                IF Coords([t.shape EXCEPT ![a] = t.shape[a] + u.shape[a]], k)[a] < t.shape[a]
                THEN ElementAt(t, Coords([t.shape EXCEPT ![a] = t.shape[a] + u.shape[a]], k))
                ELSE ElementAt(u, [Coords([t.shape EXCEPT ![a] = t.shape[a] + u.shape[a]], k)
                                      EXCEPT ![a] = @ - t.shape[a]])]]
    <2>1. y = ConCat(t, u, a)
      BY DEF Joining
    <2> QED BY ONLY <2>1 DEF ConCat, Tensor
  <1>10. y = [shape |-> r, data |-> [k \in Places(r) |->
                IF Coords(r, k)[a] < s[a] THEN ElementAt(t, Coords(r, k))
                ELSE ElementAt(u, [Coords(r, k) EXCEPT ![a] = @ - s[a]])]]
    <2>1. [t.shape EXCEPT ![a] = t.shape[a] + u.shape[a]] = r
      BY <1>1, <1>4, <1>8
    <2>2. t.shape = s
      BY <1>1
    <2> QED BY ONLY <1>9, <2>1, <2>2
  <1>11. y.shape = r /\ \A k \in Places(r) :
            y.data[k] = IF Coords(r, k)[a] < s[a] THEN ElementAt(t, Coords(r, k))
                        ELSE ElementAt(u, [Coords(r, k) EXCEPT ![a] = @ - s[a]])
    BY <1>10
  <1>12. TensorOf(y)
    BY <1>5, <1>10 DEF TensorOf
  <1> QED BY <1>1, <1>3, <1>4, <1>6, <1>7, <1>11, <1>12 DEF Joins

Operands(first, second, t, a) ==
    first = MakeConcatArrayAttr(a, 0, t.shape[a]) /\ second = MakeConcatArrayAttr(a, t.shape[a], 1)
Copies(one, mem, l, y, first) ==
    one = Relayouted(Blank(y.shape), Subtensor_memoryForward(Contiguous(y.shape), {first}), Content(mem, l))
Adjoins(m, one, u, y, second) ==
    m = Relayouted(one, Subtensor_memoryForward(Contiguous(y.shape), {second}), u)
LEMMA ConcatHolds ==
    ASSUME NEW t, NEW mem, NEW l, NEW p, Standing(t, mem, l, p), NEW a, NEW u, NEW y, Joining(t, a, u, y),
           NEW first, NEW second, Operands(first, second, t, a),
           NEW one, Copies(one, mem, l, y, first), NEW m, Adjoins(m, one, u, y, second)
    PROVE  /\ Standing(y, m, Contiguous(y.shape), assignOffset(Contiguous(y.shape)))
           /\ \A inp : inp.shape = y.shape => RangeOk(inp, first) /\ RangeOk(inp, second)
  <1>1. PICK s, r : s = t.shape /\ r = y.shape /\ IsShape(s) /\ TensorOf(t) /\ Reads(l, mem, t)
    BY DEF Standing, TensorOf
  <1>2. PICK n \in Nat \ {0} : n = Len(s) /\ s \in [1..n -> Nat \ {0}] /\ a \in 1..n
    BY <1>1, ShapeTyped DEF Joining
  <1>3. /\ TensorOf(u) /\ u.shape = [s EXCEPT ![a] = 1] /\ TensorOf(y) /\ r = [s EXCEPT ![a] = s[a] + 1]
        /\ \A k \in Places(r) :
             y.data[k] = IF Coords(r, k)[a] < s[a] THEN ElementAt(t, Coords(r, k))
                         ELSE ElementAt(u, [Coords(r, k) EXCEPT ![a] = @ - s[a]])
    <2>1. Joins(u, y, t, a)
      BY ONLY Joining(t, a, u, y), Joined
    <2>2. t.shape = s /\ y.shape = r
      BY <1>1
    <2> QED BY ONLY <2>1, <2>2 DEF Joins
  <1>4. IsShape(r) /\ Len(r) = n /\ r[a] = s[a] + 1 /\ r \in [1..n -> Nat \ {0}]
    <2>1. r \in [1..n -> Nat \ {0}] /\ r[a] = s[a] + 1
      BY <1>2, <1>3
    <2> QED BY <2>1, FunctionShape
  <1>5. PICK v, w, x, e, b : /\ v = Subtensor_memoryForward(Contiguous(r), {first})
                             /\ w = Subtensor_memoryForward(Contiguous(r), {second})
                             /\ x = Content(mem, l) /\ e = s[a] /\ b = Blank(r)
    OBVIOUS
  <1>6. e \in Nat \ {0} /\ r[a] = e + 1 /\ 0 + e = e /\ 0 \in Nat /\ 1 \in Nat \ {0}
    BY <1>2, <1>4, <1>5
  <1>7. Part(v, r, a, 0, e)
    <2>1. 0 + e <= r[a]
      BY <1>6
    <2> QED BY <1>1, <1>2, <1>4, <1>5, <1>6, <2>1 DEF Part, Operands
  <1>8. Part(w, r, a, e, 1)
    <2>1. e + 1 <= r[a]
      BY <1>6
    <2> QED BY <1>1, <1>2, <1>4, <1>5, <1>6, <2>1 DEF Part, Operands
  <1>9. /\ v.shape = s /\ \A inp : inp.shape = r => RangeOk(inp, first)
    <2>1. /\ Layout(v) /\ v.shape = [r EXCEPT ![a] = e]
          /\ \A c, d : InBox(c, v.shape) /\ Shifted(d, c, Len(r), a, 0) => InBox(d, r) /\ At(v, c) = Place(r, d)
          /\ \A inp : inp.shape = r => RangeOk(inp, MakeConcatArrayAttr(a, 0, e))
      BY ONLY <1>7, PartView
    <2>2. [r EXCEPT ![a] = e] = s
      BY <1>2, <1>3, <1>5
    <2> QED BY <1>1, <1>5, <2>1, <2>2 DEF Operands
  <1>10. /\ w.shape = u.shape /\ \A inp : inp.shape = r => RangeOk(inp, second)
    <2>1. /\ Layout(w) /\ w.shape = [r EXCEPT ![a] = 1]
          /\ \A c, d : InBox(c, w.shape) /\ Shifted(d, c, Len(r), a, e) => InBox(d, r) /\ At(w, c) = Place(r, d)
          /\ \A inp : inp.shape = r => RangeOk(inp, MakeConcatArrayAttr(a, e, 1))
      BY ONLY <1>8, PartView
    <2>2. [r EXCEPT ![a] = 1] = u.shape
      BY <1>2, <1>3
    <2> QED BY <1>1, <1>5, <2>1, <2>2 DEF Operands
  <1>11. Filled(one, b, v, x, r, a, 0, e)
    BY <1>1, <1>5, <1>7 DEF Filled, Blank, Copies
  <1>12. /\ DOMAIN one = Places(r)
         /\ \A k \in Places(r) : \A c :
              /\ Coords(r, k)[a] \in 0..0 + e - 1 /\ Shifted(Coords(r, k), c, Len(r), a, 0)
                 /\ (\A i \in 1..Len(r) : c[i] \in Int)
                 => InBox(c, v.shape) /\ one[k] = x.data[Place(v.shape, c)]
              /\ Coords(r, k)[a] \notin 0..0 + e - 1 => one[k] = b[k]
    BY ONLY <1>11, PartWritten
  <1>13. Filled(m, one, w, u, r, a, e, 1)
    BY <1>1, <1>5, <1>8, <1>12 DEF Filled, Adjoins
  <1>14. /\ DOMAIN m = Places(r)
         /\ \A k \in Places(r) : \A c :
              /\ Coords(r, k)[a] \in e..e + 1 - 1 /\ Shifted(Coords(r, k), c, Len(r), a, e)
                 /\ (\A i \in 1..Len(r) : c[i] \in Int)
                 => InBox(c, w.shape) /\ m[k] = u.data[Place(w.shape, c)]
              /\ Coords(r, k)[a] \notin e..e + 1 - 1 => m[k] = one[k]
    BY ONLY <1>13, PartWritten
  <1>15. \A j \in Places(s) : x.data[j] = t.data[j]
    BY <1>1, <1>5, ContentOf
  <1>16. ASSUME NEW k \in Places(r) PROVE m[k] = y.data[k]
    <2>1. PICK C : C = Coords(r, k)
      OBVIOUS
    <2>2. C \in [1..n -> Int] /\ C[a] \in 0..e
      <3>1. k \in Int
        BY <1>4, PlacesTyped
      <3>2. \A i \in 1..n : C[i] \in 0..r[i] - 1 /\ r[i] \in Nat
        BY <1>4, <2>1, <3>1, CoordsInBox DEF InBox
      <3>3. C = [i \in 1..n |-> C[i]]
        <4>1. Axes(r) = 1..n
          BY <1>4, ShapeTyped
        <4> QED BY <2>1, <4>1 DEF Coords
      <3>4. \A i \in 1..n : C[i] \in Int
        BY <3>2
      <3> QED BY <1>2, <1>6, <3>2, <3>3, <3>4
    <2>3. CASE C[a] = e
      <3>1. PICK c : c = [C EXCEPT ![a] = C[a] - e]
        OBVIOUS
      <3>2. Shifted(C, c, n, a, e) /\ \A i \in 1..n : c[i] \in Int
        <4>1. ASSUME NEW i \in 1..n PROVE c[i] \in Int /\ C[i] = IF i = a THEN c[i] + e ELSE c[i]
          BY <1>6, <2>2, <3>1
        <4> QED BY <4>1 DEF Shifted
      <3>3. C[a] \in e..e + 1 - 1
        BY <1>6, <2>3
      <3>4. m[k] = u.data[Place(u.shape, c)]
        BY <1>4, <1>10, <1>14, <2>1, <3>2, <3>3
      <3>5. y.data[k] = ElementAt(u, c)
        <4>1. ~(C[a] < e)
          BY <1>6, <2>3
        <4> QED BY <1>3, <1>5, <2>1, <3>1, <4>1
      <3> QED BY <3>4, <3>5 DEF ElementAt
    <2>4. CASE C[a] # e
      <3>1. C[a] < e /\ C[a] \in 0..0 + e - 1 /\ C[a] \notin e..e + 1 - 1
        BY <1>6, <2>2, <2>4
      <3>2. Shifted(C, C, n, a, 0) /\ \A i \in 1..n : C[i] \in Int
        <4>1. ASSUME NEW i \in 1..n PROVE C[i] \in Int /\ C[i] = IF i = a THEN C[i] + 0 ELSE C[i]
          BY <2>2
        <4> QED BY <4>1 DEF Shifted
      <3>3. InBox(C, s) /\ one[k] = x.data[Place(s, C)]
        BY <1>4, <1>9, <1>12, <2>1, <3>1, <3>2
      <3>4. Place(s, C) \in Places(s)
        BY <1>1, <3>3, CoordsOfPlace
      <3>5. m[k] = one[k]
        BY <1>14, <2>1, <3>1
      <3>6. y.data[k] = ElementAt(t, C)
        BY <1>3, <1>5, <2>1, <3>1
      <3> QED BY <1>1, <1>15, <3>3, <3>4, <3>5, <3>6 DEF ElementAt
    <2> QED BY <2>3, <2>4
  <1>17. Standing(y, m, Contiguous(y.shape), assignOffset(Contiguous(y.shape)))
    <2>1. TensorOf(y) /\ DOMAIN m = Places(y.shape) /\ \A k \in Places(y.shape) : m[k] = y.data[k]
      BY <1>1, <1>3, <1>14, <1>16
    <2> QED BY ONLY <2>1, FreshBuffer
  <1> QED BY <1>1, <1>9, <1>10, <1>17

-----------------------------------------------------------------------------
(* The invariant of the views, and that every step keeps it.               *)

(* The cells of a contiguous view, in their order.                         *)
LEMMA ContiguousOrder ==
    ASSUME NEW l, Layout(l), isContiguous(l)
    PROVE  \A k \in Places(l.shape) : Cell(l, k) = l.offset \div DtypeSize + k
  <1>1. PICK s, n : s = l.shape /\ n = Len(s) /\ IsShape(s)
    BY DEF Layout
  <1>2. n \in Nat \ {0} /\ Axes(s) = 1..n /\ s \in [1..n -> Nat \ {0}] /\ l.stride \in [1..n -> Int]
    BY <1>1, ShapeTyped DEF Layout
  <1>3. PICK r : r = RowMajor(s) /\ Len(r) = n /\ r \in [1..n -> Nat \ {0}]
    <2>1. RowMajor(s) \in [1..n -> Nat \ {0}]
      BY <1>1, RowMajorStrides DEF Strides
    <2>2. PICK N, R : N = n /\ R = RowMajor(s)
      OBVIOUS
    <2>3. N \in Nat /\ R \in [1..N -> Nat \ {0}]
      BY <1>2, <2>1, <2>2
    <2>4. Len(R) = N
      BY ONLY <2>3, FunctionSeq
    <2> QED BY <2>1, <2>2, <2>4
  <1>4. ASSUME NEW k \in Places(s) PROVE Cell(l, k) = l.offset \div DtypeSize + k
    <2>1. PICK c : c = Coords(s, k)
      OBVIOUS
    <2>2. \A i \in 1..n : c[i] \in 0..s[i] - 1
      BY <1>1, <2>1, CellOf DEF InBox
    <2>3. \A i \in 1..n : c[i] \in Int /\ l.stride[i] \in Int /\ r[i] \in Int
      <3>1. ASSUME NEW i \in 1..n PROVE c[i] \in Int /\ l.stride[i] \in Int /\ r[i] \in Int
        <4>1. c[i] \in 0..s[i] - 1 /\ s[i] \in Nat
          BY <1>2, <2>2
        <4> QED BY <1>2, <1>3, <4>1
      <3> QED BY <3>1
    <2>4. PICK t : t = l.stride
      OBVIOUS
    <2>5. Len(t) = n
      <3>1. PICK N, R : N = n /\ R = t
        OBVIOUS
      <3>2. N \in Nat /\ R \in [1..N -> Int]
        BY <1>2, <2>4, <3>1
      <3>3. Len(R) = N
        BY ONLY <3>2, FunctionSeq
      <3> QED BY <3>1, <3>3
    <2>6. Row(n, c, t) /\ Row(n, c, r)
      BY <1>2, <1>3, <2>3, <2>4, <2>5 DEF Row
    <2>7. \A i \in 1..n : c[i] * t[i] = c[i] * r[i]
      <3>1. ASSUME NEW i \in 1..n PROVE c[i] * t[i] = c[i] * r[i]
        <4>1. CASE s[i] > 1
          BY <1>1, <1>2, <1>3, <2>4, <4>1 DEF isContiguous
        <4>2. CASE ~(s[i] > 1)
          <5>1. s[i] = 1
            BY <1>2, <4>2
          <5>2. c[i] = 0
            BY <2>2, <5>1
          <5>3. t[i] \in Int /\ r[i] \in Int
            BY <2>3, <2>4
          <5> QED BY <5>2, <5>3
        <4> QED BY <4>1, <4>2
      <3> QED BY <3>1
    <2>8. Dot(c, t) = Dot(c, r)
      BY ONLY <2>6, <2>7, DotSame
    <2>9. Dot(c, r) = k
      BY <1>1, <1>3, <2>1, PlaceOfCoords DEF Place
    <2> QED BY <1>1, <2>1, <2>4, <2>8, <2>9 DEF Cell
  <1> QED BY <1>1, <1>4

(***************************************************************************)
(* The invariant of the views: the value stands in the buffer, at the      *)
(* cells of the view and of the planned one.                               *)
(***************************************************************************)
ViewInv == Standing(value, buffer, memref, planned) /\ compiles = TRUE /\ forwarded \in Nat

LEMMA StandingFaithful ==
    ASSUME NEW t, NEW mem, NEW l, NEW p, Standing(t, mem, l, p)
    PROVE  /\ Content(mem, l) = t
           /\ \A k \in Places(t.shape) :
                /\ Cell(l, k) \in DOMAIN mem /\ Held(mem, Cell(p, k) - PlanAddr \div DtypeSize) = t.data[k]
                /\ Cell(p, k) - PlanAddr \div DtypeSize \in DOMAIN mem
                /\ isContiguous(l) => Held(mem, l.offset \div DtypeSize + k) = t.data[k]
  <1>1. PICK s : s = t.shape /\ s = l.shape /\ IsShape(s) /\ TensorOf(t) /\ Reads(l, mem, t) /\ Layout(l) /\ Follows(p, l)
    BY DEF Standing, TensorOf, Reads
  <1>2. \A k \in Places(s) : Cell(l, k) \in DOMAIN mem /\ mem[Cell(l, k)] = t.data[k]
    BY <1>1 DEF Reads
  <1>3. PICK base : base = PlanAddr \div DtypeSize
    OBVIOUS
  <1>4. base \in Int
    BY <1>3, DtypeAssumption, Divided
  <1>5. \A k \in Places(s) : Cell(l, k) \in Int /\ Cell(p, k) = Cell(l, k) + base
    BY <1>1, <1>3, CellOf DEF Follows
  <1>6. \A k \in Places(s) : Cell(p, k) - base = Cell(l, k)
    BY <1>4, <1>5
  <1>7. Content(mem, l) = t
    <2>1. PICK x : x = Content(mem, l)
      OBVIOUS
    <2>2. x = [shape |-> s, data |-> [k \in Places(s) |-> Held(mem, Cell(l, k))]]
      BY <1>1, <2>1 DEF Content
    <2>3. \A k \in Places(s) : Held(mem, Cell(l, k)) = t.data[k]
      BY <1>2 DEF Held
    <2>4. x = [shape |-> s, data |-> [k \in Places(s) |-> t.data[k]]]
      BY <2>2, <2>3
    <2>5. [k \in Places(s) |-> t.data[k]] = t.data
      BY <1>1 DEF TensorOf
    <2> QED BY <1>1, <2>1, <2>4, <2>5 DEF TensorOf
  <1>8. ASSUME isContiguous(l), NEW k \in Places(s)
        PROVE  Held(mem, l.offset \div DtypeSize + k) = t.data[k]
    <2>1. Cell(l, k) = l.offset \div DtypeSize + k
      BY <1>1, <1>8, ContiguousOrder
    <2> QED BY <1>2, <2>1 DEF Held
  <1> QED BY <1>1, <1>2, <1>3, <1>6, <1>7, <1>8 DEF Held

(* What the operands of the operations are taken for: see OperandsFit.     *)
OperandsSuit ==
    /\ \A shape : IsShape(shape) => OperandsFit(shape)
    /\ \A shape \in Shapes : IsShape(shape)

LEMMA InitStands ==
    ASSUME OperandsSuit, Init
    PROVE  ViewInv
  <1>1. PICK s \in Shapes : /\ value = [shape |-> s, data |-> [k \in Places(s) |-> k]] /\ buffer = value.data
                            /\ memref = Contiguous(s) /\ planned = assignOffset(Contiguous(s))
                            /\ compiles = TRUE /\ forwarded = 0
    BY DEF Init, InitViews
  <1>2. IsShape(s)
    BY <1>1 DEF OperandsSuit
  <1>3. PICK t : t = value
    OBVIOUS
  <1>4. TensorOf(t) /\ t.shape = s
    BY <1>1, <1>2, <1>3 DEF TensorOf
  <1>5. PICK m : m = t.data
    OBVIOUS
  <1>6. DOMAIN m = Places(t.shape) /\ \A k \in Places(t.shape) : m[k] = t.data[k]
    BY <1>4, <1>5 DEF TensorOf
  <1>7. Standing(t, m, Contiguous(t.shape), assignOffset(Contiguous(t.shape)))
    BY ONLY <1>4, <1>6, FreshBuffer
  <1> QED BY <1>1, <1>3, <1>4, <1>5, <1>7 DEF ViewInv

LEMMA SubtensorStep ==
    ASSUME OperandsSuit, ViewInv, NEW descs, descs \in Descs(value.shape), Subtensor(descs)
    PROVE  ViewInv'
  <1>1. PICK t, mem, l, p : t = value /\ mem = buffer /\ l = memref /\ p = planned
    OBVIOUS
  <1>2. Standing(t, mem, l, p) /\ IsShape(t.shape) /\ l.shape = t.shape
    BY <1>1 DEF ViewInv, Standing, TensorOf, Reads
  <1>3. OperandsFit(t.shape) /\ descs \in Descs(t.shape)
    BY <1>1, <1>2 DEF OperandsSuit
  <1>4. Fits(descs, t.shape) /\ Valid(descs, t.shape)
    <2>1. Len(t.shape) \in Nat \ {0} /\ t.shape \in [1..Len(t.shape) -> Nat \ {0}]
      BY <1>2, ShapeTyped
    <2>2. ASSUME NEW d \in descs PROVE d.axis \in 0..Len(t.shape) - 1 /\ Fit(d, t.shape[d.axis + 1])
      <3>1. d.axis \in 0..Len(t.shape) - 1
            /\ IsDesc(d, t.shape[d.axis + 1], -t.shape[d.axis + 1], Int \ {0})
        BY <1>3 DEF OperandsFit
      <3>2. d.axis + 1 \in 1..Len(t.shape)
        BY <2>1, <3>1
      <3> QED BY <2>1, <3>1, <3>2 DEF Fit
    <2> QED BY <1>1, <1>2, <2>2 DEF Fits, Subtensor
  <1>5. /\ Standing(SubTensor(t, descs), mem, Subtensor_memoryForward(l, descs), Subtensor_memoryForward(p, descs))
        /\ \A d \in descs : RangeOk(l, d)
    BY ONLY <1>2, <1>4, SubtensorHolds
  <1>6. /\ value' = SubTensor(t, descs) /\ buffer' = mem /\ memref' = Subtensor_memoryForward(l, descs)
        /\ planned' = Subtensor_memoryForward(p, descs) /\ forwarded' = forwarded + 1
        /\ compiles' = \A d \in descs : RangeOk(l, d)
    BY <1>1 DEF Subtensor, View, AssertsHold
  <1>7. Standing(value, buffer, memref, planned)'
    BY <1>5, <1>6
  <1>8. (compiles = TRUE)'
    BY <1>5, <1>6
  <1>9. (forwarded \in Nat)'
    BY <1>6 DEF ViewInv
  <1> QED BY <1>7, <1>8, <1>9 DEF ViewInv

LEMMA SetSubtensorStep ==
    ASSUME OperandsSuit, ViewInv, NEW descs, descs \in Descs(value.shape), SetSubtensor(descs)
    PROVE  ViewInv'
  <1>1. PICK t, mem, l, p : t = value /\ mem = buffer /\ l = memref /\ p = planned
    OBVIOUS
  <1>2. Standing(t, mem, l, p) /\ IsShape(t.shape) /\ l.shape = t.shape
    BY <1>1 DEF ViewInv, Standing, TensorOf, Reads
  <1>3. OperandsFit(t.shape) /\ descs \in Descs(t.shape)
    BY <1>1, <1>2 DEF OperandsSuit
  <1>4. Fits(descs, t.shape) /\ Valid(descs, t.shape)
    <2>1. Len(t.shape) \in Nat \ {0} /\ t.shape \in [1..Len(t.shape) -> Nat \ {0}]
      BY <1>2, ShapeTyped
    <2>2. ASSUME NEW d \in descs PROVE d.axis \in 0..Len(t.shape) - 1 /\ Fit(d, t.shape[d.axis + 1])
      <3>1. d.axis \in 0..Len(t.shape) - 1
            /\ IsDesc(d, t.shape[d.axis + 1], -t.shape[d.axis + 1], Int \ {0})
        BY <1>3 DEF OperandsFit
      <3>2. d.axis + 1 \in 1..Len(t.shape)
        BY <2>1, <3>1
      <3> QED BY <2>1, <3>1, <3>2 DEF Fit
    <2> QED BY <1>1, <1>2, <2>2 DEF Fits, SetSubtensor
  <1>5. PICK v : v = NewElements(SelectedShape(descs, t.shape))
    OBVIOUS
  <1>6. v.shape = SelectedShape(descs, t.shape)
    BY <1>5 DEF NewElements
  <1>7. PICK m : m = Relayouted(Relayouted(Blank(t.shape), Contiguous(t.shape), Content(mem, l)),
                                Subtensor_memoryForward(Contiguous(t.shape), descs), v)
    OBVIOUS
  <1>8. /\ Standing(SetSubTensor(t, descs, v), m, Contiguous(t.shape), assignOffset(Contiguous(t.shape)))
        /\ SetSubTensor(t, descs, v).shape = t.shape
        /\ \A d \in descs : RangeOk(Contiguous(t.shape), d)
    BY ONLY <1>2, <1>4, <1>7, <1>6, SetSubtensorHolds
  <1>9. /\ value' = SetSubTensor(t, descs, v) /\ buffer' = m
        /\ memref' = Contiguous(SetSubTensor(t, descs, v).shape)
        /\ planned' = assignOffset(Contiguous(SetSubTensor(t, descs, v).shape)) /\ forwarded' = forwarded + 1
        /\ compiles' = \A d \in descs : RangeOk(Contiguous(t.shape), d)
    BY <1>1, <1>5, <1>7 DEF SetSubtensor, NewBuffer, AssertsHold
  <1>10. Standing(value, buffer, memref, planned)'
    BY <1>8, <1>9
  <1>11. (compiles = TRUE)'
    BY <1>8, <1>9
  <1>12. (forwarded \in Nat)'
    BY <1>9 DEF ViewInv
  <1> QED BY <1>10, <1>11, <1>12 DEF ViewInv

LEMMA DimshuffleStep ==
    ASSUME OperandsSuit, ViewInv, NEW pattern, pattern \in Patterns(value.shape), Dimshuffle(pattern)
    PROVE  ViewInv'
  <1>1. PICK t, mem, l, p : t = value /\ mem = buffer /\ l = memref /\ p = planned
    OBVIOUS
  <1>2. Standing(t, mem, l, p) /\ IsShape(t.shape)
    BY <1>1 DEF ViewInv, Standing, TensorOf
  <1>3. OperandsFit(t.shape) /\ pattern \in Patterns(t.shape)
    BY <1>1, <1>2 DEF OperandsSuit
  <1>4. PatternOf(pattern, Len(t.shape))
    <2>1. Len(t.shape) \in Nat \ {0}
      BY <1>2, ShapeTyped
    <2> QED BY <1>3, <2>1 DEF OperandsFit, PatternOf
  <1>5. Standing(DimShuffle(t, pattern), mem, Dimshuffle_memoryForward(l, pattern), Dimshuffle_memoryForward(p, pattern))
    BY ONLY <1>2, <1>4, DimshuffleHolds
  <1>6. /\ value' = DimShuffle(t, pattern) /\ buffer' = mem /\ memref' = Dimshuffle_memoryForward(l, pattern)
        /\ planned' = Dimshuffle_memoryForward(p, pattern) /\ forwarded' = forwarded + 1 /\ compiles' = compiles
    BY <1>1 DEF Dimshuffle, View
  <1>7. Standing(value, buffer, memref, planned)'
    BY <1>5, <1>6
  <1> QED BY <1>6, <1>7 DEF ViewInv

LEMMA ReshapeStep ==
    ASSUME OperandsSuit, ViewInv, NEW shape, shape \in NewShapes(value.shape),
           Reshape(shape) \/ Reshape_copies(shape)
    PROVE  ViewInv'
  <1>1. PICK t, mem, l, p : t = value /\ mem = buffer /\ l = memref /\ p = planned
    OBVIOUS
  <1>2. Standing(t, mem, l, p) /\ IsShape(t.shape) /\ l.shape = t.shape /\ TensorOf(t)
    BY <1>1 DEF ViewInv, Standing, TensorOf, Reads
  <1>3. OperandsFit(t.shape) /\ shape \in NewShapes(t.shape)
    BY <1>1, <1>2 DEF OperandsSuit
  <1>4. PICK r : r = ResolvedShape(NumElems(t.shape), shape)
    OBVIOUS
  <1>5. NewForm(t, shape, r)
    BY <1>3, <1>4 DEF OperandsFit, NewForm
  <1>6. ReShape(t, shape).shape = r
    <2>1. /\ Places(r) = Places(t.shape) /\ TensorOf(ReShape(t, shape))
          /\ ReShape(t, shape).shape = r /\ ReShape(t, shape).data = t.data
      BY ONLY <1>2, <1>5, NewFormOf
    <2> QED BY <2>1
  <1>7. CASE Reshape(shape)
    <2>1. /\ value' = ReShape(t, shape) /\ buffer' = mem /\ memref' = Reshape_memoryForward(l, shape)
          /\ planned' = Reshape_memoryForward(p, shape) /\ forwarded' = forwarded + 1 /\ compiles' = compiles
          /\ try_reshape(l, ResolvedShape(NumElems(l.shape), shape))
      BY <1>1, <1>7 DEF Reshape, View
    <2>2. Standing(ReShape(t, shape), mem, Reshape_memoryForward(l, shape), Reshape_memoryForward(p, shape))
      BY ONLY <1>2, <1>5, <2>1, ReshapeHolds
    <2>3. Standing(value, buffer, memref, planned)'
      BY <2>1, <2>2
    <2> QED BY <2>1, <2>3 DEF ViewInv
  <1>8. CASE Reshape_copies(shape)
    <2>1. PICK m : m = Relayouted(Blank(r), reshaped(Contiguous(r), l.shape), Content(mem, l))
      OBVIOUS
    <2>2. /\ value' = ReShape(t, shape) /\ buffer' = m /\ memref' = Contiguous(r)
          /\ planned' = assignOffset(Contiguous(r)) /\ forwarded' = forwarded + 1 /\ compiles' = compiles
      BY <1>1, <1>6, <1>8, <2>1 DEF Reshape_copies, NewBuffer
    <2>3. Standing(ReShape(t, shape), m, Contiguous(r), assignOffset(Contiguous(r)))
      BY ONLY <1>2, <1>5, <2>1, ReshapeCopies
    <2>4. Standing(value, buffer, memref, planned)'
      BY <2>2, <2>3
    <2> QED BY <2>2, <2>4 DEF ViewInv
  <1> QED BY <1>7, <1>8

LEMMA RelayoutStep ==
    ASSUME ViewInv, Relayout
    PROVE  ViewInv'
  <1>1. PICK t, mem, l, p : t = value /\ mem = buffer /\ l = memref /\ p = planned
    OBVIOUS
  <1>2. Standing(t, mem, l, p)
    BY <1>1 DEF ViewInv
  <1>3. PICK m : m = Relayouted(Blank(t.shape), Contiguous(t.shape), Content(mem, l))
    OBVIOUS
  <1>4. Standing(t, m, Contiguous(t.shape), assignOffset(Contiguous(t.shape)))
    BY ONLY <1>2, <1>3, RelayoutHolds
  <1>5. /\ value' = t /\ buffer' = m /\ memref' = Contiguous(t.shape)
        /\ planned' = assignOffset(Contiguous(t.shape)) /\ forwarded' = forwarded + 1 /\ compiles' = compiles
    BY <1>1, <1>3 DEF Relayout, NewBuffer
  <1>6. Standing(value, buffer, memref, planned)'
    BY <1>4, <1>5
  <1> QED BY <1>5, <1>6 DEF ViewInv

LEMMA ConcatStep ==
    ASSUME ViewInv, NEW axis, axis \in Axes(value.shape), Concat(axis)
    PROVE  ViewInv'
  <1>1. PICK t, mem, l, p : t = value /\ mem = buffer /\ l = memref /\ p = planned
    OBVIOUS
  <1>2. Standing(t, mem, l, p) /\ TensorOf(t) /\ IsShape(t.shape)
    BY <1>1 DEF ViewInv, Standing, TensorOf
  <1>3. PICK u, y : u = NewElements([t.shape EXCEPT ![axis] = 1]) /\ y = ConCat(t, u, axis)
    OBVIOUS
  <1>4. Joining(t, axis, u, y)
    BY <1>1, <1>2, <1>3 DEF Joining, Axes
  <1>5. u.shape[axis] = 1
    <2>1. t.shape \in [1..Len(t.shape) -> Nat \ {0}] /\ axis \in 1..Len(t.shape)
      BY <1>2, <1>4, ShapeTyped DEF Joining
    <2> QED BY <1>3, <2>1 DEF NewElements
  <1>6. PICK first, second : Operands(first, second, t, axis)
    BY DEF Operands
  <1>7. PICK one : Copies(one, mem, l, y, first)
    BY DEF Copies
  <1>8. PICK m : Adjoins(m, one, u, y, second)
    BY DEF Adjoins
  <1>9. /\ Standing(y, m, Contiguous(y.shape), assignOffset(Contiguous(y.shape)))
        /\ \A inp : inp.shape = y.shape => RangeOk(inp, first) /\ RangeOk(inp, second)
    BY ONLY <1>2, <1>4, <1>6, <1>7, <1>8, ConcatHolds
  <1>10. /\ value' = y /\ buffer' = m /\ memref' = Contiguous(y.shape)
         /\ planned' = assignOffset(Contiguous(y.shape)) /\ forwarded' = forwarded + 1
         /\ compiles' = \A d \in {first} \cup {second} : RangeOk(Contiguous(y.shape), d)
    BY <1>1, <1>3, <1>5, <1>6, <1>7, <1>8 DEF Concat, NewBuffer, AssertsHold, Operands, Copies, Adjoins
  <1>11. RangeOk(Contiguous(y.shape), first) /\ RangeOk(Contiguous(y.shape), second)
    BY <1>9 DEF Contiguous
  <1>12. Standing(value, buffer, memref, planned)'
    BY <1>9, <1>10
  <1>13. (compiles = TRUE)'
    BY <1>10, <1>11
  <1>14. (forwarded \in Nat)'
    BY <1>10 DEF ViewInv
  <1> QED BY <1>12, <1>13, <1>14 DEF ViewInv

LEMMA ViewsKept ==
    ASSUME OperandsSuit, ViewInv, [Next]_vars
    PROVE  ViewInv'
  <1>1. ASSUME UNCHANGED views PROVE ViewInv'
    BY <1>1 DEF views, ViewInv
  <1>2. ASSUME Forward PROVE ViewInv'
    <2>1. ASSUME NEW descs, descs \in Descs(value.shape), Subtensor(descs) \/ SetSubtensor(descs) PROVE ViewInv'
      BY <2>1, SubtensorStep, SetSubtensorStep
    <2>2. ASSUME NEW pattern, pattern \in Patterns(value.shape), Dimshuffle(pattern) PROVE ViewInv'
      BY <2>2, DimshuffleStep
    <2>3. ASSUME NEW shape, shape \in NewShapes(value.shape), Reshape(shape) \/ Reshape_copies(shape)
          PROVE  ViewInv'
      BY <2>3, ReshapeStep
    <2>4. ASSUME NEW axis, axis \in Axes(value.shape), Concat(axis) PROVE ViewInv'
      BY <2>4, ConcatStep
    <2>5. ASSUME Relayout PROVE ViewInv'
      BY <2>5, RelayoutStep
    <2> QED BY <1>2, <2>1, <2>2, <2>3, <2>4, <2>5 DEF Forward
  <1>3. ToRuntime => UNCHANGED views
    BY DEF ToRuntime
  <1> QED BY <1>1, <1>2, <1>3 DEF Next, vars

LEMMA ViewsHold ==
    ASSUME ViewInv
    PROVE  ViewsFaithful /\ TypeOKViews
  <1>1. PICK t, mem, l, p : t = value /\ mem = buffer /\ l = memref /\ p = planned
    OBVIOUS
  <1>2. Standing(t, mem, l, p) /\ compiles = TRUE /\ forwarded \in Nat
    BY <1>1 DEF ViewInv
  <1>3. PICK s : s = t.shape /\ s = l.shape /\ s = p.shape
    BY <1>2 DEF Standing, Reads, Follows
  <1>4. Layout(l) /\ Layout(p) /\ IsShape(s) /\ l.offset % DtypeSize = 0 /\ p.offset % DtypeSize = PlanAddr % DtypeSize
    BY <1>2, <1>3 DEF Standing, Reads, Follows, TensorOf
  <1>5. /\ Content(mem, l) = t
        /\ \A k \in Places(t.shape) :
             /\ Cell(l, k) \in DOMAIN mem /\ Held(mem, Cell(p, k) - PlanAddr \div DtypeSize) = t.data[k]
             /\ Cell(p, k) - PlanAddr \div DtypeSize \in DOMAIN mem
             /\ isContiguous(l) => Held(mem, l.offset \div DtypeSize + k) = t.data[k]
    BY ONLY <1>2, StandingFaithful
  <1>6. ViewsFaithful
    BY <1>1, <1>2, <1>3, <1>5 DEF ViewsFaithful
  <1>7. Len(s) > 0 /\ Len(l.stride) = Len(s) /\ Len(p.stride) = Len(s)
    <2>1. Len(s) \in Nat \ {0} /\ l.stride \in [1..Len(s) -> Int] /\ p.stride \in [1..Len(s) -> Int]
      BY <1>3, <1>4, ShapeTyped DEF Layout
    <2> QED BY <2>1, FunctionSeq
  <1>8. InBuffer(memref, 0)
    <2>1. 0 % DtypeSize = 0 /\ 0 \div DtypeSize = 0
      BY DtypeAssumption
    <2>2. \A k \in Places(s) : Cell(l, k) \in Int
      BY <1>3, <1>4, CellOf
    <2>3. \A k \in Places(s) : Cell(l, k) - 0 \div DtypeSize \in DOMAIN mem
      BY <1>3, <1>5, <2>1, <2>2
    <2> QED BY <1>1, <1>3, <1>4, <2>1, <2>3 DEF InBuffer
  <1>9. InBuffer(planned, PlanAddr)
    BY <1>1, <1>3, <1>4, <1>5 DEF InBuffer
  <1>10. TypeOKViews
    BY <1>1, <1>2, <1>3, <1>7, <1>8, <1>9 DEF TypeOKViews
  <1> QED BY <1>6, <1>10

(* Every view reads the elements that its operations select, before and    *)
(* after the buffer is planned, and no assertion of merge() fails.         *)
THEOREM ViewsAlwaysFaithful ==
    ASSUME OperandsSuit
    PROVE  Spec => []ViewsFaithful
  <1>1. Init => ViewInv
    BY InitStands
  <1>2. ViewInv /\ [Next]_vars => ViewInv'
    BY ViewsKept
  <1>3. ViewInv => ViewsFaithful
    BY ViewsHold
  <1> QED BY <1>1, <1>2, <1>3, PTL DEF Spec

-----------------------------------------------------------------------------
(* Layouts of the runtime, and its iterators.                              *)

(* Layouts of the runtime, and the two iterators.                          *)
Runs(l) ==
    /\ l = [dims |-> l.dims, stride |-> l.stride] /\ IsShape(l.dims)
    /\ l.stride \in [1..Len(l.dims) -> Int]

LEMMA RowOf ==
    ASSUME NEW n, NEW c, NEW t, n \in Nat /\ t \in [1..n -> Int], \A i \in 1..n : c[i] \in Int
    PROVE  Row(n, c, t)
  <1>1. Len(t) = n
    BY FunctionSeq
  <1> QED BY <1>1 DEF Row

(* The products of the extents that follow, and of all extents.            *)
Products(g, s, n) ==
    /\ n = Len(s) /\ n \in Nat \ {0} /\ s \in [1..n -> Nat \ {0}]
    /\ g = [i \in 0..n |-> IF i = 0 THEN NumElems(s) ELSE RowMajor(s)[i]]
LEMMA ProductSteps ==
    ASSUME NEW g, NEW s, NEW n, IsShape(s), Products(g, s, n)
    PROVE  /\ g \in [0..n -> Nat \ {0}] /\ g[n] = 1 /\ g[0] = NumElems(s)
           /\ \A i \in 1..n : g[i - 1] = s[i] * g[i] /\ g[i] = RowMajor(s)[i]
  <1>1. n = Len(s) /\ n \in Nat \ {0} /\ s \in [1..n -> Nat \ {0}] /\ NumElems(s) \in Nat \ {0}
    BY NumElemsTyped DEF Products
  <1>2. PICK r : r = RowMajor(s)
    OBVIOUS
  <1>3. r \in [1..n -> Nat \ {0}] /\ r[n] = 1 /\ \A i \in 1..n - 1 : r[i] = s[i + 1] * r[i + 1]
    BY <1>1, <1>2, RowMajorStrides DEF Strides
  <1>4. g = [i \in 0..n |-> IF i = 0 THEN NumElems(s) ELSE r[i]]
    BY <1>2 DEF Products
  <1>5. g \in [0..n -> Nat \ {0}] /\ g[n] = 1 /\ g[0] = NumElems(s) /\ \A i \in 1..n : g[i] = r[i]
    BY <1>1, <1>3, <1>4
  <1>6. ASSUME NEW i \in 1..n PROVE g[i - 1] = s[i] * g[i]
    <2>1. CASE i = 1
      BY <1>1, <1>2, <1>5, <2>1 DEF NumElems
    <2>2. CASE i # 1
      <3>1. PICK j : j = i - 1
        OBVIOUS
      <3>2. j \in 1..n - 1 /\ j \in 1..n /\ j + 1 = i
        BY <1>1, <2>2, <3>1
      <3>3. r[j] = s[j + 1] * r[j + 1]
        BY <1>3, <3>2
      <3>4. g[j] = r[j]
        BY <1>5, <3>2
      <3> QED BY <1>5, <3>1, <3>2, <3>3, <3>4
    <2> QED BY <2>1, <2>2
  <1> QED BY <1>2, <1>5, <1>6

(* What the axes after a, at their last element, add up to.                *)
Telescoped(g, s, n, a, w) ==
    /\ IsShape(s) /\ Products(g, s, n) /\ a \in 0..n
    /\ \A i \in 1..n : w[i] = IF i > a THEN (s[i] - 1) * g[i] ELSE 0
LEMMA Telescope ==
    ASSUME NEW g, NEW s, NEW n, NEW a, NEW w, Telescoped(g, s, n, a, w), NEW f, Adds(f, w, n)
    PROVE  f[n] = g[a] - 1
  <1>1. /\ n \in Nat \ {0} /\ s \in [1..n -> Nat \ {0}] /\ a \in 0..n
        /\ \A i \in 1..n : w[i] = IF i > a THEN (s[i] - 1) * g[i] ELSE 0
    BY DEF Telescoped, Products
  <1>2. g \in [0..n -> Nat \ {0}] /\ g[n] = 1 /\ \A i \in 1..n : g[i - 1] = s[i] * g[i]
    <2>1. IsShape(s) /\ Products(g, s, n)
      BY DEF Telescoped
    <2>2. /\ g \in [0..n -> Nat \ {0}] /\ g[n] = 1 /\ g[0] = NumElems(s)
          /\ \A i \in 1..n : g[i - 1] = s[i] * g[i] /\ g[i] = RowMajor(s)[i]
      BY ONLY <2>1, ProductSteps
    <2> QED BY <2>2
  <1>3. f \in [0..n -> Int] /\ f[0] = 0 /\ \A i \in 1..n : f[i] = f[i - 1] + w[i]
    BY DEF Adds
  <1> DEFINE S == {k \in 0..n : f[k] = IF k <= a THEN 0 ELSE g[a] - g[k]}
  <1>4. 0 \in S
    BY <1>1, <1>3
  <1>5. ASSUME NEW k \in 0..n - 1, k \in S PROVE k + 1 \in S
    <2>1. PICK i : i = k + 1
      OBVIOUS
    <2>2. i \in 1..n /\ i - 1 = k /\ k \in 0..n
      BY <1>1, <2>1
    <2>3. f[k] = IF k <= a THEN 0 ELSE g[a] - g[k]
      BY <1>5
    <2>4. f[i] = f[k] + w[i] /\ g[k] = s[i] * g[i]
      BY <1>2, <1>3, <2>2
    <2>5. g[i] \in Int /\ g[k] \in Int /\ g[a] \in Int /\ s[i] \in Int
      BY <1>1, <1>2, <2>2
    <2>6. CASE i <= a
      <3>1. w[i] = 0 /\ f[k] = 0
        BY <1>1, <2>2, <2>3, <2>6
      <3>2. f[i] = 0
        BY ONLY <2>4, <3>1
      <3> QED BY <2>1, <2>2, <2>6, <3>2
    <2>7. CASE ~(i <= a)
      <3>1. w[i] = (s[i] - 1) * g[i]
        BY <1>1, <2>2, <2>7
      <3>2. (s[i] - 1) * g[i] = s[i] * g[i] - 1 * g[i] /\ 1 * g[i] = g[i]
        BY ONLY <2>5, 1 \in Int, Distribute, Times
      <3>3. w[i] = g[k] - g[i]
        BY ONLY <2>4, <3>1, <3>2
      <3>4. f[k] = g[a] - g[k]
        <4>1. CASE k <= a
          <5>1. k = a
            BY <1>1, <2>2, <2>7, <4>1
          <5> QED BY <2>3, <2>5, <4>1, <5>1
        <4>2. CASE ~(k <= a)
          BY <2>3, <4>2
        <4> QED BY <4>1, <4>2
      <3>5. f[i] = g[a] - g[i]
        BY ONLY <2>4, <2>5, <3>3, <3>4
      <3> QED BY <2>1, <2>2, <2>7, <3>5
    <2> QED BY <2>6, <2>7
  <1>6. n \in S
    <2> HIDE DEF S
    <2>1. PICK N : N = n
      OBVIOUS
    <2>2. N \in Nat /\ 0 \in S /\ \A k \in 0..N - 1 : k \in S => k + 1 \in S
      BY <1>1, <1>4, <1>5, <2>1
    <2>3. \A k \in 0..N : k \in S
      BY ONLY <2>2, Upward
    <2> QED BY <1>1, <2>1, <2>3
  <1>7. f[n] = IF n <= a THEN 0 ELSE g[a] - g[n]
    BY <1>6
  <1> QED BY <1>1, <1>2, <1>7

(* One step of the counters: axis a goes on, those after it go back.       *)
Stepped(c, d, s, n, a) ==
    /\ IsShape(s) /\ n = Len(s) /\ a \in 0..n /\ InBox(c, s)
    /\ \A i \in 1..n : /\ i > a => c[i] = s[i] - 1
                       /\ d[i] = IF i > a THEN 0 ELSE c[i] + (IF i = a THEN 1 ELSE 0)
Backward(back, reset, s, t, n, a) ==
    /\ t \in [1..n -> Int]
    /\ back = [i \in 1..n |-> IF i > a THEN 1 ELSE 0] /\ reset = [i \in 1..n |-> (s[i] - 1) * t[i]]
LEMMA Advance ==
    ASSUME NEW c, NEW d, NEW s, NEW n, NEW a, Stepped(c, d, s, n, a),
           NEW back, NEW reset, NEW t, Backward(back, reset, s, t, n, a)
    PROVE  /\ Dot(d, t) = Dot(c, t) - Dot(back, reset) + (IF a = 0 THEN 0 ELSE t[a])
           /\ Row(n, c, t) /\ Row(n, d, t) /\ Row(n, back, reset)
  <1>1. /\ n \in Nat \ {0} /\ s \in [1..n -> Nat \ {0}] /\ a \in 0..n /\ t \in [1..n -> Int]
        /\ \A i \in 1..n : /\ i > a => c[i] = s[i] - 1
                           /\ d[i] = IF i > a THEN 0 ELSE c[i] + (IF i = a THEN 1 ELSE 0)
    BY ShapeTyped DEF Stepped, Backward
  <1>2. /\ back = [i \in 1..n |-> IF i > a THEN 1 ELSE 0] /\ reset = [i \in 1..n |-> (s[i] - 1) * t[i]]
    BY DEF Backward
  <1>3. \A i \in 1..n : c[i] \in Int /\ d[i] \in Int /\ s[i] \in Int /\ t[i] \in Int
    <2>1. ASSUME NEW i \in 1..n PROVE c[i] \in Int
      <3>1. c[i] \in 0..s[i] - 1
        BY DEF Stepped, InBox
      <3> QED BY <3>1
    <2>2. ASSUME NEW i \in 1..n PROVE d[i] \in Int
      BY <1>1, <2>1, SMTT(20)
    <2> QED BY <1>1, <2>1, <2>2
  <1>4. reset \in [1..n -> Int]
    <2>1. ASSUME NEW i \in 1..n PROVE (s[i] - 1) * t[i] \in Int
      <3>1. s[i] - 1 \in Int /\ t[i] \in Int
        BY <1>3
      <3> QED BY ONLY <3>1, Times
    <2> QED BY <1>2, <2>1
  <1>5. \A i \in 1..n : back[i] \in Int
    BY <1>2
  <1>6. PICK e : e = [i \in 1..n |-> IF i > a THEN 0 ELSE c[i]]
    OBVIOUS
  <1>7. \A i \in 1..n : e[i] \in Int
    BY <1>3, <1>6
  <1>8. Row(n, c, t) /\ Row(n, d, t) /\ Row(n, e, t) /\ Row(n, back, reset)
    <2>1. n \in Nat /\ t \in [1..n -> Int] /\ reset \in [1..n -> Int]
      BY <1>1, <1>4
    <2>2. Row(n, c, t)
      BY ONLY <2>1, <1>3, RowOf
    <2>3. Row(n, d, t)
      BY ONLY <2>1, <1>3, RowOf
    <2>4. Row(n, e, t)
      BY ONLY <2>1, <1>7, RowOf
    <2>5. Row(n, back, reset)
      BY ONLY <2>1, <1>5, RowOf
    <2> QED BY <2>2, <2>3, <2>4, <2>5
  <1>9. Dot(e, t) = Dot(c, t) - Dot(back, reset)
    <2>1. ASSUME NEW i \in 1..n PROVE e[i] * t[i] = c[i] * t[i] - back[i] * reset[i]
      <3>1. PICK x, y : x = c[i] /\ y = t[i]
        OBVIOUS
      <3>2. x \in Int /\ y \in Int /\ x * y \in Int
        BY <1>3, <3>1, Times
      <3>3. CASE i > a
        <4>1. x = s[i] - 1 /\ e[i] = 0 /\ back[i] = 1 /\ reset[i] = (s[i] - 1) * t[i]
          BY <1>1, <1>2, <1>6, <3>1, <3>3
        <4>2. reset[i] = x * y
          BY <3>1, <4>1
        <4>3. 0 * y = 0 /\ 1 * (x * y) = x * y
          BY ONLY <3>2, 1 \in Int, 0 \in Int, Times
        <4> QED BY <3>1, <3>2, <4>1, <4>2, <4>3
      <3>4. CASE ~(i > a)
        <4>1. e[i] = x /\ back[i] = 0 /\ reset[i] \in Int
          BY <1>2, <1>4, <1>6, <3>1, <3>4
        <4>2. 0 * reset[i] = 0
          BY ONLY <4>1, Times
        <4> QED BY <3>1, <3>2, <4>1, <4>2
      <3> QED BY <3>3, <3>4
    <2> QED BY ONLY <1>8, <2>1, DotMinus
  <1>10. CASE a = 0
    <2>1. \A i \in 1..n : d[i] * t[i] = e[i] * t[i]
      BY <1>1, <1>6, <1>10
    <2>2. Dot(d, t) = Dot(e, t)
      BY ONLY <1>8, <2>1, DotSame
    <2>3. Dot(d, t) \in Int
      BY ONLY <1>8, DotInt
    <2> QED BY <1>8, <1>9, <1>10, <2>2, <2>3
  <1>11. CASE a # 0
    <2>1. a \in 1..n /\ t[a] \in Int
      BY <1>1, <1>11
    <2>2. ASSUME NEW i \in 1..n PROVE d[i] * t[i] = IF i = a THEN e[i] * t[i] + t[a] ELSE e[i] * t[i]
      <3>1. CASE i = a
        <4>1. d[i] = e[i] + 1 /\ e[i] \in Int /\ t[i] \in Int
          BY <1>1, <1>3, <1>6, <1>7, <3>1
        <4>2. (e[i] + 1) * t[i] = e[i] * t[i] + 1 * t[i] /\ 1 * t[i] = t[i]
          BY ONLY <4>1, 1 \in Int, Distribute, Times
        <4> QED BY <3>1, <4>1, <4>2
      <3>2. CASE i # a
        <4>1. d[i] = e[i]
          BY <1>1, <1>3, <1>6, <3>2
        <4> QED BY <3>2, <4>1
      <3> QED BY <3>1, <3>2
    <2>3. PICK x : x = t[a]
      OBVIOUS
    <2>4. Bumped(n, e, t, d, t, a, x)
      BY <2>1, <2>2, <2>3 DEF Bumped
    <2>5. Dot(d, t) = Dot(e, t) + x
      BY ONLY <1>8, <2>4, DotPoint
    <2> QED BY <1>8, <1>9, <1>11, <2>3, <2>5
  <1> QED BY <1>8, <1>10, <1>11

LEMMA NextPlace ==
    ASSUME NEW s, NEW k, NEW c, NEW d, NEW n, NEW a, c = Coords(s, k), k \in Places(s), Stepped(c, d, s, n, a)
    PROVE  IF a = 0 THEN k = NumElems(s) - 1 ELSE Place(s, d) = k + 1
  <1>1. PICK r : r = RowMajor(s)
    OBVIOUS
  <1>2. IsShape(s) /\ n \in Nat \ {0} /\ s \in [1..n -> Nat \ {0}] /\ a \in 0..n /\ n = Len(s)
    BY ShapeTyped DEF Stepped
  <1>3. PICK g : g = [i \in 0..n |-> IF i = 0 THEN NumElems(s) ELSE RowMajor(s)[i]]
    OBVIOUS
  <1>4. Products(g, s, n)
    BY <1>2, <1>3 DEF Products
  <1>5. /\ g \in [0..n -> Nat \ {0}] /\ g[n] = 1 /\ g[0] = NumElems(s)
        /\ \A i \in 1..n : g[i - 1] = s[i] * g[i] /\ g[i] = RowMajor(s)[i]
    BY ONLY <1>2, <1>4, ProductSteps
  <1>6. r \in [1..n -> Int]
    <2>1. r \in [1..n -> Nat \ {0}]
      BY <1>1, <1>2, RowMajorStrides DEF Strides
    <2> QED BY <2>1
  <1>7. PICK back, reset : /\ back = [i \in 1..n |-> IF i > a THEN 1 ELSE 0]
                           /\ reset = [i \in 1..n |-> (s[i] - 1) * r[i]]
    OBVIOUS
  <1>8. Backward(back, reset, s, r, n, a)
    BY <1>6, <1>7 DEF Backward
  <1>9. /\ Dot(d, r) = Dot(c, r) - Dot(back, reset) + (IF a = 0 THEN 0 ELSE r[a])
        /\ Row(n, c, r) /\ Row(n, d, r) /\ Row(n, back, reset)
    BY ONLY Stepped(c, d, s, n, a), <1>8, Advance
  <1>10. Dot(back, reset) = g[a] - 1
    <2>1. PICK f, w : Terms(f, w, n, back, reset)
      BY ONLY <1>9, DotSum
    <2>2. Adds(f, w, n) /\ Dot(back, reset) = f[n] /\ \A i \in 1..n : w[i] = back[i] * reset[i]
      BY <2>1 DEF Terms
    <2>3. ASSUME NEW i \in 1..n PROVE w[i] = IF i > a THEN (s[i] - 1) * g[i] ELSE 0
      <3>1. s[i] - 1 \in Int /\ g[i] \in Int /\ reset[i] = (s[i] - 1) * g[i]
        <4>1. s[i] - 1 \in Int
          BY ONLY <1>2
        <4>2. g[i] \in Int /\ g[i] = r[i]
          BY ONLY <1>1, <1>5
        <4>3. reset[i] = (s[i] - 1) * r[i]
          BY ONLY <1>7
        <4> QED BY ONLY <4>1, <4>2, <4>3
      <3>2. reset[i] \in Int
        BY ONLY <3>1, Times
      <3>3. 0 * reset[i] = 0 /\ 1 * reset[i] = reset[i]
        BY ONLY <3>2, 0 \in Int, 1 \in Int, Times
      <3> QED BY <1>7, <2>2, <3>1, <3>3
    <2>4. Telescoped(g, s, n, a, w)
      BY <1>2, <1>4, <2>3 DEF Telescoped
    <2>5. f[n] = g[a] - 1
      BY ONLY <2>2, <2>4, Telescope
    <2> QED BY <2>2, <2>5
  <1>11. Dot(c, r) = k
    BY <1>1, <1>2, PlaceOfCoords DEF Place
  <1>12. k \in Int
    BY <1>2, PlacesTyped
  <1>13. CASE a = 0
    <2>1. \A i \in 1..n : d[i] = 0
      BY <1>2, <1>13 DEF Stepped
    <2>2. Dot(d, r) = 0
      BY ONLY <1>9, <2>1, DotZero
    <2> QED BY <1>5, <1>9, <1>10, <1>11, <1>12, <1>13, <2>2, NumElemsTyped, <1>2
  <1>14. CASE a # 0
    <2>1. a \in 1..n
      BY <1>2, <1>14
    <2>2. g[a] = r[a] /\ r[a] \in Int
      BY <1>1, <1>5, <1>6, <2>1
    <2>3. Dot(d, r) = k + 1
      BY <1>9, <1>10, <1>11, <1>12, <1>14, <2>2
    <2> QED BY <1>1, <1>14, <2>3 DEF Place
  <1> QED BY <1>13, <1>14

LEMMA GreatestOf ==
    ASSUME NEW n \in Nat, NEW T, T \subseteq 1..n, T # {}
    PROVE  \E m \in T : \A j \in T : j <= m
  <1> DEFINE U == {m \in Nat : n - m \in T}
  <1>1. \A j \in T : n - j \in U /\ n - (n - j) = j
    OBVIOUS
  <1>2. U \in SUBSET Nat /\ U # {}
    BY <1>1
  <1>3. PICK u \in U : \A m \in U : u <= m
    <2> HIDE DEF U
    <2> QED BY <1>2, LeastOf
  <1>4. u \in Nat /\ n - u \in T
    BY <1>3
  <1>5. ASSUME NEW j \in T PROVE j <= n - u
    <2>1. u <= n - j
      BY <1>1, <1>3
    <2> QED BY <1>4, <2>1
  <1> QED BY <1>4, <1>5

(* What inc_iter() makes of the counters.                                  *)
Increased(r, v, s, t, n, a, back, reset) ==
    /\ n = Len(s) /\ n \in Nat \ {0} /\ a \in 0..n /\ Backward(back, reset, s, t, n, a)
    /\ r = [inc_dims |-> [i \in 1..n |-> IF i > a THEN 0 ELSE v.inc_dims[i] + (IF i = a THEN 1 ELSE 0)],
            offset |-> v.offset - Dot(back, reset) + (IF a = 0 THEN 0 ELSE t[a])]
    /\ \A i \in 1..n : i > a => ~(v.inc_dims[i] + 1 < s[i])
    /\ a > 0 => v.inc_dims[a] + 1 < s[a]
LEMMA IncIter ==
    ASSUME NEW l, Runs(l), NEW v
    PROVE  \E a, back, reset : Increased(inc_iter(l, v), v, l.dims, l.stride, Len(l.dims), a, back, reset)
  <1>1. PICK s, t, n : s = l.dims /\ t = l.stride /\ n = Len(s) /\ IsShape(s) /\ t \in [1..n -> Int]
    BY DEF Runs
  <1>2. n \in Nat \ {0} /\ Axes(s) = 1..n
    BY <1>1, ShapeTyped
  <1> DEFINE Open == {i \in Axes(l.dims) : v.inc_dims[i] + 1 < l.dims[i]}
             A == IF Open = {} THEN 0 ELSE CHOOSE i \in Open : \A j \in Open : j <= i
             Back == [i \in Axes(l.dims) |-> IF i > A THEN 1 ELSE 0]
             Reset == [i \in Axes(l.dims) |-> reset_stride(l, i)]
  <1>13. inc_iter(l, v) =
            [inc_dims |-> [i \in Axes(l.dims) |->
                 IF i > A THEN 0 ELSE v.inc_dims[i] + (IF i = A THEN 1 ELSE 0)],
             offset |-> v.offset - Dot(Back, Reset) + (IF A = 0 THEN 0 ELSE l.stride[A])]
    BY DEF inc_iter
  <1>3. PICK open : open = Open
    OBVIOUS
  <1>4. PICK a : a = A
    OBVIOUS
  <1>14. a = IF open = {} THEN 0 ELSE CHOOSE i \in open : \A j \in open : j <= i
    <2> HIDE DEF Open
    <2> QED BY <1>3, <1>4
  <1>6. PICK back, reset : back = Back /\ reset = Reset
    OBVIOUS
  <1> HIDE DEF A
  <1>15. open = {i \in 1..n : v.inc_dims[i] + 1 < s[i]}
    BY <1>1, <1>2, <1>3
  <1>5. a \in 0..n /\ (a > 0 => a \in open) /\ \A i \in open : i <= a
    <2>1. CASE open = {}
      BY ONLY <1>2, <1>14, <2>1
    <2>2. CASE open # {}
      <3>1. n \in Nat /\ open \subseteq 1..n
        BY ONLY <1>2, <1>15
      <3>2. \E m \in open : \A j \in open : j <= m
        BY ONLY <2>2, <3>1, GreatestOf
      <3>3. a \in open /\ \A j \in open : j <= a
        BY ONLY <1>14, <2>2, <3>2
      <3> QED BY ONLY <1>2, <3>1, <3>3
    <2> QED BY <2>1, <2>2
  <1>16. /\ back = [i \in 1..n |-> IF i > a THEN 1 ELSE 0]
         /\ reset = [i \in 1..n |-> (s[i] - 1) * t[i]]
    BY <1>1, <1>2, <1>4, <1>6 DEF reset_stride
  <1>7. Backward(back, reset, s, t, n, a)
    BY ONLY <1>1, <1>16 DEF Backward
  <1>8. PICK r : r = inc_iter(l, v)
    OBVIOUS
  <1>9. r = [inc_dims |-> [i \in 1..n |-> IF i > a THEN 0 ELSE v.inc_dims[i] + (IF i = a THEN 1 ELSE 0)],
             offset |-> v.offset - Dot(back, reset) + (IF a = 0 THEN 0 ELSE t[a])]
    <2> HIDE DEF Back, Reset
    <2>1. l.stride = t /\ Axes(l.dims) = 1..n
      BY <1>1, <1>2
    <2> QED BY ONLY <1>4, <1>6, <1>8, <1>13, <2>1
  <1>10. \A i \in 1..n : i > a => ~(v.inc_dims[i] + 1 < s[i])
    <2>1. ASSUME NEW i \in 1..n, i > a, v.inc_dims[i] + 1 < s[i] PROVE FALSE
      <3>1. i \in open
        BY ONLY <1>15, <2>1
      <3> QED BY ONLY <1>2, <1>5, <2>1, <3>1
    <2> QED BY <2>1
  <1>11. a > 0 => v.inc_dims[a] + 1 < s[a]
    BY ONLY <1>5, <1>15
  <1>12. Increased(r, v, s, t, n, a, back, reset)
    BY ONLY <1>1, <1>2, <1>5, <1>7, <1>9, <1>10, <1>11 DEF Increased
  <1> QED BY ONLY <1>1, <1>8, <1>12

(* The counters are the coordinates of the k-th element.                   *)
Counts(v, l, k) == v.inc_dims = Coords(l.dims, k) /\ v.offset = Dot(Coords(l.dims, k), l.stride)
LEMMA NextCount ==
    ASSUME NEW l, Runs(l), NEW v, NEW k, Counts(v, l, k), k \in Places(l.dims), k + 1 \in Places(l.dims)
    PROVE  Counts(inc_iter(l, v), l, k + 1)
  <1>1. PICK r, a, back, reset : r = inc_iter(l, v) /\ Increased(r, v, l.dims, l.stride, Len(l.dims), a, back, reset)
    BY IncIter
  <1>2. PICK s, t, n : s = l.dims /\ t = l.stride /\ n = Len(s) /\ IsShape(s)
    BY DEF Runs
  <1>3. PICK c : c = Coords(s, k)
    OBVIOUS
  <1>4. v.inc_dims = c /\ v.offset = Dot(c, t) /\ k \in Places(s) /\ k + 1 \in Places(s)
    BY <1>2, <1>3 DEF Counts
  <1>5. PICK d : d = [i \in 1..n |-> IF i > a THEN 0 ELSE c[i] + (IF i = a THEN 1 ELSE 0)]
    OBVIOUS
  <1>6. /\ n \in Nat \ {0} /\ a \in 0..n /\ Backward(back, reset, s, t, n, a)
        /\ r = [inc_dims |-> d, offset |-> Dot(c, t) - Dot(back, reset) + (IF a = 0 THEN 0 ELSE t[a])]
        /\ (\A i \in 1..n : i > a => ~(c[i] + 1 < s[i])) /\ (a > 0 => c[a] + 1 < s[a])
    <2>1. Increased(r, v, s, t, n, a, back, reset)
      BY <1>1, <1>2
    <2> QED BY <1>4, <1>5, <2>1 DEF Increased
  <1>7. s \in [1..n -> Nat \ {0}] /\ Axes(s) = 1..n
    BY <1>2, ShapeTyped
  <1>8. k \in Int
    BY <1>2, <1>4, PlacesTyped
  <1>9. InBox(c, s)
    BY <1>2, <1>3, <1>8, CoordsInBox
  <1>10. \A i \in 1..n : c[i] \in 0..s[i] - 1 /\ c[i] \in Int /\ s[i] \in Int
    <2>1. ASSUME NEW i \in 1..n PROVE c[i] \in 0..s[i] - 1 /\ c[i] \in Int /\ s[i] \in Int
      <3>1. c[i] \in 0..s[i] - 1
        BY <1>2, <1>9 DEF InBox
      <3>2. s[i] \in Int
        BY <1>7
      <3> QED BY <3>1, <3>2
    <2> QED BY <2>1
  <1>11. Stepped(c, d, s, n, a)
    <2>1. ASSUME NEW i \in 1..n
          PROVE  /\ i > a => c[i] = s[i] - 1
                 /\ d[i] = IF i > a THEN 0 ELSE c[i] + (IF i = a THEN 1 ELSE 0)
      <3>1. i > a => c[i] = s[i] - 1
        BY <1>6, <1>10
      <3> QED BY <1>5, <3>1
    <2> QED BY <1>2, <1>6, <1>9, <2>1 DEF Stepped
  <1>12. IF a = 0 THEN k = NumElems(s) - 1 ELSE Place(s, d) = k + 1
    BY ONLY <1>3, <1>4, <1>11, NextPlace
  <1>13. Place(s, d) = k + 1
    <2>1. k # NumElems(s) - 1
      <3>1. NumElems(s) \in Nat
        BY <1>2, NumElemsTyped
      <3> QED BY <1>4, <1>8, <3>1 DEF Places
    <2> QED BY <1>12, <2>1
  <1>14. InBox(d, s)
    <2>1. ASSUME NEW i \in 1..n PROVE d[i] \in 0..s[i] - 1
      <3>1. d[i] = IF i > a THEN 0 ELSE c[i] + (IF i = a THEN 1 ELSE 0)
        BY <1>5
      <3>2. CASE i > a
        <4>1. s[i] \in Nat \ {0}
          BY <1>7
        <4> QED BY <3>1, <3>2, <4>1
      <3>3. CASE i = a
        <4>1. d[i] = c[i] + 1 /\ c[i] + 1 < s[i]
          BY <1>6, <3>1, <3>3
        <4> QED BY <1>10, <4>1
      <3>4. CASE i < a
        <4>1. d[i] = c[i]
          BY <1>6, <1>10, <3>1, <3>4
        <4> QED BY <1>10, <4>1
      <3> QED BY <1>6, <3>2, <3>3, <3>4
    <2> QED BY <1>2, <2>1 DEF InBox
  <1>15. Coords(s, k + 1) = d
    <2>1. \A i \in 1..Len(s) : Coords(s, Place(s, d))[i] = d[i]
      BY <1>2, <1>14, CoordsOfPlace
    <2>2. PICK e : e = Coords(s, k + 1)
      OBVIOUS
    <2>3. e = [i \in 1..n |-> e[i]]
      BY <1>7, <2>2 DEF Coords
    <2>4. \A i \in 1..n : e[i] = d[i]
      BY <1>2, <1>13, <2>1, <2>2
    <2> QED BY <1>5, <2>2, <2>3, <2>4
  <1>16. Dot(d, t) = Dot(c, t) - Dot(back, reset) + (IF a = 0 THEN 0 ELSE t[a])
    <2>1. Backward(back, reset, s, t, n, a)
      BY <1>6
    <2>2. /\ Dot(d, t) = Dot(c, t) - Dot(back, reset) + (IF a = 0 THEN 0 ELSE t[a])
          /\ Row(n, c, t) /\ Row(n, d, t) /\ Row(n, back, reset)
      BY ONLY <1>11, <2>1, Advance
    <2> QED BY <2>2
  <1>17. r.inc_dims = d /\ r.offset = Dot(d, t)
    BY <1>6, <1>16
  <1> QED BY <1>1, <1>2, <1>15, <1>17 DEF Counts

LEMMA OffsetsAre ==
    ASSUME NEW l, Runs(l)
    PROVE  \A k \in Places(l.dims) : Offsets(l, NumElems(l.dims))[k] = Dot(Coords(l.dims, k), l.stride)
  <1>1. PICK s, t, n : s = l.dims /\ t = l.stride /\ n = Len(s) /\ IsShape(s) /\ t \in [1..n -> Int]
    BY DEF Runs
  <1>2. n \in Nat \ {0} /\ Axes(s) = 1..n
    BY <1>1, ShapeTyped
  <1>3. PICK N : N = NumElems(s) /\ N \in Nat \ {0} /\ Places(s) = 0..N - 1
    BY <1>1, NumElemsTyped DEF Places
  <1> DEFINE V == [inc_dims : [1..n -> Int], offset : Int]
             G == [k \in 1..N - 1 |-> [v \in V |-> inc_iter(l, v)]]
             R == CHOOSE f : f = [k \in 0..N - 1 |-> IF k = 0 THEN init_iter(l) ELSE inc_iter(l, f[k - 1])]
  <1>4. init_iter(l) \in V
    BY <1>1, <1>2 DEF init_iter
  <1>5. ASSUME NEW v \in V PROVE inc_iter(l, v) \in V
    <2>1. PICK r, a, back, reset : r = inc_iter(l, v) /\ Increased(r, v, s, t, n, a, back, reset)
      BY <1>1, IncIter
    <2>2. /\ a \in 0..n /\ Backward(back, reset, s, t, n, a)
          /\ r = [inc_dims |-> [i \in 1..n |-> IF i > a THEN 0 ELSE v.inc_dims[i] + (IF i = a THEN 1 ELSE 0)],
                  offset |-> v.offset - Dot(back, reset) + (IF a = 0 THEN 0 ELSE t[a])]
      BY <2>1 DEF Increased
    <2>3. s \in [1..n -> Nat \ {0}]
      BY <1>1, ShapeTyped
    <2>4. Dot(back, reset) \in Int
      <3>1. /\ back = [i \in 1..n |-> IF i > a THEN 1 ELSE 0] /\ reset = [i \in 1..n |-> (s[i] - 1) * t[i]]
        BY <2>2 DEF Backward
      <3>2. ASSUME NEW i \in 1..n PROVE (s[i] - 1) * t[i] \in Int
        <4>1. s[i] - 1 \in Int /\ t[i] \in Int
          BY <1>1, <2>3
        <4> QED BY ONLY <4>1, Times
      <3>3. n \in Nat /\ reset \in [1..n -> Int] /\ \A i \in 1..n : back[i] \in Int
        BY <1>2, <3>1, <3>2
      <3>4. Row(n, back, reset)
        BY ONLY <3>3, RowOf
      <3> QED BY ONLY <3>4, DotInt
    <2>5. [i \in 1..n |-> IF i > a THEN 0 ELSE v.inc_dims[i] + (IF i = a THEN 1 ELSE 0)] \in [1..n -> Int]
      <3>1. PICK e : e = v.inc_dims
        OBVIOUS
      <3>2. e \in [1..n -> Int]
        BY <3>1
      <3>3. ASSUME NEW i \in 1..n PROVE (IF i > a THEN 0 ELSE e[i] + (IF i = a THEN 1 ELSE 0)) \in Int
        BY ONLY <3>2
      <3>4. [i \in 1..n |-> IF i > a THEN 0 ELSE e[i] + (IF i = a THEN 1 ELSE 0)] \in [1..n -> Int]
        BY ONLY <3>3
      <3> QED BY ONLY <3>1, <3>4
    <2>6. v.offset - Dot(back, reset) + (IF a = 0 THEN 0 ELSE t[a]) \in Int
      <3>1. a # 0 => t[a] \in Int
        <4>1. a # 0 => a \in 1..n
          BY ONLY <1>2, <2>2
        <4> QED BY ONLY <1>1, <4>1
      <3>2. v.offset \in Int
        OBVIOUS
      <3> QED BY <2>4, <3>1, <3>2
    <2> QED BY <2>1, <2>2, <2>5, <2>6
  <1> HIDE DEF V
  <1>6. PICK M : M = N - 1
    OBVIOUS
  <1>7. Rounds(M, V, init_iter(l), G)
    BY <1>3, <1>4, <1>5, <1>6 DEF Rounds
  <1>8. PICK f : f \in [0..M -> V] /\ f[0] = init_iter(l) /\ \A k \in 1..M : f[k] = G[k][f[k - 1]]
    <2> HIDE DEF G
    <2> QED BY ONLY <1>7, LoopUp
  <1>9. f = [k \in 0..N - 1 |-> IF k = 0 THEN init_iter(l) ELSE inc_iter(l, f[k - 1])]
    <2>1. ASSUME NEW k \in 1..M PROVE f[k] = inc_iter(l, f[k - 1])
      <3>1. k \in 1..N - 1 /\ f[k - 1] \in V
        BY <1>3, <1>6, <1>8
      <3> QED BY <1>8, <3>1
    <2> QED BY <1>3, <1>6, <1>8, <2>1
  <1>10. R = [k \in 0..N - 1 |-> IF k = 0 THEN init_iter(l) ELSE inc_iter(l, R[k - 1])]
    BY <1>9, Zenon
  <1>11. Offsets(l, N) = [k \in 0..N - 1 |-> R[k].offset]
    BY DEF Offsets
  <1> HIDE DEF R
  <1>12. R[0] = init_iter(l) /\ \A k \in 1..N - 1 : R[k] = inc_iter(l, R[k - 1])
    BY <1>3, <1>10
  <1> DEFINE S == {k \in 0..M : Counts(R[k], l, k)}
  <1>13. 0 \in S
    <2>1. PICK c : c = Coords(s, 0)
      OBVIOUS
    <2>2. \A i \in 1..n : c[i] = 0
      BY <1>1, <2>1, FirstPlace
    <2>3. c = [i \in 1..n |-> 0]
      <3>1. c = [i \in 1..n |-> c[i]]
        BY <1>2, <2>1 DEF Coords
      <3> QED BY <2>2, <3>1
    <2>4. n \in Nat /\ t \in [1..n -> Int] /\ \A i \in 1..n : c[i] \in Int
      BY <1>1, <1>2, <2>2
    <2>5. Row(n, c, t)
      BY ONLY <2>4, RowOf
    <2>6. Dot(c, t) = 0
      BY ONLY <2>2, <2>5, DotZero
    <2>7. R[0].inc_dims = c /\ R[0].offset = 0
      BY <1>1, <1>2, <1>12, <2>3 DEF init_iter
    <2> QED BY <1>1, <1>3, <1>6, <2>1, <2>6, <2>7 DEF Counts
  <1>14. ASSUME NEW k \in 0..M - 1, k \in S PROVE k + 1 \in S
    <2>1. PICK v : v = R[k]
      OBVIOUS
    <2>2. Counts(v, l, k) /\ k \in Places(l.dims) /\ k + 1 \in Places(l.dims)
      BY <1>1, <1>3, <1>6, <1>14, <2>1
    <2>3. Counts(inc_iter(l, v), l, k + 1)
      BY ONLY Runs(l), <2>2, NextCount
    <2>4. k + 1 \in 0..M /\ R[k + 1] = inc_iter(l, v)
      <3>1. PICK j : j = k + 1
        OBVIOUS
      <3>2. j \in 1..N - 1 /\ j - 1 = k /\ j \in 0..M
        BY <1>3, <1>6, <3>1
      <3> QED BY <1>12, <2>1, <3>1, <3>2
    <2> QED BY <2>3, <2>4
  <1>15. \A k \in 0..M : k \in S
    <2> HIDE DEF S
    <2>1. M \in Nat
      BY <1>3, <1>6
    <2> QED BY ONLY <2>1, <1>13, <1>14, Upward
  <1>16. ASSUME NEW k \in Places(l.dims)
         PROVE  Offsets(l, NumElems(l.dims))[k] = Dot(Coords(l.dims, k), l.stride)
    <2>1. k \in 0..N - 1 /\ Counts(R[k], l, k)
      BY <1>1, <1>3, <1>6, <1>15
    <2>2. Offsets(l, N)[k] = R[k].offset
      BY <1>11, <2>1
    <2> QED BY <1>1, <1>3, <2>1, <2>2 DEF Counts
  <1> QED BY <1>16

(* The copy, as a set of writes.                                           *)
Iterates(dl, sl, n) == Runs(dl) /\ Runs(sl) /\ n = NumElems(dl.dims) /\ n = NumElems(sl.dims)
LEMMA CopiedIs ==
    ASSUME NEW dl, NEW sl, NEW n, Iterates(dl, sl, n), NEW dst, NEW to, NEW src, NEW first
    PROVE  Copied(dst, to, dl, src, first, sl, n) =
               Written(dst, {[at |-> to + Dot(Coords(dl.dims, k), dl.stride),
                              elem |-> Read(src, first + Dot(Coords(sl.dims, k), sl.stride))] : k \in 0..n - 1})
  <1>1. Runs(dl) /\ Runs(sl) /\ Places(dl.dims) = 0..n - 1 /\ Places(sl.dims) = 0..n - 1
    BY DEF Iterates, Places
  <1>2. ASSUME NEW k \in 0..n - 1
        PROVE  /\ Offsets(dl, n)[k] = Dot(Coords(dl.dims, k), dl.stride)
               /\ Offsets(sl, n)[k] = Dot(Coords(sl.dims, k), sl.stride)
    BY <1>1, OffsetsAre DEF Iterates
  <1>3. Copied(dst, to, dl, src, first, sl, n) =
            Written(dst, {[at |-> to + Offsets(dl, n)[k], elem |-> Read(src, first + Offsets(sl, n)[k])] :
                             k \in 0..n - 1})
    BY DEF Copied
  <1>4. {[at |-> to + Offsets(dl, n)[k], elem |-> Read(src, first + Offsets(sl, n)[k])] : k \in 0..n - 1} =
        {[at |-> to + Dot(Coords(dl.dims, k), dl.stride),
          elem |-> Read(src, first + Dot(Coords(sl.dims, k), sl.stride))] : k \in 0..n - 1}
    BY <1>2
  <1> QED BY <1>3, <1>4

-----------------------------------------------------------------------------
(* A tensor in memory, and what a copy gathers.                            *)

(* The tensor in memory is the one that is meant.                          *)
Loaded(t, l, mem) ==
    /\ TensorOf(t) /\ Runs(l) /\ l.dims = t.shape
    /\ \A k \in Places(t.shape) : /\ Dot(Coords(t.shape, k), l.stride) \in DOMAIN mem
                                  /\ mem[Dot(Coords(t.shape, k), l.stride)] = t.data[k]

LEMMA ContiguousRuns ==
    ASSUME NEW s, IsShape(s), NEW l, l = force_layout_contiguous(s)
    PROVE  /\ Runs(l) /\ l.dims = s /\ l.stride = RowMajor(s) /\ Dense(l)
           /\ \A k \in Places(s) : Dot(Coords(s, k), l.stride) = k
           /\ \A i \in 1..Len(s) : l.stride[i] \in Nat
  <1>1. l = [dims |-> s, stride |-> RowMajor(s)] /\ l.dims = s /\ l.stride = RowMajor(s)
    BY DEF force_layout_contiguous
  <1>2. RowMajor(s) \in [1..Len(s) -> Nat \ {0}]
    BY RowMajorStrides DEF Strides
  <1>3. RowMajor(s) \in [1..Len(s) -> Int] /\ \A i \in 1..Len(s) : RowMajor(s)[i] \in Nat
    BY <1>2
  <1>4. Runs(l)
    BY <1>1, <1>3 DEF Runs
  <1>5. Dense(l)
    BY <1>1 DEF Dense
  <1>6. \A k \in Places(s) : Dot(Coords(s, k), l.stride) = k
    BY <1>1, PlaceOfCoords DEF Place
  <1> QED BY <1>1, <1>3, <1>4, <1>5, <1>6

LEMMA FreshTensor ==
    ASSUME NEW t, TensorOf(t), NEW mem, DOMAIN mem = Places(t.shape), \A k \in Places(t.shape) : mem[k] = t.data[k]
    PROVE  Loaded(t, force_layout_contiguous(t.shape), mem)
  <1>1. PICK s, l : s = t.shape /\ l = force_layout_contiguous(s)
    OBVIOUS
  <1>2. IsShape(s)
    BY <1>1 DEF TensorOf
  <1>3. /\ Runs(l) /\ l.dims = s /\ l.stride = RowMajor(s) /\ Dense(l)
        /\ \A k \in Places(s) : Dot(Coords(s, k), l.stride) = k
        /\ \A i \in 1..Len(s) : l.stride[i] \in Nat
    BY ONLY <1>1, <1>2, ContiguousRuns
  <1> QED BY <1>1, <1>3 DEF Loaded

LEMMA DenseOrder ==
    ASSUME NEW l, Runs(l), Dense(l), NEW b, InBox(b, l.dims)
    PROVE  Dot(b, l.stride) = Place(l.dims, b)
  <1>1. PICK s, t, n, r : s = l.dims /\ t = l.stride /\ n = Len(s) /\ r = RowMajor(s) /\ IsShape(s) /\ t \in [1..n -> Int]
    BY DEF Runs
  <1>2. n \in Nat \ {0} /\ Axes(s) = 1..n /\ s \in [1..n -> Nat \ {0}]
    BY <1>1, ShapeTyped
  <1>3. \A i \in 1..n : b[i] \in 0..s[i] - 1 /\ b[i] \in Int
    BY <1>1, <1>2 DEF InBox
  <1>4. Row(n, b, r)
    BY <1>1, BoxRow
  <1>5. Row(n, b, t)
    <2>1. n \in Nat /\ t \in [1..n -> Int] /\ \A i \in 1..n : b[i] \in Int
      BY <1>1, <1>2, <1>3
    <2> QED BY ONLY <2>1, RowOf
  <1>6. ASSUME NEW i \in 1..n PROVE b[i] * t[i] = b[i] * r[i]
    <2>1. CASE s[i] > 1
      BY <1>1, <1>2, <2>1 DEF Dense
    <2>2. CASE ~(s[i] > 1)
      <3>1. s[i] = 1
        BY <1>2, <2>2
      <3>2. b[i] = 0
        BY <1>3, <3>1
      <3>3. t[i] \in Int /\ r[i] \in Int
        BY <1>4, <1>5 DEF Row
      <3>4. 0 * t[i] = 0 /\ 0 * r[i] = 0
        BY ONLY <3>3, Times
      <3> QED BY <3>2, <3>4
    <2> QED BY <2>1, <2>2
  <1>7. Dot(b, t) = Dot(b, r)
    BY ONLY <1>4, <1>5, <1>6, DotSame
  <1> QED BY <1>1, <1>7 DEF Place

LEMMA LoadedAt ==
    ASSUME NEW t, NEW l, NEW mem, Loaded(t, l, mem), NEW b, InBox(b, t.shape)
    PROVE  /\ Dot(b, l.stride) \in DOMAIN mem /\ mem[Dot(b, l.stride)] = ElementAt(t, b)
           /\ Read(mem, Dot(b, l.stride)) = ElementAt(t, b) /\ Dot(b, l.stride) \in Int
  <1>1. PICK s, u, n : s = t.shape /\ s = l.dims /\ u = l.stride /\ n = Len(s) /\ IsShape(s) /\ u \in [1..n -> Int]
    BY DEF Loaded, Runs
  <1>2. n \in Nat \ {0} /\ s \in [1..n -> Nat \ {0}]
    BY <1>1, ShapeTyped
  <1>3. PICK k : k = Place(s, b)
    OBVIOUS
  <1>4. k \in Places(s) /\ \A i \in 1..n : Coords(s, k)[i] = b[i]
    BY <1>1, <1>3, CoordsOfPlace
  <1>5. PICK c : c = Coords(s, k)
    OBVIOUS
  <1>6. \A i \in 1..n : b[i] \in Int /\ c[i] \in Int
    <2>1. ASSUME NEW i \in 1..n PROVE b[i] \in Int
      <3>1. b[i] \in 0..s[i] - 1
        BY <1>1 DEF InBox
      <3> QED BY <3>1
    <2> QED BY <1>4, <1>5, <2>1
  <1>7. Row(n, b, u) /\ Row(n, c, u)
    <2>1. n \in Nat /\ u \in [1..n -> Int] /\ (\A i \in 1..n : b[i] \in Int) /\ \A i \in 1..n : c[i] \in Int
      BY <1>1, <1>2, <1>6
    <2>2. Row(n, b, u)
      BY ONLY <2>1, RowOf
    <2>3. Row(n, c, u)
      BY ONLY <2>1, RowOf
    <2> QED BY <2>2, <2>3
  <1>8. \A i \in 1..n : b[i] * u[i] = c[i] * u[i]
    BY <1>4, <1>5
  <1>9. Dot(b, u) = Dot(c, u)
    BY ONLY <1>7, <1>8, DotSame
  <1>10. Dot(b, u) \in Int
    BY ONLY <1>7, DotInt
  <1>11. Dot(c, u) \in DOMAIN mem /\ mem[Dot(c, u)] = t.data[k]
    BY <1>1, <1>4, <1>5 DEF Loaded
  <1> QED BY <1>1, <1>3, <1>9, <1>10, <1>11 DEF ElementAt, Read

(* A copy to a new tensor, element by element.                             *)
Gathers(m, dims, src, first, from) ==
    /\ IsShape(dims) /\ Runs(from) /\ NumElems(from.dims) = NumElems(dims)
    /\ m = Copied(alloc_tensor(dims), 0, force_layout_contiguous(dims), src, first, from, NumElems(dims))
LEMMA Gathered ==
    ASSUME NEW m, NEW dims, NEW src, NEW first, NEW from, Gathers(m, dims, src, first, from)
    PROVE  /\ DOMAIN m = Places(dims)
           /\ \A k \in Places(dims) : m[k] = Read(src, first + Dot(Coords(from.dims, k), from.stride))
  <1>1. PICK l, n, dst : l = force_layout_contiguous(dims) /\ n = NumElems(dims) /\ dst = alloc_tensor(dims)
    OBVIOUS
  <1>2. IsShape(dims) /\ Runs(from) /\ NumElems(from.dims) = n /\ m = Copied(dst, 0, l, src, first, from, n)
    BY <1>1 DEF Gathers
  <1>3. /\ Runs(l) /\ l.dims = dims /\ l.stride = RowMajor(dims) /\ Dense(l)
        /\ \A k \in Places(dims) : Dot(Coords(dims, k), l.stride) = k
        /\ \A i \in 1..Len(dims) : l.stride[i] \in Nat
    BY ONLY <1>1, <1>2, ContiguousRuns
  <1>4. Iterates(l, from, n)
    BY <1>1, <1>2, <1>3 DEF Iterates
  <1>5. m = Written(dst, {[at |-> 0 + Dot(Coords(l.dims, k), l.stride),
                           elem |-> Read(src, first + Dot(Coords(from.dims, k), from.stride))] : k \in 0..n - 1})
    <2>1. Copied(dst, 0, l, src, first, from, n) =
               Written(dst, {[at |-> 0 + Dot(Coords(l.dims, k), l.stride),
                              elem |-> Read(src, first + Dot(Coords(from.dims, k), from.stride))] : k \in 0..n - 1})
      BY ONLY <1>4, CopiedIs
    <2> QED BY <1>2, <2>1
  <1>6. PICK T : T = Places(dims) /\ T = 0..n - 1 /\ T \subseteq Int
    <2>1. Places(dims) = 0..n - 1
      BY <1>1 DEF Places
    <2>2. Places(dims) \subseteq Int
      BY <1>2, PlacesTyped
    <2> QED BY <2>1, <2>2
  <1>7. PICK A, B : /\ A = [k \in T |-> k]
                    /\ B = [k \in T |-> Read(src, first + Dot(Coords(from.dims, k), from.stride))]
    OBVIOUS
  <1>8. PICK W : W = {[at |-> A[k], elem |-> B[k]] : k \in T}
    OBVIOUS
  <1>9. m = Written(dst, W)
    <2>1. \A k \in T : 0 + Dot(Coords(l.dims, k), l.stride) = A[k]
      BY <1>3, <1>6, <1>7
    <2>2. W = {[at |-> 0 + Dot(Coords(l.dims, k), l.stride),
                elem |-> Read(src, first + Dot(Coords(from.dims, k), from.stride))] : k \in T}
      BY <1>7, <1>8, <2>1
    <2> QED BY <1>5, <1>6, <2>2
  <1>10. Writing(W, T, A, B)
    BY <1>7, <1>8 DEF Writing
  <1>11. /\ DOMAIN Written(dst, W) = DOMAIN dst
         /\ \A k \in T : A[k] \in DOMAIN dst => Written(dst, W)[A[k]] = B[k]
         /\ \A c \in DOMAIN dst : (\A k \in T : A[k] # c) => Written(dst, W)[c] = dst[c]
    BY ONLY <1>10, WrittenAt
  <1>12. DOMAIN dst = T
    BY <1>1, <1>6 DEF alloc_tensor
  <1> QED BY <1>6, <1>7, <1>9, <1>11, <1>12

-----------------------------------------------------------------------------
(* Broadcast, Dimshuffle and Reshape, as instructions.                     *)

(* A new tensor whose elements were those of t at the coordinates S[k].    *)
Gathering(u, t, l, mem, first, from, S) ==
    /\ TensorOf(u) /\ Loaded(t, l, mem)
    /\ \A k \in Places(u.shape) : /\ InBox(S[k], t.shape) /\ u.data[k] = ElementAt(t, S[k])
                                  /\ first + Dot(Coords(from.dims, k), from.stride) = Dot(S[k], l.stride)
LEMMA GatheredLoaded ==
    ASSUME NEW u, NEW t, NEW l, NEW mem, NEW first, NEW from, NEW S, Gathering(u, t, l, mem, first, from, S),
           NEW m, Gathers(m, u.shape, mem, first, from)
    PROVE  Loaded(u, force_layout_contiguous(u.shape), m)
  <1>1. PICK q : q = u.shape
    OBVIOUS
  <1>2. TensorOf(u) /\ Loaded(t, l, mem)
    BY DEF Gathering
  <1>3. /\ DOMAIN m = Places(q)
        /\ \A k \in Places(q) : m[k] = Read(mem, first + Dot(Coords(from.dims, k), from.stride))
    <2>1. Gathers(m, q, mem, first, from)
      BY <1>1
    <2> QED BY ONLY <2>1, Gathered
  <1>4. ASSUME NEW k \in Places(q) PROVE m[k] = u.data[k]
    <2>1. PICK b : b = S[k]
      OBVIOUS
    <2>2. /\ InBox(b, t.shape) /\ u.data[k] = ElementAt(t, b)
          /\ first + Dot(Coords(from.dims, k), from.stride) = Dot(b, l.stride)
      BY <1>1, <2>1 DEF Gathering
    <2>3. Read(mem, Dot(b, l.stride)) = ElementAt(t, b)
      BY <1>2, <2>2, LoadedAt
    <2> QED BY <1>3, <2>2, <2>3
  <1>5. TensorOf(u) /\ DOMAIN m = Places(u.shape) /\ \A k \in Places(u.shape) : m[k] = u.data[k]
    BY <1>1, <1>2, <1>3, <1>4
  <1> QED BY ONLY <1>5, FreshTensor

(* A tensor made element by element.                                       *)
LEMMA TensorMade ==
    ASSUME NEW u, NEW q, NEW D, u = [shape |-> q, data |-> [k \in Places(q) |-> D[k]]], IsShape(q)
    PROVE  TensorOf(u) /\ u.shape = q /\ \A k \in Places(q) : u.data[k] = D[k]
  <1>1. u.shape = q /\ u.data = [k \in Places(q) |-> D[k]]
    OBVIOUS
  <1> QED BY <1>1 DEF TensorOf

(* A sum after new terms that are 0.                                       *)
After(new, n, N, c, t, d, u) ==
    /\ new \in Nat /\ N = new + n /\ \A i \in 1..new : d[i] * u[i] = 0
    /\ \A i \in 1..n : d[new + i] * u[new + i] = c[i] * t[i]

LEMMA DotAfter ==
    ASSUME NEW n, NEW N, NEW new, NEW c, NEW t, NEW d, NEW u, Row(n, c, t), Row(N, d, u),
           After(new, n, N, c, t, d, u)
    PROVE  Dot(d, u) = Dot(c, t)
  <1>1. PICK f, v : Terms(f, v, n, c, t)
    BY DotSum
  <1>2. PICK g, w : Terms(g, w, N, d, u)
    BY DotSum
  <1>3. n \in Nat /\ N \in Nat /\ new \in Nat /\ N = new + n
    BY DEF Row, After
  <1>4. /\ f \in [0..n -> Int] /\ f[0] = 0 /\ \A i \in 1..n : f[i] = f[i - 1] + v[i]
        /\ Dot(c, t) = f[n]
    BY <1>1 DEF Terms, Adds
  <1>5. /\ g \in [0..N -> Int] /\ g[0] = 0 /\ \A i \in 1..N : g[i] = g[i - 1] + w[i]
        /\ Dot(d, u) = g[N]
    BY <1>2 DEF Terms, Adds
  <1>6. (\A i \in 1..new : w[i] = 0) /\ \A i \in 1..n : w[new + i] = v[i] /\ v[i] \in Int
    <2>1. ASSUME NEW i \in 1..new PROVE w[i] = 0
      <3>1. i \in 1..N
        BY <1>3
      <3>2. w[i] = d[i] * u[i]
        BY <1>2, <3>1 DEF Terms
      <3> QED BY <3>2 DEF After
    <2>2. ASSUME NEW i \in 1..n PROVE w[new + i] = v[i] /\ v[i] \in Int
      <3>1. new + i \in 1..N
        BY <1>3
      <3>2. w[new + i] = d[new + i] * u[new + i] /\ v[i] = c[i] * t[i] /\ v[i] \in Int
        BY <1>1, <1>2, <3>1 DEF Terms
      <3> QED BY <3>2 DEF After
    <2> QED BY <2>1, <2>2
  <1>7. \A k \in 0..new : g[k] = 0
    <2>1. PICK S : S = {k \in 0..new : g[k] = 0}
      OBVIOUS
    <2>2. 0 \in S
      BY <1>3, <1>5, <2>1
    <2>3. ASSUME NEW k \in 0..new - 1, k \in S PROVE k + 1 \in S
      <3>1. PICK i : i = k + 1 /\ i - 1 = k /\ i \in 1..new /\ i \in 1..N /\ i \in 0..new
        BY <1>3
      <3>2. g[i] = g[k] + w[i] /\ w[i] = 0 /\ g[k] = 0
        BY <1>5, <1>6, <2>1, <2>3, <3>1
      <3> QED BY <2>1, <3>1, <3>2
    <2>4. \A k \in 0..new : k \in S
      BY ONLY <1>3, <2>2, <2>3, Upward
    <2> QED BY <2>1, <2>4
  <1>8. \A k \in 0..n : g[new + k] = f[k]
    <2>1. PICK S : S = {k \in 0..n : g[new + k] = f[k]}
      OBVIOUS
    <2>2. 0 \in S
      <3>1. new \in 0..new /\ new + 0 = new /\ 0 \in 0..n
        BY <1>3
      <3> QED BY <1>4, <1>7, <2>1, <3>1
    <2>3. ASSUME NEW k \in 0..n - 1, k \in S PROVE k + 1 \in S
      <3>1. PICK i : i = k + 1 /\ i - 1 = k /\ i \in 1..n /\ i \in 0..n /\ new + i \in 1..N /\ (new + i) - 1 = new + k
        BY <1>3
      <3>2. g[new + i] = g[new + k] + w[new + i]
        BY <1>5, <3>1
      <3>3. f[i] = f[k] + v[i] /\ w[new + i] = v[i]
        BY <1>4, <1>6, <3>1
      <3>4. g[new + k] = f[k]
        BY <2>1, <2>3
      <3> QED BY <2>1, <3>1, <3>2, <3>3, <3>4
    <2>4. \A k \in 0..n : k \in S
      BY ONLY <1>3, <2>2, <2>3, Upward
    <2> QED BY <2>1, <2>4
  <1> QED BY <1>3, <1>4, <1>5, <1>8

(* The layout that repeats the elements along new first axes and those of  *)
(* extent 1.                                                               *)
Repeating(l, dims, new, i) == i <= new \/ (l.dims[i - new] = 1 /\ dims[i] # 1)
Broadcasting(from, l, dims, new) ==
    from = [dims |-> dims,
            stride |-> [i \in DOMAIN dims |-> IF Repeating(l, dims, new, i) THEN 0 ELSE l.stride[i - new]]]
Stretches(t, dims, new) ==
    /\ IsShape(dims) /\ new \in Nat /\ Len(dims) = new + Len(t.shape)
    /\ \A i \in Axes(t.shape) : t.shape[i] \in {1, dims[new + i]}

LEMMA BroadcastLoaded ==
    ASSUME NEW t, NEW l, NEW mem, Loaded(t, l, mem), NEW dims, NEW new, Stretches(t, dims, new),
           NEW from, Broadcasting(from, l, dims, new),
           NEW m, m = Copied(alloc_tensor(dims), 0, force_layout_contiguous(dims), mem, 0, from, NumElems(dims))
    PROVE  Loaded(BroadCast(t, dims), force_layout_contiguous(dims), m)
  <1>1. PICK s, n : s = t.shape /\ s = l.dims /\ n = Len(s) /\ IsShape(s) /\ l.stride \in [1..n -> Int]
    BY DEF Loaded, Runs
  <1>2. n \in Nat \ {0} /\ s \in [1..n -> Nat \ {0}] /\ Axes(s) = 1..n
    BY <1>1, ShapeTyped
  <1>3. PICK N : N = new + n
    OBVIOUS
  <1>4. /\ N \in Nat \ {0} /\ new \in Nat /\ N - new = n
        /\ DOMAIN dims = 1..N /\ Axes(dims) = 1..N /\ dims \in [1..N -> Nat \ {0}] /\ Len(dims) = N /\ IsShape(dims)
        /\ \A i \in 1..n : s[i] \in {1, dims[new + i]}
    <2>1. Len(dims) = N /\ IsShape(dims) /\ new \in Nat /\ \A i \in Axes(s) : s[i] \in {1, dims[new + i]}
      BY <1>1, <1>3 DEF Stretches
    <2>2. N \in Nat \ {0} /\ N - new = n
      BY <1>2, <1>3, <2>1
    <2>3. DOMAIN dims = 1..N /\ Axes(dims) = 1..N /\ dims \in [1..N -> Nat \ {0}]
      BY <2>1, ShapeTyped
    <2> QED BY <1>2, <2>1, <2>2, <2>3
  <1>5. PICK f : f = [i \in 1..N |-> IF Repeating(l, dims, new, i) THEN 0 ELSE l.stride[i - new]]
    OBVIOUS
  <1>6. f \in [1..N -> Int]
    <2>1. ASSUME NEW i \in 1..N, ~Repeating(l, dims, new, i) PROVE l.stride[i - new] \in Int
      <3>1. i - new \in 1..n
        BY <1>2, <1>4, <2>1 DEF Repeating
      <3> QED BY <1>1, <3>1
    <2> QED BY <1>5, <2>1
  <1>7. from = [dims |-> dims, stride |-> f] /\ from.dims = dims /\ from.stride = f
    BY <1>4, <1>5 DEF Broadcasting
  <1>8. Runs(from)
    BY <1>4, <1>6, <1>7 DEF Runs
  <1>9. Gathers(m, dims, mem, 0, from)
    BY <1>4, <1>7, <1>8 DEF Gathers
  <1>10. PICK S : S = [k \in Places(dims) |-> [i \in 1..n |-> IF s[i] = 1 THEN 0 ELSE Coords(dims, k)[new + i]]]
    OBVIOUS
  <1>11. PICK u : u = BroadCast(t, dims)
    OBVIOUS
  <1>12. u = [shape |-> dims, data |-> [k \in Places(dims) |-> ElementAt(t, S[k])]]
    <2>1. t.shape = s /\ Axes(s) = 1..n /\ Len(dims) - Len(s) = new
      BY <1>1, <1>2, <1>3, <1>4
    <2>2. u = [shape |-> dims, data |-> [k \in Places(dims) |->
                 ElementAt(t, [i \in 1..n |-> IF s[i] = 1 THEN 0 ELSE Coords(dims, k)[new + i]])]]
      <3>1. u = [shape |-> dims, data |-> [k \in Places(dims) |->
                   ElementAt(t, [i \in Axes(t.shape) |->
                       IF t.shape[i] = 1 THEN 0 ELSE Coords(dims, k)[Len(dims) - Len(t.shape) + i]])]]
        BY ONLY <1>11 DEF BroadCast, Tensor
      <3> QED BY ONLY <2>1, <3>1
    <2> QED BY ONLY <1>10, <2>2
  <1>13. PICK D : D = [k \in Places(dims) |-> ElementAt(t, S[k])]
    OBVIOUS
  <1>14. TensorOf(u) /\ u.shape = dims /\ \A k \in Places(dims) : u.data[k] = D[k]
    <2>1. u = [shape |-> dims, data |-> [k \in Places(dims) |-> D[k]]] /\ IsShape(dims)
      BY <1>4, <1>12, <1>13
    <2> QED BY ONLY <2>1, TensorMade
  <1>15. ASSUME NEW k \in Places(dims)
         PROVE  InBox(S[k], s) /\ 0 + Dot(Coords(dims, k), f) = Dot(S[k], l.stride)
    <2>1. PICK c, b : c = Coords(dims, k) /\ b = S[k]
      OBVIOUS
    <2>2. b = [i \in 1..n |-> IF s[i] = 1 THEN 0 ELSE c[new + i]]
      BY <1>10, <2>1
    <2>3. \A i \in 1..N : c[i] \in 0..dims[i] - 1 /\ c[i] \in Int
      <3>1. k \in Int
        BY <1>4, PlacesTyped
      <3>2. InBox(c, dims)
        BY <1>4, <2>1, <3>1, CoordsInBox
      <3> QED BY <1>4, <3>2 DEF InBox
    <2>4. \A i \in 1..n : b[i] \in 0..s[i] - 1 /\ b[i] \in Int
      <3>1. ASSUME NEW i \in 1..n PROVE b[i] \in 0..s[i] - 1
        <4>1. CASE s[i] = 1
          BY <2>2, <4>1
        <4>2. CASE s[i] # 1
          <5>1. s[i] = dims[new + i] /\ new + i \in 1..N
            BY <1>2, <1>3, <1>4, <4>2
          <5> QED BY <2>2, <2>3, <4>2, <5>1
        <4> QED BY <4>1, <4>2
      <3>2. \A i \in 1..n : s[i] \in Nat
        BY <1>2
      <3> QED BY <3>1, <3>2
    <2>5. InBox(b, s)
      BY <1>1, <2>4 DEF InBox
    <2>6. PICK t2 : t2 = l.stride
      OBVIOUS
    <2>7. Row(N, c, f) /\ Row(n, b, t2)
      <3>1. n \in Nat /\ N \in Nat /\ f \in [1..N -> Int] /\ t2 \in [1..n -> Int]
        BY <1>1, <1>2, <1>4, <1>6, <2>6
      <3>2. (\A i \in 1..N : c[i] \in Int) /\ \A i \in 1..n : b[i] \in Int
        BY <2>3, <2>4
      <3>3. Row(N, c, f)
        BY ONLY <3>1, <3>2, RowOf
      <3>4. Row(n, b, t2)
        BY ONLY <3>1, <3>2, RowOf
      <3> QED BY <3>3, <3>4
    <2>8. ASSUME NEW i \in 1..n PROVE c[new + i] * f[new + i] = b[i] * t2[i]
      <3>1. PICK j : j = new + i /\ j \in 1..N /\ j - new = i /\ ~(j <= new)
        BY <1>2, <1>3, <1>4
      <3>2. t2[i] \in Int /\ c[j] \in Int /\ 0 * t2[i] = 0 /\ c[j] * 0 = 0
        BY <1>1, <2>3, <2>6, <3>1, Times
      <3>3. f[j] = IF s[i] = 1 /\ dims[j] # 1 THEN 0 ELSE t2[i]
        BY <1>1, <1>5, <2>6, <3>1 DEF Repeating
      <3>4. CASE s[i] # 1
        <4>1. b[i] = c[j] /\ f[j] = t2[i]
          BY <2>2, <3>1, <3>3, <3>4
        <4> QED BY <3>1, <4>1
      <3>5. CASE s[i] = 1 /\ dims[j] # 1
        <4>1. b[i] = 0 /\ f[j] = 0
          BY <2>2, <3>3, <3>5
        <4> QED BY <3>1, <3>2, <4>1
      <3>6. CASE s[i] = 1 /\ dims[j] = 1
        <4>1. b[i] = 0
          BY <2>2, <3>6
        <4>2. c[j] = 0 /\ f[j] = t2[i]
          BY <2>3, <3>1, <3>3, <3>6
        <4> QED BY <3>1, <4>1, <4>2
      <3> QED BY <3>4, <3>5, <3>6
    <2>9. ASSUME NEW i \in 1..new PROVE c[i] * f[i] = 0
      <3>1. i \in 1..N /\ i <= new
        BY <1>2, <1>3, <1>4
      <3>2. f[i] = 0 /\ c[i] \in Int
        BY <1>5, <2>3, <3>1 DEF Repeating
      <3> QED BY <3>2, Times
    <2>10. After(new, n, N, b, t2, c, f)
      BY <1>3, <1>4, <2>8, <2>9 DEF After
    <2>11. Dot(c, f) = Dot(b, t2)
      BY ONLY <2>7, <2>10, DotAfter
    <2>12. Dot(c, f) \in Int
      BY ONLY <2>7, DotInt
    <2> QED BY <2>1, <2>5, <2>6, <2>11, <2>12
  <1>16. Gathering(u, t, l, mem, 0, from, S)
    BY <1>1, <1>4, <1>7, <1>13, <1>14, <1>15 DEF Gathering
  <1>17. Gathers(m, u.shape, mem, 0, from)
    BY <1>9, <1>14
  <1>18. Loaded(u, force_layout_contiguous(u.shape), m)
    BY ONLY <1>16, <1>17, GatheredLoaded
  <1> QED BY <1>11, <1>14, <1>18

(* As many entries as axes: none is -1.                                    *)
LEMMA Permutes ==
    ASSUME NEW n, NEW p, PatternOf(p, n), Len(p) = n
    PROVE  \A i \in 1..n : p[i] + 1 \in 1..n /\ WhereIs(p, n)[p[i] + 1] = i
  <1>1. PICK m : m = n /\ m \in Nat \ {0}
    BY DEF PatternOf
  <1>2. PICK h : h = WhereIs(p, n)
    OBVIOUS
  <1>3. Embeds(h, m, m)
    BY <1>1, <1>2, PatternIs
  <1>4. h = [a \in 1..m |-> h[a]]
    BY <1>1, <1>2 DEF WhereIs
  <1>5. ASSUME NEW i \in 1..m PROVE \E a \in 1..m : h[a] = i
    <2>1. SUFFICES ASSUME \A a \in 1..m : h[a] # i PROVE FALSE
      OBVIOUS
    <2>2. PICK S, T : S = 1..m /\ T = S \ {i}
      OBVIOUS
    <2>3. IsFiniteSet(S) /\ Cardinality(S) = m
      BY <1>1, <2>2, FS_Interval
    <2>4. IsFiniteSet(T) /\ Cardinality(T) = IF i \in S THEN Cardinality(S) - 1 ELSE Cardinality(S)
      BY ONLY <2>2, <2>3, FS_RemoveElement
    <2>5. Cardinality(T) < Cardinality(S)
      BY <1>1, <2>2, <2>3, <2>4
    <2>6. \A a \in S : h[a] \in T
      BY <1>3, <2>1, <2>2 DEF Embeds
    <2>7. h \in [S -> T]
      BY <1>4, <2>2, <2>6
    <2>8. \E x, y \in S : x # y /\ h[x] = h[y]
      BY ONLY <2>3, <2>4, <2>5, <2>7, FS_PigeonHole
    <2> QED BY <1>3, <2>2, <2>8 DEF Embeds
  <1>6. ASSUME NEW i \in 1..n PROVE p[i] + 1 \in 1..n /\ h[p[i] + 1] = i
    <2>1. PICK a \in 1..m : h[a] = i
      BY <1>1, <1>5
    <2>2. p[i] = a - 1
      BY <1>1, <1>2, <2>1, PatternIs
    <2>3. p[i] + 1 = a
      BY <1>1, <2>2
    <2> QED BY <1>1, <2>1, <2>3
  <1> QED BY <1>2, <1>6

Shuffling(from, l, p) ==
    from = [dims |-> [i \in DOMAIN p |-> l.dims[p[i] + 1]], stride |-> [i \in DOMAIN p |-> l.stride[p[i] + 1]]]
LEMMA DimshuffleLoaded ==
    ASSUME NEW t, NEW l, NEW mem, Loaded(t, l, mem), NEW p, PatternOf(p, Len(t.shape)), Len(p) = Len(t.shape),
           NEW from, Shuffling(from, l, p),
           NEW m, m = Copied(alloc_tensor(from.dims), 0, force_layout_contiguous(from.dims), mem, 0, from,
                             NumElems(from.dims))
    PROVE  Loaded(DimShuffle(t, p), force_layout_contiguous(from.dims), m)
  <1>1. PICK s, n : s = t.shape /\ s = l.dims /\ n = Len(s) /\ IsShape(s) /\ l.stride \in [1..n -> Int]
    BY DEF Loaded, Runs
  <1>2. n \in Nat \ {0} /\ s \in [1..n -> Nat \ {0}] /\ Axes(s) = 1..n
    BY <1>1, ShapeTyped
  <1>3. PatternOf(p, n) /\ Len(p) = n
    BY <1>1
  <1>4. PICK h : h = WhereIs(p, n)
    OBVIOUS
  <1>5. /\ DOMAIN p = 1..n /\ p \in [1..n -> -1..n - 1] /\ Embeds(h, n, n) /\ \A a \in 1..n : p[h[a]] = a - 1
        /\ \A i \in 1..n : p[i] + 1 \in 1..n /\ h[p[i] + 1] = i
    <2>1. DOMAIN p = 1..Len(p) /\ p \in [1..Len(p) -> -1..n - 1] /\ Embeds(WhereIs(p, n), n, Len(p))
      BY ONLY <1>3, PatternIs
    <2>2. \A a \in 1..n : p[WhereIs(p, n)[a]] = a - 1
      BY ONLY <1>3, PatternIs
    <2>3. \A i \in 1..n : p[i] + 1 \in 1..n /\ WhereIs(p, n)[p[i] + 1] = i
      BY ONLY <1>3, Permutes
    <2> QED BY ONLY <1>3, <1>4, <2>1, <2>2, <2>3
  <1>6. PICK q, f, u2 : /\ q = [i \in 1..n |-> s[p[i] + 1]] /\ u2 = l.stride /\ f = [i \in 1..n |-> u2[p[i] + 1]]
    OBVIOUS
  <1>7. f \in [1..n -> Int] /\ u2 \in [1..n -> Int]
    BY <1>1, <1>5, <1>6
  <1>8. q \in [1..n -> Nat \ {0}]
    BY <1>2, <1>5, <1>6
  <1>9. IsShape(q) /\ Len(q) = n
    BY <1>2, <1>8, FunctionShape
  <1>10. from = [dims |-> q, stride |-> f] /\ from.dims = q /\ from.stride = f
    BY <1>1, <1>5, <1>6 DEF Shuffling
  <1>11. Runs(from)
    BY <1>7, <1>9, <1>10 DEF Runs
  <1>12. Gathers(m, q, mem, 0, from)
    BY <1>9, <1>10, <1>11 DEF Gathers
  <1>13. PICK S : S = [k \in Places(q) |-> [a \in 1..n |-> Coords(q, k)[h[a]]]]
    OBVIOUS
  <1>14. PICK u : u = DimShuffle(t, p)
    OBVIOUS
  <1>15. u = [shape |-> q, data |-> [k \in Places(q) |-> ElementAt(t, S[k])]]
    <2>1. PICK A : A = [k \in Places(q) |->
                          [a \in 1..n |-> Coords(q, k)[CHOOSE i \in DOMAIN p : p[i] = a - 1]]]
      OBVIOUS
    <2>2. u = [shape |-> q, data |-> [k \in Places(q) |-> ElementAt(t,
                [a \in 1..n |-> Coords(q, k)[CHOOSE i \in DOMAIN p : p[i] = a - 1]])]]
      <3>1. t.shape = s /\ Axes(t.shape) = 1..n
        BY <1>1, <1>2
      <3>2. q = [i \in DOMAIN p |-> IF p[i] < 0 THEN 1 ELSE s[p[i] + 1]]
        <4>1. ASSUME NEW i \in 1..n PROVE ~(p[i] < 0)
          BY <1>2, <1>5, SMTT(20)
        <4> QED BY <1>5, <1>6, <4>1
      <3>3. u = Tensor(q, LAMBDA c : ElementAt(t,
                [a \in 1..n |-> c[CHOOSE i \in DOMAIN p : p[i] = a - 1]]))
        BY <1>14, <3>1, <3>2 DEF DimShuffle
      <3> QED BY <3>3 DEF Tensor
    <2>3. \A k \in Places(q) : S[k] = A[k]
      BY <1>4, <1>13, <2>1 DEF WhereIs
    <2> QED BY <2>1, <2>2, <2>3
  <1>16. PICK D : D = [k \in Places(q) |-> ElementAt(t, S[k])]
    OBVIOUS
  <1>17. TensorOf(u) /\ u.shape = q /\ \A k \in Places(q) : u.data[k] = D[k]
    <2>1. u = [shape |-> q, data |-> [k \in Places(q) |-> D[k]]] /\ IsShape(q)
      BY <1>9, <1>15, <1>16
    <2> QED BY ONLY <2>1, TensorMade
  <1>18. ASSUME NEW k \in Places(q)
         PROVE  InBox(S[k], s) /\ 0 + Dot(Coords(q, k), f) = Dot(S[k], u2)
    <2>1. PICK c, b : c = Coords(q, k) /\ b = S[k]
      OBVIOUS
    <2>2. b = [a \in 1..n |-> c[h[a]]]
      BY <1>13, <2>1
    <2>3. \A i \in 1..n : c[i] \in 0..q[i] - 1 /\ c[i] \in Int
      <3>1. k \in Int
        BY <1>9, PlacesTyped
      <3>2. InBox(c, q)
        BY <1>9, <2>1, <3>1, CoordsInBox
      <3>3. \A i \in 1..n : c[i] \in 0..q[i] - 1
        BY <1>9, <3>2 DEF InBox
      <3> QED BY <3>3
    <2>4. ASSUME NEW a \in 1..n PROVE b[a] \in 0..s[a] - 1 /\ b[a] \in Int /\ f[h[a]] = u2[a]
      <3>1. h[a] \in 1..n /\ p[h[a]] + 1 = a
        BY <1>2, <1>5 DEF Embeds
      <3>2. q[h[a]] = s[a] /\ f[h[a]] = u2[a]
        BY <1>6, <3>1
      <3> QED BY <2>2, <2>3, <3>1, <3>2
    <2>5. InBox(b, s)
      BY <1>1, <2>4 DEF InBox
    <2>6. Row(n, c, f) /\ Row(n, b, u2)
      <3>1. n \in Nat /\ (\A i \in 1..n : c[i] \in Int) /\ \A i \in 1..n : b[i] \in Int
        BY <1>2, <2>3, <2>4
      <3>2. Row(n, c, f)
        BY ONLY <1>7, <3>1, RowOf
      <3>3. Row(n, b, u2)
        BY ONLY <1>7, <3>1, RowOf
      <3> QED BY <3>2, <3>3
    <2>7. \A a \in 1..n : b[a] * u2[a] = c[h[a]] * f[h[a]]
      BY <2>2, <2>4
    <2>8. \A i \in 1..n : (\A a \in 1..n : h[a] # i) => c[i] * f[i] = 0
      BY <1>5
    <2>9. Dot(c, f) = Dot(b, u2)
      BY ONLY <1>5, <2>6, <2>7, <2>8, DotReorder
    <2>10. Dot(c, f) \in Int
      BY ONLY <2>6, DotInt
    <2> QED BY <2>1, <2>5, <2>9, <2>10
  <1>19. Gathering(u, t, l, mem, 0, from, S)
    BY <1>1, <1>6, <1>10, <1>16, <1>17, <1>18 DEF Gathering
  <1>20. Gathers(m, u.shape, mem, 0, from)
    BY <1>12, <1>17
  <1>21. Loaded(u, force_layout_contiguous(u.shape), m)
    BY ONLY <1>19, <1>20, GatheredLoaded
  <1> QED BY <1>10, <1>14, <1>17, <1>21

(* What execute_reshape() makes of a shape with a -1.                      *)
Known(tshape) == [i \in DOMAIN tshape |-> IF tshape[i] < 0 THEN 1 ELSE tshape[i]]
DeducedDims(dims, tshape) ==
    LET left[i \in 0..Len(tshape)] ==
            IF i = 0 THEN NumElems(dims)
            ELSE IF tshape[i] > 0 THEN left[i - 1] \div tshape[i] ELSE left[i - 1]
    IN  [i \in DOMAIN tshape |-> IF tshape[i] > 0 THEN tshape[i] ELSE left[Len(tshape)]]

Extents(tshape, n) == n \in Nat \ {0} /\ tshape \in Seq(Int) /\ Len(tshape) = n /\ \A i \in DOMAIN tshape : tshape[i] # 0

(* The divisions of left, one by one, are the division by the product.     *)
Leaves(f, N, x, n) ==
    /\ n = Len(x) /\ IsShape(x) /\ N \in Int
    /\ f \in [0..n -> Int] /\ f[0] = N /\ \A i \in 1..n : f[i] = f[i - 1] \div x[i]
LEMMA LeftOver ==
    ASSUME NEW f, NEW N, NEW x, NEW n, Leaves(f, N, x, n)
    PROVE  f[n] = N \div NumElems(x)
  <1>1. /\ n = Len(x) /\ IsShape(x) /\ N \in Int
        /\ f \in [0..n -> Int] /\ f[0] = N /\ \A i \in 1..n : f[i] = f[i - 1] \div x[i]
    BY DEF Leaves
  <1>2. n \in Nat \ {0} /\ x \in [1..n -> Nat \ {0}]
    BY <1>1, ShapeTyped
  <1>3. PICK g : g = [i \in 0..n |-> IF i = 0 THEN NumElems(x) ELSE RowMajor(x)[i]]
    OBVIOUS
  <1>4. Products(g, x, n)
    BY <1>1, <1>2, <1>3 DEF Products
  <1>5. /\ g \in [0..n -> Nat \ {0}] /\ g[n] = 1 /\ g[0] = NumElems(x)
        /\ \A i \in 1..n : g[i - 1] = x[i] * g[i] /\ g[i] = RowMajor(x)[i]
    BY ONLY <1>1, <1>4, ProductSteps, SMTT(20)
  <1> DEFINE S == {k \in 0..n : f[k] \div g[k] = N \div g[0]}
  <1>6. 0 \in S
    BY <1>1, <1>2
  <1>7. ASSUME NEW k \in 0..n - 1, k \in S PROVE k + 1 \in S
    <2>1. PICK i : i = k + 1
      OBVIOUS
    <2>2. i \in 1..n /\ i - 1 = k /\ k \in 0..n
      BY <1>2, <2>1
    <2>3. f[i] = f[k] \div x[i] /\ g[k] = x[i] * g[i]
      BY <1>1, <1>5, <2>2
    <2>4. f[k] \in Int /\ x[i] \in Nat \ {0} /\ g[i] \in Nat \ {0}
      <3>1. i \in 0..n
        BY <1>2, <2>2
      <3>2. f[k] \in Int
        BY ONLY <1>1, <2>2
      <3>3. x[i] \in Nat \ {0}
        BY ONLY <1>2, <2>2
      <3>4. g[i] \in Nat \ {0}
        BY ONLY <1>5, <3>1
      <3> QED BY <3>2, <3>3, <3>4
    <2>5. PICK y, a, b : y = f[k] /\ a = g[i] /\ b = x[i]
      OBVIOUS
    <2>6. Factors(y, a, b)
      BY <2>4, <2>5 DEF Factors
    <2>7. y \div (a * b) = (y \div b) \div a
      BY ONLY <2>6, DividedTwice
    <2>8. a * b = b * a
      <3>1. a \in Int /\ b \in Int
        BY <2>4, <2>5
      <3> QED BY ONLY <3>1, Times
    <2>9. f[k] \div g[k] = f[i] \div g[i]
      BY <2>3, <2>5, <2>7, <2>8
    <2>10. f[k] \div g[k] = N \div g[0]
      BY <1>7
    <2>11. i \in 0..n
      BY <1>2, <2>2
    <2> QED BY <2>1, <2>9, <2>10, <2>11
  <1>8. n \in S
    <2> HIDE DEF S
    <2>1. PICK m : m = n
      OBVIOUS
    <2>2. m \in Nat /\ 0 \in S /\ \A k \in 0..m - 1 : k \in S => k + 1 \in S
      BY <1>2, <1>6, <1>7, <2>1
    <2>3. \A k \in 0..m : k \in S
      BY ONLY <2>2, Upward
    <2> QED BY <1>2, <2>1, <2>3
  <1>9. f[n] \div g[n] = N \div g[0] /\ f[n] \in Int
    BY <1>1, <1>2, <1>8
  <1>10. f[n] \div 1 = f[n]
    BY <1>9
  <1> QED BY <1>5, <1>9, <1>10

LEMMA Deduced ==
    ASSUME NEW dims, NEW tshape, NEW n, Extents(tshape, n), IsShape(dims)
    PROVE  DeducedDims(dims, tshape) = ResolvedShape(NumElems(dims), tshape)
  <1>1. n \in Nat \ {0} /\ Len(tshape) = n /\ DOMAIN tshape = 1..n /\ \A i \in 1..n : tshape[i] \in Int /\ tshape[i] # 0
    BY LenProperties DEF Extents
  <1>2. PICK N : N = NumElems(dims) /\ N \in Int
    BY NumElemsTyped
  <1>3. PICK x : x = Known(tshape)
    OBVIOUS
  <1>4. x = [i \in 1..n |-> IF tshape[i] < 0 THEN 1 ELSE tshape[i]]
    BY <1>1, <1>3 DEF Known
  <1>5. x \in [1..n -> Nat \ {0}]
    BY <1>1, <1>4
  <1>6. IsShape(x) /\ Len(x) = n
    BY <1>1, <1>5, FunctionShape
  <1> DEFINE G == [k \in 1..n |-> [v \in Int |-> v \div x[k]]]
             R == CHOOSE f : f = [i \in 0..Len(tshape) |->
                      IF i = 0 THEN NumElems(dims)
                      ELSE IF tshape[i] > 0 THEN f[i - 1] \div tshape[i] ELSE f[i - 1]]
  <1>7. ASSUME NEW k \in 1..n, NEW v \in Int PROVE v \div x[k] \in Int
    BY <1>5, Divided
  <1>8. Rounds(n, Int, N, G)
    BY <1>1, <1>2, <1>7 DEF Rounds
  <1>9. PICK f : f \in [0..n -> Int] /\ f[0] = N /\ \A k \in 1..n : f[k] = G[k][f[k - 1]]
    <2> HIDE DEF G
    <2> QED BY ONLY <1>8, LoopUp
  <1>10. \A k \in 1..n : f[k - 1] \in Int /\ f[k] = f[k - 1] \div x[k]
    <2>1. ASSUME NEW k \in 1..n PROVE f[k - 1] \in Int
      BY <1>1, <1>9
    <2> QED BY <1>9, <2>1
  <1>11. \A k \in 1..n : f[k] = IF tshape[k] > 0 THEN f[k - 1] \div tshape[k] ELSE f[k - 1]
    <2>1. ASSUME NEW k \in 1..n PROVE f[k] = IF tshape[k] > 0 THEN f[k - 1] \div tshape[k] ELSE f[k - 1]
      <3>1. CASE tshape[k] > 0
        BY <1>1, <1>4, <1>10, <3>1
      <3>2. CASE ~(tshape[k] > 0)
        <4>1. x[k] = 1
          BY <1>1, <1>4, <3>2
        <4>2. f[k - 1] \div 1 = f[k - 1]
          BY <1>10
        <4> QED BY <1>10, <3>2, <4>1, <4>2
      <3> QED BY <3>1, <3>2
    <2> QED BY <2>1
  <1>12. f = [i \in 0..Len(tshape) |->
                 IF i = 0 THEN NumElems(dims)
                 ELSE IF tshape[i] > 0 THEN f[i - 1] \div tshape[i] ELSE f[i - 1]]
    <2> HIDE DEF G
    <2> QED BY <1>1, <1>2, <1>9, <1>11
  <1>13. R = [i \in 0..Len(tshape) |->
                 IF i = 0 THEN NumElems(dims)
                 ELSE IF tshape[i] > 0 THEN R[i - 1] \div tshape[i] ELSE R[i - 1]]
    BY <1>12, Zenon
  <1>14. DeducedDims(dims, tshape) = [i \in DOMAIN tshape |-> IF tshape[i] > 0 THEN tshape[i] ELSE R[Len(tshape)]]
    BY DEF DeducedDims
  <1> HIDE DEF R
  <1>15. R[n] = N \div NumElems(x)
    <2> DEFINE T == {k \in 0..n : R[k] = f[k]}
    <2>1. 0 \in T
      BY <1>1, <1>2, <1>9, <1>13
    <2>2. ASSUME NEW k \in 0..n - 1, k \in T PROVE k + 1 \in T
      <3>1. PICK i : i = k + 1 /\ i \in 1..n /\ i - 1 = k /\ i \in 0..n /\ i # 0
        BY <1>1
      <3>2. R[i] = IF tshape[i] > 0 THEN R[i - 1] \div tshape[i] ELSE R[i - 1]
        BY <1>1, <1>13, <3>1
      <3>3. f[i] = IF tshape[i] > 0 THEN f[i - 1] \div tshape[i] ELSE f[i - 1]
        BY <1>11, <3>1
      <3>4. R[k] = f[k]
        BY <2>2
      <3> QED BY <3>1, <3>2, <3>3, <3>4
    <2>3. \A k \in 0..n : k \in T
      <3> HIDE DEF T
      <3>1. n \in Nat /\ 0 \in T /\ \A k \in 0..n - 1 : k \in T => k + 1 \in T
        BY <1>1, <2>1, <2>2
      <3> QED BY ONLY <3>1, Upward
    <2>4. R[n] = f[n]
      BY <1>1, <2>3
    <2>5. Leaves(f, N, x, n)
      BY <1>2, <1>6, <1>9, <1>10 DEF Leaves
    <2>6. f[n] = N \div NumElems(x)
      BY ONLY <2>5, LeftOver
    <2> QED BY <2>4, <2>6
  <1>16. ResolvedShape(N, tshape) = [i \in DOMAIN tshape |-> IF tshape[i] < 0 THEN N \div NumElems(x) ELSE tshape[i]]
    BY <1>3 DEF ResolvedShape, Known
  <1>17. \A i \in 1..n : (tshape[i] > 0 <=> ~(tshape[i] < 0))
    BY <1>1
  <1> QED BY <1>1, <1>2, <1>14, <1>15, <1>16, <1>17

LEMMA ReshapeLoaded ==
    ASSUME NEW t, NEW l, NEW mem, Loaded(t, l, mem), Dense(l), NEW tshape, NEW n, Extents(tshape, n),
           NEW r, NewForm(t, tshape, r)
    PROVE  /\ Loaded(ReShape(t, tshape), force_layout_contiguous(r), mem) /\ DeducedDims(l.dims, tshape) = r
           /\ Places(r) = Places(t.shape) /\ Places(r) \subseteq DOMAIN mem
  <1>1. PICK s : s = t.shape /\ s = l.dims /\ IsShape(s) /\ TensorOf(t) /\ Runs(l)
    BY DEF Loaded, Runs
  <1>2. PICK u : u = ReShape(t, tshape)
    OBVIOUS
  <1>3. Places(r) = Places(s) /\ TensorOf(u) /\ u.shape = r /\ u.data = t.data
    <2>1. /\ Places(r) = Places(t.shape) /\ TensorOf(ReShape(t, tshape))
          /\ ReShape(t, tshape).shape = r /\ ReShape(t, tshape).data = t.data
      BY ONLY <1>1, NewForm(t, tshape, r), NewFormOf
    <2> QED BY ONLY <1>1, <1>2, <2>1
  <1>4. IsShape(r)
    BY DEF NewForm
  <1>5. ASSUME NEW k \in Places(s) PROVE k \in DOMAIN mem /\ mem[k] = t.data[k]
    <2>1. PICK c : c = Coords(s, k)
      OBVIOUS
    <2>2. k \in Int
      BY <1>1, PlacesTyped
    <2>3. InBox(c, s)
      BY <1>1, <2>1, <2>2, CoordsInBox
    <2>4. Dot(c, l.stride) = Place(s, c)
      <3>1. Runs(l) /\ Dense(l) /\ InBox(c, l.dims)
        BY <1>1, <2>3
      <3>2. Dot(c, l.stride) = Place(l.dims, c)
        BY ONLY <3>1, DenseOrder
      <3> QED BY <1>1, <3>2
    <2>5. Place(s, c) = k
      BY <1>1, <2>1, PlaceOfCoords
    <2> QED BY <1>1, <2>1, <2>4, <2>5 DEF Loaded
  <1>6. PICK x : x = force_layout_contiguous(r)
    OBVIOUS
  <1>7. Runs(x) /\ x.dims = r /\ \A k \in Places(r) : Dot(Coords(r, k), x.stride) = k
    <2>1. /\ Runs(x) /\ x.dims = r /\ x.stride = RowMajor(r) /\ Dense(x)
          /\ \A k \in Places(r) : Dot(Coords(r, k), x.stride) = k
          /\ \A i \in 1..Len(r) : x.stride[i] \in Nat
      BY ONLY <1>4, <1>6, ContiguousRuns
    <2> QED BY ONLY <2>1
  <1>8. Loaded(u, x, mem)
    BY <1>3, <1>5, <1>7 DEF Loaded
  <1>9. DeducedDims(s, tshape) = r
    <2>1. DeducedDims(s, tshape) = ResolvedShape(NumElems(s), tshape)
      BY ONLY <1>1, Extents(tshape, n), Deduced
    <2> QED BY <1>1, <2>1 DEF NewForm
  <1> QED BY <1>1, <1>2, <1>3, <1>5, <1>6, <1>8, <1>9

-----------------------------------------------------------------------------
(* update_layout(), one description and then all.                          *)

(* Descriptions for an instruction: no number counts from the end.         *)
Forth(descs, s) ==
    IsShape(s) /\ \A d \in descs : d.axis \in 0..Len(s) - 1 /\ IsDesc(d, s[d.axis + 1], 0, Nat \ {0})

LEMMA ForthFits ==
    ASSUME NEW descs, NEW s, Forth(descs, s)
    PROVE  Fits(descs, s)
  <1>1. PICK n \in Nat \ {0} : n = Len(s)
    BY ShapeTyped DEF Forth
  <1>2. s \in [1..n -> Nat \ {0}]
    BY <1>1, ShapeTyped DEF Forth
  <1>3. ASSUME NEW d \in descs PROVE d.axis \in 0..n - 1 /\ Fit(d, s[d.axis + 1])
    <2>1. d.axis \in 0..n - 1 /\ IsDesc(d, s[d.axis + 1], 0, Nat \ {0})
      BY <1>1 DEF Forth
    <2>2. PICK x : x = s[d.axis + 1]
      OBVIOUS
    <2>3. x \in Nat \ {0}
      BY <1>2, <2>1, <2>2
    <2>4. IsDesc(d, x, -x, Int \ {0})
      BY <2>1, <2>2, <2>3 DEF IsDesc
    <2> QED BY <2>1, <2>2, <2>3, <2>4 DEF Fit
  <1> QED BY <1>1, <1>3 DEF Fits, Forth

(* What select() takes of an axis of n.                                    *)
Runtime(d, n, f, p, e) ==
    /\ n \in Nat \ {0} /\ IsDesc(d, n, 0, Nat \ {0}) /\ Takes(d, n, f, p, e)
    /\ d.index = Missing => begin_of(d, n) < end_of(d, n)

LEMMA SelectTakes ==
    ASSUME NEW d, NEW n, NEW f, NEW p, NEW e, Runtime(d, n, f, p, e)
    PROVE  IF d.index # Missing THEN d.index = f /\ p = 1 /\ e = 1 /\ index_of(d) # -1
           ELSE /\ range_start(d) = f /\ d.step = p /\ p \in Nat \ {0} /\ index_of(d) = -1
                /\ quotient(range_end(d, n) - f + p - 1, p) = e
  <1>1. /\ n \in Nat \ {0} /\ d.step \in Nat \ {0} /\ d.index \in {Missing} \cup 0..n - 1
        /\ d.begin \in {Missing} \cup 0..n - 1 /\ d.end \in {Missing} \cup 0..n
    BY DEF Runtime, IsDesc
  <1>2. f = First(d, n) /\ p = Step(d) /\ e = Extent(d, n)
    BY DEF Runtime, Takes
  <1>3. CASE d.index # Missing
    <2>1. d.index \in 0..n - 1 /\ index_of(d) = d.index /\ index_of(d) # -1
      BY <1>1, <1>3 DEF index_of
    <2>2. First(d, n) = d.index /\ Step(d) = 1
      BY <2>1 DEF First, Step
    <2>3. Extent(d, n) = (Abs((d.index + 1) - d.index) + Abs(1) - 1) \div Abs(1)
      BY <2>1, <2>2 DEF Extent
    <2>4. (d.index + 1) - d.index = 1 /\ Abs(1) = 1
      BY <2>1 DEF Abs
    <2>5. (1 + 1 - 1) \div 1 = 1
      OBVIOUS
    <2>6. Extent(d, n) = 1
      BY ONLY <2>3, <2>4, <2>5
    <2> QED BY <1>2, <1>3, <2>1, <2>2, <2>6
  <1>4. CASE d.index = Missing
    <2>1. index_of(d) = -1
      BY <1>4 DEF index_of
    <2>2. Step(d) = d.step /\ First(d, n) = begin_of(d, n)
      BY <2>1 DEF Step, First
    <2>3. begin_of(d, n) = range_start(d) /\ range_start(d) \in Nat
      <3>1. CASE d.begin = Missing
        BY <1>1, <1>4, <3>1 DEF begin_of, range_start
      <3>2. CASE d.begin # Missing
        <4>1. d.begin \in 0..n - 1
          BY <1>1, <3>2
        <4>2. FromEnd(d.begin, n) = d.begin
          BY <4>1 DEF FromEnd
        <4> QED BY <3>2, <4>1, <4>2 DEF begin_of, range_start
      <3> QED BY <3>1, <3>2
    <2>4. end_of(d, n) = range_end(d, n) /\ range_end(d, n) \in Nat
      <3>1. CASE d.end = Missing
        <4>1. end_of(d, n) = n
          BY <1>1, <1>4, <3>1 DEF end_of
        <4>2. range_end(d, n) = (-1) + n + 1
          BY <3>1 DEF range_end
        <4> QED BY <1>1, <4>1, <4>2
      <3>2. CASE d.end # Missing
        <4>1. d.end \in 0..n
          BY <1>1, <3>2
        <4>2. FromEnd(d.end, n) = d.end
          BY <4>1 DEF FromEnd
        <4>3. end_of(d, n) = d.end
          BY <3>2, <4>2 DEF end_of
        <4>4. range_end(d, n) = d.end
          BY <3>2, <4>1 DEF range_end
        <4> QED BY <4>1, <4>3, <4>4
      <3> QED BY <3>1, <3>2
    <2>5. Extent(d, n) = (Abs(end_of(d, n) - First(d, n)) + Abs(Step(d)) - 1) \div Abs(Step(d))
      BY <2>1 DEF Extent
    <2>6. begin_of(d, n) < end_of(d, n)
      BY <1>4 DEF Runtime
    <2>7. PICK a, b, c : a = range_start(d) /\ b = range_end(d, n) /\ c = d.step
      OBVIOUS
    <2>8. a \in Nat /\ b \in Nat /\ a < b /\ c \in Nat \ {0}
      BY <1>1, <2>3, <2>4, <2>6, <2>7
    <2>9. Abs(b - a) = b - a /\ Abs(c) = c
      BY <2>8 DEF Abs
    <2>10. f = a /\ p = c /\ e = (Abs(b - a) + Abs(c) - 1) \div Abs(c)
      BY ONLY <1>2, <2>2, <2>3, <2>4, <2>5, <2>7
    <2>11. e = (b - a + c - 1) \div c
      BY ONLY <2>9, <2>10
    <2>12. quotient(b - a + c - 1, c) = (b - a + c - 1) \div c
      <3>1. ~(b - a + c - 1 < 0)
        BY ONLY <2>8
      <3> QED BY ONLY <3>1 DEF quotient
    <2> QED BY ONLY <1>4, <2>1, <2>7, <2>8, <2>10, <2>11, <2>12
  <1> QED BY <1>3, <1>4

(* select(), in terms of what it takes.                                    *)
Stage(D, T, o, x) == [in |-> [dims |-> D, stride |-> T], out |-> o, offset |-> x]

SelectMoves(r, D, T, o, x, d, f, p, e) ==
    LET i == d.axis + 1
    IN  r = IF d.index # Missing
            THEN Stage([D EXCEPT ![i] = e], T, remove_axis(o, i), x + T[i] * f)
            ELSE Stage([D EXCEPT ![i] = e], [T EXCEPT ![i] = @ * p], [o EXCEPT ![i] = e], x + T[i] * f)

LEMMA SelectIs ==
    ASSUME NEW D, NEW T, NEW o, NEW x, NEW d, NEW i, i = d.axis + 1, NEW f, NEW p, NEW e,
           Runtime(d, D[i], f, p, e)
    PROVE  SelectMoves(select(Stage(D, T, o, x), d), D, T, o, x, d, f, p, e)
  <1>1. IF d.index # Missing THEN d.index = f /\ p = 1 /\ e = 1 /\ index_of(d) # -1
        ELSE /\ range_start(d) = f /\ d.step = p /\ p \in Nat \ {0} /\ index_of(d) = -1
             /\ quotient(range_end(d, D[i]) - f + p - 1, p) = e
    <2>1. PICK n : n = D[i]
      OBVIOUS
    <2>2. Runtime(d, n, f, p, e)
      BY <2>1
    <2>3. IF d.index # Missing THEN d.index = f /\ p = 1 /\ e = 1 /\ index_of(d) # -1
          ELSE /\ range_start(d) = f /\ d.step = p /\ p \in Nat \ {0} /\ index_of(d) = -1
               /\ quotient(range_end(d, n) - f + p - 1, p) = e
      BY ONLY <2>2, SelectTakes
    <2> QED BY <2>1, <2>3
  <1>2. PICK l : l = Stage(D, T, o, x)
    OBVIOUS
  <1>3. l.in = [dims |-> D, stride |-> T] /\ l.in.dims = D /\ l.in.stride = T /\ l.out = o /\ l.offset = x
    BY <1>2 DEF Stage
  <1>4. CASE d.index # Missing
    <2>1. select(l, d) = [in |-> [l.in EXCEPT !.dims[i] = 1], out |-> remove_axis(l.out, i),
                          offset |-> l.offset + l.in.stride[i] * d.index]
      BY <1>4 DEF select
    <2>2. [l.in EXCEPT !.dims[i] = 1] = [dims |-> [D EXCEPT ![i] = 1], stride |-> T]
      BY <1>3
    <2> QED BY <1>1, <1>2, <1>3, <1>4, <2>1, <2>2 DEF Stage, SelectMoves
  <1>5. CASE d.index = Missing
    <2>1. ~(d.step < 0) /\ (IF d.step < 0 THEN -d.step ELSE d.step) = d.step
      BY <1>1, <1>5
    <2> DEFINE first == IF d.step < 0 /\ d.begin = Missing THEN l.in.dims[i] ELSE range_start(d)
               step_abs == IF d.step < 0 THEN -d.step ELSE d.step
               extent == quotient(range_end(d, l.in.dims[i]) - first + step_abs - 1, step_abs)
    <2>2. select(l, d) = [in |-> [l.in EXCEPT !.dims[i] = extent, !.stride[i] = @ * d.step],
                          out |-> [l.out EXCEPT ![i] = extent],
                          offset |-> l.offset + l.in.stride[i] * first]
      BY <1>5 DEF select
    <2>3. first = f
      BY <1>1, <1>5, <2>1
    <2>4. step_abs = p
      BY <1>1, <1>5, <2>1
    <2>5. extent = e
      BY <1>1, <1>3, <1>5, <2>3, <2>4
    <2> HIDE DEF first, step_abs, extent
    <2>6. [l.in EXCEPT !.dims[i] = e, !.stride[i] = @ * p]
              = [dims |-> [D EXCEPT ![i] = e], stride |-> [T EXCEPT ![i] = @ * p]]
      <3>1. PICK r : r = l.in
        OBVIOUS
      <3>2. r = [dims |-> D, stride |-> T]
        BY <1>3, <3>1
      <3>3. r.dims = D /\ r.stride = T
        BY <3>2
      <3>4. PICK a, b : a = [D EXCEPT ![i] = e] /\ b = [T EXCEPT ![i] = @ * p]
        OBVIOUS
      <3>5. PICK m : m = [r EXCEPT !.dims[i] = e]
        OBVIOUS
      <3>6. m = [dims |-> a, stride |-> T]
        BY <3>2, <3>3, <3>4, <3>5
      <3>7. m.dims = a /\ m.stride = T
        BY <3>6
      <3>8. [m EXCEPT !.stride[i] = @ * p] = [dims |-> a, stride |-> b]
        BY <3>4, <3>6, <3>7
      <3>9. [r EXCEPT !.dims[i] = e, !.stride[i] = @ * p] = [m EXCEPT !.stride[i] = @ * p]
        BY <3>2, <3>3, <3>5, <3>7
      <3>10. [r EXCEPT !.dims[i] = e, !.stride[i] = @ * p] = [dims |-> a, stride |-> b]
        BY ONLY <3>8, <3>9
      <3> QED BY ONLY <3>1, <3>4, <3>10
    <2>7. d.step = p
      BY <1>1, <1>5
    <2> QED BY <1>2, <1>3, <1>5, <2>2, <2>3, <2>5, <2>6, <2>7 DEF Stage, SelectMoves
  <1> QED BY <1>2, <1>4, <1>5 DEF SelectMoves

(* One entry changes of what is packed.                                    *)
Changing(y, x, q, r, T, S, i, e, n) ==
    /\ AxesOf(T, n) /\ i \in 1..n /\ 1..i \subseteq T /\ e \in S /\ Packed(x, q, T, S)
    /\ y = [x EXCEPT ![i] = e] /\ r[i] = e /\ \A j \in 1..n : j # i => r[j] = q[j]

LEMMA PackedChange ==
    ASSUME NEW y, NEW x, NEW q, NEW r, NEW T, NEW S, NEW i, NEW e, NEW n, Changing(y, x, q, r, T, S, i, e, n)
    PROVE  Packed(y, r, T, S)
  <1>1. PICK m : m = Cardinality(T)
    OBVIOUS
  <1>2. x \in [1..m -> S] /\ \A j \in T : x[Rank(T, j)] = q[j]
    BY <1>1 DEF Changing, Packed
  <1>3. n \in Nat /\ T \subseteq 1..n /\ i \in 1..n /\ e \in S /\ 1..i \subseteq T
    BY DEF Changing, AxesOf
  <1>4. i \in T /\ i \in Nat
    BY <1>3
  <1>5. Rank(T, i) = i
    <2>1. PICK a : a = i
      OBVIOUS
    <2>2. a \in Nat /\ 1..a \subseteq T /\ T \subseteq Nat \ {0}
      BY <1>3, <1>4, <2>1
    <2>3. Rank(T, a) = a
      BY ONLY <2>2, RankPrefix
    <2> QED BY <2>1, <2>3
  <1>6. (\A j \in T : Rank(T, j) \in 1..m) /\ \A j, k \in T : Rank(T, j) = Rank(T, k) => j = k
    <2>1. AxesOf(T, n)
      BY DEF Changing
    <2>2. /\ \A j \in T : Rank(T, j) \in 1..Cardinality(T)
          /\ \A j, k \in T : Rank(T, j) = Rank(T, k) => j = k
      BY <2>1, Ranks
    <2> QED BY <1>1, <2>2
  <1>7. y = [x EXCEPT ![i] = e] /\ r[i] = e /\ \A j \in 1..n : j # i => r[j] = q[j]
    BY DEF Changing
  <1>8. y \in [1..m -> S]
    BY <1>2, <1>3, <1>7
  <1>9. ASSUME NEW j \in T PROVE y[Rank(T, j)] = r[j]
    <2>1. PICK a : a = Rank(T, j) /\ a \in 1..m
      BY <1>6
    <2>2. CASE j = i
      BY <1>2, <1>5, <1>7, <2>1, <2>2
    <2>3. CASE j # i
      <3>1. a # i
        BY <1>4, <1>5, <1>6, <2>1, <2>3
      <3>2. y[a] = x[a]
        BY <1>2, <1>7, <2>1, <3>1
      <3>3. x[a] = q[j]
        BY <1>2, <2>1
      <3>4. r[j] = q[j]
        BY <1>3, <1>7, <2>3
      <3> QED BY <2>1, <3>2, <3>3, <3>4
    <2> QED BY <2>2, <2>3
  <1> QED BY <1>1, <1>8, <1>9 DEF Packed

(* What update_layout() has made once the axes after k are selected.       *)
Before(f, k, n) == [j \in 1..n |-> IF j > k THEN f[j] ELSE 0]
Done(D, T, o, x, s, t, K, k, F, P, E) ==
    LET n == Len(s)
    IN  /\ D \in [1..n -> Nat \ {0}] /\ T \in [1..n -> Int]
        /\ \A j \in 1..n : D[j] = (IF j > k THEN E[j] ELSE s[j]) /\ T[j] = (IF j > k THEN t[j] * P[j] ELSE t[j])
        /\ Packed(o, D, Left(K, k, n), Nat \ {0})
        /\ x = Dot(Before(F, k, n), t)
UpdatedFrom(m, s, t, K, k, F, P, E) ==
    \E D, T, o, x : m = Stage(D, T, o, x) /\ Done(D, T, o, x, s, t, K, k, F, P, E)
Updating(s, t, descs, K, F, P, E) ==
    /\ IsShape(s) /\ t \in [1..Len(s) -> Int] /\ Slices(F, P, E, s, descs) /\ K = Stays(descs, Len(s))
    /\ \A i \in 1..Len(s) : Described(descs, i) =>
           Runtime(DescOf(descs, i), s[i], F[i], P[i], E[i]) /\ DescOf(descs, i).axis + 1 = i

LEMMA OffsetStep ==
    ASSUME NEW F, NEW t, NEW n, n \in Nat, t \in [1..n -> Int], \A j \in 1..n : F[j] \in Int, NEW i, i \in 1..n
    PROVE  Dot(Before(F, i - 1, n), t) = Dot(Before(F, i, n), t) + t[i] * F[i]
  <1>1. PICK c, d, x : c = Before(F, i, n) /\ d = Before(F, i - 1, n) /\ x = t[i] * F[i]
    OBVIOUS
  <1>2. i \in Int /\ \A j \in 1..n : /\ c[j] = (IF j > i THEN F[j] ELSE 0)
                                     /\ d[j] = (IF j > i - 1 THEN F[j] ELSE 0)
    BY <1>1 DEF Before
  <1>3. Len(t) = n
    BY FunctionSeq
  <1>4. \A j \in 1..n : c[j] \in Int /\ d[j] \in Int /\ t[j] \in Int
    BY <1>2
  <1>5. Row(n, c, t) /\ Row(n, d, t)
    BY <1>3, <1>4 DEF Row
  <1>6. Bumped(n, c, t, d, t, i, x)
    <2>1. x \in Int
      <3>1. PICK a, b : a = t[i] /\ b = F[i] /\ a \in Int /\ b \in Int
        OBVIOUS
      <3>2. a * b \in Int
        BY <3>1, Times
      <3> QED BY <1>1, <3>1, <3>2
    <2>2. ASSUME NEW j \in 1..n PROVE d[j] * t[j] = IF j = i THEN c[j] * t[j] + x ELSE c[j] * t[j]
      <3>1. CASE j = i
        <4>1. c[i] = 0 /\ d[i] = F[i]
          BY <1>2
        <4>2. PICK a, b : a = t[i] /\ b = F[i] /\ a \in Int /\ b \in Int
          OBVIOUS
        <4>3. 0 * a = 0 /\ b * a = a * b
          BY <4>2, Times
        <4>4. c[i] * t[i] = 0 /\ d[i] * t[i] = x
          BY <1>1, <4>1, <4>2, <4>3
        <4>5. x = 0 + x
          BY <2>1
        <4> QED BY <3>1, <4>4, <4>5
      <3>2. CASE j # i
        <4>1. c[j] = d[j]
          BY <1>2, <3>2
        <4> QED BY <3>2, <4>1
      <3> QED BY <3>1, <3>2
    <2> QED BY <2>1, <2>2 DEF Bumped
  <1>7. Dot(d, t) = Dot(c, t) + x
    BY ONLY <1>5, <1>6, DotPoint
  <1> QED BY <1>1, <1>7

(* One axis more: unless it is removed, and when it is.                    *)
Narrows(D2, T2, D, T, s, t, i, F, P, E) ==
    /\ D2 = [D EXCEPT ![i] = E[i]] /\ T2 \in [1..Len(s) -> Int]
    /\ \A j \in 1..Len(s) : T2[j] = IF j = i THEN T[j] * P[j] ELSE T[j]

LEMMA ExtentsStep ==
    ASSUME NEW D, NEW T, NEW o, NEW x, NEW s, NEW t, NEW K, NEW F, NEW P, NEW E, NEW i, i \in 1..Len(s),
           Len(s) \in Nat, Done(D, T, o, x, s, t, K, i, F, P, E), \A j \in 1..Len(s) : E[j] \in Nat \ {0},
           NEW D2, NEW T2, Narrows(D2, T2, D, T, s, t, i, F, P, E)
    PROVE  /\ D2 \in [1..Len(s) -> Nat \ {0}] /\ D2[i] = E[i] /\ T[i] = t[i] /\ D[i] = s[i]
           /\ \A j \in 1..Len(s) : /\ j # i => D2[j] = D[j]
                                   /\ D2[j] = (IF j > i - 1 THEN E[j] ELSE s[j])
                                   /\ T2[j] = (IF j > i - 1 THEN t[j] * P[j] ELSE t[j])
  <1>1. PICK n \in Nat : n = Len(s)
    OBVIOUS
  <1>2. /\ D \in [1..n -> Nat \ {0}] /\ T \in [1..n -> Int]
        /\ \A j \in 1..n : D[j] = (IF j > i THEN E[j] ELSE s[j]) /\ T[j] = (IF j > i THEN t[j] * P[j] ELSE t[j])
    BY <1>1 DEF Done
  <1>3. i \in Int /\ i \in 1..n
    BY <1>1
  <1>4. D2 = [D EXCEPT ![i] = E[i]] /\ \A j \in 1..n : T2[j] = IF j = i THEN T[j] * P[j] ELSE T[j]
    BY <1>1 DEF Narrows
  <1>5. D2 \in [1..n -> Nat \ {0}] /\ D2[i] = E[i]
    BY <1>1, <1>2, <1>4
  <1>6. \A j \in 1..n : j # i => D2[j] = D[j]
    BY <1>2, <1>4
  <1>7. T[i] = t[i] /\ D[i] = s[i]
    BY <1>2, <1>3
  <1>8. ASSUME NEW j \in 1..n
        PROVE  /\ D2[j] = (IF j > i - 1 THEN E[j] ELSE s[j])
               /\ T2[j] = (IF j > i - 1 THEN t[j] * P[j] ELSE t[j])
    <2>1. CASE j = i
      BY <1>3, <1>4, <1>5, <1>7, <2>1
    <2>2. CASE j # i
      <3>1. j > i <=> j > i - 1
        BY <1>3, <2>2
      <3> QED BY <1>2, <1>4, <1>6, <2>2, <3>1
    <2> QED BY <2>1, <2>2
  <1> QED BY <1>1, <1>5, <1>6, <1>7, <1>8

Extended(o2, o, i, E) == o2 = [o EXCEPT ![i] = E[i]]

LEMMA UpdatedKeeping ==
    ASSUME NEW D, NEW T, NEW o, NEW x, NEW s, NEW t, NEW descs, NEW K, NEW F, NEW P, NEW E,
           Updating(s, t, descs, K, F, P, E), NEW i, i \in 1..Len(s), i \in K, Done(D, T, o, x, s, t, K, i, F, P, E),
           NEW D2, NEW T2, Narrows(D2, T2, D, T, s, t, i, F, P, E), NEW o2, Extended(o2, o, i, E),
           NEW x2, x2 = x + T[i] * F[i]
    PROVE  Done(D2, T2, o2, x2, s, t, K, i - 1, F, P, E)
  <1>1. PICK n \in Nat \ {0} : n = Len(s)
    BY ShapeTyped DEF Updating
  <1>2. AxesOf(K, n)
    BY <1>1 DEF Updating, Stays, AxesOf
  <1>3. \A j \in 1..n : E[j] \in Nat \ {0} /\ F[j] \in Int
    BY <1>1 DEF Updating, Slices, Ranges
  <1>4. /\ D2 \in [1..Len(s) -> Nat \ {0}] /\ D2[i] = E[i] /\ T[i] = t[i] /\ D[i] = s[i]
        /\ \A j \in 1..Len(s) : /\ j # i => D2[j] = D[j]
                                /\ D2[j] = (IF j > i - 1 THEN E[j] ELSE s[j])
                                /\ T2[j] = (IF j > i - 1 THEN t[j] * P[j] ELSE t[j])
    <2>1. Len(s) \in Nat /\ \A j \in 1..Len(s) : E[j] \in Nat \ {0}
      BY <1>1, <1>3
    <2>2. Done(D, T, o, x, s, t, K, i, F, P, E) /\ Narrows(D2, T2, D, T, s, t, i, F, P, E) /\ i \in 1..Len(s)
      OBVIOUS
    <2> QED BY ONLY <2>1, <2>2, ExtentsStep
  <1>5. PICK L, N : L = Left(K, i, n) /\ N = Nat \ {0}
    OBVIOUS
  <1>6. L = Left(K, i - 1, n) /\ AxesOf(L, n) /\ 1..i \subseteq L
    <2>1. i \in 1..n /\ i \in 0..n
      BY <1>1
    <2> QED BY <1>2, <1>5, <2>1, LeftAxes
  <1>7. Packed(o, D, L, N) /\ x = Dot(Before(F, i, n), t)
    BY <1>1, <1>5 DEF Done
  <1>8. Packed(o2, D2, L, N)
    <2>1. PICK e : e = E[i]
      OBVIOUS
    <2>2. Changing(o2, o, D, D2, L, N, i, e, n)
      BY <1>1, <1>3, <1>4, <1>5, <1>6, <1>7, <2>1 DEF Changing, Extended
    <2> QED BY ONLY <2>2, PackedChange
  <1>9. x2 = Dot(Before(F, i - 1, n), t)
    <2>1. /\ n \in Nat /\ t \in [1..n -> Int] /\ i \in 1..n /\ \A j \in 1..n : F[j] \in Int
      BY <1>1, <1>3 DEF Updating
    <2>2. Dot(Before(F, i - 1, n), t) = Dot(Before(F, i, n), t) + t[i] * F[i]
      <3>1. PICK a, b : a = n /\ b = i
        OBVIOUS
      <3>2. a \in Nat /\ t \in [1..a -> Int] /\ b \in 1..a /\ \A j \in 1..a : F[j] \in Int
        BY <2>1, <3>1
      <3>3. Dot(Before(F, b - 1, a), t) = Dot(Before(F, b, a), t) + t[b] * F[b]
        BY ONLY <3>2, OffsetStep
      <3> QED BY <3>1, <3>3
    <2> QED BY <1>4, <1>7, <2>2
  <1> QED BY <1>1, <1>4, <1>5, <1>6, <1>8, <1>9 DEF Done, Narrows

LEMMA UpdatedRemoving ==
    ASSUME NEW D, NEW T, NEW o, NEW x, NEW s, NEW t, NEW descs, NEW K, NEW F, NEW P, NEW E,
           Updating(s, t, descs, K, F, P, E), NEW i, i \in 1..Len(s), i \notin K,
           Done(D, T, o, x, s, t, K, i, F, P, E),
           NEW D2, NEW T2, Narrows(D2, T2, D, T, s, t, i, F, P, E), NEW x2, x2 = x + T[i] * F[i]
    PROVE  Done(D2, T2, RemoveAt(o, i), x2, s, t, K, i - 1, F, P, E) /\ Len(o) # 1
  <1>1. PICK n \in Nat \ {0} : n = Len(s)
    BY ShapeTyped DEF Updating
  <1>2. AxesOf(K, n) /\ K # {}
    BY <1>1 DEF Updating, Stays, AxesOf
  <1>3. \A j \in 1..n : E[j] \in Nat \ {0} /\ F[j] \in Int
    BY <1>1 DEF Updating, Slices, Ranges
  <1>4. /\ D2 \in [1..Len(s) -> Nat \ {0}] /\ D2[i] = E[i] /\ T[i] = t[i] /\ D[i] = s[i]
        /\ \A j \in 1..Len(s) : /\ j # i => D2[j] = D[j]
                                /\ D2[j] = (IF j > i - 1 THEN E[j] ELSE s[j])
                                /\ T2[j] = (IF j > i - 1 THEN t[j] * P[j] ELSE t[j])
    <2>1. Len(s) \in Nat /\ \A j \in 1..Len(s) : E[j] \in Nat \ {0}
      BY <1>1, <1>3
    <2>2. Done(D, T, o, x, s, t, K, i, F, P, E) /\ Narrows(D2, T2, D, T, s, t, i, F, P, E) /\ i \in 1..Len(s)
      OBVIOUS
    <2> QED BY ONLY <2>1, <2>2, ExtentsStep
  <1>5. PICK L, N, M : L = Left(K, i, n) /\ N = Nat \ {0} /\ M = Left(K, i - 1, n)
    OBVIOUS
  <1>6. M = L \ {i} /\ AxesOf(L, n)
    <2>1. i \in 1..n /\ i \in 0..n
      BY <1>1
    <2> QED BY <1>2, <1>5, <2>1, LeftAxes
  <1>7. Packed(o, D, L, N) /\ x = Dot(Before(F, i, n), t)
    BY <1>1, <1>5 DEF Done
  <1>8. Packed(RemoveAt(o, i), D, M, N) /\ Cardinality(L) > 1
    <2>1. AxesOf(K, n) /\ K # {} /\ i \in 1..n /\ i \notin K /\ Packed(o, D, Left(K, i, n), N)
      BY <1>1, <1>2, <1>5, <1>7
    <2>2. Packed(RemoveAt(o, i), D, Left(K, i - 1, n), N) /\ Cardinality(Left(K, i, n)) > 1
      BY ONLY <2>1, PackedOnce
    <2> QED BY <1>5, <2>2
  <1>9. Packed(RemoveAt(o, i), D2, M, N)
    <2>1. \A j \in M : D2[j] = D[j]
      BY <1>1, <1>4, <1>6 DEF AxesOf
    <2> QED BY <1>8, <2>1 DEF Packed
  <1>10. Len(o) # 1
    <2>1. PICK m : m = Cardinality(L)
      OBVIOUS
    <2>2. m \in Nat /\ o \in [1..m -> N]
      BY <1>6, <1>7, <2>1, RankSteps DEF Packed, AxesOf
    <2>3. Len(o) = m
      BY <2>2, FunctionSeq
    <2> QED BY <1>8, <2>1, <2>3
  <1>11. x2 = Dot(Before(F, i - 1, n), t)
    <2>1. /\ n \in Nat /\ t \in [1..n -> Int] /\ i \in 1..n /\ \A j \in 1..n : F[j] \in Int
      BY <1>1, <1>3 DEF Updating
    <2>2. Dot(Before(F, i - 1, n), t) = Dot(Before(F, i, n), t) + t[i] * F[i]
      <3>1. PICK a, b : a = n /\ b = i
        OBVIOUS
      <3>2. a \in Nat /\ t \in [1..a -> Int] /\ b \in 1..a /\ \A j \in 1..a : F[j] \in Int
        BY <2>1, <3>1
      <3>3. Dot(Before(F, b - 1, a), t) = Dot(Before(F, b, a), t) + t[b] * F[b]
        BY ONLY <3>2, OffsetStep
      <3> QED BY <3>1, <3>3
    <2> QED BY <1>4, <1>7, <2>2
  <1> QED BY <1>1, <1>4, <1>5, <1>9, <1>10, <1>11 DEF Done, Narrows

Selecting(m, descs, i) == IF Described(descs, i) THEN select(m, DescOf(descs, i)) ELSE m

LEMMA UpdatedOnce ==
    ASSUME NEW s, NEW t, NEW descs, NEW K, NEW F, NEW P, NEW E, Updating(s, t, descs, K, F, P, E),
           NEW i, i \in 1..Len(s), NEW m, UpdatedFrom(m, s, t, K, i, F, P, E)
    PROVE  UpdatedFrom(Selecting(m, descs, i), s, t, K, i - 1, F, P, E)
  <1>1. PICK n \in Nat \ {0} : n = Len(s)
    BY ShapeTyped DEF Updating
  <1>2. K = Stays(descs, n) /\ AxesOf(K, n) /\ t \in [1..n -> Int] /\ s \in [1..n -> Nat \ {0}]
    BY <1>1, ShapeTyped DEF Updating, Stays, AxesOf
  <1>3. \A j \in 1..n : E[j] \in Nat \ {0} /\ F[j] \in Int
    BY <1>1 DEF Updating, Slices, Ranges
  <1>4. PICK D, T, o, x : m = Stage(D, T, o, x) /\ Done(D, T, o, x, s, t, K, i, F, P, E)
    BY DEF UpdatedFrom
  <1>5. i \in 1..n /\ i \in Int
    BY <1>1
  <1>6. /\ D \in [1..n -> Nat \ {0}] /\ T \in [1..n -> Int]
        /\ \A j \in 1..n : D[j] = (IF j > i THEN E[j] ELSE s[j]) /\ T[j] = (IF j > i THEN t[j] * P[j] ELSE t[j])
        /\ Packed(o, D, Left(K, i, n), Nat \ {0}) /\ x = Dot(Before(F, i, n), t)
    BY <1>1, <1>4 DEF Done
  <1>7. T[i] = t[i] /\ D[i] = s[i]
    BY <1>5, <1>6
  <1>8. CASE ~Described(descs, i)
    <2>1. F[i] = 0 /\ P[i] = 1 /\ E[i] = s[i]
      BY <1>1, <1>5, <1>8 DEF Updating, Slices
    <2>2. i \in K
      BY <1>2, <1>5, <1>8 DEF Stays, Indexed
    <2>3. Left(K, i - 1, n) = Left(K, i, n)
      BY <1>2, <1>5, <2>2, LeftAxes
    <2>4. ASSUME NEW j \in 1..n
          PROVE  D[j] = (IF j > i - 1 THEN E[j] ELSE s[j]) /\ T[j] = (IF j > i - 1 THEN t[j] * P[j] ELSE t[j])
      <3>1. CASE j = i
        <4>1. t[i] * 1 = t[i]
          <5>1. PICK a : a = t[i] /\ a \in Int
            BY <1>2, <1>5
          <5>2. a * 1 = a
            BY <5>1, Times
          <5> QED BY <5>1, <5>2
        <4> QED BY <1>5, <1>7, <2>1, <3>1, <4>1
      <3>2. CASE j # i
        <4>1. j > i <=> j > i - 1
          BY <1>5, <3>2
        <4> QED BY <1>6, <4>1
      <3> QED BY <3>1, <3>2
    <2>5. x = Dot(Before(F, i - 1, n), t)
      <3>1. PICK a, b : a = n /\ b = i
        OBVIOUS
      <3>2. a \in Nat /\ t \in [1..a -> Int] /\ b \in 1..a /\ \A j \in 1..a : F[j] \in Int
        BY <1>2, <1>3, <1>5, <3>1
      <3>3. Dot(Before(F, b - 1, a), t) = Dot(Before(F, b, a), t) + t[b] * F[b]
        BY ONLY <3>2, OffsetStep
      <3>4. t[i] * 0 = 0
        <4>1. PICK y : y = t[i] /\ y \in Int
          BY <1>2, <1>5
        <4>2. y * 0 = 0
          BY <4>1, Times
        <4> QED BY <4>1, <4>2
      <3>5. x \in Int
        <4>1. PICK c : c = Before(F, i, n)
          OBVIOUS
        <4>2. \A j \in 1..n : c[j] \in Int
          BY <1>3, <4>1 DEF Before
        <4>3. Row(n, c, t)
          BY <1>2, <4>2, FunctionSeq DEF Row
        <4>4. Dot(c, t) \in Int
          BY ONLY <4>3, DotInt
        <4> QED BY <1>6, <4>1, <4>4
      <3>6. Dot(Before(F, i - 1, n), t) = x + 0
        BY <1>6, <2>1, <3>1, <3>3, <3>4
      <3> QED BY <3>5, <3>6
    <2>6. Done(D, T, o, x, s, t, K, i - 1, F, P, E)
      BY <1>1, <1>6, <2>3, <2>4, <2>5 DEF Done
    <2>7. Selecting(m, descs, i) = m
      BY <1>8 DEF Selecting
    <2> QED BY <1>4, <2>6, <2>7 DEF UpdatedFrom
  <1>9. CASE Described(descs, i)
    <2>1. PICK d : d = DescOf(descs, i)
      OBVIOUS
    <2>2. PICK f, p, e : f = F[i] /\ p = P[i] /\ e = E[i]
      OBVIOUS
    <2>3. d.axis + 1 = i /\ Runtime(d, D[i], f, p, e)
      BY <1>1, <1>5, <1>7, <1>9, <2>1, <2>2 DEF Updating
    <2>4. PICK r : r = Selecting(m, descs, i)
      OBVIOUS
    <2>5. r = select(Stage(D, T, o, x), d)
      BY <1>4, <1>9, <2>1, <2>4 DEF Selecting
    <2>6. SelectMoves(r, D, T, o, x, d, f, p, e)
      <3>1. i = d.axis + 1 /\ Runtime(d, D[i], f, p, e)
        BY <2>3
      <3>2. SelectMoves(select(Stage(D, T, o, x), d), D, T, o, x, d, f, p, e)
        BY ONLY <3>1, SelectIs
      <3> QED BY <2>5, <3>2
    <2>7. PICK D2, x2 : D2 = [D EXCEPT ![i] = e] /\ x2 = x + T[i] * f
      OBVIOUS
    <2>8. IF d.index # Missing THEN p = 1 /\ e = 1 /\ index_of(d) # -1 ELSE index_of(d) = -1
      <3>1. PICK n1 : n1 = D[i]
        OBVIOUS
      <3>2. Runtime(d, n1, f, p, e)
        BY <2>3, <3>1
      <3>3. IF d.index # Missing THEN d.index = f /\ p = 1 /\ e = 1 /\ index_of(d) # -1
            ELSE /\ range_start(d) = f /\ d.step = p /\ p \in Nat \ {0} /\ index_of(d) = -1
                 /\ quotient(range_end(d, n1) - f + p - 1, p) = e
        BY ONLY <3>2, SelectTakes
      <3> QED BY <3>3
    <2>9. CASE d.index = Missing
      <3>1. PICK T2, o2 : T2 = [T EXCEPT ![i] = @ * p] /\ o2 = [o EXCEPT ![i] = e]
        OBVIOUS
      <3>2. r = Stage(D2, T2, o2, x2)
        BY <2>3, <2>6, <2>7, <2>9, <3>1 DEF SelectMoves
      <3>3. i \in K
        BY <1>2, <1>5, <2>1, <2>8, <2>9 DEF Stays, Indexed
      <3>4. Narrows(D2, T2, D, T, s, t, i, F, P, E)
        <4>1. p \in Int
          BY <1>1, <1>5, <2>2 DEF Updating, Slices, Ranges
        <4>2. \A a \in Int : a * p \in Int
          BY <4>1, Times
        <4>3. T2 \in [1..n -> Int]
          BY <1>5, <1>6, <3>1, <4>2
        <4>4. \A j \in 1..n : T2[j] = IF j = i THEN T[j] * P[j] ELSE T[j]
          BY <1>5, <1>6, <2>2, <3>1
        <4> QED BY <1>1, <2>2, <2>7, <4>3, <4>4 DEF Narrows
      <3>5. Extended(o2, o, i, E) /\ x2 = x + T[i] * F[i]
        BY <2>2, <2>7, <3>1 DEF Extended
      <3>6. Done(D2, T2, o2, x2, s, t, K, i - 1, F, P, E)
        BY ONLY <1>4, <3>3, <3>4, <3>5, UpdatedKeeping, Updating(s, t, descs, K, F, P, E), i \in 1..Len(s)
      <3> QED BY <2>4, <3>2, <3>6 DEF UpdatedFrom
    <2>10. CASE d.index # Missing
      <3>1. r = Stage(D2, T, remove_axis(o, i), x2)
        BY <2>3, <2>6, <2>7, <2>10 DEF SelectMoves
      <3>2. Narrows(D2, T, D, T, s, t, i, F, P, E)
        <4>1. p = 1
          BY <2>8, <2>10
        <4>2. T[i] * 1 = T[i]
          <5>1. PICK a : a = T[i] /\ a \in Int
            BY <1>5, <1>6
          <5>2. a * 1 = a
            BY <5>1, Times
          <5> QED BY <5>1, <5>2
        <4>3. \A j \in 1..n : T[j] = IF j = i THEN T[j] * P[j] ELSE T[j]
          BY <2>2, <4>1, <4>2
        <4> QED BY <1>1, <1>6, <2>2, <2>7, <4>3 DEF Narrows
      <3>3. x2 = x + T[i] * F[i]
        BY <2>2, <2>7
      <3>4. Indexed(descs, i)
        BY <1>9, <2>1, <2>8, <2>10 DEF Indexed
      <3>5. CASE i \in K
        <4>1. i = 1 /\ K = {1}
          BY <1>2, <1>5, <3>4, <3>5 DEF Stays
        <4>2. Left(K, i, n) = {1}
          <5>1. \A j : j \in Left(K, i, n) <=> j = 1
            BY <1>5, <4>1 DEF Left
          <5> QED BY ONLY <5>1
        <4>3. Len(o) = 1
          <5>1. Cardinality(Left(K, i, n)) = 1
            BY <4>2, FS_Singleton
          <5>2. PICK N : N = Nat \ {0}
            OBVIOUS
          <5>3. o \in [1..1 -> N]
            BY <1>6, <5>1, <5>2 DEF Packed
          <5> QED BY <5>3, FunctionSeq
        <4>4. PICK o2 : Extended(o2, o, i, E)
          BY DEF Extended
        <4>5. remove_axis(o, i) = o2
          BY <2>2, <2>8, <2>10, <4>3, <4>4 DEF remove_axis, Extended
        <4>6. Done(D2, T, o2, x2, s, t, K, i - 1, F, P, E)
          BY ONLY <1>4, <3>2, <3>3, <3>5, <4>4, UpdatedKeeping, Updating(s, t, descs, K, F, P, E), i \in 1..Len(s)
        <4> QED BY <2>4, <3>1, <4>5, <4>6 DEF UpdatedFrom
      <3>6. CASE i \notin K
        <4>1. Done(D2, T, RemoveAt(o, i), x2, s, t, K, i - 1, F, P, E) /\ Len(o) # 1
          BY ONLY <1>4, <3>2, <3>3, <3>6, UpdatedRemoving, Updating(s, t, descs, K, F, P, E), i \in 1..Len(s)
        <4>2. PICK q : q = RemoveAt(o, i)
          OBVIOUS
        <4>3. remove_axis(o, i) = q
          BY <4>1, <4>2 DEF remove_axis
        <4> QED BY <2>4, <3>1, <4>1, <4>2, <4>3 DEF UpdatedFrom
      <3> QED BY <3>5, <3>6
    <2> QED BY <2>9, <2>10
  <1> QED BY <1>8, <1>9

Stages(n) == [in : [dims : [1..n -> Nat \ {0}], stride : [1..n -> Int]], out : Seq(Nat \ {0}), offset : Int]

LEMMA StageTyped ==
    ASSUME NEW s, NEW t, NEW descs, NEW K, NEW F, NEW P, NEW E, Updating(s, t, descs, K, F, P, E),
           NEW k, k \in 0..Len(s), NEW m, UpdatedFrom(m, s, t, K, k, F, P, E)
    PROVE  m \in Stages(Len(s))
  <1>1. PICK n \in Nat \ {0} : n = Len(s)
    BY ShapeTyped DEF Updating
  <1>2. K = Stays(descs, n) /\ AxesOf(K, n) /\ t \in [1..n -> Int]
    BY <1>1 DEF Updating, Stays, AxesOf
  <1>3. \A j \in 1..n : F[j] \in Int
    BY <1>1 DEF Updating, Slices, Ranges
  <1>4. PICK D, T, o, x : m = Stage(D, T, o, x) /\ Done(D, T, o, x, s, t, K, k, F, P, E)
    BY DEF UpdatedFrom
  <1>5. /\ D \in [1..n -> Nat \ {0}] /\ T \in [1..n -> Int]
        /\ Packed(o, D, Left(K, k, n), Nat \ {0}) /\ x = Dot(Before(F, k, n), t)
    BY <1>1, <1>4 DEF Done
  <1>6. o \in Seq(Nat \ {0})
    <2>1. PICK L, c, N : L = Left(K, k, n) /\ c = Cardinality(L) /\ N = Nat \ {0}
      OBVIOUS
    <2>2. AxesOf(L, n)
      BY <1>1, <1>2, <2>1, LeftAxes
    <2>3. c \in Nat
      BY <2>1, <2>2, RankSteps DEF AxesOf
    <2>4. o \in [1..c -> N]
      BY <1>5, <2>1 DEF Packed
    <2>5. o \in Seq(N)
      BY <2>3, <2>4, FunctionSeq
    <2> QED BY <2>1, <2>5
  <1>7. x \in Int
    <2>1. PICK c : c = Before(F, k, n)
      OBVIOUS
    <2>2. \A j \in 1..n : c[j] \in Int
      BY <1>3, <2>1 DEF Before
    <2>3. Row(n, c, t)
      BY <1>2, <2>2, FunctionSeq DEF Row
    <2>4. Dot(c, t) \in Int
      BY ONLY <2>3, DotInt
    <2> QED BY <1>5, <2>1, <2>4
  <1>8. PICK A, B, C : A = [1..n -> Nat \ {0}] /\ B = [1..n -> Int] /\ C = Seq(Nat \ {0})
    OBVIOUS
  <1>9. D \in A /\ T \in B /\ o \in C
    BY <1>5, <1>6, <1>8
  <1>10. m \in [in : [dims : A, stride : B], out : C, offset : Int]
    BY <1>4, <1>7, <1>9 DEF Stage
  <1> QED BY <1>1, <1>8, <1>10 DEF Stages

LEMMA UpdatedNone ==
    ASSUME NEW s, NEW t, NEW descs, NEW K, NEW F, NEW P, NEW E, Updating(s, t, descs, K, F, P, E)
    PROVE  UpdatedFrom(Stage(s, t, s, 0), s, t, K, Len(s), F, P, E)
  <1>1. PICK n \in Nat \ {0} : n = Len(s)
    BY ShapeTyped DEF Updating
  <1>2. K = Stays(descs, n) /\ AxesOf(K, n) /\ t \in [1..n -> Int] /\ s \in [1..n -> Nat \ {0}]
    BY <1>1, ShapeTyped DEF Updating, Stays, AxesOf
  <1>3. \A j \in 1..n : s[j] = (IF j > n THEN E[j] ELSE s[j]) /\ t[j] = (IF j > n THEN t[j] * P[j] ELSE t[j])
    OBVIOUS
  <1>4. Packed(s, s, Left(K, n, n), Nat \ {0})
    <2>1. Left(K, n, n) = 1..n
      BY <1>2, LeftAxes
    <2>2. PICK N : N = Nat \ {0}
      OBVIOUS
    <2>3. Packed(s, s, 1..n, N)
      BY <1>2, <2>2, PackedAll
    <2> QED BY <2>1, <2>2, <2>3
  <1>5. 0 = Dot(Before(F, n, n), t)
    <2>1. PICK c : c = Before(F, n, n)
      OBVIOUS
    <2>2. \A j \in 1..n : c[j] = 0
      BY <2>1 DEF Before
    <2>3. Row(n, c, t)
      BY <1>2, <2>2, FunctionSeq DEF Row
    <2>4. Dot(c, t) = 0
      BY ONLY <2>2, <2>3, DotZero
    <2> QED BY <2>1, <2>4
  <1>6. Done(s, t, s, 0, s, t, K, n, F, P, E)
    BY <1>1, <1>2, <1>3, <1>4, <1>5 DEF Done
  <1> QED BY <1>1, <1>6 DEF UpdatedFrom

LEMMA UpdatedAll ==
    ASSUME NEW s, NEW t, NEW descs, NEW K, NEW F, NEW P, NEW E, Updating(s, t, descs, K, F, P, E),
           NEW layout, layout = [dims |-> s, stride |-> t]
    PROVE  UpdatedFrom(update_layout(layout, descs), s, t, K, 0, F, P, E)
  <1>1. PICK n \in Nat \ {0} : n = Len(s)
    BY ShapeTyped DEF Updating
  <1>2. layout.dims = s /\ Len(layout.dims) = n
    BY <1>1
  <1>3. PICK l : l = [in |-> layout, out |-> layout.dims, offset |-> 0]
    OBVIOUS
  <1>4. UpdatedFrom(l, s, t, K, n, F, P, E)
    <2>1. UpdatedFrom(Stage(s, t, s, 0), s, t, K, Len(s), F, P, E)
      BY ONLY Updating(s, t, descs, K, F, P, E), UpdatedNone
    <2>2. l = Stage(s, t, s, 0)
      BY <1>2, <1>3 DEF Stage
    <2> QED BY <1>1, <2>1, <2>2
  <1> DEFINE V == Stages(n)
             G == [i \in 1..n |-> [m \in V |-> IF Selecting(m, descs, i) \in V THEN Selecting(m, descs, i) ELSE m]]
             R == CHOOSE f : f = [i \in 1..Len(layout.dims) + 1 |->
                      IF i = Len(layout.dims) + 1 THEN [in |-> layout, out |-> layout.dims, offset |-> 0]
                      ELSE IF Described(descs, i) THEN select(f[i + 1], DescOf(descs, i)) ELSE f[i + 1]]
  <1>5. ASSUME NEW k \in 0..n, NEW m, UpdatedFrom(m, s, t, K, k, F, P, E) PROVE m \in V
    <2>1. PICK a : a = k /\ a \in 0..Len(s)
      BY <1>1
    <2>2. Updating(s, t, descs, K, F, P, E) /\ a \in 0..Len(s) /\ UpdatedFrom(m, s, t, K, a, F, P, E)
      BY <1>5, <2>1
    <2>3. m \in Stages(Len(s))
      BY ONLY <2>2, StageTyped
    <2> QED BY <1>1, <2>3
  <1>6. ASSUME NEW i \in 1..n, NEW m, UpdatedFrom(m, s, t, K, i, F, P, E)
        PROVE  UpdatedFrom(Selecting(m, descs, i), s, t, K, i - 1, F, P, E)
    <2>1. PICK a : a = i /\ a \in 1..Len(s)
      BY <1>1
    <2>2. Updating(s, t, descs, K, F, P, E) /\ a \in 1..Len(s) /\ UpdatedFrom(m, s, t, K, a, F, P, E)
      BY <1>6, <2>1
    <2>3. UpdatedFrom(Selecting(m, descs, a), s, t, K, a - 1, F, P, E)
      BY ONLY <2>2, UpdatedOnce
    <2> QED BY <2>1, <2>3
  <1>7. l \in V
    BY <1>4, <1>5
  <1> HIDE DEF V
  <1>8. PICK N : N = n
    OBVIOUS
  <1>9. Rounds(N, V, l, G)
    BY <1>7, <1>8 DEF Rounds
  <1>10. PICK f : f \in [1..n + 1 -> V] /\ f[n + 1] = l /\ \A i \in 1..n : f[i] = G[i][f[i + 1]]
    <2> HIDE DEF G
    <2>1. \E f : f \in [1..N + 1 -> V] /\ f[N + 1] = l /\ \A i \in 1..N : f[i] = G[i][f[i + 1]]
      BY ONLY <1>9, LoopDown
    <2> QED BY <1>8, <2>1
  <1>11. \A i \in 1..n : f[i] = IF Selecting(f[i + 1], descs, i) \in V THEN Selecting(f[i + 1], descs, i) ELSE f[i + 1]
    <2>1. ASSUME NEW i \in 1..n
          PROVE  f[i] = IF Selecting(f[i + 1], descs, i) \in V THEN Selecting(f[i + 1], descs, i) ELSE f[i + 1]
      <3>1. f[i + 1] \in V
        BY <1>10
      <3>2. f[i] = G[i][f[i + 1]]
        BY <1>10
      <3> QED BY <3>1, <3>2
    <2> QED BY <2>1
  <1> DEFINE S(g) == {k \in 0..n : UpdatedFrom(g[k + 1], s, t, K, k, F, P, E)}
  <1>12. ASSUME NEW g, g[n + 1] = l,
                \A i \in 1..n : UpdatedFrom(g[i + 1], s, t, K, i, F, P, E) => g[i] = Selecting(g[i + 1], descs, i)
         PROVE  \A k \in 0..n : k \in S(g)
    <2>1. n \in S(g)
      BY <1>4, <1>12
    <2>2. ASSUME NEW k \in 0..n - 1, k + 1 \in S(g) PROVE k \in S(g)
      <3>1. PICK i \in 1..n : i = k + 1 /\ i - 1 = k
        OBVIOUS
      <3>2. UpdatedFrom(g[i + 1], s, t, K, i, F, P, E)
        BY <2>2, <3>1
      <3>3. UpdatedFrom(g[i], s, t, K, i - 1, F, P, E)
        BY <1>6, <1>12, <3>2
      <3> QED BY <3>1, <3>3
    <2> HIDE DEF S
    <2> QED BY <2>1, <2>2, Downward
  <1>13. ASSUME NEW i \in 1..n, UpdatedFrom(f[i + 1], s, t, K, i, F, P, E) PROVE f[i] = Selecting(f[i + 1], descs, i)
    <2>1. UpdatedFrom(Selecting(f[i + 1], descs, i), s, t, K, i - 1, F, P, E)
      BY <1>6, <1>13
    <2>2. i - 1 \in 0..n
      OBVIOUS
    <2>3. Selecting(f[i + 1], descs, i) \in V
      BY <1>5, <2>1, <2>2
    <2> QED BY <1>11, <2>3
  <1>14. \A i \in 1..n : f[i] = Selecting(f[i + 1], descs, i)
    <2>1. \A k \in 0..n : k \in S(f)
      BY <1>10, <1>12, <1>13
    <2>2. ASSUME NEW i \in 1..n PROVE f[i] = Selecting(f[i + 1], descs, i)
      <3>1. i \in 0..n /\ i \in S(f)
        BY <2>1
      <3>2. UpdatedFrom(f[i + 1], s, t, K, i, F, P, E)
        BY <3>1
      <3> QED BY <1>13, <3>2
    <2> QED BY <2>2
  <1>15. f = [i \in 1..Len(layout.dims) + 1 |->
                 IF i = Len(layout.dims) + 1 THEN [in |-> layout, out |-> layout.dims, offset |-> 0]
                 ELSE IF Described(descs, i) THEN select(f[i + 1], DescOf(descs, i)) ELSE f[i + 1]]
    <2> HIDE DEF G
    <2> QED BY <1>2, <1>3, <1>10, <1>14 DEF Selecting
  <1>16. R = [i \in 1..Len(layout.dims) + 1 |->
                 IF i = Len(layout.dims) + 1 THEN [in |-> layout, out |-> layout.dims, offset |-> 0]
                 ELSE IF Described(descs, i) THEN select(R[i + 1], DescOf(descs, i)) ELSE R[i + 1]]
    BY <1>15, Zenon
  <1>17. update_layout(layout, descs) = R[1]
    BY DEF update_layout
  <1> HIDE DEF R
  <1>18. R[n + 1] = l /\ \A i \in 1..n : R[i] = Selecting(R[i + 1], descs, i)
    <2>1. PICK N1 : N1 = Len(layout.dims) /\ N1 = n
      BY <1>2
    <2>2. R = [i \in 1..N1 + 1 |->
                   IF i = N1 + 1 THEN l ELSE IF Described(descs, i) THEN select(R[i + 1], DescOf(descs, i)) ELSE R[i + 1]]
      BY ONLY <1>3, <1>16, <2>1
    <2>3. R[n + 1] = l
      BY <2>1, <2>2
    <2>4. ASSUME NEW i \in 1..n PROVE R[i] = Selecting(R[i + 1], descs, i)
      <3>1. i \in 1..N1 + 1 /\ i # N1 + 1
        BY <2>1
      <3>2. R[i] = IF Described(descs, i) THEN select(R[i + 1], DescOf(descs, i)) ELSE R[i + 1]
        BY ONLY <2>2, <3>1
      <3> QED BY <3>2 DEF Selecting
    <2> QED BY <2>3, <2>4
  <1>19. \A k \in 0..n : k \in S(R)
    <2> HIDE DEF S
    <2> QED BY <1>12, <1>18
  <1>20. UpdatedFrom(R[0 + 1], s, t, K, 0, F, P, E)
    BY <1>19
  <1> QED BY <1>17, <1>20

-----------------------------------------------------------------------------
(* What the layouts of update_layout() visit.                              *)

(* A shape without the axes that are not in K, all of extent 1.            *)
Shrinks(D, o, K, n) ==
    /\ IsShape(D) /\ n = Len(D) /\ AxesOf(K, n) /\ K # {}
    /\ o \in [1..Cardinality(K) -> Nat \ {0}] /\ \A i \in K : o[Rank(K, i)] = D[i]
    /\ \A i \in 1..n : i \notin K => D[i] = 1

LEMMA ShrunkProducts ==
    ASSUME NEW D, NEW o, NEW K, NEW n, Shrinks(D, o, K, n)
    PROVE  /\ IsShape(o) /\ Len(o) = Cardinality(K) /\ NumElems(D) = NumElems(o)
           /\ \A i \in K : RowMajor(D)[i] = RowMajor(o)[Rank(K, i)]
  <1>1. n \in Nat \ {0} /\ n = Len(D) /\ K \subseteq 1..n /\ IsShape(D) /\ D \in [1..n -> Nat \ {0}]
    BY ShapeTyped DEF Shrinks, AxesOf
  <1>2. PICK m : m = Cardinality(K)
    OBVIOUS
  <1>3. /\ m \in Nat /\ Rank(K, 0) = 0 /\ Rank(K, n) = m
        /\ \A i \in 0..n : Rank(K, i) \in Nat
        /\ \A i \in 1..n : Rank(K, i) = Rank(K, i - 1) + (IF i \in K THEN 1 ELSE 0)
    <2>1. n \in Nat /\ K \subseteq 1..n
      BY <1>1
    <2> QED BY <1>2, <2>1, RankSteps
  <1>4. AxesOf(K, n) /\ K # {} /\ o \in [1..m -> Nat \ {0}] /\ \A i \in K : o[Rank(K, i)] = D[i]
    BY <1>2 DEF Shrinks
  <1>5. \A i \in K : Rank(K, i) \in 1..m
    BY <1>2, <1>4, Ranks
  <1>6. m \in Nat \ {0}
    BY <1>3, <1>4, <1>5
  <1>7. IsShape(o) /\ Len(o) = m
    <2>1. PICK a, N : a = m /\ N = Nat \ {0}
      OBVIOUS
    <2>2. a \in N /\ o \in [1..a -> N]
      BY <1>4, <1>6, <2>1
    <2> QED BY <1>4, <1>6, FunctionShape
  <1>8. PICK g : g = [i \in 0..n |-> IF i = 0 THEN NumElems(D) ELSE RowMajor(D)[i]]
    OBVIOUS
  <1>9. PICK h : h = [i \in 0..m |-> IF i = 0 THEN NumElems(o) ELSE RowMajor(o)[i]]
    OBVIOUS
  <1>10. /\ g[n] = 1 /\ g[0] = NumElems(D) /\ g \in [0..n -> Nat \ {0}]
         /\ \A i \in 1..n : g[i - 1] = D[i] * g[i] /\ g[i] = RowMajor(D)[i]
    <2>1. IsShape(D) /\ Products(g, D, n)
      BY <1>1, <1>8 DEF Products
    <2> QED BY ONLY <2>1, ProductSteps
  <1>11. /\ h[m] = 1 /\ h[0] = NumElems(o) /\ h \in [0..m -> Nat \ {0}]
         /\ \A i \in 1..m : h[i - 1] = o[i] * h[i] /\ h[i] = RowMajor(o)[i]
    <2>1. IsShape(o) /\ Products(h, o, m)
      BY <1>4, <1>6, <1>7, <1>9 DEF Products
    <2> QED BY ONLY <2>1, ProductSteps
  <1> DEFINE S == {i \in 0..n : g[i] = h[Rank(K, i)]}
  <1>12. n \in S
    BY <1>1, <1>3, <1>10, <1>11
  <1>13. ASSUME NEW k \in 0..n - 1, k + 1 \in S PROVE k \in S
    <2>1. PICK i : i = k + 1 /\ i \in 1..n /\ i - 1 = k /\ k \in 0..n
      BY <1>1
    <2>2. Rank(K, i) = Rank(K, k) + (IF i \in K THEN 1 ELSE 0) /\ Rank(K, k) \in Nat
      <3>1. Rank(K, i) = Rank(K, i - 1) + (IF i \in K THEN 1 ELSE 0)
        BY <1>3, <2>1
      <3>2. Rank(K, k) \in Nat
        BY <1>3, <2>1
      <3> QED BY ONLY <2>1, <3>1, <3>2
    <2>3. g[i] = h[Rank(K, i)]
      BY <1>13, <2>1
    <2>4. g[k] = D[i] * g[i]
      BY <1>10, <2>1
    <2>5. CASE i \in K
      <3>1. PICK r : r = Rank(K, i) /\ r \in 1..m
        BY <1>5, <2>5
      <3>2. Rank(K, k) = r - 1
        <4>1. Rank(K, i) = Rank(K, k) + 1 /\ Rank(K, k) \in Nat
          BY <2>5, <2>2
        <4> QED BY <3>1, <4>1
      <3>3. h[r - 1] = o[r] * h[r]
        BY <1>11, <3>1
      <3>4. o[r] = D[i]
        BY <1>4, <2>5, <3>1
      <3>5. g[k] = h[Rank(K, k)]
        BY <2>3, <2>4, <3>1, <3>2, <3>3, <3>4
      <3> QED BY <2>1, <3>5
    <2>6. CASE i \notin K
      <3>1. D[i] = 1
        BY <2>1, <2>6 DEF Shrinks
      <3>2. Rank(K, k) = Rank(K, i)
        <4>1. Rank(K, i) = Rank(K, k) + 0 /\ Rank(K, k) \in Nat
          BY <2>6, <2>2
        <4> QED BY <4>1
      <3>3. g[i] \in Int
        BY <1>10, <2>1
      <3>4. 1 * g[i] = g[i]
        <4>1. PICK y : y = g[i] /\ y \in Int
          BY <3>3
        <4>2. 1 * y = y
          BY <4>1, Times
        <4> QED BY <4>1, <4>2
      <3>5. g[k] = h[Rank(K, k)]
        BY <2>3, <2>4, <3>1, <3>2, <3>4
      <3> QED BY <2>1, <3>5
    <2> QED BY <2>5, <2>6
  <1>14. \A i \in 0..n : g[i] = h[Rank(K, i)]
    <2>1. \A k \in 0..n : k \in S
      <3> HIDE DEF S
      <3>1. PICK a : a = n
        OBVIOUS
      <3>2. a \in Nat /\ a \in S /\ \A k \in 0..a - 1 : k + 1 \in S => k \in S
        BY <1>1, <1>12, <1>13, <3>1
      <3>3. \A k \in 0..a : k \in S
        BY ONLY <3>2, Downward
      <3> QED BY <3>1, <3>3
    <2> QED BY <2>1
  <1>15. NumElems(D) = NumElems(o)
    <2>1. 0 \in 0..n
      BY <1>1
    <2>2. g[0] = h[0]
      BY <1>3, <1>14, <2>1
    <2> QED BY <1>10, <1>11, <2>2
  <1>16. ASSUME NEW i \in K PROVE RowMajor(D)[i] = RowMajor(o)[Rank(K, i)]
    <2>1. i \in 1..n /\ i \in 0..n /\ Rank(K, i) \in 1..m
      BY <1>1, <1>5
    <2> QED BY <1>10, <1>11, <1>14, <2>1
  <1> QED BY <1>2, <1>7, <1>15, <1>16

LEMMA ShrunkCoords ==
    ASSUME NEW D, NEW o, NEW K, NEW n, Shrinks(D, o, K, n), NEW k, k \in Int
    PROVE  \A i \in 1..n : Coords(D, k)[i] = IF i \in K THEN Coords(o, k)[Rank(K, i)] ELSE 0
  <1>1. n = Len(D) /\ IsShape(D) /\ AxesOf(K, n) /\ \A i \in K : o[Rank(K, i)] = D[i]
    BY DEF Shrinks
  <1>2. \A i \in 1..n : i \notin K => D[i] = 1
    BY DEF Shrinks
  <1>3. /\ IsShape(o) /\ Len(o) = Cardinality(K) /\ NumElems(D) = NumElems(o)
        /\ \A i \in K : RowMajor(D)[i] = RowMajor(o)[Rank(K, i)]
    BY ONLY Shrinks(D, o, K, n), ShrunkProducts
  <1>4. PICK c, b : c = Coords(o, k) /\ b = Coords(D, k)
    OBVIOUS
  <1>5. InBox(b, D) /\ \A i \in 1..n : b[i] = (k \div RowMajor(D)[i]) % D[i]
    BY <1>1, <1>4, CoordsInBox
  <1>6. \A r \in 1..Len(o) : c[r] = (k \div RowMajor(o)[r]) % o[r]
    BY <1>3, <1>4, CoordsInBox
  <1>7. \A i \in K : Rank(K, i) \in 1..Len(o)
    BY <1>1, <1>3, Ranks
  <1>8. ASSUME NEW i \in 1..n PROVE b[i] = IF i \in K THEN c[Rank(K, i)] ELSE 0
    <2>1. CASE i \in K
      BY <1>1, <1>3, <1>5, <1>6, <1>7, <2>1
    <2>2. CASE i \notin K
      <3>1. b[i] \in 0..D[i] - 1 /\ D[i] = 1
        BY <1>1, <1>2, <1>5, <2>2 DEF InBox
      <3>2. b[i] = 0
        BY <3>1
      <3> QED BY <2>2, <3>2
    <2> QED BY <2>1, <2>2
  <1> QED BY <1>4, <1>8

LEMMA ForthSelects ==
    ASSUME NEW s, NEW t, NEW descs, Forth(descs, s), Valid(descs, s), t \in [1..Len(s) -> Int]
    PROVE  \E F, P, E : Updating(s, t, descs, Kept(descs, s), F, P, E) /\ Along(descs, s, F, P, E)
  <1>1. PICK n \in Nat \ {0} : n = Len(s)
    BY ShapeTyped DEF Forth
  <1>2. IsShape(s) /\ s \in [1..n -> Nat \ {0}]
    BY <1>1, ShapeTyped DEF Forth
  <1>3. /\ \E F, P, E : Slices(F, P, E, s, descs) /\ Along(descs, s, F, P, E)
        /\ Kept(descs, s) = Stays(descs, Len(s))
        /\ \A inp : inp.shape = s => \A d \in descs : RangeOk(inp, d)
    <2>1. Fits(descs, s)
      BY ONLY Forth(descs, s), ForthFits
    <2> QED BY ONLY <2>1, Valid(descs, s), Chosen
  <1>4. PICK F, P, E : Slices(F, P, E, s, descs) /\ Along(descs, s, F, P, E)
    BY <1>3
  <1>5. ASSUME NEW i \in 1..n, Described(descs, i)
        PROVE  Runtime(DescOf(descs, i), s[i], F[i], P[i], E[i]) /\ DescOf(descs, i).axis + 1 = i
    <2>1. PICK d : d = DescOf(descs, i)
      OBVIOUS
    <2>2. d \in descs /\ d.axis = i - 1
      BY <1>5, <2>1 DEF Described, DescOf
    <2>3. d.axis + 1 = i
      BY <2>2
    <2>4. PICK x : x = s[i] /\ x \in Nat \ {0}
      BY <1>2
    <2>5. IsDesc(d, x, 0, Nat \ {0})
      BY <2>2, <2>3, <2>4 DEF Forth
    <2>6. Takes(d, x, F[i], P[i], E[i])
      BY <1>1, <1>4, <1>5, <2>1, <2>4 DEF Slices
    <2>7. ASSUME d.index = Missing PROVE begin_of(d, x) < end_of(d, x)
      <3>1. PICK inp : inp.shape = s
        <4>1. [shape |-> s].shape = s
          OBVIOUS
        <4> QED BY <4>1
      <3>2. RangeOk(inp, d)
        BY <1>3, <2>2, <3>1
      <3>3. index_of(d) = -1
        BY <2>7 DEF index_of
      <3>4. inp.shape[d.axis + 1] = x
        BY <2>3, <2>4, <3>1
      <3>5. IF d.step > 0 THEN begin_of(d, x) < end_of(d, x) ELSE begin_of(d, x) > end_of(d, x)
        BY <3>2, <3>3, <3>4 DEF RangeOk
      <3>6. d.step > 0
        BY <2>5 DEF IsDesc
      <3> QED BY <3>5, <3>6
    <2>8. Runtime(d, x, F[i], P[i], E[i])
      BY <2>4, <2>5, <2>6, <2>7 DEF Runtime
    <2> QED BY <2>1, <2>3, <2>4, <2>8
  <1>6. Updating(s, t, descs, Kept(descs, s), F, P, E)
    BY <1>1, <1>2, <1>3, <1>4, <1>5 DEF Updating
  <1> QED BY <1>4, <1>6

LEMMA Scaled ==
    ASSUME NEW a \in Int, NEW t \in Int, NEW p \in Int, NEW f \in Int
    PROVE  a * (t * p) = (f + p * a) * t - f * t
  <1>1. PICK x : x = p * a /\ x \in Int
    BY Times
  <1>2. (f + x) * t = f * t + x * t
    BY <1>1, Distribute
  <1>3. x * t = a * (t * p)
    <2>1. x * t = t * (p * a)
      BY <1>1, Times
    <2>2. t * (p * a) = (t * p) * a
      BY Distribute
    <2>3. PICK y : y = t * p /\ y \in Int
      BY Times
    <2>4. y * a = a * y
      BY <2>3, Times
    <2> QED BY <2>1, <2>2, <2>3, <2>4
  <1>4. f * t \in Int /\ x * t \in Int
    BY <1>1, Times
  <1> QED BY <1>1, <1>2, <1>3, <1>4

(* What update_layout() has made.                                          *)
UpdateSees(u, l, descs, F, P) ==
    /\ Runs(u.in) /\ Len(u.in.dims) = Len(l.dims)
    /\ u.out = SelectedShape(descs, l.dims) /\ IsShape(u.out) /\ NumElems(u.in.dims) = NumElems(u.out)
    /\ u.offset = Dot(F, l.stride)
    /\ \A i \in 1..Len(l.dims) : /\ F[i] \in Int /\ P[i] \in Nat \ {0}
                                 /\ \A x \in 0..u.in.dims[i] - 1 : F[i] + P[i] * x \in 0..l.dims[i] - 1
    /\ \A k \in Places(u.out) :
         /\ InBox(SourceCoords(descs, l.dims, Coords(u.out, k)), l.dims)
         /\ u.offset + Dot(Coords(u.in.dims, k), u.in.stride) = Dot(SourceCoords(descs, l.dims, Coords(u.out, k)), l.stride)
         /\ \A i \in 1..Len(l.dims) :
              SourceCoords(descs, l.dims, Coords(u.out, k))[i] = F[i] + P[i] * Coords(u.in.dims, k)[i]

(* The output has the selected shape.                                      *)
LEMMA UpdatedOut ==
    ASSUME NEW s, NEW t, NEW descs, NEW K, NEW F, NEW P, NEW E, Updating(s, t, descs, K, F, P, E),
           Forth(descs, s), Valid(descs, s), NEW D, NEW T, NEW o, NEW x, Done(D, T, o, x, s, t, K, 0, F, P, E)
    PROVE  /\ o = SelectedShape(descs, s) /\ Shrinks(D, o, K, Len(s))
           /\ \A i \in 1..Len(s) : D[i] = E[i] /\ T[i] = t[i] * P[i] /\ P[i] \in Nat \ {0}
           /\ \A c : InBox(c, o) => InBox(SourceCoords(descs, s, c), s)
  <1>1. PICK n \in Nat \ {0} : n = Len(s)
    BY ShapeTyped DEF Forth
  <1>2. K = Stays(descs, n) /\ AxesOf(K, n) /\ K # {} /\ IsShape(s)
    BY <1>1 DEF Updating, Stays, AxesOf
  <1>3. /\ D \in [1..n -> Nat \ {0}] /\ T \in [1..n -> Int]
        /\ \A j \in 1..n : D[j] = (IF j > 0 THEN E[j] ELSE s[j]) /\ T[j] = (IF j > 0 THEN t[j] * P[j] ELSE t[j])
        /\ Packed(o, D, Left(K, 0, n), Nat \ {0})
    BY <1>1 DEF Done
  <1>4. \A j \in 1..n : D[j] = E[j] /\ T[j] = t[j] * P[j]
    BY <1>3
  <1>5. Left(K, 0, n) = K
    BY <1>2, LeftAxes
  <1>6. o \in [1..Cardinality(K) -> Nat \ {0}] /\ \A i \in K : o[Rank(K, i)] = D[i]
    BY <1>3, <1>5 DEF Packed
  <1>7. ASSUME NEW i \in 1..n PROVE P[i] \in Nat \ {0} /\ (i \notin K => D[i] = 1)
    <2>1. CASE ~Described(descs, i)
      <3>1. P[i] = 1
        BY <1>1, <2>1 DEF Updating, Slices
      <3>2. i \in K
        BY <1>2, <2>1 DEF Stays, Indexed
      <3> QED BY <3>1, <3>2
    <2>2. CASE Described(descs, i)
      <3>1. PICK d, m, f, p, e : d = DescOf(descs, i) /\ m = s[i] /\ f = F[i] /\ p = P[i] /\ e = E[i]
        OBVIOUS
      <3>2. Runtime(d, m, f, p, e)
        BY <1>1, <2>2, <3>1 DEF Updating
      <3>3. IF d.index # Missing THEN d.index = f /\ p = 1 /\ e = 1 /\ index_of(d) # -1
            ELSE /\ range_start(d) = f /\ d.step = p /\ p \in Nat \ {0} /\ index_of(d) = -1
                 /\ quotient(range_end(d, m) - f + p - 1, p) = e
        BY ONLY <3>2, SelectTakes
      <3>4. p \in Nat \ {0}
        BY <3>3
      <3>5. ASSUME i \notin K PROVE D[i] = 1
        <4>1. Indexed(descs, i)
          BY <1>2, <3>5 DEF Stays
        <4>2. index_of(d) # -1
          BY <3>1, <4>1 DEF Indexed
        <4> QED BY <1>4, <3>1, <3>3, <4>2
      <3> QED BY <3>1, <3>4, <3>5
    <2> QED BY <2>1, <2>2
  <1>8. Shrinks(D, o, K, Len(s))
    <2>1. IsShape(D) /\ Len(D) = n
      <3>1. PICK N : N = Nat \ {0}
        OBVIOUS
      <3>2. n \in N /\ D \in [1..n -> N]
        BY <1>3, <3>1
      <3> QED BY <1>3, FunctionShape
    <2> QED BY <1>1, <1>2, <1>6, <1>7, <2>1 DEF Shrinks
  <1>9. PICK l, v : l = Contiguous(s) /\ v = Subtensor_memoryForward(l, descs)
    OBVIOUS
  <1>10. Layout(l) /\ l.shape = s
    BY <1>2, <1>9, ContiguousCells
  <1>11. v.shape \in [1..Cardinality(K) -> Nat \ {0}] /\ \A i \in K : v.shape[Rank(K, i)] = E[i]
    <2>1. Viewing(v, l, descs, K, F, P, E)
      BY <1>1, <1>2, <1>9, <1>10 DEF Viewing, Updating
    <2>2. /\ Layout(v) /\ v.shape \in [1..Cardinality(K) -> Nat \ {0}] /\ Len(v.shape) = Cardinality(K)
          /\ SameBytes(v, l) /\ \A i \in K : v.shape[Rank(K, i)] = E[i]
          /\ \A c, b : InBox(c, v.shape) /\ Picked(b, c, K, F, P, Len(l.shape)) =>
                           At(v, c) = At(l, b) /\ InBox(b, l.shape)
      BY ONLY <2>1, Viewed
    <2> QED BY ONLY <2>2
  <1>12. v.shape = SelectedShape(descs, s) /\ \A c : InBox(c, v.shape) => InBox(SourceCoords(descs, s, c), s)
    <2>1. Fits(descs, s)
      BY ONLY Forth(descs, s), ForthFits
    <2>2. Seeing(v, l, descs)
      BY <1>9, <1>10, <2>1 DEF Seeing
    <2>3. /\ Layout(v) /\ v.shape = SelectedShape(descs, l.shape) /\ SameBytes(v, l)
          /\ \A inp : inp.shape = l.shape => \A d \in descs : RangeOk(inp, d)
          /\ \A c : InBox(c, v.shape) => /\ InBox(SourceCoords(descs, l.shape, c), l.shape)
                                         /\ At(v, c) = At(l, SourceCoords(descs, l.shape, c))
      BY ONLY <2>2, SelectedView
    <2> QED BY <1>10, <2>3
  <1>13. o = v.shape
    <2>1. PICK q, A, N : q = v.shape /\ A = 1..Cardinality(K) /\ N = Nat \ {0}
      OBVIOUS
    <2>2. o \in [A -> N] /\ q \in [A -> N]
      BY <1>6, <1>11, <2>1
    <2>3. \A p \in A : \E i \in K : Rank(K, i) = p
      BY <1>2, <2>1, Ranks
    <2>4. \A p \in A : o[p] = q[p]
      <3>1. ASSUME NEW p \in A PROVE o[p] = q[p]
        <4>1. PICK i \in K : Rank(K, i) = p
          BY <2>3
        <4>2. i \in 1..n
          BY <1>2 DEF AxesOf
        <4> QED BY <1>4, <1>6, <1>11, <2>1, <4>1, <4>2
      <3> QED BY <3>1
    <2>5. o = q
      BY ONLY <2>2, <2>4, SameFunction
    <2> QED BY <2>1, <2>5
  <1> QED BY <1>1, <1>4, <1>7, <1>8, <1>12, <1>13

(* Where the k-th element of the selection is.                             *)
LEMMA UpdatedPlaces ==
    ASSUME NEW s, NEW t, NEW descs, NEW K, NEW F, NEW P, NEW E, Updating(s, t, descs, K, F, P, E),
           Forth(descs, s), Valid(descs, s), Along(descs, s, F, P, E), K = Kept(descs, s),
           NEW D, NEW T, NEW o, NEW x, Done(D, T, o, x, s, t, K, 0, F, P, E),
           NEW k, k \in Places(o), NEW S, S = SourceCoords(descs, s, Coords(o, k))
    PROVE  /\ InBox(S, s) /\ \A i \in 1..Len(s) : S[i] = F[i] + P[i] * Coords(D, k)[i]
           /\ x + Dot(Coords(D, k), T) = Dot(S, t)
  <1>1. PICK n \in Nat \ {0} : n = Len(s)
    BY ShapeTyped DEF Forth
  <1>2. AxesOf(K, n) /\ IsShape(s) /\ t \in [1..n -> Int] /\ Slices(F, P, E, s, descs)
    BY <1>1 DEF Updating, Stays, AxesOf
  <1>3. /\ o = SelectedShape(descs, s) /\ Shrinks(D, o, K, Len(s))
        /\ \A i \in 1..Len(s) : D[i] = E[i] /\ T[i] = t[i] * P[i] /\ P[i] \in Nat \ {0}
        /\ \A c : InBox(c, o) => InBox(SourceCoords(descs, s, c), s)
    BY ONLY Updating(s, t, descs, K, F, P, E), Forth(descs, s), Valid(descs, s),
            Done(D, T, o, x, s, t, K, 0, F, P, E), UpdatedOut
  <1>4. Shrinks(D, o, K, n) /\ IsShape(D) /\ Len(D) = n
    BY <1>1, <1>3 DEF Shrinks
  <1>5. /\ IsShape(o) /\ Len(o) = Cardinality(K) /\ NumElems(D) = NumElems(o)
        /\ \A i \in K : RowMajor(D)[i] = RowMajor(o)[Rank(K, i)]
    BY ONLY <1>4, ShrunkProducts
  <1>6. k \in Int
    BY <1>5, PlacesTyped
  <1>7. PICK c, b : c = Coords(o, k) /\ b = Coords(D, k)
    OBVIOUS
  <1>8. \A i \in 1..n : b[i] = IF i \in K THEN c[Rank(K, i)] ELSE 0
    <2>1. \A i \in 1..n : Coords(D, k)[i] = IF i \in K THEN Coords(o, k)[Rank(K, i)] ELSE 0
      BY ONLY <1>4, <1>6, ShrunkCoords
    <2> QED BY <1>7, <2>1
  <1>9. InBox(c, o) /\ InBox(b, D)
    BY <1>4, <1>5, <1>6, <1>7, CoordsInBox
  <1>10. InBox(S, s)
    BY <1>3, <1>7, <1>9
  <1>11. Picked(S, c, K, F, P, n)
    <2>1. ASSUME NEW i \in K PROVE c[Rank(K, i)] \in 0..E[i] - 1
      <3>1. i \in 1..n
        BY <1>2 DEF AxesOf
      <3>2. b[i] \in 0..D[i] - 1
        BY <1>4, <1>9, <3>1 DEF InBox
      <3>3. c[Rank(K, i)] = b[i] /\ D[i] = E[i]
        BY <1>1, <1>3, <1>8, <3>1
      <3> QED BY <3>2, <3>3
    <2>2. /\ IsShape(s) /\ Slices(F, P, E, s, descs) /\ Along(descs, s, F, P, E)
          /\ K = Kept(descs, s) /\ AxesOf(K, Len(s)) /\ \A i \in K : c[Rank(K, i)] \in 0..E[i] - 1
      BY <1>1, <1>2, <2>1
    <2>3. Picked(SourceCoords(descs, s, c), c, K, F, P, Len(s))
      BY ONLY <2>2, SourceIs
    <2> QED BY <1>1, <1>7, <2>3
  <1>12. \A i \in 1..n : S[i] = F[i] + P[i] * b[i]
    BY <1>8, <1>11 DEF Picked
  <1>13. /\ \A i \in 1..n : /\ F[i] \in Int /\ P[i] \in Int /\ t[i] \in Int /\ b[i] \in Int /\ S[i] \in Int
                            /\ T[i] = t[i] * P[i]
    <2>1. ASSUME NEW i \in 1..n
          PROVE  /\ F[i] \in Int /\ P[i] \in Int /\ t[i] \in Int /\ b[i] \in Int /\ S[i] \in Int
                 /\ T[i] = t[i] * P[i]
      <3>1. F[i] \in Int /\ P[i] \in Int /\ t[i] \in Int /\ T[i] = t[i] * P[i]
        BY <1>1, <1>2, <1>3 DEF Slices, Ranges
      <3>2. b[i] \in Int
        BY <1>4, <1>9 DEF InBox
      <3>3. S[i] \in Int
        BY <1>1, <1>10 DEF InBox
      <3> QED BY <3>1, <3>2, <3>3
    <2> QED BY <2>1
  <1>14. PICK f : f = Before(F, 0, n)
    OBVIOUS
  <1>15. \A i \in 1..n : f[i] = F[i]
    BY <1>14 DEF Before
  <1>16. Row(n, b, T) /\ Row(n, S, t) /\ Row(n, f, t)
    <2>1. Len(t) = n
      BY <1>2, FunctionSeq
    <2>2. T \in [1..n -> Int]
      BY <1>1 DEF Done
    <2>3. Len(T) = n /\ \A i \in 1..n : T[i] \in Int
      BY <2>2, FunctionSeq
    <2>4. Row(n, b, T)
      BY <1>13, <2>3 DEF Row
    <2>5. Row(n, S, t)
      BY <1>13, <2>1 DEF Row
    <2>6. Row(n, f, t)
      BY <1>13, <1>15, <2>1 DEF Row
    <2> QED BY <2>4, <2>5, <2>6
  <1>17. \A i \in 1..n : b[i] * T[i] = S[i] * t[i] - f[i] * t[i]
    <2>1. ASSUME NEW i \in 1..n PROVE b[i] * T[i] = S[i] * t[i] - f[i] * t[i]
      <3>1. PICK y, p, g, a : y = t[i] /\ p = P[i] /\ g = F[i] /\ a = b[i]
        OBVIOUS
      <3>2. y \in Int /\ p \in Int /\ g \in Int /\ a \in Int
        BY <1>13, <3>1
      <3>3. a * (y * p) = (g + p * a) * y - g * y
        BY ONLY <3>2, Scaled
      <3>4. b[i] = a /\ T[i] = y * p /\ S[i] = g + p * a /\ t[i] = y /\ f[i] = g
        BY <1>12, <1>13, <1>15, <3>1
      <3> QED BY ONLY <3>3, <3>4
    <2> QED BY <2>1
  <1>18. Dot(b, T) = Dot(S, t) - Dot(f, t)
    BY ONLY <1>16, <1>17, DotMinus
  <1>19. Dot(S, t) \in Int /\ Dot(f, t) \in Int
    BY <1>16, DotInt
  <1>20. x = Dot(f, t)
    BY <1>1, <1>14 DEF Done
  <1>21. x + Dot(b, T) = Dot(S, t)
    BY <1>18, <1>19, <1>20
  <1> QED BY <1>1, <1>7, <1>10, <1>12, <1>21

LEMMA UpdatedLayout ==
    ASSUME NEW l, Runs(l), NEW descs, Forth(descs, l.dims), Valid(descs, l.dims), NEW u, u = update_layout(l, descs)
    PROVE  \E F, P : UpdateSees(u, l, descs, F, P)
  <1>1. PICK s, t, K : s = l.dims /\ t = l.stride /\ K = Kept(descs, s)
    OBVIOUS
  <1>2. l = [dims |-> s, stride |-> t] /\ IsShape(s) /\ t \in [1..Len(s) -> Int]
    BY <1>1 DEF Runs
  <1>3. PICK F, P, E : Updating(s, t, descs, K, F, P, E) /\ Along(descs, s, F, P, E)
    <2>1. Forth(descs, s) /\ Valid(descs, s)
      BY <1>1
    <2>2. \E F, P, E : Updating(s, t, descs, Kept(descs, s), F, P, E) /\ Along(descs, s, F, P, E)
      BY ONLY <1>2, <2>1, ForthSelects
    <2> QED BY <1>1, <2>2
  <1>4. PICK D, T, o, x : u = Stage(D, T, o, x) /\ Done(D, T, o, x, s, t, K, 0, F, P, E)
    <2>1. UpdatedFrom(update_layout(l, descs), s, t, K, 0, F, P, E)
      BY ONLY <1>2, <1>3, UpdatedAll
    <2> QED BY <2>1 DEF UpdatedFrom
  <1>5. u.in = [dims |-> D, stride |-> T] /\ u.in.dims = D /\ u.in.stride = T /\ u.out = o /\ u.offset = x
    BY <1>4 DEF Stage
  <1>6. Forth(descs, s) /\ Valid(descs, s)
    BY <1>1
  <1>7. /\ o = SelectedShape(descs, s) /\ Shrinks(D, o, K, Len(s))
        /\ \A i \in 1..Len(s) : D[i] = E[i] /\ T[i] = t[i] * P[i] /\ P[i] \in Nat \ {0}
        /\ \A c : InBox(c, o) => InBox(SourceCoords(descs, s, c), s)
    BY ONLY <1>3, <1>4, <1>6, UpdatedOut
  <1>8. IsShape(D) /\ Len(D) = Len(s)
    BY <1>7 DEF Shrinks
  <1>9. IsShape(o) /\ NumElems(D) = NumElems(o)
    BY ONLY <1>7, ShrunkProducts
  <1>10. ASSUME NEW k \in Places(o)
         PROVE  /\ InBox(SourceCoords(descs, s, Coords(o, k)), s)
                /\ x + Dot(Coords(D, k), T) = Dot(SourceCoords(descs, s, Coords(o, k)), t)
                /\ \A i \in 1..Len(s) : SourceCoords(descs, s, Coords(o, k))[i] = F[i] + P[i] * Coords(D, k)[i]
    <2>1. PICK j, S : j = k /\ S = SourceCoords(descs, s, Coords(o, j)) /\ j \in Places(o)
      OBVIOUS
    <2>2. /\ InBox(S, s) /\ \A i \in 1..Len(s) : S[i] = F[i] + P[i] * Coords(D, j)[i]
          /\ x + Dot(Coords(D, j), T) = Dot(S, t)
      BY ONLY <1>1, <1>3, <1>4, <1>6, <2>1, UpdatedPlaces
    <2> QED BY <2>1, <2>2
  <1>11. x = Dot(F, t)
    <2>1. PICK f, n : f = Before(F, 0, n) /\ n = Len(s) /\ n \in Nat
      BY <1>2, ShapeTyped
    <2>2. x = Dot(f, t)
      BY <1>4, <2>1 DEF Done
    <2>3. \A i \in 1..n : f[i] = F[i] /\ F[i] \in Int
      BY <1>3, <2>1 DEF Before, Updating, Slices, Ranges
    <2>4. Row(n, f, t) /\ Row(n, F, t)
      BY <1>2, <2>1, <2>3, FunctionSeq DEF Row
    <2>5. \A i \in 1..n : f[i] * t[i] = F[i] * t[i]
      BY <2>3
    <2>6. Dot(f, t) = Dot(F, t)
      BY ONLY <2>4, <2>5, DotSame
    <2> QED BY <2>2, <2>6
  <1>12. ASSUME NEW i \in 1..Len(s)
         PROVE  F[i] \in Int /\ P[i] \in Nat \ {0} /\ \A y \in 0..D[i] - 1 : F[i] + P[i] * y \in 0..s[i] - 1
    BY <1>3, <1>7 DEF Updating, Slices, Ranges
  <1>13. Runs(u.in)
    <2>1. T \in [1..Len(D) -> Int]
      BY <1>4, <1>8 DEF Done
    <2> QED BY <1>5, <1>8, <2>1 DEF Runs
  <1>14. u.in.dims = D /\ u.in.stride = T /\ u.out = o /\ u.offset = x /\ l.dims = s /\ l.stride = t
    BY <1>1, <1>5
  <1>15. \A i \in 1..Len(l.dims) : /\ F[i] \in Int /\ P[i] \in Nat \ {0}
                                   /\ \A y \in 0..u.in.dims[i] - 1 : F[i] + P[i] * y \in 0..l.dims[i] - 1
    BY ONLY <1>12, <1>14
  <1>16. \A k \in Places(u.out) :
           /\ InBox(SourceCoords(descs, l.dims, Coords(u.out, k)), l.dims)
           /\ u.offset + Dot(Coords(u.in.dims, k), u.in.stride)
                  = Dot(SourceCoords(descs, l.dims, Coords(u.out, k)), l.stride)
           /\ \A i \in 1..Len(l.dims) :
                SourceCoords(descs, l.dims, Coords(u.out, k))[i] = F[i] + P[i] * Coords(u.in.dims, k)[i]
    BY ONLY <1>10, <1>14
  <1>17. /\ Runs(u.in) /\ Len(u.in.dims) = Len(l.dims) /\ u.out = SelectedShape(descs, l.dims)
         /\ IsShape(u.out) /\ NumElems(u.in.dims) = NumElems(u.out) /\ u.offset = Dot(F, l.stride)
    BY ONLY <1>7, <1>8, <1>9, <1>11, <1>13, <1>14
  <1> QED BY ONLY <1>15, <1>16, <1>17 DEF UpdateSees

-----------------------------------------------------------------------------
(* Subtensor and SetSubtensor, as instructions.                            *)

LEMMA DotNat ==
    ASSUME NEW n, NEW c, NEW t, Row(n, c, t), \A i \in 1..n : c[i] >= 0 /\ t[i] >= 0
    PROVE  Dot(c, t) >= 0 /\ Dot(c, t) \in Int
  <1>1. PICK f, w : Terms(f, w, n, c, t)
    BY DotSum
  <1>2. n \in Nat /\ \A i \in 1..n : c[i] \in Int /\ t[i] \in Int
    BY DEF Row
  <1>3. /\ f \in [0..n -> Int] /\ f[0] = 0 /\ \A i \in 1..n : f[i] = f[i - 1] + w[i] /\ w[i] = c[i] * t[i]
        /\ Dot(c, t) = f[n]
    BY <1>1 DEF Terms, Adds
  <1>4. ASSUME NEW i \in 1..n PROVE w[i] \in Int /\ w[i] >= 0
    <2>1. PICK a, b : a = c[i] /\ b = t[i] /\ a \in Int /\ b \in Int /\ a >= 0 /\ b >= 0
      BY <1>2
    <2>2. a * b \in Int /\ a * b >= 0
      BY <2>1, Times
    <2> QED BY <1>3, <2>1, <2>2
  <1> DEFINE S == {k \in 0..n : f[k] >= 0}
  <1>5. 0 \in S
    BY <1>2, <1>3
  <1>6. ASSUME NEW k \in 0..n - 1, k \in S PROVE k + 1 \in S
    <2>1. PICK i : i = k + 1 /\ i \in 1..n /\ i - 1 = k /\ i \in 0..n /\ k \in 0..n
      BY <1>2
    <2>2. f[i] = f[k] + w[i] /\ f[k] \in Int /\ f[k] >= 0
      BY <1>3, <1>6, <2>1
    <2>3. f[i] >= 0
      BY <1>4, <2>1, <2>2
    <2> QED BY <2>1, <2>3
  <1>7. n \in S
    <2> HIDE DEF S
    <2>1. PICK m : m = n
      OBVIOUS
    <2>2. m \in Nat /\ 0 \in S /\ \A k \in 0..m - 1 : k \in S => k + 1 \in S
      BY <1>2, <1>5, <1>6, <2>1
    <2>3. \A k \in 0..m : k \in S
      BY ONLY <2>2, Upward
    <2> QED BY <1>2, <2>1, <2>3
  <1> QED BY <1>3, <1>7

(* The elements at the start of the selection.                             *)
LEMMA FirstSelected ==
    ASSUME NEW u, NEW l, NEW descs, NEW F, NEW P, UpdateSees(u, l, descs, F, P), Runs(l)
    PROVE  InBox(F, l.dims) /\ \A i \in 1..Len(l.dims) : u.in.dims[i] \in Nat \ {0} /\ F[i] >= 0
  <1>1. PICK n \in Nat \ {0} : n = Len(l.dims)
    BY ShapeTyped DEF Runs
  <1>2. PICK D : D = u.in.dims
    OBVIOUS
  <1>3. D \in [1..n -> Nat \ {0}]
    <2>1. IsShape(D) /\ Len(D) = n
      BY <1>1, <1>2 DEF UpdateSees, Runs
    <2> QED BY <2>1, ShapeTyped
  <1>4. ASSUME NEW i \in 1..n PROVE F[i] \in 0..l.dims[i] - 1 /\ D[i] \in Nat \ {0}
    <2>1. F[i] \in Int /\ P[i] \in Int /\ \A x \in 0..D[i] - 1 : F[i] + P[i] * x \in 0..l.dims[i] - 1
      <3>1. \A j \in 1..Len(l.dims) : /\ F[j] \in Int /\ P[j] \in Nat \ {0}
                                      /\ \A x \in 0..u.in.dims[j] - 1 : F[j] + P[j] * x \in 0..l.dims[j] - 1
        BY ONLY UpdateSees(u, l, descs, F, P) DEF UpdateSees
      <3> QED BY ONLY <1>1, <1>2, <1>4, <3>1, SMTT(20)
    <2>2. 0 \in 0..D[i] - 1 /\ D[i] \in Nat \ {0}
      BY <1>3
    <2>3. F[i] + P[i] * 0 \in 0..l.dims[i] - 1
      BY <2>1, <2>2
    <2>4. P[i] * 0 = 0
      BY <2>1, Times
    <2>5. F[i] + 0 = F[i]
      BY <2>1
    <2> QED BY <2>2, <2>3, <2>4, <2>5
  <1>5. \A i \in 1..n : l.dims[i] \in Int
    BY <1>1, ShapeTyped DEF Runs
  <1> QED BY <1>1, <1>2, <1>4, <1>5 DEF InBox

LEMMA SubtensorLoaded ==
    ASSUME NEW t, NEW l, NEW mem, Loaded(t, l, mem), NEW descs, Forth(descs, t.shape), Valid(descs, t.shape),
           NEW u, u = update_layout(l, descs), u.offset >= 0,
           NEW m, m = Copied(alloc_tensor(u.out), 0, force_layout_contiguous(u.out), mem, unsigned(u.offset), u.in,
                             NumElems(u.out))
    PROVE  Loaded(SubTensor(t, descs), force_layout_contiguous(u.out), m)
  <1>1. PICK s : s = t.shape /\ s = l.dims /\ Runs(l) /\ IsShape(s)
    BY DEF Loaded, Runs
  <1>2. PICK n \in Nat \ {0} : n = Len(s) /\ Axes(s) = 1..n
    BY <1>1, ShapeTyped
  <1>3. PICK F, P : UpdateSees(u, l, descs, F, P)
    <2>1. Forth(descs, l.dims) /\ Valid(descs, l.dims)
      BY <1>1
    <2>2. Runs(l) /\ u = update_layout(l, descs)
      BY <1>1
    <2> QED BY ONLY <2>1, <2>2, UpdatedLayout
  <1>4. PICK q, x, from : q = u.out /\ x = u.offset /\ from = u.in
    OBVIOUS
  <1>5. IsShape(q) /\ q = SelectedShape(descs, s) /\ Runs(from) /\ NumElems(from.dims) = NumElems(q) /\ x = Dot(F, l.stride)
    BY <1>1, <1>3, <1>4 DEF UpdateSees
  <1>6. unsigned(x) = x
    <2>1. PICK y : y = l.stride
      OBVIOUS
    <2>2. Row(n, F, y)
      <3>1. y \in [1..n -> Int] /\ \A i \in 1..n : F[i] \in Int
        BY <1>1, <1>2, <1>3, <2>1 DEF UpdateSees, Runs
      <3> QED BY <3>1, FunctionSeq DEF Row
    <2>3. x \in Int
      BY ONLY <1>5, <2>1, <2>2, DotInt
    <2>4. ~(x < 0)
      BY <1>4, <2>3
    <2> QED BY ONLY <2>4 DEF unsigned
  <1>7. Gathers(m, q, mem, x, from)
    BY <1>4, <1>5, <1>6 DEF Gathers
  <1>8. PICK S : S = [k \in Places(q) |-> SourceCoords(descs, s, Coords(q, k))]
    OBVIOUS
  <1>9. PICK v : v = SubTensor(t, descs)
    OBVIOUS
  <1>10. PICK D : D = [k \in Places(q) |-> ElementAt(t, S[k])]
    OBVIOUS
  <1>11. v = [shape |-> q, data |-> [k \in Places(q) |-> ElementAt(t, SourceCoords(descs, s, Coords(q, k)))]]
    BY <1>1, <1>5, <1>9 DEF SubTensor, Tensor
  <1>12. TensorOf(v) /\ v.shape = q /\ \A k \in Places(q) : v.data[k] = D[k]
    <2>1. v = [shape |-> q, data |-> [k \in Places(q) |-> D[k]]] /\ IsShape(q)
      BY <1>5, <1>8, <1>10, <1>11
    <2> QED BY ONLY <2>1, TensorMade
  <1>13. ASSUME NEW k \in Places(q)
         PROVE  InBox(S[k], s) /\ x + Dot(Coords(from.dims, k), from.stride) = Dot(S[k], l.stride)
    <2>1. S[k] = SourceCoords(descs, s, Coords(q, k))
      BY <1>8
    <2>2. /\ InBox(SourceCoords(descs, s, Coords(q, k)), s)
          /\ x + Dot(Coords(from.dims, k), from.stride) = Dot(SourceCoords(descs, s, Coords(q, k)), l.stride)
      BY <1>1, <1>3, <1>4 DEF UpdateSees
    <2> QED BY ONLY <2>1, <2>2
  <1>14. Gathering(v, t, l, mem, x, from, S)
    BY <1>1, <1>10, <1>12, <1>13 DEF Gathering
  <1>15. Gathers(m, v.shape, mem, x, from)
    BY <1>7, <1>12
  <1>16. Loaded(v, force_layout_contiguous(v.shape), m)
    BY ONLY <1>14, <1>15, GatheredLoaded
  <1> QED BY <1>4, <1>9, <1>12, <1>16

(* Of no more elements along any axis, but of as many: of as many along    *)
(* every axis.                                                             *)
Smaller(D, s, n) ==
    IsShape(D) /\ IsShape(s) /\ n = Len(s) /\ n = Len(D) /\ \A i \in 1..n : D[i] <= s[i]

LEMMA ProductBelow ==
    ASSUME NEW a \in Nat \ {0}, NEW b \in Nat \ {0}, NEW x \in Nat \ {0}, NEW y \in Nat \ {0}, a <= b, x <= y
    PROVE  a * x <= b * y /\ (a * x = b * y => a = b /\ x = y)
  <1>1. PICK d, e : d = b - a /\ e = y - x /\ d \in Nat /\ e \in Nat /\ b = a + d /\ y = x + e
    OBVIOUS
  <1>2. b * y = a * (x + e) + d * y
    BY <1>1, Distribute
  <1>3. a * (x + e) = a * x + a * e
    BY <1>1, Distribute
  <1>4. a * x \in Int /\ a * e \in Int /\ d * y \in Int /\ a * e >= 0 /\ d * y >= 0
    BY <1>1, Times
  <1>5. b * y = a * x + a * e + d * y
    BY <1>2, <1>3
  <1>6. a * x <= b * y
    BY <1>4, <1>5
  <1>7. ASSUME a * x = b * y PROVE a = b /\ x = y
    <2>1. a * e = 0 /\ d * y = 0
      BY <1>4, <1>5, <1>7
    <2>2. e = 0
      <3>1. CASE e > 0
        <4>1. a * e >= a
          BY <1>1, <3>1, Times
        <4> QED BY <2>1, <4>1
      <3> QED BY <1>1, <3>1
    <2>3. d = 0
      <3>1. CASE d > 0
        <4>1. d * y >= d
          BY <1>1, <3>1, Times
        <4> QED BY <1>1, <2>1, <3>1, <4>1
      <3> QED BY <1>1, <3>1
    <2> QED BY <1>1, <2>2, <2>3
  <1> QED BY <1>6, <1>7

LEMMA ExtentsFull ==
    ASSUME NEW D, NEW s, NEW n, Smaller(D, s, n), NumElems(D) = NumElems(s)
    PROVE  \A i \in 1..n : D[i] = s[i]
  <1>1. /\ n \in Nat \ {0} /\ n = Len(s) /\ n = Len(D) /\ IsShape(D) /\ IsShape(s)
        /\ D \in [1..n -> Nat \ {0}] /\ s \in [1..n -> Nat \ {0}] /\ \A i \in 1..n : D[i] <= s[i]
    BY ShapeTyped DEF Smaller
  <1>2. PICK g : g = [i \in 0..n |-> IF i = 0 THEN NumElems(D) ELSE RowMajor(D)[i]]
    OBVIOUS
  <1>3. PICK h : h = [i \in 0..n |-> IF i = 0 THEN NumElems(s) ELSE RowMajor(s)[i]]
    OBVIOUS
  <1>4. /\ g[n] = 1 /\ g[0] = NumElems(D) /\ g \in [0..n -> Nat \ {0}]
        /\ \A i \in 1..n : g[i - 1] = D[i] * g[i] /\ g[i] = RowMajor(D)[i]
    <2>1. IsShape(D) /\ Products(g, D, n)
      BY <1>1, <1>2 DEF Products
    <2> QED BY ONLY <2>1, ProductSteps
  <1>5. /\ h[n] = 1 /\ h[0] = NumElems(s) /\ h \in [0..n -> Nat \ {0}]
        /\ \A i \in 1..n : h[i - 1] = s[i] * h[i] /\ h[i] = RowMajor(s)[i]
    <2>1. IsShape(s) /\ Products(h, s, n)
      BY <1>1, <1>3 DEF Products
    <2> QED BY ONLY <2>1, ProductSteps
  <1> DEFINE S == {k \in 0..n : g[k] <= h[k] /\ (g[k] = h[k] => \A j \in 1..n : j > k => D[j] = s[j])}
  <1>6. n \in S
    BY <1>1, <1>4, <1>5
  <1>7. ASSUME NEW k \in 0..n - 1, k + 1 \in S PROVE k \in S
    <2>1. PICK i : i = k + 1 /\ i \in 1..n /\ i \in 0..n /\ i - 1 = k /\ k \in 0..n
      <3>1. n \in Nat
        BY <1>1
      <3>2. k + 1 \in 1..n /\ k + 1 \in 0..n /\ (k + 1) - 1 = k /\ k \in 0..n
        BY <3>1
      <3> QED BY <3>2
    <2>2. g[i] <= h[i] /\ (g[i] = h[i] => \A j \in 1..n : j > i => D[j] = s[j])
      BY <1>7, <2>1
    <2>3. g[k] = D[i] * g[i] /\ h[k] = s[i] * h[i]
      BY <1>4, <1>5, <2>1
    <2>4. PICK a, b, x, y : a = D[i] /\ b = s[i] /\ x = g[i] /\ y = h[i]
      OBVIOUS
    <2>5. /\ a \in Nat \ {0} /\ b \in Nat \ {0} /\ x \in Nat \ {0} /\ y \in Nat \ {0} /\ a <= b /\ x <= y
      BY <1>1, <1>4, <1>5, <2>1, <2>2, <2>4
    <2>6. a * x <= b * y /\ (a * x = b * y => a = b /\ x = y)
      BY <2>5, ProductBelow
    <2>7. ASSUME g[k] = h[k], NEW j \in 1..n, j > k PROVE D[j] = s[j]
      <3>1. D[i] = s[i] /\ g[i] = h[i]
        BY <2>3, <2>4, <2>6, <2>7
      <3>2. j = i \/ j > i
        BY <2>1, <2>7
      <3> QED BY <2>2, <3>1, <3>2
    <2>8. g[k] <= h[k]
      BY <2>3, <2>4, <2>6
    <2> QED BY <2>1, <2>7, <2>8
  <1>8. 0 \in S
    <2> HIDE DEF S
    <2>1. PICK m : m = n
      OBVIOUS
    <2>2. m \in Nat /\ m \in S /\ \A k \in 0..m - 1 : k + 1 \in S => k \in S
      BY <1>1, <1>6, <1>7, <2>1
    <2>3. \A k \in 0..m : k \in S
      BY ONLY <2>2, Downward
    <2>4. 0 \in 0..m
      BY <1>1, <2>1
    <2> QED BY <2>3, <2>4
  <1>9. \A j \in 1..n : j > 0 => D[j] = s[j]
    BY <1>4, <1>5, <1>8
  <1>10. \A j \in 1..n : j > 0
    OBVIOUS
  <1> QED BY <1>9, <1>10

(* A range of as many positions as the axis has is the whole axis.         *)
Stepping(f, p, n, e) ==
    /\ n \in Nat \ {0} /\ e \in Nat \ {0} /\ f \in Int /\ p \in Nat \ {0}
    /\ \A x \in 0..e - 1 : f + p * x \in 0..n - 1

LEMMA RangeFull ==
    ASSUME NEW f, NEW p, NEW n, NEW e, Stepping(f, p, n, e)
    PROVE  e <= n /\ (e = n => \A x \in 0..n - 1 : f + p * x = x)
  <1>1. n \in Nat \ {0} /\ e \in Nat \ {0} /\ f \in Int /\ p \in Nat \ {0}
    BY DEF Stepping
  <1>2. \A x \in 0..e - 1 : f + p * x \in 0..n - 1
    BY DEF Stepping
  <1>3. PICK y : y = e - 1 /\ y \in Nat /\ y \in 0..e - 1 /\ 0 \in 0..e - 1
    BY <1>1
  <1>4. f >= 0
    <2>1. f + p * 0 \in 0..n - 1
      BY <1>2, <1>3
    <2>2. p * 0 = 0
      BY <1>1, Times
    <2> QED BY <1>1, <2>1, <2>2
  <1>5. PICK z : z = p * y /\ z \in Int
    BY <1>1, <1>3, Times
  <1>6. f + z <= n - 1
    BY <1>1, <1>2, <1>3, <1>5
  <1>7. z >= y
    <2>1. y \in Nat /\ p \in Int /\ p > 0
      BY <1>1, <1>3
    <2>2. CASE y = 0
      <3>1. p * 0 = 0
        BY <2>1, Times
      <3> QED BY <1>5, <2>2, <3>1
    <2>3. CASE y > 0
      <3>1. p * y >= y
        BY <2>1, <2>3, Times
      <3> QED BY <1>5, <3>1
    <2> QED BY <2>1, <2>2, <2>3
  <1>8. e <= n
    BY <1>1, <1>3, <1>4, <1>5, <1>6, <1>7
  <1>9. ASSUME e = n, NEW x \in 0..n - 1 PROVE f + p * x = x
    <2>1. f = 0 /\ z = y
      BY <1>1, <1>3, <1>4, <1>5, <1>6, <1>7, <1>9
    <2>2. CASE y = 0
      <3>1. x = 0
        BY <1>1, <1>3, <1>9, <2>2
      <3>2. p * 0 = 0
        BY <1>1, Times
      <3> QED BY <2>1, <3>1, <3>2
    <2>3. CASE y > 0
      <3>1. p = 1
        <4>1. CASE p > 1
          <5>1. PICK q : q = p - 1 /\ q \in Int /\ q > 0 /\ p = q + 1
            BY <1>1, <4>1
          <5>2. (q + 1) * y = q * y + 1 * y
            BY <1>3, <5>1, Distribute
          <5>3. q * y \in Int /\ q * y >= y /\ 1 * y = y
            BY <1>3, <2>3, <5>1, Times
          <5>4. z = q * y + y
            BY <1>5, <5>1, <5>2, <5>3
          <5> QED BY <1>3, <2>1, <2>3, <5>3, <5>4
        <4> QED BY <1>1, <4>1
      <3>2. x \in Int
        BY <1>9
      <3>3. 1 * x = x
        BY <3>2, Times
      <3> QED BY <2>1, <3>1, <3>2, <3>3
    <2>4. y = 0 \/ y > 0
      <3>1. y \in Nat
        BY ONLY <1>3
      <3> QED BY ONLY <3>1
    <2> QED BY <2>2, <2>3, <2>4
  <1> QED BY <1>8, <1>9

(* The whole tensor, when as many elements are selected as it has.         *)
LEMMA WholeSelected ==
    ASSUME NEW u, NEW l, NEW descs, NEW F, NEW P, UpdateSees(u, l, descs, F, P), Runs(l),
           NumElems(u.out) = NumElems(l.dims)
    PROVE  \A k \in Places(l.dims) : Place(l.dims, SourceCoords(descs, l.dims, Coords(u.out, k))) = k
  <1>1. PICK s, D, q : s = l.dims /\ D = u.in.dims /\ q = u.out
    OBVIOUS
  <1>2. PICK n \in Nat \ {0} : n = Len(s)
    BY <1>1, ShapeTyped DEF Runs
  <1>3. IsShape(s) /\ IsShape(D) /\ Len(D) = n /\ NumElems(D) = NumElems(s) /\ IsShape(q)
    BY <1>1, <1>2 DEF UpdateSees, Runs
  <1>4. s \in [1..n -> Nat \ {0}] /\ D \in [1..n -> Nat \ {0}]
    BY <1>2, <1>3, ShapeTyped
  <1>5. /\ \A j \in 1..n : /\ F[j] \in Int /\ P[j] \in Nat \ {0}
                           /\ \A x \in 0..D[j] - 1 : F[j] + P[j] * x \in 0..s[j] - 1
        /\ \A k \in Places(q) : \A i \in 1..n :
             SourceCoords(descs, s, Coords(q, k))[i] = F[i] + P[i] * Coords(D, k)[i]
    <2>1. /\ \A j \in 1..Len(l.dims) : /\ F[j] \in Int /\ P[j] \in Nat \ {0}
                                       /\ \A x \in 0..u.in.dims[j] - 1 : F[j] + P[j] * x \in 0..l.dims[j] - 1
          /\ \A k \in Places(u.out) : \A i \in 1..Len(l.dims) :
               SourceCoords(descs, l.dims, Coords(u.out, k))[i] = F[i] + P[i] * Coords(u.in.dims, k)[i]
      BY ONLY UpdateSees(u, l, descs, F, P) DEF UpdateSees
    <2> QED BY ONLY <1>1, <1>2, <2>1
  <1>6. ASSUME NEW i \in 1..n
        PROVE  D[i] <= s[i] /\ (D[i] = s[i] => \A x \in 0..s[i] - 1 : F[i] + P[i] * x = x)
    <2>1. PICK f, p, a, e : f = F[i] /\ p = P[i] /\ a = s[i] /\ e = D[i]
      OBVIOUS
    <2>2. Stepping(f, p, a, e)
      BY <1>4, <1>5, <2>1 DEF Stepping
    <2>3. e <= a /\ (e = a => \A x \in 0..a - 1 : f + p * x = x)
      BY ONLY <2>2, RangeFull
    <2> QED BY <2>1, <2>3
  <1>7. \A i \in 1..n : D[i] = s[i]
    <2>1. Smaller(D, s, n)
      BY <1>2, <1>3, <1>6 DEF Smaller
    <2> QED BY ONLY <1>3, <2>1, ExtentsFull
  <1>8. D = s
    <2>1. PICK A, N : A = 1..n /\ N = Nat \ {0}
      OBVIOUS
    <2>2. D \in [A -> N] /\ s \in [A -> N] /\ \A x \in A : D[x] = s[x]
      BY <1>4, <1>7, <2>1
    <2> QED BY ONLY <2>2, SameFunction
  <1>9. ASSUME NEW k \in Places(s) PROVE Place(s, SourceCoords(descs, s, Coords(q, k))) = k
    <2>1. PICK b, c, r : b = SourceCoords(descs, s, Coords(q, k)) /\ c = Coords(s, k) /\ r = RowMajor(s)
      OBVIOUS
    <2>2. Places(s) = Places(q)
      BY <1>1, <1>3 DEF Places
    <2>3. InBox(c, s)
      BY <1>3, <2>1, PlacesTyped, CoordsInBox
    <2>4. \A i \in 1..n : b[i] = F[i] + P[i] * c[i] /\ c[i] \in 0..s[i] - 1
      <3>1. \A i \in 1..n : b[i] = F[i] + P[i] * Coords(D, k)[i]
        BY <1>5, <2>1, <2>2
      <3>2. \A i \in 1..n : c[i] \in 0..s[i] - 1
        BY <1>2, <2>3 DEF InBox
      <3> QED BY <1>8, <2>1, <3>1, <3>2
    <2>5. \A i \in 1..n : b[i] = c[i]
      BY <1>6, <1>7, <2>4
    <2>6. Row(n, c, r)
      BY <1>2, <1>3, <2>1, <2>3, BoxRow
    <2>7. Row(n, b, r)
      BY <2>5, <2>6 DEF Row
    <2>8. \A i \in 1..n : b[i] * r[i] = c[i] * r[i]
      BY <2>5
    <2>9. Dot(b, r) = Dot(c, r)
      BY ONLY <2>6, <2>7, <2>8, DotSame
    <2>10. Place(s, c) = k
      BY <1>3, <2>1, PlaceOfCoords
    <2> QED BY <2>1, <2>9, <2>10 DEF Place
  <1> QED BY <1>1, <1>9

(* What is written over the selected elements.                             *)
Overwrites(W, t, descs, v) ==
    W = {[at |-> Place(t.shape, SourceCoords(descs, t.shape, Coords(v.shape, k))), elem |-> v.data[k]] : k \in Places(v.shape)}

LEMMA SetSubTensorIs ==
    ASSUME NEW t, TensorOf(t), NEW descs, NEW v, NEW W, Overwrites(W, t, descs, v)
    PROVE  /\ TensorOf(SetSubTensor(t, descs, v)) /\ SetSubTensor(t, descs, v).shape = t.shape
           /\ SetSubTensor(t, descs, v).data = Written(t.data, W)
  <1>1. PICK y : y = SetSubTensor(t, descs, v)
    OBVIOUS
  <1>2. y = [t EXCEPT !.data = Written(t.data, W)]
    BY <1>1 DEF SetSubTensor, Overwrites
  <1>3. t = [shape |-> t.shape, data |-> t.data] /\ DOMAIN t.data = Places(t.shape) /\ IsShape(t.shape)
    BY DEF TensorOf
  <1>4. PICK a, b, w : a = t.shape /\ b = t.data /\ w = Written(t.data, W)
    OBVIOUS
  <1>5. y = [shape |-> a, data |-> w]
    BY <1>2, <1>3, <1>4
  <1>6. DOMAIN w = Places(a) /\ w = [k \in Places(a) |-> w[k]]
    BY <1>3, <1>4 DEF Written
  <1>7. y.shape = a /\ y.data = w
    BY <1>5
  <1>8. TensorOf(y)
    BY <1>3, <1>4, <1>5, <1>6, <1>7 DEF TensorOf
  <1> QED BY <1>1, <1>4, <1>7, <1>8

(* The memory that SetSubtensor leaves.                                    *)
Overwriting(m, t, l, mem, descs, v, u) ==
    /\ TensorOf(v) /\ v.shape = SelectedShape(descs, t.shape) /\ u = update_layout(l, descs)
    /\ m = IF is_contiguous(l) /\ NumElems(v.shape) = NumElems(t.shape) THEN v.data
           ELSE Copied([c \in Places(t.shape) |-> Read(mem, c)], unsigned(u.offset), u.in,
                       v.data, 0, force_layout_contiguous(v.shape), NumElems(u.in.dims))

(* Its second iterator, over a copy of the input.                          *)
Overwritten(m, copy, u, v) ==
    m = Copied(copy, unsigned(u.offset), u.in, v.data, 0, force_layout_contiguous(v.shape), NumElems(u.in.dims))

LEMMA DenseCells ==
    ASSUME NEW l, Runs(l), Dense(l)
    PROVE  \A k \in Places(l.dims) : Dot(Coords(l.dims, k), l.stride) = k
  <1>1. ASSUME NEW k \in Places(l.dims) PROVE Dot(Coords(l.dims, k), l.stride) = k
    <2>1. PICK c : c = Coords(l.dims, k)
      OBVIOUS
    <2>2. IsShape(l.dims)
      BY DEF Runs
    <2>3. InBox(c, l.dims)
      BY <2>1, <2>2, PlacesTyped, CoordsInBox
    <2>4. Dot(c, l.stride) = Place(l.dims, c)
      BY <2>3, DenseOrder
    <2>5. Place(l.dims, c) = k
      BY <2>1, <2>2, PlaceOfCoords
    <2> QED BY <2>1, <2>4, <2>5
  <1> QED BY <1>1

(* The writes of the second iterator are those that are meant.             *)
LEMMA WritesAre ==
    ASSUME NEW t, NEW l, NEW mem, Loaded(t, l, mem), Dense(l), NEW descs, NEW v, TensorOf(v),
           v.shape = SelectedShape(descs, t.shape), NEW u, NEW F, NEW P, UpdateSees(u, l, descs, F, P),
           NEW W, Overwrites(W, t, descs, v), NEW copy, NEW m, Overwritten(m, copy, u, v)
    PROVE  m = Written(copy, W)
  <1>1. PICK s : s = t.shape /\ s = l.dims /\ Runs(l) /\ IsShape(s)
    BY DEF Loaded, Runs
  <1>2. PICK q, x, from, N : q = v.shape /\ x = u.offset /\ from = u.in /\ N = NumElems(u.in.dims)
    OBVIOUS
  <1>3. q = u.out /\ IsShape(q) /\ Runs(from) /\ N = NumElems(from.dims) /\ N = NumElems(q) /\ x = Dot(F, l.stride)
    BY <1>1, <1>2 DEF UpdateSees
  <1>4. unsigned(x) = x
    <2>1. InBox(F, s)
      BY <1>1, FirstSelected
    <2>2. x = Place(s, F)
      BY <1>1, <1>3, <2>1, DenseOrder
    <2>3. Place(s, F) \in Places(s)
      BY <1>1, <2>1, CoordsOfPlace
    <2>4. x \in Nat
      BY <1>1, <2>2, <2>3, PlacesTyped
    <2> QED BY <2>4 DEF unsigned
  <1>5. PICK y : y = force_layout_contiguous(q)
    OBVIOUS
  <1>6. Runs(y) /\ y.dims = q /\ \A k \in Places(q) : Dot(Coords(q, k), y.stride) = k
    <2>1. /\ Runs(y) /\ y.dims = q /\ y.stride = RowMajor(q) /\ Dense(y)
          /\ \A k \in Places(q) : Dot(Coords(q, k), y.stride) = k
          /\ \A i \in 1..Len(q) : y.stride[i] \in Nat
      BY ONLY <1>3, <1>5, ContiguousRuns
    <2> QED BY ONLY <2>1
  <1>7. PICK V : V = v.data
    OBVIOUS
  <1>8. Copied(copy, x, from, V, 0, y, N) =
            Written(copy, {[at |-> x + Dot(Coords(from.dims, k), from.stride),
                            elem |-> Read(V, 0 + Dot(Coords(y.dims, k), y.stride))] : k \in 0..N - 1})
    <2>1. Iterates(from, y, N)
      BY <1>3, <1>6 DEF Iterates
    <2> QED BY ONLY <2>1, CopiedIs
  <1>9. 0..N - 1 = Places(q)
    BY <1>3 DEF Places
  <1>10. ASSUME NEW k \in Places(q)
         PROVE  /\ x + Dot(Coords(from.dims, k), from.stride) = Place(s, SourceCoords(descs, s, Coords(q, k)))
                /\ Read(V, 0 + Dot(Coords(y.dims, k), y.stride)) = V[k]
    <2>1. PICK b : b = SourceCoords(descs, s, Coords(q, k))
      OBVIOUS
    <2>2. InBox(b, s) /\ x + Dot(Coords(from.dims, k), from.stride) = Dot(b, l.stride)
      <3>1. \A j \in Places(u.out) :
              /\ InBox(SourceCoords(descs, l.dims, Coords(u.out, j)), l.dims)
              /\ u.offset + Dot(Coords(u.in.dims, j), u.in.stride)
                     = Dot(SourceCoords(descs, l.dims, Coords(u.out, j)), l.stride)
        BY ONLY UpdateSees(u, l, descs, F, P) DEF UpdateSees
      <3> QED BY ONLY <1>1, <1>2, <1>3, <1>10, <2>1, <3>1
    <2>3. Dot(b, l.stride) = Place(s, b)
      BY <1>1, <2>2, DenseOrder
    <2>4. k \in DOMAIN V /\ k \in Int
      BY <1>2, <1>3, <1>7, PlacesTyped DEF TensorOf
    <2>5. 0 + Dot(Coords(y.dims, k), y.stride) = k
      BY <1>6, <2>4
    <2> QED BY <2>1, <2>2, <2>3, <2>4, <2>5 DEF Read
  <1>11. PICK A, B : /\ A = [k \in Places(q) |-> Place(s, SourceCoords(descs, s, Coords(q, k)))]
                     /\ B = [k \in Places(q) |-> V[k]]
    OBVIOUS
  <1>12. W = {[at |-> A[k], elem |-> B[k]] : k \in Places(q)}
    <2>1. W = {[at |-> Place(s, SourceCoords(descs, s, Coords(q, k))), elem |-> V[k]] : k \in Places(q)}
      BY ONLY <1>1, <1>2, <1>7, Overwrites(W, t, descs, v) DEF Overwrites
    <2>2. \A k \in Places(q) : A[k] = Place(s, SourceCoords(descs, s, Coords(q, k))) /\ B[k] = V[k]
      BY ONLY <1>11
    <2> QED BY ONLY <2>1, <2>2
  <1>13. PICK W2 : W2 = {[at |-> x + Dot(Coords(from.dims, k), from.stride),
                          elem |-> Read(V, 0 + Dot(Coords(y.dims, k), y.stride))] : k \in 0..N - 1}
    OBVIOUS
  <1>14. W2 = {[at |-> A[k], elem |-> B[k]] : k \in Places(q)}
    <2>1. \A k \in Places(q) : /\ x + Dot(Coords(from.dims, k), from.stride) = A[k]
                               /\ Read(V, 0 + Dot(Coords(y.dims, k), y.stride)) = B[k]
      BY ONLY <1>10, <1>11
    <2> QED BY ONLY <1>9, <1>13, <2>1
  <1>15. Copied(copy, x, from, V, 0, y, N) = Written(copy, W)
    BY ONLY <1>8, <1>12, <1>13, <1>14
  <1>16. m = Copied(copy, unsigned(x), from, V, 0, y, N)
    <2>1. m = Copied(copy, unsigned(u.offset), u.in, v.data, 0, force_layout_contiguous(v.shape), NumElems(u.in.dims))
      BY DEF Overwritten
    <2> QED BY ONLY <1>2, <1>5, <1>7, <2>1
  <1> QED BY ONLY <1>4, <1>15, <1>16

LEMMA SetSubtensorLoaded ==
    ASSUME NEW t, NEW l, NEW mem, Loaded(t, l, mem), Dense(l), NEW descs, Forth(descs, t.shape),
           Valid(descs, t.shape), NEW v, NEW u, NEW m, Overwriting(m, t, l, mem, descs, v, u)
    PROVE  Loaded(SetSubTensor(t, descs, v), l, m) /\ Places(t.shape) \subseteq DOMAIN m
  <1>1. PICK s : s = t.shape /\ s = l.dims /\ Runs(l) /\ IsShape(s) /\ TensorOf(t)
    BY DEF Loaded, Runs
  <1>2. PICK q : q = v.shape /\ TensorOf(v) /\ q = SelectedShape(descs, s) /\ IsShape(q)
    BY <1>1 DEF Overwriting, TensorOf
  <1>3. u = update_layout(l, descs)
    BY DEF Overwriting
  <1>4. PICK F, P : UpdateSees(u, l, descs, F, P)
    <2>1. Forth(descs, l.dims) /\ Valid(descs, l.dims)
      BY <1>1
    <2> QED BY ONLY <1>1, <1>3, <2>1, UpdatedLayout
  <1>5. PICK W : Overwrites(W, t, descs, v)
    BY DEF Overwrites
  <1>6. PICK y : y = SetSubTensor(t, descs, v)
    OBVIOUS
  <1>7. TensorOf(y) /\ y.shape = s /\ y.data = Written(t.data, W)
    <2>1. /\ TensorOf(SetSubTensor(t, descs, v)) /\ SetSubTensor(t, descs, v).shape = t.shape
          /\ SetSubTensor(t, descs, v).data = Written(t.data, W)
      BY ONLY <1>1, <1>5, SetSubTensorIs
    <2> QED BY ONLY <1>1, <1>6, <2>1
  <1>8. \A k \in Places(s) : Dot(Coords(s, k), l.stride) = k
    BY <1>1, DenseCells
  <1>9. m = y.data
    <2>1. CASE is_contiguous(l) /\ NumElems(v.shape) = NumElems(t.shape)
      <3>1. m = v.data
        BY <2>1 DEF Overwriting
      <3>2. u.out = q /\ NumElems(u.out) = NumElems(l.dims)
        BY <1>1, <1>2, <1>4, <2>1 DEF UpdateSees
      <3>3. \A k \in Places(s) : Place(s, SourceCoords(descs, s, Coords(q, k))) = k
        <4>1. \A k \in Places(l.dims) : Place(l.dims, SourceCoords(descs, l.dims, Coords(u.out, k))) = k
          BY ONLY <1>1, <1>4, <3>2, WholeSelected
        <4> QED BY ONLY <1>1, <3>2, <4>1
      <3>4. Places(q) = Places(s)
        BY <1>1, <3>2 DEF Places
      <3>5. PICK V, T : V = v.data /\ T = Places(s)
        OBVIOUS
      <3>6. DOMAIN V = T /\ V = [k \in T |-> V[k]] /\ DOMAIN t.data = T
        BY <1>1, <1>2, <3>4, <3>5 DEF TensorOf
      <3>7. PICK A : A = [k \in T |-> k]
        OBVIOUS
      <3>8. W = {[at |-> A[k], elem |-> V[k]] : k \in T}
        <4>1. W = {[at |-> Place(s, SourceCoords(descs, s, Coords(q, k))), elem |-> V[k]] : k \in Places(q)}
          BY ONLY <1>1, <1>2, <1>5, <3>5 DEF Overwrites
        <4>2. \A k \in T : Place(s, SourceCoords(descs, s, Coords(q, k))) = A[k]
          BY ONLY <3>3, <3>5, <3>7
        <4> QED BY ONLY <3>4, <3>5, <4>1, <4>2
      <3>9. Writing(W, T, A, V)
        BY <3>7, <3>8 DEF Writing
      <3>10. PICK D : D = t.data
        OBVIOUS
      <3>11. /\ DOMAIN Written(D, W) = DOMAIN D
             /\ \A k \in T : A[k] \in DOMAIN D => Written(D, W)[A[k]] = V[k]
        <4>1. /\ DOMAIN Written(D, W) = DOMAIN D
              /\ \A k \in T : A[k] \in DOMAIN D => Written(D, W)[A[k]] = V[k]
              /\ \A c \in DOMAIN D : (\A k \in T : A[k] # c) => Written(D, W)[c] = D[c]
          BY ONLY <3>9, WrittenAt
        <4> QED BY ONLY <4>1
      <3>12. PICK z : z = y.data /\ z = Written(D, W)
        BY <1>7, <3>10
      <3>13. \A k \in T : z[k] = V[k]
        BY <3>6, <3>7, <3>10, <3>11, <3>12
      <3>14. z = [k \in T |-> z[k]]
        BY <1>1, <1>7, <3>5, <3>12 DEF TensorOf
      <3>15. z = V
        BY ONLY <3>6, <3>13, <3>14
      <3> QED BY <3>1, <3>5, <3>12, <3>15
    <2>2. CASE ~(is_contiguous(l) /\ NumElems(v.shape) = NumElems(t.shape))
      <3>1. PICK copy : copy = [c \in Places(s) |-> Read(mem, c)]
        OBVIOUS
      <3>2. Overwritten(m, copy, u, v)
        BY <1>1, <2>2, <3>1 DEF Overwriting, Overwritten
      <3>3. Loaded(t, l, mem) /\ Dense(l) /\ v.shape = SelectedShape(descs, t.shape)
        BY <1>1, <1>2
      <3>4. m = Written(copy, W)
        <4>1. TensorOf(v)
          BY <1>2
        <4> QED BY ONLY <1>4, <1>5, <3>2, <3>3, <4>1, WritesAre
      <3>5. copy = t.data
        <4>1. PICK D : D = t.data
          OBVIOUS
        <4>2. D = [k \in Places(s) |-> D[k]]
          BY <1>1, <4>1 DEF TensorOf
        <4>3. \A k \in Places(s) : Read(mem, k) = D[k]
          BY <1>1, <1>8, <4>1 DEF Loaded, Read
        <4> QED BY <3>1, <4>1, <4>2, <4>3
      <3> QED BY <1>7, <3>4, <3>5
    <2> QED BY <2>1, <2>2
  <1>10. DOMAIN m = Places(s)
    BY <1>7, <1>9 DEF TensorOf
  <1>11. Loaded(y, l, m)
    BY <1>1, <1>7, <1>8, <1>9, <1>10 DEF Loaded
  <1> QED BY <1>1, <1>6, <1>10, <1>11

-----------------------------------------------------------------------------
(* The invariant of the instructions, and that every step keeps it.        *)

(* A view of the compiler, as the operand of an instruction.               *)
Exported(m, l, mem) ==
    m = [c \in {b - Cell(l, 0) : b \in DOMAIN mem} |-> mem[c + Cell(l, 0)]]

LEMMA ViewLoaded ==
    ASSUME NEW t, NEW mem, NEW l, NEW p, Standing(t, mem, l, p), NEW m, Exported(m, l, mem)
    PROVE  Loaded(t, [dims |-> l.shape, stride |-> l.stride], m)
  <1>1. PICK s : s = t.shape /\ s = l.shape /\ IsShape(s) /\ TensorOf(t) /\ Reads(l, mem, t) /\ Layout(l)
    BY DEF Standing, TensorOf, Reads
  <1>2. PICK x : x = Cell(l, 0)
    OBVIOUS
  <1>3. x = l.offset \div DtypeSize /\ x \in Int
    <2>1. Cell(l, 0) = l.offset \div DtypeSize
      BY <1>1, CellZero
    <2>2. 0 \in Places(l.shape)
      BY <1>1, PlacesTyped
    <2>3. Cell(l, 0) \in Int
      BY <1>1, <2>2, CellOf
    <2> QED BY <1>2, <2>1, <2>3
  <1>4. m = [c \in {b - x : b \in DOMAIN mem} |-> mem[c + x]]
    BY <1>2 DEF Exported
  <1>5. PICK r : r = [dims |-> s, stride |-> l.stride]
    OBVIOUS
  <1>6. Runs(r) /\ r.dims = s /\ r.stride = l.stride
    BY <1>1, <1>5 DEF Runs, Layout
  <1>7. ASSUME NEW k \in Places(s)
        PROVE  Dot(Coords(s, k), r.stride) \in DOMAIN m /\ m[Dot(Coords(s, k), r.stride)] = t.data[k]
    <2>1. PICK y, a : y = Dot(Coords(s, k), r.stride) /\ a = Cell(l, k)
      OBVIOUS
    <2>2. a = x + y
      BY <1>1, <1>3, <1>6, <2>1 DEF Cell
    <2>3. a \in DOMAIN mem /\ mem[a] = t.data[k] /\ a \in Int
      BY <1>1, <1>7, <2>1, CellOf DEF Reads
    <2>4. y \in Int
      <3>1. Len(s) \in Nat \ {0} /\ r.stride \in [1..Len(s) -> Int]
        BY <1>1, <1>6, ShapeTyped DEF Layout
      <3>2. \A i \in 1..Len(s) : Coords(s, k)[i] \in Int
        <4>1. InBox(Coords(s, k), s)
          BY <1>1, <1>7, CellOf
        <4>2. s \in [1..Len(s) -> Nat \ {0}]
          BY <1>1, ShapeTyped
        <4> QED BY <4>1, <4>2 DEF InBox
      <3>3. PICK n, c, u : n = Len(s) /\ c = Coords(s, k) /\ u = r.stride
        OBVIOUS
      <3>4. n \in Nat /\ u \in [1..n -> Int] /\ \A i \in 1..n : c[i] \in Int
        BY <3>1, <3>2, <3>3
      <3>5. Row(n, c, u)
        BY ONLY <3>4, RowOf
      <3>6. Dot(c, u) \in Int
        BY ONLY <3>5, DotInt
      <3> QED BY <2>1, <3>3, <3>6
    <2>5. y = a - x /\ y + x = a
      BY <1>3, <2>2, <2>3, <2>4
    <2>6. y \in DOMAIN m /\ m[y] = mem[y + x]
      BY <1>4, <2>3, <2>5
    <2> QED BY <2>1, <2>3, <2>5, <2>6
  <1> QED BY <1>1, <1>5, <1>6, <1>7 DEF Loaded

(***************************************************************************)
(***************************************************************************)
(* The invariant of the instructions: the tensor in memory is the one that *)
(* is meant, until one is given what it cannot take.  After the first      *)
(* instruction it is dense, which is why only a view of the compiler can   *)
(* be reversed or strided.                                                 *)
(***************************************************************************)
Output(t, l, mem) == Loaded(t, l, mem) /\ Dense(l) /\ Places(t.shape) \subseteq DOMAIN mem
InstrInv ==
    /\ executed \in Nat
    /\ unfit = {} => /\ Loaded(meant, tensor.layout, tensor.mem)
                     /\ executed > 0 => Output(meant, tensor.layout, tensor.mem)

LEMMA DenseLoaded ==
    ASSUME NEW t, NEW s, t.shape = s, NEW l, l = force_layout_contiguous(s), NEW mem, Loaded(t, l, mem)
    PROVE  Output(t, l, mem)
  <1>1. IsShape(s) /\ l.dims = s
    BY DEF Loaded, TensorOf
  <1>2. Dense(l) /\ \A k \in Places(s) : Dot(Coords(s, k), l.stride) = k
    <2>1. /\ Runs(l) /\ l.dims = s /\ l.stride = RowMajor(s) /\ Dense(l)
          /\ \A k \in Places(s) : Dot(Coords(s, k), l.stride) = k
          /\ \A i \in 1..Len(s) : l.stride[i] \in Nat
      BY ONLY <1>1, l = force_layout_contiguous(s), ContiguousRuns
    <2> QED BY ONLY <2>1
  <1> QED BY <1>2 DEF Output, Loaded

(* What an instruction that makes a new tensor leaves.                     *)
LEMMA ExecutedKeeps ==
    ASSUME executed \in Nat, NEW r, NEW t, NEW l, NEW mem, Executed(r, t, l, mem), Output(t, l, mem)
    PROVE  InstrInv'
  <1>1. meant' = t /\ tensor' = [layout |-> l, mem |-> mem] /\ executed' = executed + 1
    BY DEF Executed
  <1>2. tensor'.layout = l /\ tensor'.mem = mem
    BY <1>1
  <1>3. Output(meant, tensor.layout, tensor.mem)'
    BY <1>1, <1>2
  <1>4. Loaded(meant, tensor.layout, tensor.mem)'
    BY <1>3 DEF Output
  <1>5. (executed \in Nat)'
    BY <1>1
  <1> QED BY <1>3, <1>4, <1>5 DEF InstrInv

(* An instruction that could take what it was given, and all before it.    *)
LEMMA FitStep ==
    ASSUME NEW r, NEW t, NEW l, NEW mem, Executed(r, t, l, mem), unfit' = {}
    PROVE  r = {} /\ unfit = {}
  BY DEF Executed

LEMMA InstrHolds ==
    ASSUME InstrInv
    PROVE  InstructionsFaithful /\ TypeOKInstrs
  <1>1. CASE unfit # {}
    BY <1>1 DEF InstrInv, InstructionsFaithful, TypeOKInstrs
  <1>2. CASE unfit = {}
    <2>1. PICK t, l, mem : t = meant /\ l = tensor.layout /\ mem = tensor.mem
      OBVIOUS
    <2>2. /\ Loaded(t, l, mem) /\ executed \in Nat
          /\ executed > 0 => Dense(l) /\ Places(t.shape) \subseteq DOMAIN mem
      BY <1>2, <2>1 DEF InstrInv, Output
    <2>3. PICK s : s = t.shape /\ s = l.dims /\ IsShape(s) /\ Runs(l)
      BY <2>2 DEF Loaded, Runs
    <2>4. Len(l.stride) = Len(s)
      <3>1. Len(s) \in Nat \ {0} /\ l.stride \in [1..Len(s) -> Int]
        BY <2>3, ShapeTyped DEF Runs
      <3> QED BY <3>1, FunctionSeq
    <2>5. \A k \in Places(s) : Read(mem, Dot(Coords(s, k), l.stride)) = t.data[k]
      BY <2>2, <2>3 DEF Loaded, Read
    <2> QED BY <2>1, <2>2, <2>3, <2>4, <2>5 DEF InstructionsFaithful, TypeOKInstrs
  <1> QED BY <1>1, <1>2

LEMMA InitLoads ==
    ASSUME OperandsSuit, Init
    PROVE  InstrInv
  <1>1. PICK s : /\ s = value.shape /\ meant = [shape |-> s, data |-> [k \in Places(s) |-> k]]
                 /\ tensor = [layout |-> force_layout_contiguous(s), mem |-> meant.data] /\ executed = 0
    BY DEF Init, InitInstrs
  <1>2. IsShape(s)
    BY <1>1 DEF Init, InitViews, OperandsSuit
  <1>3. PICK t : t = meant
    OBVIOUS
  <1>4. TensorOf(t) /\ t.shape = s
    BY <1>1, <1>2, <1>3 DEF TensorOf
  <1>5. PICK m : m = t.data
    OBVIOUS
  <1>6. DOMAIN m = Places(t.shape) /\ \A k \in Places(t.shape) : m[k] = t.data[k]
    BY <1>4, <1>5 DEF TensorOf
  <1>7. Loaded(t, force_layout_contiguous(t.shape), m)
    BY ONLY <1>4, <1>6, FreshTensor
  <1> QED BY <1>1, <1>3, <1>4, <1>5, <1>7 DEF InstrInv

LEMMA ToRuntimeLoads ==
    ASSUME ViewInv, InstrInv, ToRuntime, executed = 0
    PROVE  InstrInv'
  <1>1. PICK t, mem, l, p : t = value /\ mem = buffer /\ l = memref /\ p = planned
    OBVIOUS
  <1>2. Standing(t, mem, l, p)
    BY <1>1 DEF ViewInv
  <1>3. PICK m : Exported(m, l, mem)
    BY DEF Exported
  <1>4. Loaded(t, [dims |-> l.shape, stride |-> l.stride], m)
    BY ONLY <1>2, <1>3, ViewLoaded
  <1>5. /\ meant' = t /\ tensor' = [layout |-> [dims |-> l.shape, stride |-> l.stride], mem |-> m]
        /\ executed' = executed /\ unfit' = unfit
    BY <1>1, <1>3 DEF ToRuntime, memref_to_tensor, Exported
  <1>6. tensor'.layout = [dims |-> l.shape, stride |-> l.stride] /\ tensor'.mem = m
    BY <1>5
  <1>7. Loaded(meant, tensor.layout, tensor.mem)'
    BY <1>4, <1>5, <1>6
  <1>8. (executed = 0)'
    BY <1>5
  <1> QED BY <1>7, <1>8 DEF InstrInv

LEMMA InstrDescsForth ==
    ASSUME OperandsSuit, NEW s, IsShape(s), NEW descs, descs \in InstrDescs(s), ~CountedBack(descs)
    PROVE  Forth(descs, s)
  <1>1. PICK n \in Nat \ {0} : n = Len(s) /\ s \in [1..n -> Nat \ {0}]
    BY ShapeTyped
  <1>2. ASSUME NEW d \in descs PROVE d.axis \in 0..n - 1 /\ IsDesc(d, s[d.axis + 1], 0, Nat \ {0})
    <2>1. d.axis \in 0..n - 1 /\ IsDesc(d, s[d.axis + 1], -s[d.axis + 1], Int \ {0}) /\ ~CountsBack(d)
      BY <1>1, <1>2 DEF OperandsSuit, OperandsFit, CountedBack
    <2>2. PICK x : x = s[d.axis + 1] /\ x \in Nat \ {0}
      BY <1>1, <2>1
    <2>3. /\ d.step \in Int \ {0} /\ d.index \in {Missing} \cup 0..x - 1
          /\ d.begin \in {Missing} \cup -x..x - 1 /\ d.end \in {Missing} \cup -x..x
      BY <2>1, <2>2 DEF IsDesc
    <2>4. d.step \in Nat \ {0} /\ d.begin \in {Missing} \cup 0..x - 1 /\ d.end \in {Missing} \cup 0..x
      BY <2>1, <2>2, <2>3 DEF CountsBack
    <2> QED BY <2>1, <2>2, <2>3, <2>4 DEF IsDesc
  <1> QED BY <1>1, <1>2 DEF Forth

LEMMA execute_subtensorStep ==
    ASSUME OperandsSuit, InstrInv, NEW descs, descs \in InstrDescs(meant.shape), execute_subtensor(descs), unfit' = {}
    PROVE  InstrInv'
  <1>1. PICK t, l, mem : t = meant /\ l = tensor.layout /\ mem = tensor.mem
    OBVIOUS
  <1>2. PICK u : u = update_layout(l, descs)
    OBVIOUS
  <1>3. PICK m : m = Copied(alloc_tensor(u.out), 0, force_layout_contiguous(u.out), mem, unsigned(u.offset), u.in,
                            NumElems(u.out))
    OBVIOUS
  <1>4. PICK reasons : reasons = IF CountedBack(descs) THEN {"backward"} ELSE Unless(u.offset >= 0, "reversed")
    OBVIOUS
  <1>5. PICK r, y : r = force_layout_contiguous(u.out) /\ y = SubTensor(t, descs)
    OBVIOUS
  <1>6. Executed(reasons, y, r, m) /\ Valid(descs, t.shape)
    BY <1>1, <1>2, <1>3, <1>4, <1>5 DEF execute_subtensor
  <1>7. reasons = {} /\ unfit = {}
    BY <1>6, FitStep
  <1>8. ~CountedBack(descs) /\ u.offset >= 0
    BY <1>4, <1>7 DEF Unless
  <1>9. Loaded(t, l, mem) /\ IsShape(t.shape) /\ executed \in Nat
    BY <1>1, <1>7 DEF InstrInv, Loaded, TensorOf
  <1>10. Forth(descs, t.shape)
    BY <1>1, <1>8, <1>9, InstrDescsForth
  <1>11. Loaded(SubTensor(t, descs), force_layout_contiguous(u.out), m)
    BY ONLY <1>2, <1>3, <1>6, <1>8, <1>9, <1>10, SubtensorLoaded
  <1>12. y.shape = u.out
    <2>1. r.dims = u.out
      BY <1>5 DEF force_layout_contiguous
    <2> QED BY <1>5, <1>11, <2>1 DEF Loaded
  <1>13. Output(y, r, m)
    BY ONLY <1>5, <1>11, <1>12, DenseLoaded
  <1> QED BY <1>6, <1>9, <1>13, ExecutedKeeps

LEMMA execute_setsubtensorStep ==
    ASSUME OperandsSuit, InstrInv, NEW descs, descs \in InstrDescs(meant.shape), execute_setsubtensor(descs), unfit' = {}
    PROVE  InstrInv'
  <1>1. PICK t, l, mem : t = meant /\ l = tensor.layout /\ mem = tensor.mem
    OBVIOUS
  <1>2. PICK u, v : /\ u = update_layout(l, descs)
                    /\ v = [shape |-> SelectedShape(descs, t.shape),
                            data |-> [k \in Places(SelectedShape(descs, t.shape)) |-> -1 - k]]
    OBVIOUS
  <1>3. PICK m : m = IF is_contiguous(l) /\ NumElems(v.shape) = NumElems(t.shape) THEN v.data
                     ELSE Copied([c \in Places(t.shape) |-> Read(mem, c)], unsigned(u.offset), u.in,
                                 v.data, 0, force_layout_contiguous(v.shape), NumElems(u.in.dims))
    OBVIOUS
  <1>4. PICK reasons : reasons = IF CountedBack(descs) THEN {"backward"} ELSE Unless(Dense(l), "strided")
    OBVIOUS
  <1>5. v.shape = SelectedShape(descs, t.shape)
    BY <1>2
  <1>6. Executed(reasons, SetSubTensor(t, descs, v), l, m) /\ Valid(descs, t.shape)
    BY <1>1, <1>2, <1>3, <1>4, <1>5 DEF execute_setsubtensor
  <1>7. reasons = {} /\ unfit = {}
    BY <1>6, FitStep
  <1>8. ~CountedBack(descs) /\ Dense(l)
    BY <1>4, <1>7 DEF Unless
  <1>9. Loaded(t, l, mem) /\ IsShape(t.shape) /\ l.dims = t.shape /\ executed \in Nat
    BY <1>1, <1>7 DEF InstrInv, Loaded, TensorOf
  <1>10. Forth(descs, t.shape)
    BY <1>1, <1>8, <1>9, InstrDescsForth
  <1>11. TensorOf(v)
    <2>1. PICK q : q = SelectedShape(descs, t.shape)
      OBVIOUS
    <2>2. IsShape(q)
      <3>1. Forth(descs, l.dims) /\ Valid(descs, l.dims) /\ Runs(l)
        BY <1>6, <1>9, <1>10 DEF Loaded
      <3>2. PICK F, P : UpdateSees(u, l, descs, F, P)
        BY ONLY <1>2, <3>1, UpdatedLayout
      <3>3. u.out = SelectedShape(descs, l.dims) /\ IsShape(u.out)
        BY ONLY <3>2 DEF UpdateSees
      <3> QED BY <1>9, <2>1, <3>3
    <2> QED BY <1>2, <2>1, <2>2 DEF TensorOf
  <1>12. Overwriting(m, t, l, mem, descs, v, u)
    BY <1>2, <1>3, <1>5, <1>11 DEF Overwriting
  <1>13. Loaded(SetSubTensor(t, descs, v), l, m) /\ Places(t.shape) \subseteq DOMAIN m
    BY ONLY <1>6, <1>8, <1>9, <1>10, <1>12, SetSubtensorLoaded
  <1>14. PICK y : y = SetSubTensor(t, descs, v)
    OBVIOUS
  <1>15. Output(y, l, m)
    <2>1. y.shape = t.shape
      BY <1>9, <1>13, <1>14 DEF Loaded
    <2> QED BY <1>8, <1>13, <1>14, <2>1 DEF Output
  <1> QED BY <1>6, <1>9, <1>14, <1>15, ExecutedKeeps

LEMMA execute_dimshuffleStep ==
    ASSUME OperandsSuit, InstrInv, NEW pattern, pattern \in Patterns(meant.shape), execute_dimshuffle(pattern),
           unfit' = {}
    PROVE  InstrInv'
  <1>1. PICK t, l, mem : t = meant /\ l = tensor.layout /\ mem = tensor.mem
    OBVIOUS
  <1>2. Loaded(t, l, mem) /\ IsShape(t.shape) /\ executed \in Nat
    <2>1. unfit = {}
      BY FitStep DEF execute_dimshuffle
    <2> QED BY <1>1, <2>1 DEF InstrInv, Loaded, TensorOf
  <1>3. PatternOf(pattern, Len(t.shape)) /\ Len(pattern) = Len(t.shape)
    <2>1. Len(t.shape) \in Nat \ {0}
      BY <1>2, ShapeTyped
    <2>2. OperandsFit(t.shape) /\ pattern \in Patterns(t.shape)
      BY <1>1, <1>2 DEF OperandsSuit
    <2> QED BY <1>1, <2>1, <2>2 DEF OperandsFit, PatternOf, execute_dimshuffle
  <1>4. PICK from : Shuffling(from, l, pattern)
    BY DEF Shuffling
  <1>5. PICK m : m = Copied(alloc_tensor(from.dims), 0, force_layout_contiguous(from.dims), mem, 0, from,
                            NumElems(from.dims))
    OBVIOUS
  <1>6. Loaded(DimShuffle(t, pattern), force_layout_contiguous(from.dims), m)
    BY ONLY <1>2, <1>3, <1>4, <1>5, DimshuffleLoaded
  <1>7. Executed({}, DimShuffle(t, pattern), force_layout_contiguous(from.dims), m)
    BY <1>1, <1>4, <1>5 DEF execute_dimshuffle, Shuffling
  <1>8. PICK r, y : r = force_layout_contiguous(from.dims) /\ y = DimShuffle(t, pattern)
    OBVIOUS
  <1>9. y.shape = from.dims
    <2>1. r.dims = from.dims
      BY <1>8 DEF force_layout_contiguous
    <2> QED BY <1>6, <1>8, <2>1 DEF Loaded
  <1>10. Output(y, r, m)
    BY ONLY <1>6, <1>8, <1>9, DenseLoaded
  <1> QED BY <1>2, <1>7, <1>8, <1>10, ExecutedKeeps

(* What execute_broadcast() makes of the layout, reading dims[i]; and when *)
(* that is what it should be.                                              *)
ReadsOne(l, stale, i) == IF i \in Axes(l.dims) THEN l.dims[i] = 1 ELSE i \in stale
AsRead(l, dims, new, stale) ==
    [dims |-> dims,
     stride |-> [i \in DOMAIN dims |->
         IF i <= new \/ (ReadsOne(l, stale, i) /\ dims[i] # 1) THEN 0 ELSE l.stride[i - new]]]
RightAlong(l, dims, new, stale, i) == dims[i] # 1 => (ReadsOne(l, stale, i) <=> l.dims[i - new] = 1)
Right(l, dims, new, stale) == \A i \in new + 1..Len(dims) : RightAlong(l, dims, new, stale, i)

LEMMA RightBroadcasts ==
    ASSUME NEW l, NEW dims, NEW new, new \in Int, Len(dims) \in Nat, DOMAIN dims = 1..Len(dims), NEW stale,
           Right(l, dims, new, stale)
    PROVE  Broadcasting(AsRead(l, dims, new, stale), l, dims, new)
  <1>1. ASSUME NEW i \in DOMAIN dims
        PROVE  (i <= new \/ (ReadsOne(l, stale, i) /\ dims[i] # 1)) <=> Repeating(l, dims, new, i)
    <2>1. CASE i <= new
      BY <2>1 DEF Repeating
    <2>2. CASE ~(i <= new)
      <3>1. i \in new + 1..Len(dims)
        BY <2>2
      <3>2. RightAlong(l, dims, new, stale, i)
        BY <3>1 DEF Right
      <3> QED BY <2>2, <3>2 DEF RightAlong, Repeating
    <2> QED BY <2>1, <2>2
  <1> QED BY <1>1 DEF Broadcasting, AsRead

LEMMA execute_broadcastStep ==
    ASSUME OperandsSuit, InstrInv, NEW dims, dims \in BroadcastShapes(meant.shape), execute_broadcast(dims),
           unfit' = {}
    PROVE  InstrInv'
  <1>1. PICK t, l, mem, new : t = meant /\ l = tensor.layout /\ mem = tensor.mem /\ new = Len(dims) - Len(l.dims)
    OBVIOUS
  <1>2. new >= 0 /\ \A i \in Axes(l.dims) : l.dims[i] \in {1, dims[new + i]}
    BY <1>1 DEF execute_broadcast
  <1>3. PICK stale : Executed(Unless(Right(l, dims, new, stale), "raised"), BroadCast(t, dims), force_layout_contiguous(dims),
                         Copied(alloc_tensor(dims), 0, force_layout_contiguous(dims), mem, 0,
                                AsRead(l, dims, new, stale), NumElems(dims)))
    BY <1>1 DEF execute_broadcast, Right, RightAlong, ReadsOne, AsRead
  <1>4. PICK from, m, reasons :
            /\ from = AsRead(l, dims, new, stale) /\ reasons = Unless(Right(l, dims, new, stale), "raised")
            /\ m = Copied(alloc_tensor(dims), 0, force_layout_contiguous(dims), mem, 0, from, NumElems(dims))
    OBVIOUS
  <1>5. Executed(reasons, BroadCast(t, dims), force_layout_contiguous(dims), m)
    BY <1>3, <1>4
  <1>6. reasons = {} /\ unfit = {}
    BY <1>5, FitStep
  <1>7. Loaded(t, l, mem) /\ IsShape(t.shape) /\ l.dims = t.shape /\ executed \in Nat
    BY <1>1, <1>6 DEF InstrInv, Loaded, TensorOf
  <1>8. IsShape(dims) /\ Len(dims) \in Nat /\ DOMAIN dims = 1..Len(dims) /\ Len(t.shape) \in Nat
    <2>1. OperandsFit(t.shape) /\ dims \in BroadcastShapes(t.shape)
      BY <1>1, <1>7 DEF OperandsSuit
    <2>2. IsShape(dims)
      BY <2>1 DEF OperandsFit
    <2> QED BY <1>7, <2>2, ShapeTyped
  <1>9. new \in Int /\ Stretches(t, dims, new)
    <2>1. new = Len(dims) - Len(t.shape) /\ new \in Nat /\ Len(dims) = new + Len(t.shape)
      <3>1. PICK a, b : a = Len(dims) /\ b = Len(t.shape) /\ a \in Nat /\ b \in Nat
        BY <1>8
      <3>2. new = a - b
        BY <1>1, <1>7, <3>1
      <3>3. new \in Nat /\ a = new + b
        BY <1>2, <3>1, <3>2
      <3> QED BY ONLY <3>1, <3>2, <3>3
    <2> QED BY <1>2, <1>7, <1>8, <2>1 DEF Stretches
  <1>10. Right(l, dims, new, stale)
    BY <1>4, <1>6 DEF Unless
  <1>11. Broadcasting(from, l, dims, new)
    BY <1>4, <1>8, <1>9, <1>10, RightBroadcasts
  <1>12. Loaded(BroadCast(t, dims), force_layout_contiguous(dims), m)
    BY ONLY <1>4, <1>7, <1>9, <1>11, BroadcastLoaded
  <1>13. PICK r, y : r = force_layout_contiguous(dims) /\ y = BroadCast(t, dims)
    OBVIOUS
  <1>14. y.shape = dims
    <2>1. r.dims = dims
      BY <1>13 DEF force_layout_contiguous
    <2> QED BY <1>12, <1>13, <2>1 DEF Loaded
  <1>15. Output(y, r, m)
    BY ONLY <1>12, <1>13, <1>14, DenseLoaded
  <1> QED BY <1>5, <1>7, <1>13, <1>15, ExecutedKeeps

LEMMA execute_reshapeStep ==
    ASSUME OperandsSuit, InstrInv, NEW tshape, tshape \in NewShapes(meant.shape), execute_reshape(tshape), unfit' = {}
    PROVE  InstrInv'
  <1>1. PICK t, l, mem : t = meant /\ l = tensor.layout /\ mem = tensor.mem
    OBVIOUS
  <1>2. PICK reasons : reasons = Unless(Dense(l), "strided")
    OBVIOUS
  <1>3. Executed(reasons, ReShape(t, tshape), force_layout_contiguous(DeducedDims(l.dims, tshape)), mem)
    BY <1>1, <1>2 DEF execute_reshape, DeducedDims
  <1>4. reasons = {} /\ unfit = {}
    BY <1>3, FitStep
  <1>5. Dense(l)
    BY <1>2, <1>4 DEF Unless
  <1>6. Loaded(t, l, mem) /\ IsShape(t.shape) /\ executed \in Nat
    BY <1>1, <1>4 DEF InstrInv, Loaded, TensorOf
  <1>7. PICK r, n : r = ResolvedShape(NumElems(t.shape), tshape) /\ n = Len(tshape)
    OBVIOUS
  <1>8. NewForm(t, tshape, r) /\ Extents(tshape, n)
    <2>1. OperandsFit(t.shape) /\ tshape \in NewShapes(t.shape)
      BY <1>1, <1>6 DEF OperandsSuit
    <2>2. /\ tshape \in Seq(Int) /\ \A i \in DOMAIN tshape : tshape[i] # 0
          /\ IsShape(r) /\ NumElems(r) = NumElems(t.shape)
      BY <1>7, <2>1 DEF OperandsFit
    <2>3. DOMAIN r = DOMAIN tshape
      BY <1>7 DEF ResolvedShape
    <2>4. n \in Nat /\ DOMAIN tshape = 1..n
      BY <1>7, <2>2
    <2>5. n # 0
      <3>1. Len(r) \in Nat \ {0} /\ DOMAIN r = 1..Len(r)
        BY <2>2, ShapeTyped
      <3>2. 1 \in 1..n
        BY <2>3, <2>4, <3>1
      <3> QED BY <2>4, <3>2
    <2> QED BY <1>7, <2>2, <2>4, <2>5 DEF NewForm, Extents
  <1>9. /\ Loaded(ReShape(t, tshape), force_layout_contiguous(r), mem) /\ DeducedDims(l.dims, tshape) = r
        /\ Places(r) = Places(t.shape) /\ Places(r) \subseteq DOMAIN mem
    BY ONLY <1>6, <1>5, <1>8, ReshapeLoaded
  <1>10. PICK x, y : x = force_layout_contiguous(r) /\ y = ReShape(t, tshape)
    OBVIOUS
  <1>11. y.shape = r
    <2>1. x.dims = r
      BY <1>10 DEF force_layout_contiguous
    <2> QED BY <1>9, <1>10, <2>1 DEF Loaded
  <1>12. Output(y, x, mem)
    BY ONLY <1>9, <1>10, <1>11, DenseLoaded
  <1> QED BY <1>6, <1>9, <1>3, <1>10, <1>12, ExecutedKeeps

(* No instruction is executed while all shapes are known.                  *)
ChainInv ==
    /\ ViewInv /\ InstrInv
    /\ isDynamicShape \in BOOLEAN /\ (isDynamicShape = FALSE => executed = 0)

LEMMA InitChains ==
    ASSUME OperandsSuit, Init
    PROVE  ChainInv
  <1>1. isDynamicShape = FALSE /\ executed = 0
    BY DEF Init, InitInstrs
  <1> QED BY <1>1, InitStands, InitLoads DEF ChainInv

(* One more instruction; and what it was given is not forgotten.           *)
LEMMA ExecuteCounts ==
    ASSUME Execute
    PROVE  executed' = executed + 1
  <1>1. ASSUME NEW descs, execute_subtensor(descs) PROVE executed' = executed + 1
    BY <1>1 DEF execute_subtensor, Executed
  <1>2. ASSUME NEW descs, execute_setsubtensor(descs) PROVE executed' = executed + 1
    BY <1>2 DEF execute_setsubtensor, Executed
  <1>3. ASSUME NEW pattern, execute_dimshuffle(pattern) PROVE executed' = executed + 1
    BY <1>3 DEF execute_dimshuffle, Executed
  <1>4. ASSUME NEW shape, execute_reshape(shape) PROVE executed' = executed + 1
    BY <1>4 DEF execute_reshape, Executed
  <1>5. ASSUME NEW dims, execute_broadcast(dims) PROVE executed' = executed + 1
    BY <1>5 DEF execute_broadcast, Executed
  <1> QED BY <1>1, <1>2, <1>3, <1>4, <1>5 DEF Execute

LEMMA ExecuteLoads ==
    ASSUME OperandsSuit, InstrInv, Execute
    PROVE  InstrInv'
  <1>1. CASE unfit' # {}
    <2>1. (executed \in Nat)'
      BY ExecuteCounts DEF InstrInv
    <2> QED BY <1>1, <2>1 DEF InstrInv
  <1>2. CASE unfit' = {}
    <2>1. ASSUME NEW descs, descs \in InstrDescs(meant.shape), execute_subtensor(descs) PROVE InstrInv'
      BY <1>2, <2>1, execute_subtensorStep
    <2>2. ASSUME NEW descs, descs \in InstrDescs(meant.shape), execute_setsubtensor(descs) PROVE InstrInv'
      BY <1>2, <2>2, execute_setsubtensorStep
    <2>3. ASSUME NEW pattern, pattern \in Patterns(meant.shape), execute_dimshuffle(pattern) PROVE InstrInv'
      BY <1>2, <2>3, execute_dimshuffleStep
    <2>4. ASSUME NEW shape, shape \in NewShapes(meant.shape), execute_reshape(shape) PROVE InstrInv'
      BY <1>2, <2>4, execute_reshapeStep
    <2>5. ASSUME NEW dims, dims \in BroadcastShapes(meant.shape), execute_broadcast(dims) PROVE InstrInv'
      BY <1>2, <2>5, execute_broadcastStep
    <2> QED BY <2>1, <2>2, <2>3, <2>4, <2>5 DEF Execute
  <1> QED BY <1>1, <1>2

LEMMA ChainsKept ==
    ASSUME OperandsSuit, ChainInv, [Next]_vars
    PROVE  ChainInv'
  <1>1. ViewInv /\ InstrInv /\ isDynamicShape \in BOOLEAN /\ (isDynamicShape = FALSE => executed = 0)
    BY DEF ChainInv
  <1>2. ViewInv'
    BY <1>1, ViewsKept
  <1>3. CASE UNCHANGED <<isDynamicShape, instrs>>
    <2>1. /\ meant' = meant /\ tensor' = tensor /\ executed' = executed /\ unfit' = unfit
          /\ isDynamicShape' = isDynamicShape
      BY <1>3 DEF instrs
    <2>2. InstrInv'
      BY <1>1, <2>1 DEF InstrInv
    <2> QED BY <1>1, <1>2, <2>1, <2>2 DEF ChainInv
  <1>4. CASE ToRuntime
    <2>1. isDynamicShape' = TRUE /\ isDynamicShape = FALSE
      BY <1>1, <1>4 DEF ToRuntime
    <2>2. InstrInv'
      BY <1>1, <1>4, <2>1, ToRuntimeLoads
    <2> QED BY <1>2, <2>1, <2>2 DEF ChainInv
  <1>5. CASE Execute /\ UNCHANGED isDynamicShape
    <2>1. isDynamicShape' = TRUE
      BY <1>1, <1>5 DEF Execute
    <2>2. InstrInv'
      BY <1>1, <1>5, ExecuteLoads
    <2> QED BY <1>2, <2>1, <2>2 DEF ChainInv
  <1>6. CASE UNCHANGED vars
    BY <1>3, <1>6 DEF vars
  <1> QED BY <1>3, <1>4, <1>5, <1>6 DEF Next

(* Views, and what the planning pass makes of them (assignOffset()), are   *)
(* of whole elements inside their buffer; a tensor that an instruction     *)
(* makes (alloc_tensor_opt()) is dense and all of it is in memory.         *)
THEOREM ChainsTyped ==
    ASSUME OperandsSuit
    PROVE  Spec => []TypeOK
  <1>1. Init => ChainInv
    BY InitChains
  <1>2. ChainInv /\ [Next]_vars => ChainInv'
    BY ChainsKept
  <1>3. ChainInv => TypeOK
    BY ViewsHold, InstrHolds DEF ChainInv, TypeOK
  <1> QED BY <1>1, <1>2, <1>3, PTL DEF Spec

(* Along a dense tensor no selection begins before the first element.      *)
LEMMA DenseForward ==
    ASSUME NEW t, NEW l, NEW mem, Loaded(t, l, mem), Dense(l), NEW descs, Forth(descs, t.shape),
           Valid(descs, t.shape), NEW u, u = update_layout(l, descs)
    PROVE  u.offset >= 0
  <1>1. PICK s, n : s = t.shape /\ s = l.dims /\ n = Len(s) /\ Runs(l) /\ IsShape(s) /\ l.stride \in [1..n -> Int]
    BY DEF Loaded, Runs
  <1>2. n \in Nat /\ Axes(s) = 1..n /\ s \in [1..n -> Nat \ {0}]
    BY <1>1, ShapeTyped
  <1>3. PICK F, P : UpdateSees(u, l, descs, F, P)
    <2>1. Forth(descs, l.dims) /\ Valid(descs, l.dims) /\ Runs(l)
      BY <1>1
    <2> QED BY ONLY <2>1, u = update_layout(l, descs), UpdatedLayout
  <1>4. u.offset = Dot(F, l.stride) /\ \A i \in 1..n : F[i] \in Int
    BY <1>1, <1>3 DEF UpdateSees
  <1>5. \A i \in 1..n : F[i] \in 0..s[i] - 1 /\ F[i] >= 0
    <2>1. InBox(F, l.dims) /\ \A i \in 1..Len(l.dims) : u.in.dims[i] \in Nat \ {0} /\ F[i] >= 0
      BY ONLY <1>1, <1>3, FirstSelected
    <2> QED BY <1>1, <2>1 DEF InBox
  <1>6. PICK r : r = force_layout_contiguous(s)
    OBVIOUS
  <1>7. r.stride = RowMajor(s) /\ \A i \in 1..n : r.stride[i] \in Nat
    <2>1. /\ Runs(r) /\ r.dims = s /\ r.stride = RowMajor(s) /\ Dense(r)
          /\ \A k \in Places(s) : Dot(Coords(s, k), r.stride) = k
          /\ \A i \in 1..Len(s) : r.stride[i] \in Nat
      BY ONLY <1>1, <1>6, ContiguousRuns
    <2> QED BY <1>1, <2>1
  <1>8. PICK y, z : y = l.stride /\ z = [i \in 1..n |-> IF s[i] = 1 THEN 0 ELSE y[i]]
    OBVIOUS
  <1>9. \A i \in 1..n : z[i] \in Int /\ z[i] >= 0 /\ F[i] * y[i] = F[i] * z[i]
    <2>1. ASSUME NEW i \in 1..n PROVE z[i] \in Int /\ z[i] >= 0 /\ F[i] * y[i] = F[i] * z[i]
      <3>1. CASE s[i] = 1
        <4>1. F[i] = 0 /\ z[i] = 0 /\ y[i] \in Int
          <5>1. F[i] \in 0..0
            BY <1>5, <3>1
          <5>2. y[i] \in Int
            BY <1>1, <1>8
          <5> QED BY <1>8, <3>1, <5>1, <5>2
        <4>2. 0 * y[i] = 0 /\ 0 * 0 = 0
          BY <4>1, Times
        <4> QED BY <4>1, <4>2
      <3>2. CASE s[i] # 1
        <4>1. s[i] > 1 /\ i \in Axes(l.dims)
          BY <1>1, <1>2, <3>2
        <4>2. y[i] = RowMajor(s)[i]
          BY <1>1, <1>8, <4>1 DEF Dense
        <4>3. y[i] \in Nat
          BY <1>7, <4>2
        <4> QED BY <1>8, <3>2, <4>3
      <3> QED BY <3>1, <3>2
    <2> QED BY <2>1
  <1>10. Row(n, F, y) /\ Row(n, F, z)
    <2>1. n \in Nat /\ y \in [1..n -> Int] /\ z \in [1..n -> Int] /\ \A i \in 1..n : F[i] \in Int
      BY <1>1, <1>2, <1>4, <1>8, <1>9
    <2>2. Row(n, F, y)
      BY ONLY <2>1, RowOf
    <2>3. Row(n, F, z)
      BY ONLY <2>1, RowOf
    <2> QED BY <2>2, <2>3
  <1>11. Dot(F, y) = Dot(F, z)
    <2>1. \A i \in 1..n : F[i] * y[i] = F[i] * z[i]
      BY <1>9
    <2> QED BY ONLY <1>10, <2>1, DotSame
  <1>12. Dot(F, z) >= 0
    <2>1. \A i \in 1..n : F[i] >= 0 /\ z[i] >= 0
      BY <1>5, <1>9
    <2>2. Dot(F, z) >= 0 /\ Dot(F, z) \in Int
      BY ONLY <1>10, <2>1, DotNat
    <2> QED BY <2>2
  <1> QED BY <1>4, <1>8, <1>11, <1>12

(* What an instruction cannot take after another one.                      *)
LEMMA ExecuteTakes ==
    ASSUME OperandsSuit, InstrInv, executed > 0, unfit = {}, Execute
    PROVE  unfit' \subseteq {"backward", "raised"}
  <1>1. PICK t, l, mem : t = meant /\ l = tensor.layout /\ mem = tensor.mem
    OBVIOUS
  <1>2. Loaded(t, l, mem) /\ Dense(l) /\ IsShape(t.shape)
    BY <1>1 DEF InstrInv, Output, Loaded, TensorOf
  <1>3. ASSUME NEW descs, descs \in InstrDescs(meant.shape), execute_subtensor(descs)
        PROVE  unfit' \subseteq {"backward", "raised"}
    <2>1. PICK u : u = update_layout(l, descs)
      OBVIOUS
    <2>2. /\ unfit' = IF CountedBack(descs) THEN {"backward"} ELSE Unless(u.offset >= 0, "reversed")
          /\ Valid(descs, t.shape)
      BY <1>1, <1>3, <2>1 DEF execute_subtensor, Executed
    <2>3. ASSUME ~CountedBack(descs) PROVE u.offset >= 0
      <3>1. Forth(descs, t.shape)
        BY <1>1, <1>2, <1>3, <2>3, InstrDescsForth
      <3> QED BY ONLY <1>2, <2>1, <2>2, <3>1, DenseForward
    <2> QED BY <2>2, <2>3 DEF Unless
  <1>4. ASSUME NEW descs, execute_setsubtensor(descs) PROVE unfit' \subseteq {"backward", "raised"}
    <2>1. unfit' = IF CountedBack(descs) THEN {"backward"} ELSE Unless(Dense(l), "strided")
      BY <1>1, <1>4 DEF execute_setsubtensor, Executed
    <2> QED BY <1>2, <2>1 DEF Unless
  <1>5. ASSUME NEW pattern, execute_dimshuffle(pattern) PROVE unfit' \subseteq {"backward", "raised"}
    BY <1>5 DEF execute_dimshuffle, Executed
  <1>6. ASSUME NEW shape, execute_reshape(shape) PROVE unfit' \subseteq {"backward", "raised"}
    <2>1. unfit' = Unless(Dense(l), "strided")
      BY <1>1, <1>6 DEF execute_reshape, Executed
    <2> QED BY <1>2, <2>1 DEF Unless
  <1>7. ASSUME NEW dims, execute_broadcast(dims) PROVE unfit' \subseteq {"backward", "raised"}
    BY <1>7 DEF execute_broadcast, Executed, Unless
  <1> QED BY <1>3, <1>4, <1>5, <1>6, <1>7 DEF Execute

(* Only the first instruction can be given a view that it cannot take:     *)
(* the outputs of all instructions are dense (alloc_tensor_opt() and       *)
(* force_layout_contiguous() of their deduced shapes), so that what the    *)
(* next one reads neither begins before its pointer nor has gaps.  After   *)
(* the first, numbers that count from the end (update_layout()) and        *)
(* Broadcasts that add axes (execute_broadcast()) are all that can fail.   *)
THEOREM OnlyViewsUnfit ==
    ASSUME OperandsSuit
    PROVE  Spec => [][executed > 0 /\ unfit = {} => unfit' \subseteq {"backward", "raised"}]_vars
  <1>1. Init => ChainInv
    BY InitChains
  <1>2. ChainInv /\ [Next]_vars => ChainInv'
    BY ChainsKept
  <1>3. ChainInv /\ [Next]_vars => [executed > 0 /\ unfit = {} => unfit' \subseteq {"backward", "raised"}]_vars
    <2> SUFFICES ASSUME ChainInv, Next, executed > 0, unfit = {}
                 PROVE  unfit' \subseteq {"backward", "raised"}
      OBVIOUS
    <2>1. CASE Execute
      BY <2>1, ExecuteTakes DEF ChainInv
    <2>2. CASE UNCHANGED instrs
      BY <2>2 DEF instrs
    <2>3. CASE ToRuntime
      BY <2>3 DEF ToRuntime, memref_to_tensor
    <2> QED BY <2>1, <2>2, <2>3 DEF Next
  <1> QED BY <1>1, <1>2, <1>3, PTL DEF Spec

(* A tensor holds the elements that its operations mean after any chain of *)
(* instructions (execute() of subtensor.c, dimshuffle.c, broadcast.c and   *)
(* reshape.c), whatever view of the compiler the first of them gets, as    *)
(* long as none was given what it cannot take (unfit).                     *)
THEOREM InstructionsAlwaysFaithful ==
    ASSUME OperandsSuit
    PROVE  Spec => []InstructionsFaithful
  <1>1. Init => ChainInv
    BY InitChains
  <1>2. ChainInv /\ [Next]_vars => ChainInv'
    BY ChainsKept
  <1>3. ChainInv => InstructionsFaithful
    BY InstrHolds DEF ChainInv
  <1> QED BY <1>1, <1>2, <1>3, PTL DEF Spec
=============================================================================

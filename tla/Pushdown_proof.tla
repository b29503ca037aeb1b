--------------------------- MODULE Pushdown_proof ---------------------------
(***************************************************************************)
(* Theorems about Pushdown, for every value of its constants: its list of  *)
(* blocks, the order taken from it, and that intervals in use at the same  *)
(* time get disjoint memory.  They assume what StaticMemAllocImpl leaves   *)
(* to the client: intervals are not empty, and specifications point        *)
(* forward (ForwardSpecs).                                                 *)
(*                                                                         *)
(* The order is understood through the layouts that follow it: functions   *)
(* from intervals to addresses.  In every such layout, the intervals that  *)
(* hold memory come in the order of their blocks (OrderOK); and there is   *)
(* one, in which the free blocks have their room too (LayoutOK), so that   *)
(* the order has no cycle.                                                 *)
(***************************************************************************)
EXTENDS Pushdown, StaticMemAllocImpl_proof, FiniteSetTheorems

Solving == stage \in {"solve", "place", "check", "done"}

-----------------------------------------------------------------------------
(* Lists of blocks *)

(* The blocks are those of the intervals of H, one each, and free ones,    *)
(* which are not empty and never next to each other.                       *)
ListOK(bs, H) ==
    /\ bs \in Seq(Block)
    /\ \A k \in FreeAt(bs) : bs[k].size # 0 /\ k + 1 \notin FreeAt(bs)
    /\ \A k \in DOMAIN bs : allocated(bs[k]) => bs[k].owner \in H
    /\ \A i \in H : \E k \in DOMAIN bs : bs[k].owner = i
    /\ \A k, m \in DOMAIN bs : bs[k].owner = bs[m].owner /\ allocated(bs[k]) => k = m

LEMMA BlockTyped ==
    ASSUME NEW bs \in Seq(Block)
    PROVE  /\ Len(bs) \in Nat /\ DOMAIN bs = 1..Len(bs)
           /\ \A k \in 1..Len(bs) : /\ bs[k] \in Block /\ bs[k].size \in Nat
                                    /\ bs[k].owner \in Ids \cup {Nil}
           /\ \A k : SizeAt(bs, k) \in Nat
  <1>1. Len(bs) \in Nat /\ DOMAIN bs = 1..Len(bs)
    BY LenProperties
  <1>2. \A k \in 1..Len(bs) : bs[k] \in Block
    BY ElementOfSeq
  <1> QED BY <1>1, <1>2 DEF Block, SizeAt, FreeAt

(* The list r is bs with the blocks of new in place of those from lo up    *)
(* to, and not including, hi.                                              *)
Swapped(bs, lo, hi, new, r) ==
    /\ r \in Seq(Block) /\ Len(r) = (lo - 1) + Len(new) + (Len(bs) + 1 - hi)
    /\ \A k \in 1..Len(r) :
         /\ k < lo => r[k] = bs[k]
         /\ lo <= k /\ k < lo + Len(new) => r[k] = new[k - lo + 1]
         /\ lo + Len(new) <= k => r[k] = bs[k - lo - Len(new) + hi]

LEMMA ReplacedIs ==
    ASSUME NEW bs \in Seq(Block), NEW new \in Seq(Block),
           NEW first \in 1..Len(bs) + 1, NEW last \in first - 1..Len(bs)
    PROVE  Swapped(bs, first, last + 1, new, Replaced(bs, first, last, new))
  <1> DEFINE head == SubSeq(bs, 1, first - 1)
             tail == SubSeq(bs, last + 1, Len(bs))
  <1>1. Len(bs) \in Nat /\ Len(new) \in Nat
    BY LenProperties
  <1>2. \A k \in 1..Len(bs) : bs[k] \in Block
    BY ElementOfSeq
  <1>3. /\ head \in Seq(Block) /\ Len(head) = first - 1
        /\ \A k \in 1..first - 1 : head[k] = bs[k]
    <2>1. \A k \in 1..first - 1 : bs[k] \in Block
      BY <1>1, <1>2
    <2> QED BY <1>1, <2>1, SubSeqProperties
  <1>4. /\ tail \in Seq(Block) /\ Len(tail) = Len(bs) - last
        /\ \A k \in 1..Len(bs) - last : tail[k] = bs[last + k]
    <2>1. \A k \in last + 1..Len(bs) : bs[k] \in Block
      BY <1>1, <1>2
    <2> QED BY <1>1, <2>1, SubSeqProperties
  <1> HIDE DEF head, tail
  <1> DEFINE front == head \o new
  <1>5. /\ front \in Seq(Block) /\ Len(front) = Len(head) + Len(new)
        /\ \A k \in 1..Len(head) + Len(new) :
             front[k] = IF k <= Len(head) THEN head[k] ELSE new[k - Len(head)]
    <2>1. head \in Seq(Block)
      BY <1>3
    <2> QED BY ONLY <2>1, new \in Seq(Block), ConcatProperties
  <1> HIDE DEF front
  <1>6. /\ front \o tail \in Seq(Block)
        /\ Len(front \o tail) = Len(front) + Len(tail)
        /\ \A k \in 1..Len(front) + Len(tail) :
             (front \o tail)[k] = IF k <= Len(front) THEN front[k] ELSE tail[k - Len(front)]
    <2>1. front \in Seq(Block) /\ tail \in Seq(Block)
      BY <1>4, <1>5
    <2> QED BY ONLY <2>1, ConcatProperties
  <1>7. Replaced(bs, first, last, new) = front \o tail
    BY DEF Replaced, front, head, tail
  <1> DEFINE r == front \o tail
             n == Len(new)
  <1>8. Len(front) = first - 1 + n
    BY <1>3, <1>5 DEF front
  <1>9. r \in Seq(Block) /\ Len(r) = (first - 1) + n + (Len(bs) + 1 - (last + 1))
    BY <1>1, <1>4, <1>6, <1>8
  <1>10. ASSUME NEW k \in 1..Len(r)
         PROVE  /\ k < first => r[k] = bs[k]
                /\ first <= k /\ k < first + n => r[k] = new[k - first + 1]
                /\ first + n <= k => r[k] = bs[k - first - n + (last + 1)]
    <2>1. r[k] = IF k <= first - 1 + n THEN front[k] ELSE tail[k - (first - 1 + n)]
      BY <1>4, <1>6, <1>8, <1>9
    <2>2. k <= first - 1 + n =>
            front[k] = IF k <= first - 1 THEN head[k] ELSE new[k - (first - 1)]
      BY <1>1, <1>3, <1>5, <1>9
    <2>3. k - (first - 1) = k - first + 1
      BY <1>1, <1>9
    <2>4. k > first - 1 + n => /\ k - (first - 1 + n) \in 1..Len(bs) - last
                               /\ last + (k - (first - 1 + n)) = k - first - n + (last + 1)
      BY <1>1, <1>9
    <2>5. first <= k => ~(k <= first - 1)
      BY <1>1, <1>9
    <2> HIDE DEF r
    <2>6. ASSUME k < first PROVE r[k] = bs[k]
      BY <1>1, <1>3, <1>9, <2>1, <2>2, <2>6
    <2>7. ASSUME first <= k, k < first + n PROVE r[k] = new[k - first + 1]
      BY <1>1, <1>9, <2>1, <2>2, <2>3, <2>5, <2>7
    <2>8. ASSUME first + n <= k PROVE r[k] = bs[k - first - n + (last + 1)]
      <3>1. k > first - 1 + n
        BY <1>1, <1>9, <2>8
      <3> DEFINE m == k - (first - 1 + n)
      <3>2. m \in 1..Len(bs) - last /\ last + m = k - first - n + (last + 1)
        BY <3>1, <2>4
      <3>3. r[k] = tail[m]
        BY <3>1, <1>1, <1>9, <2>1
      <3> HIDE DEF m
      <3> QED BY <3>2, <3>3, <1>4
    <2> QED BY <2>6, <2>7, <2>8
  <1> HIDE DEF r
  <1>11. Replaced(bs, first, last, new) = r
    BY <1>7 DEF r
  <1> QED BY <1>9, <1>10, <1>11 DEF Swapped

(* insert_free_blk_before(): a free block of the sum of the sizes, unless  *)
(* that is 0, in place of the free blocks on either side.                  *)
Inserted(bs, lo, hi, total, r) ==
    LET n == IF total = 0 THEN 0 ELSE 1
    IN  /\ r \in Seq(Block) /\ Len(r) = (lo - 1) + n + (Len(bs) + 1 - hi)
        /\ \A k \in 1..Len(r) :
             /\ k < lo => r[k] = bs[k]
             /\ lo <= k /\ k < lo + n => r[k].owner = Nil /\ r[k].size = total
             /\ lo + n <= k => r[k] = bs[k - lo - n + hi]

LEMMA InsertIs ==
    ASSUME NEW bs \in Seq(Block), NEW pos \in 1..Len(bs) + 1, NEW size \in Nat,
           NEW lo, lo = IF pos - 1 \in FreeAt(bs) THEN pos - 1 ELSE pos,
           NEW hi, hi = IF pos \in FreeAt(bs) THEN pos + 1 ELSE pos,
           NEW total, total = size + SizeAt(bs, pos - 1) + SizeAt(bs, pos)
    PROVE  Inserted(bs, lo, hi, total, insert_free_blk_before(bs, pos, size))
  <1> DEFINE merged == {pos - 1, pos} \cap FreeAt(bs)
             stamps == {0} \cup {bs[k].stamp : k \in FreeAt(bs) \ merged}
             block == [owner |-> Nil, size |-> total, stamp |-> 1 + Max(stamps)]
             new == IF total = 0 THEN <<>> ELSE <<block>>
  <1>1. /\ Len(bs) \in Nat /\ DOMAIN bs = 1..Len(bs)
        /\ \A k \in 1..Len(bs) : bs[k] \in Block
        /\ \A k : SizeAt(bs, k) \in Nat
    BY BlockTyped
  <1>2. total \in Nat
    BY <1>1
  <1>3. Max(stamps) \in Nat
    <2> DEFINE g == [k \in 1..Len(bs) |-> bs[k].stamp]
    <2>1. g \in [1..Len(bs) -> Nat]
      BY <1>1 DEF Block
    <2>2. PICK M \in Nat : \A k \in 1..Len(bs) : g[k] <= M
      <3> HIDE DEF g
      <3> QED BY <1>1, <2>1, SequenceBounded
    <2>3. stamps \in SUBSET Nat /\ stamps # {} /\ \A x \in stamps : x <= M
      <3>1. \A k \in FreeAt(bs) : bs[k].stamp \in Nat /\ bs[k].stamp <= M
        BY <1>1, <2>2 DEF FreeAt, Block
      <3> QED BY <3>1
    <2> HIDE DEF stamps
    <2> QED BY <2>2, <2>3, GreatestExists
  <1>4. block \in Block
    <2> HIDE DEF stamps
    <2> QED BY <1>2, <1>3 DEF Block
  <1>5. /\ new \in Seq(Block) /\ Len(new) = IF total = 0 THEN 0 ELSE 1
        /\ total # 0 => new[1].owner = Nil /\ new[1].size = total
    <2>1. block.owner = Nil /\ block.size = total
      OBVIOUS
    <2> HIDE DEF block
    <2> QED BY <1>4, <2>1, EmptySeq
  <1>6. /\ lo \in 1..Len(bs) + 1 /\ hi - 1 \in lo - 1..Len(bs)
    BY <1>1 DEF FreeAt
  <1>7. insert_free_blk_before(bs, pos, size) = Replaced(bs, lo, hi - 1, new)
    <2>1. (IF pos - 1 \in merged THEN pos - 1 ELSE pos) = lo
      OBVIOUS
    <2>2. (IF pos \in merged THEN pos ELSE pos - 1) = hi - 1
      BY <1>1
    <2> QED BY <2>1, <2>2 DEF insert_free_blk_before
  <1> HIDE DEF new
  <1> DEFINE r == Replaced(bs, lo, hi - 1, new)
  <1>8. Swapped(bs, lo, hi, new, r)
    <2>1. hi - 1 + 1 = hi
      BY <1>1
    <2> HIDE DEF r
    <2>2. Swapped(bs, lo, hi - 1 + 1, new, r)
      BY <1>5, <1>6, ReplacedIs DEF r
    <2> QED BY <2>1, <2>2
  <1> HIDE DEF r
  <1>9. PICK n \in {0, 1} : n = IF total = 0 THEN 0 ELSE 1
    OBVIOUS
  <1>10. /\ r \in Seq(Block) /\ Len(r) = (lo - 1) + n + (Len(bs) + 1 - hi)
         /\ \A k \in 1..Len(r) :
              /\ k < lo => r[k] = bs[k]
              /\ lo <= k /\ k < lo + n => r[k] = new[k - lo + 1]
              /\ lo + n <= k => r[k] = bs[k - lo - n + hi]
    BY <1>5, <1>8, <1>9 DEF Swapped
  <1>11. ASSUME NEW k \in 1..Len(r), lo <= k, k < lo + n
         PROVE  r[k].owner = Nil /\ r[k].size = total
    <2>1. Len(r) \in Nat /\ lo \in Int
      BY <1>1, <1>10, LenProperties
    <2>2. n = 1 /\ k - lo + 1 = 1
      BY <1>11, <2>1
    <2>3. r[k] = new[k - lo + 1]
      BY <1>10, <1>11
    <2>4. r[k] = new[1] /\ total # 0
      BY <2>2, <2>3, <1>9
    <2> QED BY <2>4, <1>5
  <1> QED BY <1>7, <1>9, <1>10, <1>11 DEF Inserted, r

(* The blocks from lo up to hi, hi not included, make way for one of the   *)
(* interval i, with free blocks of sizes a before and c after it, which    *)
(* are left out if empty.                                                  *)
At1(lo, a) == IF a = 0 THEN lo ELSE lo + 1
Placed(bs, lo, hi, i, a, c, r) ==
    LET p == At1(lo, a)
        q == IF c = 0 THEN p ELSE p + 1
    IN  /\ r \in Seq(Block) /\ Len(r) = q + (Len(bs) + 1 - hi)
        /\ \A k \in 1..Len(r) :
             /\ k < lo => r[k] = bs[k]
             /\ lo <= k /\ k < p => r[k].owner = Nil /\ r[k].size = a
             /\ k = p => r[k] = owned(i)
             /\ p < k /\ k <= q => r[k].owner = Nil /\ r[k].size = c
             /\ q < k => r[k] = bs[k - q + hi - 1]

LEMMA TakenIs ==
    ASSUME NEW H, NEW bs, ListOK(bs, H), NEW k \in FreeAt(bs), NEW i \in Ids, i # Nil,
           itv[i].size \in Nat
    PROVE  LET left == IF bs[k].size > itv[i].size THEN bs[k].size - itv[i].size ELSE 0
           IN  Placed(bs, k, k + 1, i, 0, left, Taken(bs, k, i))
  <1> DEFINE left == IF bs[k].size > itv[i].size THEN bs[k].size - itv[i].size ELSE 0
             b == [bs EXCEPT ![k] = owned(i)]
             r == Taken(bs, k, i)
  <1>1. /\ bs \in Seq(Block) /\ Len(bs) \in Nat /\ DOMAIN bs = 1..Len(bs)
        /\ k \in 1..Len(bs) /\ bs[k].size \in Nat /\ k + 1 \notin FreeAt(bs)
    BY BlockTyped DEF ListOK, FreeAt
  <1>2. owned(i) \in Block
    BY DEF owned, Block
  <1>3. /\ b \in Seq(Block) /\ Len(b) = Len(bs)
        /\ \A m \in 1..Len(bs) : b[m] = IF m = k THEN owned(i) ELSE bs[m]
    BY <1>1, <1>2, ExceptSeq
  <1>4. DOMAIN b = 1..Len(bs)
    BY <1>1, <1>3, LenProperties
  <1>5. k \notin FreeAt(b) /\ k + 1 \notin FreeAt(b)
    BY <1>1, <1>3, <1>4 DEF FreeAt, allocated, owned
  <1>6. left \in Nat
    BY <1>1
  <1>7. r = insert_free_blk_before(b, k + 1, left)
    BY DEF Taken, insert_free_blk_after
  <1> HIDE DEF left, b, r
  <1>8. SizeAt(b, k) = 0 /\ SizeAt(b, k + 1) = 0
    BY <1>5 DEF SizeAt
  <1>9. PICK n \in {0, 1} : n = IF left = 0 THEN 0 ELSE 1
    OBVIOUS
  <1>10. /\ r \in Seq(Block) /\ Len(r) = ((k + 1) - 1) + n + (Len(b) + 1 - (k + 1))
         /\ \A m \in 1..Len(r) :
              /\ m < k + 1 => r[m] = b[m]
              /\ k + 1 <= m /\ m < (k + 1) + n => r[m].owner = Nil /\ r[m].size = left
              /\ (k + 1) + n <= m => r[m] = b[m - (k + 1) - n + (k + 1)]
    <2>1. (k + 1) - 1 = k /\ k + 1 \in 1..Len(b) + 1
      BY <1>1, <1>3
    <2>2. /\ k + 1 = IF (k + 1) - 1 \in FreeAt(b) THEN (k + 1) - 1 ELSE k + 1
          /\ k + 1 = IF k + 1 \in FreeAt(b) THEN (k + 1) + 1 ELSE k + 1
          /\ left = left + SizeAt(b, (k + 1) - 1) + SizeAt(b, k + 1)
      BY <2>1, <1>5, <1>6, <1>8
    <2>3. Inserted(b, k + 1, k + 1, left, r)
      BY <2>1, <2>2, <1>3, <1>6, <1>7, InsertIs
    <2> QED BY <2>3, <1>9 DEF Inserted
  <1>11. Len(r) = k + n + (Len(bs) + 1 - (k + 1)) /\ Len(r) \in Nat
    BY <1>1, <1>3, <1>10
  <1>12. ASSUME NEW m \in 1..Len(r)
         PROVE  /\ m < k => r[m] = bs[m]
                /\ m = k => r[m] = owned(i)
                /\ k < m /\ m <= k + n => r[m].owner = Nil /\ r[m].size = left
                /\ k + n < m => r[m] = bs[m - (k + n) + (k + 1) - 1]
    <2>1. CASE m <= k
      <3>1. m < k + 1 /\ m \in 1..Len(bs)
        BY <2>1, <1>1, <1>11
      <3>2. r[m] = IF m = k THEN owned(i) ELSE bs[m]
        BY <3>1, <1>3, <1>10
      <3>3. ~(k < m) /\ ~(k + n < m)
        BY <2>1, <1>1, <1>11
      <3> QED BY <3>2, <3>3
    <2>2. CASE k < m /\ m <= k + n
      BY <2>2, <1>1, <1>10, <1>11
    <2>3. CASE k + n < m
      <3>1. /\ m - (k + 1) - n + (k + 1) = m - n
            /\ m - (k + n) + (k + 1) - 1 = m - n
            /\ m - n \in 1..Len(bs) /\ m - n # k
        BY <2>3, <1>1, <1>11
      <3>2. r[m] = b[m - n]
        BY <2>3, <3>1, <1>1, <1>10, <1>11
      <3> QED BY <2>3, <3>1, <3>2, <1>1, <1>3, <1>11
    <2> QED BY <2>1, <2>2, <2>3, <1>1, <1>11
  <1>13. At1(k, 0) = k
    BY DEF At1
  <1>14. (IF left = 0 THEN k ELSE k + 1) = k + n
    BY <1>1, <1>9
  <1>15. Placed(bs, k, k + 1, i, 0, left, r)
    <2>1. \A m \in 1..Len(r) : ~(k <= m /\ m < k)
      BY <1>1, <1>11
    <2> QED BY <2>1, <1>10, <1>11, <1>12, <1>13, <1>14 DEF Placed
  <1> QED BY <1>15 DEF left, r

LEMMA AppendIs ==
    ASSUME NEW bs \in Seq(Block), NEW i \in Ids
    PROVE  Placed(bs, Len(bs) + 1, Len(bs) + 1, i, 0, 0, Append(bs, owned(i)))
  <1>1. owned(i) \in Block
    BY DEF owned, Block
  <1> QED BY <1>1, LenProperties, AppendProperties DEF Placed, At1

LEMMA FreedIs ==
    ASSUME NEW bs \in Seq(Block), NEW k \in DOMAIN bs, NEW i \in Ids, itv[i].size \in Nat,
           NEW lo, lo = IF k - 1 \in FreeAt(bs) THEN k - 1 ELSE k,
           NEW hi, hi = IF k + 1 \in FreeAt(bs) THEN k + 2 ELSE k + 1,
           NEW total, total = itv[i].size + SizeAt(bs, k - 1) + SizeAt(bs, k + 1)
    PROVE  Inserted(bs, lo, hi, total, Freed(bs, k, i))
  <1> DEFINE b == Replaced(bs, k, k, <<>>)
             r == Freed(bs, k, i)
  <1>1. /\ Len(bs) \in Nat /\ DOMAIN bs = 1..Len(bs) /\ k \in 1..Len(bs)
    BY BlockTyped
  <1>2. Swapped(bs, k, k + 1, <<>>, b)
    <2>1. <<>> \in Seq(Block) /\ k \in 1..Len(bs) + 1 /\ k \in k - 1..Len(bs)
      BY <1>1, EmptySeq
    <2> QED BY <2>1, ReplacedIs
  <1> HIDE DEF b
  <1>3. /\ b \in Seq(Block) /\ Len(b) = Len(bs) - 1
        /\ \A m \in 1..Len(bs) - 1 : b[m] = IF m < k THEN bs[m] ELSE bs[m + 1]
    <2>1. b \in Seq(Block) /\ Len(b) = (k - 1) + 0 + (Len(bs) + 1 - (k + 1))
      BY <1>2, EmptySeq DEF Swapped
    <2>2. Len(b) = Len(bs) - 1
      BY <1>1, <2>1
    <2>3. ASSUME NEW m \in 1..Len(bs) - 1 PROVE b[m] = IF m < k THEN bs[m] ELSE bs[m + 1]
      <3>1. /\ m < k => b[m] = bs[m]
            /\ k + 0 <= m => b[m] = bs[m - k - 0 + (k + 1)]
        BY <2>2, <1>2, EmptySeq DEF Swapped
      <3>2. m - k - 0 + (k + 1) = m + 1 /\ (m < k \/ k + 0 <= m)
        BY <1>1
      <3> QED BY <3>1, <3>2
    <2> QED BY <2>1, <2>2, <2>3
  <1>4. DOMAIN b = 1..Len(bs) - 1
    BY <1>3, LenProperties
  <1>5. /\ k - 1 \in FreeAt(b) <=> k - 1 \in FreeAt(bs)
        /\ k \in FreeAt(b) <=> k + 1 \in FreeAt(bs)
        /\ k - 1 \in FreeAt(b) => b[k - 1] = bs[k - 1]
        /\ k \in FreeAt(b) => b[k] = bs[k + 1]
    BY <1>1, <1>3, <1>4 DEF FreeAt
  <1>6. SizeAt(b, k - 1) = SizeAt(bs, k - 1) /\ SizeAt(b, k) = SizeAt(bs, k + 1)
    BY <1>5 DEF SizeAt
  <1>7. Inserted(b, lo, hi - 1, total, r)
    <2>1. k \in 1..Len(b) + 1
      BY <1>1, <1>3
    <2>2. /\ lo = IF k - 1 \in FreeAt(b) THEN k - 1 ELSE k
          /\ hi - 1 = IF k \in FreeAt(b) THEN k + 1 ELSE k
          /\ total = itv[i].size + SizeAt(b, k - 1) + SizeAt(b, k)
      BY <1>1, <1>5, <1>6
    <2>3. r = insert_free_blk_before(b, k, itv[i].size)
      BY DEF Freed, b
    <2> HIDE DEF r
    <2> QED BY <1>3, <2>1, <2>2, <2>3, InsertIs
  <1> HIDE DEF r
  <1>8. PICK n \in {0, 1} : n = IF total = 0 THEN 0 ELSE 1
    OBVIOUS
  <1>9. /\ r \in Seq(Block) /\ Len(r) = (lo - 1) + n + (Len(b) + 1 - (hi - 1))
        /\ \A m \in 1..Len(r) :
              /\ m < lo => r[m] = b[m]
              /\ lo <= m /\ m < lo + n => r[m].owner = Nil /\ r[m].size = total
              /\ lo + n <= m => r[m] = b[m - lo - n + (hi - 1)]
    BY <1>7, <1>8 DEF Inserted
  <1>10. /\ lo \in Int /\ k - 1 <= lo /\ lo <= k /\ lo >= 1
         /\ hi \in Int /\ k + 1 <= hi /\ hi <= k + 2 /\ hi <= Len(bs) + 1
    BY <1>1 DEF FreeAt
  <1>11. Len(r) = (lo - 1) + n + (Len(bs) + 1 - hi) /\ Len(r) \in Nat
    <2>1. Len(b) + 1 - (hi - 1) = Len(bs) + 1 - hi
      BY <1>1, <1>3, <1>10
    <2> QED BY <2>1, <1>9, LenProperties
  <1>12. ASSUME NEW m \in 1..Len(r), m < lo PROVE r[m] = bs[m]
    <2>1. m \in 1..Len(bs) - 1 /\ m < k
      BY <1>1, <1>10, <1>11, <1>12
    <2> QED BY <2>1, <1>3, <1>9, <1>12
  <1>13. ASSUME NEW m \in 1..Len(r), lo + n <= m PROVE r[m] = bs[m - lo - n + hi]
    <2> DEFINE l == m - lo - n + (hi - 1)
    <2>1. l \in 1..Len(bs) - 1 /\ ~(l < k) /\ l + 1 = m - lo - n + hi
      <3>1. m \in Int /\ n \in Int /\ m <= (lo - 1) + n + (Len(bs) + 1 - hi)
        BY <1>11
      <3> QED BY ONLY <3>1, <1>1, <1>10, <1>13
    <2>2. r[m] = b[l]
      BY <1>9, <1>13
    <2> HIDE DEF l
    <2> QED BY <2>1, <2>2, <1>3
  <1>14. Inserted(bs, lo, hi, total, r)
    BY <1>8, <1>9, <1>11, <1>12, <1>13 DEF Inserted
  <1> QED BY <1>14 DEF r

LEMMA OverwrittenIs ==
    ASSUME NEW H, NEW bs, ListOK(bs, H), NEW k \in DOMAIN bs, NEW d, bs[k].owner = d, d # Nil,
           NEW i \in Ids, offset[i] \in Nat, itv[d].size - (offset[i] + itv[i].size) \in Nat,
           NEW lo, lo = IF k - 1 \in FreeAt(bs) THEN k - 1 ELSE k,
           NEW hi, hi = IF k + 1 \in FreeAt(bs) THEN k + 2 ELSE k + 1,
           NEW a, a = offset[i] + SizeAt(bs, k - 1),
           NEW c, c = itv[d].size - (offset[i] + itv[i].size) + SizeAt(bs, k + 1),
           NEW r \in Overwritten(bs, k, d, i)
    PROVE  Placed(bs, lo, hi, i, a, c, r)
  <1> DEFINE tail == itv[d].size - (offset[i] + itv[i].size)
             b == insert_free_blk_before(bs, k, offset[i])
  <1>1. /\ bs \in Seq(Block) /\ Len(bs) \in Nat /\ DOMAIN bs = 1..Len(bs) /\ k \in 1..Len(bs)
        /\ k \notin FreeAt(bs) /\ a \in Nat /\ c \in Nat
        /\ \A m \in 1..Len(bs) : bs[m].owner = d => m = k
    <2>1. bs \in Seq(Block) /\ k \notin FreeAt(bs)
      BY DEF ListOK, FreeAt, allocated
    <2>2. \A m \in DOMAIN bs : bs[m].owner = d => m = k
      <3>1. /\ k \in DOMAIN bs /\ bs[k].owner = d /\ allocated(bs[k])
            /\ \A x, y \in DOMAIN bs : bs[x].owner = bs[y].owner /\ allocated(bs[x]) => x = y
        BY DEF ListOK, allocated
      <3> QED BY ONLY <3>1
    <2>3. Len(bs) \in Nat /\ DOMAIN bs = 1..Len(bs) /\ \A m : SizeAt(bs, m) \in Nat
      BY <2>1, BlockTyped
    <2>4. a \in Nat /\ c \in Nat
      BY <2>3
    <2> QED BY <2>1, <2>2, <2>3, <2>4
  <1>2. Inserted(bs, lo, k, a, b)
    <2>1. SizeAt(bs, k) = 0 /\ a = offset[i] + SizeAt(bs, k - 1) + SizeAt(bs, k)
      BY <1>1, BlockTyped DEF SizeAt
    <2>2. k \in 1..Len(bs) + 1 /\ k = IF k \in FreeAt(bs) THEN k + 1 ELSE k
      BY <1>1
    <2> QED BY <1>1, <2>1, <2>2, InsertIs
  <1> HIDE DEF b
  <1>3. PICK n \in {0, 1} : n = IF a = 0 THEN 0 ELSE 1
    OBVIOUS
  <1>4. /\ b \in Seq(Block) /\ Len(b) = (lo - 1) + n + (Len(bs) + 1 - k)
        /\ \A m \in 1..Len(b) :
              /\ m < lo => b[m] = bs[m]
              /\ lo <= m /\ m < lo + n => b[m].owner = Nil /\ b[m].size = a
              /\ lo + n <= m => b[m] = bs[m - lo - n + k]
    BY <1>2, <1>3 DEF Inserted
  <1>5. /\ lo \in Int /\ k - 1 <= lo /\ lo <= k /\ lo >= 1
        /\ hi \in Int /\ k + 1 <= hi /\ hi <= k + 2 /\ hi <= Len(bs) + 1
        /\ n \in Int /\ 0 <= n /\ n <= 1
    BY <1>1 DEF FreeAt
  <1>6. Len(b) \in Nat /\ DOMAIN b = 1..Len(b)
    BY <1>4, LenProperties
  <1>N. PICK N \in Nat, NB \in Nat : N = Len(bs) /\ NB = Len(b)
    BY <1>1, <1>6
  <1>A. /\ NB = (lo - 1) + n + (N + 1 - k) /\ k \in Int /\ 1 <= k /\ k <= N
        /\ lo \in Int /\ k - 1 <= lo /\ lo <= k /\ lo >= 1
        /\ hi \in Int /\ k + 1 <= hi /\ hi <= k + 2 /\ hi <= N + 1
        /\ n \in Int /\ 0 <= n /\ n <= 1
    BY <1>1, <1>4, <1>5, <1>N
  <1> DEFINE p == lo + n
  <1>7. /\ p \in 1..Len(b) /\ b[p] = bs[k]
        /\ p + 1 \in 1..Len(b) <=> k + 1 \in 1..Len(bs)
        /\ p + 1 \in 1..Len(b) => b[p + 1] = bs[k + 1]
    <2>1. /\ p \in 1..Len(b) /\ lo + n <= p /\ p - lo - n + k = k
          /\ lo + n <= p + 1 /\ (p + 1) - lo - n + k = k + 1
          /\ p + 1 \in 1..Len(b) <=> k + 1 \in 1..Len(bs)
      <3>1. /\ 1 <= p /\ p <= NB /\ p \in Int /\ lo + n <= p /\ p - lo - n + k = k
            /\ lo + n <= p + 1 /\ (p + 1) - lo - n + k = k + 1
            /\ p + 1 \in 1..NB <=> k + 1 \in 1..N
        BY ONLY <1>A, N \in Nat, NB \in Nat
      <3> HIDE DEF p
      <3> QED BY <3>1, <1>N
    <2> HIDE DEF p
    <2> QED BY <2>1, <1>4
  <1>8. ASSUME NEW m \in 1..Len(b), b[m].owner = d PROVE m = p
    <2>1. m >= lo
      <3>1. ASSUME m < lo PROVE FALSE
        <4>1. m \in 1..Len(bs) /\ m # k
          BY <3>1, <1>1, <1>5
        <4> QED BY <3>1, <4>1, <1>1, <1>4, <1>8
      <3> QED BY <3>1, <1>5
    <2>2. m >= lo + n
      <3>1. ~(lo <= m /\ m < lo + n)
        BY <1>4, <1>8
      <3>2. m \in Int
        OBVIOUS
      <3> QED BY ONLY <2>1, <3>1, <3>2, <1>A
    <2>3. m - lo - n + k \in 1..Len(bs)
      <3>1. m \in Int /\ m <= NB
        BY <1>N
      <3>2. m - lo - n + k \in 1..N
        BY ONLY <2>2, <3>1, <1>A, N \in Nat
      <3> QED BY <3>2, <1>N
    <2>4. m - lo - n + k = k
      BY <2>2, <2>3, <1>1, <1>4, <1>8
    <2>5. m \in Int
      OBVIOUS
    <2> QED BY ONLY <2>4, <2>5, <1>A
  <1> DEFINE e == insert_free_blk_after(b, p, tail)
  <1>9. r = [e EXCEPT ![p] = owned(i)]
    <2>1. PICK m \in PositionsOf(b, d) :
                r = [insert_free_blk_after(b, m, tail) EXCEPT ![m] = owned(i)]
      BY DEF Overwritten, b
    <2>2. m \in 1..Len(b) /\ b[m].owner = d
      BY <1>6 DEF PositionsOf
    <2>3. m = p
      BY <2>2, <1>8
    <2> QED BY <2>1, <2>3
  <1> DEFINE h == IF k + 1 \in FreeAt(bs) THEN p + 2 ELSE p + 1
  <1>10. Inserted(b, p + 1, h, c, e)
    <2>1. p \notin FreeAt(b) /\ (p + 1 \in FreeAt(b) <=> k + 1 \in FreeAt(bs))
      BY <1>1, <1>6, <1>7 DEF FreeAt
    <2>2. SizeAt(b, p) = 0 /\ SizeAt(b, p + 1) = SizeAt(bs, k + 1)
      BY <2>1, <1>6, <1>7 DEF SizeAt, FreeAt
    <2>3. p \in Int /\ (p + 1) - 1 = p /\ p + 1 \in 1..Len(b) + 1 /\ (p + 1) + 1 = p + 2
      BY ONLY <1>5, <1>6, <1>7
    <2>4. e = insert_free_blk_before(b, p + 1, tail)
      BY DEF insert_free_blk_after
    <2> HIDE DEF p, e
    <2>5. /\ p + 1 = IF (p + 1) - 1 \in FreeAt(b) THEN (p + 1) - 1 ELSE p + 1
          /\ h = IF p + 1 \in FreeAt(b) THEN (p + 1) + 1 ELSE p + 1
          /\ c = tail + SizeAt(b, (p + 1) - 1) + SizeAt(b, p + 1)
      BY <2>1, <2>2, <2>3, <1>1
    <2>6. tail \in Nat
      OBVIOUS
    <2> HIDE DEF tail, h
    <2> QED BY <2>3, <2>4, <2>5, <2>6, <1>4, InsertIs
  <1>11. PICK l \in {0, 1} : l = IF c = 0 THEN 0 ELSE 1
    OBVIOUS
  <1>12. /\ e \in Seq(Block) /\ Len(e) = ((p + 1) - 1) + l + (Len(b) + 1 - h)
         /\ \A m \in 1..Len(e) :
              /\ m < p + 1 => e[m] = b[m]
              /\ p + 1 <= m /\ m < (p + 1) + l => e[m].owner = Nil /\ e[m].size = c
              /\ (p + 1) + l <= m => e[m] = b[m - (p + 1) - l + h]
    <2> HIDE DEF p, e, h
    <2> QED BY <1>10, <1>11 DEF Inserted
  <1>13. p \in Int /\ h \in Int /\ h - p = hi - k /\ l \in Int /\ 0 <= l /\ l <= 1
         /\ Len(e) = (p + l) + (Len(bs) + 1 - hi) /\ Len(e) \in Nat
    <2>1. p \in Int /\ h \in Int /\ h - p = hi - k
      BY <1>A
    <2>2. p = lo + n /\ l \in Int /\ 0 <= l /\ l <= 1
      OBVIOUS
    <2> HIDE DEF e, p, h
    <2>3. Len(e) = ((p + 1) - 1) + l + (NB + 1 - h)
      BY <1>12, <1>N
    <2>4. Len(e) = (p + l) + (N + 1 - hi)
      <3>1. NB - h = N - hi
        BY ONLY <2>1, <2>2, <1>A, N \in Nat, NB \in Nat
      <3>2. ((p + 1) - 1) + l + (NB + 1 - h) = (p + l) + (N + 1 - hi)
        BY ONLY <2>1, <2>2, <3>1, <1>A, N \in Nat, NB \in Nat
      <3> QED BY ONLY <2>3, <3>2
    <2> QED BY <2>1, <2>2, <2>4, <1>12, <1>N, LenProperties
  <1>14. p = lo + n /\ 1 <= p
    BY <1>5
  <1> HIDE DEF p, e, h
  <1>15. /\ r \in Seq(Block) /\ Len(r) = Len(e)
         /\ \A m \in 1..Len(e) : r[m] = IF m = p THEN owned(i) ELSE e[m]
    <2>1. p \in 1..Len(e)
      BY ONLY <1>1, <1>5, <1>13, <1>14
    <2>2. owned(i) \in Block
      BY DEF owned, Block
    <2> QED BY <2>1, <2>2, <1>9, <1>12, ExceptSeq
  <1>16. ASSUME NEW m \in 1..Len(r)
         PROVE  /\ m < lo => r[m] = bs[m]
                /\ lo <= m /\ m < p => r[m].owner = Nil /\ r[m].size = a
                /\ m = p => r[m] = owned(i)
                /\ p < m /\ m <= p + l => r[m].owner = Nil /\ r[m].size = c
                /\ p + l < m => r[m] = bs[m - (p + l) + hi - 1]
    <2>1. m \in 1..Len(e) /\ m \in Int
      BY <1>15
    <2>2. CASE m < p
      <3>1. m < p + 1 /\ m # p /\ m \in 1..Len(b)
        <4>1. m < p + 1 /\ m # p /\ m \in 1..NB
          <5>1. m < p + 1 /\ m # p
            BY ONLY <2>1, <2>2, <1>13
          <5>2. p <= NB
            BY ONLY <1>A, <1>14, NB \in Nat, N \in Nat
          <5> QED BY ONLY <5>1, <5>2, <2>1, <2>2, <1>13, NB \in Nat
        <4> QED BY <4>1, <1>N
      <3>2. r[m] = b[m]
        BY <3>1, <2>1, <1>12, <1>15
      <3>3. ~(p < m) /\ ~(p + l < m) /\ m < lo + n
        BY ONLY <2>1, <2>2, <1>13, <1>14
      <3> QED BY <3>1, <3>2, <3>3, <1>4
    <2>3. CASE m = p
      <3>1. ~(m < lo) /\ ~(m < p) /\ ~(p < m) /\ ~(p + l < m)
        BY ONLY <2>3, <1>13, <1>14, <1>5
      <3> QED BY <2>1, <2>3, <3>1, <1>15
    <2>4. CASE p < m /\ m <= p + l
      <3>1. p + 1 <= m /\ m < (p + 1) + l /\ m # p /\ ~(m < lo) /\ ~(m < p) /\ ~(p + l < m)
        BY ONLY <2>1, <2>4, <1>13, <1>14, <1>5
      <3> QED BY <2>1, <3>1, <1>12, <1>15
    <2>5. CASE p + l < m
      <3>1. /\ (p + 1) + l <= m /\ m # p /\ ~(m < lo) /\ ~(m < p) /\ ~(m <= p + l)
        BY ONLY <2>1, <2>5, <1>13, <1>14, <1>5
      <3>2. r[m] = b[m - (p + 1) - l + h]
        BY <2>1, <3>1, <1>12, <1>15
      <3> DEFINE x == m - (p + 1) - l + h
      <3>3. /\ x \in 1..Len(b) /\ lo + n <= x
            /\ x - lo - n + k = m - (p + l) + hi - 1
        <4>1. m <= (p + l) + (N + 1 - hi)
          BY <2>1, <1>13, <1>N
        <4>2. /\ 1 <= x /\ x <= NB /\ x \in Int /\ lo + n <= x
              /\ x - lo - n + k = m - (p + l) + hi - 1
          <5>1. /\ m \in Int /\ l \in Int /\ p \in Int /\ h = p + (hi - k)
                /\ k \in Int /\ hi \in Int /\ lo \in Int /\ n \in Int /\ p = lo + n
            BY ONLY <2>1, <1>13, <1>14, <1>A
          <5>2. x = (m - 1 - l) + (hi - k) /\ x \in Int
            BY ONLY <5>1
          <5> HIDE DEF x
          <5>3. x <= p + N - k
            BY ONLY <4>1, <5>1, <5>2, N \in Nat
          <5>9. NB = (p - 1) + (N + 1 - k)
            <6>1. NB = (lo - 1) + n + (N + 1 - k)
              BY <1>A
            <6> QED BY ONLY <6>1, <5>1, N \in Nat, NB \in Nat
          <5>4. p + N - k = NB
            BY ONLY <5>1, <5>9, N \in Nat, NB \in Nat
          <5>10. k + 1 <= hi
            BY <1>A
          <5>11. 1 <= p
            BY <1>14
          <5>5. m - 1 - l >= p
            BY ONLY <2>5, <5>1
          <5>6. p <= x
            BY ONLY <5>1, <5>2, <5>5, <5>10
          <5>7. x - p + k = m - (p + l) + hi - 1
            BY ONLY <5>1, <5>2
          <5>8. x - lo - n + k = m - (p + l) + hi - 1
            BY ONLY <5>1, <5>2, <5>7
          <5>12. x <= NB
            BY ONLY <5>3, <5>4
          <5>13. 1 <= x
            BY ONLY <5>1, <5>2, <5>6, <5>11
          <5>14. lo + n <= x
            BY ONLY <5>1, <5>2, <5>6
          <5> QED BY ONLY <5>2, <5>8, <5>12, <5>13, <5>14
        <4> HIDE DEF x
        <4> QED BY <4>2, <1>N
      <3> HIDE DEF x
      <3>4. b[x] = bs[m - (p + l) + hi - 1]
        BY <3>3, <1>4
      <3> QED BY <3>1, <3>2, <3>4 DEF x
    <2> QED BY ONLY <2>1, <2>2, <2>3, <2>4, <2>5, <1>13
  <1>17. At1(lo, a) = p /\ (IF c = 0 THEN p ELSE p + 1) = p + l
    <2>1. At1(lo, a) = p
      BY <1>3, <1>A, <1>14 DEF At1
    <2> QED BY <2>1, <1>11, <1>13
  <1>18. Len(r) = (p + l) + (Len(bs) + 1 - hi)
    BY <1>13, <1>15
  <1> DEFINE q == p + l
  <1>19. /\ r \in Seq(Block) /\ Len(r) = q + (Len(bs) + 1 - hi)
         /\ \A m \in 1..Len(r) :
              /\ m < lo => r[m] = bs[m]
              /\ lo <= m /\ m < p => r[m].owner = Nil /\ r[m].size = a
              /\ m = p => r[m] = owned(i)
              /\ p < m /\ m <= q => r[m].owner = Nil /\ r[m].size = c
              /\ q < m => r[m] = bs[m - q + hi - 1]
    BY <1>15, <1>16, <1>18
  <1> HIDE DEF q
  <1>20. At1(lo, a) = p /\ (IF c = 0 THEN p ELSE p + 1) = q
    BY <1>17 DEF q
  <1> QED BY <1>19, <1>20 DEF Placed

-----------------------------------------------------------------------------
(* What stays of a list                                                    *)

(* Where the block at m comes from, if the blocks from lo to q have come in *)
(* place of those from lo up to, and not including, hi.                    *)
Kept(lo, q, m) == m < lo \/ q < m
Old(lo, hi, q, m) == IF m < lo THEN m ELSE m - q + hi - 1

(* Old() maps the places that are kept, of 1..R, one to one and in order to *)
(* those of 1..L that are.                                                 *)
OldInOrder(L, R, lo, hi, q) ==
    /\ \A m \in 1..R : Kept(lo, q, m) =>
         /\ Old(lo, hi, q, m) \in 1..L
         /\ m < lo <=> Old(lo, hi, q, m) < lo
         /\ Old(lo, hi, q, m) < lo \/ hi <= Old(lo, hi, q, m)
    /\ \A m, n \in 1..R : Kept(lo, q, m) /\ Kept(lo, q, n) =>
         /\ m < n <=> Old(lo, hi, q, m) < Old(lo, hi, q, n)
         /\ m = n <=> Old(lo, hi, q, m) = Old(lo, hi, q, n)
    /\ \A k \in 1..L : k < lo \/ hi <= k =>
         \E m \in 1..R : Kept(lo, q, m) /\ Old(lo, hi, q, m) = k

LEMMA KeptOld ==
    ASSUME NEW L \in Nat, NEW lo \in 1..L + 1, NEW hi \in lo..L + 1, NEW q \in Nat, lo - 1 <= q,
           NEW R, R = q + (L + 1 - hi)
    PROVE  R \in Nat /\ q <= R /\ OldInOrder(L, R, lo, hi, q)
  <1>1. R \in Nat /\ q <= R
    OBVIOUS
  <1>2. \A m \in 1..R : Kept(lo, q, m) =>
          /\ Old(lo, hi, q, m) \in 1..L
          /\ m < lo <=> Old(lo, hi, q, m) < lo
          /\ Old(lo, hi, q, m) < lo \/ hi <= Old(lo, hi, q, m)
    BY DEF Kept, Old
  <1>3. \A m, n \in 1..R : Kept(lo, q, m) /\ Kept(lo, q, n) =>
          /\ m < n <=> Old(lo, hi, q, m) < Old(lo, hi, q, n)
          /\ m = n <=> Old(lo, hi, q, m) = Old(lo, hi, q, n)
    BY DEF Kept, Old
  <1>4. ASSUME NEW k \in 1..L, k < lo \/ hi <= k
        PROVE  \E m \in 1..R : Kept(lo, q, m) /\ Old(lo, hi, q, m) = k
    <2> DEFINE m == IF k < lo THEN k ELSE k + q + 1 - hi
    <2>1. m \in 1..R /\ Kept(lo, q, m) /\ Old(lo, hi, q, m) = k
      BY <1>4 DEF Kept, Old
    <2> QED BY <2>1
  <1> QED BY <1>1, <1>2, <1>3, <1>4 DEF OldInOrder

(* The blocks of the new list, one by one.                                 *)
Placing(bs, lo, hi, i, a, c, p, q, r) ==
    /\ p \in Nat /\ q \in Nat /\ lo <= p /\ p <= q /\ q <= p + 1 /\ p <= lo + 1
    /\ r \in Seq(Block) /\ Len(r) = q + (Len(bs) + 1 - hi) /\ Len(r) \in Nat /\ q <= Len(r)
    /\ lo < p <=> a # 0
    /\ p < q <=> c # 0
    /\ \A m \in 1..Len(r) : Kept(lo, q, m) => r[m] = bs[Old(lo, hi, q, m)]
    /\ r[p] = owned(i)
    /\ lo < p => r[lo].owner = Nil /\ r[lo].size = a
    /\ p < q => r[q].owner = Nil /\ r[q].size = c

LEMMA PlacedBlocks ==
    ASSUME NEW bs \in Seq(Block), NEW lo \in 1..Len(bs) + 1, NEW hi \in lo..Len(bs) + 1,
           NEW i, NEW a \in Nat, NEW c \in Nat, NEW r, Placed(bs, lo, hi, i, a, c, r)
    PROVE  \E p, q \in Nat : p = At1(lo, a) /\ Placing(bs, lo, hi, i, a, c, p, q, r)
  <1> DEFINE p == At1(lo, a)
             q == IF c = 0 THEN p ELSE p + 1
  <1>1. Len(bs) \in Nat
    BY LenProperties
  <1>2. /\ r \in Seq(Block) /\ Len(r) = q + (Len(bs) + 1 - hi)
        /\ \A k \in 1..Len(r) :
             /\ k < lo => r[k] = bs[k]
             /\ lo <= k /\ k < p => r[k].owner = Nil /\ r[k].size = a
             /\ k = p => r[k] = owned(i)
             /\ p < k /\ k <= q => r[k].owner = Nil /\ r[k].size = c
             /\ q < k => r[k] = bs[k - q + hi - 1]
    BY DEF Placed
  <1>3. /\ p \in Nat /\ q \in Nat /\ lo <= p /\ p <= q /\ q <= p + 1 /\ p <= lo + 1
        /\ lo < p <=> a # 0
        /\ p < q <=> c # 0
    BY <1>1 DEF At1
  <1> HIDE DEF p, q
  <1>4. Len(r) \in Nat /\ q <= Len(r)
    BY <1>1, <1>2, <1>3
  <1>5. p \in 1..Len(r) /\ q \in 1..Len(r) /\ lo \in 1..Len(r)
    BY <1>1, <1>3, <1>4
  <1>6. \A m \in 1..Len(r) : Kept(lo, q, m) => r[m] = bs[Old(lo, hi, q, m)]
    <2>1. \A m \in 1..Len(r) : q < m => ~(m < lo)
      BY <1>1, <1>3, <1>4
    <2> QED BY <2>1, <1>2 DEF Kept, Old
  <1>7. r[p] = owned(i)
    BY <1>2, <1>5
  <1>8. lo < p => r[lo].owner = Nil /\ r[lo].size = a
    BY <1>1, <1>2, <1>5
  <1>9. p < q => r[q].owner = Nil /\ r[q].size = c
    <2>1. q <= q
      BY <1>3
    <2> QED BY <2>1, <1>2, <1>5
  <1>10. Placing(bs, lo, hi, i, a, c, p, q, r)
    BY <1>2, <1>3, <1>4, <1>6, <1>7, <1>8, <1>9 DEF Placing
  <1> QED BY <1>3, <1>10 DEF p

(* The hypotheses under which blocks are replaced: those of the intervals  *)
(* of gone and free blocks go, and no free block is left next to them.     *)
Replaceable(bs, H, lo, hi, gone) ==
    /\ ListOK(bs, H)
    /\ lo \in 1..Len(bs) + 1 /\ hi \in lo..Len(bs) + 1
    /\ lo - 1 \notin FreeAt(bs) /\ hi \notin FreeAt(bs)
    /\ \A k \in DOMAIN bs : lo <= k /\ k < hi /\ allocated(bs[k]) => bs[k].owner \in gone
    /\ \A g \in gone : \E k \in DOMAIN bs : lo <= k /\ k < hi /\ bs[k].owner = g

(* What is kept are the blocks of the other intervals, in their order.     *)
Respliced(bs, lo, hi, q, r) ==
    /\ r \in Seq(Block) /\ Len(r) = q + (Len(bs) + 1 - hi)
    /\ \A m \in 1..Len(r) : Kept(lo, q, m) => r[m] = bs[Old(lo, hi, q, m)]
KeptOK(r, H, lo, q) ==
    /\ \A m \in DOMAIN r : Kept(lo, q, m) /\ allocated(r[m]) => r[m].owner \in H
    /\ \A m \in FreeAt(r) : Kept(lo, q, m) =>
         /\ r[m].size # 0 /\ m # lo - 1
         /\ m + 1 \in DOMAIN r /\ Kept(lo, q, m + 1) => m + 1 \notin FreeAt(r)
    /\ q + 1 \notin FreeAt(r)
    /\ \A j \in H : \E m \in DOMAIN r : Kept(lo, q, m) /\ r[m].owner = j
    /\ \A m, n \in DOMAIN r :
         Kept(lo, q, m) /\ Kept(lo, q, n) /\ r[m].owner = r[n].owner /\ allocated(r[m]) => m = n

LEMMA KeptBlocks ==
    ASSUME NEW bs, NEW H, NEW lo, NEW hi, NEW gone, Nil \notin gone, Nil \notin H,
           Replaceable(bs, H, lo, hi, gone),
           NEW q \in Nat, lo - 1 <= q, NEW r, Respliced(bs, lo, hi, q, r)
    PROVE  KeptOK(r, H \ gone, lo, q)
  <1> DEFINE old(m) == Old(lo, hi, q, m)
  <1>1. PICK N \in Nat, R \in Nat : N = Len(bs) /\ R = Len(r)
    BY LenProperties DEF Replaceable, ListOK, Respliced
  <1>2. DOMAIN bs = 1..N /\ DOMAIN r = 1..R /\ R = q + (N + 1 - hi)
    BY <1>1, LenProperties DEF Replaceable, ListOK, Respliced
  <1>3. lo \in 1..N + 1 /\ hi \in lo..N + 1 /\ lo - 1 \notin FreeAt(bs) /\ hi \notin FreeAt(bs)
    BY <1>1 DEF Replaceable
  <1>4. /\ \A m \in 1..R : Kept(lo, q, m) =>
             /\ old(m) \in 1..N
             /\ m < lo <=> old(m) < lo
             /\ old(m) < lo \/ hi <= old(m)
        /\ \A m, n \in 1..R : Kept(lo, q, m) /\ Kept(lo, q, n) => (m = n <=> old(m) = old(n))
        /\ \A k \in 1..N : k < lo \/ hi <= k => \E m \in 1..R : Kept(lo, q, m) /\ old(m) = k
    <2>1. OldInOrder(N, R, lo, hi, q)
      BY <1>2, <1>3, KeptOld
    <2> QED BY <2>1 DEF OldInOrder
  <1>5. \A m \in 1..R : Kept(lo, q, m) => r[m] = bs[old(m)]
    BY <1>1 DEF Respliced
  <1> HIDE DEF old
  <1>6. \A k \in 1..N : bs[k].owner \in gone => lo <= k /\ k < hi
    <2> SUFFICES ASSUME NEW k \in 1..N, bs[k].owner \in gone PROVE lo <= k /\ k < hi
      OBVIOUS
    <2>1. PICK n \in 1..N : lo <= n /\ n < hi /\ bs[n].owner = bs[k].owner
      BY <1>2 DEF Replaceable
    <2>2. k = n
      BY <2>1, <1>2 DEF Replaceable, ListOK, allocated
    <2> QED BY <2>1, <2>2
  <1>7. \A m \in 1..R : Kept(lo, q, m) /\ allocated(r[m]) => r[m].owner \in H \ gone
    <2> SUFFICES ASSUME NEW m \in 1..R, Kept(lo, q, m), allocated(r[m])
                 PROVE  r[m].owner \in H \ gone
      OBVIOUS
    <2>1. old(m) \in 1..N /\ r[m] = bs[old(m)] /\ (old(m) < lo \/ hi <= old(m))
      BY <1>4, <1>5
    <2>2. bs[old(m)].owner \in H
      BY <2>1, <1>2 DEF Replaceable, ListOK
    <2>3. bs[old(m)].owner \notin gone
      BY <2>1, <1>3, <1>6
    <2> QED BY <2>1, <2>2, <2>3
  <1>8. \A m \in FreeAt(r) : Kept(lo, q, m) => old(m) \in FreeAt(bs) /\ r[m] = bs[old(m)]
    BY <1>2, <1>4, <1>5 DEF FreeAt
  <1>9. ASSUME NEW m \in FreeAt(r), Kept(lo, q, m)
        PROVE  /\ r[m].size # 0 /\ m # lo - 1
               /\ m + 1 \in DOMAIN r /\ Kept(lo, q, m + 1) => m + 1 \notin FreeAt(r)
    <2>1. m \in 1..R /\ old(m) \in FreeAt(bs) /\ r[m] = bs[old(m)]
      BY <1>2, <1>8, <1>9 DEF FreeAt
    <2>2. m # lo - 1
      <3>1. m = lo - 1 => old(m) = lo - 1
        BY <1>3 DEF old, Old
      <3> QED BY <2>1, <3>1, <1>3
    <2>3. ASSUME m + 1 \in FreeAt(r), Kept(lo, q, m + 1) PROVE FALSE
      <3>1. old(m + 1) \in FreeAt(bs)
        BY <2>3, <1>8
      <3>2. old(m + 1) = old(m) + 1
        BY <2>1, <2>2, <2>3, <1>2, <1>3, <1>9 DEF old, Old, Kept
      <3> QED BY <2>1, <3>1, <3>2 DEF Replaceable, ListOK
    <2>4. r[m].size # 0
      BY <2>1 DEF Replaceable, ListOK
    <2> QED BY <2>2, <2>3, <2>4
  <1>10. q + 1 \notin FreeAt(r)
    <2> SUFFICES ASSUME q + 1 \in FreeAt(r) PROVE FALSE
      OBVIOUS
    <2>1. Kept(lo, q, q + 1) /\ old(q + 1) = hi
      BY <1>3 DEF Kept, old, Old
    <2> QED BY <2>1, <1>3, <1>8
  <1>11. \A j \in H \ gone : \E m \in 1..R : Kept(lo, q, m) /\ r[m].owner = j
    <2> SUFFICES ASSUME NEW j \in H, j \notin gone
                 PROVE  \E m \in 1..R : Kept(lo, q, m) /\ r[m].owner = j
      OBVIOUS
    <2>1. PICK k \in 1..N : bs[k].owner = j
      BY <1>2 DEF Replaceable, ListOK
    <2>2. k < lo \/ hi <= k
      <3>1. allocated(bs[k])
        BY <2>1 DEF allocated
      <3> QED BY <2>1, <3>1, <1>2, <1>3 DEF Replaceable
    <2> QED BY <2>1, <2>2, <1>4, <1>5
  <1>12. ASSUME NEW m \in 1..R, NEW n \in 1..R, Kept(lo, q, m), Kept(lo, q, n),
                r[m].owner = r[n].owner, allocated(r[m])
         PROVE  m = n
    <2>1. old(m) = old(n)
      BY <1>2, <1>4, <1>5, <1>12 DEF Replaceable, ListOK
    <2> QED BY <2>1, <1>4, <1>12
  <1> QED BY <1>2, <1>7, <1>9, <1>10, <1>11, <1>12 DEF KeptOK

LEMMA PlacedKeepsList ==
    ASSUME NEW bs, NEW H, NEW lo, NEW hi, NEW gone, Nil \notin gone, Nil \notin H,
           Replaceable(bs, H, lo, hi, gone),
           NEW i, i # Nil, i \notin H, NEW a \in Nat, NEW c \in Nat,
           NEW r, NEW p \in Nat, NEW q \in Nat, Placing(bs, lo, hi, i, a, c, p, q, r)
    PROVE  ListOK(r, (H \ gone) \cup {i})
  <1>1. PICK R \in Nat : R = Len(r)
    BY DEF Placing
  <1>2. /\ lo \in Nat /\ 1 <= lo /\ lo <= p /\ p <= q /\ q <= p + 1 /\ p <= lo + 1 /\ q <= R
        /\ r \in Seq(Block) /\ DOMAIN r = 1..R
    <2>1. Len(bs) \in Nat
      BY LenProperties DEF Replaceable, ListOK
    <2> QED BY <2>1, <1>1, LenProperties DEF Placing, Replaceable
  <1>3. /\ r[p].owner = i
        /\ lo < p => r[lo].owner = Nil /\ r[lo].size # 0
        /\ p < q => r[q].owner = Nil /\ r[q].size # 0
    BY DEF Placing, owned
  <1>4. lo - 1 <= q /\ Respliced(bs, lo, hi, q, r)
    BY <1>2 DEF Placing, Respliced
  <1>5. KeptOK(r, H \ gone, lo, q)
    BY <1>4, KeptBlocks
  <1>6. \A m \in 1..R : Kept(lo, q, m) \/ m = p \/ (m = lo /\ lo < p) \/ (m = q /\ p < q)
    BY <1>2 DEF Kept
  <1>7. p \in 1..R /\ ~Kept(lo, q, p) /\ ~Kept(lo, q, lo) /\ ~Kept(lo, q, q)
    BY <1>2 DEF Kept
  <1>8. p \notin FreeAt(r)
    BY <1>3 DEF FreeAt, allocated
  <1>9. ASSUME NEW m \in FreeAt(r) PROVE r[m].size # 0 /\ m + 1 \notin FreeAt(r)
    <2>1. m \in 1..R
      BY <1>2 DEF FreeAt
    <2>2. CASE Kept(lo, q, m)
      <3>1. m + 1 \in FreeAt(r) => m + 1 \in DOMAIN r
        BY DEF FreeAt
      <3>2. m # lo - 1 => Kept(lo, q, m + 1)
        BY <2>1, <2>2, <1>2 DEF Kept
      <3> QED BY <2>2, <3>1, <3>2, <1>5 DEF KeptOK
    <2>3. CASE m = lo /\ lo < p
      <3>1. m + 1 = p
        BY <2>3, <1>2
      <3> QED BY <2>3, <3>1, <1>3, <1>8
    <2>4. CASE m = q /\ p < q
      BY <2>4, <1>3, <1>5 DEF KeptOK
    <2>5. m # p
      BY <1>8
    <2> QED BY <2>1, <2>2, <2>3, <2>4, <2>5, <1>6
  <1>10. \A m \in 1..R : allocated(r[m]) => Kept(lo, q, m) \/ m = p
    BY <1>3, <1>6 DEF allocated
  <1>11. \A m \in 1..R : allocated(r[m]) => r[m].owner \in (H \ gone) \cup {i}
    BY <1>2, <1>3, <1>5, <1>10 DEF KeptOK
  <1>12. \A j \in (H \ gone) \cup {i} : \E m \in 1..R : r[m].owner = j
    BY <1>2, <1>3, <1>5, <1>7 DEF KeptOK
  <1>13. ASSUME NEW m \in 1..R, NEW n \in 1..R, r[m].owner = r[n].owner, allocated(r[m])
         PROVE  m = n
    <2>1. allocated(r[n])
      BY <1>13 DEF allocated
    <2>2. \A k \in 1..R : Kept(lo, q, k) /\ allocated(r[k]) => r[k].owner # i
      BY <1>2, <1>5 DEF KeptOK
    <2> QED BY <2>1, <2>2, <1>2, <1>3, <1>5, <1>10, <1>13 DEF KeptOK
  <1> QED BY <1>2, <1>9, <1>11, <1>12, <1>13 DEF ListOK

(* The intervals that make_alloc_result() finds next to a new one are those *)
(* on either side of the blocks that it came in place of.                  *)
LeftOf(bs, lo) == IF lo = 1 THEN Nil ELSE bs[lo - 1].owner
RightOf(bs, hi) == IF hi = Len(bs) + 1 THEN Nil ELSE bs[hi].owner

LEMMA PlacedNeighbours ==
    ASSUME NEW bs, NEW H, NEW lo, NEW hi, NEW gone, Replaceable(bs, H, lo, hi, gone),
           NEW i, NEW a \in Nat, NEW c \in Nat,
           NEW r, NEW p \in Nat, NEW q \in Nat, Placing(bs, lo, hi, i, a, c, p, q, r)
    PROVE  prev(r, p) = LeftOf(bs, lo) /\ next(r, p) = RightOf(bs, hi) /\ FoundNoAdjacentFree(r, p)
  <1>1. PICK N \in Nat, R \in Nat : N = Len(bs) /\ R = Len(r)
    BY LenProperties DEF Replaceable, ListOK, Placing
  <1>2. /\ lo \in 1..N + 1 /\ hi \in lo..N + 1
        /\ lo <= p /\ p <= q /\ q <= p + 1 /\ p <= lo + 1 /\ q <= R
        /\ R = q + (N + 1 - hi)
    BY <1>1 DEF Placing, Replaceable
  <1>3. /\ lo < p => ~allocated(r[p - 1]) /\ p - 1 = lo
        /\ p < q => ~allocated(r[p + 1]) /\ p + 1 = q
    <2>1. (lo < p => p - 1 = lo) /\ (p < q => p + 1 = q)
      BY <1>2
    <2> QED BY <2>1 DEF Placing, allocated
  <1>4. lo > 1 => r[lo - 1] = bs[lo - 1] /\ allocated(r[lo - 1])
    <2> SUFFICES ASSUME lo > 1 PROVE r[lo - 1] = bs[lo - 1] /\ allocated(r[lo - 1])
      OBVIOUS
    <2>1. lo - 1 \in 1..R /\ lo - 1 \in 1..N /\ Kept(lo, q, lo - 1)
      BY <1>2 DEF Kept
    <2>2. r[lo - 1] = bs[Old(lo, hi, q, lo - 1)]
      BY <1>1, <2>1 DEF Placing
    <2>3. Old(lo, hi, q, lo - 1) = lo - 1
      BY <1>2 DEF Old
    <2>4. allocated(bs[lo - 1])
      BY <2>1, <1>1, LenProperties DEF Replaceable, ListOK, FreeAt
    <2> QED BY <2>2, <2>3, <2>4
  <1>5. hi <= N => q < R /\ r[q + 1] = bs[hi] /\ allocated(r[q + 1])
    <2> SUFFICES ASSUME hi <= N PROVE q < R /\ r[q + 1] = bs[hi] /\ allocated(r[q + 1])
      OBVIOUS
    <2>1. q < R /\ q + 1 \in 1..R /\ hi \in 1..N /\ Kept(lo, q, q + 1)
      BY <1>2 DEF Kept
    <2>2. r[q + 1] = bs[Old(lo, hi, q, q + 1)]
      BY <1>1, <2>1 DEF Placing
    <2>3. Old(lo, hi, q, q + 1) = hi
      BY <1>2 DEF Old
    <2>4. allocated(bs[hi])
      BY <2>1, <1>1, LenProperties DEF Replaceable, ListOK, FreeAt
    <2> QED BY <2>1, <2>2, <2>3, <2>4
  <1>6. prev(r, p) = LeftOf(bs, lo) /\ (p > 2 /\ ~allocated(r[p - 1]) => allocated(r[p - 2]))
    <2>1. CASE lo < p
      <3>1. p - 1 = lo /\ p - 2 = lo - 1
        BY <2>1, <1>2
      <3>2. CASE lo = 1
        <4>1. p # 1 /\ ~(p > 2)
          BY <3>1, <3>2, <1>2
        <4> QED BY <4>1, <3>1, <3>2, <2>1, <1>3 DEF prev, LeftOf, allocated
      <3>3. CASE lo > 1
        <4>1. p # 1 /\ p > 2 /\ lo # 1
          BY <3>1, <3>3, <1>2
        <4> QED BY <4>1, <3>1, <3>3, <2>1, <1>3, <1>4 DEF prev, LeftOf
      <3> QED BY <3>2, <3>3, <1>2
    <2>2. CASE p = lo
      <3>1. CASE lo = 1
        BY <3>1, <2>2 DEF prev, LeftOf
      <3>2. CASE lo > 1
        <4>1. p # 1 /\ lo # 1
          BY <3>2, <2>2, <1>2
        <4> QED BY <4>1, <3>2, <2>2, <1>4 DEF prev, LeftOf
      <3> QED BY <3>1, <3>2, <1>2
    <2> QED BY <2>1, <2>2, <1>2
  <1>7. next(r, p) = RightOf(bs, hi) /\ (p + 1 < R /\ ~allocated(r[p + 1]) => allocated(r[p + 2]))
    <2>1. CASE p < q
      <3>1. q = p + 1 /\ q + 1 = p + 2 /\ p # R
        BY <2>1, <1>2
      <3>2. CASE hi <= N
        <4>1. p + 1 < R /\ hi # N + 1
          BY <3>1, <3>2, <1>2, <1>5
        <4> QED BY <4>1, <3>1, <3>2, <2>1, <1>1, <1>3, <1>5 DEF next, RightOf
      <3>3. CASE hi = N + 1
        <4>1. ~(p + 1 < R)
          BY <3>1, <3>3, <1>2
        <4> QED BY <4>1, <3>1, <3>3, <2>1, <1>1, <1>3 DEF next, RightOf, allocated
      <3> QED BY <3>2, <3>3, <1>2
    <2>2. CASE p = q
      <3>1. CASE hi <= N
        <4>1. p # R /\ hi # N + 1
          BY <3>1, <2>2, <1>2, <1>5
        <4> QED BY <4>1, <3>1, <2>2, <1>1, <1>5 DEF next, RightOf
      <3>2. CASE hi = N + 1
        <4>1. p = R
          BY <3>2, <2>2, <1>2
        <4>2. ~(p + 1 < R)
          BY <4>1
        <4> QED BY <4>1, <4>2, <3>2, <1>1 DEF next, RightOf
      <3> QED BY <3>1, <3>2, <1>2
    <2> QED BY <2>1, <2>2, <1>2
  <1> QED BY <1>1, <1>6, <1>7 DEF FoundNoAdjacentFree

-----------------------------------------------------------------------------
(* Layouts of a list                                                       *)

(* The intervals of the list come in the order of their blocks.            *)
end_in(f, j) == f[j] + itv[j].size
Ordered(bs, f) ==
    \A k, m \in DOMAIN bs : k < m /\ allocated(bs[k]) /\ allocated(bs[m]) =>
        end_in(f, bs[k].owner) <= f[bs[m].owner]

(* Every block, at the address that s gives it, has its room.              *)
Room(b) == IF allocated(b) THEN itv[b.owner].size ELSE b.size
Fits(bs, f, s) ==
    /\ s \in [DOMAIN bs -> Nat]
    /\ \A k \in DOMAIN bs : allocated(bs[k]) => s[k] = f[bs[k].owner]
    /\ \A k \in DOMAIN bs : k + 1 \in DOMAIN bs => s[k] + Room(bs[k]) <= s[k + 1]

LEMMA KeptOrdered ==
    ASSUME NEW bs, NEW H, NEW lo, NEW hi, NEW gone, Replaceable(bs, H, lo, hi, gone),
           NEW q \in Nat, lo - 1 <= q, NEW r, Respliced(bs, lo, hi, q, r),
           NEW f, Ordered(bs, f), NEW m \in DOMAIN r, NEW n \in DOMAIN r, m < n,
           Kept(lo, q, m), Kept(lo, q, n), allocated(r[m]), allocated(r[n])
    PROVE  end_in(f, r[m].owner) <= f[r[n].owner]
  <1>1. PICK N \in Nat, R \in Nat : N = Len(bs) /\ R = Len(r)
    BY LenProperties DEF Replaceable, ListOK, Respliced
  <1>2. DOMAIN bs = 1..N /\ DOMAIN r = 1..R /\ R = q + (N + 1 - hi)
    BY <1>1, LenProperties DEF Replaceable, ListOK, Respliced
  <1>3. OldInOrder(N, R, lo, hi, q)
    BY <1>1, <1>2, KeptOld DEF Replaceable
  <1>4. /\ Old(lo, hi, q, m) \in DOMAIN bs /\ Old(lo, hi, q, n) \in DOMAIN bs
        /\ Old(lo, hi, q, m) < Old(lo, hi, q, n)
    BY <1>2, <1>3 DEF OldInOrder
  <1>5. r[m] = bs[Old(lo, hi, q, m)] /\ r[n] = bs[Old(lo, hi, q, n)]
    BY <1>1, <1>2 DEF Respliced
  <1> QED BY <1>4, <1>5 DEF Ordered

LEMMA PlacedOrdered ==
    ASSUME NEW bs, NEW H \in SUBSET Ids, NEW lo, NEW hi, NEW gone,
           Replaceable(bs, H, lo, hi, gone),
           NEW i \in Ids, NEW a \in Nat, NEW c \in Nat,
           NEW r, NEW p \in Nat, NEW q \in Nat, Placing(bs, lo, hi, i, a, c, p, q, r),
           \A j \in Ids : itv[j].size \in Nat,
           NEW f \in [Ids -> Nat], Ordered(bs, f),
           lo > 1 => end_in(f, bs[lo - 1].owner) <= f[i],
           hi <= Len(bs) => end_in(f, i) <= f[bs[hi].owner]
    PROVE  Ordered(r, f)
  <1>1. PICK N \in Nat, R \in Nat : N = Len(bs) /\ R = Len(r)
    BY LenProperties DEF Replaceable, ListOK, Placing
  <1>2. /\ lo \in 1..N + 1 /\ hi \in lo..N + 1
        /\ lo <= p /\ p <= q /\ q <= p + 1 /\ p <= lo + 1 /\ q <= R
        /\ R = q + (N + 1 - hi) /\ DOMAIN bs = 1..N /\ DOMAIN r = 1..R
    BY <1>1, LenProperties DEF Placing, Replaceable, ListOK
  <1>A. /\ lo \in Nat /\ 1 <= lo /\ lo <= N + 1 /\ hi \in Nat /\ lo <= hi /\ hi <= N + 1
        /\ p \in Nat /\ q \in Nat /\ N \in Nat /\ R \in Nat
        /\ lo <= p /\ p <= q /\ q <= p + 1 /\ p <= lo + 1 /\ q <= R
    BY ONLY <1>2, p \in Nat, q \in Nat, N \in Nat, R \in Nat
  <1>3. Respliced(bs, lo, hi, q, r) /\ lo - 1 <= q
    <2>1. Respliced(bs, lo, hi, q, r)
      BY <1>1, <1>2 DEF Placing, Respliced
    <2>2. lo - 1 <= q
      BY ONLY <1>A
    <2> QED BY <2>1, <2>2
  <1>4. OldInOrder(N, R, lo, hi, q)
    BY <1>2, <1>3, KeptOld
  <1>5. \A m \in 1..R : allocated(r[m]) => Kept(lo, q, m) \/ m = p
    <2>1. \A m \in 1..R : Kept(lo, q, m) \/ m = p \/ (m = lo /\ lo < p) \/ (m = q /\ p < q)
      BY ONLY <1>A DEF Kept
    <2> QED BY <2>1 DEF Placing, allocated
  <1>6. r[p].owner = i /\ ~Kept(lo, q, p)
    BY <1>2 DEF Placing, owned, Kept
  <1>7. \A m \in 1..R : Kept(lo, q, m) => /\ Old(lo, hi, q, m) \in 1..N
                                          /\ r[m] = bs[Old(lo, hi, q, m)]
    BY <1>1, <1>4 DEF OldInOrder, Placing
  <1>8. \A k \in 1..N : allocated(bs[k]) => /\ bs[k].owner \in Ids /\ f[bs[k].owner] \in Nat
                                            /\ end_in(f, bs[k].owner) \in Nat
                                            /\ f[bs[k].owner] <= end_in(f, bs[k].owner)
    <2>1. \A k \in 1..N : allocated(bs[k]) => bs[k].owner \in Ids
      BY <1>2 DEF Replaceable, ListOK
    <2>2. \A j \in Ids : f[j] \in Nat /\ end_in(f, j) \in Nat /\ f[j] <= end_in(f, j)
      BY DEF end_in
    <2> QED BY <2>1, <2>2
  <1>9. ASSUME NEW m \in 1..R, m < p, Kept(lo, q, m), allocated(r[m])
        PROVE  end_in(f, r[m].owner) <= f[i]
    <2>1. m < lo /\ lo > 1 /\ lo - 1 \in 1..N
      BY <1>9, <1>2 DEF Kept
    <2>2. r[m] = bs[m] /\ m \in 1..N
      BY <2>1, <1>2, <1>7, <1>9 DEF Old
    <2>3. allocated(bs[lo - 1])
      BY <2>1, <1>2 DEF Replaceable, FreeAt
    <2>4. CASE m = lo - 1
      BY <2>1, <2>2, <2>4
    <2>5. CASE m # lo - 1
      <3>1. end_in(f, bs[m].owner) <= f[bs[lo - 1].owner]
        BY <2>1, <2>2, <2>3, <2>5, <1>2, <1>9 DEF Ordered
      <3>2. end_in(f, bs[lo - 1].owner) <= f[i]
        BY <2>1
      <3> QED BY <3>1, <3>2, <2>1, <2>2, <2>3, <1>8, <1>9
    <2> QED BY <2>4, <2>5
  <1>10. ASSUME NEW m \in 1..R, p < m, Kept(lo, q, m), allocated(r[m])
         PROVE  end_in(f, i) <= f[r[m].owner]
    <2> DEFINE k == Old(lo, hi, q, m)
    <2>1. q < m /\ hi <= k /\ hi <= N /\ k \in 1..N /\ r[m] = bs[k]
      <3>1. q < m
        BY <1>2, <1>10 DEF Kept
      <3>2. k = m - q + hi - 1
        BY <3>1, <1>2 DEF Old
      <3>3. k \in 1..N /\ r[m] = bs[k]
        BY <1>7, <1>10
      <3> QED BY <3>1, <3>2, <3>3, <1>2
    <2> HIDE DEF k
    <2>2. hi \in 1..N /\ allocated(bs[hi])
      BY <2>1, <1>2 DEF Replaceable, FreeAt
    <2>3. end_in(f, i) <= f[bs[hi].owner] /\ end_in(f, i) \in Nat
      BY <2>1, <1>1 DEF end_in
    <2>4. CASE k = hi
      BY <2>1, <2>3, <2>4
    <2>5. CASE k # hi
      <3>1. end_in(f, bs[hi].owner) <= f[bs[k].owner]
        BY <2>1, <2>2, <2>5, <1>2, <1>10 DEF Ordered
      <3> QED BY <3>1, <2>1, <2>2, <2>3, <1>8, <1>10
    <2> QED BY <2>4, <2>5
  <1>11. SUFFICES ASSUME NEW m \in 1..R, NEW n \in 1..R, m < n, allocated(r[m]), allocated(r[n])
                  PROVE  end_in(f, r[m].owner) <= f[r[n].owner]
    BY <1>2 DEF Ordered
  <1>12. CASE m = p
    <2>1. p < n /\ n # p
      BY <1>11, <1>12, <1>A
    <2>2. Kept(lo, q, n)
      BY <2>1, <1>5, <1>11
    <2> QED BY <2>1, <2>2, <1>6, <1>10, <1>11, <1>12
  <1>13. CASE n = p
    BY <1>2, <1>5, <1>6, <1>9, <1>11, <1>13
  <1>14. CASE m # p /\ n # p
    <2>1. Kept(lo, q, m) /\ Kept(lo, q, n) /\ m \in DOMAIN r /\ n \in DOMAIN r
      BY <1>2, <1>5, <1>11, <1>14
    <2> QED BY <2>1, <1>3, <1>11, KeptOrdered
  <1> QED BY <1>12, <1>13, <1>14

(* A layout of the list becomes one of the new list if the new blocks fit  *)
(* in where the old ones were, maybe after all that lies above has moved   *)
(* up by delta.                                                            *)
HasRoom(bs, lo, hi, i, a, c, f, s, g, delta, t) ==
    /\ \A k \in DOMAIN bs : allocated(bs[k]) =>
         /\ k < lo => g[bs[k].owner] = f[bs[k].owner]
         /\ hi <= k => g[bs[k].owner] = f[bs[k].owner] + delta
    /\ lo > 1 => s[lo - 1] + Room(bs[lo - 1]) <= t
    /\ t + a <= g[i]
    /\ hi <= Len(bs) => g[i] + itv[i].size + c <= s[hi] + delta

LEMMA PlacedFits ==
    ASSUME NEW bs, NEW H \in SUBSET Ids, NEW lo, NEW hi, NEW gone,
           Replaceable(bs, H, lo, hi, gone),
           NEW i \in Ids, i # Nil, NEW a \in Nat, NEW c \in Nat,
           NEW r, NEW p \in Nat, NEW q \in Nat, Placing(bs, lo, hi, i, a, c, p, q, r),
           \A j \in Ids : itv[j].size \in Nat,
           NEW f, NEW s, Fits(bs, f, s), NEW g \in [Ids -> Nat], NEW delta \in Nat, NEW t \in Nat,
           HasRoom(bs, lo, hi, i, a, c, f, s, g, delta, t)
    PROVE  \E z : Fits(r, g, z)
  <1>H. /\ \A k \in DOMAIN bs : allocated(bs[k]) =>
             /\ k < lo => g[bs[k].owner] = f[bs[k].owner]
             /\ hi <= k => g[bs[k].owner] = f[bs[k].owner] + delta
        /\ lo > 1 => s[lo - 1] + Room(bs[lo - 1]) <= t
        /\ t + a <= g[i]
        /\ hi <= Len(bs) => g[i] + itv[i].size + c <= s[hi] + delta
    BY DEF HasRoom
  <1>1. PICK N \in Nat, R \in Nat : N = Len(bs) /\ R = Len(r)
    BY LenProperties DEF Replaceable, ListOK, Placing
  <1>2. /\ lo \in 1..N + 1 /\ hi \in lo..N + 1
        /\ lo <= p /\ p <= q /\ q <= p + 1 /\ p <= lo + 1 /\ q <= R
        /\ R = q + (N + 1 - hi) /\ DOMAIN bs = 1..N /\ DOMAIN r = 1..R
    BY <1>1, LenProperties DEF Placing, Replaceable, ListOK
  <1>A. /\ lo \in Nat /\ 1 <= lo /\ lo <= N + 1 /\ hi \in Nat /\ lo <= hi /\ hi <= N + 1
        /\ p \in Nat /\ q \in Nat /\ N \in Nat /\ R \in Nat
        /\ lo <= p /\ p <= q /\ q <= p + 1 /\ p <= lo + 1 /\ q <= R
        /\ R = q + (N + 1 - hi)
    BY <1>2
  <1>3. PICK e \in Nat : e = g[i] + itv[i].size
    OBVIOUS
  <1> DEFINE z == [m \in 1..R |-> IF m < lo THEN s[m]
                                  ELSE IF q < m THEN s[m - q + hi - 1] + delta
                                  ELSE IF m = p THEN g[i] ELSE IF m < p THEN t ELSE e]
  <1>4. /\ \A k \in 1..N : s[k] \in Nat
        /\ \A k \in 1..N : allocated(bs[k]) => s[k] = f[bs[k].owner]
        /\ \A k \in 1..N : k + 1 \in 1..N => s[k] + Room(bs[k]) <= s[k + 1]
    BY <1>2 DEF Fits
  <1>5. /\ r[p].owner = i
        /\ lo < p => ~allocated(r[lo]) /\ r[lo].size = a
        /\ p = lo => a = 0
        /\ p < q => ~allocated(r[q]) /\ r[q].size = c
        /\ p = q => c = 0
    BY <1>2 DEF Placing, allocated, owned
  <1>6. Room(r[p]) = itv[i].size /\ (lo < p => Room(r[lo]) = a) /\ (p < q => Room(r[q]) = c)
    BY <1>5 DEF Room, allocated
  <1>7. \A m \in 1..R : /\ m < lo => m \in 1..N /\ r[m] = bs[m]
                        /\ q < m => m - q + hi - 1 \in 1..N /\ r[m] = bs[m - q + hi - 1]
    <2> SUFFICES ASSUME NEW m \in 1..R
                 PROVE  /\ m < lo => m \in 1..N /\ r[m] = bs[m]
                        /\ q < m => m - q + hi - 1 \in 1..N /\ r[m] = bs[m - q + hi - 1]
      OBVIOUS
    <2>1. Kept(lo, q, m) => r[m] = bs[Old(lo, hi, q, m)]
      BY <1>1 DEF Placing
    <2>2. q < m => ~(m < lo) /\ m - q + hi - 1 \in 1..N
      BY <1>2
    <2>3. m < lo => m \in 1..N
      BY <1>2
    <2> QED BY <2>1, <2>2, <2>3 DEF Kept, Old
  <1>8. /\ \A m \in 1..R : m < lo => z[m] = s[m]
        /\ \A m \in 1..R : q < m => z[m] = s[m - q + hi - 1] + delta
        /\ z[p] = g[i] /\ (lo < p => z[lo] = t) /\ (p < q => z[q] = e)
    BY <1>2
  <1>9. z \in [1..R -> Nat]
    <2> SUFFICES ASSUME NEW m \in 1..R PROVE z[m] \in Nat
      BY DEF z
    <2>1. m < lo => s[m] \in Nat
      BY <1>4, <1>7
    <2>2. q < m => s[m - q + hi - 1] + delta \in Nat
      <3>1. q < m => s[m - q + hi - 1] \in Nat
        BY <1>4, <1>7
      <3> QED BY <3>1
    <2> QED BY <2>1, <2>2
  <1>10. \A m \in 1..R : m < lo \/ q < m \/ m = p \/ (m = lo /\ lo < p) \/ (m = q /\ p < q)
    BY ONLY <1>A
  <1> HIDE DEF z
  <1>11. ASSUME NEW m \in 1..R, allocated(r[m]) PROVE z[m] = g[r[m].owner]
    <2>1. CASE m < lo
      <3>1. m \in 1..N /\ r[m] = bs[m] /\ z[m] = s[m]
        BY <2>1, <1>7, <1>8
      <3>2. s[m] = f[bs[m].owner] /\ g[bs[m].owner] = f[bs[m].owner]
        BY <1>H, <2>1, <3>1, <1>2, <1>4, <1>11
      <3> QED BY <3>1, <3>2
    <2>2. CASE q < m
      <3> DEFINE k == m - q + hi - 1
      <3>1. hi <= k
        BY ONLY <2>2, <1>A, m \in 1..R
      <3>2. k \in 1..N /\ r[m] = bs[k] /\ z[m] = s[k] + delta
        BY <2>2, <1>7, <1>8
      <3> HIDE DEF k
      <3>3. s[k] = f[bs[k].owner] /\ g[bs[k].owner] = f[bs[k].owner] + delta
        BY <1>H, <3>1, <3>2, <1>2, <1>4, <1>11
      <3> QED BY <3>2, <3>3
    <2>3. CASE m = p
      BY <2>3, <1>5, <1>8
    <2> QED BY <2>1, <2>2, <2>3, <1>5, <1>10, <1>11
  <1>12. q + 1 \in 1..R => z[q + 1] = s[hi] + delta /\ hi <= N
    <2> SUFFICES ASSUME q + 1 \in 1..R PROVE z[q + 1] = s[hi] + delta /\ hi <= N
      OBVIOUS
    <2>1. q < q + 1 /\ (q + 1) - q + hi - 1 = hi /\ hi <= N
      BY <1>2
    <2> QED BY <2>1, <1>8
  <1>13. hi <= N => s[hi] \in Nat /\ e + c <= s[hi] + delta
    BY <1>H, <1>1, <1>2, <1>3, <1>4
  <1>14. ASSUME NEW m \in 1..R, m + 1 \in 1..R PROVE z[m] + Room(r[m]) <= z[m + 1]
    <2>1. CASE m < lo /\ m + 1 < lo
      <3>1. m \in 1..N /\ m + 1 \in 1..N /\ r[m] = bs[m] /\ z[m] = s[m] /\ z[m + 1] = s[m + 1]
        BY <2>1, <1>7, <1>8, <1>14
      <3> QED BY <3>1, <1>4
    <2>2. CASE m = lo - 1
      <3>1. m < lo /\ lo > 1 /\ z[m] = s[m] /\ r[m] = bs[m]
        BY <2>2, <1>2, <1>7, <1>8
      <3>2. z[m] + Room(r[m]) <= t
        BY <1>H, <2>2, <3>1
      <3>3. m + 1 = lo /\ (IF lo < p THEN z[lo] = t ELSE z[lo] = g[i] /\ a = 0)
        <4>1. m + 1 = lo /\ (lo < p \/ p = lo)
          BY ONLY <2>2, <1>A, m \in 1..R
        <4> QED BY <4>1, <1>5, <1>8
      <3>4. z[m + 1] \in Nat /\ t <= z[m + 1]
        <4>1. z[m + 1] \in Nat
          BY <1>9, <1>14
        <4>2. t <= z[lo]
          <5>1. CASE lo < p
            BY <5>1, <3>3
          <5>2. CASE ~(lo < p)
            BY ONLY <5>2, <3>3, <1>H, t \in Nat, g[i] \in Nat
          <5> QED BY <5>1, <5>2
        <4> QED BY <4>1, <4>2, <3>3
      <3>5. z[m] + Room(r[m]) \in Int
        <4>1. m \in 1..N /\ lo - 1 \notin FreeAt(bs)
          BY <2>2, <1>2 DEF Replaceable
        <4>2. allocated(bs[m])
          BY <2>2, <4>1, <1>2 DEF FreeAt
        <4>3. bs[m].owner \in Ids
          BY <4>1, <4>2, <1>2 DEF Replaceable, ListOK
        <4> QED BY <3>1, <4>1, <4>2, <4>3, <1>4 DEF Room
      <3> QED BY <3>2, <3>4, <3>5
    <2>3. CASE m = lo /\ lo < p
      <3>1. m + 1 = p /\ z[m] = t /\ Room(r[m]) = a /\ z[m + 1] = g[i]
        BY <2>3, <1>2, <1>6, <1>8
      <3> QED BY <3>1, <1>H
    <2>4. CASE m = p /\ p < q
      <3>1. m + 1 = q /\ z[m + 1] = e /\ z[m] = g[i] /\ Room(r[m]) = itv[i].size
        BY <2>4, <1>2, <1>6, <1>8
      <3> QED BY <3>1, <1>3
    <2>5. CASE m = p /\ p = q
      <3>1. z[m + 1] = s[hi] + delta /\ hi <= N /\ z[m] = g[i] /\ Room(r[m]) = itv[i].size /\ c = 0
        BY <2>5, <1>5, <1>6, <1>8, <1>12, <1>14
      <3>2. e + 0 <= s[hi] + delta /\ e = g[i] + itv[i].size
        BY <3>1, <1>3, <1>13
      <3> QED BY <3>1, <3>2
    <2>6. CASE m = q /\ p < q
      <3>1. z[m + 1] = s[hi] + delta /\ hi <= N /\ z[m] = e /\ Room(r[m]) = c
        BY <2>6, <1>6, <1>8, <1>12, <1>14
      <3> QED BY <3>1, <1>13
    <2>7. CASE q < m
      <3> DEFINE k == m - q + hi - 1
      <3>1. q < m + 1 /\ (m + 1) - q + hi - 1 = k + 1
        BY <2>7, <1>2
      <3>2. k \in 1..N /\ k + 1 \in 1..N /\ r[m] = bs[k]
        BY <2>7, <3>1, <1>7, <1>14
      <3>3. z[m] = s[k] + delta /\ z[m + 1] = s[k + 1] + delta
        BY <2>7, <3>1, <1>8, <1>14
      <3> HIDE DEF k
      <3>4. s[k] + Room(bs[k]) <= s[k + 1] /\ s[k] \in Nat /\ s[k + 1] \in Nat
        BY <3>2, <1>4
      <3>5. Room(bs[k]) \in Int
        <4>1. bs[k].size \in Nat /\ (allocated(bs[k]) => bs[k].owner \in Ids)
          BY <3>2, <1>1, <1>2, BlockTyped DEF Replaceable, ListOK
        <4> QED BY <4>1 DEF Room
      <3>6. z[m] + Room(bs[k]) <= z[m + 1]
        BY ONLY <3>3, <3>4, <3>5, delta \in Nat
      <3> QED BY <3>2, <3>6
    <2>8. m < lo => m + 1 < lo \/ m = lo - 1
      BY ONLY <1>A, m \in 1..R
    <2> QED BY <2>1, <2>2, <2>3, <2>4, <2>5, <2>6, <2>7, <2>8, <1>2, <1>10
  <1>15. Fits(r, g, z)
    BY <1>2, <1>9, <1>11, <1>14 DEF Fits
  <1> QED BY <1>15

(* The block of an interval and the free ones next to it.                  *)
Around(bs, k, lo, hi) ==
    /\ lo = IF k - 1 \in FreeAt(bs) THEN k - 1 ELSE k
    /\ hi = IF k + 1 \in FreeAt(bs) THEN k + 2 ELSE k + 1

AroundOK(bs, H, k, i, lo, hi) ==
    /\ Replaceable(bs, H, lo, hi, {i})
    /\ lo \in DOMAIN bs /\ lo <= k /\ k < hi
    /\ SizeAt(bs, k - 1) \in Nat /\ SizeAt(bs, k + 1) \in Nat
    /\ \A f, s : Fits(bs, f, s) =>
         /\ s[k] = f[i] /\ s[lo] + SizeAt(bs, k - 1) <= s[k]
         /\ hi \in DOMAIN bs => s[k] + itv[i].size + SizeAt(bs, k + 1) <= s[hi]

LEMMA AroundOne ==
    ASSUME NEW H \in SUBSET Ids, Nil \notin Ids, NEW bs, ListOK(bs, H),
           NEW k \in DOMAIN bs, NEW i \in H, bs[k].owner = i, itv[i].size \in Nat,
           NEW lo, NEW hi, Around(bs, k, lo, hi)
    PROVE  AroundOK(bs, H, k, i, lo, hi)
  <1>1. bs \in Seq(Block) /\ i \in Ids /\ i # Nil
    BY DEF ListOK
  <1>2. PICK N \in Nat : N = Len(bs) /\ DOMAIN bs = 1..N /\ \A m : SizeAt(bs, m) \in Nat
    BY <1>1, BlockTyped
  <1>3. k \in 1..N /\ k \notin FreeAt(bs) /\ allocated(bs[k])
    BY <1>1, <1>2 DEF FreeAt, allocated
  <1>4. /\ lo = IF k - 1 \in FreeAt(bs) THEN k - 1 ELSE k
        /\ hi = IF k + 1 \in FreeAt(bs) THEN k + 2 ELSE k + 1
    BY DEF Around
  <1>5. /\ lo \in 1..N /\ k - 1 <= lo /\ lo <= k
        /\ hi \in 2..N + 1 /\ k + 1 <= hi /\ hi <= k + 2
    BY <1>2, <1>3, <1>4 DEF FreeAt
  <1>6. lo - 1 \notin FreeAt(bs) /\ hi \notin FreeAt(bs)
    <2>1. \A m \in FreeAt(bs) : m \in Int /\ m + 1 \notin FreeAt(bs)
      BY <1>2 DEF ListOK, FreeAt
    <2>2. /\ k - 1 \in FreeAt(bs) => (lo - 1) + 1 \in FreeAt(bs)
          /\ k + 1 \in FreeAt(bs) => hi = (k + 1) + 1
      BY <1>3, <1>4
    <2>3. ~(k - 1 \in FreeAt(bs)) => lo - 1 \notin FreeAt(bs)
      BY <1>3, <1>4
    <2> QED BY <2>1, <2>2, <2>3, <1>4
  <1>7. \A m \in 1..N : lo <= m /\ m < hi /\ m # k => m \in FreeAt(bs)
    BY <1>3, <1>4, <1>5
  <1>8. Replaceable(bs, H, lo, hi, {i})
    <2>1. lo \in 1..Len(bs) + 1 /\ hi \in lo..Len(bs) + 1
      BY <1>2, <1>3, <1>5
    <2>2. \A m \in DOMAIN bs : lo <= m /\ m < hi /\ allocated(bs[m]) => bs[m].owner \in {i}
      BY <1>2, <1>7 DEF FreeAt
    <2>3. lo <= k /\ k < hi
      BY <1>3, <1>5
    <2> QED BY <2>1, <2>2, <2>3, <1>6 DEF Replaceable
  <1>9. ASSUME NEW f, NEW s, Fits(bs, f, s)
        PROVE  /\ s[k] = f[i] /\ s[lo] + SizeAt(bs, k - 1) <= s[k]
               /\ hi \in 1..N => s[k] + itv[i].size + SizeAt(bs, k + 1) <= s[hi]
    <2>1. /\ \A m \in 1..N : s[m] \in Nat
          /\ \A m \in 1..N : m + 1 \in 1..N => s[m] + Room(bs[m]) <= s[m + 1]
          /\ s[k] = f[i]
      BY <1>2, <1>3, <1>9 DEF Fits
    <2>2. Room(bs[k]) = itv[i].size
      BY <1>3 DEF Room
    <2>3. \A m \in FreeAt(bs) : Room(bs[m]) = SizeAt(bs, m)
      BY DEF Room, SizeAt, FreeAt
    <2>4. s[lo] + SizeAt(bs, k - 1) <= s[k]
      <3>1. CASE k - 1 \in FreeAt(bs)
        <4>1. lo = k - 1 /\ (k - 1) + 1 = k /\ k - 1 \in 1..N
          BY <3>1, <1>3, <1>4, <1>5
        <4> QED BY <3>1, <4>1, <2>1, <2>3, <1>3
      <3>2. CASE k - 1 \notin FreeAt(bs)
        <4>1. lo = k /\ SizeAt(bs, k - 1) = 0
          BY <3>2, <1>4 DEF SizeAt
        <4> QED BY <4>1, <2>1, <1>3
      <3> QED BY <3>1, <3>2
    <2>5. ASSUME hi \in 1..N PROVE s[k] + itv[i].size + SizeAt(bs, k + 1) <= s[hi]
      <3>1. k + 1 \in 1..N
        BY <2>5, <1>3, <1>5
      <3>2. s[k] + itv[i].size <= s[k + 1]
        BY <3>1, <2>1, <2>2, <1>3
      <3>3. s[k + 1] + SizeAt(bs, k + 1) <= s[hi]
        <4>1. CASE k + 1 \in FreeAt(bs)
          <5>1. hi = (k + 1) + 1
            BY <4>1, <1>3, <1>4
          <5> QED BY <4>1, <5>1, <2>1, <2>3, <2>5, <3>1
        <4>2. CASE k + 1 \notin FreeAt(bs)
          <5>1. hi = k + 1 /\ SizeAt(bs, k + 1) = 0
            BY <4>2, <1>4 DEF SizeAt
          <5> QED BY <5>1, <2>1, <3>1
        <4> QED BY <4>1, <4>2
      <3>4. s[k] \in Nat /\ s[k + 1] \in Nat /\ s[hi] \in Nat /\ SizeAt(bs, k + 1) \in Nat
        BY <2>1, <2>5, <3>1, <1>2, <1>3
      <3> QED BY <3>2, <3>3, <3>4
    <2> QED BY <2>1, <2>4, <2>5
  <1> QED BY <1>2, <1>5, <1>8, <1>9 DEF AroundOK

(* The block of an interval joins the free ones next to it.                *)
Releasing(bs, H, i, lo, hi, total, r) ==
    /\ Replaceable(bs, H, lo, hi, {i}) /\ Respliced(bs, lo, hi, lo, r)
    /\ lo \in DOMAIN bs /\ lo \in DOMAIN r
    /\ ~allocated(r[lo]) /\ r[lo].size = total /\ total \in Nat \ {0}
    /\ \A f, s : Fits(bs, f, s) /\ hi \in DOMAIN bs => s[lo] + total <= s[hi]

LEMMA FreedShape ==
    ASSUME NEW H \in SUBSET Ids, Nil \notin Ids, NEW bs, ListOK(bs, H),
           NEW k \in DOMAIN bs, NEW i \in H, bs[k].owner = i,
           itv[i].size \in Nat, itv[i].size # 0
    PROVE  \E lo, hi, total : Releasing(bs, H, i, lo, hi, total, Freed(bs, k, i))
  <1> DEFINE lo == IF k - 1 \in FreeAt(bs) THEN k - 1 ELSE k
             hi == IF k + 1 \in FreeAt(bs) THEN k + 2 ELSE k + 1
             total == itv[i].size + SizeAt(bs, k - 1) + SizeAt(bs, k + 1)
             r == Freed(bs, k, i)
  <1>1. bs \in Seq(Block) /\ i \in Ids
    BY DEF ListOK
  <1>2. PICK N \in Nat : N = Len(bs) /\ DOMAIN bs = 1..N
    BY <1>1, LenProperties
  <1>3. Around(bs, k, lo, hi)
    BY DEF Around
  <1>4. Inserted(bs, lo, hi, total, r)
    BY <1>1, FreedIs
  <1> HIDE DEF lo, hi, r
  <1>5. /\ Replaceable(bs, H, lo, hi, {i})
        /\ lo \in DOMAIN bs /\ lo <= k /\ k < hi
        /\ SizeAt(bs, k - 1) \in Nat /\ SizeAt(bs, k + 1) \in Nat
        /\ \A f, s : Fits(bs, f, s) =>
             /\ s[k] = f[i] /\ s[lo] + SizeAt(bs, k - 1) <= s[k]
             /\ hi \in DOMAIN bs => s[k] + itv[i].size + SizeAt(bs, k + 1) <= s[hi]
    <2>1. AroundOK(bs, H, k, i, lo, hi)
      BY <1>3, AroundOne
    <2> QED BY <2>1 DEF AroundOK
  <1>6. total \in Nat /\ total # 0
    <2>1. itv[i].size \in Nat /\ itv[i].size # 0
      OBVIOUS
    <2>2. SizeAt(bs, k - 1) \in Nat /\ SizeAt(bs, k + 1) \in Nat
      BY <1>5
    <2> QED BY ONLY <2>1, <2>2 DEF total
  <1>7. /\ r \in Seq(Block) /\ Len(r) = (lo - 1) + 1 + (Len(bs) + 1 - hi)
        /\ \A m \in 1..Len(r) :
              /\ m < lo => r[m] = bs[m]
              /\ lo <= m /\ m < lo + 1 => r[m].owner = Nil /\ r[m].size = total
              /\ lo + 1 <= m => r[m] = bs[m - lo - 1 + hi]
    <2> HIDE DEF total
    <2> QED BY <1>4, <1>6 DEF Inserted
  <1>8. PICK R \in Nat : R = Len(r) /\ DOMAIN r = 1..R
    BY <1>7, LenProperties
  <1>9. PICK l \in Nat, h \in Nat : l = lo /\ h = hi
    BY <1>2, <1>5 DEF Replaceable
  <1>10. /\ l <= h /\ 1 <= l /\ l <= N /\ h <= N + 1 /\ R = l + (N + 1 - h)
    <2>1. R = (l - 1) + 1 + (N + 1 - h)
      BY <1>2, <1>7, <1>8, <1>9
    <2>2. l <= h /\ 1 <= l /\ l <= N /\ h <= N + 1
      BY <1>2, <1>5, <1>9 DEF Replaceable
    <2> QED BY ONLY <2>1, <2>2, l \in Nat, h \in Nat, N \in Nat
  <1>11. \A m \in 1..R : /\ m < l => r[m] = bs[m]
                         /\ m = l => r[m].owner = Nil /\ r[m].size = total
                         /\ l < m => r[m] = bs[m - l + h - 1]
    <2> SUFFICES ASSUME NEW m \in 1..R
                 PROVE  /\ m < l => r[m] = bs[m]
                        /\ m = l => r[m].owner = Nil /\ r[m].size = total
                        /\ l < m => r[m] = bs[m - l + h - 1]
      OBVIOUS
    <2>1. /\ m < l => r[m] = bs[m]
          /\ l <= m /\ m < l + 1 => r[m].owner = Nil /\ r[m].size = total
          /\ l + 1 <= m => r[m] = bs[m - l - 1 + h]
      BY <1>7, <1>8, <1>9
    <2>2. /\ m = l => l <= m /\ m < l + 1
          /\ l < m => l + 1 <= m
          /\ m - l - 1 + h = m - l + h - 1
      OBVIOUS
    <2> QED BY <2>1, <2>2
  <1>12. Respliced(bs, l, h, l, r)
    <2>1. \A m \in 1..R : Kept(l, l, m) => r[m] = bs[Old(l, h, l, m)]
      BY <1>11 DEF Kept, Old
    <2> QED BY <2>1, <1>2, <1>7, <1>8, <1>10 DEF Respliced
  <1>13. l \in 1..N /\ l \in 1..R /\ ~allocated(r[l]) /\ r[l].size = total
    <2>1. l \in 1..N
      BY <1>10
    <2>2. k \in 1..N /\ k < h /\ l <= k
      BY <1>2, <1>5, <1>9
    <2>3. l \in 1..R
      BY ONLY <1>10, <2>2, l \in Nat, h \in Nat, N \in Nat, R \in Nat
    <2> QED BY <2>1, <2>3, <1>11 DEF allocated
  <1>14. ASSUME NEW f, NEW s, Fits(bs, f, s), h \in 1..N PROVE s[l] + total <= s[h]
    <2>1. /\ s[l] + SizeAt(bs, k - 1) <= s[k]
          /\ s[k] + itv[i].size + SizeAt(bs, k + 1) <= s[h]
      BY <1>2, <1>5, <1>9, <1>14
    <2>2. s[l] \in Nat /\ s[k] \in Nat /\ s[h] \in Nat
      BY <1>2, <1>13, <1>14 DEF Fits
    <2>3. itv[i].size \in Nat
      OBVIOUS
    <2>4. SizeAt(bs, k - 1) \in Nat /\ SizeAt(bs, k + 1) \in Nat
      BY <1>5
    <2> QED BY ONLY <2>1, <2>2, <2>3, <2>4 DEF total
  <1>15. Releasing(bs, H, i, l, h, total, r)
    <2> HIDE DEF total
    <2> QED BY <1>2, <1>5, <1>6, <1>8, <1>9, <1>12, <1>13, <1>14 DEF Releasing
  <1> QED BY <1>15 DEF r

(* free() keeps the other blocks, their order and their room.              *)
Released(bs, H, i, r) ==
    /\ ListOK(r, H \ {i})
    /\ \A f : Ordered(bs, f) => Ordered(r, f)
    /\ \A f, s : Fits(bs, f, s) => \E z : Fits(r, f, z)

LEMMA FreedKeeps ==
    ASSUME NEW H \in SUBSET Ids, Nil \notin Ids, NEW bs, ListOK(bs, H),
           NEW k \in DOMAIN bs, NEW i \in H, bs[k].owner = i,
           \A j \in Ids : itv[j].size \in Nat /\ itv[j].size # 0,
           NEW r, r = Freed(bs, k, i)
    PROVE  Released(bs, H, i, r)
  <1> SUFFICES /\ ListOK(r, H \ {i})
               /\ \A f : Ordered(bs, f) => Ordered(r, f)
               /\ \A f, s : Fits(bs, f, s) => \E z : Fits(r, f, z)
    BY DEF Released
  <1>1. PICK lo, hi, total : Releasing(bs, H, i, lo, hi, total, r)
    BY FreedShape
  <1>2. Replaceable(bs, H, lo, hi, {i}) /\ Respliced(bs, lo, hi, lo, r)
    BY <1>1 DEF Releasing
  <1>3. PICK N \in Nat, R \in Nat : N = Len(bs) /\ R = Len(r)
    BY <1>2, LenProperties DEF Respliced, ListOK
  <1>4. /\ DOMAIN bs = 1..N /\ DOMAIN r = 1..R /\ r \in Seq(Block)
        /\ lo \in 1..N + 1 /\ hi \in lo..N + 1 /\ R = lo + (N + 1 - hi)
        /\ lo \in 1..N /\ lo \in 1..R
    BY <1>1, <1>2, <1>3, LenProperties DEF Releasing, Replaceable, Respliced, ListOK
  <1>5. lo \in Nat /\ lo - 1 <= lo /\ hi \in Nat /\ lo <= hi
    BY <1>4
  <1>6. ~allocated(r[lo]) /\ r[lo].size = total /\ total \in Nat \ {0}
    BY <1>1 DEF Releasing
  <1>7. \A m \in 1..R : Kept(lo, lo, m) <=> m # lo
    BY <1>4 DEF Kept
  <1>8. KeptOK(r, H \ {i}, lo, lo)
    BY <1>2, <1>5, KeptBlocks
  <1>9. ListOK(r, H \ {i})
    <2>1. ASSUME NEW m \in FreeAt(r) PROVE r[m].size # 0 /\ m + 1 \notin FreeAt(r)
      <3>1. m \in 1..R /\ m + 1 # m
        BY <1>4 DEF FreeAt
      <3>2. CASE m = lo
        BY <3>2, <1>6, <1>8 DEF KeptOK
      <3>3. CASE m # lo
        <4>1. r[m].size # 0 /\ m # lo - 1
          BY <3>1, <3>3, <1>7, <1>8 DEF KeptOK
        <4>2. m + 1 \in FreeAt(r) => m + 1 \in 1..R /\ m + 1 # lo
          BY <3>1, <4>1, <1>4, <1>5 DEF FreeAt
        <4> QED BY <3>1, <3>3, <4>1, <4>2, <1>4, <1>7, <1>8 DEF KeptOK
      <3> QED BY <3>2, <3>3
    <2>2. \A m \in 1..R : allocated(r[m]) => Kept(lo, lo, m)
      BY <1>6, <1>7
    <2>3. \A m \in 1..R : allocated(r[m]) => r[m].owner \in H \ {i}
      BY <2>2, <1>4, <1>8 DEF KeptOK
    <2>4. \A j \in H \ {i} : \E m \in 1..R : r[m].owner = j
      BY <1>4, <1>8 DEF KeptOK
    <2>5. \A m, n \in 1..R : r[m].owner = r[n].owner /\ allocated(r[m]) => m = n
      <3>1. \A m, n \in 1..R : r[m].owner = r[n].owner /\ allocated(r[m]) => allocated(r[n])
        BY DEF allocated
      <3> QED BY <2>2, <3>1, <1>4, <1>8 DEF KeptOK
    <2> QED BY <2>1, <2>3, <2>4, <2>5, <1>4 DEF ListOK
  <1>10. ASSUME NEW f, Ordered(bs, f) PROVE Ordered(r, f)
    <2> SUFFICES ASSUME NEW m \in DOMAIN r, NEW n \in DOMAIN r, m < n,
                        allocated(r[m]), allocated(r[n])
                 PROVE  end_in(f, r[m].owner) <= f[r[n].owner]
      BY DEF Ordered
    <2>1. Kept(lo, lo, m) /\ Kept(lo, lo, n)
      BY <1>4, <1>6, <1>7
    <2> QED BY <2>1, <1>2, <1>5, <1>10, KeptOrdered
  <1>11. ASSUME NEW f, NEW s, Fits(bs, f, s) PROVE \E z : Fits(r, f, z)
    <2> DEFINE z == [m \in 1..R |-> IF m <= lo THEN s[m] ELSE s[m - lo + hi - 1]]
    <2>1. /\ \A m \in 1..N : s[m] \in Nat
          /\ \A m \in 1..N : allocated(bs[m]) => s[m] = f[bs[m].owner]
          /\ \A m \in 1..N : m + 1 \in 1..N => s[m] + Room(bs[m]) <= s[m + 1]
      BY <1>4, <1>11 DEF Fits
    <2>2. \A m \in 1..R : /\ m < lo => m \in 1..N /\ r[m] = bs[m]
                          /\ lo < m => m - lo + hi - 1 \in 1..N /\ r[m] = bs[m - lo + hi - 1]
      <3>1. \A m \in 1..R : Kept(lo, lo, m) => r[m] = bs[Old(lo, hi, lo, m)]
        BY <1>2, <1>3 DEF Respliced
      <3>2. \A m \in 1..R : /\ m < lo => m \in 1..N /\ Kept(lo, lo, m)
                                         /\ Old(lo, hi, lo, m) = m
                            /\ lo < m => m - lo + hi - 1 \in 1..N /\ Kept(lo, lo, m)
                                         /\ Old(lo, hi, lo, m) = m - lo + hi - 1
        BY <1>4 DEF Kept, Old
      <3> QED BY <3>1, <3>2
    <2>3. z \in [1..R -> Nat]
      <3> SUFFICES ASSUME NEW m \in 1..R PROVE z[m] \in Nat
        BY DEF z
      <3>1. m <= lo => s[m] \in Nat
        BY <2>1, <1>4
      <3>2. ~(m <= lo) => s[m - lo + hi - 1] \in Nat
        BY <2>1, <2>2, <1>4
      <3> QED BY <3>1, <3>2
    <2>4. /\ \A m \in 1..R : m <= lo => z[m] = s[m]
          /\ \A m \in 1..R : lo < m => z[m] = s[m - lo + hi - 1]
      BY <1>4
    <2> HIDE DEF z
    <2>5. ASSUME NEW m \in 1..R, allocated(r[m]) PROVE z[m] = f[r[m].owner]
      <3>1. m # lo
        BY <2>5, <1>6
      <3>2. CASE m < lo
        BY <3>2, <2>1, <2>2, <2>4, <2>5, <1>4
      <3>3. CASE lo < m
        BY <3>3, <2>1, <2>2, <2>4, <2>5
      <3> QED BY <3>1, <3>2, <3>3, <1>4
    <2>6. ASSUME NEW m \in 1..R, m + 1 \in 1..R PROVE z[m] + Room(r[m]) <= z[m + 1]
      <3>1. CASE m < lo
        <4>1. m + 1 <= lo /\ m <= lo /\ m + 1 \in 1..N
          BY <3>1, <1>4
        <4>2. z[m] = s[m] /\ z[m + 1] = s[m + 1] /\ r[m] = bs[m] /\ m \in 1..N
          BY <3>1, <4>1, <2>2, <2>4, <2>6
        <4> QED BY <4>1, <4>2, <2>1
      <3>2. CASE m = lo
        <4>1. lo < m + 1 /\ (m + 1) - lo + hi - 1 = hi /\ hi \in 1..N
          BY <3>2, <2>6, <1>4
        <4>2. z[m] = s[lo] /\ z[m + 1] = s[hi] /\ Room(r[m]) = total
          BY <3>2, <4>1, <2>4, <2>6, <1>4, <1>6 DEF Room
        <4>3. s[lo] + total <= s[hi]
          BY <4>1, <1>1, <1>4, <1>11 DEF Releasing
        <4> QED BY <4>2, <4>3
      <3>3. CASE lo < m
        <4> DEFINE l == m - lo + hi - 1
        <4>1. lo < m + 1 /\ (m + 1) - lo + hi - 1 = l + 1
          BY <3>3, <1>4
        <4>2. z[m] = s[l] /\ z[m + 1] = s[l + 1] /\ r[m] = bs[l] /\ l \in 1..N /\ l + 1 \in 1..N
          BY <3>3, <4>1, <2>2, <2>4, <2>6
        <4> HIDE DEF l
        <4> QED BY <4>2, <2>1
      <3> QED BY <3>1, <3>2, <3>3, <1>4
    <2>7. Fits(r, f, z)
      BY <2>3, <2>5, <2>6, <1>4 DEF Fits
    <2> QED BY <2>7
  <1> QED BY <1>9, <1>10, <1>11

-----------------------------------------------------------------------------
(* The order                                                               *)

(* The layouts that follow the order and the overwrite specifications, as  *)
(* far as the intervals have begun.                                        *)
Respects(f) ==
    /\ \A i \in Ids : \A j \in below[i] : end_in(f, j) <= f[i]
    /\ \A i \in Ids : Begun(i) /\ dest[i] # Nil => f[i] = f[dest[i]] + offset[i]

BelowOK ==
    /\ below \in [Ids -> SUBSET Ids]
    /\ \A i \in Ids : \A j \in below[i] : Begun(i) /\ Begun(j)

ApartIn(f, i, j) == end_in(f, i) <= f[j] \/ end_in(f, j) <= f[i]

(* Whatever layout follows the order, intervals that hold memory come in   *)
(* that of their blocks, and those in use at the same time are apart.      *)
OrderOK ==
    \A f \in [Ids -> Nat] : Respects(f) =>
        /\ Ordered(blocks, f)
        /\ \A i, j \in Ids : Begun(i) /\ Begun(j) /\ time_overlap(i, j) /\ root[i] # root[j] =>
             ApartIn(f, i, j)

(* There is such a layout, and the free blocks have their room in it.      *)
LayoutOK == \E f \in [Ids -> Nat] : Respects(f) /\ \E s : Fits(blocks, f, s)

ListInv == ListOK(blocks, Holders) /\ BelowOK /\ OrderOK /\ LayoutOK

LEMMA Sizes_ ==
    ASSUME Prepared
    PROVE  /\ Nil \notin Ids
           /\ \A j \in Ids : itv[j].size \in Nat /\ itv[j].size # 0
           /\ Holders \in SUBSET Ids /\ Nil \notin Holders
  BY TimesTyped DEF Holders

LEMMA BegunDest ==
    ASSUME ForwardSpecs, Prepared, LoopOK, Solving, NEW i \in Ids, Begun(i), dest[i] # Nil
    PROVE  dest[i] \in Ids /\ Begun(dest[i])
  <1>1. dest[i] \in Ids /\ itv[dest[i]].begin < itv[i].begin
    BY LinksTyped DEF Solving
  <1>2. itv[i].begin \in Int /\ itv[dest[i]].begin \in Int /\ now \in Int
    BY <1>1, TimesTyped DEF LoopOK
  <1>3. itv[i].begin <= now
    BY <1>2 DEF Begun, Passed
  <1> QED BY <1>1, <1>2, <1>3 DEF Begun, Passed

(* Of two intervals in a chain of overwriters, the later one lies in the   *)
(* earlier one.                                                            *)
LEMMA Nested ==
    ASSUME ForwardSpecs, Prepared, LoopOK, Solving, NEW f \in [Ids -> Nat], Respects(f)
    PROVE  \A a, b \in Ids : Begun(a) /\ Begun(b) /\ root[a] = root[b] /\
                             itv[a].begin <= itv[b].begin =>
             f[a] <= f[b] /\ end_in(f, b) <= end_in(f, a)
  <1> DEFINE In(a, b) == f[a] <= f[b] /\ end_in(f, b) <= end_in(f, a)
             Pair(a, b) == /\ Begun(a) /\ Begun(b) /\ root[a] = root[b]
                           /\ itv[a].begin <= itv[b].begin
             S == {b \in Ids : \E a \in Ids : Pair(a, b) /\ ~In(a, b)}
  <1>1. SUFFICES ASSUME S # {} PROVE FALSE
    OBVIOUS
  <1>2. PICK b \in S : \A x \in S : itv[b].begin <= itv[x].begin
    <2>1. S \in SUBSET Ids
      OBVIOUS
    <2> HIDE DEF S
    <2> QED BY <1>1, <2>1, EarliestExists
  <1>3. PICK a \in Ids : Pair(a, b) /\ ~In(a, b)
    BY <1>2
  <1>4. \A j \in Ids : itv[j].begin \in Int /\ itv[j].size \in Nat /\ f[j] \in Nat
    BY TimesTyped
  <1>5. a # b
    BY <1>3, <1>4 DEF end_in
  <1>6. dest[b] # Nil /\ itv[a].begin <= itv[dest[b]].begin
    BY <1>2, <1>3, <1>5, ChainLinear DEF Solving
  <1>7. /\ dest[b] \in Ids /\ itv[dest[b]].begin < itv[b].begin /\ root[b] = root[dest[b]]
        /\ offset[b] \in Nat /\ offset[b] + itv[b].size <= itv[dest[b]].size
    BY <1>2, <1>6, LinksTyped DEF Solving
  <1>8. Begun(dest[b])
    BY <1>2, <1>3, <1>6, BegunDest
  <1>9. In(a, dest[b])
    <2>1. Pair(a, dest[b])
      BY <1>3, <1>6, <1>7, <1>8
    <2>2. dest[b] \notin S
      BY <1>2, <1>4, <1>7
    <2> QED BY <2>1, <2>2, <1>3, <1>7
  <1>10. f[b] = f[dest[b]] + offset[b]
    BY <1>2, <1>3, <1>6 DEF Respects
  <1>11. f[a] \in Nat /\ itv[a].size \in Nat /\ f[b] \in Nat /\ itv[b].size \in Nat
         /\ f[dest[b]] \in Nat /\ itv[dest[b]].size \in Nat
    BY <1>2, <1>3, <1>4, <1>7
  <1>12. In(a, b)
    BY ONLY <1>7, <1>9, <1>10, <1>11 DEF end_in, In
  <1> QED BY <1>3, <1>12

(* An interval that has not begun can be put anywhere.                     *)
LEMMA PutAnywhere ==
    ASSUME ForwardSpecs, Prepared, LoopOK, Solving, BelowOK, NEW f \in [Ids -> Nat], Respects(f),
           NEW i \in Ids, ~Begun(i), NEW x \in Nat, NEW g, g = [f EXCEPT ![i] = x]
    PROVE  g \in [Ids -> Nat] /\ Respects(g)
  <1>1. g \in [Ids -> Nat] /\ g[i] = x /\ \A j \in Ids : j # i => g[j] = f[j]
    OBVIOUS
  <1>2. ASSUME NEW j \in Ids, NEW m \in below[j] PROVE end_in(g, m) <= g[j]
    <2>1. m \in Ids /\ m # i /\ j # i
      BY <1>2 DEF BelowOK
    <2> QED BY <2>1, <1>1, <1>2 DEF Respects, end_in
  <1>3. ASSUME NEW j \in Ids, Begun(j), dest[j] # Nil PROVE g[j] = g[dest[j]] + offset[j]
    <2>1. dest[j] \in Ids /\ dest[j] # i /\ j # i
      BY <1>3, BegunDest
    <2> QED BY <2>1, <1>1, <1>3 DEF Respects
  <1> QED BY <1>1, <1>2, <1>3 DEF Respects

(* All that is at or above an address can be moved up, with the chains     *)
(* that reach over it.                                                     *)
ChainFrom(f, x) == {j \in Ids : \E c \in Ids : Begun(c) /\ root[c] = root[j] /\ x <= f[c]}
LEMMA MoveUp ==
    ASSUME ForwardSpecs, Prepared, LoopOK, Solving, BelowOK, NEW f \in [Ids -> Nat], Respects(f),
           NEW x \in Nat, NEW delta \in Nat,
           NEW g, g = [j \in Ids |-> IF j \in ChainFrom(f, x) THEN f[j] + delta ELSE f[j]]
    PROVE  g \in [Ids -> Nat] /\ Respects(g)
  <1> DEFINE U == ChainFrom(f, x)
  <1>1. \A j \in Ids : f[j] \in Nat /\ itv[j].size \in Nat /\ itv[j].begin \in Int
    BY TimesTyped
  <1>2. g \in [Ids -> Nat] /\ \A j \in Ids : g[j] = IF j \in U THEN f[j] + delta ELSE f[j]
    BY <1>1
  <1> HIDE DEF U
  <1>3. ASSUME NEW j \in Ids, NEW m \in below[j] PROVE end_in(g, m) <= g[j]
    <2>1. m \in Ids /\ Begun(j) /\ Begun(m) /\ end_in(f, m) <= f[j]
      BY <1>3 DEF BelowOK, Respects
    <2>2. ASSUME m \in U PROVE j \in U
      <3>1. PICK c \in Ids : Begun(c) /\ root[c] = root[m] /\ x <= f[c]
        BY <2>2 DEF U, ChainFrom
      <3>2. f[c] <= end_in(f, m)
        <4>1. CASE itv[m].begin <= itv[c].begin
          <5>1. end_in(f, c) <= end_in(f, m)
            BY <2>1, <3>1, <4>1, Nested
          <5> QED BY <5>1, <2>1, <3>1, <1>1 DEF end_in
        <4>2. CASE itv[c].begin <= itv[m].begin
          <5>1. f[c] <= f[m]
            BY <2>1, <3>1, <4>2, Nested
          <5> QED BY <5>1, <2>1, <3>1, <1>1 DEF end_in
        <4> QED BY <4>1, <4>2, <1>1, <2>1, <3>1
      <3>3. x <= f[j]
        BY <2>1, <3>1, <3>2, <1>1 DEF end_in
      <3> QED BY <2>1, <3>3 DEF U, ChainFrom
    <2>3. g[m] = (IF m \in U THEN f[m] + delta ELSE f[m]) /\
          g[j] = (IF j \in U THEN f[j] + delta ELSE f[j])
      BY <2>1, <1>2
    <2>4. f[m] \in Nat /\ f[j] \in Nat /\ itv[m].size \in Nat
      BY <2>1, <1>1
    <2> QED BY ONLY <2>1, <2>2, <2>3, <2>4, delta \in Nat DEF end_in
  <1>4. ASSUME NEW j \in Ids, Begun(j), dest[j] # Nil PROVE g[j] = g[dest[j]] + offset[j]
    <2>1. dest[j] \in Ids /\ root[j] = root[dest[j]] /\ offset[j] \in Nat
      BY <1>4, LinksTyped DEF Solving
    <2>2. j \in U <=> dest[j] \in U
      BY <2>1 DEF U, ChainFrom
    <2>3. f[j] = f[dest[j]] + offset[j]
      BY <1>4 DEF Respects
    <2>4. f[j] \in Nat /\ f[dest[j]] \in Nat
      BY <2>1, <1>1
    <2> QED BY <2>1, <2>2, <2>3, <2>4, <1>2
  <1> QED BY <1>2, <1>3, <1>4 DEF Respects

(* An interval i begins: its block comes in place of those from lo up to   *)
(* hi, the intervals of gone no longer have one, and init_topo_order()     *)
(* records what is next to it.                                             *)
Beginning(i, lo, hi, gone, a, c, p, q) ==
    /\ UNCHANGED <<problem, links>>
    /\ i \in Ids /\ ~Begun(i) /\ \A j \in Ids : Begun(j)' <=> Begun(j) \/ j = i
    /\ i \notin Holders /\ Holders' = (Holders \ gone) \cup {i} /\ Nil \notin gone
    /\ a \in Nat /\ c \in Nat /\ p \in Nat /\ q \in Nat
    /\ Replaceable(blocks, Holders, lo, hi, gone)
    /\ Placing(blocks, lo, hi, i, a, c, p, q, blocks')
    /\ below' = Recorded(i, blocks')

(* What a layout has to respect in addition.                               *)
NextTo(f, i, lo, hi) ==
    /\ lo > 1 => end_in(f, blocks[lo - 1].owner) <= f[i]
    /\ hi <= Len(blocks) => end_in(f, i) <= f[blocks[hi].owner]

LEMMA BeginningFrame ==
    ASSUME UNCHANGED <<problem, links>>
    PROVE  /\ Ids' = Ids /\ UNCHANGED <<itv, dest, root, offset, src>>
           /\ \A f, j : end_in(f, j)' = end_in(f, j)
           /\ \A f, i, j : ApartIn(f, i, j)' <=> ApartIn(f, i, j)
           /\ \A i, j : time_overlap(i, j)' <=> time_overlap(i, j)
           /\ \A bs, f : Ordered(bs, f)' <=> Ordered(bs, f)
           /\ \A bs, f, s : Fits(bs, f, s)' <=> Fits(bs, f, s)
           /\ \A bs, H : ListOK(bs, H)' <=> ListOK(bs, H)
  <1>1. Ids' = Ids /\ UNCHANGED <<itv, dest, root, offset, src>>
    BY DEF problem, links, Ids
  <1>2. \A f, j : end_in(f, j)' = end_in(f, j)
    BY <1>1 DEF end_in
  <1>3. \A b : allocated(b)' <=> allocated(b)
    BY DEF allocated
  <1>4. \A b : Room(b)' = Room(b)
    BY <1>1, <1>3 DEF Room
  <1>5. Block' = Block /\ \A bs : FreeAt(bs)' = FreeAt(bs)
    BY <1>1, <1>3 DEF Block, FreeAt
  <1>6. \A f, i, j : ApartIn(f, i, j)' <=> ApartIn(f, i, j)
    BY <1>2 DEF ApartIn
  <1>7. \A i, j : time_overlap(i, j)' <=> time_overlap(i, j)
    BY <1>1 DEF time_overlap
  <1>8. \A bs, f : Ordered(bs, f)' <=> Ordered(bs, f)
    BY <1>2, <1>3 DEF Ordered
  <1>9. \A bs, f, s : Fits(bs, f, s)' <=> Fits(bs, f, s)
    BY <1>3, <1>4 DEF Fits
  <1>10. \A bs, H : ListOK(bs, H)' <=> ListOK(bs, H)
    BY <1>3, <1>5 DEF ListOK
  <1> QED BY <1>1, <1>2, <1>6, <1>7, <1>8, <1>9, <1>10

LEMMA BeginKeepsList ==
    ASSUME Prepared, ListInv,
           NEW i, NEW lo, NEW hi, NEW gone, NEW a, NEW c, NEW p, NEW q,
           Beginning(i, lo, hi, gone, a, c, p, q)
    PROVE  /\ ListOK(blocks, Holders)' /\ BelowOK'
           /\ \A k \in PositionsOf(blocks', i) : FoundNoAdjacentFree(blocks', k)
           /\ \A f \in [Ids -> Nat] : Respects(f)' <=>
                /\ Respects(f) /\ NextTo(f, i, lo, hi)
                /\ dest[i] # Nil => f[i] = f[dest[i]] + offset[i]
  <1>1. /\ UNCHANGED <<problem, links>>
        /\ i \in Ids /\ ~Begun(i) /\ \A j \in Ids : Begun(j)' <=> Begun(j) \/ j = i
        /\ i \notin Holders /\ Holders' = (Holders \ gone) \cup {i} /\ Nil \notin gone
        /\ a \in Nat /\ c \in Nat /\ p \in Nat /\ q \in Nat
        /\ Replaceable(blocks, Holders, lo, hi, gone)
        /\ Placing(blocks, lo, hi, i, a, c, p, q, blocks')
        /\ below' = Recorded(i, blocks')
    BY DEF Beginning
  <1>2. Nil \notin Ids /\ Holders \in SUBSET Ids /\ Nil \notin Holders /\ i # Nil
    BY <1>1, Sizes_
  <1>3. ListOK(blocks', Holders')
    BY <1>1, <1>2, PlacedKeepsList
  <1>4. p \in DOMAIN blocks' /\ blocks'[p].owner = i
    <2>1. Len(blocks') \in Nat /\ DOMAIN blocks' = 1..Len(blocks')
      BY <1>1, LenProperties DEF Placing
    <2>2. 1 <= p /\ p <= Len(blocks')
      <3>1. Len(blocks) \in Nat
        BY LenProperties DEF ListInv, ListOK
      <3> QED BY <2>1, <3>1, <1>1 DEF Placing, Replaceable
    <2> QED BY <2>1, <2>2, <1>1 DEF Placing, owned
  <1>5. \A k \in DOMAIN blocks' : blocks'[k].owner = i => k = p
    BY <1>2, <1>3, <1>4 DEF ListOK, allocated
  <1>6. /\ prev(blocks', p) = LeftOf(blocks, lo) /\ next(blocks', p) = RightOf(blocks, hi)
        /\ FoundNoAdjacentFree(blocks', p)
    BY <1>1, PlacedNeighbours
  <1> DEFINE pv == LeftOf(blocks, lo)
             nx == RightOf(blocks, hi)
  <1>7. below' = [j \in Ids |-> below[j] \cup (IF j = nx THEN {i} ELSE {})
                                         \cup (IF j = i THEN {pv} \ {Nil} ELSE {})]
    <2>1. (CHOOSE k \in DOMAIN blocks' : blocks'[k].owner = i) = p
      BY <1>4, <1>5
    <2> QED BY <2>1, <1>1, <1>6 DEF Recorded
  <1>8. PICK N \in Nat : N = Len(blocks) /\ DOMAIN blocks = 1..N
    BY LenProperties DEF ListInv, ListOK
  <1>9. lo \in 1..N + 1 /\ hi \in lo..N + 1 /\ lo - 1 \notin FreeAt(blocks) /\ hi \notin FreeAt(blocks)
    BY <1>1, <1>8 DEF Replaceable
  <1>10. \A k \in 1..N : k \notin FreeAt(blocks) =>
           blocks[k].owner \in Holders /\ blocks[k].owner # Nil
    BY <1>8 DEF ListInv, ListOK, FreeAt, allocated
  <1>11. /\ IF lo > 1 THEN pv = blocks[lo - 1].owner /\ pv \in Holders /\ pv # Nil ELSE pv = Nil
         /\ IF hi <= N THEN nx = blocks[hi].owner /\ nx \in Holders ELSE nx = Nil
    <2>1. ASSUME lo > 1 PROVE pv = blocks[lo - 1].owner /\ pv \in Holders /\ pv # Nil
      <3>1. lo - 1 \in 1..N /\ lo # 1
        BY <2>1, <1>9
      <3> QED BY <2>1, <3>1, <1>9, <1>10 DEF LeftOf
    <2>2. lo > 1 \/ lo = 1
      BY <1>9
    <2>3. ~(lo > 1) => pv = Nil
      BY <2>2 DEF LeftOf
    <2>4. CASE hi <= N
      <3>1. hi \in 1..N /\ hi # N + 1
        BY <2>4, <1>9
      <3> QED BY <2>1, <2>3, <2>4, <3>1, <1>8, <1>9, <1>10 DEF RightOf
    <2>5. CASE ~(hi <= N)
      <3>1. hi = N + 1
        BY <2>5, <1>9
      <3> QED BY <2>1, <2>3, <2>5, <3>1, <1>8 DEF RightOf
    <2> QED BY <2>4, <2>5
  <1>12. \A j \in Holders : Begun(j)
    BY DEF Holders
  <1> HIDE DEF pv, nx
  <1>13. /\ below \in [Ids -> SUBSET Ids]
         /\ \A j \in Ids : \A m \in below[j] : Begun(j) /\ Begun(m)
    BY DEF ListInv, BelowOK
  <1>14. \A j, m \in Ids : m \in below'[j] <=>
           \/ m \in below[j] \/ (j = nx /\ m = i) \/ (j = i /\ m = pv /\ pv # Nil)
    BY <1>7, <1>13
  <1>15. nx # Nil => hi <= N
    BY <1>11
  <1>16. pv # Nil => lo > 1
    BY <1>11
  <1>17. BelowOK'
    <2>1. below' \in [Ids -> SUBSET Ids]
      <3>1. pv # Nil => pv \in Ids
        BY <1>2, <1>11
      <3> QED BY <3>1, <1>1, <1>7, <1>13
    <2>2. ASSUME NEW j \in Ids, NEW m \in below'[j] PROVE Begun(j)' /\ Begun(m)'
      <3>1. m \in Ids
        BY <2>1, <2>2
      <3>2. CASE m \in below[j]
        BY <3>1, <3>2, <1>1, <1>13
      <3>3. CASE j = nx /\ m = i
        <4>1. nx \in Holders
          BY <3>3, <1>2, <1>11
        <4> QED BY <3>3, <4>1, <1>1, <1>12
      <3>4. CASE j = i /\ m = pv /\ pv # Nil
        <4>1. pv \in Holders
          BY <3>4, <1>11
        <4> QED BY <3>1, <3>4, <4>1, <1>1, <1>12
      <3> QED BY <2>2, <3>1, <3>2, <3>3, <3>4, <1>14
    <2>3. Ids' = Ids
      BY <1>1, BeginningFrame
    <2> QED BY <2>1, <2>2, <2>3 DEF BelowOK
  <1>18. ASSUME NEW f \in [Ids -> Nat]
         PROVE  Respects(f)' <=> /\ Respects(f) /\ NextTo(f, i, lo, hi)
                                 /\ dest[i] # Nil => f[i] = f[dest[i]] + offset[i]
    <2>1. /\ Ids' = Ids /\ UNCHANGED <<dest, offset>>
          /\ \A j : end_in(f, j)' = end_in(f, j)
      BY <1>1, BeginningFrame
    <2>2. (\A j \in Ids : \A m \in below'[j] : end_in(f, m) <= f[j]) <=>
            /\ \A j \in Ids : \A m \in below[j] : end_in(f, m) <= f[j]
            /\ NextTo(f, i, lo, hi)
      <3>1. below' \in [Ids -> SUBSET Ids]
        BY <1>17, <2>1 DEF BelowOK
      <3>2. NextTo(f, i, lo, hi) <=> /\ pv # Nil => end_in(f, pv) <= f[i]
                                     /\ nx # Nil => end_in(f, i) <= f[nx]
        BY <1>2, <1>8, <1>11 DEF NextTo
      <3>3. pv # Nil => pv \in Ids
        BY <1>2, <1>11
      <3>4. nx # Nil => nx \in Ids
        BY <1>2, <1>11
      <3> QED BY <3>1, <3>2, <3>3, <3>4, <1>1, <1>2, <1>13, <1>14
    <2>3. (\A j \in Ids : Begun(j)' /\ dest[j] # Nil => f[j] = f[dest[j]] + offset[j]) <=>
            /\ \A j \in Ids : Begun(j) /\ dest[j] # Nil => f[j] = f[dest[j]] + offset[j]
            /\ dest[i] # Nil => f[i] = f[dest[i]] + offset[i]
      BY <1>1
    <2> QED BY <2>1, <2>2, <2>3 DEF Respects
  <1>19. ListOK(blocks, Holders)'
    BY <1>1, <1>3, BeginningFrame
  <1>20. \A k \in PositionsOf(blocks', i) : FoundNoAdjacentFree(blocks', k)
    BY <1>5, <1>6 DEF PositionsOf
  <1> QED BY <1>17, <1>18, <1>19, <1>20

(* The order of the new list, if what the new interval overlaps is apart   *)
(* from it.                                                                *)
LEMMA BeginKeepsOrder ==
    ASSUME Prepared, ListInv,
           NEW i, NEW lo, NEW hi, NEW gone, NEW a, NEW c, NEW p, NEW q,
           Beginning(i, lo, hi, gone, a, c, p, q),
           \A f \in [Ids -> Nat], j \in Ids :
             Respects(f)' /\ Ordered(blocks', f) /\ Begun(j) /\ time_overlap(i, j)
                 /\ root[i] # root[j] => ApartIn(f, i, j)
    PROVE  OrderOK'
  <1>1. /\ UNCHANGED <<problem, links>> /\ i \in Ids
        /\ \A j \in Ids : Begun(j)' <=> Begun(j) \/ j = i
        /\ a \in Nat /\ c \in Nat /\ p \in Nat /\ q \in Nat
        /\ Replaceable(blocks, Holders, lo, hi, gone)
        /\ Placing(blocks, lo, hi, i, a, c, p, q, blocks')
    BY DEF Beginning
  <1>2. Ids' = Ids /\ root' = root
    BY <1>1, BeginningFrame
  <1>3. SUFFICES ASSUME NEW f \in [Ids -> Nat], Respects(f)'
                 PROVE  /\ Ordered(blocks', f)
                        /\ \A j, m \in Ids :
                             Begun(j)' /\ Begun(m)' /\ time_overlap(j, m) /\ root[j] # root[m] =>
                               ApartIn(f, j, m)
    BY <1>1, <1>2, BeginningFrame DEF OrderOK
  <1>4. Respects(f) /\ NextTo(f, i, lo, hi)
    BY <1>3, BeginKeepsList
  <1>5. /\ Ordered(blocks, f)
        /\ \A j, m \in Ids : Begun(j) /\ Begun(m) /\ time_overlap(j, m) /\ root[j] # root[m] =>
             ApartIn(f, j, m)
    BY <1>4 DEF ListInv, OrderOK
  <1>6. Ordered(blocks', f)
    <2>1. Holders \in SUBSET Ids /\ \A j \in Ids : itv[j].size \in Nat
      BY Sizes_
    <2>2. /\ lo > 1 => end_in(f, blocks[lo - 1].owner) <= f[i]
          /\ hi <= Len(blocks) => end_in(f, i) <= f[blocks[hi].owner]
      BY <1>4 DEF NextTo
    <2> QED BY <2>1, <2>2, <1>1, <1>5, PlacedOrdered
  <1>7. ASSUME NEW j \in Ids, NEW m \in Ids, Begun(j)', Begun(m)', time_overlap(j, m),
               root[j] # root[m]
        PROVE  ApartIn(f, j, m)
    <2>1. j # m
      BY <1>7
    <2>2. \A x, y : /\ ApartIn(f, x, y) <=> ApartIn(f, y, x)
                    /\ time_overlap(x, y) <=> time_overlap(y, x)
      BY DEF ApartIn, time_overlap
    <2>3. CASE j = i
      BY <2>1, <2>3, <1>1, <1>3, <1>6, <1>7
    <2>4. CASE m = i
      BY <2>1, <2>2, <2>4, <1>1, <1>3, <1>6, <1>7
    <2>5. CASE j # i /\ m # i
      BY <2>5, <1>1, <1>5, <1>7
    <2> QED BY <2>3, <2>4, <2>5
  <1> QED BY <1>6, <1>7

(* Some layout fits the new list: one in which the new blocks fit in where *)
(* the old ones were, maybe after all above has moved up by delta.         *)
LEMMA BeginKeepsLayout ==
    ASSUME Prepared, ListInv,
           NEW i, NEW lo, NEW hi, NEW gone, NEW a, NEW c, NEW p, NEW q,
           Beginning(i, lo, hi, gone, a, c, p, q),
           NEW f, NEW s, Fits(blocks, f, s), NEW g \in [Ids -> Nat], Respects(g),
           dest[i] # Nil => g[i] = g[dest[i]] + offset[i],
           NEW delta \in Nat, NEW t \in Nat,
           HasRoom(blocks, lo, hi, i, a, c, f, s, g, delta, t)
    PROVE  LayoutOK'
  <1>H. /\ \A k \in DOMAIN blocks : allocated(blocks[k]) =>
             /\ k < lo => g[blocks[k].owner] = f[blocks[k].owner]
             /\ hi <= k => g[blocks[k].owner] = f[blocks[k].owner] + delta
        /\ lo > 1 => s[lo - 1] + Room(blocks[lo - 1]) <= t
        /\ t + a <= g[i]
        /\ hi <= Len(blocks) => g[i] + itv[i].size + c <= s[hi] + delta
    BY DEF HasRoom
  <1>1. /\ UNCHANGED <<problem, links>> /\ i \in Ids
        /\ a \in Nat /\ c \in Nat /\ p \in Nat /\ q \in Nat
        /\ Replaceable(blocks, Holders, lo, hi, gone)
        /\ Placing(blocks, lo, hi, i, a, c, p, q, blocks')
    BY DEF Beginning
  <1>2. /\ Nil \notin Ids /\ Holders \in SUBSET Ids /\ \A j \in Ids : itv[j].size \in Nat
    BY Sizes_
  <1>3. PICK N \in Nat : N = Len(blocks) /\ DOMAIN blocks = 1..N
    BY LenProperties DEF ListInv, ListOK
  <1>4. /\ lo \in 1..N + 1 /\ hi \in lo..N + 1
        /\ lo - 1 \notin FreeAt(blocks) /\ hi \notin FreeAt(blocks)
    BY <1>1, <1>3 DEF Replaceable
  <1>5. \A k \in 1..N : k \notin FreeAt(blocks) =>
          /\ blocks[k].owner \in Ids /\ allocated(blocks[k])
          /\ s[k] = f[blocks[k].owner] /\ Room(blocks[k]) = itv[blocks[k].owner].size
    BY <1>2, <1>3 DEF ListInv, ListOK, FreeAt, Fits, Room
  <1>6. NextTo(g, i, lo, hi)
    <2>1. ASSUME lo > 1 PROVE end_in(g, blocks[lo - 1].owner) <= g[i]
      <3>1. lo - 1 \in 1..N /\ lo - 1 < lo
        BY <2>1, <1>4
      <3> DEFINE j == blocks[lo - 1].owner
      <3>2. j \in Ids /\ s[lo - 1] = g[j] /\ Room(blocks[lo - 1]) = itv[j].size
        BY <1>H, <3>1, <1>3, <1>4, <1>5
      <3>3. g[j] + itv[j].size <= t
        BY <1>H, <2>1, <3>2
      <3>4. g[j] \in Nat /\ g[i] \in Nat /\ itv[j].size \in Nat
        BY <3>2, <1>1, <1>2
      <3>5. t + a <= g[i]
        BY <1>H
      <3> HIDE DEF j
      <3>6. end_in(g, j) <= g[i]
        BY ONLY <3>3, <3>4, <3>5, <1>1, t \in Nat DEF end_in
      <3> QED BY <3>6 DEF j
    <2>2. ASSUME hi <= Len(blocks) PROVE end_in(g, i) <= g[blocks[hi].owner]
      <3>1. hi \in 1..N /\ hi <= hi
        BY <2>2, <1>3, <1>4
      <3>2. /\ blocks[hi].owner \in Ids /\ s[hi] = f[blocks[hi].owner]
            /\ g[blocks[hi].owner] = f[blocks[hi].owner] + delta
        BY <1>H, <3>1, <1>3, <1>4, <1>5
      <3>3. g[i] + itv[i].size + c <= g[blocks[hi].owner]
        BY <1>H, <2>2, <3>2
      <3>4. g[i] \in Nat /\ itv[i].size \in Nat /\ g[blocks[hi].owner] \in Nat
        BY <3>2, <1>1, <1>2
      <3> QED BY ONLY <3>3, <3>4, <1>1 DEF end_in
    <2> QED BY <2>1, <2>2 DEF NextTo
  <1>7. Respects(g)'
    BY <1>6, BeginKeepsList
  <1>8. PICK z : Fits(blocks', g, z)
    <2>1. i # Nil
      BY <1>1, <1>2
    <2> QED BY <2>1, <1>1, <1>2, PlacedFits
  <1>9. Ids' = Ids /\ Fits(blocks, g, z)'
    BY <1>1, <1>8, BeginningFrame
  <1> QED BY <1>7, <1>9 DEF LayoutOK

(* A free block can be made larger: what lies above it moves up.           *)
LEMMA RoomToGrow ==
    ASSUME ForwardSpecs, Prepared, LoopOK, Solving, ListInv,
           NEW f \in [Ids -> Nat], Respects(f), NEW s, Fits(blocks, f, s),
           NEW k \in FreeAt(blocks), NEW delta \in Nat
    PROVE  \E g \in [Ids -> Nat] :
             /\ Respects(g)
             /\ \A m \in DOMAIN blocks : allocated(blocks[m]) =>
                  /\ m < k => g[blocks[m].owner] = f[blocks[m].owner]
                  /\ k < m => g[blocks[m].owner] = f[blocks[m].owner] + delta
  <1>1. PICK N \in Nat : N = Len(blocks) /\ DOMAIN blocks = 1..N
    BY LenProperties DEF ListInv, ListOK
  <1>2. /\ \A m \in 1..N : allocated(blocks[m]) =>
             /\ blocks[m].owner \in Holders /\ blocks[m].owner \in Ids /\ Begun(blocks[m].owner)
             /\ s[m] = f[blocks[m].owner] /\ Room(blocks[m]) = itv[blocks[m].owner].size
        /\ \A m \in 1..N : s[m] \in Nat
        /\ \A m \in 1..N : m + 1 \in 1..N => s[m] + Room(blocks[m]) <= s[m + 1]
    BY <1>1 DEF ListInv, ListOK, Fits, Room, Holders
  <1>3. \A j \in Ids : /\ itv[j].size \in Nat /\ itv[j].size # 0 /\ f[j] \in Nat
                       /\ itv[j].begin \in Int
    BY Sizes_, TimesTyped
  <1>4. k \in 1..N /\ ~allocated(blocks[k]) /\ blocks[k].size \in Nat /\ blocks[k].size # 0
    BY <1>1, BlockTyped DEF FreeAt, ListInv, ListOK
  <1>5. Ordered(blocks, f)
    BY DEF ListInv, OrderOK
  <1>6. CASE k = N
    <2>1. \A m \in 1..N : ~(k < m)
      BY <1>6
    <2> QED BY <2>1, <1>1
  <1>7. CASE k < N
    <2> DEFINE x == s[k + 1]
               g == [j \in Ids |-> IF j \in ChainFrom(f, x) THEN f[j] + delta ELSE f[j]]
    <2>1. k + 1 \in 1..N /\ allocated(blocks[k + 1])
      <3>1. k + 1 \in 1..N
        BY <1>4, <1>7
      <3>2. k + 1 \notin FreeAt(blocks)
        BY DEF ListInv, ListOK
      <3> QED BY <3>1, <3>2, <1>1 DEF FreeAt
    <2>2. x \in Nat /\ x = f[blocks[k + 1].owner]
      BY <2>1, <1>2
    <2>3. g \in [Ids -> Nat] /\ Respects(g)
      <3> HIDE DEF x
      <3>1. BelowOK
        BY DEF ListInv
      <3> QED BY <2>2, <3>1, MoveUp
    <2>4. \A j \in Ids : g[j] = IF j \in ChainFrom(f, x) THEN f[j] + delta ELSE f[j]
      OBVIOUS
    <2> HIDE DEF g
    <2>5. ASSUME NEW m \in 1..N, allocated(blocks[m]), k < m
          PROVE  g[blocks[m].owner] = f[blocks[m].owner] + delta
      <3> DEFINE j == blocks[m].owner
      <3>1. j \in Ids /\ Begun(j)
        BY <2>5, <1>2
      <3>2. x <= f[j]
        <4>1. CASE m = k + 1
          BY <4>1, <2>2
        <4>2. CASE m # k + 1
          <5>1. k + 1 < m
            BY <2>5, <4>2, <1>4
          <5>2. end_in(f, blocks[k + 1].owner) <= f[j]
            BY <2>1, <2>5, <5>1, <1>1, <1>5 DEF Ordered
          <5>3. blocks[k + 1].owner \in Ids
            BY <2>1, <1>2
          <5> QED BY <2>2, <3>1, <5>2, <5>3, <1>3 DEF end_in
        <4> QED BY <4>1, <4>2
      <3>3. j \in ChainFrom(f, x)
        BY <3>1, <3>2 DEF ChainFrom
      <3> QED BY <3>1, <3>3, <2>4
    <2>6. ASSUME NEW m \in 1..N, allocated(blocks[m]), m < k
          PROVE  g[blocks[m].owner] = f[blocks[m].owner]
      <3> DEFINE j == blocks[m].owner
                 b == blocks[k - 1].owner
      <3>1. j \in Ids /\ Begun(j)
        BY <2>6, <1>2
      <3>2. k - 1 \in 1..N /\ (k - 1) + 1 = k /\ allocated(blocks[k - 1])
        <4>1. k - 1 \in 1..N /\ (k - 1) + 1 = k
          BY <2>6, <1>4
        <4>2. k - 1 \notin FreeAt(blocks)
          BY <4>1 DEF ListInv, ListOK
        <4> QED BY <4>1, <4>2, <1>1 DEF FreeAt
      <3>3. b \in Ids /\ s[k - 1] = f[b] /\ Room(blocks[k - 1]) = itv[b].size
        BY <3>2, <1>2
      <3>4. end_in(f, b) < x
        <4>1. s[k - 1] + Room(blocks[k - 1]) <= s[k] /\ s[k] + Room(blocks[k]) <= x
          BY <3>2, <2>1, <1>2, <1>4
        <4>2. Room(blocks[k]) = blocks[k].size /\ s[k] \in Nat
          BY <1>2, <1>4 DEF Room
        <4>3. f[b] \in Nat /\ itv[b].size \in Nat
          BY <3>3, <1>3
        <4> HIDE DEF b, x
        <4> QED BY <4>1, <4>2, <4>3, <3>3, <2>2, <1>4 DEF end_in
      <3>5. end_in(f, j) <= end_in(f, b)
        <4>1. CASE m = k - 1
          BY <4>1, <3>1, <1>3 DEF end_in
        <4>2. CASE m # k - 1
          <5>1. m < k - 1
            BY <2>6, <4>2, <1>4
          <5>2. end_in(f, j) <= f[b]
            BY <2>6, <3>2, <5>1, <1>1, <1>5 DEF Ordered
          <5>3. f[b] \in Nat /\ itv[b].size \in Nat /\ f[j] \in Nat /\ itv[j].size \in Nat
            BY <3>1, <3>3, <1>3
          <5> HIDE DEF b, j
          <5> QED BY <5>2, <5>3 DEF end_in
        <4> QED BY <4>1, <4>2
      <3>6. ASSUME NEW e \in Ids, Begun(e), root[e] = root[j] PROVE ~(x <= f[e])
        <4>1. f[e] <= end_in(f, j)
          <5> HIDE DEF j
          <5>1. CASE itv[j].begin <= itv[e].begin
            <6>1. end_in(f, e) <= end_in(f, j)
              BY <3>1, <3>6, <5>1, Nested
            <6> QED BY <6>1, <3>1, <3>6, <1>3 DEF end_in
          <5>2. CASE itv[e].begin <= itv[j].begin
            <6>1. f[e] <= f[j]
              BY <3>1, <3>6, <5>2, Nested
            <6> QED BY <6>1, <3>1, <3>6, <1>3 DEF end_in
          <5> QED BY <5>1, <5>2, <1>3, <3>1, <3>6
        <4>2. f[e] \in Nat /\ end_in(f, j) \in Nat /\ end_in(f, b) \in Nat
          BY <3>1, <3>3, <3>6, <1>3 DEF end_in
        <4> HIDE DEF x, j, b
        <4> QED BY <4>1, <4>2, <3>4, <3>5, <2>2
      <3>7. j \notin ChainFrom(f, x)
        BY <3>6 DEF ChainFrom
      <3> QED BY <3>1, <3>7, <2>4
    <2> QED BY <2>3, <2>5, <2>6, <1>1
  <1> QED BY <1>4, <1>6, <1>7

-----------------------------------------------------------------------------
(* The callbacks                                                           *)

LEMMA HoldersApart ==
    ASSUME NEW bs, NEW H, Nil \notin H, ListOK(bs, H), NEW f, Ordered(bs, f),
           NEW i \in H, NEW j \in H, i # j
    PROVE  ApartIn(f, i, j)
  <1>1. PICK k \in DOMAIN bs, m \in DOMAIN bs : bs[k].owner = i /\ bs[m].owner = j
    BY DEF ListOK
  <1>2. PICK N \in Nat : DOMAIN bs = 1..N
    BY LenProperties DEF ListOK
  <1>3. k < m \/ m < k
    BY <1>1, <1>2
  <1>4. allocated(bs[k]) /\ allocated(bs[m])
    BY <1>1 DEF allocated
  <1> QED BY <1>1, <1>3, <1>4 DEF Ordered, ApartIn

(* alloc(): what the new interval overlaps holds memory.                   *)
LEMMA RootBegins ==
    ASSUME ForwardSpecs, Prepared, LoopOK, ListInv,
           NEW i \in Ids, CallBack("alloc", i), stage' \in {"solve", "abort"},
           NEW lo, NEW hi, NEW c \in Nat,
           Replaceable(blocks, Holders, lo, hi, {}),
           Placed(blocks, lo, hi, i, 0, c, blocks'),
           below' = Recorded(i, blocks')
    PROVE  \E p, q : Beginning(i, lo, hi, {}, 0, c, p, q) /\ OrderOK'
  <1>1. /\ i \notin Holders /\ Holders' = Holders \cup {i} /\ dest[i] = Nil /\ itv[i].begin = now
        /\ ~Begun(i) /\ \A j \in Ids : Begun(j)' <=> Begun(j) \/ j = i
    BY AllocCallBack
  <1>2. UNCHANGED <<problem, links>> /\ stage = "solve" /\ phase = "alloc"
    BY DEF CallBack
  <1>3. PICK p \in Nat, q \in Nat : Placing(blocks, lo, hi, i, 0, c, p, q, blocks')
    <2>1. blocks \in Seq(Block) /\ lo \in 1..Len(blocks) + 1 /\ hi \in lo..Len(blocks) + 1
      BY DEF Replaceable, ListOK
    <2> QED BY <2>1, PlacedBlocks
  <1>4. Beginning(i, lo, hi, {}, 0, c, p, q)
    BY <1>1, <1>2, <1>3 DEF Beginning
  <1>5. Nil \notin Ids /\ Nil \notin Holders /\ i # Nil
    BY Sizes_
  <1>6. ListOK(blocks', Holders')
    BY <1>1, <1>3, <1>5, PlacedKeepsList
  <1>7. ASSUME NEW f \in [Ids -> Nat], NEW j \in Ids, Ordered(blocks', f), Begun(j),
               time_overlap(i, j)
        PROVE  ApartIn(f, i, j)
    <2>1. j \in Holders /\ j # i
      BY <1>1, <1>2, <1>7, OverlappingHolds
    <2>2. i \in Holders' /\ j \in Holders' /\ Nil \notin Holders'
      BY <1>1, <1>5, <2>1
    <2> QED BY <2>1, <2>2, <1>6, <1>7, HoldersApart
  <1>8. OrderOK'
    BY <1>4, <1>7, BeginKeepsOrder
  <1> QED BY <1>4, <1>8

(* At the end of the list there is room for anything.                      *)
LEMMA AppendKeepsLayout ==
    ASSUME ForwardSpecs, Prepared, LoopOK, ListInv, stage = "solve", FreeAt(blocks) = {},
           NEW i, NEW p, NEW q, dest[i] = Nil,
           Beginning(i, Len(blocks) + 1, Len(blocks) + 1, {}, 0, 0, p, q)
    PROVE  LayoutOK'
  <1>0. PICK f \in [Ids -> Nat] : Respects(f) /\ \E s : Fits(blocks, f, s)
    BY DEF ListInv, LayoutOK
  <1>1. PICK s : Respects(f) /\ Fits(blocks, f, s)
    BY <1>0
  <1>2. PICK N \in Nat : N = Len(blocks) /\ DOMAIN blocks = 1..N
    BY LenProperties DEF ListInv, ListOK
  <1>3. i \in Ids /\ i \notin Holders /\ ~Begun(i)
    BY DEF Beginning
  <1>4. \A k \in 1..N : /\ s[k] \in Nat /\ blocks[k].owner \in Holders /\ Room(blocks[k]) \in Nat
    <2> SUFFICES ASSUME NEW k \in 1..N
                 PROVE  s[k] \in Nat /\ blocks[k].owner \in Holders /\ Room(blocks[k]) \in Nat
      OBVIOUS
    <2>1. allocated(blocks[k]) /\ blocks[k].owner \in Holders
      BY <1>2 DEF ListInv, ListOK, FreeAt
    <2>2. s[k] \in Nat
      BY <1>1, <1>2 DEF Fits
    <2>3. Room(blocks[k]) \in Nat
      BY <2>1, Sizes_ DEF Room
    <2> QED BY <2>1, <2>2, <2>3
  <1>5. PICK x \in Nat : N > 0 => s[N] + Room(blocks[N]) <= x
    <2>1. CASE N = 0
      BY <2>1
    <2>2. CASE N > 0
      <3>1. N \in 1..N
        BY <2>2
      <3> QED BY <3>1, <1>4
    <2> QED BY <2>1, <2>2
  <1> DEFINE g == [f EXCEPT ![i] = x]
  <1>6. g \in [Ids -> Nat] /\ Respects(g)
    <2>1. Solving /\ BelowOK
      BY DEF Solving, ListInv
    <2> HIDE DEF g
    <2> QED BY <2>1, <1>1, <1>3, PutAnywhere DEF g
  <1>7. g[i] = x /\ \A j \in Ids : j # i => g[j] = f[j]
    BY <1>3
  <1> HIDE DEF g
  <1>8. HasRoom(blocks, N + 1, N + 1, i, 0, 0, f, s, g, 0, x)
    <2>1. ASSUME NEW k \in 1..N PROVE /\ g[blocks[k].owner] = f[blocks[k].owner] /\ ~(N + 1 <= k)
      BY <1>3, <1>4, <1>7, Sizes_
    <2>2. N + 1 > 1 => s[(N + 1) - 1] + Room(blocks[(N + 1) - 1]) <= x
      BY <1>5
    <2> QED BY <1>2, <1>7, <2>1, <2>2 DEF HasRoom
  <1> QED BY <1>1, <1>2, <1>6, <1>8, BeginKeepsLayout

(* A free block that is taken may have to grow, and what is above it moves *)
(* up with what was too little.                                            *)
LEMMA TakenKeepsLayout ==
    ASSUME ForwardSpecs, Prepared, LoopOK, ListInv, stage = "solve",
           NEW k \in FreeAt(blocks), NEW i, NEW c, NEW p, NEW q, dest[i] = Nil,
           Beginning(i, k, k + 1, {}, 0, c, p, q),
           c = IF blocks[k].size > itv[i].size THEN blocks[k].size - itv[i].size ELSE 0
    PROVE  LayoutOK'
  <1>0. PICK f \in [Ids -> Nat] : Respects(f) /\ \E s : Fits(blocks, f, s)
    BY DEF ListInv, LayoutOK
  <1>1. PICK s : Respects(f) /\ Fits(blocks, f, s)
    BY <1>0
  <1>2. PICK N \in Nat : N = Len(blocks) /\ DOMAIN blocks = 1..N
    BY LenProperties DEF ListInv, ListOK
  <1>3. i \in Ids /\ i \notin Holders /\ ~Begun(i) /\ c \in Nat
    BY DEF Beginning
  <1>4. PICK size \in Nat, old \in Nat : itv[i].size = size /\ blocks[k].size = old
    BY <1>3, Sizes_, BlockTyped DEF FreeAt, ListInv, ListOK
  <1>5. PICK delta \in Nat : delta = IF size > old THEN size - old ELSE 0
    <2>1. CASE size > old
      <3>1. size - old \in Nat
        BY ONLY <2>1, size \in Nat, old \in Nat
      <3> QED BY <2>1, <3>1
    <2>2. CASE ~(size > old)
      BY <2>2
    <2> QED BY <2>1, <2>2
  <1>6. /\ Solving /\ BelowOK
        /\ k \in 1..N /\ s[k] \in Nat /\ Room(blocks[k]) = old
        /\ k + 1 \in 1..N => s[k + 1] \in Nat
    BY <1>1, <1>2, <1>4 DEF Solving, ListInv, FreeAt, Fits, Room
  <1>7. PICK h \in [Ids -> Nat] :
          /\ Respects(h)
          /\ \A m \in 1..N : allocated(blocks[m]) =>
               /\ m < k => h[blocks[m].owner] = f[blocks[m].owner]
               /\ k < m => h[blocks[m].owner] = f[blocks[m].owner] + delta
    <2>1. PICK h \in [Ids -> Nat] :
            /\ Respects(h)
            /\ \A m \in DOMAIN blocks : allocated(blocks[m]) =>
                 /\ m < k => h[blocks[m].owner] = f[blocks[m].owner]
                 /\ k < m => h[blocks[m].owner] = f[blocks[m].owner] + delta
      BY <1>1, <1>6, RoomToGrow
    <2> QED BY <2>1, <1>2
  <1> DEFINE g == [h EXCEPT ![i] = s[k]]
  <1>8. g \in [Ids -> Nat] /\ Respects(g)
    <2> HIDE DEF g
    <2> QED BY <1>3, <1>6, <1>7, PutAnywhere DEF g
  <1>9. g[i] = s[k] /\ \A j \in Ids : j # i => g[j] = h[j]
    BY <1>3
  <1> HIDE DEF g
  <1>10. HasRoom(blocks, k, k + 1, i, 0, c, f, s, g, delta, s[k])
    <2>1. ASSUME NEW m \in 1..N, allocated(blocks[m])
          PROVE  /\ m < k => g[blocks[m].owner] = f[blocks[m].owner]
                 /\ k + 1 <= m => g[blocks[m].owner] = f[blocks[m].owner] + delta
      <3>1. blocks[m].owner \in Ids /\ blocks[m].owner # i
        BY <2>1, <1>2, <1>3, Sizes_ DEF ListInv, ListOK
      <3>2. k + 1 <= m => k < m
        BY <1>6
      <3> QED BY <2>1, <3>1, <3>2, <1>7, <1>9
    <2>2. k > 1 => s[k - 1] + Room(blocks[k - 1]) <= s[k]
      <3>1. k > 1 => k - 1 \in 1..N /\ (k - 1) + 1 = k
        BY <1>6
      <3> QED BY <3>1, <1>1, <1>2, <1>6 DEF Fits
    <2>3. s[k] + 0 <= g[i]
      BY <1>6, <1>9
    <2>4. k + 1 <= N => g[i] + itv[i].size + c <= s[k + 1] + delta
      <3>1. size + c = old + delta
        BY ONLY <1>4, <1>5, c = IF blocks[k].size > itv[i].size
                                THEN blocks[k].size - itv[i].size ELSE 0
      <3>2. k + 1 <= N => k + 1 \in 1..N /\ s[k] + old <= s[k + 1]
        BY <1>1, <1>2, <1>6 DEF Fits
      <3> QED BY ONLY <3>1, <3>2, <1>3, <1>4, <1>5, <1>6, <1>9
    <2> QED BY <1>2, <2>1, <2>2, <2>3, <2>4 DEF HasRoom
  <1> QED BY <1>1, <1>2, <1>6, <1>8, <1>10, BeginKeepsLayout

LEMMA AllocKeeps ==
    ASSUME ForwardSpecs, Prepared, LoopOK, ListInv, NEW i \in Ids, alloc(i)
    PROVE  LoopOK' /\ ListInv' /\ stage = "solve" /\ stage' = "solve"
  <1>1. /\ CallBack("alloc", i) /\ stage = "solve"
        /\ below' = Recorded(i, blocks')
        /\ CC_ASSERT(\A k \in PositionsOf(blocks', i) : FoundNoAdjacentFree(blocks', k))
        /\ blocks' \in IF FreeAt(blocks) = {} THEN {Append(blocks, owned(i))}
                       ELSE {Taken(blocks, k, i) : k \in BestFree(blocks, itv[i].size)}
    BY DEF alloc, CallBack
  <1>2. stage' \in {"solve", "abort"}
    BY <1>1 DEF CC_ASSERT
  <1>3. LoopOK' /\ dest[i] = Nil
    BY <1>1, <1>2, AllocCallBack
  <1>4. /\ ListOK(blocks, Holders) /\ blocks \in Seq(Block)
        /\ i # Nil /\ itv[i].size \in Nat
    BY Sizes_ DEF ListInv, ListOK
  <1>5. PICK N \in Nat : N = Len(blocks) /\ DOMAIN blocks = 1..N
    BY <1>4, LenProperties
  <1>6. ASSUME NEW lo, NEW hi, NEW c, NEW p, NEW q, Beginning(i, lo, hi, {}, 0, c, p, q),
               OrderOK', LayoutOK'
        PROVE  ListInv' /\ stage' = "solve"
    BY <1>1, <1>6, BeginKeepsList DEF ListInv, CC_ASSERT
  <1>7. CASE FreeAt(blocks) = {}
    <2>1. Replaceable(blocks, Holders, N + 1, N + 1, {})
      BY <1>4, <1>5, <1>7 DEF Replaceable
    <2>2. Placed(blocks, N + 1, N + 1, i, 0, 0, blocks')
      BY <1>1, <1>4, <1>5, <1>7, AppendIs
    <2>3. PICK p, q : Beginning(i, N + 1, N + 1, {}, 0, 0, p, q) /\ OrderOK'
      BY <1>1, <1>2, <2>1, <2>2, RootBegins
    <2>4. LayoutOK'
      BY <1>1, <1>3, <1>5, <1>7, <2>3, AppendKeepsLayout
    <2> QED BY <1>3, <1>1, <1>6, <2>3, <2>4
  <1>8. CASE FreeAt(blocks) # {}
    <2>1. PICK k \in FreeAt(blocks) : blocks' = Taken(blocks, k, i)
      BY <1>1, <1>8 DEF BestFree
    <2> DEFINE c == IF blocks[k].size > itv[i].size THEN blocks[k].size - itv[i].size ELSE 0
    <2>2. k \in 1..N /\ ~allocated(blocks[k]) /\ k + 1 \notin FreeAt(blocks)
          /\ blocks[k].size \in Nat
      BY <1>4, <1>5, BlockTyped DEF FreeAt, ListOK
    <2>3. c \in Nat
      BY <1>4, <2>2
    <2>4. Replaceable(blocks, Holders, k, k + 1, {})
      <3>1. k - 1 \notin FreeAt(blocks)
        <4>1. (k - 1) + 1 = k
          BY <2>2
        <4> QED BY <4>1, <1>4, <2>1 DEF ListOK
      <3>2. \A m \in 1..N : k <= m /\ m < k + 1 => m = k
        BY <2>2
      <3> QED BY <1>4, <1>5, <2>2, <3>1, <3>2 DEF Replaceable
    <2>5. Placed(blocks, k, k + 1, i, 0, c, blocks')
      BY <1>4, <2>1, TakenIs
    <2> HIDE DEF c
    <2>6. PICK p, q : Beginning(i, k, k + 1, {}, 0, c, p, q) /\ OrderOK'
      BY <1>1, <1>2, <2>3, <2>4, <2>5, RootBegins
    <2>7. LayoutOK'
      BY <1>1, <1>3, <2>6, TakenKeepsLayout DEF c
    <2> QED BY <1>3, <1>1, <1>6, <2>6, <2>7
  <1> QED BY <1>7, <1>8

(* alloc_overwrite(): the overwriter lies in its destination, so it is     *)
(* apart from what its destination is apart from.                          *)
LEMMA OverwriterApart ==
    ASSUME ForwardSpecs, Prepared, LoopOK, ListInv, stage = "solve",
           NEW i \in Ids, NEW d, d = dest[i], d # Nil, Begun(d), itv[i].begin = now,
           NEW f \in [Ids -> Nat], Respects(f), f[i] = f[d] + offset[i],
           NEW j \in Ids, Begun(j), time_overlap(i, j), root[i] # root[j]
    PROVE  ApartIn(f, i, j)
  <1>1. /\ d \in Ids /\ itv[i].begin = itv[d].end - 1 /\ itv[d].begin < itv[i].begin
        /\ offset[i] \in Nat /\ offset[i] + itv[i].size <= itv[d].size /\ root[i] = root[d]
    BY LinksTyped
  <1>2. itv[j].begin <= now
    BY TimesTyped DEF Begun, Passed, LoopOK
  <1>3. \A x \in Ids : /\ itv[x].begin \in Nat /\ itv[x].end \in Nat /\ itv[x].size \in Nat
                       /\ f[x] \in Nat
    BY TimesTyped
  <1>4. time_overlap(d, j)
    BY <1>1, <1>2, <1>3 DEF time_overlap
  <1>5. ApartIn(f, d, j)
    BY <1>1, <1>4 DEF ListInv, OrderOK
  <1>6. /\ f[d] \in Nat /\ f[j] \in Nat /\ itv[d].size \in Nat /\ itv[j].size \in Nat
        /\ itv[i].size \in Nat
    BY <1>1, <1>3
  <1> QED BY ONLY <1>5, <1>6, <1>1, f[i] = f[d] + offset[i] DEF ApartIn, end_in

LEMMA OverwriterKeepsLayout ==
    ASSUME ForwardSpecs, Prepared, LoopOK, ListInv, stage = "solve",
           NEW i, NEW d, d = dest[i], d # Nil, NEW k \in DOMAIN blocks, NEW lo, NEW hi,
           AroundOK(blocks, Holders, k, d, lo, hi),
           NEW a, a = offset[i] + SizeAt(blocks, k - 1),
           NEW c, c = itv[d].size - (offset[i] + itv[i].size) + SizeAt(blocks, k + 1),
           NEW p, NEW q, Beginning(i, lo, hi, {d}, a, c, p, q)
    PROVE  LayoutOK'
  <1>0. PICK f \in [Ids -> Nat] : Respects(f) /\ \E s : Fits(blocks, f, s)
    BY DEF ListInv, LayoutOK
  <1>1. PICK s : Respects(f) /\ Fits(blocks, f, s)
    BY <1>0
  <1>2. PICK N \in Nat : N = Len(blocks) /\ DOMAIN blocks = 1..N
    BY LenProperties DEF ListInv, ListOK
  <1>3. i \in Ids /\ i \notin Holders /\ ~Begun(i) /\ a \in Nat /\ c \in Nat
    BY DEF Beginning
  <1>4. /\ d \in Ids /\ d # i
        /\ offset[i] \in Nat /\ offset[i] + itv[i].size <= itv[d].size
        /\ itv[d].size \in Nat /\ itv[i].size \in Nat
    BY <1>3, LinksTyped, TimesTyped
  <1>5. /\ lo \in 1..N /\ SizeAt(blocks, k - 1) \in Nat /\ SizeAt(blocks, k + 1) \in Nat
        /\ s[k] = f[d] /\ s[lo] + SizeAt(blocks, k - 1) <= s[k]
        /\ hi \in 1..N => s[k] + itv[d].size + SizeAt(blocks, k + 1) <= s[hi]
        /\ hi \in Nat /\ lo <= hi
    BY <1>1, <1>2 DEF AroundOK, Replaceable
  <1>6. \A m \in 1..N : s[m] \in Nat
    BY <1>1, <1>2 DEF Fits
  <1> DEFINE x == f[d] + offset[i]
             g == [f EXCEPT ![i] = x]
  <1>7. x \in Nat /\ f[d] \in Nat
    BY <1>4
  <1>8. g \in [Ids -> Nat] /\ Respects(g)
    <2>1. Solving /\ BelowOK
      BY DEF Solving, ListInv
    <2> HIDE DEF g, x
    <2> QED BY <2>1, <1>1, <1>3, <1>7, PutAnywhere DEF g
  <1>9. g[i] = x /\ \A j \in Ids : j # i => g[j] = f[j]
    BY <1>3
  <1>10. g[i] = g[d] + offset[i]
    BY <1>4, <1>9
  <1> HIDE DEF g
  <1>11. HasRoom(blocks, lo, hi, i, a, c, f, s, g, 0, s[lo])
    <2>1. ASSUME NEW m \in 1..N, allocated(blocks[m])
          PROVE  g[blocks[m].owner] = f[blocks[m].owner] /\ f[blocks[m].owner] \in Nat
      <3>1. blocks[m].owner \in Ids /\ blocks[m].owner # i
        BY <2>1, <1>2, <1>3, Sizes_ DEF ListInv, ListOK
      <3> QED BY <3>1, <1>9
    <2>2. lo > 1 => s[lo - 1] + Room(blocks[lo - 1]) <= s[lo]
      <3>1. lo > 1 => lo - 1 \in 1..N /\ (lo - 1) + 1 = lo
        BY <1>5
      <3> QED BY <3>1, <1>1, <1>2, <1>5 DEF Fits
    <2>3. s[lo] \in Nat /\ s[k] \in Nat
      BY <1>2, <1>5, <1>6
    <2>4. s[lo] + a <= g[i]
      BY ONLY <2>3, <1>4, <1>5, <1>7, <1>9, a = offset[i] + SizeAt(blocks, k - 1) DEF x
    <2>5. ASSUME hi <= N PROVE g[i] + itv[i].size + c <= s[hi] + 0
      <3>1. hi \in 1..N
        BY <2>5, <1>5
      <3>2. s[hi] \in Nat /\ s[k] + itv[d].size + SizeAt(blocks, k + 1) <= s[hi]
        BY <3>1, <1>5, <1>6
      <3>3. g[i] = s[k] + offset[i]
        BY <1>5, <1>9
      <3> QED BY ONLY <2>3, <3>2, <3>3, <1>4, <1>5,
                      c = itv[d].size - (offset[i] + itv[i].size) + SizeAt(blocks, k + 1)
    <2> QED BY <1>2, <2>1, <2>2, <2>4, <2>5 DEF HasRoom
  <1>12. s[lo] \in Nat
    BY <1>5, <1>6
  <1> QED BY <1>1, <1>8, <1>10, <1>11, <1>12, BeginKeepsLayout

LEMMA OverwriteKeeps ==
    ASSUME ForwardSpecs, Prepared, LoopOK, ListInv, NEW i \in Ids, alloc_overwrite(i)
    PROVE  LoopOK' /\ ListInv' /\ stage = "solve" /\ stage' = "solve"
  <1> DEFINE d == dest[i]
  <1>1. CallBack("overwrite", i) /\ stage = "solve" /\ UNCHANGED <<problem, links>>
    BY DEF alloc_overwrite, CallBack
  <1>2. stage' \in {"solve", "abort"}
    BY <1>1 DEF alloc_overwrite, CC_ASSERT
  <1>3. /\ LoopOK' /\ d \in Holders /\ i \notin Holders
        /\ Holders' = (Holders \ {d}) \cup {i}
        /\ d # Nil /\ itv[i].begin = now
        /\ ~Begun(i) /\ \A j \in Ids : Begun(j)' <=> Begun(j) \/ j = i
    BY <1>1, <1>2, OverwriteCallBack
  <1>4. /\ d \in Ids /\ Begun(d)
        /\ offset[i] \in Nat /\ offset[i] + itv[i].size <= itv[d].size
        /\ itv[d].size \in Nat /\ itv[i].size \in Nat
    BY <1>1, <1>3, LinksTyped, TimesTyped DEF Holders
  <1>5. /\ ListOK(blocks, Holders) /\ blocks \in Seq(Block)
        /\ Nil \notin Ids /\ Holders \in SUBSET Ids /\ Nil \notin Holders
    BY Sizes_ DEF ListInv, ListOK
  <1> HIDE DEF d
  <1>6. PICK k \in DOMAIN blocks :
          /\ blocks[k].owner = d
          /\ blocks' \in Overwritten(blocks, k, d, i)
          /\ below' = Recorded(i, blocks')
          /\ CC_ASSERT(\A m \in PositionsOf(blocks', i) : FoundNoAdjacentFree(blocks', m))
    <2>1. PositionsOf(blocks, d) # {} /\ ~(itv[d].size < offset[i] + itv[i].size)
      BY <1>3, <1>4, <1>5 DEF ListOK, PositionsOf
    <2>2. \E k \in PositionsOf(blocks, d) : \E bs \in Overwritten(blocks, k, d, i) :
            /\ blocks' = bs
            /\ below' = Recorded(i, bs)
            /\ CC_ASSERT(\A m \in PositionsOf(bs, i) : FoundNoAdjacentFree(bs, m))
      BY <2>1 DEF alloc_overwrite, d
    <2>3. PICK k \in PositionsOf(blocks, d) :
            /\ blocks' \in Overwritten(blocks, k, d, i)
            /\ below' = Recorded(i, blocks')
            /\ CC_ASSERT(\A m \in PositionsOf(blocks', i) : FoundNoAdjacentFree(blocks', m))
      BY <2>2
    <2> QED BY <2>3 DEF PositionsOf
  <1> DEFINE lo == IF k - 1 \in FreeAt(blocks) THEN k - 1 ELSE k
             hi == IF k + 1 \in FreeAt(blocks) THEN k + 2 ELSE k + 1
             a == offset[i] + SizeAt(blocks, k - 1)
             c == itv[d].size - (offset[i] + itv[i].size) + SizeAt(blocks, k + 1)
  <1>7. Around(blocks, k, lo, hi)
    BY DEF Around
  <1>8. /\ itv[d].size - (offset[i] + itv[i].size) \in Nat
        /\ \A m : SizeAt(blocks, m) \in Nat
    BY <1>4, <1>5, BlockTyped
  <1>9. a \in Nat /\ c \in Nat
    BY <1>4, <1>8
  <1>10. Placed(blocks, lo, hi, i, a, c, blocks')
    BY <1>3, <1>4, <1>5, <1>6, <1>8, OverwrittenIs
  <1> HIDE DEF lo, hi, a, c
  <1>11. AroundOK(blocks, Holders, k, d, lo, hi)
    BY <1>3, <1>4, <1>5, <1>6, <1>7, AroundOne
  <1>12. /\ Replaceable(blocks, Holders, lo, hi, {d})
         /\ lo \in 1..Len(blocks) + 1 /\ hi \in lo..Len(blocks) + 1
    BY <1>11 DEF AroundOK, Replaceable
  <1>13. PICK p \in Nat, q \in Nat : Placing(blocks, lo, hi, i, a, c, p, q, blocks')
    BY <1>5, <1>9, <1>10, <1>12, PlacedBlocks
  <1>14. Beginning(i, lo, hi, {d}, a, c, p, q)
    BY <1>1, <1>3, <1>6, <1>9, <1>12, <1>13 DEF Beginning
  <1>15. LayoutOK'
    BY <1>1, <1>3, <1>11, <1>14, OverwriterKeepsLayout DEF a, c, d
  <1>16. OrderOK'
    <2>1. ASSUME NEW f \in [Ids -> Nat], NEW j \in Ids, Respects(f)', Begun(j),
                 time_overlap(i, j), root[i] # root[j]
          PROVE  ApartIn(f, i, j)
      <3>1. Respects(f) /\ f[i] = f[d] + offset[i]
        BY <2>1, <1>3, <1>14, BeginKeepsList DEF d
      <3> QED BY <2>1, <3>1, <1>1, <1>3, <1>4, OverwriterApart DEF d
    <2> QED BY <2>1, <1>14, BeginKeepsOrder
  <1>17. ListInv' /\ stage' = "solve"
    BY <1>1, <1>6, <1>14, <1>15, <1>16, BeginKeepsList DEF ListInv, CC_ASSERT
  <1> QED BY <1>1, <1>3, <1>17

(* free() and the steps that leave the order alone.                        *)
LEMMA SameOrder ==
    ASSUME UNCHANGED <<problem, links, below>>, BelowOK, \A j \in Ids : Begun(j)' <=> Begun(j)
    PROVE  (\A f : Respects(f)' <=> Respects(f)) /\ BelowOK'
  <1>1. /\ Ids' = Ids /\ UNCHANGED <<dest, offset, below>>
        /\ \A f, j : end_in(f, j)' = end_in(f, j)
    BY BeginningFrame
  <1>2. BelowOK'
    BY <1>1 DEF BelowOK
  <1>3. ASSUME NEW f PROVE Respects(f)' <=> Respects(f)
    BY <1>1 DEF Respects
  <1> QED BY <1>2, <1>3

LEMMA SameOrderKeeps ==
    ASSUME UNCHANGED <<problem, links, below>>, ListInv, \A j \in Ids : Begun(j)' <=> Begun(j),
           ListOK(blocks', Holders'),
           \A f : Ordered(blocks, f) => Ordered(blocks', f),
           \A f, s : Fits(blocks, f, s) => \E z : Fits(blocks', f, z)
    PROVE  ListInv'
  <1>1. /\ Ids' = Ids /\ root' = root
        /\ \A f, i, j : ApartIn(f, i, j)' <=> ApartIn(f, i, j)
        /\ \A i, j : time_overlap(i, j)' <=> time_overlap(i, j)
        /\ \A bs, f : Ordered(bs, f)' <=> Ordered(bs, f)
        /\ \A bs, f, s : Fits(bs, f, s)' <=> Fits(bs, f, s)
        /\ \A bs, H : ListOK(bs, H)' <=> ListOK(bs, H)
    BY BeginningFrame
  <1>2. BelowOK' /\ \A f : Respects(f)' <=> Respects(f)
    BY SameOrder DEF ListInv
  <1>3. ListOK(blocks, Holders)'
    BY <1>1
  <1>4. OrderOK'
    <2> SUFFICES ASSUME NEW f \in [Ids -> Nat], Respects(f)
                 PROVE  /\ Ordered(blocks', f)
                        /\ \A i, j \in Ids : Begun(i) /\ Begun(j) /\ time_overlap(i, j) /\
                             root[i] # root[j] => ApartIn(f, i, j)
      BY <1>1, <1>2 DEF OrderOK
    <2> QED BY DEF ListInv, OrderOK
  <1>5. LayoutOK'
    <2>0. PICK f \in [Ids -> Nat] : Respects(f) /\ \E s : Fits(blocks, f, s)
      BY DEF ListInv, LayoutOK
    <2>1. PICK s : Respects(f) /\ Fits(blocks, f, s)
      BY <2>0
    <2>2. PICK z : Fits(blocks', f, z)
      BY <2>1
    <2>3. Respects(f)' /\ Fits(blocks, f, z)'
      BY <2>1, <2>2, <1>1, <1>2
    <2> QED BY <2>3, <1>1 DEF LayoutOK
  <1> QED BY <1>2, <1>3, <1>4, <1>5 DEF ListInv

LEMMA FreeKeeps ==
    ASSUME ForwardSpecs, Prepared, LoopOK, ListInv, NEW i \in Ids, free(i)
    PROVE  LoopOK' /\ ListInv' /\ stage = "solve" /\ stage' = "solve"
  <1>1. /\ CallBack("free", i) /\ stage = "solve" /\ UNCHANGED <<problem, links, below>>
        /\ stage' \in {"solve", "abort"}
    BY DEF free, CallBack, CC_ASSERT
  <1>2. /\ LoopOK' /\ i \in Holders /\ Holders' = Holders \ {i}
        /\ \A j \in Ids : Begun(j)' <=> Begun(j)
    BY <1>1, FreeCallBack
  <1>3. /\ ListOK(blocks, Holders)
        /\ Nil \notin Ids /\ Holders \in SUBSET Ids /\ Nil \notin Holders
        /\ \A j \in Ids : itv[j].size \in Nat /\ itv[j].size # 0
    BY Sizes_ DEF ListInv
  <1>4. PICK k \in DOMAIN blocks : blocks[k].owner = i /\ blocks' = Freed(blocks, k, i)
        /\ stage' = "solve"
    <2>1. PositionsOf(blocks, i) # {}
      BY <1>2, <1>3 DEF ListOK, PositionsOf
    <2>2. CC_ASSERT(TRUE) /\ \E k \in PositionsOf(blocks, i) : blocks' = Freed(blocks, k, i)
      BY <2>1 DEF free
    <2> QED BY <2>2, <1>1 DEF CC_ASSERT, PositionsOf
  <1>5. /\ ListOK(blocks', Holders')
        /\ \A f : Ordered(blocks, f) => Ordered(blocks', f)
        /\ \A f, s : Fits(blocks, f, s) => \E z : Fits(blocks', f, z)
    <2>1. Released(blocks, Holders, i, blocks')
      BY <1>2, <1>3, <1>4, FreedKeeps
    <2> QED BY <2>1, <1>2 DEF Released
  <1>6. ListInv'
    BY <1>1, <1>2, <1>5, SameOrderKeeps
  <1> QED BY <1>1, <1>2, <1>4, <1>6

LEMMA NothingMoves ==
    ASSUME UNCHANGED <<problem, links, prealloc>>, ListInv, Holders' = Holders,
           \A j \in Ids : Begun(j)' <=> Begun(j)
    PROVE  ListInv'
  <1>1. UNCHANGED <<below, blocks>>
    BY DEF prealloc
  <1>2. ListOK(blocks', Holders')
    BY <1>1 DEF ListInv
  <1> QED BY <1>1, <1>2, SameOrderKeeps

(* The list is empty when do_solve() starts.                               *)
LEMMA StartKeeps ==
    ASSUME Prepared, LoopOK, start_prealloc, Prepared'
    PROVE  LoopOK' /\ ListInv'
  <1>1. /\ LoopOK' /\ Holders' = {} /\ \A j \in Ids : ~Begun(j)'
        /\ blocks' = <<>> /\ below' = [j \in Ids |-> {}]
        /\ UNCHANGED <<problem, links>>
    BY StartLoopHolders DEF start_prealloc, start_loop
  <1>2. /\ Ids' = Ids /\ UNCHANGED <<itv, dest>>
        /\ \A f, j : end_in(f, j)' = end_in(f, j)
        /\ \A bs, f : Ordered(bs, f)' <=> Ordered(bs, f)
        /\ \A bs, f, s : Fits(bs, f, s)' <=> Fits(bs, f, s)
        /\ \A bs, H : ListOK(bs, H)' <=> ListOK(bs, H)
    BY <1>1, BeginningFrame
  <1>3. blocks' \in Seq(Block) /\ DOMAIN blocks' = {}
    BY <1>1
  <1>4. ListOK(blocks', {})
    BY <1>3 DEF ListOK, FreeAt
  <1>5. ListOK(blocks, Holders)'
    BY <1>1, <1>2, <1>4
  <1>6. BelowOK'
    BY <1>1, <1>2 DEF BelowOK
  <1>7. OrderOK'
    <2>1. \A f : Ordered(blocks', f)
      BY <1>3 DEF Ordered
    <2>2. \A f : Ordered(blocks, f)'
      BY <2>1, <1>2
    <2> QED BY <1>1, <1>2, <2>2 DEF OrderOK
  <1>8. LayoutOK'
    <2>1. PICK f \in [Ids -> Nat] : f = [j \in Ids |-> 0]
      OBVIOUS
    <2>s. PICK s : s = [k \in {} |-> 0]
      OBVIOUS
    <2>2. Respects(f)'
      BY <1>1, <1>2 DEF Respects
    <2>3. Fits(blocks', f, s)
      BY <1>3, <2>s DEF Fits
    <2>4. Fits(blocks, f, s)'
      BY <2>3, <1>2
    <2> QED BY <2>1, <2>2, <2>4, <1>2 DEF LayoutOK
  <1> QED BY <1>1, <1>5, <1>6, <1>7, <1>8 DEF ListInv

-----------------------------------------------------------------------------
(* Pushing down                                                            *)

placed(i) == addr[i] # INVALID

(* A chain is placed as a whole, at a multiple of the alignment, and only  *)
(* on what has been placed.                                                *)
PushOK ==
    /\ \A i \in Ids : placed(i) <=> placed(root[i])
    /\ \A i \in Ids : placed(i) => /\ addr[i] = addr[root[i]] + rootOffset[i]
                                   /\ \A j \in below[i] : placed(j) /\ addr_end(j) <= addr[i]
    /\ \A i \in Ids : placed(i) /\ dest[i] = Nil => addr[i] % alignment = 0

(* The order has no cycle: in a layout that follows it, of the chains that *)
(* are not placed yet, the one that ends lowest rests on no other.         *)
LEMMA SomeChainCanBePlaced ==
    ASSUME ForwardSpecs, Prepared, LoopOK, stage = "place", ListInv, PushOK,
           NEW u \in Ids, Unplaced(u)
    PROVE  \E r \in Ids : CanPlace(r)
  <1>1. PICK f \in [Ids -> Nat] : Respects(f)
    BY DEF ListInv, LayoutOK
  <1>2. PICK N \in Nat : Ids = 1..N
    BY LenProperties DEF Prepared, ProblemOK, Ids
  <1>3. PICK M \in Nat : \A k \in 1..N : f[k] <= M
    BY <1>1, <1>2, SequenceBounded
  <1> DEFINE S == {n \in Nat : \E r \in Ids : Unplaced(r) /\ \A c \in Chain(r) : f[c] <= n}
  <1>4. S # {}
    <2>1. \A c \in Chain(u) : f[c] <= M
      BY <1>2, <1>3 DEF Chain
    <2>2. M \in S
      BY <2>1
    <2> QED BY <2>2
  <1>5. PICK n \in S : \A m \in S : n <= m
    <2>1. S \in SUBSET Nat
      OBVIOUS
    <2> HIDE DEF S
    <2> QED BY <1>4, <2>1, LeastExists
  <1>6. PICK r \in Ids : Unplaced(r) /\ \A c \in Chain(r) : f[c] <= n
    BY <1>5
  <1>7. n \in Nat
    BY <1>5
  <1>8. \A i \in Chain(r) : \A j \in below[i] : placed(j)
    <2> SUFFICES ASSUME NEW i \in Chain(r), NEW j \in below[i], ~placed(j) PROVE FALSE
      OBVIOUS
    <2>1. i \in Ids /\ j \in Ids /\ end_in(f, j) <= f[i] /\ f[i] <= n
      BY <1>1, <1>6 DEF Chain, Respects, ListInv, BelowOK
    <2>2. Unplaced(root[j]) /\ root[j] \in Ids
      BY <2>1, RootFirst DEF PushOK, placed, Unplaced, is_overwrite_root
    <2>3. ASSUME NEW c \in Chain(root[j]) PROVE f[c] < n
      <3>1. c \in Ids /\ root[c] = root[j] /\ Begun(c) /\ Begun(j) /\ Solving
        BY <2>1, AllEnded DEF Chain, Solving
      <3>2. /\ itv[c].size \in Nat /\ itv[c].size # 0 /\ itv[j].size \in Nat /\ itv[j].size # 0
            /\ itv[c].begin \in Nat /\ itv[j].begin \in Nat
            /\ f[c] \in Nat /\ f[j] \in Nat /\ f[i] \in Nat
        BY <2>1, <3>1, TimesTyped
      <3>3. f[c] < f[j] + itv[j].size
        <4>1. CASE itv[c].begin <= itv[j].begin
          <5>1. f[c] <= f[j]
            BY <1>1, <2>1, <3>1, <4>1, Nested
          <5> QED BY <5>1, <3>2
        <4>2. CASE itv[j].begin <= itv[c].begin
          <5>1. end_in(f, c) <= end_in(f, j)
            BY <1>1, <2>1, <3>1, <4>2, Nested
          <5> QED BY <5>1, <3>2 DEF end_in
        <4> QED BY <3>2, <4>1, <4>2
      <3> QED BY <3>2, <3>3, <2>1, <1>7 DEF end_in
    <2>4. n - 1 \in Nat
      <3>1. j \in Chain(root[j]) /\ f[j] \in Nat
        BY <2>1 DEF Chain
      <3> QED BY <3>1, <2>3, <1>7
    <2>5. \A c \in Chain(root[j]) : f[c] <= n - 1
      BY <2>3, <1>7 DEF Chain
    <2>6. n - 1 \in S
      BY <2>2, <2>4, <2>5
    <2>7. n <= n - 1
      BY <2>6, <1>5
    <2> QED BY <2>7, <1>7
  <1> QED BY <1>6, <1>8 DEF CanPlace, placed

LEMMA PushKeeps ==
    ASSUME ForwardSpecs, Prepared, TodoAddrOK, LoopOK, stage = "place", ListInv, PushOK, peak \in Nat,
           NEW r \in Ids, get_interval_addr_end(r)
    PROVE  /\ stage' = "place" /\ TodoAddrOK' /\ PushOK' /\ peak' \in Nat /\ addr'[r] \in Nat
           /\ UNCHANGED <<problem, links, loop, todo, prealloc>>
  <1>1. PICK a \in Floors(r) :
          /\ \A b \in Floors(r) : b <= a
          /\ addr' = [i \in Ids |-> IF i \in Chain(r) THEN Pushed(a, i) ELSE addr[i]]
          /\ LET end == align(Pushed(a, r) + itv[r].size)
             IN  peak' = IF end > peak THEN end ELSE peak
    BY DEF get_interval_addr_end
  <1>2. CanPlace(r) /\ CC_ASSERT(rootOffset[r] = 0)
        /\ UNCHANGED <<problem, links, loop, todo, prealloc>>
    BY DEF get_interval_addr_end
  <1>3. /\ Ids' = Ids /\ UNCHANGED <<itv, alignment, dest, root, rootOffset, below>>
    BY <1>2 DEF problem, links, prealloc, Ids
  <1>4. dest[r] = Nil /\ root[r] = r /\ rootOffset[r] = 0 /\ ~placed(r)
    BY <1>2 DEF CanPlace, Unplaced, is_overwrite_root, placed, Prepared, RootsOK
  <1>5. stage' = "place"
    BY <1>2, <1>4 DEF CC_ASSERT
  <1>6. \A i \in Ids : /\ addr[i] \in Nat \cup {INVALID} /\ rootOffset[i] \in Nat
                       /\ itv[i].size \in Nat /\ root[i] \in Ids /\ below[i] \in SUBSET Ids
    BY TimesTyped DEF TodoAddrOK, Prepared, LinksOK, ListInv, BelowOK
  <1>7. \A i \in Chain(r) : i \in Ids /\ root[i] = r /\ ~placed(i) /\
                            \A j \in below[i] : placed(j) /\ addr_end(j) - rootOffset[i] <= a
    <2> SUFFICES ASSUME NEW i \in Chain(r)
                 PROVE  i \in Ids /\ root[i] = r /\ ~placed(i) /\
                        \A j \in below[i] : placed(j) /\ addr_end(j) - rootOffset[i] <= a
      OBVIOUS
    <2>1. i \in Ids /\ root[i] = r /\ ~placed(i)
      BY <1>4 DEF Chain, PushOK
    <2>2. ASSUME NEW j \in below[i] PROVE placed(j) /\ addr_end(j) - rootOffset[i] \in Floors(r)
      BY <1>2, <2>1 DEF CanPlace, placed, Floors
    <2> QED BY <2>1, <2>2, <1>1
  <1>8. a \in Nat
    <2>1. 0 \in Floors(r)
      BY DEF Floors
    <2>2. a \in Int
      <3>1. CASE a = 0
        BY <3>1
      <3>2. CASE \E i \in Chain(r) : \E j \in below[i] : a = addr_end(j) - rootOffset[i]
        <4>1. PICK i \in Chain(r) : \E j \in below[i] : a = addr_end(j) - rootOffset[i]
          BY <3>2
        <4>2. PICK j \in below[i] : a = addr_end(j) - rootOffset[i]
          BY <4>1
        <4>3. i \in Ids /\ j \in Ids
          BY <1>6, <1>7
        <4>4. addr[j] \in Int /\ itv[j].size \in Int /\ rootOffset[i] \in Int
          BY <4>3, <1>6 DEF INVALID
        <4> QED BY <4>2, <4>4 DEF addr_end
      <3> QED BY <1>1, <3>1, <3>2 DEF Floors
    <2> QED BY <2>1, <2>2, <1>1
  <1>9. PICK x \in Nat : x = align(a) /\ a <= x /\ x % alignment = 0
    BY <1>8, AlignUp DEF Prepared, ProblemOK
  <1>10. \A i \in Ids : addr'[i] = IF root[i] = r THEN x + rootOffset[i] ELSE addr[i]
    BY <1>1, <1>9 DEF Pushed, Chain
  <1>11. \A i \in Ids : addr'[i] # INVALID <=> placed(i) \/ root[i] = r
    BY <1>6, <1>10 DEF placed, INVALID
  <1>12. \A i \in Ids : placed(i) => addr'[i] = addr[i] /\ addr_end(i)' = addr_end(i)
    BY <1>3, <1>7, <1>10 DEF Chain, addr_end
  <1>13. PushOK'
    <2>1. \A i \in Ids : addr'[i] # INVALID <=> addr'[root[i]] # INVALID
      <3>1. \A i \in Ids : root[root[i]] = root[i]
        BY RootFirst DEF Prepared, RootsOK
      <3> QED BY <3>1, <1>6, <1>11 DEF PushOK
    <2>2. ASSUME NEW i \in Ids, addr'[i] # INVALID
          PROVE  /\ addr'[i] = addr'[root[i]] + rootOffset[i]
                 /\ \A j \in below[i] : addr'[j] # INVALID /\ addr_end(j)' <= addr'[i]
      <3>1. CASE placed(i)
        <4>1. placed(root[i]) /\ root[i] \in Ids
          BY <3>1, <1>6 DEF PushOK
        <4>2. addr'[i] = addr[i] /\ addr'[root[i]] = addr[root[i]]
          BY <3>1, <4>1, <1>12
        <4>3. ASSUME NEW j \in below[i] PROVE addr'[j] # INVALID /\ addr_end(j)' <= addr'[i]
          <5>1. j \in Ids /\ placed(j) /\ addr_end(j) <= addr[i]
            BY <3>1, <1>6 DEF PushOK
          <5> QED BY <5>1, <4>2, <1>11, <1>12
        <4> QED BY <3>1, <4>2, <4>3 DEF PushOK
      <3>2. CASE ~placed(i)
        <4>1. root[i] = r /\ i \in Chain(r)
          BY <3>2, <2>2, <1>11 DEF Chain
        <4>2. addr'[i] = x + rootOffset[i] /\ addr'[r] = x
          BY <4>1, <1>4, <1>10
        <4>3. ASSUME NEW j \in below[i] PROVE addr'[j] # INVALID /\ addr_end(j)' <= addr'[i]
          <5>1. j \in Ids /\ placed(j) /\ addr_end(j) - rootOffset[i] <= a
            BY <4>1, <1>6, <1>7
          <5>2. addr_end(j) \in Int /\ rootOffset[i] \in Int
            BY <5>1, <1>6 DEF addr_end, INVALID
          <5>3. addr_end(j) <= x + rootOffset[i]
            BY ONLY <5>1, <5>2, <1>8, <1>9
          <5> QED BY <5>1, <5>3, <4>2, <1>11, <1>12
        <4> QED BY <4>1, <4>2, <4>3
      <3> QED BY <3>1, <3>2
    <2>3. \A i \in Ids : addr'[i] # INVALID /\ dest[i] = Nil => addr'[i] % alignment = 0
      <3> SUFFICES ASSUME NEW i \in Ids, addr'[i] # INVALID, dest[i] = Nil PROVE addr'[i] % alignment = 0
        OBVIOUS
      <3>1. CASE placed(i)
        BY <3>1, <1>12 DEF PushOK
      <3>2. CASE ~placed(i)
        <4>1. root[i] = i /\ i = r
          BY <3>2, <1>11 DEF Prepared, RootsOK
        <4>2. addr'[i] = x
          BY <4>1, <1>4, <1>9, <1>10
        <4> QED BY <4>2, <1>9
      <3> QED BY <3>1, <3>2
    <2> QED BY <2>1, <2>2, <2>3, <1>3 DEF PushOK, placed
  <1>14. TodoAddrOK'
    <2>1. addr' \in [Ids -> Nat \cup {INVALID}]
      BY <1>1, <1>6, <1>9 DEF Pushed
    <2>2. todo' = todo
      BY <1>2
    <2> QED BY <2>1, <2>2, <1>3 DEF TodoAddrOK
  <1>15. peak' \in Nat
    <2>1. Pushed(a, r) + itv[r].size \in Nat
      BY <1>6, <1>9 DEF Pushed
    <2>2. align(Pushed(a, r) + itv[r].size) \in Nat
      BY <2>1, AlignUp DEF Prepared, ProblemOK
    <2> QED BY <2>2, <1>1
  <1>16. addr'[r] \in Nat
    BY <1>4, <1>9, <1>10
  <1> QED BY <1>2, <1>5, <1>13, <1>14, <1>15, <1>16

-----------------------------------------------------------------------------
(* The inductive invariant                                                 *)

IInv ==
    /\ Prepared /\ TodoAddrOK /\ LoopOK
    /\ peak \in Nat /\ blocks \in Seq(Block)
    /\ stage \in {"build", "link", "root", "reject"} => blocks = <<>>
    /\ Solving => ListInv
    /\ stage = "solve" => addr = [i \in Ids |-> INVALID]
    /\ stage \in {"place", "check", "done"} => PushOK
    /\ stage \in {"check", "done"} => \A i \in Ids : placed(i)

LEMMA InitIInv == Init => IInv
  <1> SUFFICES ASSUME Init PROVE IInv
    OBVIOUS
  <1>1. Prepared /\ TodoAddrOK /\ stage = "build"
    BY InitPrepared DEF Init, InitProblem
  <1>2. LoopOK
    BY <1>1, BoundsAssumption DEF Init, InitLoop, LoopOK, Phases
  <1>3. blocks = <<>> /\ blocks \in Seq(Block) /\ peak = 0
    BY DEF Init
  <1> QED BY <1>1, <1>2, <1>3 DEF IInv, Solving

LEMMA PrepareKeepsIInv ==
    ASSUME PositiveSizes, IInv, Prepare, UNCHANGED <<lowerBound, loop, prealloc, peak>>
    PROVE  IInv' /\ stage' # "abort"
  <1>1. Prepared /\ TodoAddrOK /\ LoopOK /\ UNCHANGED <<blocks, peak>>
    BY DEF IInv, prealloc
  <1>2. stage \in {"build", "link", "root"} /\ stage' \in {"build", "link", "root", "reject"}
    BY <1>1, PrepareStages
  <1>3. Prepared' /\ TodoAddrOK'
    BY <1>1, PreparePreserves
  <1>4. LoopOK'
    BY <1>1, <1>2 DEF LoopOK, loop
  <1>5. blocks' = <<>> /\ (blocks \in Seq(Block))'
    BY <1>1, <1>2 DEF IInv
  <1> QED BY <1>1, <1>2, <1>3, <1>4, <1>5 DEF IInv, Solving

(* The steps of do_solve() up to the end of the loop.                      *)
LEMMA LoopKeepsIInv ==
    ASSUME PositiveSizes, ForwardSpecs, IInv,
           \/ start_prealloc
           \/ next_phase /\ UNCHANGED <<prealloc, peak>>
           \/ \E i \in Ids : alloc(i) \/ alloc_overwrite(i) \/ free(i)
    PROVE  IInv' /\ stage' = "solve"
  <1>1. Prepared /\ TodoAddrOK /\ LoopOK /\ peak \in Nat
    BY DEF IInv
  <1>2. SUFFICES /\ stage' = "solve" /\ LoopOK' /\ ListInv' /\ Prepared'
                 /\ UNCHANGED <<problem, links, addr>> /\ peak' \in Nat
                 /\ stage = "solve" \/ stage = "root"
    <2> SUFFICES ASSUME stage' = "solve", LoopOK', ListInv', Prepared',
                        UNCHANGED <<problem, links, addr>>, peak' \in Nat,
                        stage = "solve" \/ stage = "root"
                 PROVE  IInv'
      OBVIOUS
    <2>1. Ids' = Ids
      BY DEF problem, Ids
    <2>2. TodoAddrOK'
      <3>1. todo' \subseteq Ids'
        BY <2>1 DEF LoopOK, Due, Phases
      <3> QED BY <1>1, <2>1, <3>1 DEF TodoAddrOK
    <2>3. (blocks \in Seq(Block))'
      BY DEF ListInv, ListOK
    <2>4. addr = [i \in Ids |-> INVALID]
      BY DEF IInv, Prepared, NoAddresses
    <2> QED BY <2>1, <2>2, <2>3, <2>4 DEF IInv
  <1>3. CASE start_prealloc
    <2>1. /\ stage = "root" /\ todo = {} /\ stage' = "solve" /\ UNCHANGED <<problem, links, addr>>
          /\ peak' = 0
      BY <1>3 DEF start_prealloc, start_loop
    <2>2. Prepared'
      BY <1>1, <2>1, PlacingPreserves
    <2> QED BY <1>1, <1>3, <2>1, <2>2, StartKeeps
  <1>4. ASSUME stage = "solve", stage' = "solve", UNCHANGED <<problem, links>> PROVE Prepared'
    BY <1>1, <1>4, PlacingPreserves
  <1>5. CASE next_phase /\ UNCHANGED <<prealloc, peak>>
    <2>1. stage = "solve" /\ stage' = "solve" /\ UNCHANGED <<problem, links, addr, prealloc, peak>>
      BY <1>5 DEF next_phase
    <2>2. LoopOK' /\ Holders' = Holders /\ \A j \in Ids : Begun(j)' <=> Begun(j)
      BY <1>1, <1>5, NextPhaseHolders
    <2>3. ListInv'
      BY <2>1, <2>2, NothingMoves DEF IInv, Solving
    <2> QED BY <1>1, <1>4, <2>1, <2>2, <2>3
  <1>6. ASSUME NEW i \in Ids, alloc(i) \/ alloc_overwrite(i) \/ free(i)
        PROVE  /\ stage' = "solve" /\ LoopOK' /\ ListInv' /\ Prepared'
               /\ UNCHANGED <<problem, links, addr>> /\ peak' \in Nat
               /\ stage = "solve"
    <2>1. stage = "solve" /\ UNCHANGED <<problem, links, addr, peak>>
      BY <1>6 DEF alloc, alloc_overwrite, free, CallBack
    <2>2. ListInv
      BY <2>1 DEF IInv, Solving
    <2>3. stage' = "solve" /\ LoopOK' /\ ListInv'
      BY <1>1, <1>6, <2>2, AllocKeeps, OverwriteKeeps, FreeKeeps
    <2> QED BY <1>1, <1>4, <2>1, <2>3
  <1> QED BY <1>3, <1>5, <1>6

(* The steps of do_solve() after the loop, and the check.                  *)
LEMMA AfterLoopKeepsIInv ==
    ASSUME PositiveSizes, ForwardSpecs, IInv,
           \/ start_push
           \/ \E r \in Ids : get_interval_addr_end(r)
           \/ end_push
           \/ check_result(tot_alloc) /\ UNCHANGED <<loop, prealloc, peak>>
    PROVE  IInv' /\ (stage # "check" => stage' # "abort")
  <1>1. Prepared /\ TodoAddrOK /\ LoopOK /\ peak \in Nat /\ blocks \in Seq(Block)
    BY DEF IInv
  <1>2. ASSUME Solving, UNCHANGED <<problem, links, loop, todo, prealloc>>
        PROVE  ListInv' /\ Ids' = Ids /\ (blocks \in Seq(Block))'
    <2>1. Ids' = Ids /\ Holders' = Holders /\ \A j : Begun(j)' <=> Begun(j)
      BY <1>2, LoopStays
    <2>2. ListInv'
      BY <1>2, <2>1, NothingMoves DEF IInv
    <2> QED BY <2>1, <2>2 DEF ListInv, ListOK
  <1>3. ASSUME start_push PROVE IInv' /\ stage' # "abort"
    <2>1. /\ stage = "solve" /\ stage' = "place" /\ UNCHANGED <<problem, links, loop, todo, addr, prealloc, peak>>
          /\ end_loop("place")
      BY <1>3 DEF start_push, end_loop
    <2>2. LoopOK'
      BY <1>1, <2>1, EndLoopHolders
    <2>3. Prepared'
      BY <1>1, <2>1, PlacingPreserves
    <2>4. ListInv' /\ Ids' = Ids /\ (blocks \in Seq(Block))'
      BY <2>1, <1>2 DEF Solving
    <2>5. TodoAddrOK'
      BY <1>1, <2>1, <2>4 DEF TodoAddrOK
    <2>6. PushOK'
      <3>1. \A i \in Ids : ~placed(i)' /\ root'[i] \in Ids
        BY <1>1, <2>1 DEF IInv, placed, Prepared, LinksOK, links
      <3> QED BY <3>1, <2>4 DEF PushOK
    <2> QED BY <1>1, <2>1, <2>2, <2>3, <2>4, <2>5, <2>6 DEF IInv
  <1>4. ASSUME NEW r \in Ids, get_interval_addr_end(r) PROVE IInv' /\ stage' # "abort"
    <2>1. stage = "place" /\ ListInv /\ PushOK
      BY <1>4 DEF get_interval_addr_end, IInv, Solving
    <2>2. /\ stage' = "place" /\ TodoAddrOK' /\ PushOK' /\ peak' \in Nat
          /\ UNCHANGED <<problem, links, loop, todo, prealloc>>
      BY <1>1, <1>4, <2>1, PushKeeps
    <2>3. Prepared'
      BY <1>1, <2>1, <2>2, PlacingPreserves
    <2>4. LoopOK'
      BY <1>1, <2>1, <2>2 DEF LoopOK, loop
    <2>5. ListInv' /\ (blocks \in Seq(Block))'
      BY <2>1, <2>2, <1>2 DEF Solving
    <2> QED BY <2>2, <2>3, <2>4, <2>5 DEF IInv
  <1>5. ASSUME \/ /\ stage = "place" /\ stage' = "check"
                  /\ \A r \in Ids : ~Unplaced(r)
               \/ stage = "check" /\ stage' \in {"done", "abort"},
               UNCHANGED <<problem, links, loop, todo, addr, prealloc, peak>>
        PROVE  IInv' /\ (stage # "check" => stage' # "abort")
    <2>1. /\ \/ /\ stage = "place" /\ stage' = "check"
                /\ \A r \in Ids : ~Unplaced(r)
             \/ stage = "check" /\ stage' \in {"done", "abort"}
          /\ UNCHANGED <<problem, links, loop, todo, addr, prealloc, peak>>
      BY <1>5
    <2>2. Prepared'
      BY <1>1, <2>1, PlacingPreserves
    <2>3. ListInv' /\ Ids' = Ids /\ (blocks \in Seq(Block))'
      BY <2>1, <1>2 DEF Solving
    <2>4. LoopOK'
      BY <1>1, <2>1 DEF LoopOK, loop
    <2>5. TodoAddrOK'
      BY <1>1, <2>1, <2>3 DEF TodoAddrOK
    <2>6. UNCHANGED <<itv, alignment, dest, root, rootOffset, below, addr>>
      BY <2>1 DEF problem, links, prealloc
    <2>7. PushOK'
      <3>1. PushOK
        BY <2>1 DEF IInv
      <3> QED BY <3>1, <2>3, <2>6 DEF PushOK, placed, addr_end
    <2>8. \A i \in Ids : placed(i)'
      <3>1. CASE stage = "place"
        <4>1. \A i \in Ids : root[i] \in Ids /\ dest[root[i]] = Nil
          BY <1>1, <3>1, RootFirst
        <4>2. PushOK
          BY <3>1 DEF IInv
        <4> QED BY <2>1, <2>6, <3>1, <4>1, <4>2 DEF PushOK, placed, Unplaced, is_overwrite_root
      <3>2. CASE stage = "check"
        BY <3>2, <2>6 DEF IInv, placed
      <3> QED BY <2>1, <3>1, <3>2
    <2> QED BY <1>1, <2>1, <2>2, <2>3, <2>4, <2>5, <2>7, <2>8 DEF IInv
  <1>6. CASE \E r \in Ids : get_interval_addr_end(r)
    BY <1>4, <1>6
  <1>7. CASE start_push
    BY <1>3, <1>7
  <1>8. CASE end_push
    BY <1>5, <1>8 DEF end_push
  <1>9. CASE check_result(tot_alloc) /\ UNCHANGED <<loop, prealloc, peak>>
    BY <1>5, <1>9 DEF check_result
  <1> QED BY <1>6, <1>7, <1>8, <1>9

LEMMA StutterKeepsIInv ==
    ASSUME IInv, UNCHANGED vars
    PROVE  IInv'
  <1>1. UNCHANGED <<problem, stage, links, loop, todo, addr, prealloc, peak, itv, alignment, dest, root,
                    rootOffset, below, blocks>>
    BY DEF vars, problem, links, prealloc
  <1>2. Prepared' /\ TodoAddrOK' /\ LoopOK'
    BY <1>1, StutterPreserves DEF IInv
  <1>3. Ids' = Ids /\ Holders' = Holders /\ \A j : Begun(j)' <=> Begun(j)
    BY <1>1, LoopStays
  <1>4. Solving => ListInv'
    BY <1>1, <1>3, NothingMoves DEF IInv
  <1>5. Block' = Block
    BY <1>3 DEF Block
  <1>6. PushOK' <=> PushOK
    BY <1>1, <1>3 DEF PushOK, placed, addr_end
  <1> QED BY <1>1, <1>2, <1>3, <1>4, <1>5, <1>6 DEF IInv, Solving, placed

LEMMA NextIInv ==
    ASSUME PositiveSizes, ForwardSpecs, IInv, [Next]_vars
    PROVE  IInv' /\ (stage \notin {"check", "abort"} => stage' # "abort")
  <1>1. CASE Prepare /\ UNCHANGED <<lowerBound, loop, prealloc, peak>>
    BY <1>1, PrepareKeepsIInv
  <1>2. CASE \/ start_prealloc
             \/ next_phase /\ UNCHANGED <<prealloc, peak>>
             \/ \E i \in Ids : alloc(i) \/ alloc_overwrite(i) \/ free(i)
    BY <1>2, LoopKeepsIInv
  <1>3. CASE \/ start_push
             \/ \E r \in Ids : get_interval_addr_end(r)
             \/ end_push
             \/ check_result(tot_alloc) /\ UNCHANGED <<loop, prealloc, peak>>
    BY <1>3, AfterLoopKeepsIInv
  <1>4. CASE UNCHANGED vars
    <2>1. stage' = stage
      BY <1>4 DEF vars
    <2> QED BY <1>4, <2>1, StutterKeepsIInv
  <1> QED BY <1>1, <1>2, <1>3, <1>4 DEF Next, Stopped

LEMMA Invariance ==
    ASSUME PositiveSizes, ForwardSpecs
    PROVE  Spec => []IInv
  <1>1. IInv /\ [Next]_vars => IInv'
    BY NextIInv
  <1> QED BY <1>1, InitIInv, PTL DEF Spec

-----------------------------------------------------------------------------
(* Every variable of the allocator keeps its type.                         *)
THEOREM TypeCorrect ==
    ASSUME PositiveSizes, ForwardSpecs
    PROVE  Spec => []TypeOK
  <1>1. IInv => TypeOK
    BY DEF IInv, Prepared, ProblemOK, LinksOK, TodoAddrOK, LoopOK, Solving, ListInv, BelowOK,
           TypeOK, TypeOKProblem, Spec_
  <1> QED BY <1>1, Invariance, PTL

(* BestfitPrealloc keeps its list sound: one block for each interval that  *)
(* holds memory, no two free ones side by side, and all memory comes back  *)
(* as one block.                                                           *)
THEOREM BlocksAlwaysSound ==
    ASSUME PositiveSizes, ForwardSpecs
    PROVE  Spec => []BlocksSound
  <1>1. IInv => BlocksOfHolders
    <2> SUFFICES ASSUME IInv, stage \in {"solve", "place"}
                 PROVE  /\ \A i \in Ids : Cardinality(PositionsOf(blocks, i)) = IF i \in Holders THEN 1 ELSE 0
                        /\ \A k \in FreeAt(blocks) : k + 1 \notin FreeAt(blocks)
      BY DEF BlocksOfHolders
    <2>1. ListOK(blocks, Holders) /\ Nil \notin Ids
      BY Sizes_ DEF IInv, Solving, ListInv
    <2>2. ASSUME NEW i \in Ids
          PROVE  Cardinality(PositionsOf(blocks, i)) = IF i \in Holders THEN 1 ELSE 0
      <3>1. CASE i \in Holders
        <4>1. PICK k \in DOMAIN blocks : blocks[k].owner = i
          BY <3>1, <2>1 DEF ListOK
        <4>2. PositionsOf(blocks, i) = {k}
          BY <4>1, <2>1, <2>2 DEF ListOK, PositionsOf, allocated
        <4> QED BY <3>1, <4>2, FS_Singleton
      <3>2. CASE i \notin Holders
        <4>1. PositionsOf(blocks, i) = {}
          BY <3>2, <2>1, <2>2 DEF ListOK, PositionsOf, allocated
        <4> QED BY <3>2, <4>1, FS_EmptySet
      <3> QED BY <3>1, <3>2
    <2> QED BY <2>1, <2>2 DEF ListOK
  <1>2. IInv => AllReturned
    <2> SUFFICES ASSUME IInv, stage = "place"
                 PROVE  Len(blocks) <= 1 /\ FreeAt(blocks) = DOMAIN blocks
      BY DEF AllReturned
    <2>1. ListOK(blocks, Holders) /\ Holders = {}
      BY AllEnded DEF IInv, Solving, ListInv
    <2>2. FreeAt(blocks) = DOMAIN blocks
      BY <2>1 DEF ListOK, FreeAt
    <2>3. PICK N \in Nat : Len(blocks) = N /\ DOMAIN blocks = 1..N
      BY <2>1, LenProperties DEF ListOK
    <2>4. N <= 1
      <3> SUFFICES ASSUME N > 1 PROVE FALSE
        OBVIOUS
      <3>1. 1 \in 1..N /\ 1 + 1 \in 1..N
        OBVIOUS
      <3> QED BY <3>1, <2>1, <2>2, <2>3 DEF ListOK
    <2> QED BY <2>2, <2>3, <2>4
  <1> QED BY <1>1, <1>2, Invariance, PTL DEF BlocksSound

(* The recursion of get_interval_addr_end() ends: some chain can always be *)
(* placed on placed ones.                                                  *)
THEOREM OrderAlwaysAcyclic ==
    ASSUME PositiveSizes, ForwardSpecs
    PROVE  Spec => []OrderAcyclic
  <1>1. IInv => OrderAcyclic
    BY SomeChainCanBePlaced DEF IInv, Solving, OrderAcyclic
  <1> QED BY <1>1, Invariance, PTL

(* The addresses that are found follow the order that was.                 *)
THEOREM OrderAlwaysKept ==
    ASSUME PositiveSizes, ForwardSpecs
    PROVE  Spec => []OrderKept
  <1>1. IInv => OrderKept
    BY DEF IInv, OrderKept, PushOK
  <1> QED BY <1>1, Invariance, PTL

(* They are a layout like those that OrderOK is about.                     *)
LEMMA AddressesRespect ==
    ASSUME IInv, stage \in {"check", "done"}
    PROVE  /\ addr \in [Ids -> Nat] /\ Respects(addr) /\ \A i \in Ids : Begun(i)
           /\ \A i \in Ids : dest[i] # Nil => addr[i] = addr[dest[i]] + offset[i]
  <1>1. \A i \in Ids : Begun(i)
    BY AllEnded DEF IInv
  <1>2. addr \in [Ids -> Nat]
    BY DEF IInv, TodoAddrOK, placed
  <1>3. ASSUME NEW i \in Ids, dest[i] # Nil PROVE addr[i] = addr[dest[i]] + offset[i]
    <2>1. dest[i] \in Ids /\ root[i] = root[dest[i]] /\ offset[i] \in Nat
      BY <1>3, LinksTyped DEF IInv
    <2>2. rootOffset[i] = offset[i] + rootOffset[dest[i]] /\ rootOffset[dest[i]] \in Nat
      BY <1>3, <2>1 DEF IInv, Prepared, RootsOK, LinksOK
    <2>3. /\ addr[i] = addr[root[i]] + rootOffset[i]
          /\ addr[dest[i]] = addr[root[i]] + rootOffset[dest[i]]
      BY <2>1 DEF IInv, PushOK
    <2>4. addr[root[i]] \in Nat
      BY <1>2 DEF IInv, Prepared, LinksOK
    <2> QED BY <2>1, <2>2, <2>3, <2>4
  <1>4. \A i \in Ids : \A j \in below[i] : end_in(addr, j) <= addr[i]
    BY DEF IInv, PushOK, end_in, addr_end
  <1> QED BY <1>1, <1>2, <1>3, <1>4 DEF Respects

(* Pushing down never brings two intervals that are in use at the same     *)
(* time together, though the order of two that hold no memory at the same  *)
(* moment is kept by nothing but those between them.                       *)
LEMMA KeptDisjoint == IInv => LiveDisjoint
  <1> SUFFICES ASSUME IInv, stage \in {"check", "done"}, NEW i \in Ids, NEW j \in Ids,
                      time_overlap(i, j), root[i] # root[j], addr_overlap(i, j)
               PROVE  FALSE
    BY DEF LiveDisjoint
  <1>1. addr \in [Ids -> Nat] /\ Respects(addr) /\ Begun(i) /\ Begun(j)
    BY AddressesRespect
  <1>2. ApartIn(addr, i, j)
    BY <1>1 DEF IInv, Solving, ListInv, OrderOK
  <1>3. itv[i].size \in Nat /\ itv[j].size \in Nat /\ addr[i] \in Nat /\ addr[j] \in Nat
    BY <1>1, TimesTyped DEF IInv
  <1> QED BY <1>2, <1>3 DEF ApartIn, end_in, addr_overlap, addr_end

(* So intervals in use at the same time share no memory.                   *)
THEOREM LiveAlwaysDisjoint ==
    ASSUME PositiveSizes, ForwardSpecs
    PROVE  Spec => []LiveDisjoint
  BY KeptDisjoint, Invariance, PTL

(* What the path compression found agrees with where the chains are put.   *)
THEOREM RootOffsetsAgree ==
    ASSUME PositiveSizes, ForwardSpecs
    PROVE  Spec => []RootOffsets
  <1>1. IInv => RootOffsets
    BY RootFirst DEF IInv, RootOffsets, PushOK, is_overwrite_root
  <1> QED BY <1>1, Invariance, PTL

-----------------------------------------------------------------------------
(* The checker, and what an allocator promises                             *)

(* m_peak_usage is what the roots placed so far reach: one of them up to   *)
(* the alignment, and none of them more.                                   *)
PeakOK ==
    /\ stage \notin {"place", "check", "done"} => peak = 0
    /\ stage \in {"place", "check", "done"} =>
         /\ \A i \in Ids : placed(i) /\ dest[i] = Nil => addr_end(i) <= peak
         /\ peak # 0 => \E i \in Ids : placed(i) /\ peak <= align(addr_end(i))

(* The whole invariant: no step aborts the program.                        *)
PInv == IInv /\ PeakOK /\ stage # "abort"

LEMMA PushKeepsPeak ==
    ASSUME ForwardSpecs, IInv, PeakOK, NEW r \in Ids, get_interval_addr_end(r)
    PROVE  PeakOK'
  <1>1. stage = "place" /\ ListInv /\ PushOK /\ Prepared /\ TodoAddrOK /\ LoopOK /\ peak \in Nat
    BY DEF get_interval_addr_end, IInv, Solving
  <1>2. /\ stage' = "place" /\ TodoAddrOK' /\ PushOK' /\ peak' \in Nat /\ addr'[r] \in Nat
        /\ UNCHANGED <<problem, links, loop, todo, prealloc>>
    BY <1>1, PushKeeps
  <1>3. PICK a \in Floors(r) :
          /\ addr' = [i \in Ids |-> IF i \in Chain(r) THEN Pushed(a, i) ELSE addr[i]]
          /\ LET end == align(Pushed(a, r) + itv[r].size)
             IN  peak' = IF end > peak THEN end ELSE peak
    BY DEF get_interval_addr_end
  <1>4. /\ Ids' = Ids /\ UNCHANGED <<itv, alignment, dest, root>>
        /\ \A j : align(j)' = align(j)
    BY <1>2 DEF problem, links, Ids, align
  <1>5. dest[r] = Nil /\ root[r] = r /\ ~placed(r)
    BY <1>1 DEF get_interval_addr_end, CanPlace, Unplaced, is_overwrite_root, placed, Prepared,
                RootsOK
  <1>6. r \in Chain(r) /\ addr'[r] = Pushed(a, r)
    BY <1>3, <1>5 DEF Chain
  <1>7. \A i \in Ids : i \notin Chain(r) => addr'[i] = addr[i] /\ addr_end(i)' = addr_end(i)
    BY <1>3, <1>4 DEF addr_end
  <1>8. \A i \in Ids : placed(i) => i \notin Chain(r)
    BY <1>1, <1>5 DEF PushOK, Chain
  <1>9. \A i \in Ids : dest[i] = Nil /\ i \in Chain(r) => i = r
    BY <1>1 DEF Chain, Prepared, RootsOK
  <1>10. placed(r)'
    <2>1. addr'[r] \in Nat
      BY <1>2
    <2> QED BY <2>1 DEF placed, INVALID
  <1> DEFINE e == addr_end(r)'
  <1>11. e \in Nat
    BY <1>2, <1>4, <1>10, TimesTyped DEF addr_end, placed, TodoAddrOK, IInv
  <1>12. peak' = IF align(e) > peak THEN align(e) ELSE peak
    BY <1>3, <1>4, <1>6 DEF addr_end
  <1> HIDE DEF e
  <1>13. align(e) \in Nat /\ e <= align(e)
    BY <1>1, <1>11, AlignUp DEF Prepared, ProblemOK
  <1>14. peak <= peak' /\ e <= peak' /\ peak' \in {peak, align(e)}
    BY <1>1, <1>11, <1>12, <1>13
  <1>15. \A i \in Ids : placed(i)' /\ dest[i] = Nil => addr_end(i)' <= peak'
    <2> SUFFICES ASSUME NEW i \in Ids, placed(i)', dest[i] = Nil PROVE addr_end(i)' <= peak'
      OBVIOUS
    <2>1. CASE i = r
      BY <2>1, <1>14 DEF e
    <2>2. CASE i # r
      <3>1. addr'[i] = addr[i] /\ addr_end(i)' = addr_end(i)
        BY <2>2, <1>7, <1>9
      <3>2. placed(i)
        BY <3>1 DEF placed
      <3>3. addr_end(i) <= peak
        BY <3>2, <1>1 DEF PeakOK
      <3>4. addr_end(i) \in Nat
        BY <3>2, <1>1, TimesTyped DEF addr_end, placed, TodoAddrOK
      <3> QED BY <3>1, <3>3, <3>4, <1>1, <1>2, <1>14
    <2> QED BY <2>1, <2>2
  <1>16. peak' # 0 => \E i \in Ids : placed(i)' /\ peak' <= align(addr_end(i)')
    <2>1. CASE peak' = align(e)
      BY <2>1, <1>2, <1>10 DEF e
    <2>2. CASE peak' = peak /\ peak # 0
      <3>1. PICK i \in Ids : placed(i) /\ peak <= align(addr_end(i))
        BY <2>2, <1>1 DEF PeakOK
      <3>2. addr'[i] = addr[i] /\ addr_end(i)' = addr_end(i)
        BY <3>1, <1>7, <1>8
      <3> QED BY <3>1, <3>2, <2>2 DEF placed
    <2> QED BY <2>1, <2>2, <1>14
  <1> QED BY <1>2, <1>4, <1>15, <1>16 DEF PeakOK

(* A step that pushes nothing down keeps what the peak is.                 *)
LEMMA PeakFrame ==
    ASSUME PeakOK, stage \in {"place", "check", "done"}, stage' \in {"place", "check", "done"},
           UNCHANGED <<problem, links, addr, peak>>
    PROVE  PeakOK'
  <1>1. UNCHANGED <<itv, alignment, dest, addr, peak>> /\ Ids' = Ids
    BY DEF problem, links, Ids
  <1>2. (\A n : align(n)' = align(n)) /\ (\A j : addr_end(j)' = addr_end(j))
    BY <1>1 DEF align, addr_end
  <1> QED BY <1>1, <1>2 DEF PeakOK, placed

(* What the checker is given is what CheckerPasses and PlanKept ask for: an *)
(* overwriter ends no higher than its root.                                *)
LEMMA PlacedByPushdown ==
    ASSUME ForwardSpecs, PInv, stage = "check"
    PROVE  /\ PlanMade /\ tot_alloc \in Nat /\ Reaches(tot_alloc)
           /\ \A i \in Ids : dest[i] = Nil => addr[i] % alignment = 0
           /\ \A i \in Ids : dest[i] # Nil => addr[i] = addr[dest[i]] + offset[i]
  <1>1. /\ IInv /\ PeakOK /\ Prepared /\ LoopOK /\ PushOK /\ Solving /\ peak \in Nat
        /\ \A i \in Ids : placed(i)
    BY DEF PInv, IInv, Solving
  <1>2. /\ addr \in [Ids -> Nat] /\ Respects(addr) /\ \A i \in Ids : Begun(i)
        /\ \A i \in Ids : dest[i] # Nil => addr[i] = addr[dest[i]] + offset[i]
    BY <1>1, AddressesRespect
  <1>3. LiveDisjoint
    BY <1>1, KeptDisjoint
  <1>4. \A i \in Ids : addr_end(i) <= peak
    <2> SUFFICES ASSUME NEW i \in Ids PROVE addr_end(i) <= peak
      OBVIOUS
    <2>1. /\ root[i] \in Ids /\ dest[root[i]] = Nil /\ root[root[i]] = root[i]
          /\ itv[root[i]].begin <= itv[i].begin
      <3>1. /\ root[i] \in Ids /\ dest[root[i]] = Nil
            /\ dest[i] # Nil => itv[root[i]].begin < itv[i].begin
        BY <1>1, RootFirst
      <3>2. (dest[i] = Nil => root[i] = i) /\ root[root[i]] = root[i]
        BY <1>1, <3>1, LinksTyped
      <3>3. itv[root[i]].begin \in Nat /\ itv[i].begin \in Nat
        BY <1>1, <3>1, TimesTyped, BoundsAssumption
      <3> QED BY <3>1, <3>2, <3>3
    <2>2. end_in(addr, i) <= end_in(addr, root[i])
      BY <1>1, <1>2, <2>1, Nested
    <2>3. addr_end(root[i]) <= peak
      BY <1>1, <2>1 DEF PeakOK
    <2>4. addr_end(i) \in Nat /\ addr_end(root[i]) \in Nat
      BY <1>1, <1>2, <2>1, TimesTyped DEF addr_end
    <2> QED BY <2>2, <2>3, <2>4, <1>1 DEF end_in, addr_end
  <1>5. Reaches(tot_alloc)
    BY <1>1, <1>4 DEF PeakOK, Reaches, tot_alloc
  <1> QED BY <1>1, <1>2, <1>3, <1>5 DEF PlanMade, PushOK, tot_alloc

LEMMA InitPInv == Init => PInv
  <1> SUFFICES ASSUME Init PROVE PInv
    OBVIOUS
  <1>1. IInv
    BY InitIInv
  <1>2. stage = "build" /\ peak = 0
    BY DEF Init, InitProblem
  <1> QED BY <1>1, <1>2 DEF PInv, PeakOK

LEMMA NextPInv ==
    ASSUME PositiveSizes, ForwardSpecs, PInv, [Next]_vars
    PROVE  PInv'
  <1>1. IInv /\ PeakOK /\ stage # "abort" /\ IInv' /\ (stage # "check" => stage' # "abort")
    BY NextIInv DEF PInv
  <1>2. CASE Prepare /\ UNCHANGED <<lowerBound, loop, prealloc, peak>>
    <2>1. stage \in {"build", "link", "root"} /\ stage' \in {"build", "link", "root", "reject"}
      BY <1>1, <1>2, PrepareStages DEF IInv
    <2> QED BY <1>1, <1>2, <2>1 DEF PInv, PeakOK
  <1>3. CASE start_prealloc
    BY <1>1, <1>3 DEF PInv, PeakOK, start_prealloc, start_loop
  <1>4. CASE \/ next_phase /\ UNCHANGED <<prealloc, peak>>
             \/ \E i \in Ids : alloc(i) \/ alloc_overwrite(i) \/ free(i)
    <2>1. stage = "solve" /\ stage' \in {"solve", "abort"} /\ UNCHANGED peak
      BY <1>4 DEF next_phase, alloc, alloc_overwrite, free, CallBack, CC_ASSERT
    <2> QED BY <1>1, <2>1 DEF PInv, PeakOK
  <1>5. CASE start_push
    <2>1. stage = "solve" /\ stage' = "place" /\ UNCHANGED <<problem, addr, peak>>
      BY <1>5 DEF start_push, end_loop
    <2>2. peak = 0 /\ addr = [i \in Ids |-> INVALID] /\ Ids' = Ids
      BY <1>1, <2>1 DEF PeakOK, IInv, problem, Ids
    <2>3. \A i \in Ids : ~placed(i)'
      BY <2>1, <2>2 DEF placed
    <2> QED BY <1>1, <2>1, <2>2, <2>3 DEF PInv, PeakOK
  <1>6. CASE \E r \in Ids : get_interval_addr_end(r)
    <2>1. PeakOK'
      BY <1>1, <1>6, PushKeepsPeak
    <2>2. stage = "place"
      BY <1>6 DEF get_interval_addr_end
    <2> QED BY <1>1, <2>1, <2>2 DEF PInv
  <1>7. CASE end_push
    <2>1. /\ stage = "place" /\ stage' = "check" /\ UNCHANGED <<problem, links, addr, peak>>
      BY <1>7 DEF end_push
    <2>2. PeakOK'
      BY <1>1, <2>1, PeakFrame
    <2> QED BY <1>1, <2>1, <2>2 DEF PInv
  <1>8. CASE check_result(tot_alloc) /\ UNCHANGED <<loop, prealloc, peak>>
    <2>1. stage = "check" /\ UNCHANGED <<problem, links, addr, peak>>
      BY <1>8 DEF check_result
    <2>2. stage' = "done"
      BY <1>8, <2>1, PlacedByPushdown, CheckerPasses
    <2>3. PeakOK'
      BY <1>1, <2>1, <2>2, PeakFrame
    <2> QED BY <1>1, <2>2, <2>3 DEF PInv
  <1>9. CASE UNCHANGED vars
    <2>1. UNCHANGED <<problem, links, stage, addr, peak>>
      BY <1>9 DEF vars
    <2>2. CASE stage \in {"place", "check", "done"}
      BY <1>1, <2>1, <2>2, PeakFrame DEF PInv
    <2>3. CASE stage \notin {"place", "check", "done"}
      BY <1>1, <2>1, <2>3 DEF PInv, PeakOK
    <2> QED BY <2>2, <2>3
  <1> QED BY <1>2, <1>3, <1>4, <1>5, <1>6, <1>7, <1>8, <1>9 DEF Next, Stopped

LEMMA NeverAborted ==
    ASSUME PositiveSizes, ForwardSpecs
    PROVE  Spec => []PInv
  <1>1. PInv /\ [Next]_vars => PInv'
    BY NextPInv
  <1> QED BY <1>1, InitPInv, PTL DEF Spec

(* No assertion ever fails: not in the linking, the loop, BestfitPrealloc  *)
(* or do_solve(), and the checker accepts every plan.                      *)
THEOREM NeverAsserts ==
    ASSUME PositiveSizes, ForwardSpecs
    PROVE  Spec => NeverAborts
  <1>1. PInv /\ [Next]_vars => [stage' # "abort"]_vars
    BY NextPInv DEF PInv
  <1> QED BY <1>1, NeverAborted, PTL DEF Spec, NeverAborts

(* A step of the allocator is a step that the client of MemPlan may see,   *)
(* or none.                                                                *)
LEMMA StepRefines ==
    ASSUME PositiveSizes, ForwardSpecs, PInv, [Next]_vars
    PROVE  [Abstract!Next]_(Abstract!vars)
  <1>1. IInv /\ PeakOK /\ stage # "abort" /\ PInv' /\ stage' # "abort"
    BY NextPInv DEF PInv
  <1>2. CASE Prepare /\ UNCHANGED <<lowerBound, loop, prealloc, peak>>
    <2>1. stage \in {"build", "link", "root"} /\ stage' \in {"build", "link", "root", "reject"}
      BY <1>1, <1>2, PrepareStages DEF IInv
    <2>2. /\ Len(itv) <= Len(itv') /\ itv = SubSeq(itv', 1, Len(itv))
          /\ Len(specs) <= Len(specs') /\ specs = SubSeq(specs', 1, Len(specs))
          /\ stage' = "reject" => /\ \E p \in Promise!Specs : Promise!TooLate(p)
                                  /\ UNCHANGED <<itv, specs, alignment>>
      BY <1>1, <1>2, PrepareDescribes DEF IInv
    <2>3. CASE stage' # "reject"
      <3>1. Abstract!Describe
        BY <2>1, <2>2, <2>3 DEF Abstract!Describe, PlanStage, Ready
      <3> QED BY <3>1 DEF Abstract!Next
    <2>4. CASE stage' = "reject"
      <3>1. \E p \in Abstract!Specs : Abstract!TooLate(p)
        BY <2>2, <2>4 DEF Promise!Specs, Promise!TooLate, Abstract!Specs, Abstract!TooLate
      <3>2. Abstract!Refuse
        BY <2>1, <2>2, <2>4, <3>1 DEF Abstract!Refuse, PlanStage, Ready
      <3> QED BY <3>2 DEF Abstract!Next
    <2> QED BY <2>3, <2>4
  <1>3. ASSUME stage \in {"root", "solve", "place"}, stage' \in {"solve", "place", "check", "abort"},
               UNCHANGED problem
        PROVE  UNCHANGED Abstract!vars
    BY <1>1, <1>3 DEF Abstract!vars, PlanStage, Ready, problem
  <1>4. CASE \/ start_prealloc
             \/ next_phase /\ UNCHANGED <<prealloc, peak>>
             \/ \E i \in Ids : alloc(i) \/ alloc_overwrite(i) \/ free(i)
             \/ start_push
             \/ \E r \in Ids : get_interval_addr_end(r)
             \/ end_push
    <2>1. /\ stage \in {"root", "solve", "place"} /\ stage' \in {"solve", "place", "check", "abort"}
          /\ UNCHANGED problem
      BY <1>4 DEF start_prealloc, start_loop, next_phase, alloc, alloc_overwrite, free, CallBack,
                  CC_ASSERT, start_push, end_loop, get_interval_addr_end, end_push
    <2> QED BY <2>1, <1>3
  <1>5. CASE check_result(tot_alloc) /\ UNCHANGED <<loop, prealloc, peak>>
    <2>1. /\ stage = "check"
          /\ UNCHANGED <<itv, specs, alignment, dest, offset, addr, peak>>
      BY <1>5 DEF check_result, problem, links
    <2>2. stage' = "done"
      BY <1>5, <2>1, PlacedByPushdown, CheckerPasses
    <2>3. /\ Promise!Compatible(HonouredSpecs)
          /\ Promise!Plan(addr, HonouredSpecs, tot_alloc)
          /\ \A p \in Promise!Specs : ~Promise!TooLate(p)
          /\ DOMAIN addr = Promise!Ids
      BY <2>1, PlacedByPushdown, PlanKept
    <2>4. Abstract!Compatible(HonouredSpecs)
      BY <2>3 DEF Promise!Compatible, Promise!Specs, Promise!InPlace,
                  Abstract!Compatible, Abstract!Specs, Abstract!InPlace
    <2>5. \A p \in Abstract!Specs : ~Abstract!TooLate(p)
      BY <2>3 DEF Promise!Specs, Promise!TooLate, Abstract!Specs, Abstract!TooLate
    <2>6. DOMAIN addr = Abstract!Ids
      BY <2>3 DEF Promise!Ids, Abstract!Ids
    <2>7. Abstract!Plan(addr, HonouredSpecs, tot_alloc)
      <3>1. \A i, j : Promise!Chained(HonouredSpecs, i, j) <=> Abstract!Chained(HonouredSpecs, i, j)
        BY DEF Promise!Chained, Abstract!Chained, Promise!Ids, Abstract!Ids
      <3> QED BY <2>3, <3>1
          DEF Promise!Plan, Promise!Ids, Promise!alignUp, Promise!Meet, Promise!Share, Promise!EndOf,
              Abstract!Plan, Abstract!Ids, Abstract!alignUp, Abstract!Meet, Abstract!Share,
              Abstract!EndOf
    <2>8. HonouredSpecs' = HonouredSpecs /\ tot_alloc' = tot_alloc /\ tot_alloc >= 0
      BY <2>1, PlacedByPushdown DEF HonouredSpecs, tot_alloc
    <2>9. /\ PlanStage = "open" /\ PlanStage' = "planned" /\ Ready'
      BY <2>1, <2>2 DEF PlanStage, Ready
    <2>10. Abstract!Solve
      BY <2>1, <2>4, <2>5, <2>6, <2>7, <2>8, <2>9 DEF Abstract!Solve
    <2> QED BY <2>10 DEF Abstract!Next
  <1>6. CASE UNCHANGED vars
    <2>1. UNCHANGED <<itv, specs, alignment, stage, dest, offset, addr, peak>>
      BY <1>6 DEF vars, problem, links
    <2> QED BY <2>1 DEF Abstract!vars, PlanStage, Ready, HonouredSpecs, tot_alloc
  <1> QED BY <1>2, <1>4, <1>5, <1>6 DEF Next, Stopped

(* Pushdown keeps the promise of an allocator: one step gives all          *)
(* intervals their addresses, a plan that the client can use.              *)
THEOREM PlanPromised ==
    ASSUME PositiveSizes, ForwardSpecs
    PROVE  Spec => ImplementsMemPlan
  <1>1. Init => Abstract!Init
    BY DEF Init, InitProblem, Abstract!Init, PlanStage, Ready
  <1>2. PInv /\ [Next]_vars => [Abstract!Next]_(Abstract!vars)
    BY StepRefines
  <1> QED BY <1>1, <1>2, NeverAborted, PTL DEF Spec, ImplementsMemPlan, Abstract!Spec
=============================================================================

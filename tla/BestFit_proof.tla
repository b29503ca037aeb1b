--------------------------- MODULE BestFit_proof ---------------------------
(***************************************************************************)
(* Theorems about BestFit, for every value of its constants: types, the    *)
(* simulated heap, and that intervals in use at the same time get disjoint *)
(* memory.  They assume what StaticMemAllocImpl leaves to the client:      *)
(* intervals are not empty, and specifications point forward (ForwardSpecs)*)
(* -- the runs show what happens otherwise.                                *)
(***************************************************************************)
EXTENDS BestFit, StaticMemAllocImpl_proof

-----------------------------------------------------------------------------
(* The simulated heap: cutting an allocation out of a free chunk, growing  *)
(* the heap and releasing a chunk keep it well-formed, and no assertion    *)
(* about its indices fails.                                                *)

Apart(c, d) == chunk_end(c) <= d.addr \/ chunk_end(d) <= c.addr
PChunk == [addr : Nat, size : Nat \ {0}]
All(h) == h.free \cup h.allocated

(* The heap: chunks are not empty, lie below top, are pairwise disjoint,   *)
(* cover every byte, and no two free ones touch.                           *)
WellFormed(h) ==
    /\ h \in [top : Nat, free : SUBSET PChunk, allocated : SUBSET PChunk]
    /\ \A c \in All(h) : chunk_end(c) <= h.top
    /\ h.free \cap h.allocated = {}
    /\ \A c, d \in All(h) : c # d => Apart(c, d)
    /\ \A a \in Nat : a < h.top => \E c \in All(h) : c.addr <= a /\ a < chunk_end(c)
    /\ \A c, d \in h.free : chunk_end(c) # d.addr

(* Free chunks that are disjoint never share a key of the size index.      *)
LEMMA DisjointKeysUnique ==
    ASSUME alignment \in Nat \ {0}, NEW F \in SUBSET PChunk,
           \A c, d \in F : c # d => Apart(c, d)
    PROVE  KeysUnique(F)
  <1> SUFFICES ASSUME NEW c \in F, NEW d \in F, c # d
               PROVE  /\ c.addr # d.addr
                      /\ Indexed(c) /\ Indexed(d) => IndexKey(c) # IndexKey(d)
    BY DEF KeysUnique
  <1>1. c \in PChunk /\ d \in PChunk /\ Apart(c, d)
    OBVIOUS
  <1>2. c.addr # d.addr
    BY <1>1 DEF PChunk, Apart, chunk_end
  <1>3. align(c.addr) >= c.addr /\ align(d.addr) >= d.addr
        /\ align(c.addr) \in Nat /\ align(d.addr) \in Nat
    BY <1>1, AlignUp DEF PChunk
  <1>4. Indexed(c) /\ Indexed(d) => align(c.addr) # align(d.addr)
    BY <1>1, <1>3 DEF PChunk, Apart, chunk_end, Indexed
  <1> QED BY <1>2, <1>4 DEF IndexKey

(* Cutting an allocation out of a free chunk keeps the heap well-formed.   *)
LEMMA CutWellFormed ==
    ASSUME alignment \in Nat \ {0},
           NEW h, WellFormed(h), NEW c \in h.free, NEW a \in Nat, NEW s \in Nat \ {0},
           c.addr <= a, a + s <= chunk_end(c)
    PROVE  /\ WellFormed(Cut(h, c, a, s))
           /\ Cut(h, c, a, s).allocated = h.allocated \cup {chunk(a, s)}
           /\ \A d \in h.allocated : Apart(d, chunk(a, s))
           /\ CutOk(h, c, a, s)
  <1> DEFINE g == Cut(h, c, a, s)
             left == chunk(c.addr, a - c.addr)
             right == chunk(a + s, chunk_end(c) - (a + s))
             mid == chunk(a, s)
  <1>1. /\ c \in PChunk /\ h.top \in Nat
        /\ h.free \subseteq PChunk /\ h.allocated \subseteq PChunk
    BY DEF WellFormed
  <1>2. \A d \in All(h) : d # c => d \in PChunk /\ Apart(c, d)
    BY <1>1 DEF WellFormed, All
  <1>3. /\ left.addr = c.addr /\ left.size = a - c.addr /\ left.size \in Nat
        /\ right.addr = a + s /\ right.size = c.addr + c.size - (a + s) /\ right.size \in Nat
        /\ mid.addr = a /\ mid.size = s /\ mid \in PChunk
        /\ left.addr \in Nat /\ right.addr \in Nat
    BY <1>1 DEF chunk, chunk_end, PChunk
  <1>4. NonEmpty(Split(c, a, s)) \subseteq PChunk
    BY <1>3 DEF NonEmpty, Split, PChunk, chunk
  <1>5. {d \in h.allocated : d.addr # a} = h.allocated
    <2>1. ASSUME NEW d \in h.allocated PROVE d.addr # a
      BY <1>1, <1>2 DEF All, Apart, chunk_end, PChunk, WellFormed
    <2> QED BY <2>1
  <1>6. /\ g.top = h.top
        /\ g.free = (h.free \ {c}) \cup NonEmpty({left, right})
        /\ g.allocated = h.allocated \cup {mid}
        /\ g \in [top : Nat, free : SUBSET PChunk, allocated : SUBSET PChunk]
    <2>1. g = [top |-> h.top, free |-> (h.free \ {c}) \cup NonEmpty({left, right}),
               allocated |-> h.allocated \cup {mid}]
      BY <1>5 DEF Cut, insert_free, set_allocated, Split
    <2>2. NonEmpty({left, right}) \subseteq PChunk
      BY <1>4 DEF Split
    <2>3. (h.free \ {c}) \cup NonEmpty({left, right}) \in SUBSET PChunk
      BY <2>2, <1>1
    <2>4. h.allocated \cup {mid} \in SUBSET PChunk
      BY <1>1, <1>3
    <2> HIDE DEF g, left, right, mid
    <2> QED BY <2>1, <2>3, <2>4, <1>1
  <1>7. ASSUME NEW d \in All(h), d # c
        PROVE  /\ d \in PChunk
               /\ Apart(d, mid) /\ d # mid
               /\ left.size # 0 => Apart(d, left) /\ d # left
               /\ right.size # 0 => Apart(d, right) /\ d # right
    <2>1. d \in PChunk /\ Apart(c, d)
      BY <1>2, <1>7
    <2> QED BY <2>1, <1>1, <1>3 DEF Apart, chunk_end, PChunk
  <1>8. /\ Apart(left, mid) /\ Apart(mid, left) /\ Apart(mid, right) /\ Apart(right, mid)
        /\ Apart(left, right) /\ Apart(right, left)
        /\ left.size # 0 => left # right /\ left # mid
        /\ right # mid
    BY <1>1, <1>3 DEF Apart, chunk_end, PChunk
  <1>9. \A d, e \in All(g) : d # e => Apart(d, e)
    <2> SUFFICES ASSUME NEW d \in All(g), NEW e \in All(g), d # e PROVE Apart(d, e)
      OBVIOUS
    <2> DEFINE Piece(f) == f = mid \/ (f = left /\ left.size # 0) \/ (f = right /\ right.size # 0)
    <2>1. ASSUME NEW f \in All(g) PROVE (f \in All(h) /\ f # c) \/ Piece(f)
      <3>1. h.free \cap h.allocated = {}
        BY DEF WellFormed
      <3> QED BY <3>1, <1>6 DEF All, NonEmpty
    <2>2. CASE d \in All(h) /\ d # c /\ e \in All(h) /\ e # c
      BY <2>2 DEF WellFormed
    <2>3. CASE ~(d \in All(h) /\ d # c) /\ ~(e \in All(h) /\ e # c)
      BY <2>1, <2>3, <1>8
    <2>4. CASE d \in All(h) /\ d # c /\ ~(e \in All(h) /\ e # c)
      BY <2>1, <2>4, <1>7
    <2>5. CASE ~(d \in All(h) /\ d # c) /\ e \in All(h) /\ e # c
      BY <2>1, <2>5, <1>7 DEF Apart
    <2> QED BY <2>2, <2>3, <2>4, <2>5
  <1>10. \A d \in All(g) : chunk_end(d) <= g.top
    <2>1. chunk_end(c) <= h.top
      BY DEF WellFormed, All
    <2> QED BY <2>1, <1>1, <1>3, <1>6 DEF All, NonEmpty, WellFormed, chunk_end, PChunk
  <1>11. g.free \cap g.allocated = {}
    <2>1. h.free \cap h.allocated = {}
      BY DEF WellFormed
    <2>2. mid \notin g.free
      BY <1>6, <1>7, <1>8, <1>3 DEF NonEmpty, All
    <2>3. ASSUME NEW d \in h.allocated PROVE d \notin g.free
      BY <2>1, <1>6, <1>7, <1>3 DEF NonEmpty, All
    <2> QED BY <2>2, <2>3, <1>6
  <1>12. ASSUME NEW x \in Nat, x < g.top
         PROVE  \E d \in All(g) : d.addr <= x /\ x < chunk_end(d)
    <2>1. PICK d \in All(h) : d.addr <= x /\ x < chunk_end(d)
      BY <1>6, <1>12 DEF WellFormed
    <2>2. CASE d # c
      BY <2>1, <2>2, <1>6 DEF All
    <2>3. CASE d = c
      <3>1. \/ left.addr <= x /\ x < chunk_end(left)
            \/ mid.addr <= x /\ x < chunk_end(mid)
            \/ right.addr <= x /\ x < chunk_end(right)
        BY <2>1, <2>3, <1>1, <1>3 DEF chunk_end, PChunk
      <3>2. /\ left.size # 0 => left \in All(g)
            /\ right.size # 0 => right \in All(g)
            /\ mid \in All(g)
        BY <1>6 DEF All, NonEmpty
      <3>3. ~(right.addr <= x /\ x < chunk_end(right)) \/ right.size # 0
        BY <1>3 DEF chunk_end
      <3>4. ~(left.addr <= x /\ x < chunk_end(left)) \/ left.size # 0
        BY <1>3 DEF chunk_end
      <3> HIDE DEF g, left, right, mid
      <3> QED BY <3>1, <3>2, <3>3, <3>4
    <2> QED BY <2>2, <2>3
  <1>13. \A d, e \in g.free : chunk_end(d) # e.addr
    <2> SUFFICES ASSUME NEW d \in g.free, NEW e \in g.free, chunk_end(d) = e.addr PROVE FALSE
      OBVIOUS
    <2> DEFINE Piece(f) == (f = left /\ left.size # 0) \/ (f = right /\ right.size # 0)
    <2>1. ASSUME NEW f \in g.free PROVE (f \in h.free /\ f # c) \/ Piece(f)
      BY <1>6 DEF NonEmpty
    <2>2. \A f \in h.free : chunk_end(f) # c.addr /\ chunk_end(c) # f.addr
      BY DEF WellFormed
    <2>3. \A f \in h.free : f # c => f \in PChunk /\ Apart(c, f)
      BY <1>2 DEF All
    <2>4. CASE d \in h.free /\ d # c /\ e \in h.free /\ e # c
      BY <2>4 DEF WellFormed
    <2>5. CASE d \in h.free /\ d # c /\ ~(e \in h.free /\ e # c)
      BY <2>1, <2>2, <2>3, <2>5, <1>1, <1>3 DEF chunk_end, Apart, PChunk
    <2>6. CASE ~(d \in h.free /\ d # c) /\ e \in h.free /\ e # c
      BY <2>1, <2>2, <2>3, <2>6, <1>1, <1>3 DEF chunk_end, Apart, PChunk
    <2>7. CASE ~(d \in h.free /\ d # c) /\ ~(e \in h.free /\ e # c)
      <3>1. Piece(d) /\ Piece(e)
        BY <2>1, <2>7
      <3>2. left.addr + left.size = a /\ right.addr + right.size = c.addr + c.size
        BY <1>1, <1>3 DEF PChunk
      <3> HIDE DEF g, left, right, mid
      <3> QED BY <3>1, <3>2, <1>1, <1>3 DEF chunk_end, PChunk
    <2> QED BY <2>4, <2>5, <2>6, <2>7
  <1>14. CutOk(h, c, a, s)
    <2>1. NonEmpty(Split(c, a, s)) \cap (h.free \ {c}) = {}
      BY <1>7 DEF NonEmpty, Split, All
    <2>2. (h.free \ {c}) \cup NonEmpty(Split(c, a, s)) = g.free
      BY <1>6 DEF Split
    <2>3. KeysUnique(g.free)
      BY DisjointKeysUnique, <1>6, <1>9 DEF All
    <2> QED BY <2>1, <2>2, <2>3 DEF CutOk, InsertOk, insert_free
  <1>15. \A d \in h.allocated : Apart(d, mid)
    BY <1>7 DEF All, WellFormed
  <1> QED
    BY <1>6, <1>9, <1>10, <1>11, <1>12, <1>13, <1>14, <1>15 DEF WellFormed

(* Taking an allocation from above m_top keeps the heap well-formed.       *)
LEMMA GrownWellFormed ==
    ASSUME alignment \in Nat \ {0}, NEW h, WellFormed(h), NEW s \in Nat \ {0}
    PROVE  /\ WellFormed(Grown(h, s))
           /\ Grown(h, s).allocated = h.allocated \cup {chunk(h.top, s)}
           /\ \A d \in h.allocated : Apart(d, chunk(h.top, s))
           /\ InsertOk(h.free, AtTop(h, s))
  <1> DEFINE g == Grown(h, s)
             e == h.top + s
             mid == chunk(h.top, s)
             pad == chunk(e, align(e) - e)
  <1>1. h.top \in Nat /\ h.free \subseteq PChunk /\ h.allocated \subseteq PChunk
    BY DEF WellFormed
  <1>2. e \in Nat /\ align(e) \in Nat /\ align(e) >= e
    BY <1>1, AlignUp
  <1>3. /\ mid.addr = h.top /\ mid.size = s /\ mid \in PChunk
        /\ pad.addr = e /\ pad.size = align(e) - e /\ pad.size \in Nat
        /\ pad.size # 0 => pad \in PChunk
    BY <1>1, <1>2 DEF chunk, PChunk
  <1>4. \A d \in All(h) : d \in PChunk /\ chunk_end(d) <= h.top
    BY <1>1 DEF WellFormed, All
  <1>5. {d \in h.allocated : d.addr # h.top} = h.allocated
    BY <1>1, <1>4 DEF All, chunk_end, PChunk
  <1>6. /\ g.top = align(e)
        /\ g.free = h.free \cup NonEmpty({pad})
        /\ g.allocated = h.allocated \cup {mid}
        /\ g \in [top : Nat, free : SUBSET PChunk, allocated : SUBSET PChunk]
    <2>1. g = [top |-> align(e), free |-> h.free \cup NonEmpty({pad}),
               allocated |-> h.allocated \cup {mid}]
      BY <1>5 DEF Grown, insert_free, set_allocated, AtTop
    <2>2. NonEmpty({pad}) \subseteq PChunk
      BY <1>3 DEF NonEmpty
    <2>3. h.free \cup NonEmpty({pad}) \in SUBSET PChunk
      BY <2>2, <1>1
    <2>4. h.allocated \cup {mid} \in SUBSET PChunk
      BY <1>1, <1>3
    <2> HIDE DEF g, e, pad, mid
    <2> QED BY <2>1, <2>3, <2>4, <1>2
  <1>7. ASSUME NEW d \in All(h)
        PROVE  /\ Apart(d, mid) /\ Apart(mid, d) /\ d # mid
               /\ Apart(d, pad) /\ Apart(pad, d) /\ d # pad
               /\ chunk_end(d) # pad.addr
    BY <1>1, <1>3, <1>4 DEF Apart, chunk_end, PChunk
  <1>8. Apart(mid, pad) /\ Apart(pad, mid) /\ mid # pad
    BY <1>1, <1>3 DEF Apart, chunk_end
  <1>9. ASSUME NEW d \in All(g)
        PROVE  d \in All(h) \/ d = mid \/ (d = pad /\ pad.size # 0)
    BY <1>6 DEF All, NonEmpty
  <1>10. \A c, d \in All(g) : c # d => Apart(c, d)
    BY <1>7, <1>8, <1>9 DEF WellFormed
  <1>11. \A d \in All(g) : chunk_end(d) <= g.top
    BY <1>1, <1>2, <1>3, <1>4, <1>6, <1>9 DEF chunk_end, PChunk
  <1>12. g.free \cap g.allocated = {}
    <2>1. mid \notin g.free
      BY <1>6, <1>7, <1>8 DEF NonEmpty, All
    <2>2. ASSUME NEW d \in h.allocated PROVE d \notin g.free
      BY <1>6, <1>7 DEF NonEmpty, All, WellFormed
    <2> QED BY <2>1, <2>2, <1>6
  <1>13. ASSUME NEW x \in Nat, x < g.top
         PROVE  \E d \in All(g) : d.addr <= x /\ x < chunk_end(d)
    <2>1. mid \in All(g) /\ (pad.size # 0 => pad \in All(g))
      BY <1>6 DEF All, NonEmpty
    <2>2. CASE x < h.top
      BY <2>2, <1>6 DEF WellFormed, All
    <2>3. CASE h.top <= x /\ x < e
      BY <2>1, <2>3, <1>1, <1>3 DEF chunk_end
    <2>4. CASE e <= x
      BY <2>1, <2>4, <1>13, <1>1, <1>2, <1>3, <1>6 DEF chunk_end
    <2> QED BY <2>2, <2>3, <2>4, <1>1, <1>2
  <1>14. \A c, d \in g.free : chunk_end(c) # d.addr
    <2>1. \A d \in g.free : d \in h.free \/ (d = pad /\ pad.size # 0)
      BY <1>6 DEF NonEmpty
    <2>2. \A d \in h.free : chunk_end(pad) # d.addr /\ chunk_end(d) # pad.addr
      <3> HIDE DEF g, e, pad, mid
      <3> SUFFICES ASSUME NEW d \in h.free
                   PROVE  chunk_end(pad) # d.addr /\ chunk_end(d) # pad.addr
        OBVIOUS
      <3>1. d \in PChunk /\ chunk_end(d) <= h.top
        BY <1>4 DEF All
      <3>2. e > h.top
        BY <1>1 DEF e
      <3> QED BY <3>1, <3>2, <1>1, <1>2, <1>3 DEF chunk_end, PChunk
    <2>3. pad.size # 0 => chunk_end(pad) # pad.addr
      BY <1>2, <1>3 DEF chunk_end
    <2> QED BY <2>1, <2>2, <2>3 DEF WellFormed
  <1>15. InsertOk(h.free, AtTop(h, s))
    <2>1. NonEmpty(AtTop(h, s)) \cap h.free = {}
      BY <1>7 DEF NonEmpty, AtTop, All
    <2>2. h.free \cup NonEmpty(AtTop(h, s)) = g.free
      BY <1>6 DEF AtTop
    <2>3. KeysUnique(g.free)
      BY DisjointKeysUnique, <1>6, <1>10 DEF All
    <2> QED BY <2>1, <2>2, <2>3 DEF InsertOk, insert_free
  <1>16. \A d \in h.allocated : Apart(d, mid)
    BY <1>7 DEF All
  <1> QED
    BY <1>6, <1>10, <1>11, <1>12, <1>13, <1>14, <1>15, <1>16 DEF WellFormed

(* The free neighbours of an allocated chunk are the free chunks that touch *)
(* it; what it merges to spans them.                                       *)
LEMMA MergedChunk ==
    ASSUME NEW h, WellFormed(h), NEW c \in h.allocated
    PROVE  \E lo, hi \in Nat :
             /\ Merged(h, c) = {chunk(lo, hi - lo)}
             /\ lo <= c.addr /\ chunk_end(c) <= hi /\ hi <= h.top
             /\ \/ Before(h, c) = {} /\ lo = c.addr
                \/ \E p \in h.free : Before(h, c) = {p} /\ lo = p.addr /\ chunk_end(p) = c.addr
             /\ \/ After(h, c) = {} /\ hi = chunk_end(c)
                \/ \E n \in h.free : After(h, c) = {n} /\ n.addr = chunk_end(c) /\ hi = chunk_end(n)
             /\ \A f \in h.free : chunk_end(f) = c.addr => f \in Before(h, c)
             /\ \A f \in h.free : f.addr = chunk_end(c) => f \in After(h, c)
  <1>1. /\ c \in PChunk /\ h.top \in Nat /\ h.free \subseteq PChunk
        /\ chunk_end(c) \in Nat /\ chunk_end(c) <= h.top /\ c.addr \in Nat /\ c.addr < chunk_end(c)
    BY DEF WellFormed, All, PChunk, chunk_end
  <1>2. ASSUME NEW f \in h.free
        PROVE  /\ f.addr \in Nat /\ chunk_end(f) \in Nat /\ f.addr < chunk_end(f)
               /\ chunk_end(f) <= h.top
               /\ chunk_end(f) <= c.addr \/ chunk_end(c) <= f.addr
    <2>1. f \in PChunk /\ f # c /\ f \in All(h) /\ c \in All(h)
      BY <1>1 DEF WellFormed, All
    <2>2. Apart(f, c) /\ chunk_end(f) <= h.top
      BY <2>1 DEF WellFormed
    <2> QED BY <2>1, <2>2 DEF Apart, PChunk, chunk_end
  <1>3. ASSUME NEW f \in h.free, NEW q \in h.free, f # q
        PROVE  chunk_end(f) <= q.addr \/ chunk_end(q) <= f.addr
    BY <1>3 DEF WellFormed, All, Apart
  <1>4. Before(h, c) = {p \in h.free : chunk_end(p) = c.addr}
    <2>1. ASSUME NEW p \in h.free, chunk_end(p) = c.addr, NEW q \in h.free, q.addr < c.addr
          PROVE  q.addr <= p.addr
      BY <2>1, <1>1, <1>2, <1>3
    <2> QED BY <2>1, <1>1, <1>2 DEF Before
  <1>5. After(h, c) = {n \in h.free : n.addr = chunk_end(c)}
    <2>1. ASSUME NEW n \in h.free, n.addr = chunk_end(c), NEW q \in h.free, q.addr >= c.addr
          PROVE  n.addr <= q.addr
      BY <2>1, <1>1, <1>2
    <2> QED BY <2>1, <1>1, <1>2 DEF After
  <1> DEFINE Lowest(lo) ==
             /\ lo <= c.addr
             /\ {x \in {p.addr : p \in Before(h, c)} \cup {c.addr} :
                    \A y \in {p.addr : p \in Before(h, c)} \cup {c.addr} : x <= y} = {lo}
             /\ \/ Before(h, c) = {} /\ lo = c.addr
                \/ \E p \in h.free : Before(h, c) = {p} /\ lo = p.addr /\ chunk_end(p) = c.addr
  <1>6. \E lo \in Nat : Lowest(lo)
    <2>1. CASE Before(h, c) = {}
      <3>1. {p.addr : p \in Before(h, c)} \cup {c.addr} = {c.addr}
        BY <2>1
      <3>2. {x \in {c.addr} : \A y \in {c.addr} : x <= y} = {c.addr}
        BY <1>1
      <3>3. c.addr <= c.addr
        BY <1>1
      <3> QED BY <2>1, <3>1, <3>2, <3>3, <1>1
    <2>2. ASSUME NEW p \in Before(h, c)
          PROVE  \E lo \in Nat : Lowest(lo)
      <3>1. p \in h.free /\ chunk_end(p) = c.addr
        BY <1>4
      <3>2. Before(h, c) = {p}
        BY <1>1, <1>2, <1>3, <1>4
      <3>3. p.addr \in Nat /\ p.addr < c.addr
        BY <3>1, <1>2
      <3>4. {x.addr : x \in Before(h, c)} \cup {c.addr} = {p.addr, c.addr}
        BY <3>2
      <3>5. {x \in {p.addr, c.addr} : \A y \in {p.addr, c.addr} : x <= y} = {p.addr}
        BY <3>3, <1>1
      <3> QED BY <3>1, <3>2, <3>3, <3>4, <3>5, <1>1
    <2> QED BY <2>1, <2>2
  <1> DEFINE Highest(hi) ==
             /\ chunk_end(c) <= hi /\ hi <= h.top
             /\ {x \in {chunk_end(n) : n \in After(h, c)} \cup {chunk_end(c)} :
                    \A y \in {chunk_end(n) : n \in After(h, c)} \cup {chunk_end(c)} : x >= y} = {hi}
             /\ \/ After(h, c) = {} /\ hi = chunk_end(c)
                \/ \E n \in h.free : After(h, c) = {n} /\ n.addr = chunk_end(c) /\ hi = chunk_end(n)
  <1>7. \E hi \in Nat : Highest(hi)
    <2>1. CASE After(h, c) = {}
      <3>1. {chunk_end(n) : n \in After(h, c)} \cup {chunk_end(c)} = {chunk_end(c)}
        BY <2>1
      <3>2. {x \in {chunk_end(c)} : \A y \in {chunk_end(c)} : x >= y} = {chunk_end(c)}
        BY <1>1
      <3>3. chunk_end(c) <= chunk_end(c)
        BY <1>1
      <3> QED BY <2>1, <3>1, <3>2, <3>3, <1>1
    <2>2. ASSUME NEW n \in After(h, c)
          PROVE  \E hi \in Nat : Highest(hi)
      <3>1. n \in h.free /\ n.addr = chunk_end(c)
        BY <1>5
      <3>2. After(h, c) = {n}
        BY <1>1, <1>2, <1>3, <1>5
      <3>3. chunk_end(n) \in Nat /\ chunk_end(n) > chunk_end(c) /\ chunk_end(n) <= h.top
        BY <3>1, <1>1, <1>2
      <3>4. {chunk_end(x) : x \in After(h, c)} \cup {chunk_end(c)} = {chunk_end(n), chunk_end(c)}
        BY <3>2
      <3>5. {x \in {chunk_end(n), chunk_end(c)} : \A y \in {chunk_end(n), chunk_end(c)} : x >= y}
                = {chunk_end(n)}
        BY <3>3, <1>1
      <3> QED BY <3>1, <3>2, <3>3, <3>4, <3>5, <1>1
    <2> QED BY <2>1, <2>2
  <1>8. PICK lo \in Nat, hi \in Nat : Lowest(lo) /\ Highest(hi)
    BY <1>6, <1>7
  <1>9. Merged(h, c) = {chunk(lo, hi - lo)}
    BY <1>8 DEF Merged
  <1> QED BY <1>4, <1>5, <1>8, <1>9

(* Freeing an allocated chunk keeps the heap well-formed, and some free    *)
(* chunk contains what was freed.                                          *)
LEMMA ReleasedWellFormed ==
    ASSUME alignment \in Nat \ {0}, NEW h, WellFormed(h), NEW c \in h.allocated
    PROVE  /\ WellFormed(Released(h, c))
           /\ Released(h, c).allocated = h.allocated \ {c}
           /\ ReleaseOk(h, c)
           /\ \E m \in Released(h, c).free : m.addr <= c.addr /\ chunk_end(c) <= chunk_end(m)
  <1> DEFINE g == Released(h, c)
             B == Before(h, c)
             A == After(h, c)
  <1>1. PICK lo \in Nat, hi \in Nat :
             /\ Merged(h, c) = {chunk(lo, hi - lo)}
             /\ lo <= c.addr /\ chunk_end(c) <= hi /\ hi <= h.top
             /\ \/ B = {} /\ lo = c.addr
                \/ \E p \in h.free : B = {p} /\ lo = p.addr /\ chunk_end(p) = c.addr
             /\ \/ A = {} /\ hi = chunk_end(c)
                \/ \E n \in h.free : A = {n} /\ n.addr = chunk_end(c) /\ hi = chunk_end(n)
             /\ \A f \in h.free : chunk_end(f) = c.addr => f \in B
             /\ \A f \in h.free : f.addr = chunk_end(c) => f \in A
    BY MergedChunk
  <1> DEFINE m == chunk(lo, hi - lo)
  <1> HIDE DEF B, A
  <1>2. /\ c \in PChunk /\ h.top \in Nat /\ h.free \subseteq PChunk /\ h.allocated \subseteq PChunk
        /\ c.addr \in Nat /\ chunk_end(c) \in Nat /\ c.addr < chunk_end(c)
    BY DEF WellFormed, PChunk, chunk_end
  <1>3. m.addr = lo /\ m.size = hi - lo /\ m \in PChunk /\ chunk_end(m) = hi /\ lo < hi
    BY <1>1, <1>2 DEF chunk, PChunk, chunk_end
  <1>4. /\ g.top = h.top
        /\ g.free = (h.free \ (B \cup A)) \cup {m}
        /\ g.allocated = h.allocated \ {c}
        /\ g \in [top : Nat, free : SUBSET PChunk, allocated : SUBSET PChunk]
    <2>1. NonEmpty({m}) = {m}
      BY <1>3 DEF NonEmpty
    <2>2. g = [top |-> h.top, free |-> (h.free \ (B \cup A)) \cup {m},
               allocated |-> h.allocated \ {c}]
      BY <2>1, <1>1 DEF Released, insert_free, Unmerged, B, A
    <2>3. (h.free \ (B \cup A)) \cup {m} \in SUBSET PChunk
      BY <1>2, <1>3
    <2>4. h.allocated \ {c} \in SUBSET PChunk
      BY <1>2
    <2> HIDE DEF g, m
    <2> QED BY <2>2, <2>3, <2>4, <1>2
  <1>5. ASSUME NEW f \in All(h)
        PROVE  /\ f \in PChunk /\ f.addr \in Nat /\ chunk_end(f) \in Nat /\ f.addr < chunk_end(f)
               /\ chunk_end(f) <= h.top
    BY <1>2 DEF WellFormed, All, PChunk, chunk_end
  <1>6. \A f, q \in All(h) : f # q => chunk_end(f) <= q.addr \/ chunk_end(q) <= f.addr
    BY DEF WellFormed, Apart
  <1>7. c \in All(h) /\ c \notin h.free
    BY DEF All, WellFormed
  <1> HIDE DEF m, g
  <1>8. ASSUME NEW f \in All(h), f # c, f \notin B, f \notin A
        PROVE  chunk_end(f) <= lo \/ hi <= f.addr
    <2>1. chunk_end(f) <= c.addr \/ chunk_end(c) <= f.addr
      BY <1>6, <1>7, <1>8
    <2>2. CASE chunk_end(f) <= c.addr
      <3>1. CASE B = {} /\ lo = c.addr
        BY <2>2, <3>1
      <3>2. ASSUME NEW p \in h.free, B = {p}, lo = p.addr, chunk_end(p) = c.addr
            PROVE  chunk_end(f) <= lo
        <4>1. f # p /\ p \in All(h)
          BY <3>2, <1>8 DEF All
        <4>2. chunk_end(f) <= p.addr \/ chunk_end(p) <= f.addr
          BY <4>1, <1>6
        <4> QED BY <4>2, <2>2, <3>2, <1>5, <4>1
      <3> QED BY <3>1, <3>2, <1>1
    <2>3. CASE chunk_end(c) <= f.addr
      <3>1. CASE A = {} /\ hi = chunk_end(c)
        BY <2>3, <3>1
      <3>2. ASSUME NEW n \in h.free, A = {n}, n.addr = chunk_end(c), hi = chunk_end(n)
            PROVE  hi <= f.addr
        <4>1. f # n /\ n \in All(h)
          BY <3>2, <1>8 DEF All
        <4>2. chunk_end(f) <= n.addr \/ chunk_end(n) <= f.addr
          BY <4>1, <1>6
        <4> QED BY <4>2, <2>3, <3>2, <1>5, <4>1
      <3> QED BY <3>1, <3>2, <1>1
    <2> QED BY <2>1, <2>2, <2>3
  <1>9. ASSUME NEW f \in h.free, f \notin B, f \notin A
        PROVE  chunk_end(f) # lo /\ f.addr # hi
    <2>1. \A p \in h.free : chunk_end(f) # p.addr /\ chunk_end(p) # f.addr
      BY DEF WellFormed
    <2>2. chunk_end(f) # c.addr /\ f.addr # chunk_end(c)
      BY <1>1, <1>9
    <2> QED BY <2>1, <2>2, <1>1
  <1>10. ASSUME NEW f \in All(g)
         PROVE  f = m \/ (f \in All(h) /\ f # c /\ f \notin B /\ f \notin A)
    <2>1. h.free \cap h.allocated = {} /\ B \subseteq h.free /\ A \subseteq h.free
      BY <1>1 DEF WellFormed
    <2> QED BY <2>1, <1>4, <1>7 DEF All
  <1>11. ASSUME NEW f \in All(h), f # c, f \notin B, f \notin A
         PROVE  f # m /\ Apart(f, m) /\ Apart(m, f)
    BY <1>3, <1>5, <1>8, <1>11 DEF Apart
  <1>12. \A f, q \in All(g) : f # q => Apart(f, q)
    BY <1>10, <1>11 DEF WellFormed
  <1>13. \A f \in All(g) : chunk_end(f) <= g.top
    BY <1>10, <1>1, <1>3, <1>4, <1>5
  <1>14. g.free \cap g.allocated = {}
    <2>1. B \subseteq h.free /\ A \subseteq h.free /\ h.free \cap h.allocated = {}
      BY <1>1 DEF WellFormed
    <2>2. ASSUME NEW f \in g.allocated PROVE f \notin g.free
      BY <2>1, <1>4, <1>11 DEF All
    <2> QED BY <2>2
  <1>15. ASSUME NEW x \in Nat, x < g.top
         PROVE  \E d \in All(g) : d.addr <= x /\ x < chunk_end(d)
    <2>1. PICK d \in All(h) : d.addr <= x /\ x < chunk_end(d)
      BY <1>4, <1>15 DEF WellFormed
    <2>2. m \in All(g)
      BY <1>4 DEF All
    <2>3. CASE d # c /\ d \notin B /\ d \notin A
      BY <2>1, <2>3, <1>4 DEF All
    <2>4. CASE d = c \/ d \in B \/ d \in A
      <3>1. lo <= d.addr /\ chunk_end(d) <= hi
        BY <2>4, <1>1, <1>2, <1>5
      <3>2. lo <= x /\ x < hi
        BY <3>1, <2>1, <1>5
      <3> QED BY <3>2, <2>2, <1>3
    <2> QED BY <2>3, <2>4
  <1>16. \A f, q \in g.free : chunk_end(f) # q.addr
    <2>1. \A f \in g.free : f = m \/ (f \in h.free /\ f \notin B /\ f \notin A)
      BY <1>4
    <2>2. chunk_end(m) # m.addr
      BY <1>3
    <2> QED BY <2>1, <2>2, <1>3, <1>9 DEF WellFormed
  <1>17. ReleaseOk(h, c)
    <2>1. Merged(h, c) = {m} /\ NonEmpty({m}) = {m} /\ Unmerged(h, c) = h.free \ (B \cup A)
      BY <1>1, <1>3 DEF NonEmpty, Unmerged, B, A, m
    <2>2. m \notin h.free \ (B \cup A)
      BY <1>7, <1>11 DEF All
    <2>3. KeysUnique(g.free)
      BY DisjointKeysUnique, <1>4, <1>12 DEF All
    <2> QED BY <2>1, <2>2, <2>3, <1>4 DEF ReleaseOk, InsertOk, insert_free
  <1>18. \E d \in g.free : d.addr <= c.addr /\ chunk_end(c) <= chunk_end(d)
    BY <1>1, <1>3, <1>4
  <1> QED
    BY <1>4, <1>12, <1>13, <1>14, <1>15, <1>16, <1>17, <1>18 DEF WellFormed, g

(* The free chunk that alloc_placement() finds is the one that contains    *)
(* the address it is given.                                                *)
LEMMA FreeBelowContains ==
    ASSUME NEW h, WellFormed(h), NEW m \in h.free, NEW a \in Nat,
           m.addr <= a, a < chunk_end(m)
    PROVE  FreeBelow(h, a) = {m}
  <1>1. ASSUME NEW f \in h.free, f.addr <= a, f # m PROVE f.addr < m.addr
    <2>1. f \in PChunk /\ m \in PChunk /\ Apart(f, m)
      BY <1>1 DEF WellFormed, All
    <2> QED BY <2>1, <1>1 DEF Apart, chunk_end, PChunk
  <1>2. \A f \in h.free : f.addr \in Nat
    BY DEF WellFormed, PChunk
  <1>3. m \in FreeBelow(h, a)
    BY <1>1, <1>2 DEF FreeBelow
  <1>4. ASSUME NEW f \in FreeBelow(h, a) PROVE f = m
    BY <1>1, <1>2, <1>4 DEF FreeBelow
  <1> QED BY <1>3, <1>4

(* A heap with nothing allocated is one free chunk.                        *)
LEMMA EmptyHeapIsOneChunk ==
    ASSUME NEW h, WellFormed(h), h.allocated = {}
    PROVE  h.free = NonEmpty({chunk(0, h.top)})
  <1>1. /\ h.top \in Nat /\ h.free \subseteq PChunk /\ All(h) = h.free
        /\ \A c \in h.free : chunk_end(c) <= h.top
    BY DEF WellFormed, All
  <1>2. CASE h.top = 0
    <2>1. h.free = {}
      BY <1>1, <1>2 DEF PChunk, chunk_end
    <2> QED BY <2>1, <1>2 DEF NonEmpty, chunk
  <1>3. CASE h.top # 0
    <2>1. PICK c \in h.free : c.addr <= 0 /\ 0 < chunk_end(c)
      BY <1>1, <1>3 DEF WellFormed
    <2>2. c.addr = 0 /\ c \in PChunk /\ chunk_end(c) \in Nat /\ chunk_end(c) <= h.top
      BY <2>1, <1>1 DEF PChunk, chunk_end
    <2>3. chunk_end(c) = h.top
      <3> SUFFICES ASSUME chunk_end(c) < h.top PROVE FALSE
        BY <2>2, <1>1
      <3>1. PICK d \in h.free : d.addr <= chunk_end(c) /\ chunk_end(c) < chunk_end(d)
        BY <1>1, <2>2 DEF WellFormed
      <3>2. d # c /\ d \in PChunk
        BY <3>1, <2>2, <1>1
      <3>3. Apart(c, d) /\ chunk_end(c) # d.addr
        BY <3>2, <1>1 DEF WellFormed
      <3> QED BY <3>1, <3>2, <3>3, <2>1, <2>2 DEF Apart, PChunk, chunk_end
    <2>4. ASSUME NEW d \in h.free PROVE d = c
      <3> SUFFICES ASSUME d # c PROVE FALSE
        OBVIOUS
      <3>1. d \in PChunk /\ chunk_end(d) <= h.top /\ Apart(c, d)
        BY <1>1 DEF WellFormed
      <3> QED BY <3>1, <2>2, <2>3 DEF Apart, PChunk, chunk_end
    <2>5. c = chunk(0, h.top)
      BY <2>2, <2>3, <1>1 DEF PChunk, chunk, chunk_end
    <2>6. NonEmpty({c}) = {c}
      BY <2>2 DEF NonEmpty, PChunk
    <2> QED BY <2>4, <2>5, <2>6
  <1> QED BY <1>2, <1>3

-----------------------------------------------------------------------------
(* Who holds which chunk                                                   *)

Placing == stage \in {"solve", "check", "done"}
ChunkOf(i) == chunk(addr[i], itv[i].size)

(* The heap knows the intervals that hold memory and nothing else; what has *)
(* an address keeps clear of all that it overlaps in time.                 *)
HoldersOK ==
    /\ \A i \in Ids : Begun(i) => addr[i] \in Nat
    /\ heap.allocated = {ChunkOf(i) : i \in Holders}
    /\ \A i, j \in Holders : i # j => Apart(ChunkOf(i), ChunkOf(j))
    /\ \A i \in Ids : dest[i] # Nil /\ Begun(i) =>
            Begun(dest[i]) /\ addr[i] = addr[dest[i]] + offset[i]
    /\ \A i, j \in Ids : Begun(i) /\ Begun(j) /\ time_overlap(i, j) /\ root[i] # root[j] =>
            Apart(ChunkOf(i), ChunkOf(j))

IInv ==
    /\ Prepared /\ TodoAddrOK /\ LoopOK
    /\ WellFormed(heap)
    /\ Placing => HoldersOK
    /\ stage \in {"build", "link", "root"} => heap.allocated = {}

(* Distinct holders have distinct chunks, so an address names one.         *)
LEMMA HolderChunk ==
    ASSUME Prepared, HoldersOK, NEW i \in Holders
    PROVE  /\ ChunksAt(heap, addr[i]) = {ChunkOf(i)}
           /\ heap.allocated \ {ChunkOf(i)} = {ChunkOf(j) : j \in Holders \ {i}}
           /\ ChunkOf(i) \in heap.allocated
  <1>1. \A j \in Holders : /\ addr[j] \in Nat /\ itv[j].size \in Nat /\ itv[j].size # 0
    BY TimesTyped DEF Holders, HoldersOK
  <1>2. \A j \in Holders : /\ ChunkOf(j).addr = addr[j] /\ ChunkOf(j).size = itv[j].size
                           /\ chunk_end(ChunkOf(j)) = addr[j] + itv[j].size
    BY DEF ChunkOf, chunk, chunk_end
  <1>3. \A j \in Holders : j # i => addr[j] # addr[i]
    <2> SUFFICES ASSUME NEW j \in Holders, j # i PROVE addr[j] # addr[i]
      OBVIOUS
    <2>1. Apart(ChunkOf(i), ChunkOf(j))
      BY DEF HoldersOK
    <2> QED BY <2>1, <1>1, <1>2 DEF Apart
  <1>4. \A j \in Holders : j # i => ChunkOf(j) # ChunkOf(i)
    BY <1>2, <1>3
  <1>5. heap.allocated = {ChunkOf(j) : j \in Holders}
    BY DEF HoldersOK
  <1>6. ChunksAt(heap, addr[i]) = {ChunkOf(i)}
    BY <1>2, <1>3, <1>5 DEF ChunksAt
  <1> QED BY <1>4, <1>5, <1>6

(* What HoldersOK becomes when interval i begins and gets address a, and   *)
(* the intervals of gone no longer hold memory.                            *)
LEMMA BeginKeepsHoldersOK ==
    ASSUME Prepared, HoldersOK, stage = "solve",
           NEW i \in Ids, NEW a \in Nat, NEW gone \in SUBSET Holders,
           UNCHANGED <<problem, links>>, addr' = [addr EXCEPT ![i] = a],
           TodoAddrOK, ~Begun(i),
           \A j \in Ids : Begun(j)' <=> Begun(j) \/ j = i,
           Holders' = (Holders \ gone) \cup {i},
           heap.allocated' = {ChunkOf(j) : j \in Holders \ gone} \cup {chunk(a, itv[i].size)},
           \A j \in Holders \ gone : Apart(ChunkOf(j), chunk(a, itv[i].size)),
           dest[i] # Nil => Begun(dest[i]) /\ a = addr[dest[i]] + offset[i],
           \A j \in Ids : Begun(j) /\ time_overlap(i, j) /\ root[i] # root[j] =>
                Apart(ChunkOf(j), chunk(a, itv[i].size))
    PROVE  HoldersOK'
  <1>1. /\ UNCHANGED <<itv, dest, root, offset, src>> /\ Ids' = Ids
        /\ addr \in [Ids -> Nat \cup {INVALID}]
        /\ dest \in [Ids -> Ids \cup {Nil}]
    BY DEF problem, links, Ids, TodoAddrOK, Prepared, LinksOK
  <1>2. addr'[i] = a /\ \A j \in Ids : j # i => addr'[j] = addr[j]
    BY <1>1
  <1>3. ChunkOf(i)' = chunk(a, itv[i].size)
    BY <1>1, <1>2 DEF ChunkOf
  <1>4. \A j \in Ids : j # i => (ChunkOf(j))' = ChunkOf(j)
    BY <1>1, <1>2 DEF ChunkOf
  <1>5. i \notin Holders /\ Holders \subseteq Ids
    BY DEF Holders
  <1>6. heap.allocated' = {ChunkOf(j)' : j \in Holders'}
    <2>1. {ChunkOf(j)' : j \in Holders \ gone} = {ChunkOf(j) : j \in Holders \ gone}
      BY <1>4, <1>5
    <2> QED BY <2>1, <1>3
  <1>7. \A c, d : Apart(c, d) <=> Apart(d, c)
    BY DEF Apart
  <1>8. \A j, k \in Holders' : j # k => Apart(ChunkOf(j)', ChunkOf(k)')
    <2> SUFFICES ASSUME NEW j \in Holders', NEW k \in Holders', j # k
                 PROVE  Apart(ChunkOf(j)', ChunkOf(k)')
      OBVIOUS
    <2>1. CASE j = i
      BY <2>1, <1>3, <1>4, <1>5, <1>7
    <2>2. CASE k = i
      BY <2>2, <1>3, <1>4, <1>5
    <2>3. CASE j # i /\ k # i
      BY <2>3, <1>4, <1>5 DEF HoldersOK
    <2> QED BY <2>1, <2>2, <2>3
  <1>9. \A j \in Ids : (dest[j] # Nil /\ Begun(j)') =>
            Begun(dest[j])' /\ addr'[j] = addr'[dest[j]] + offset[j]
    <2> SUFFICES ASSUME NEW j \in Ids, dest[j] # Nil, Begun(j)'
                 PROVE  Begun(dest[j])' /\ addr'[j] = addr'[dest[j]] + offset[j]
      OBVIOUS
    <2>1. dest[j] \in Ids
      BY <1>1
    <2>2. Begun(dest[j]) /\ (IF j = i THEN a ELSE addr[j]) = addr[dest[j]] + offset[j]
      BY DEF HoldersOK
    <2>3. dest[j] # i
      BY <2>2
    <2> QED BY <2>1, <2>2, <2>3, <1>1, <1>2
  <1>10. \A j, k \in Ids : (Begun(j)' /\ Begun(k)' /\ time_overlap(j, k) /\ root[j] # root[k]) =>
            Apart(ChunkOf(j)', ChunkOf(k)')
    <2> SUFFICES ASSUME NEW j \in Ids, NEW k \in Ids, Begun(j)', Begun(k)',
                        time_overlap(j, k), root[j] # root[k]
                 PROVE  Apart(ChunkOf(j)', ChunkOf(k)')
      OBVIOUS
    <2>1. j # k /\ time_overlap(k, j)
      BY DEF time_overlap
    <2>2. CASE j = i
      BY <2>1, <2>2, <1>3, <1>4, <1>7
    <2>3. CASE k = i
      BY <2>1, <2>3, <1>3, <1>4
    <2>4. CASE j # i /\ k # i
      BY <2>1, <2>4, <1>4 DEF HoldersOK
    <2> QED BY <2>2, <2>3, <2>4
  <1>11. \A j \in Ids : Begun(j)' => addr'[j] \in Nat
    BY <1>2 DEF HoldersOK
  <1> QED BY <1>1, <1>6, <1>8, <1>9, <1>10, <1>11 DEF HoldersOK, time_overlap

LEMMA AllocPreserves ==
    ASSUME IInv, NEW i \in Ids, alloc(i)
    PROVE  IInv' /\ stage' = "solve"
  <1> DEFINE s == itv[i].size
  <1>1. CallBack("alloc", i) /\ stage = "solve" /\ phase = "alloc"
        /\ UNCHANGED <<problem, links, loop>> /\ todo' \subseteq todo
    BY DEF alloc, CallBack
  <1>2. /\ Prepared /\ TodoAddrOK /\ LoopOK /\ WellFormed(heap) /\ HoldersOK
        /\ alignment \in Nat \ {0} /\ s \in Nat \ {0}
    BY <1>1, TimesTyped DEF IInv, Placing, Prepared, ProblemOK
  <1>3. \E a \in Nat :
            /\ stage' = stage
            /\ addr' = [addr EXCEPT ![i] = a]
            /\ WellFormed(heap')
            /\ heap'.allocated = heap.allocated \cup {chunk(a, s)}
            /\ \A d \in heap.allocated : Apart(d, chunk(a, s))
    <2>1. CASE Candidates(heap, s) = {}
      <3>1. heap' = Grown(heap, s) /\ addr' = [addr EXCEPT ![i] = heap.top]
            /\ CC_ASSERT(InsertOk(heap.free, AtTop(heap, s)))
        BY <2>1 DEF alloc
      <3>2. heap.top \in Nat
        BY <1>2 DEF WellFormed
      <3> QED BY <3>1, <3>2, <1>2, GrownWellFormed DEF CC_ASSERT
    <2>2. CASE Candidates(heap, s) # {}
      <3>1. PICK c \in heap.free :
                /\ IsBest(heap, c, s)
                /\ CC_ASSERT(CutOk(heap, c, align(c.addr), s))
                /\ heap' = Cut(heap, c, align(c.addr), s)
                /\ addr' = [addr EXCEPT ![i] = align(c.addr)]
        BY <2>2 DEF alloc
      <3>2. c \in PChunk
        BY <1>2 DEF WellFormed
      <3>3. align(c.addr) \in Nat /\ align(c.addr) >= c.addr
        BY <3>2, <1>2, AlignUp DEF PChunk
      <3>4. align(c.addr) + s <= chunk_end(c)
        BY <3>1, <3>2, <3>3, <1>2 DEF IsBest, Candidates, aligned_size, chunk_end, PChunk
      <3> DEFINE a == align(c.addr)
      <3>5. a \in Nat /\ c.addr <= a /\ a + s <= chunk_end(c)
        BY <3>2, <3>3, <3>4 DEF PChunk
      <3> HIDE DEF a, s
      <3>6. /\ WellFormed(Cut(heap, c, a, s))
            /\ Cut(heap, c, a, s).allocated = heap.allocated \cup {chunk(a, s)}
            /\ \A d \in heap.allocated : Apart(d, chunk(a, s))
            /\ CutOk(heap, c, a, s)
        BY <3>5, <1>2, CutWellFormed
      <3>7. /\ CC_ASSERT(CutOk(heap, c, a, s)) /\ heap' = Cut(heap, c, a, s)
            /\ addr' = [addr EXCEPT ![i] = a]
        BY <3>1 DEF a
      <3> QED BY <3>5, <3>6, <3>7 DEF CC_ASSERT
    <2> QED BY <2>1, <2>2
  <1>4. PICK a \in Nat :
            /\ stage' = stage
            /\ addr' = [addr EXCEPT ![i] = a]
            /\ WellFormed(heap')
            /\ heap'.allocated = heap.allocated \cup {chunk(a, s)}
            /\ \A d \in heap.allocated : Apart(d, chunk(a, s))
    BY <1>3
  <1>5. /\ LoopOK' /\ Holders' = Holders \cup {i}
        /\ dest[i] = Nil /\ itv[i].begin = now
        /\ ~Begun(i) /\ \A j \in Ids : Begun(j)' <=> Begun(j) \/ j = i
    BY <1>1, <1>2, <1>4, AllocCallBack
  <1>6. heap.allocated = {ChunkOf(j) : j \in Holders}
    BY <1>2 DEF HoldersOK
  <1>7. \A j \in Ids : Begun(j) /\ time_overlap(i, j) /\ root[i] # root[j] =>
            Apart(ChunkOf(j), chunk(a, s))
    BY <1>1, <1>2, <1>4, <1>5, <1>6, OverlappingHolds
  <1>8. HoldersOK'
    <2>1. \A j \in Holders \ {} : Apart(ChunkOf(j), chunk(a, itv[i].size))
      BY <1>4, <1>6
    <2>2. heap.allocated' = {ChunkOf(j) : j \in Holders \ {}} \cup {chunk(a, itv[i].size)}
      BY <1>4, <1>6
    <2>3. Holders' = (Holders \ {}) \cup {i}
      BY <1>5
    <2>4. \A j \in Ids : Begun(j) /\ time_overlap(i, j) /\ root[i] # root[j] =>
            Apart(ChunkOf(j), chunk(a, itv[i].size))
      BY <1>7
    <2>5. addr' = [addr EXCEPT ![i] = a] /\ a \in Nat
      BY <1>4
    <2>6. ~Begun(i) /\ \A j \in Ids : Begun(j)' <=> Begun(j) \/ j = i
      BY <1>5
    <2>7. dest[i] # Nil => Begun(dest[i]) /\ a = addr[dest[i]] + offset[i]
      BY <1>5
    <2>8. {} \in SUBSET Holders
      OBVIOUS
    <2> HIDE DEF IInv, s
    <2> QED BY <2>1, <2>2, <2>3, <2>4, <2>5, <2>6, <2>7, <2>8, <1>1, <1>2, BeginKeepsHoldersOK
  <1>9. Prepared' /\ TodoAddrOK'
    <2>1. Prepared'
      BY <1>1, <1>2, <1>4, PlacingPreserves
    <2>2. Ids' = Ids
      BY <1>1 DEF problem, Ids
    <2> QED BY <2>1, <2>2, <1>1, <1>2, <1>4 DEF TodoAddrOK
  <1> QED BY <1>1, <1>4, <1>5, <1>8, <1>9 DEF IInv

LEMMA AllocOverwritePreserves ==
    ASSUME ForwardSpecs, IInv, NEW i \in Ids, alloc_overwrite(i)
    PROVE  IInv' /\ stage' = "solve"
  <1> DEFINE s == itv[i].size
             d == dest[i]
             a == addr[d] + offset[i]
             c == ChunkOf(d)
             g == Released(heap, c)
  <1>1. CallBack("overwrite", i) /\ stage = "solve" /\ phase = "overwrite"
        /\ UNCHANGED <<problem, links, loop>> /\ todo' \subseteq todo
        /\ stage' \in {"solve", "abort"}
    BY DEF alloc_overwrite, CallBack, CC_ASSERT
  <1>2. /\ Prepared /\ TodoAddrOK /\ LoopOK /\ WellFormed(heap) /\ HoldersOK
        /\ alignment \in Nat \ {0} /\ s \in Nat \ {0}
    BY <1>1, TimesTyped DEF IInv, Placing, Prepared, ProblemOK
  <1>3. /\ LoopOK' /\ d \in Holders /\ i \notin Holders
        /\ Holders' = (Holders \ {d}) \cup {i}
        /\ d # Nil /\ itv[i].begin = now
        /\ ~Begun(i) /\ \A j \in Ids : Begun(j)' <=> Begun(j) \/ j = i
    BY <1>1, <1>2, OverwriteCallBack
  <1>4. /\ d \in Ids /\ Begun(d) /\ itv[i].begin = itv[d].end - 1
        /\ offset[i] \in Nat /\ offset[i] + s <= itv[d].size
        /\ root[i] = root[d] /\ addr[d] \in Nat /\ a \in Nat
        /\ itv[d].size \in Nat /\ itv[d].begin < itv[i].begin
    BY <1>1, <1>2, <1>3, LinksTyped, TimesTyped DEF Holders, HoldersOK
  <1>5. /\ c.addr = addr[d] /\ chunk_end(c) = addr[d] + itv[d].size
        /\ c \in heap.allocated /\ ChunksAt(heap, addr[d]) = {c}
        /\ heap.allocated \ {c} = {ChunkOf(j) : j \in Holders \ {d}}
    BY <1>2, <1>3, HolderChunk DEF ChunkOf, chunk, chunk_end
  <1>6. PICK m \in g.free : m.addr <= c.addr /\ chunk_end(c) <= chunk_end(m)
    BY <1>2, <1>5, ReleasedWellFormed
  <1>7. WellFormed(g) /\ g.allocated = heap.allocated \ {c} /\ ReleaseOk(heap, c)
    BY <1>2, <1>5, ReleasedWellFormed
  <1>8. m.addr <= a /\ a + s <= chunk_end(m) /\ a < chunk_end(m)
    <2>1. m \in PChunk
      BY <1>7 DEF WellFormed
    <2> QED BY <2>1, <1>2, <1>4, <1>5, <1>6 DEF PChunk, chunk_end
  <1>9. FreeBelow(g, a) = {m}
    BY <1>4, <1>7, <1>8, FreeBelowContains
  <1>10. /\ CC_ASSERT(ReleaseOk(heap, c) /\ CutOk(g, m, a, s))
         /\ heap' = Cut(g, m, a, s)
         /\ addr' = [addr EXCEPT ![i] = a]
    <2>1. \E x \in ChunksAt(heap, addr[d]) : FreeBelow(Released(heap, x), a) # {}
      BY <1>5, <1>9
    <2>2. PICK x \in ChunksAt(heap, addr[d]) : \E b \in FreeBelow(Released(heap, x), a) :
                /\ CC_ASSERT(ReleaseOk(heap, x) /\ CutOk(Released(heap, x), b, a, s))
                /\ heap' = Cut(Released(heap, x), b, a, s)
                /\ addr' = [addr EXCEPT ![i] = a]
      BY <2>1 DEF alloc_overwrite, overwrite_addr
    <2>3. x = c
      BY <1>5
    <2> QED BY <2>2, <2>3, <1>9
  <1>11. /\ WellFormed(heap') /\ heap'.allocated = g.allocated \cup {chunk(a, s)}
         /\ CutOk(g, m, a, s)
         /\ \A x \in g.allocated : Apart(x, chunk(a, s))
    BY <1>10, <1>2, <1>4, <1>7, <1>8, CutWellFormed
  <1>12. stage' = stage
    BY <1>7, <1>10, <1>11 DEF CC_ASSERT
  <1>13. \A j \in Ids : Begun(j) /\ time_overlap(i, j) /\ root[i] # root[j] =>
            Apart(ChunkOf(j), chunk(a, s))
    <2> SUFFICES ASSUME NEW j \in Ids, Begun(j), time_overlap(i, j), root[i] # root[j]
                 PROVE  Apart(ChunkOf(j), chunk(a, s))
      OBVIOUS
    <2>1. /\ itv[j].begin \in 0..MaxTime /\ itv[j].end \in 0..MaxTime /\ now \in 0..MaxTime
          /\ itv[d].begin \in 0..MaxTime /\ itv[d].end \in 0..MaxTime
      BY <1>2, <1>4, TimesTyped DEF LoopOK
    <2>2. itv[j].begin <= now
      BY <2>1 DEF Begun, Passed
    <2>3. time_overlap(j, d)
      BY <2>1, <2>2, <1>3, <1>4 DEF time_overlap
    <2>4. Apart(ChunkOf(j), c) /\ addr[j] \in Nat
      BY <2>3, <1>2, <1>4 DEF HoldersOK
    <2>5. /\ ChunkOf(j).addr = addr[j] /\ chunk_end(ChunkOf(j)) = addr[j] + itv[j].size
          /\ itv[j].size \in Nat
          /\ chunk(a, s).addr = a /\ chunk_end(chunk(a, s)) = a + s
      BY <1>2, TimesTyped DEF ChunkOf, chunk, chunk_end
    <2>6. addr[d] <= a /\ a + s <= addr[d] + itv[d].size
      BY <1>2, <1>4
    <2>7. \/ addr[j] + itv[j].size <= addr[d]
          \/ addr[d] + itv[d].size <= addr[j]
      BY <2>4, <2>5, <1>5 DEF Apart
    <2>8. addr[j] + itv[j].size <= a \/ a + s <= addr[j]
      BY <2>4, <2>5, <2>6, <2>7, <1>2, <1>4
    <2> QED BY <2>5, <2>8 DEF Apart
  <1>14. HoldersOK'
    <2>1. heap.allocated' = {ChunkOf(j) : j \in Holders \ {d}} \cup {chunk(a, itv[i].size)}
      BY <1>5, <1>7, <1>11
    <2>2. \A j \in Holders \ {d} : Apart(ChunkOf(j), chunk(a, itv[i].size))
      BY <1>5, <1>7, <1>11
    <2>3. dest[i] # Nil => Begun(dest[i]) /\ a = addr[dest[i]] + offset[i]
      BY <1>4
    <2>4. {d} \in SUBSET Holders
      BY <1>3
    <2>5. addr' = [addr EXCEPT ![i] = a] /\ a \in Nat
      BY <1>4, <1>10
    <2>6. Holders' = (Holders \ {d}) \cup {i}
      BY <1>3
    <2>7. \A j \in Ids : Begun(j) /\ time_overlap(i, j) /\ root[i] # root[j] =>
            Apart(ChunkOf(j), chunk(a, itv[i].size))
      BY <1>13
    <2>8. ~Begun(i) /\ \A j \in Ids : Begun(j)' <=> Begun(j) \/ j = i
      BY <1>3
    <2> HIDE DEF IInv, a, d, s, c, g
    <2> QED BY <2>1, <2>2, <2>3, <2>4, <2>5, <2>6, <2>7, <2>8, <1>1, <1>2, BeginKeepsHoldersOK
  <1>15. Prepared' /\ TodoAddrOK'
    <2>1. Prepared'
      BY <1>1, <1>2, <1>12, PlacingPreserves
    <2>2. Ids' = Ids
      BY <1>1 DEF problem, Ids
    <2> QED BY <2>1, <2>2, <1>1, <1>2, <1>4, <1>10 DEF TodoAddrOK
  <1> QED BY <1>1, <1>3, <1>11, <1>12, <1>14, <1>15 DEF IInv

LEMMA FreePreserves ==
    ASSUME IInv, NEW i \in Ids, free(i)
    PROVE  IInv' /\ stage' = "solve"
  <1> DEFINE c == ChunkOf(i)
  <1>1. CallBack("free", i) /\ stage = "solve" /\ phase = "free"
        /\ UNCHANGED <<problem, links, loop, addr>> /\ todo' \subseteq todo
        /\ stage' \in {"solve", "abort"}
    BY DEF free, CallBack, CC_ASSERT
  <1>2. /\ Prepared /\ TodoAddrOK /\ LoopOK /\ WellFormed(heap) /\ HoldersOK
        /\ alignment \in Nat \ {0}
    BY <1>1 DEF IInv, Placing, Prepared, ProblemOK
  <1>3. /\ LoopOK' /\ i \in Holders /\ Holders' = Holders \ {i}
        /\ \A j \in Ids : Begun(j)' <=> Begun(j)
    BY <1>1, <1>2, FreeCallBack
  <1>4. /\ c \in heap.allocated /\ ChunksAt(heap, addr[i]) = {c}
        /\ heap.allocated \ {c} = {ChunkOf(j) : j \in Holders \ {i}}
    BY <1>2, <1>3, HolderChunk
  <1>5. CC_ASSERT(ReleaseOk(heap, c)) /\ heap' = Released(heap, c)
    BY <1>4 DEF free
  <1>6. /\ WellFormed(heap') /\ heap'.allocated = heap.allocated \ {c} /\ stage' = stage
    BY <1>2, <1>4, <1>5, ReleasedWellFormed DEF CC_ASSERT
  <1>7. Ids' = Ids /\ UNCHANGED <<itv, dest, root, offset>>
    BY <1>1 DEF problem, links, Ids
  <1>8. HoldersOK'
    <2>1. \A j \in Ids : (ChunkOf(j))' = ChunkOf(j)
      BY <1>1, <1>7 DEF ChunkOf
    <2>2. Holders \subseteq Ids
      BY DEF Holders
    <2>3. heap.allocated' = {ChunkOf(j)' : j \in Holders'}
      BY <2>1, <2>2, <1>3, <1>4, <1>6
    <2>4. \A j \in Ids : dest[j] # Nil => dest[j] \in Ids
      BY <1>2, <1>1, LinksTyped
    <2>5. \A j \in Ids : (dest[j] # Nil /\ Begun(j)') =>
            Begun(dest[j])' /\ addr'[j] = addr'[dest[j]] + offset[j]
      BY <2>4, <1>1, <1>2, <1>3, <1>7 DEF HoldersOK
    <2>6. \A j, k \in Holders' : j # k => Apart(ChunkOf(j)', ChunkOf(k)')
      BY <2>1, <2>2, <1>2, <1>3 DEF HoldersOK
    <2>7. \A j, k \in Ids : (Begun(j)' /\ Begun(k)' /\ time_overlap(j, k) /\ root[j] # root[k]) =>
            Apart(ChunkOf(j)', ChunkOf(k)')
      BY <2>1, <1>2, <1>3 DEF HoldersOK
    <2>8. \A j \in Ids : Begun(j)' => addr'[j] \in Nat
      BY <1>1, <1>2, <1>3 DEF HoldersOK
    <2> QED BY <2>3, <2>5, <2>6, <2>7, <2>8, <1>7 DEF HoldersOK, time_overlap
  <1>9. Prepared' /\ TodoAddrOK'
    <2>1. Prepared'
      BY <1>1, <1>2, <1>6, PlacingPreserves
    <2> QED BY <2>1, <1>1, <1>2, <1>7 DEF TodoAddrOK
  <1> QED BY <1>1, <1>3, <1>6, <1>8, <1>9 DEF IInv

(* HoldersOK depends on nothing that a step without callback changes.      *)
LEMMA HoldersOKFrame ==
    ASSUME Prepared, HoldersOK, stage \in {"solve", "check", "done"},
           UNCHANGED <<problem, links, addr>>, heap.allocated' = heap.allocated,
           Holders' = Holders, \A j \in Ids : Begun(j)' <=> Begun(j)
    PROVE  HoldersOK'
  <1>1. Ids' = Ids /\ UNCHANGED <<itv, dest, src, root, offset, addr>>
    BY DEF problem, links, Ids
  <1>2. \A j \in Ids : (ChunkOf(j))' = ChunkOf(j)
    BY <1>1 DEF ChunkOf
  <1>3. Holders \subseteq Ids /\ \A j \in Ids : dest[j] # Nil => dest[j] \in Ids
    BY LinksTyped DEF Holders
  <1>4. \A j \in Ids : (dest[j] # Nil /\ Begun(j)') =>
            Begun(dest[j])' /\ addr'[j] = addr'[dest[j]] + offset[j]
    BY <1>1, <1>3 DEF HoldersOK
  <1>5. heap.allocated' = {ChunkOf(j)' : j \in Holders'}
    <2>1. {ChunkOf(j)' : j \in Holders'} = {ChunkOf(j) : j \in Holders}
      BY <1>2, <1>3
    <2> QED BY <2>1 DEF HoldersOK
  <1>6. \A j, k \in Holders' : j # k => Apart(ChunkOf(j)', ChunkOf(k)')
    BY <1>2, <1>3 DEF HoldersOK
  <1>7. \A j, k \in Ids : (Begun(j)' /\ Begun(k)' /\ time_overlap(j, k) /\ root[j] # root[k]) =>
            Apart(ChunkOf(j)', ChunkOf(k)')
    BY <1>2 DEF HoldersOK
  <1>8. \A j \in Ids : Begun(j)' => addr'[j] \in Nat
    BY <1>1 DEF HoldersOK
  <1> QED BY <1>1, <1>4, <1>5, <1>6, <1>7, <1>8 DEF HoldersOK, time_overlap

(* The steps of the loop that call nothing back.                           *)
LEMMA LoopPreserves ==
    ASSUME IInv, start_loop \/ next_phase \/ end_loop("check"), UNCHANGED heap
    PROVE  IInv' /\ stage' \in {"solve", "check"}
  <1>1. /\ Prepared /\ TodoAddrOK /\ LoopOK /\ WellFormed(heap)
        /\ UNCHANGED <<problem, links, addr>>
        /\ stage \in {"root", "solve"} /\ stage' \in {"solve", "check"} /\ todo = {}
    BY DEF IInv, start_loop, next_phase, end_loop
  <1>2. Ids' = Ids /\ UNCHANGED <<itv, dest, src, root, offset>>
    BY <1>1 DEF problem, links, Ids
  <1>3. Prepared'
    BY <1>1, PlacingPreserves
  <1>4. WellFormed(heap)'
    BY <1>1
  <1>5. CASE start_loop
    <2>1. LoopOK' /\ Holders' = {} /\ \A j \in Ids : ~Begun(j)'
      BY <1>1, <1>3, <1>5, StartLoopHolders
    <2>2. heap.allocated = {} /\ todo' \subseteq Ids
      BY <1>5 DEF IInv, start_loop, Due
    <2>3. HoldersOK'
      BY <2>1, <2>2, <1>2 DEF HoldersOK
    <2> QED BY <1>1, <1>2, <1>3, <1>4, <2>1, <2>2, <2>3, <1>5
         DEF IInv, TodoAddrOK, start_loop
  <1>6. ASSUME stage = "solve", LoopOK', TodoAddrOK', Holders' = Holders,
               \A j \in Ids : Begun(j)' <=> Begun(j)
        PROVE  IInv'
    <2>1. HoldersOK
      BY <1>6 DEF IInv, Placing
    <2>2. HoldersOK'
      BY <2>1, <1>1, <1>6, HoldersOKFrame
    <2> QED BY <2>2, <1>1, <1>3, <1>4, <1>6 DEF IInv
  <1>7. CASE next_phase
    <2>1. LoopOK' /\ Holders' = Holders /\ \A j \in Ids : Begun(j)' <=> Begun(j)
      BY <1>1, <1>7, NextPhaseHolders
    <2>2. stage = "solve" /\ stage' = "solve"
      BY <1>7 DEF next_phase
    <2>3. todo' \subseteq Ids
      BY <2>1, <2>2, <1>2 DEF LoopOK, Due, Phases
    <2> QED BY <1>1, <1>2, <1>6, <2>1, <2>2, <2>3 DEF TodoAddrOK
  <1>8. CASE end_loop("check")
    <2>1. stage = "solve" /\ UNCHANGED <<now, phase, todo>> /\ phase = "overwrite" /\ now = MaxTime
          /\ stage' = "check"
      BY <1>8 DEF end_loop, loop
    <2>2. LoopOK'
      BY <2>1, <1>1 DEF LoopOK
    <2>3. \A j \in Ids : Begun(j)' <=> Begun(j)
      BY <2>1, <1>2 DEF Begun, Passed, is_overwrite_root
    <2>4. \A j \in Ids : src[j] # Nil => src[j] \in Ids
      BY <1>1, <2>1, LinksTyped
    <2>5. \A j \in Ids : Ended(j)' <=> Ended(j)
      BY <2>1, <2>3, <2>4, <1>2 DEF Ended, Passed
    <2>6. Holders' = Holders
      BY <2>3, <2>5, <1>2 DEF Holders
    <2> QED BY <1>1, <1>2, <1>6, <2>1, <2>2, <2>3, <2>6 DEF TodoAddrOK
  <1> QED BY <1>1, <1>5, <1>7, <1>8

LEMMA CheckPreserves ==
    ASSUME IInv, check_result(tot_alloc), UNCHANGED <<loop, heap>>
    PROVE  IInv'
  <1>1. /\ Prepared /\ TodoAddrOK /\ LoopOK /\ WellFormed(heap) /\ HoldersOK
        /\ stage = "check" /\ stage' \in {"done", "abort"}
        /\ UNCHANGED <<problem, links, todo, addr, now, phase, heap>>
    BY DEF IInv, check_result, Placing, loop
  <1>2. Ids' = Ids /\ UNCHANGED <<itv, dest, src, root, offset>>
    BY <1>1 DEF problem, links, Ids
  <1>3. Prepared'
    BY <1>1, PlacingPreserves
  <1>4. LoopOK' /\ TodoAddrOK'
    BY <1>1, <1>2 DEF LoopOK, TodoAddrOK
  <1>5. \A j \in Ids : Begun(j)' <=> Begun(j)
    BY <1>1, <1>2 DEF Begun, Passed, is_overwrite_root
  <1>6. \A j \in Ids : src[j] # Nil => src[j] \in Ids
    BY <1>1, LinksTyped
  <1>7. \A j \in Ids : Ended(j)' <=> Ended(j)
    BY <1>1, <1>2, <1>5, <1>6 DEF Ended, Passed
  <1>8. Holders' = Holders
    BY <1>2, <1>5, <1>7 DEF Holders
  <1>9. HoldersOK'
    BY <1>1, <1>5, <1>8, HoldersOKFrame
  <1> QED BY <1>1, <1>3, <1>4, <1>9 DEF IInv

LEMMA InitIInv == Init => IInv
  <1> SUFFICES ASSUME Init PROVE IInv
    OBVIOUS
  <1>1. Prepared /\ TodoAddrOK /\ stage = "build"
    BY InitPrepared DEF Init, InitProblem
  <1>2. LoopOK
    BY <1>1, BoundsAssumption DEF Init, InitLoop, LoopOK, Phases
  <1>3. heap.allocated = {} /\ WellFormed(heap)
    BY DEF Init, WellFormed, All
  <1> QED BY <1>1, <1>2, <1>3 DEF IInv, Placing

LEMMA PrepareKeepsIInv ==
    ASSUME PositiveSizes, IInv, Prepare, UNCHANGED <<lowerBound, loop, heap>>
    PROVE  IInv'
  <1>1. Prepared /\ TodoAddrOK /\ LoopOK
    BY DEF IInv
  <1>2. stage \in {"build", "link", "root"} /\ stage' \in {"build", "link", "root", "reject"}
    BY <1>1, PrepareStages
  <1>3. Prepared' /\ TodoAddrOK'
    BY <1>1, PreparePreserves
  <1>4. LoopOK'
    BY <1>1, <1>2 DEF LoopOK, loop
  <1> QED BY <1>2, <1>3, <1>4 DEF IInv, Placing

LEMMA StutterKeepsIInv ==
    ASSUME IInv, UNCHANGED vars
    PROVE  IInv'
  <1>1. UNCHANGED <<problem, stage, links, loop, todo, addr, heap>>
    BY DEF vars
  <1>2. Prepared' /\ TodoAddrOK' /\ LoopOK'
    BY <1>1, StutterPreserves DEF IInv
  <1>3. WellFormed(heap)'
    BY <1>1 DEF IInv
  <1>4. Ids' = Ids /\ Holders' = Holders /\ \A j : Begun(j)' <=> Begun(j)
    BY <1>1, LoopStays
  <1>5. Placing => HoldersOK'
    BY <1>1, <1>4, HoldersOKFrame DEF IInv, Placing
  <1> QED BY <1>1, <1>2, <1>3, <1>5 DEF IInv, Placing

LEMMA NextIInv ==
    ASSUME PositiveSizes, ForwardSpecs, IInv, [Next]_vars
    PROVE  IInv' /\ (stage \in {"link", "root", "solve"} => stage' # "abort")
  <1>1. CASE Prepare /\ UNCHANGED <<lowerBound, loop, heap>>
    BY <1>1, PrepareKeepsIInv, PrepareStages DEF IInv
  <1>2. CASE (start_loop \/ next_phase \/ end_loop("check")) /\ UNCHANGED heap
    BY <1>2, LoopPreserves
  <1>3. ASSUME NEW i \in Ids, alloc(i) \/ alloc_overwrite(i) \/ free(i)
        PROVE  IInv' /\ stage' = "solve"
    BY <1>3, AllocPreserves, AllocOverwritePreserves, FreePreserves
  <1>4. CASE check_result(tot_alloc) /\ UNCHANGED <<loop, heap>>
    BY <1>4, CheckPreserves DEF check_result
  <1>5. CASE UNCHANGED vars
    BY <1>5, StutterKeepsIInv DEF vars
  <1> QED BY <1>1, <1>2, <1>3, <1>4, <1>5 DEF Next, Stopped

(* What has begun keeps clear of what it overlaps in time; at the end      *)
(* everything has begun.                                                   *)
LEMMA KeptDisjoint == IInv => LiveDisjoint
  <1> SUFFICES ASSUME IInv, stage \in {"check", "done"}, NEW i \in Ids, NEW j \in Ids,
                      time_overlap(i, j), root[i] # root[j], addr_overlap(i, j)
               PROVE  FALSE
    BY DEF LiveDisjoint
  <1>1. Begun(i) /\ Begun(j)
    BY AllEnded DEF IInv
  <1>2. Apart(ChunkOf(i), ChunkOf(j)) /\ addr[i] \in Nat /\ addr[j] \in Nat
    BY <1>1 DEF IInv, Placing, HoldersOK
  <1>3. itv[i].size \in Nat /\ itv[j].size \in Nat
    BY TimesTyped DEF IInv
  <1> QED BY <1>2, <1>3 DEF Apart, ChunkOf, chunk, chunk_end, addr_overlap, addr_end

LEMMA Invariance ==
    ASSUME PositiveSizes, ForwardSpecs
    PROVE  Spec => []IInv
  <1>1. IInv /\ [Next]_vars => IInv'
    BY NextIInv
  <1> QED BY <1>1, InitIInv, PTL DEF Spec

-----------------------------------------------------------------------------
(* Every variable of the allocator keeps its type (lowerBound apart, which *)
(* no step reads).                                                         *)
THEOREM TypeCorrect ==
    ASSUME PositiveSizes, ForwardSpecs
    PROVE  Spec => []TypeOK
  <1>1. IInv => TypeOK
    BY DEF IInv, Prepared, ProblemOK, LinksOK, TodoAddrOK, LoopOK, WellFormed, TypeOK,
           TypeOKProblem, Spec_, PChunk, Chunk
  <1> QED BY <1>1, Invariance, PTL

(* Splitting, merging and growing lose no byte of the simulated heap and   *)
(* count none twice.                                                       *)
THEOREM HeapAlwaysTiled ==
    ASSUME PositiveSizes, ForwardSpecs
    PROVE  Spec => []HeapTiled
  <1>1. IInv => HeapTiled
    BY DEF IInv, WellFormed, HeapTiled, Chunks, All, Apart
  <1> QED BY <1>1, Invariance, PTL

(* merge_free_and_insert() leaves no two free chunks that touch.           *)
THEOREM FreeAlwaysCoalesced ==
    ASSUME PositiveSizes, ForwardSpecs
    PROVE  Spec => []FreeCoalesced
  <1>1. IInv => FreeCoalesced
    BY DEF IInv, WellFormed, FreeCoalesced
  <1> QED BY <1>1, Invariance, PTL

(* The allocated chunks are those of the intervals that hold memory.       *)
THEOREM ChunksAlwaysHeld ==
    ASSUME PositiveSizes, ForwardSpecs
    PROVE  Spec => []ChunksOfHolders
  <1>1. IInv => ChunksOfHolders
    BY DEF IInv, Placing, HoldersOK, ChunksOfHolders, ChunkOf
  <1> QED BY <1>1, Invariance, PTL

(* All memory has come back, as one free chunk, when run() returns.        *)
THEOREM AllComesBack ==
    ASSUME PositiveSizes, ForwardSpecs
    PROVE  Spec => []AllReturned
  <1>1. IInv => AllReturned
    <2> SUFFICES ASSUME IInv, stage \in {"check", "done"}
                 PROVE  heap.allocated = {} /\ heap.free = NonEmpty({chunk(0, heap.top)})
      BY DEF AllReturned
    <2>1. Holders = {}
      BY AllEnded DEF IInv
    <2>2. heap.allocated = {}
      BY <2>1 DEF IInv, Placing, HoldersOK
    <2> QED BY <2>2, EmptyHeapIsOneChunk DEF IInv
  <1> QED BY <1>1, Invariance, PTL

(* The heap is sound at every moment: it is tiled by its chunks, the free  *)
(* ones are coalesced, the allocated ones are those of the intervals that  *)
(* hold memory, and all of it comes back.                                  *)
THEOREM HeapAlwaysSound ==
    ASSUME PositiveSizes, ForwardSpecs
    PROVE  Spec => []HeapSound
  <1>1. HeapTiled /\ FreeCoalesced /\ ChunksOfHolders /\ AllReturned => HeapSound
    BY DEF HeapSound
  <1> QED
    BY <1>1, HeapAlwaysTiled, FreeAlwaysCoalesced, ChunksAlwaysHeld, AllComesBack, PTL

(* What solve() is for: intervals in use at the same time share no memory, *)
(* unless an overwrite specification makes them.                           *)
THEOREM LiveAlwaysDisjoint ==
    ASSUME PositiveSizes, ForwardSpecs
    PROVE  Spec => []LiveDisjoint
  BY KeptDisjoint, Invariance, PTL

(* No assertion of the linking, of the heap or of the loop ever fails: only *)
(* the checker, which runs after them, could abort.                        *)
THEOREM SolvingNeverAsserts ==
    ASSUME PositiveSizes, ForwardSpecs
    PROVE  Spec => SolveNeverAsserts
  <1>1. IInv /\ [Next]_vars => [(stage \in {"link", "root", "solve"} => stage' # "abort")]_vars
    BY NextIInv
  <1> QED BY <1>1, Invariance, PTL DEF Spec, SolveNeverAsserts

(* The path compression always finds an interval whose destination has     *)
(* been resolved: its recursion ends.                                      *)
THEOREM RootsAlwaysResolved ==
    ASSUME PositiveSizes, ForwardSpecs
    PROVE  Spec => []RootsResolved
  <1>1. IInv => RootsResolved
    BY ForwardResolves DEF IInv
  <1> QED BY <1>1, Invariance, PTL

(* By induction along the destinations, which begin ever earlier.          *)
LEMMA OffsetsFound ==
    ASSUME ForwardSpecs, IInv
    PROVE  RootOffsets
  <1> SUFFICES ASSUME stage \in {"check", "done"}
               PROVE  \A i \in Ids : dest[root[i]] = Nil /\ addr[i] = addr[root[i]] + rootOffset[i]
    BY DEF RootOffsets, is_overwrite_root
  <1> DEFINE S == {i \in Ids : ~(dest[root[i]] = Nil /\ addr[i] = addr[root[i]] + rootOffset[i])}
  <1>1. SUFFICES ASSUME S # {} PROVE FALSE
    OBVIOUS
  <1>2. Prepared /\ HoldersOK /\ \A i \in Ids : Begun(i)
    BY AllEnded DEF IInv, Placing
  <1>3. PICK i \in S : \A j \in S : itv[i].begin <= itv[j].begin
    <2> HIDE DEF S
    <2>1. S \in SUBSET Ids
      BY DEF S
    <2> QED BY <1>1, <1>2, <2>1, EarliestExists
  <1>4. /\ dest[i] = Nil => root[i] = i /\ rootOffset[i] = 0
        /\ dest[i] # Nil => rootOffset[i] = offset[i] + rootOffset[dest[i]]
    BY <1>2 DEF Prepared, RootsOK
  <1>5. \A j \in Ids : addr[j] \in Nat /\ rootOffset[j] \in Nat /\ root[j] \in Ids
    BY <1>2 DEF HoldersOK, Prepared, LinksOK
  <1>6. CASE dest[i] = Nil
    BY <1>4, <1>5, <1>6
  <1>7. CASE dest[i] # Nil
    <2>1. /\ dest[i] \in Ids /\ itv[dest[i]].begin < itv[i].begin
          /\ root[i] = root[dest[i]] /\ offset[i] \in Nat
      BY <1>2, <1>7, LinksTyped
    <2>2. itv[i].begin \in Int /\ itv[dest[i]].begin \in Int
      BY <1>2, <2>1, TimesTyped
    <2>3. dest[i] \notin S
      BY <1>3, <2>1, <2>2
    <2>4. /\ dest[root[dest[i]]] = Nil
          /\ addr[dest[i]] = addr[root[dest[i]]] + rootOffset[dest[i]]
      BY <2>1, <2>3
    <2>5. addr[i] = addr[dest[i]] + offset[i]
      BY <1>2, <1>7 DEF HoldersOK
    <2> QED BY <1>3, <1>4, <1>5, <1>7, <2>1, <2>4, <2>5
  <1> QED BY <1>6, <1>7

(* An overwriter lies in its root at the offset that the path compression  *)
(* found, and that is a root (RootOffsets).                                *)
THEOREM RootOffsetsAgree ==
    ASSUME PositiveSizes, ForwardSpecs
    PROVE  Spec => []RootOffsets
  <1>1. IInv => RootOffsets
    BY OffsetsFound
  <1> QED BY <1>1, Invariance, PTL

-----------------------------------------------------------------------------
(* The checker, and what an allocator promises                             *)

(* m_top is aligned and is what the intervals placed so far reach: some of  *)
(* them up to the alignment, and none of them more.                        *)
TopReached ==
    /\ heap.top % alignment = 0
    /\ stage \in {"build", "link", "root"} => heap.top = 0
    /\ Placing =>
         /\ \A i \in Ids : Begun(i) /\ dest[i] = Nil => addr[i] % alignment = 0
         /\ \A i \in Ids : Begun(i) => addr_end(i) <= heap.top
         /\ heap.top # 0 => \E i \in Ids : Begun(i) /\ heap.top <= align(addr_end(i))

(* The whole invariant: no step aborts the program.                        *)
PInv == IInv /\ TopReached /\ stage # "abort"

(* Interval i begins at a, and the heap grows for it if at all.            *)
LEMMA BeginKeepsTop ==
    ASSUME IInv, TopReached, stage = "solve", IInv', stage' = "solve",
           NEW i \in Ids, NEW a \in Nat,
           UNCHANGED <<problem, links>>, addr' = [addr EXCEPT ![i] = a],
           ~Begun(i), \A j \in Ids : Begun(j)' <=> Begun(j) \/ j = i,
           i \in Holders',
           dest[i] = Nil => a % alignment = 0,
           heap'.top % alignment = 0, heap.top <= heap'.top,
           heap'.top # heap.top => heap'.top <= align(a + itv[i].size)
    PROVE  TopReached'
  <1>1. /\ UNCHANGED <<itv, alignment, dest>> /\ Ids' = Ids
        /\ addr \in [Ids -> Nat \cup {INVALID}]
        /\ heap.top \in Nat /\ heap'.top \in Nat
    BY DEF problem, links, Ids, IInv, TodoAddrOK, WellFormed
  <1>2. addr'[i] = a /\ \A j \in Ids : j # i => addr'[j] = addr[j]
    BY <1>1
  <1>3. addr_end(i)' = a + itv[i].size /\ \A j \in Ids : j # i => addr_end(j)' = addr_end(j)
    BY <1>1, <1>2 DEF addr_end
  <1>4. addr_end(i)' <= heap'.top
    <2>1. ChunkOf(i)' \in heap'.allocated
      BY DEF IInv, Placing, HoldersOK
    <2>2. chunk_end(ChunkOf(i)') <= heap'.top
      BY <2>1 DEF IInv, WellFormed, All
    <2>3. chunk_end(ChunkOf(i)') = addr_end(i)'
      BY DEF ChunkOf, chunk, chunk_end, addr_end
    <2> QED BY <2>2, <2>3
  <1>5. \A j \in Ids : Begun(j) => addr_end(j) \in Nat /\ addr_end(j) <= heap.top
    BY TimesTyped DEF IInv, Placing, HoldersOK, TopReached, addr_end
  <1>6. \A j \in Ids : Begun(j)' => addr_end(j)' <= heap'.top
    BY <1>1, <1>3, <1>4, <1>5
  <1>7. \A j \in Ids : Begun(j)' /\ dest[j] = Nil => addr'[j] % alignment = 0
    BY <1>2 DEF TopReached, Placing
  <1>8. \A n : align(n)' = align(n)
    BY <1>1 DEF align
  <1>9. heap'.top # 0 => \E j \in Ids : Begun(j)' /\ heap'.top <= align(addr_end(j)')
    <2>1. CASE heap'.top # heap.top
      BY <2>1, <1>3
    <2>2. CASE heap'.top = heap.top /\ heap.top # 0
      <3>1. PICK j \in Ids : Begun(j) /\ heap.top <= align(addr_end(j))
        BY <2>2 DEF TopReached, Placing
      <3> QED BY <3>1, <2>2, <1>3
    <2> QED BY <2>1, <2>2
  <1> QED BY <1>1, <1>6, <1>7, <1>8, <1>9 DEF TopReached, Placing

LEMMA AllocKeepsTop ==
    ASSUME IInv, TopReached, NEW i \in Ids, alloc(i)
    PROVE  TopReached'
  <1> DEFINE s == itv[i].size
  <1>1. CallBack("alloc", i) /\ stage = "solve" /\ UNCHANGED <<problem, links, loop>>
    BY DEF alloc, CallBack
  <1>2. /\ Prepared /\ LoopOK /\ alignment \in Nat \ {0} /\ s \in Nat
        /\ heap.top \in Nat /\ heap.free \subseteq PChunk
    BY TimesTyped DEF IInv, Prepared, ProblemOK, WellFormed
  <1>3. IInv' /\ stage' = "solve"
    BY AllocPreserves
  <1>4. /\ Holders' = Holders \cup {i}
        /\ ~Begun(i) /\ \A j \in Ids : Begun(j)' <=> Begun(j) \/ j = i
    BY <1>1, <1>2, <1>3, AllocCallBack
  <1>5. heap.top % alignment = 0
    BY DEF TopReached
  <1>6. \E a \in Nat : /\ addr' = [addr EXCEPT ![i] = a] /\ a % alignment = 0
                       /\ \/ heap'.top = heap.top
                          \/ a = heap.top /\ heap'.top = align(a + s)
    <2>1. CASE Candidates(heap, s) = {}
      <3>1. heap' = Grown(heap, s) /\ addr' = [addr EXCEPT ![i] = heap.top]
        BY <2>1 DEF alloc
      <3>2. heap'.top = align(heap.top + s)
        BY <3>1 DEF Grown
      <3> HIDE DEF s
      <3> QED BY <3>1, <3>2, <1>2, <1>5
    <2>2. CASE Candidates(heap, s) # {}
      <3>1. PICK c \in heap.free : /\ heap' = Cut(heap, c, align(c.addr), s)
                                   /\ addr' = [addr EXCEPT ![i] = align(c.addr)]
        BY <2>2 DEF alloc
      <3>2. align(c.addr) \in Nat /\ align(c.addr) % alignment = 0
        BY <1>2, AlignUp DEF PChunk
      <3>3. heap'.top = heap.top
        BY <3>1 DEF Cut
      <3> QED BY <3>1, <3>2, <3>3
    <2> QED BY <2>1, <2>2
  <1>7. PICK a \in Nat : /\ addr' = [addr EXCEPT ![i] = a] /\ a % alignment = 0
                        /\ \/ heap'.top = heap.top
                           \/ a = heap.top /\ heap'.top = align(a + s)
    BY <1>6
  <1>8. /\ align(a + s) \in Nat /\ a + s <= align(a + s) /\ align(a + s) % alignment = 0
    <2>1. a + s \in Nat
      BY <1>2
    <2> QED BY <2>1, <1>2, AlignUp
  <1>9. /\ heap'.top % alignment = 0 /\ heap.top <= heap'.top
        /\ heap'.top # heap.top => heap'.top <= align(a + itv[i].size)
    BY <1>2, <1>5, <1>7, <1>8
  <1> HIDE DEF s
  <1> QED BY <1>1, <1>3, <1>4, <1>7, <1>9, BeginKeepsTop

LEMMA OverwriteKeepsTop ==
    ASSUME ForwardSpecs, IInv, TopReached, NEW i \in Ids, alloc_overwrite(i)
    PROVE  TopReached'
  <1>1. CallBack("overwrite", i) /\ stage = "solve" /\ UNCHANGED <<problem, links, loop>>
    BY DEF alloc_overwrite, CallBack
  <1>2. Prepared /\ LoopOK /\ heap.top \in Nat
    BY DEF IInv, WellFormed
  <1>3. IInv' /\ stage' = "solve"
    BY AllocOverwritePreserves
  <1>4. /\ Holders' = (Holders \ {dest[i]}) \cup {i} /\ dest[i] # Nil /\ dest[i] \in Holders
        /\ ~Begun(i) /\ \A j \in Ids : Begun(j)' <=> Begun(j) \/ j = i
    BY <1>1, <1>2, <1>3, OverwriteCallBack
  <1>5. overwrite_addr(i) \in Nat
    <2>1. addr[dest[i]] \in Nat
      BY <1>1, <1>4 DEF IInv, Placing, HoldersOK, Holders
    <2>2. offset[i] \in Nat
      BY <1>1, <1>2 DEF Prepared, LinksOK
    <2> QED BY <2>1, <2>2 DEF overwrite_addr
  <1>6. addr' = [addr EXCEPT ![i] = overwrite_addr(i)] /\ heap'.top = heap.top
    <2>1. ~CC_ASSERT(FALSE)
      BY <1>3 DEF CC_ASSERT
    <2>2. PICK c, b : /\ heap' = Cut(Released(heap, c), b, overwrite_addr(i), itv[i].size)
                      /\ addr' = [addr EXCEPT ![i] = overwrite_addr(i)]
      BY <2>1 DEF alloc_overwrite
    <2> QED BY <2>2 DEF Cut, Released
  <1>7. /\ heap'.top % alignment = 0 /\ heap.top <= heap'.top /\ ~(heap'.top # heap.top)
        /\ i \in Holders'
    BY <1>2, <1>4, <1>6 DEF TopReached
  <1> DEFINE a == overwrite_addr(i)
  <1>8. a \in Nat /\ addr' = [addr EXCEPT ![i] = a]
    BY <1>5, <1>6
  <1> HIDE DEF a
  <1> QED BY <1>1, <1>3, <1>4, <1>7, <1>8, BeginKeepsTop

(* A step that moves nothing keeps what the heap reaches.                  *)
LEMMA TopFrame ==
    ASSUME IInv, TopReached, Placing, Placing', UNCHANGED <<problem, links, addr>>,
           heap'.top = heap.top, \A j \in Ids : Begun(j)' <=> Begun(j)
    PROVE  TopReached'
  <1>1. UNCHANGED <<itv, alignment, dest, addr>> /\ Ids' = Ids
    BY DEF problem, links, Ids
  <1>2. (\A n : align(n)' = align(n)) /\ (\A j : addr_end(j)' = addr_end(j))
    BY <1>1 DEF align, addr_end
  <1> QED BY <1>1, <1>2 DEF TopReached, Placing

(* What the checker is given is what CheckerPasses and PlanKept ask for.   *)
LEMMA PlacedByBestFit ==
    ASSUME ForwardSpecs, PInv, stage = "check"
    PROVE  /\ PlanMade /\ tot_alloc \in Nat /\ Reaches(tot_alloc)
           /\ \A i \in Ids : dest[i] = Nil => addr[i] % alignment = 0
           /\ \A i \in Ids : dest[i] # Nil => addr[i] = addr[dest[i]] + offset[i]
  <1>1. IInv /\ Placing /\ HoldersOK /\ TopReached
    BY DEF PInv, IInv, Placing
  <1>2. \A i \in Ids : Begun(i)
    BY <1>1, AllEnded DEF IInv
  <1>3. addr \in [Ids -> Nat]
    BY <1>1, <1>2 DEF IInv, TodoAddrOK, HoldersOK
  <1>4. LiveDisjoint
    BY <1>1, KeptDisjoint
  <1>5. heap.top \in Nat
    BY <1>1 DEF IInv, WellFormed
  <1>6. Reaches(tot_alloc)
    BY <1>1, <1>2 DEF TopReached, Reaches, tot_alloc
  <1> QED BY <1>1, <1>2, <1>3, <1>4, <1>5, <1>6 DEF IInv, PlanMade, HoldersOK, TopReached, tot_alloc

LEMMA InitPInv == Init => PInv
  <1> SUFFICES ASSUME Init PROVE PInv
    OBVIOUS
  <1>1. IInv
    BY InitIInv
  <1>2. stage = "build" /\ heap.top = 0 /\ alignment = 1
    BY DEF Init, InitProblem
  <1> QED BY <1>1, <1>2 DEF PInv, TopReached, Placing

LEMMA NextPInv ==
    ASSUME PositiveSizes, ForwardSpecs, PInv, [Next]_vars
    PROVE  PInv'
  <1>1. IInv /\ TopReached /\ stage # "abort" /\ IInv'
    BY NextIInv DEF PInv
  <1>2. alignment' \in Nat \ {0}
    BY <1>1 DEF IInv, Prepared, ProblemOK
  <1>3. CASE Prepare /\ UNCHANGED <<lowerBound, loop, heap>>
    <2>1. stage \in {"build", "link", "root"} /\ stage' \in {"build", "link", "root", "reject"}
      BY <1>1, <1>3, PrepareStages DEF IInv
    <2>2. heap'.top = 0
      BY <1>1, <1>3, <2>1 DEF TopReached
    <2> QED BY <1>1, <1>2, <2>1, <2>2 DEF PInv, TopReached, Placing
  <1>4. CASE (start_loop \/ next_phase \/ end_loop("check")) /\ UNCHANGED heap
    <2>1. stage' \in {"solve", "check"} /\ Placing'
      BY <1>1, <1>4, LoopPreserves DEF Placing
    <2>2. CASE start_loop
      <3>1. /\ stage = "root" /\ UNCHANGED <<itv, alignment>> /\ Ids' = Ids
        BY <2>2 DEF start_loop, problem, Ids
      <3>2. heap.top = 0
        BY <1>1, <3>1 DEF TopReached
      <3>3. \A j \in Ids : ~Begun(j)'
        BY <1>1, <2>2, StartLoopHolders DEF IInv
      <3> QED BY <1>1, <1>2, <1>4, <2>1, <3>1, <3>2, <3>3 DEF PInv, TopReached
    <2>3. CASE next_phase \/ end_loop("check")
      <3>1. \A j \in Ids : Begun(j)' <=> Begun(j)
        BY <1>1, <2>3, NextPhaseHolders, EndLoopHolders DEF IInv
      <3>2. stage = "solve" /\ UNCHANGED <<problem, links, addr>>
        BY <2>3 DEF next_phase, end_loop
      <3>3. TopReached'
        BY <1>1, <1>4, <2>1, <3>1, <3>2, TopFrame DEF Placing
      <3> QED BY <1>1, <2>1, <3>3 DEF PInv
    <2> QED BY <1>4, <2>2, <2>3
  <1>5. ASSUME NEW i \in Ids, alloc(i) \/ alloc_overwrite(i) \/ free(i)
        PROVE  PInv'
    <2>1. stage' = "solve"
      BY <1>1, <1>5, AllocPreserves, AllocOverwritePreserves, FreePreserves
    <2>2. CASE free(i)
      <3>1. CallBack("free", i) /\ stage = "solve" /\ UNCHANGED <<problem, links, addr>>
        BY <2>2 DEF free, CallBack
      <3>2. \A j \in Ids : Begun(j)' <=> Begun(j)
        BY <1>1, <2>1, <3>1, FreeCallBack DEF IInv
      <3>3. ~CC_ASSERT(FALSE)
        BY <2>1 DEF CC_ASSERT
      <3>4. PICK c : heap' = Released(heap, c)
        BY <2>2, <3>3 DEF free
      <3>5. TopReached'
        BY <1>1, <2>1, <3>1, <3>2, <3>4, TopFrame DEF Placing, Released
      <3> QED BY <1>1, <2>1, <3>5 DEF PInv
    <2>3. CASE alloc(i) \/ alloc_overwrite(i)
      <3>1. TopReached'
        BY <1>1, <2>3, AllocKeepsTop, OverwriteKeepsTop
      <3> QED BY <1>1, <2>1, <3>1 DEF PInv
    <2> QED BY <1>5, <2>2, <2>3
  <1>6. CASE check_result(tot_alloc) /\ UNCHANGED <<loop, heap>>
    <2>1. stage = "check" /\ UNCHANGED <<problem, links, addr>>
      BY <1>6 DEF check_result
    <2>2. stage' = "done"
      BY <1>6, <2>1, PlacedByBestFit, CheckerPasses
    <2>3. \A j \in Ids : Begun(j)' <=> Begun(j)
      BY <1>6, LoopStays DEF check_result
    <2>4. TopReached'
      BY <1>1, <1>6, <2>1, <2>2, <2>3, TopFrame DEF Placing
    <2> QED BY <1>1, <2>2, <2>4 DEF PInv
  <1>7. CASE UNCHANGED vars
    <2>1. UNCHANGED <<problem, links, stage, loop, todo, addr, heap, alignment>>
      BY <1>7 DEF vars, problem
    <2>2. CASE Placing
      <3>1. \A j \in Ids : Begun(j)' <=> Begun(j)
        BY <2>1, LoopStays
      <3> QED BY <1>1, <2>1, <2>2, <3>1, TopFrame DEF PInv, Placing
    <2>3. CASE ~Placing
      BY <1>1, <2>1, <2>3 DEF PInv, TopReached, Placing
    <2> QED BY <2>2, <2>3
  <1> QED BY <1>3, <1>4, <1>5, <1>6, <1>7 DEF Next, Stopped

LEMMA NeverAborted ==
    ASSUME PositiveSizes, ForwardSpecs
    PROVE  Spec => []PInv
  <1>1. PInv /\ [Next]_vars => PInv'
    BY NextPInv
  <1> QED BY <1>1, InitPInv, PTL DEF Spec

(* The checker accepts every plan of do_solve(): addresses, total, usage    *)
(* and sweep are as it asserts.                                            *)
THEOREM CheckerAlwaysAccepts ==
    ASSUME PositiveSizes, ForwardSpecs
    PROVE  Spec => CheckerAccepts
  <1>1. PInv /\ [Next]_vars => [(stage = "check" => stage' # "abort")]_vars
    BY NextPInv DEF PInv
  <1> QED BY <1>1, NeverAborted, PTL DEF Spec, CheckerAccepts

(* Overwriters at aligned offsets lie at aligned addresses.                *)
LEMMA PlacedAligned ==
    ASSUME ForwardSpecs, PInv, stage = "check", OffsetsAligned
    PROVE  AlignedPlan
  <1>1. PlanMade /\ RootOffsets /\ alignment \in Nat \ {0}
    BY PlacedByBestFit, OffsetsFound DEF PInv, PlanMade, Prepared, ProblemOK
  <1> SUFFICES ASSUME NEW i \in Ids
               PROVE  rootOffset[i] \in Nat /\ addr[i] % alignment = 0
    BY <1>1 DEF AlignedPlan, OffsetsAligned
  <1>2. rootOffset[i] \in Nat /\ root[i] \in Ids
    BY <1>1 DEF PlanMade, Prepared, LinksOK
  <1>3. dest[root[i]] = Nil /\ addr[i] = addr[root[i]] + rootOffset[i]
    BY <1>1, <1>2 DEF RootOffsets, is_overwrite_root
  <1>4. PICK a \in Nat : a = addr[root[i]] /\ a % alignment = 0
    BY <1>1, <1>2, <1>3, PlacedByBestFit DEF PlanMade
  <1>5. PICK o \in Nat : o = rootOffset[i] /\ o % alignment = 0
    BY <1>2 DEF OffsetsAligned
  <1>6. (a + o) % alignment = 0
    BY <1>1, <1>4, <1>5, AlignedSum
  <1> QED BY <1>2, <1>3, <1>4, <1>5, <1>6

(* What check_result() compares the total with is a lower bound of it, as  *)
(* its comment says, if every overwriter lies at an aligned offset of its  *)
(* root (LowerBoundSoundIfAligned).                                        *)
THEOREM LowerBoundAlwaysSound ==
    ASSUME PositiveSizes, ForwardSpecs
    PROVE  Spec => []LowerBoundSoundIfAligned
  <1>1. Init => LowerBoundSoundIfAligned
    BY DEF Init, InitProblem, LowerBoundSoundIfAligned
  <1>2. ASSUME PInv, LowerBoundSoundIfAligned, [Next]_vars, stage' = "done", OffsetsAligned'
        PROVE  (lowerBound <= tot_alloc)'
    <2>1. IInv /\ TopReached /\ stage # "abort"
      BY <1>2 DEF PInv
    <2>2. CASE check_result(tot_alloc) /\ UNCHANGED <<loop, heap>>
      <3>1. /\ stage = "check" /\ lowerBound' = peak_lower_bound
            /\ UNCHANGED <<itv, alignment, rootOffset, heap>>
        BY <2>2 DEF check_result, problem, links
      <3>2. OffsetsAligned
        BY <1>2, <3>1 DEF OffsetsAligned, Ids
      <3>3. AlignedPlan
        BY <1>2, <3>1, <3>2, PlacedAligned
      <3>4. tot_alloc \in Nat /\ tot_alloc % alignment = 0 /\ \A i \in Ids : addr_end(i) <= tot_alloc
        BY <1>2, <2>1, <3>1, PlacedByBestFit DEF Reaches, TopReached, tot_alloc
      <3>5. peak_lower_bound <= tot_alloc
        BY <3>3, <3>4, LowerBoundFits
      <3> QED BY <3>1, <3>5 DEF tot_alloc
    <2>3. CASE Prepare /\ UNCHANGED <<lowerBound, loop, heap>>
      BY <1>2, <2>1, <2>3, PrepareStages DEF IInv
    <2>4. CASE (start_loop \/ next_phase \/ end_loop("check")) /\ UNCHANGED heap
      BY <1>2, <2>1, <2>4, LoopPreserves
    <2>5. ASSUME NEW i \in Ids, alloc(i) \/ alloc_overwrite(i) \/ free(i)
          PROVE  FALSE
      BY <1>2, <2>1, <2>5, AllocPreserves, AllocOverwritePreserves, FreePreserves
    <2>6. CASE UNCHANGED vars
      <3>1. UNCHANGED <<itv, alignment, rootOffset, stage, heap, lowerBound>>
        BY <2>6 DEF vars, problem, links
      <3>2. OffsetsAligned
        BY <1>2, <3>1 DEF OffsetsAligned, Ids
      <3> QED BY <1>2, <3>1, <3>2 DEF LowerBoundSoundIfAligned, tot_alloc
    <2> QED BY <1>2, <2>2, <2>3, <2>4, <2>5, <2>6 DEF Next, Stopped
  <1>3. PInv /\ LowerBoundSoundIfAligned /\ [Next]_vars => LowerBoundSoundIfAligned'
    BY <1>2 DEF LowerBoundSoundIfAligned
  <1> QED BY <1>1, <1>3, NeverAborted, PTL DEF Spec

(* A step of the allocator is a step that the client of MemPlan may see,   *)
(* or none.                                                                *)
LEMMA StepRefines ==
    ASSUME PositiveSizes, ForwardSpecs, PInv, [Next]_vars
    PROVE  [Abstract!Next]_(Abstract!vars)
  <1>1. IInv /\ TopReached /\ stage # "abort" /\ PInv'
    BY NextPInv DEF PInv
  <1>2. CASE Prepare /\ UNCHANGED <<lowerBound, loop, heap>>
    <2>1. stage \in {"build", "link", "root"} /\ stage' \in {"build", "link", "root", "reject"}
      BY <1>1, <1>2, PrepareStages DEF IInv
    <2>2. /\ Len(itv) <= Len(itv') /\ itv = SubSeq(itv', 1, Len(itv))
          /\ Len(specs) <= Len(specs') /\ specs = SubSeq(specs', 1, Len(specs))
          /\ stage' = "reject" => /\ \E p \in Promise!Specs : Promise!TooLate(p)
                                  /\ UNCHANGED <<itv, specs, alignment>>
      BY <1>1, <1>2, PrepareDescribes DEF IInv
    <2>3. CASE stage' # "reject"
      <3>1. Abstract!Describe
        BY <2>1, <2>2, <2>3 DEF Abstract!Describe, PlanStage, Ready
      <3> QED BY <3>1 DEF Abstract!Next
    <2>4. CASE stage' = "reject"
      <3>1. \E p \in Abstract!Specs : Abstract!TooLate(p)
        BY <2>2, <2>4 DEF Promise!Specs, Promise!TooLate, Abstract!Specs, Abstract!TooLate
      <3>2. Abstract!Refuse
        BY <2>1, <2>2, <2>4, <3>1 DEF Abstract!Refuse, PlanStage, Ready
      <3> QED BY <3>2 DEF Abstract!Next
    <2> QED BY <2>3, <2>4
  <1>3. ASSUME stage \in {"root", "solve"}, stage' \in {"solve", "check"}, UNCHANGED problem
        PROVE  UNCHANGED Abstract!vars
    BY <1>3 DEF Abstract!vars, PlanStage, Ready, problem
  <1>4. CASE (start_loop \/ next_phase \/ end_loop("check")) /\ UNCHANGED heap
    BY <1>1, <1>3, <1>4, LoopPreserves DEF start_loop, next_phase, end_loop
  <1>5. ASSUME NEW i \in Ids, alloc(i) \/ alloc_overwrite(i) \/ free(i)
        PROVE  UNCHANGED Abstract!vars
    <2>1. stage' = "solve"
      BY <1>1, <1>5, AllocPreserves, AllocOverwritePreserves, FreePreserves
    <2>2. stage = "solve" /\ UNCHANGED problem
      BY <1>5 DEF alloc, alloc_overwrite, free, CallBack
    <2> QED BY <1>3, <2>1, <2>2
  <1>6. CASE check_result(tot_alloc) /\ UNCHANGED <<loop, heap>>
    <2>1. /\ stage = "check"
          /\ UNCHANGED <<itv, specs, alignment, dest, offset, addr, heap>>
      BY <1>6 DEF check_result, problem, links
    <2>2. stage' = "done"
      BY <1>6, <2>1, PlacedByBestFit, CheckerPasses
    <2>3. /\ Promise!Compatible(HonouredSpecs)
          /\ Promise!Plan(addr, HonouredSpecs, tot_alloc)
          /\ \A p \in Promise!Specs : ~Promise!TooLate(p)
          /\ DOMAIN addr = Promise!Ids
      BY <2>1, PlacedByBestFit, PlanKept
    <2>4. Abstract!Compatible(HonouredSpecs)
      BY <2>3 DEF Promise!Compatible, Promise!Specs, Promise!InPlace,
                  Abstract!Compatible, Abstract!Specs, Abstract!InPlace
    <2>5. \A p \in Abstract!Specs : ~Abstract!TooLate(p)
      BY <2>3 DEF Promise!Specs, Promise!TooLate, Abstract!Specs, Abstract!TooLate
    <2>6. DOMAIN addr = Abstract!Ids
      BY <2>3 DEF Promise!Ids, Abstract!Ids
    <2>7. Abstract!Plan(addr, HonouredSpecs, tot_alloc)
      <3>1. \A i, j : Promise!Chained(HonouredSpecs, i, j) <=> Abstract!Chained(HonouredSpecs, i, j)
        BY DEF Promise!Chained, Abstract!Chained, Promise!Ids, Abstract!Ids
      <3> QED BY <2>3, <3>1
          DEF Promise!Plan, Promise!Ids, Promise!alignUp, Promise!Meet, Promise!Share, Promise!EndOf,
              Abstract!Plan, Abstract!Ids, Abstract!alignUp, Abstract!Meet, Abstract!Share,
              Abstract!EndOf
    <2>8. HonouredSpecs' = HonouredSpecs /\ tot_alloc' = tot_alloc /\ tot_alloc >= 0
      BY <2>1, PlacedByBestFit DEF HonouredSpecs, tot_alloc
    <2>9. /\ PlanStage = "open" /\ PlanStage' = "planned" /\ Ready'
      BY <2>1, <2>2 DEF PlanStage, Ready
    <2>10. Abstract!Solve
      BY <2>1, <2>4, <2>5, <2>6, <2>7, <2>8, <2>9 DEF Abstract!Solve
    <2> QED BY <2>10 DEF Abstract!Next
  <1>7. CASE UNCHANGED vars
    <2>1. UNCHANGED <<itv, specs, alignment, stage, dest, offset, addr, heap>>
      BY <1>7 DEF vars, problem, links
    <2> QED BY <2>1 DEF Abstract!vars, PlanStage, Ready, HonouredSpecs, tot_alloc
  <1> QED BY <1>2, <1>4, <1>5, <1>6, <1>7 DEF Next, Stopped

(* BestFit keeps the promise of an allocator: one step gives all intervals  *)
(* their addresses, and these are a plan that the client can use.          *)
THEOREM PlanPromised ==
    ASSUME PositiveSizes, ForwardSpecs
    PROVE  Spec => ImplementsMemPlan
  <1>1. Init => Abstract!Init
    BY DEF Init, InitProblem, Abstract!Init, PlanStage, Ready
  <1>2. PInv /\ [Next]_vars => [Abstract!Next]_(Abstract!vars)
    BY StepRefines
  <1> QED BY <1>1, <1>2, NeverAborted, PTL DEF Spec, ImplementsMemPlan, Abstract!Spec
=============================================================================

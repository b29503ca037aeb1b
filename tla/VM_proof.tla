------------------------------ MODULE VM_proof ------------------------------
(***************************************************************************)
(* For all functions that the lowering makes, all plans, sizes, numbers of *)
(* device models and runs: operands are held, and memory is safe.  This    *)
(* assumes that ReshapeIns gets no operand whose memory is planned, and    *)
(* that networks are destroyed as DestroysFromLast says.                   *)
(*                                                                         *)
(* The inductive invariant IInv says what a function that was lowered is   *)
(* like (BodyOK), what is apart in its plan (PlanOK), who has which memory *)
(* (MemoryInv), and, during a run, what is in it (RunInv).                 *)
(***************************************************************************)
EXTENDS VM, SequenceTheorems, WellFoundedInduction, TLAPS

(* The instructions that write a tensor, and the tensors that have their   *)
(* value before instruction i.                                             *)
Writes(j, v) == j \in Is("kernel") \cup Is("reshape") /\ body[j].to = v
Known(i) ==
    {0} \cup {v \in Ops : /\ v < i
                          /\ \/ \E j \in Ops : j < i /\ Writes(j, v)
                             \/ IsView(v) /\ \A j \in Ops : ~Writes(j, v)}
Sum(v) == IF IsView(v) THEN body[v].sum ELSE 0

-----------------------------------------------------------------------------
(* The function that the lowering makes                                    *)

OpNames == {"alloc", "dynamic", "view", "kernel", "reshape", "return"}
Operations ==
    [op : OpNames, reads : SUBSET Nat, to : Nat, workspace : Nat, size : Nat, root : Nat, offset : Nat, sum : Nat]

(* A view lies within what it is a view of, and so within its root.        *)
ViewOK(i) ==
    /\ \E s \in Known(i) :
         /\ body[i].reads = {s} /\ ~Dynamic(s) /\ body[i].root = Root(s)
         /\ body[i].offset + body[i].size <= StaticSize(s)
         /\ body[i].sum = body[i].offset + Sum(s)
    /\ body[i].root \in {0} \cup allocs /\ body[i].root < i
    /\ body[i].sum + body[i].size <= StaticSize(body[i].root)

(* No operand of a kernel, and no tensor known before it, shares memory    *)
(* with its output, but for the copy that is written through a view; no    *)
(* output and no view is in its workspace.                                 *)
KernelOK(i) ==
    LET to == body[i].to
        w == body[i].workspace
    IN  /\ to \in Is("alloc") \cup Is("dynamic") \cup Is("view") /\ to < i
        /\ body[i].reads \subseteq Known(i)
        /\ \A v \in body[i].reads : Root(v) # Root(to)
        /\ \A v \in Known(i) : Root(v) = Root(to) => IsView(to) /\ v = Root(to)
        /\ IsView(to) => /\ Root(to) \in allocs \cap Known(to)
                         /\ body[to].reads = {Root(to)} /\ body[to].sum = body[to].offset
        /\ w # 0 => /\ w \in allocs /\ w < i /\ w # Root(to)
                    /\ \A j \in Ops : ~Writes(j, w) /\ (IsView(j) => body[j].root # w)

(* What ReshapeIns shares the memory of is not planned.                    *)
ReshapeOK(i) ==
    /\ body[i].to \in Is("dynamic") /\ body[i].to < i
    /\ \E s \in Known(i) : body[i].reads = {s} /\ Root(s) \notin allocs

ReturnOK(i) == i = Len(body) /\ \E s \in Known(i) : body[i].reads = {s}

OpOK(i) ==
    /\ body[i].op \in {"alloc", "view"} => body[i].size > 0
    /\ body[i].op = "view" => ViewOK(i)
    /\ body[i].op = "kernel" => KernelOK(i)
    /\ body[i].op = "reshape" => ReshapeOK(i)
    /\ body[i].op = "return" => ReturnOK(i)
OneWriter == \A i, j \in Ops : \A v \in Ops : Writes(i, v) /\ Writes(j, v) => i = j
BodyOK == body \in Seq(Operations) /\ OneWriter /\ \A i \in Ops : OpOK(i)

(* A plan keeps apart what is in use at the same instruction.              *)
InUse(a, i) == a <= i /\ \E j \in Ops : j >= i /\ \E x \in aliases(a) : j = x \/ Uses(j, x)
PlanOK ==
    /\ tot \in Nat /\ \A a \in allocs : addr[a] \in Nat /\ addr[a] + body[a].size <= tot
    /\ \A a, b \in allocs : \A i \in Ops : a # b /\ InUse(a, i) /\ InUse(b, i) =>
         addr[a] + body[a].size <= addr[b] \/ addr[b] + body[b].size <= addr[a]
PlanInv ==
    /\ BodyOK /\ stage \in {"lowering", "described", "planned"}
    /\ stage # "lowering" => /\ Len(body) > 0 /\ body[Len(body)].op = "return"
                             /\ itv = [v \in allocs |-> lifetime(v)]
    /\ stage = "planned" => PlanOK

-----------------------------------------------------------------------------
(* The memory                                                              *)

Units == Nat \X Nat \X Nat
Blocks == [data : Seq(Units), live : BOOLEAN]
Pointers == [block : Nat, offset : Nat]

DynOut == {v \in Outputs : Dynamic(v)}
MemoryTyped ==
    /\ forwards \in Nat
    /\ ptr \in [Models -> [{0} \cup Ops -> Pointers]] /\ size \in [Models -> [Ops -> Nat]]
    /\ blocks \in Seq(Blocks) /\ Len(blocks) >= 2
    /\ Len(blocks[Arena].data) = tot /\ Len(blocks[Client].data) = ArgSize
PlacesKept ==
    \A m \in Models :
        /\ ptr[m][0] = At(Client, 0)
        /\ \A v \in Ops : Planned(v) => ptr[m][v] = At(Arena, addr[Root(v)] + Sum(v))

(* Beside these two, a block is the memory of one output of dynamic shape. *)
BlocksOwned ==
    /\ blocks[Arena].live /\ blocks[Client].live
    /\ \A m \in Models, v \in DynOut : ptr[m][v] # NULL =>
         /\ ptr[m][v].block \in 3..Len(blocks) /\ ptr[m][v].offset = 0
         /\ blocks[ptr[m][v].block].live /\ Len(blocks[ptr[m][v].block].data) = size[m][v]
    /\ \A m, k \in Models, v, w \in DynOut :
         ptr[m][v] # NULL /\ ptr[m][v].block = ptr[k][w].block => m = k /\ v = w
    /\ \A b \in 3..Len(blocks) : blocks[b].live => \E m \in Models, v \in DynOut : ptr[m][v].block = b
MemoryInv == stage = "planned" /\ MemoryTyped /\ PlacesKept /\ BlocksOwned

(* A run: tensors that are known hold what they are meant to hold, those   *)
(* that are planned as long as they are needed.                            *)
Needed(v, i) == \E j \in Ops : j >= i /\ v \in body[j].reads
HoldsAt(p, data) == \A c \in 1..Len(data) : blocks[p.block].data[p.offset + c] = data[c]
Inside == status \in {"computing", "writing"}
Busy(v) == Inside /\ Root(v) = Root(body[pc].to)
TensorOK(v) ==
    /\ ~Dynamic(v) => Len(meant[v]) = StaticSize(v)
    /\ v \in DynOut => Here[v] # NULL
    /\ ~Planned(v) =>
         /\ \E o \in Known(pc) \cap ({0} \cup DynOut) : Here[v].block = Here[o].block
         /\ Here[v].offset + Len(meant[v]) <= Len(blocks[Here[v].block].data)
    /\ (Planned(v) => Needed(v, pc)) /\ ~Busy(v) => HoldsAt(Here[v], meant[v])

(* A kernel that writes through a view leaves the rest of the copy alone.  *)
OutputOK ==
    LET to == body[pc].to
        root == Root(to)
    IN  /\ body[pc].op = "kernel"
        /\ InRange(Here[to], Len(meant[to]))
        /\ ~Dynamic(to) => Len(meant[to]) = StaticSize(to)
        /\ IsView(to) /\ Needed(root, pc) =>
             /\ \A c \in 1..Len(meant[to]) : meant[root][body[to].offset + c] = meant[to][c]
             /\ \A c \in 1..Len(meant[root]) : c - body[to].offset \notin 1..Len(meant[to]) =>
                  blocks[Arena].data[addr[root] + c] = meant[root][c]
RunInv ==
    /\ active \in Models /\ pc \in Ops /\ IsInstruction(pc)
    /\ meant \in [{0} \cup Ops -> Seq(Units)]
    /\ \A v \in Known(pc) : TensorOK(v)
    /\ Inside => OutputOK

Running == status \in {"running", "computing", "writing"}
IInv ==
    /\ PlanInv /\ forwards \in Nat
    /\ status \in {"none", "idle", "running", "computing", "writing", "destroyed"}
    /\ status = "idle" \/ Running => MemoryInv
    /\ Running => RunInv
    /\ status = "destroyed" => /\ stage = "planned" /\ PlacesKept
                               /\ \A b \in DOMAIN blocks : b # Client => ~blocks[b].live

-----------------------------------------------------------------------------
(* Memory, unit by unit                                                    *)

LEMMA SeqOver == ASSUME NEW S, NEW n \in Nat, NEW s \in [1..n -> S] PROVE s \in Seq(S) /\ Len(s) = n
  OBVIOUS

LEMMA ReplacedUnits ==
    ASSUME NEW data \in Seq(Units), NEW by \in Seq(Units), NEW k \in Nat
    PROVE  /\ Replaced(data, k, by) \in Seq(Units) /\ Len(Replaced(data, k, by)) = Len(data)
           /\ \A c \in 1..Len(data) :
                Replaced(data, k, by)[c] = IF c - k \in 1..Len(by) THEN by[c - k] ELSE data[c]
  <1>1. Len(data) \in Nat /\ DOMAIN data = 1..Len(data) /\ DOMAIN by = 1..Len(by)
    BY LenProperties
  <1>2. \A c \in 1..Len(data) : data[c] \in Units
    BY ElementOfSeq
  <1>3. \A c \in 1..Len(by) : by[c] \in Units
    BY ElementOfSeq
  <1>4. Replaced(data, k, by) = [c \in 1..Len(data) |-> IF c - k \in 1..Len(by) THEN by[c - k] ELSE data[c]]
    BY <1>1 DEF Replaced
  <1>5. Replaced(data, k, by) \in [1..Len(data) -> Units]
    BY <1>2, <1>3, <1>4
  <1> QED BY <1>1, <1>4, <1>5, SeqOver

LEMMA AnythingUnits ==
    ASSUME NEW n \in Nat
    PROVE  Anything(n) \in Seq(Units) /\ Len(Anything(n)) = n /\ Block(n) \in Blocks
  <1>1. Anything(n) \in [1..n -> Units]
    BY DEF Anything, Units
  <1>2. Anything(n) \in Seq(Units) /\ Len(Anything(n)) = n
    BY <1>1, SeqOver
  <1> QED BY <1>2 DEF Block, Blocks

LEMMA FreshUnits ==
    ASSUME forwards \in Nat, NEW i \in Nat, NEW n \in Nat
    PROVE  Fresh(i, n) \in Seq(Units) /\ Len(Fresh(i, n)) = n
  <1>1. Fresh(i, n) \in [1..n -> Units]
    BY DEF Fresh, Units
  <1> QED BY <1>1, SeqOver

LEMMA PartUnits ==
    ASSUME NEW data \in Seq(Units), NEW k \in Nat, NEW n \in Nat, k + n <= Len(data)
    PROVE  /\ Part(data, k, n) \in Seq(Units) /\ Len(Part(data, k, n)) = n
           /\ \A c \in 1..n : Part(data, k, n)[c] = data[k + c]
  <1>1. Len(data) \in Nat
    BY LenProperties
  <1>2. k + 1 \in Int /\ k + n \in Int /\ \A c \in k + 1..k + n : data[c] \in Units
    BY <1>1, ElementOfSeq
  <1>3. /\ SubSeq(data, k + 1, k + n) \in Seq(Units)
        /\ Len(SubSeq(data, k + 1, k + n)) = IF k + 1 <= k + n THEN (k + n) - (k + 1) + 1 ELSE 0
        /\ \A c \in 1..(k + n) - (k + 1) + 1 : SubSeq(data, k + 1, k + n)[c] = data[(k + 1) + c - 1]
    BY ONLY <1>2, SubSeqProperties
  <1>4. \A c \in 1..n : (k + 1) + c - 1 = k + c
    OBVIOUS
  <1> QED BY <1>3, <1>4 DEF Part

(* What a tensor holds, unit by unit, is what it holds.                    *)
LEMMA HoldsUnits ==
    ASSUME blocks \in Seq(Blocks), NEW p \in Pointers, NEW data \in Seq(Units),
           InRange(p, Len(data)), p.block \in 1..Len(blocks), HoldsAt(p, data)
    PROVE  Holds(p, data)
  <1>1. blocks[p.block].data \in Seq(Units) /\ p.offset \in Nat /\ Len(data) \in Nat
    <2>1. blocks[p.block] \in Blocks /\ Len(data) \in Nat
      BY ElementOfSeq, LenProperties
    <2> QED BY <2>1 DEF Blocks, Pointers
  <1>2. PICK d \in Seq(Units), k \in Nat, n \in Nat :
            d = blocks[p.block].data /\ k = p.offset /\ n = Len(data)
    BY <1>1
  <1>3. k + n <= Len(d)
    BY <1>2 DEF InRange
  <1>4. /\ Part(d, k, n) \in Seq(Units) /\ Len(Part(d, k, n)) = n
        /\ \A c \in 1..n : Part(d, k, n)[c] = d[k + c]
    BY <1>3, PartUnits
  <1>5. \A c \in 1..n : Part(d, k, n)[c] = data[c]
    BY <1>2, <1>4 DEF HoldsAt
  <1>6. Part(d, k, n) = data
    BY <1>2, <1>4, <1>5, SeqEqual
  <1> QED BY <1>2, <1>6 DEF Holds

IsWritten(bs, p, by, cs) ==
    /\ cs \in Seq(Blocks) /\ Len(cs) = Len(bs)
    /\ \A b \in 1..Len(bs) : cs[b].live = bs[b].live /\ Len(cs[b].data) = Len(bs[b].data)
    /\ \A b \in 1..Len(bs) : \A c \in 1..Len(bs[b].data) :
         cs[b].data[c] =
             IF b = p.block /\ c - p.offset \in 1..Len(by) THEN by[c - p.offset] ELSE bs[b].data[c]

LEMMA WriteWrites ==
    ASSUME NEW bs \in Seq(Blocks), NEW p \in Pointers, p.block \in 1..Len(bs), NEW by \in Seq(Units)
    PROVE  IsWritten(bs, p, by, Write(bs, p, by))
  <1>1. PICK q \in 1..Len(bs), k \in Nat : q = p.block /\ k = p.offset
    BY DEF Pointers
  <1>2. bs[q] \in Blocks /\ \A b \in 1..Len(bs) : bs[b] \in Blocks
    BY ElementOfSeq
  <1>3. PICK d \in Seq(Units), e \in Seq(Units) : d = bs[q].data /\ e = Replaced(d, k, by)
    BY <1>2, ReplacedUnits DEF Blocks
  <1>4. /\ Len(e) = Len(d)
        /\ \A c \in 1..Len(d) : e[c] = IF c - k \in 1..Len(by) THEN by[c - k] ELSE d[c]
    BY <1>3, ReplacedUnits
  <1>5. PICK new : new = [bs[q] EXCEPT !.data = e]
    OBVIOUS
  <1>6. new \in Blocks /\ new.data = e /\ new.live = bs[q].live
    BY <1>2, <1>3, <1>5 DEF Blocks
  <1>7. Write(bs, p, by) = [bs EXCEPT ![q] = new]
    BY <1>1, <1>3, <1>5 DEF Write
  <1>8. /\ [bs EXCEPT ![q] = new] \in Seq(Blocks)
        /\ Len([bs EXCEPT ![q] = new]) = Len(bs)
        /\ \A b \in 1..Len(bs) : [bs EXCEPT ![q] = new][b] = IF b = q THEN new ELSE bs[b]
    BY <1>6, ExceptSeq
  <1> QED BY <1>1, <1>3, <1>4, <1>6, <1>7, <1>8 DEF IsWritten

-----------------------------------------------------------------------------
(* Tensors of a function                                                   *)

LEMMA BodyTyped ==
    ASSUME body \in Seq(Operations)
    PROVE  /\ Len(body) \in Nat /\ Ops = 1..Len(body) /\ 0 \notin Ops
           /\ \A i \in Ops : body[i] \in Operations
           /\ \A i \in Ops : /\ body[i].op \in OpNames /\ body[i].reads \subseteq Nat
                             /\ body[i].to \in Nat /\ body[i].workspace \in Nat
                             /\ body[i].size \in Nat /\ body[i].root \in Nat
                             /\ body[i].offset \in Nat /\ body[i].sum \in Nat
  <1>1. Len(body) \in Nat /\ Ops = 1..Len(body)
    BY LenProperties DEF Ops
  <1>2. \A i \in Ops : body[i] \in Operations
    BY <1>1, ElementOfSeq
  <1>3. 0 \notin Ops
    BY <1>1
  <1> QED BY <1>1, <1>2, <1>3 DEF Operations

IsTensor(v) == v = 0 \/ v \in Is("alloc") \cup Is("dynamic") \cup Is("view")

LEMMA TensorTyped ==
    ASSUME BodyOK, NEW v, IsTensor(v)
    PROVE  /\ v \in {0} \cup Ops /\ v \in Nat
           /\ StaticSize(v) \in Nat /\ Sum(v) \in Nat /\ Root(v) \in {0} \cup Ops /\ Root(v) <= v
           /\ ~IsView(v) => Root(v) = v /\ Sum(v) = 0
           /\ IsView(v) => v \in Is("view") /\ Root(v) \in {0} \cup allocs /\ ~Dynamic(v)
           /\ Planned(v) => Root(v) \in allocs /\ v \in Ops /\ ~Dynamic(v)
           /\ ~Dynamic(v) => StaticSize(v) > 0 /\ Sum(v) + StaticSize(v) <= StaticSize(Root(v))
  <1>1. body \in Seq(Operations) /\ \A i \in Ops : OpOK(i)
    BY DEF BodyOK
  <1>2. ArgSize \in Nat /\ ArgSize > 0
    BY SizesAssumption
  <1>3. CASE v = 0
    <2>1. ~IsView(v) /\ v \notin Ops
      BY <1>1, <1>3, BodyTyped DEF IsView
    <2>2. Root(v) = 0 /\ Sum(v) = 0 /\ StaticSize(v) = ArgSize /\ ~Planned(v) /\ StaticSize(Root(v)) = ArgSize
      BY <2>1, <1>3, <1>1, BodyTyped DEF Root, Sum, StaticSize, Planned, Is, allocs
    <2> QED BY <2>1, <2>2, <1>2, <1>3
  <1>4. CASE v \in Ops /\ body[v].op \in {"alloc", "dynamic"}
    <2>1. v # 0 /\ v \in Nat /\ body[v].size \in Nat /\ ~IsView(v)
      BY <1>1, <1>4, BodyTyped DEF IsView
    <2>2. Root(v) = v /\ Sum(v) = 0 /\ StaticSize(v) = body[v].size
      BY <2>1 DEF Root, Sum, StaticSize
    <2>3. Planned(v) => ~Dynamic(v)
      BY <2>2 DEF Planned, Dynamic, Is, allocs
    <2>4. ~Dynamic(v) => body[v].size > 0
      BY <1>1, <1>4 DEF Dynamic, Is, OpOK
    <2> QED BY <1>4, <2>1, <2>2, <2>3, <2>4 DEF Planned
  <1>5. CASE v \in Ops /\ body[v].op = "view"
    <2>1. v # 0 /\ v \in Nat /\ body[v].size \in Nat /\ body[v].sum \in Nat /\ IsView(v)
      BY <1>1, <1>5, BodyTyped DEF IsView
    <2>2. Root(v) = body[v].root /\ Sum(v) = body[v].sum /\ StaticSize(v) = body[v].size
      BY <2>1 DEF Root, Sum, StaticSize
    <2>3. ViewOK(v)
      BY <1>1, <1>5 DEF OpOK
    <2>4. /\ body[v].root \in {0} \cup allocs /\ body[v].root < v
          /\ body[v].sum + body[v].size <= StaticSize(body[v].root)
      BY <2>3 DEF ViewOK
    <2>5. allocs \subseteq Ops /\ ~Dynamic(v) /\ v \in Is("view")
      BY <1>5 DEF allocs, Is, Dynamic
    <2>6. body[v].root <= v /\ body[v].size > 0
      BY <1>1, <2>1, <2>4, <1>5, BodyTyped DEF OpOK
    <2> QED BY <1>5, <2>1, <2>2, <2>4, <2>5, <2>6 DEF Planned
  <1> QED BY <1>3, <1>4, <1>5 DEF IsTensor, Is

LEMMA KnownTensor ==
    ASSUME BodyOK, NEW i, NEW v \in Known(i)
    PROVE  IsTensor(v) /\ (v # 0 => v < i)
  <1>1. body \in Seq(Operations) /\ \A j \in Ops : OpOK(j)
    BY DEF BodyOK
  <1>2. ASSUME NEW j \in Ops, Writes(j, v) PROVE IsTensor(v)
    BY <1>1, <1>2 DEF Writes, Is, OpOK, KernelOK, ReshapeOK, IsTensor
  <1>3. IsView(v) /\ v \in Ops => IsTensor(v)
    BY DEF IsView, IsTensor, Is
  <1> QED BY <1>2, <1>3 DEF Known, IsTensor

LEMMA KnownGrows == ASSUME BodyOK, NEW i \in Nat, NEW j \in Nat, i <= j PROVE Known(i) \subseteq Known(j)
  <1>1. Ops \subseteq Nat
    BY BodyTyped DEF BodyOK
  <1>2. \A k \in Ops : k < i => k < j
    BY <1>1
  <1> QED BY <1>2 DEF Known

(* What is needed from an instruction on is in use there.                  *)
LEMMA NeededInUse ==
    ASSUME BodyOK, NEW i \in Nat, NEW v \in Known(i), Planned(v), Needed(v, i)
    PROVE  InUse(Root(v), i)
  <1>1. IsTensor(v) /\ (v # 0 => v < i)
    BY KnownTensor
  <1>2. v \in Ops /\ v \in Nat /\ Root(v) \in Ops /\ Root(v) \in Nat /\ Root(v) <= v
    <2>1. v \in Ops /\ v \in Nat /\ Root(v) \in allocs /\ Root(v) <= v
      BY <1>1, TensorTyped
    <2>2. allocs \subseteq Ops /\ Ops \subseteq Nat
      BY BodyTyped DEF BodyOK, allocs, Is
    <2> QED BY <2>1, <2>2
  <1>3. v # 0
    BY <1>2, BodyTyped DEF BodyOK
  <1>4. Root(v) <= i
    BY <1>1, <1>2, <1>3
  <1>5. v \in aliases(Root(v))
    BY <1>2 DEF aliases
  <1>6. PICK j \in Ops : j >= i /\ v \in body[j].reads
    BY DEF Needed
  <1>7. Uses(j, v)
    BY <1>6 DEF Uses
  <1> QED BY <1>4, <1>5, <1>6, <1>7 DEF InUse

LEMMA OutputInUse ==
    ASSUME BodyOK, NEW i \in Is("kernel")
    PROVE  /\ Planned(body[i].to) => InUse(Root(body[i].to), i)
           /\ body[i].workspace # 0 => InUse(body[i].workspace, i) /\ body[i].workspace \in allocs
           /\ IsTensor(body[i].to) /\ body[i].to \in Ops
  <1>1. i \in Ops /\ KernelOK(i)
    BY DEF BodyOK, OpOK, Is
  <1>2. Ops \subseteq Nat /\ 0 \notin Ops
    BY BodyTyped DEF BodyOK
  <1> DEFINE to == body[i].to
             w == body[i].workspace
  <1>3. IsTensor(to) /\ to < i /\ to \in Ops
    BY <1>1 DEF KernelOK, IsTensor, Is
  <1>4. Root(to) \in {0} \cup Ops /\ Root(to) <= to /\ Root(to) \in Nat
    <2>1. Root(to) \in {0} \cup Ops /\ Root(to) <= to
      BY <1>3, TensorTyped
    <2>2. \A x \in {0} \cup Ops : x \in Nat
      BY <1>2
    <2> QED BY <2>1, <2>2
  <1>5. to \in aliases(Root(to)) /\ Uses(i, to)
    BY <1>3 DEF aliases, Uses
  <1>6. Root(to) <= i
    <2>1. i \in Nat /\ to \in Nat
      BY <1>1, <1>2, <1>3
    <2> QED BY <2>1, <1>3, <1>4
  <1>7. ASSUME w # 0 PROVE InUse(w, i) /\ w \in allocs
    <2>1. w \in allocs /\ w < i
      BY <1>1, <1>7 DEF KernelOK
    <2>2. w \in Ops /\ body[w].op = "alloc" /\ ~IsView(w)
      BY <2>1 DEF allocs, Is, IsView
    <2>3. w \in aliases(w) /\ Uses(i, w) /\ w <= i
      <3>1. w \in aliases(w)
        BY <2>2 DEF aliases, Root
      <3>2. Uses(i, w)
        BY DEF Uses
      <3>3. w \in Nat /\ i \in Nat
        BY <1>1, <1>2, <2>2
      <3> QED BY <2>1, <3>1, <3>2, <3>3
    <2>4. i \in Ops /\ i >= i
      BY <1>1, <1>2
    <2> QED BY <2>1, <2>3, <2>4 DEF InUse
  <1>8. i >= i
    BY <1>1, <1>2
  <1> QED BY <1>1, <1>3, <1>5, <1>6, <1>7, <1>8 DEF InUse

(* The next instruction, and what it knows more.                           *)
LEMMA LeastExists ==
    ASSUME NEW T \in SUBSET Nat, T # {}
    PROVE  \E m \in T : \A n \in T : m <= n
  <1> DEFINE R == {p \in Nat \X Nat : p[1] < p[2]}
  <1>1. IsWellFoundedOn(R, Nat)
    BY NatLessThanWellFounded DEF OpToRel
  <1>2. PICK m \in T : \A n \in T : ~ (<<n, m>> \in R)
    <2> HIDE DEF R
    <2> QED BY <1>1, WFMin
  <1>3. ASSUME NEW n \in T, n < m PROVE FALSE
    BY <1>2, <1>3
  <1> QED BY <1>3

LEMMA NextInstruction ==
    ASSUME BodyOK, Len(body) > 0, body[Len(body)].op = "return", NEW i \in Nat, i < Len(body)
    PROVE  /\ After(i) \in Ops /\ i < After(i) /\ IsInstruction(After(i))
           /\ \A k \in Ops : i < k /\ k < After(i) => ~IsInstruction(k)
  <1>1. Len(body) \in Nat /\ Ops = 1..Len(body)
    BY BodyTyped DEF BodyOK
  <1> DEFINE T == {j \in Ops : j > i /\ IsInstruction(j)}
  <1>2. PICK m \in T : \A n \in T : m <= n
    <2>1. T \in SUBSET Nat
      BY <1>1
    <2>2. Len(body) \in T
      BY <1>1 DEF IsInstruction
    <2> HIDE DEF T
    <2> QED BY <2>1, <2>2, LeastExists
  <1>3. \A k \in i + 1..m - 1 : ~IsInstruction(k)
    <2> SUFFICES ASSUME NEW k \in i + 1..m - 1, IsInstruction(k) PROVE FALSE
      OBVIOUS
    <2>1. m \in Nat /\ m <= Len(body)
      BY <1>1, <1>2
    <2>2. k \in Ops /\ k > i /\ ~(m <= k)
      BY <1>1, <2>1
    <2> QED BY <1>2, <2>2
  <1>4. \E j \in Ops : j > i /\ IsInstruction(j) /\ \A k \in i + 1..j - 1 : ~IsInstruction(k)
    BY <1>2, <1>3
  <1>5. /\ After(i) \in Ops /\ After(i) > i /\ IsInstruction(After(i))
        /\ \A k \in i + 1..After(i) - 1 : ~IsInstruction(k)
    BY <1>4 DEF After
  <1>6. PICK a \in Nat : a = After(i)
    BY <1>1, <1>5
  <1>7. \A k \in Ops : i < k /\ k < a => k \in i + 1..a - 1
    BY <1>1, <1>6
  <1> QED BY <1>1, <1>5, <1>6, <1>7

LEMMA KnownAfter ==
    ASSUME BodyOK, Len(body) > 0, body[Len(body)].op = "return", NEW i \in Nat, i < Len(body),
           NEW v \in Known(After(i))
    PROVE  v \in Known(i) \/ (i \in Ops /\ Writes(i, v)) \/ (v = i /\ v \in Ops /\ IsView(v) /\ \A j \in Ops : ~Writes(j, v))
  <1>1. /\ After(i) \in Ops /\ i < After(i)
        /\ \A k \in Ops : i < k /\ k < After(i) => ~IsInstruction(k)
    BY NextInstruction
  <1>2. Ops \subseteq Nat
    BY BodyTyped DEF BodyOK
  <1>3. \A j, u : Writes(j, u) => j \in Ops /\ IsInstruction(j)
    BY DEF Writes, Is, IsInstruction
  <1>4. IsView(v) => IsInstruction(v)
    BY DEF IsView, IsInstruction
  <1>5. ASSUME NEW j \in Ops, j < After(i), Writes(j, v), v \in Ops, v < After(i)
        PROVE  v \in Known(i) \/ (i \in Ops /\ Writes(i, v))
    <2>1. j <= i
      BY <1>1, <1>2, <1>3, <1>5
    <2>2. v < j
      BY <1>5 DEF Writes, Is, BodyOK, OpOK, KernelOK, ReshapeOK
    <2>3. CASE j = i
      BY <1>5, <2>3
    <2>4. CASE j # i
      <3>1. j < i /\ v < i
        BY <1>2, <1>5, <2>1, <2>2, <2>4
      <3> QED BY <1>5, <3>1 DEF Known
    <2> QED BY <2>3, <2>4
  <1>6. ASSUME v \in Ops, v < After(i), IsView(v), \A j \in Ops : ~Writes(j, v)
        PROVE  v \in Known(i) \/ v = i
    <2>1. v <= i
      BY <1>1, <1>2, <1>4, <1>6
    <2>2. v = i \/ v < i
      <3>1. v \in Nat
        BY <1>2, <1>6
      <3> QED BY <2>1, <3>1
    <2> QED BY <1>6, <2>2 DEF Known
  <1> QED BY <1>5, <1>6 DEF Known

-----------------------------------------------------------------------------
(* The lowering                                                            *)

LEMMA TensorsKnown ==
    ASSUME BodyOK
    PROVE  Tensors \subseteq Known(Len(body) + 1)
  <1>1. Len(body) \in Nat /\ Ops = 1..Len(body)
    BY BodyTyped DEF BodyOK
  <1>2. \A i \in Ops : i < Len(body) + 1
    BY <1>1
  <1>3. ASSUME NEW v \in Written PROVE v \in Known(Len(body) + 1)
    <2>1. PICK j \in Ops : Writes(j, v)
      BY DEF Written, Writes, Is
    <2>2. v \in Ops
      BY <2>1 DEF Writes, Is, BodyOK, OpOK, KernelOK, ReshapeOK
    <2> QED BY <1>2, <2>1, <2>2 DEF Known
  <1>4. ASSUME NEW v \in Is("view"), v \notin Written PROVE v \in Known(Len(body) + 1)
    <2>1. v \in Ops /\ IsView(v)
      BY <1>1 DEF Is, IsView
    <2>2. \A j \in Ops : ~Writes(j, v)
      BY <1>4 DEF Written, Writes
    <2> QED BY <1>2, <2>1, <2>2 DEF Known
  <1> QED BY <1>3, <1>4 DEF Tensors, Known

(* New operations write new tensors, and view no workspace.                *)
Extended ==
    /\ body' \in Seq(Operations) /\ Len(body) <= Len(body')
    /\ \A i \in Ops : body'[i] = body[i] /\ body[i].op # "return"
    /\ \A i \in Ops' : i > Len(body) =>
         /\ body'[i].op \in {"kernel", "reshape"} => body'[i].to > Len(body)
         /\ body'[i].op = "view" =>
              \A j \in Is("kernel") : body[j].workspace # 0 => body'[i].root # body[j].workspace

LEMMA ExtendedOps ==
    ASSUME BodyOK, Extended
    PROVE  /\ Len(body) \in Nat /\ Len(body') \in Nat /\ Ops = 1..Len(body) /\ Ops' = 1..Len(body')
           /\ Ops \subseteq Ops' /\ 0 \notin Ops' /\ \A i \in Ops' : i \in Ops <=> ~(i > Len(body))
           /\ \A i \in Ops' : body'[i].to \in Nat
  <1>1. Len(body) \in Nat /\ Ops = 1..Len(body)
    BY BodyTyped DEF BodyOK
  <1>2. Len(body') \in Nat /\ Ops' = 1..Len(body')
    BY LenProperties DEF Extended, Ops
  <1>3. \A i \in Ops' : body'[i] \in Operations
    BY <1>2, ElementOfSeq DEF Extended
  <1>4. \A i \in Ops' : body'[i].to \in Nat
    BY <1>3 DEF Operations
  <1> QED BY <1>1, <1>2, <1>4 DEF Extended

LEMMA ExtendedTensors ==
    ASSUME BodyOK, Extended
    PROVE  /\ \A v \in {0} \cup Ops : /\ Root(v)' = Root(v) /\ (IsView(v)' <=> IsView(v))
                                      /\ (Dynamic(v)' <=> Dynamic(v))
                                      /\ StaticSize(v)' = StaticSize(v) /\ Sum(v)' = Sum(v)
           /\ \A i \in Ops, name \in OpNames : i \in Is(name)' <=> i \in Is(name)
           /\ \A i \in Ops : \A v : Writes(i, v)' <=> Writes(i, v)
           /\ \A i \in Ops', v \in {0} \cup Ops : i \notin Ops => ~Writes(i, v)'
  <1>1. /\ Len(body) \in Nat /\ Ops \subseteq Ops' /\ 0 \notin Ops' /\ Ops = 1..Len(body)
        /\ \A i \in Ops : body'[i] = body[i]
        /\ \A i \in Ops' : (i \in Ops <=> ~(i > Len(body))) /\ body'[i].to \in Nat
    BY ExtendedOps DEF Extended
  <1>2. \A i \in Ops, name \in OpNames : i \in Is(name)' <=> i \in Is(name)
    BY <1>1 DEF Is
  <1>3. \A v \in {0} \cup Ops : IsView(v)' <=> IsView(v)
    BY <1>1 DEF IsView
  <1>4. \A v \in {0} \cup Ops : /\ Root(v)' = Root(v) /\ StaticSize(v)' = StaticSize(v)
                                /\ Sum(v)' = Sum(v)
    <2> SUFFICES ASSUME NEW v \in {0} \cup Ops
                 PROVE  Root(v)' = Root(v) /\ StaticSize(v)' = StaticSize(v) /\ Sum(v)' = Sum(v)
      OBVIOUS
    <2>1. CASE v = 0
      BY <2>1 DEF Root, StaticSize, Sum, IsView
    <2>2. CASE v \in Ops
      <3>1. body'[v] = body[v] /\ (IsView(v)' <=> IsView(v))
        BY <1>1, <1>3, <2>2
      <3> QED BY <3>1 DEF Root, StaticSize, Sum
    <2> QED BY <2>1, <2>2
  <1>5. \A v \in {0} \cup Ops : Dynamic(v)' <=> Dynamic(v)
    BY <1>1 DEF Dynamic, Is
  <1>6. \A i \in Ops : \A v : Writes(i, v)' <=> Writes(i, v)
    BY <1>1 DEF Writes, Is
  <1>7. ASSUME NEW i \in Ops', NEW v \in {0} \cup Ops, i \notin Ops, Writes(i, v)' PROVE FALSE
    <2>1. body'[i].op \in {"kernel", "reshape"} /\ body'[i].to = v
      BY <1>7 DEF Writes, Is
    <2>2. v > Len(body)
      BY <1>1, <1>7, <2>1 DEF Extended
    <2> QED BY <1>1, <2>2
  <1> QED BY <1>2, <1>3, <1>4, <1>5, <1>6, <1>7

(* Instructions know what they knew; a new one, before any new tensor is   *)
(* there, all tensors.                                                     *)
LEMMA ExtendedKnown ==
    ASSUME BodyOK, Extended
    PROVE  /\ \A i \in Ops : Known(i)' = Known(i)
           /\ \A i \in Nat : i > Len(body) /\ i <= Len(body') + 1
                 /\ (\A j \in Ops' : j > Len(body) /\ j < i => body'[j].op \in {"alloc", "dynamic"})
                 => Known(i)' = Known(Len(body) + 1)
           /\ \A i \in Nat : i > Len(body) => Known(Len(body) + 1) \subseteq Known(i)'
  <1>1. /\ Len(body) \in Nat /\ Len(body') \in Nat /\ Ops \subseteq Ops' /\ 0 \notin Ops'
        /\ Ops = 1..Len(body) /\ Ops' = 1..Len(body')
        /\ \A i \in Ops' : i \in Ops <=> ~(i > Len(body))
    BY ExtendedOps
  <1>2. /\ \A v \in {0} \cup Ops : IsView(v)' <=> IsView(v)
        /\ \A i \in Ops : \A v : Writes(i, v)' <=> Writes(i, v)
        /\ \A i \in Ops', v \in {0} \cup Ops : i \notin Ops => ~Writes(i, v)'
    BY ExtendedTensors
  <1>3. \A v \in Ops : (\A j \in Ops' : ~Writes(j, v)') <=> (\A j \in Ops : ~Writes(j, v))
    BY <1>1, <1>2
  <1>4. ASSUME NEW i \in Ops PROVE Known(i)' = Known(i)
    <2>1. \A j \in Ops' : j < i => j \in Ops
      BY <1>1, <1>4
    <2> QED BY <1>1, <1>2, <1>3, <2>1 DEF Known
  <1>5. ASSUME NEW i \in Nat, i > Len(body), i <= Len(body') + 1,
               \A j \in Ops' : j > Len(body) /\ j < i => body'[j].op \in {"alloc", "dynamic"}
        PROVE  Known(i)' = Known(Len(body) + 1)
    <2>1. \A j \in Ops' : \A v : j < i /\ Writes(j, v)' => j \in Ops
      BY <1>1, <1>5 DEF Writes, Is
    <2>2. \A v \in Ops' : v < i /\ IsView(v)' => v \in Ops
      BY <1>1, <1>5 DEF IsView
    <2>3. \A j \in Ops : j < i /\ j < Len(body) + 1
      BY <1>1, <1>5
    <2>4. \A j, v : Writes(j, v) => v \in Ops
      BY DEF Writes, Is, BodyOK, OpOK, KernelOK, ReshapeOK
    <2> QED BY <1>1, <1>2, <1>3, <2>1, <2>2, <2>3, <2>4 DEF Known
  <1>6. ASSUME NEW i \in Nat, i > Len(body), NEW v \in Known(Len(body) + 1)
        PROVE  v \in Known(i)'
    <2>1. \A j \in Ops : j < i /\ j < Len(body) + 1
      BY <1>1, <1>6
    <2> QED BY <1>1, <1>2, <1>3, <1>6, <2>1 DEF Known
  <1> QED BY <1>4, <1>5, <1>6

LEMMA ExtendedOK ==
    ASSUME BodyOK, Extended, NEW i \in Ops
    PROVE  OpOK(i)'
  <1>1. /\ Ops \subseteq Ops' /\ body'[i] = body[i] /\ body[i].op # "return" /\ OpOK(i)
        /\ 0 \notin Ops
    BY ExtendedOps DEF BodyOK, Extended
  <1>2. Known(i)' = Known(i)
    BY ExtendedKnown
  <1>3. /\ \A v \in {0} \cup Ops : /\ Root(v)' = Root(v) /\ (IsView(v)' <=> IsView(v))
                                   /\ (Dynamic(v)' <=> Dynamic(v))
                                   /\ StaticSize(v)' = StaticSize(v) /\ Sum(v)' = Sum(v)
        /\ \A v \in Ops, name \in OpNames : v \in Is(name)' <=> v \in Is(name)
        /\ \A v \in Ops : v \in allocs' <=> v \in allocs
    BY ExtendedTensors DEF allocs, OpNames
  <1>4. \A j : Known(j) \subseteq {0} \cup Ops
    BY DEF Known
  <1>5. \A j \in Ops : body'[j] = body[j]
    BY DEF Extended
  <1>6. CASE body[i].op = "view"
    <2>1. ViewOK(i)
      BY <1>1, <1>6 DEF OpOK
    <2>2. body[i].root \in {0} \cup Ops
      BY <2>1 DEF ViewOK, allocs, Is
    <2>3. body'[i].root \in {0} \cup allocs'
      BY <1>1, <1>3, <2>1, <2>2 DEF ViewOK
    <2>4. StaticSize(body[i].root)' = StaticSize(body[i].root)
      <3>1. PICK r : r = body[i].root /\ r = body'[i].root /\ r \in {0} \cup Ops
        BY <1>1, <2>2
      <3>2. StaticSize(r)' = StaticSize(r)
        BY <1>3, <3>1
      <3> QED BY <3>1, <3>2
    <2>5. \E s \in Known(i)' :
         /\ body'[i].reads = {s} /\ ~Dynamic(s)' /\ body'[i].root = Root(s)'
         /\ body'[i].offset + body'[i].size <= StaticSize(s)'
         /\ body'[i].sum = body'[i].offset + Sum(s)'
      BY <1>1, <1>2, <1>3, <1>4, <2>1 DEF ViewOK
    <2>6. ViewOK(i)'
      <3>1. body'[i].root < i /\ body'[i].sum + body'[i].size <= StaticSize(body[i].root)'
        BY <1>1, <2>1, <2>4 DEF ViewOK
      <3> QED BY <2>3, <2>5, <3>1 DEF ViewOK
    <2> QED BY <1>1, <1>6, <2>6 DEF OpOK
  <1>7. CASE body[i].op = "kernel"
    <2>0. PICK to, w : to = body[i].to /\ w = body[i].workspace
      OBVIOUS
    <2>1. KernelOK(i)
      BY <1>1, <1>7 DEF OpOK
    <2>2. to \in Ops /\ body'[to] = body[to] /\ body'[i].to = to /\ body'[i].workspace = w
      BY <1>1, <1>5, <2>0, <2>1 DEF KernelOK, Is
    <2>3. Root(to)' = Root(to) /\ (IsView(to)' <=> IsView(to)) /\ Known(to)' = Known(to)
      BY <1>3, <2>2, ExtendedKnown
    <2>4. to \in Is("alloc")' \cup Is("dynamic")' \cup Is("view")'
      BY <2>0, <1>3, <2>1, <2>2 DEF KernelOK, OpNames
    <2>5. \A v \in Known(i) : Root(v)' = Root(v)
      BY <1>3, <1>4
    <2>6. IsView(to)' => /\ Root(to)' \in allocs' \cap Known(to)'
                         /\ body'[to].reads = {Root(to)'} /\ body'[to].sum = body'[to].offset
      BY <2>0, <1>3, <2>1, <2>2, <2>3 DEF KernelOK, allocs, Is
    <2>7. ASSUME w # 0
          PROVE  /\ w \in allocs' /\ w < i /\ w # Root(to)'
                 /\ \A j \in Ops' : ~Writes(j, w)' /\ (IsView(j)' => body'[j].root # w)
      <3>1. /\ w \in allocs /\ w \in Ops /\ w < i /\ w # Root(to)
            /\ \A j \in Ops : ~Writes(j, w) /\ (IsView(j) => body[j].root # w)
        BY <2>0, <2>1, <2>7 DEF KernelOK, allocs, Is
      <3>2. \A j \in Ops' : ~Writes(j, w)'
        BY <3>1, ExtendedTensors
      <3>3. ASSUME NEW j \in Ops', IsView(j)' PROVE body'[j].root # w
        <4>1. CASE j \in Ops
          BY <1>3, <1>5, <3>1, <3>3, <4>1
        <4>2. CASE j \notin Ops
          <5>1. j > Len(body) /\ body'[j].op = "view" /\ i \in Is("kernel")
            BY <1>7, <3>3, <4>2, ExtendedOps DEF IsView, Is
          <5> QED BY <2>0, <2>7, <5>1 DEF Extended
        <4> QED BY <4>1, <4>2
      <3> QED BY <1>3, <2>3, <3>1, <3>2, <3>3
    <2>8. KernelOK(i)'
      <3>1. to < i /\ body'[i].reads \subseteq Known(i)' /\ body'[i].reads = body[i].reads
        BY <2>0, <1>1, <1>2, <2>1 DEF KernelOK
      <3>2. \A v \in Known(i)' : Root(v)' = Root(to)' => IsView(to)' /\ v = Root(to)'
        BY <2>0, <1>2, <2>1, <2>3, <2>5 DEF KernelOK
      <3>3. \A v \in body'[i].reads : Root(v)' # Root(to)'
        BY <2>0, <1>1, <2>1, <2>3, <2>5 DEF KernelOK
      <3> QED BY <2>2, <2>4, <2>6, <2>7, <3>1, <3>2, <3>3 DEF KernelOK
    <2> QED BY <1>1, <1>7, <2>8 DEF OpOK
  <1>8. CASE body[i].op = "reshape"
    <2>1. ReshapeOK(i)
      BY <1>1, <1>8 DEF OpOK
    <2>2. body[i].to \in Is("dynamic")'
      BY <1>3, <2>1 DEF ReshapeOK, Is, OpNames
    <2>3. PICK s \in Known(i) : body[i].reads = {s} /\ Root(s) \notin allocs
      BY <2>1 DEF ReshapeOK
    <2>4. IsTensor(s) /\ Root(s) \in {0} \cup Ops /\ Root(s)' = Root(s)
      BY <1>3, <1>4, KnownTensor, TensorTyped
    <2>5. Root(s)' \notin allocs'
      <3>1. 0 \notin allocs'
        BY ExtendedOps DEF allocs, Is
      <3> QED BY <1>3, <2>3, <2>4, <3>1
    <2>6. ReshapeOK(i)'
      BY <1>1, <1>2, <2>1, <2>2, <2>3, <2>5 DEF ReshapeOK
    <2> QED BY <1>1, <1>8, <2>6 DEF OpOK
  <1>9. CASE body[i].op \notin {"view", "kernel", "reshape"}
    BY <1>1, <1>9 DEF OpOK
  <1> QED BY <1>6, <1>7, <1>8, <1>9

NewOK == \A i \in Ops' : i > Len(body) => OpOK(i)'
NewWriters ==
    \A i, j \in Ops' :
        i > Len(body) /\ j > Len(body) /\ i # j
            /\ body'[i].op \in {"kernel", "reshape"} /\ body'[j].op \in {"kernel", "reshape"}
        => body'[i].to # body'[j].to

LEMMA Lowered ==
    ASSUME BodyOK, Extended, NewOK, NewWriters
    PROVE  BodyOK'
  <1>1. \A i \in Ops' : i \in Ops \/ i > Len(body)
    BY ExtendedOps
  <1>2. \A i \in Ops' : OpOK(i)'
    BY <1>1, ExtendedOK DEF NewOK
  <1>3. ASSUME NEW i \in Ops', NEW j \in Ops', NEW v \in Ops', Writes(i, v)', Writes(j, v)'
        PROVE  i = j
    <2>1. \A k \in Ops' : Writes(k, v)' => body'[k].op \in {"kernel", "reshape"} /\ body'[k].to = v
      BY DEF Writes, Is
    <2>2. \A k \in Ops : Writes(k, v)' => v \in Ops /\ Writes(k, v)
      <3>1. \A k \in Ops : Writes(k, v)' => Writes(k, v)
        BY ExtendedTensors
      <3> QED BY <3>1 DEF Writes, Is, BodyOK, OpOK, KernelOK, ReshapeOK
    <2>3. \A k \in Ops' : v \in Ops /\ Writes(k, v)' => k \in Ops
      BY ExtendedTensors
    <2>4. CASE i \in Ops \/ j \in Ops
      <3>1. v \in Ops /\ i \in Ops /\ j \in Ops /\ Writes(i, v) /\ Writes(j, v)
        BY <1>3, <2>2, <2>3, <2>4
      <3> QED BY <3>1 DEF BodyOK, OneWriter
    <2>5. CASE i \notin Ops /\ j \notin Ops
      BY <1>1, <1>3, <2>1, <2>5 DEF NewWriters
    <2> QED BY <2>4, <2>5
  <1> QED BY <1>2, <1>3 DEF BodyOK, OneWriter, Extended

LEMMA Emitted ==
    ASSUME BodyOK, NEW ops \in Seq(Operations), Emit(ops)
    PROVE  /\ Len(body) \in Nat /\ Len(ops) \in Nat /\ Ops = 1..Len(body)
           /\ body' \in Seq(Operations) /\ Len(body') = Len(body) + Len(ops)
           /\ Ops' = 1..Len(body) + Len(ops)
           /\ \A i \in Ops : body'[i] = body[i] /\ body[i].op # "return"
           /\ \A k \in 1..Len(ops) : body'[Len(body) + k] = ops[k]
  <1>1. body \in Seq(Operations) /\ body' = body \o ops
    BY DEF Emit, BodyOK
  <1>2. Len(body) \in Nat /\ Len(ops) \in Nat /\ Ops = 1..Len(body)
    BY <1>1, BodyTyped, LenProperties
  <1>3. /\ body' \in Seq(Operations) /\ Len(body') = Len(body) + Len(ops)
        /\ \A i \in 1..Len(body) + Len(ops) :
             body'[i] = IF i <= Len(body) THEN body[i] ELSE ops[i - Len(body)]
    BY <1>1, ConcatProperties
  <1>4. Ops' = 1..Len(body) + Len(ops)
    BY <1>3, LenProperties DEF Ops
  <1>5. \A i \in Ops : body'[i] = body[i]
    BY <1>2, <1>3
  <1>6. \A k \in 1..Len(ops) : body'[Len(body) + k] = ops[k]
    BY <1>2, <1>3
  <1> QED BY <1>2, <1>3, <1>4, <1>5, <1>6 DEF Emit

(* The operations.                                                         *)
LEMMA OperationsTyped ==
    /\ \A s \in Nat : /\ AllocOp(s) \in Operations /\ AllocOp(s).op = "alloc" /\ AllocOp(s).size = s
    /\ DynamicAlloc \in Operations /\ DynamicAlloc.op = "dynamic"
    /\ \A reads \in SUBSET Nat, to \in Nat :
         /\ Kernel(reads, to) \in Operations /\ Kernel(reads, to).op = "kernel"
         /\ Kernel(reads, to).reads = reads /\ Kernel(reads, to).to = to
         /\ Kernel(reads, to).workspace = 0
    /\ \A reads \in SUBSET Nat, to, w \in Nat :
         \E k \in Operations : /\ k = [Kernel(reads, to) EXCEPT !.workspace = w] /\ k.op = "kernel"
                                /\ k.reads = reads /\ k.to = to /\ k.workspace = w
  <1>1. ASSUME NEW reads \in SUBSET Nat, NEW to \in Nat, NEW w \in Nat
        PROVE  \E k \in Operations : /\ k = [Kernel(reads, to) EXCEPT !.workspace = w] /\ k.op = "kernel"
                                      /\ k.reads = reads /\ k.to = to /\ k.workspace = w
    <2>1. PICK k : k = [Kernel(reads, to) EXCEPT !.workspace = w]
      OBVIOUS
    <2>2. /\ k \in Operations /\ k.op = "kernel" /\ k.reads = reads /\ k.to = to /\ k.workspace = w
      BY <2>1 DEF Kernel, Operation, Operations, OpNames
    <2> QED BY <2>1, <2>2
  <1> QED BY <1>1 DEF AllocOp, DynamicAlloc, Kernel, Operation, Operations, OpNames

(* A kernel that fills a new buffer.                                       *)
LEMMA NewKernel ==
    ASSUME BodyOK, Extended, NEW i \in Ops', i > Len(body), NEW to \in Ops', to > Len(body), to < i,
           body'[i].op = "kernel", body'[i].to = to, body'[i].reads \subseteq Tensors,
           \A j \in Ops' : j > Len(body) /\ j < i => body'[j].op \in {"alloc", "dynamic"},
           NEW w, w = body'[i].workspace,
           w # 0 => /\ w \in Ops' /\ w > Len(body) /\ w < i /\ w # to /\ body'[w].op = "alloc"
                    /\ \A j \in Ops' : j > Len(body) =>
                         /\ body'[j].op \in {"kernel", "reshape"} => body'[j].to # w
                         /\ body'[j].op # "view"
    PROVE  OpOK(i)'
  <1>1. /\ Len(body) \in Nat /\ Len(body') \in Nat /\ Ops = 1..Len(body) /\ Ops' = 1..Len(body')
        /\ 0 \notin Ops' /\ Ops \subseteq Ops'
    BY ExtendedOps
  <1>2. Known(i)' = Known(Len(body) + 1)
    BY <1>1, ExtendedKnown
  <1>3. ~IsView(to)' /\ Root(to)' = to /\ to \in Is("alloc")' \cup Is("dynamic")'
    BY <1>1 DEF IsView, Root, Is
  <1>4. ASSUME NEW v \in Known(Len(body) + 1) PROVE Root(v)' # to
    <2>1. IsTensor(v) /\ (v # 0 => v < Len(body) + 1)
      BY KnownTensor
    <2>2. v \in {0} \cup Ops /\ v \in Nat /\ Root(v) <= v /\ Root(v) \in {0} \cup Ops
      BY <2>1, TensorTyped
    <2>3. Root(v)' = Root(v)
      BY <2>2, ExtendedTensors
    <2> QED BY <1>1, <2>2, <2>3
  <1>5. body'[i].reads \subseteq Known(Len(body) + 1)
    BY TensorsKnown
  <1>6. ASSUME w # 0
        PROVE  /\ w \in allocs' /\ w < i /\ w # Root(to)'
               /\ \A j \in Ops' : ~Writes(j, w)' /\ (IsView(j)' => body'[j].root # w)
    <2>1. w \in allocs'
      BY <1>6 DEF allocs, Is
    <2>2. ASSUME NEW j \in Ops', ~(j > Len(body)) PROVE ~Writes(j, w)' /\ (IsView(j)' => body'[j].root # w)
      <3>1. j \in Ops /\ body'[j] = body[j] /\ w > Len(body)
        BY <1>1, <1>6, <2>2 DEF Extended
      <3>2. ASSUME Writes(j, w) PROVE FALSE
        <4>1. w \in Ops
          BY <3>1, <3>2 DEF Writes, Is, BodyOK, OpOK, KernelOK, ReshapeOK
        <4> QED BY <1>1, <3>1, <4>1
      <3>3. ASSUME IsView(j) PROVE body[j].root # w
        <4>1. IsTensor(j) /\ Root(j) = body[j].root
          BY <3>1, <3>3 DEF IsTensor, IsView, Is, Root
        <4>2. Root(j) \in {0} \cup Ops
          BY <4>1, TensorTyped
        <4> QED BY <1>1, <1>6, <3>1, <4>1, <4>2
      <3> QED BY <3>1, <3>2, <3>3, ExtendedTensors
    <2>3. ASSUME NEW j \in Ops', j > Len(body) PROVE ~Writes(j, w)' /\ (IsView(j)' => body'[j].root # w)
      BY <1>6, <2>3 DEF Writes, Is, IsView
    <2> QED BY <1>3, <1>6, <2>1, <2>2, <2>3
  <1>7. KernelOK(i)'
    BY <1>2, <1>3, <1>4, <1>5, <1>6 DEF KernelOK
  <1> QED BY <1>7 DEF OpOK

LEMMA NewBuffer ==
    ASSUME NEW i, body'[i].op \in {"alloc", "dynamic"}, body'[i].op = "alloc" => body'[i].size > 0
    PROVE  OpOK(i)'
  BY DEF OpOK

LEMMA TensorsTyped ==
    ASSUME BodyOK
    PROVE  /\ Tensors \subseteq Nat
           /\ \A v \in Tensors : IsTensor(v) /\ v \in Known(Len(body) + 1) /\ v \in {0} \cup Ops
                                /\ StaticSize(v) \in Nat /\ Root(v) \in Nat
  <1> SUFFICES ASSUME NEW v \in Tensors
               PROVE  /\ IsTensor(v) /\ v \in Known(Len(body) + 1) /\ v \in {0} \cup Ops
                      /\ StaticSize(v) \in Nat /\ Root(v) \in Nat /\ v \in Nat
    OBVIOUS
  <1>1. v \in Known(Len(body) + 1) /\ Ops \subseteq Nat
    BY TensorsKnown, BodyTyped DEF BodyOK
  <1>2. IsTensor(v)
    BY <1>1, KnownTensor
  <1>3. v \in {0} \cup Ops /\ StaticSize(v) \in Nat /\ Root(v) \in {0} \cup Ops
    BY <1>2, TensorTyped
  <1>4. v \in Nat /\ Root(v) \in Nat
    <2>1. \A x \in {0} \cup Ops : x \in Nat
      BY <1>1
    <2> QED BY <1>3, <2>1
  <1> QED BY <1>1, <1>2, <1>3, <1>4

LEMMA createOpKeeps ==
    ASSUME BodyOK, NEW reads \in SUBSET Tensors, NEW buffer \in Buffers, createOp(reads, buffer)
    PROVE  BodyOK'
  <1>1. PICK n \in Nat : n = Len(body) /\ Next1 = n + 1
    BY BodyTyped DEF BodyOK, Next1
  <1>2. /\ buffer \in Operations /\ buffer.op \in {"alloc", "dynamic"}
        /\ buffer.op = "alloc" => buffer.size > 0
    <2>1. \A s \in Sizes : s \in Nat /\ s > 0
      BY SizesAssumption
    <2> QED BY <2>1, OperationsTyped DEF Buffers
  <1>3. PICK k \in Operations : /\ k = Kernel(reads, n + 1) /\ k.op = "kernel" /\ k.reads = reads
                                /\ k.to = n + 1 /\ k.workspace = 0
    BY OperationsTyped, TensorsTyped
  <1>4. PICK ops \in Seq(Operations) : Len(ops) = 2 /\ ops[1] = buffer /\ ops[2] = k /\ Emit(ops)
    <2>1. Emit(<<buffer, k>>)
      BY <1>1, <1>3 DEF createOp
    <2>2. <<buffer, k>> \in Seq(Operations) /\ Len(<<buffer, k>>) = 2
      BY <1>2
    <2> QED BY <2>1, <2>2
  <1>5. /\ body' \in Seq(Operations) /\ Len(body') = n + 2 /\ Ops' = 1..n + 2 /\ Ops = 1..n
        /\ \A i \in Ops : body'[i] = body[i] /\ body[i].op # "return"
        /\ body'[n + 1] = buffer /\ body'[n + 2] = k
    <2>1. /\ body' \in Seq(Operations) /\ Len(body') = n + 2 /\ Ops' = 1..n + 2 /\ Ops = 1..n
          /\ \A i \in Ops : body'[i] = body[i] /\ body[i].op # "return"
          /\ \A j \in 1..2 : body'[n + j] = ops[j]
      BY <1>1, <1>4, Emitted
    <2>2. body'[n + 1] = ops[1] /\ body'[n + 2] = ops[2]
      BY <2>1
    <2> QED BY <1>4, <2>1, <2>2
  <1>6. PICK to \in Ops', h \in Ops' : to = n + 1 /\ h = n + 2 /\ to > n /\ h > n /\ to < h
    BY <1>5
  <1>7. \A j \in Ops' : j > n => (j = to \/ j = h) /\ (j < h => j = to)
    BY <1>5, <1>6
  <1>8. body'[to] = buffer /\ body'[h] = k
    BY <1>5, <1>6
  <1>9. Extended
    BY <1>1, <1>2, <1>3, <1>5, <1>6, <1>7, <1>8 DEF Extended
  <1>10. OpOK(to)'
    BY <1>2, <1>8, NewBuffer
  <1>11. OpOK(h)'
    BY <1>1, <1>2, <1>3, <1>6, <1>7, <1>8, <1>9, NewKernel
  <1>12. body'[to].op \notin {"kernel", "reshape"}
    BY <1>2, <1>8
  <1>13. NewOK
    BY <1>1, <1>7, <1>10, <1>11 DEF NewOK
  <1>14. NewWriters
    BY <1>1, <1>7, <1>12 DEF NewWriters
  <1> QED BY <1>9, <1>13, <1>14, Lowered

LEMMA createOp_workspaceKeeps ==
    ASSUME BodyOK, NEW reads \in SUBSET Tensors, NEW s \in Sizes, NEW w \in Sizes,
           createOp_workspace(reads, s, w)
    PROVE  BodyOK'
  <1>1. PICK n \in Nat : n = Len(body) /\ Next1 = n + 1
    BY BodyTyped DEF BodyOK, Next1
  <1>2. PICK x \in Operations, y \in Operations :
            /\ x = AllocOp(s) /\ y = AllocOp(w) /\ x.op = "alloc" /\ y.op = "alloc"
            /\ x.size > 0 /\ y.size > 0
    <2>1. s \in Nat /\ w \in Nat /\ s > 0 /\ w > 0
      BY SizesAssumption
    <2> QED BY <2>1, OperationsTyped
  <1>3. PICK k \in Operations : /\ k = [Kernel(reads, n + 1) EXCEPT !.workspace = n + 2] /\ k.op = "kernel"
                                /\ k.reads = reads /\ k.to = n + 1 /\ k.workspace = n + 2
    <2>1. reads \in SUBSET Nat /\ n + 1 \in Nat /\ n + 2 \in Nat
      BY TensorsTyped
    <2> QED BY <2>1, OperationsTyped
  <1>4. PICK ops \in Seq(Operations) : Len(ops) = 3 /\ ops[1] = x /\ ops[2] = y /\ ops[3] = k /\ Emit(ops)
    <2>1. Emit(<<x, y, k>>)
      <3>1. Next1 + 1 = n + 2
        BY <1>1
      <3> QED BY <1>1, <1>2, <1>3, <3>1 DEF createOp_workspace
    <2>2. <<x, y, k>> \in Seq(Operations) /\ Len(<<x, y, k>>) = 3
      BY <1>2
    <2> QED BY <2>1, <2>2
  <1>5. /\ body' \in Seq(Operations) /\ Len(body') = n + 3 /\ Ops' = 1..n + 3 /\ Ops = 1..n
        /\ \A i \in Ops : body'[i] = body[i] /\ body[i].op # "return"
        /\ body'[n + 1] = x /\ body'[n + 2] = y /\ body'[n + 3] = k
    <2>1. /\ body' \in Seq(Operations) /\ Len(body') = n + 3 /\ Ops' = 1..n + 3 /\ Ops = 1..n
          /\ \A i \in Ops : body'[i] = body[i] /\ body[i].op # "return"
          /\ \A j \in 1..3 : body'[n + j] = ops[j]
      BY <1>1, <1>4, Emitted
    <2>2. body'[n + 1] = ops[1] /\ body'[n + 2] = ops[2] /\ body'[n + 3] = ops[3]
      BY <2>1
    <2> QED BY <1>4, <2>1, <2>2
  <1>6. PICK to \in Ops', u \in Ops', h \in Ops' :
            /\ to = n + 1 /\ u = n + 2 /\ h = n + 3 /\ to > n /\ u > n /\ h > n
            /\ to < h /\ u < h /\ u # to /\ u # 0
    BY <1>5
  <1>7. \A j \in Ops' : j > n => (j = to \/ j = u \/ j = h) /\ (j < h => j = to \/ j = u)
    BY <1>5, <1>6
  <1>8. body'[to] = x /\ body'[u] = y /\ body'[h] = k
    BY <1>5, <1>6
  <1>9. Extended
    <2>1. ASSUME NEW i \in Ops', i > n
          PROVE  (body'[i].op \in {"kernel", "reshape"} => body'[i].to > n) /\ body'[i].op # "view"
      <3>1. i = to \/ i = u \/ i = h
        BY <1>7, <2>1
      <3>2. n + 1 > n
        OBVIOUS
      <3> QED BY <1>2, <1>3, <1>8, <3>1, <3>2
    <2>2. n <= n + 3
      OBVIOUS
    <2> QED BY <1>1, <1>5, <2>1, <2>2 DEF Extended
  <1>10. OpOK(to)' /\ OpOK(u)'
    BY <1>2, <1>8, NewBuffer
  <1>11. OpOK(h)'
    <2>1. body'[h].workspace = u /\ body'[h].to = to /\ body'[h].op = "kernel" /\ body'[h].reads \subseteq Tensors
      BY <1>3, <1>6, <1>8
    <2>2. \A j \in Ops' : j > Len(body) /\ j < h => body'[j].op \in {"alloc", "dynamic"}
      BY <1>1, <1>2, <1>7, <1>8
    <2>3. \A j \in Ops' : j > Len(body) =>
                         /\ body'[j].op \in {"kernel", "reshape"} => body'[j].to # u
                         /\ body'[j].op # "view"
      BY <1>1, <1>2, <1>6, <1>7, <1>8, <2>1
    <2>4. body'[u].op = "alloc"
      BY <1>2, <1>8
    <2> QED BY <1>1, <1>6, <1>9, <2>1, <2>2, <2>3, <2>4, NewKernel
  <1>12. body'[to].op \notin {"kernel", "reshape"} /\ body'[u].op \notin {"kernel", "reshape"}
    BY <1>2, <1>8
  <1>13. NewOK
    BY <1>1, <1>7, <1>10, <1>11 DEF NewOK
  <1>14. NewWriters
    BY <1>1, <1>7, <1>12 DEF NewWriters
  <1> QED BY <1>9, <1>13, <1>14, Lowered

(* No tensor is a workspace or a view of one.                              *)
LEMMA NoWorkspace ==
    ASSUME BodyOK, NEW v \in Tensors, NEW j \in Is("kernel"), body[j].workspace # 0
    PROVE  Root(v) # body[j].workspace
  <1>1. PICK w : w = body[j].workspace
    OBVIOUS
  <1>2. \A i \in Ops : ~Writes(i, w) /\ (IsView(i) => body[i].root # w)
    BY <1>1 DEF BodyOK, OpOK, KernelOK, Is
  <1>3. w \in allocs
    BY <1>1 DEF BodyOK, OpOK, KernelOK, Is
  <1>4. v \in {0} \cup Ops
    BY TensorsTyped
  <1>5. CASE IsView(v)
    <2>1. v \in Ops /\ Root(v) = body[v].root
      BY <1>4, <1>5 DEF IsView, Root
    <2> QED BY <1>1, <1>2, <1>5, <2>1
  <1>6. CASE ~IsView(v)
    <2> SUFFICES ASSUME v = w PROVE FALSE
      BY <1>1, <1>6 DEF Root
    <2>1. v \in Ops /\ v # 0 /\ v \notin Is("view")
      BY <1>3, <1>6, BodyTyped DEF allocs, Is, BodyOK
    <2>2. v \in Written
      BY <2>1 DEF Tensors
    <2>3. PICK i \in Ops : Writes(i, v)
      BY <2>2 DEF Written, Writes, Is
    <2> QED BY <1>2, <2>3
  <1> QED BY <1>5, <1>6

LEMMA ViewTyped ==
    ASSUME NEW v \in Nat, NEW s \in Nat, NEW k \in Nat, Root(v) \in Nat, Sum(v) \in Nat
    PROVE  /\ View(v, s, k) \in Operations /\ View(v, s, k).op = "view" /\ View(v, s, k).reads = {v}
           /\ View(v, s, k).size = s /\ View(v, s, k).root = Root(v) /\ View(v, s, k).offset = k
           /\ View(v, s, k).sum = k + Sum(v)
  <1>1. PICK r \in Nat, m \in Nat : r = Root(v) /\ m = k + Sum(v) /\ m = k + (IF IsView(v) THEN body[v].sum ELSE 0)
    BY DEF Sum
  <1>2. View(v, s, k) = [Operation("view") EXCEPT !.reads = {v}, !.size = s, !.root = r, !.offset = k, !.sum = m]
    BY <1>1 DEF View
  <1>3. View(v, s, k) = [op |-> "view", reads |-> {v}, to |-> 0, workspace |-> 0, size |-> s,
                         root |-> r, offset |-> k, sum |-> m]
    BY <1>2 DEF Operation
  <1> QED BY <1>1, <1>3 DEF Operations, OpNames

LEMMA createViewKeeps ==
    ASSUME BodyOK, NEW v \in Tensors, NEW s \in Sizes, NEW k \in Nat, createView(v, s, k)
    PROVE  BodyOK'
  <1>1. PICK n \in Nat : n = Len(body)
    BY BodyTyped DEF BodyOK
  <1>2. /\ v \in Nat /\ v \in {0} \cup Ops /\ v \in Known(n + 1) /\ IsTensor(v) /\ s \in Nat /\ s > 0
        /\ Root(v) \in Nat /\ Sum(v) \in Nat /\ Root(v) \in {0} \cup Ops /\ ~Dynamic(v)
        /\ s + k <= StaticSize(v) /\ StaticSize(v) \in Nat
        /\ Sum(v) + StaticSize(v) <= StaticSize(Root(v))
    <2>1. v \in Nat /\ v \in {0} \cup Ops /\ v \in Known(n + 1) /\ IsTensor(v) /\ Root(v) \in Nat
      BY <1>1, TensorsTyped
    <2>2. s \in Nat /\ s > 0
      BY SizesAssumption
    <2>3. ~Dynamic(v) /\ s + k <= StaticSize(v)
      BY DEF createView
    <2> QED BY <2>1, <2>2, <2>3, TensorTyped
  <1>3. PICK x \in Operations : /\ x = View(v, s, k) /\ x.op = "view" /\ x.reads = {v} /\ x.size = s
                                /\ x.root = Root(v) /\ x.offset = k /\ x.sum = k + Sum(v)
    <2>1. PICK x : x = View(v, s, k)
      OBVIOUS
    <2>2. /\ x \in Operations /\ x.op = "view" /\ x.reads = {v} /\ x.size = s
          /\ x.root = Root(v) /\ x.offset = k /\ x.sum = k + Sum(v)
      <3>1. v \in Nat /\ s \in Nat /\ k \in Nat /\ Root(v) \in Nat /\ Sum(v) \in Nat
        BY <1>2
      <3>2. /\ View(v, s, k) \in Operations /\ View(v, s, k).op = "view" /\ View(v, s, k).reads = {v}
            /\ View(v, s, k).size = s /\ View(v, s, k).root = Root(v) /\ View(v, s, k).offset = k
            /\ View(v, s, k).sum = k + Sum(v)
        BY ONLY <3>1, ViewTyped
      <3> QED BY <2>1, <3>2
    <2> QED BY <2>1, <2>2
  <1>4. PICK ops \in Seq(Operations) : Len(ops) = 1 /\ ops[1] = x /\ Emit(ops)
    <2>1. Emit(<<x>>)
      BY <1>3 DEF createView
    <2>2. <<x>> \in Seq(Operations) /\ Len(<<x>>) = 1
      BY <1>3
    <2> QED BY <2>1, <2>2
  <1>5. /\ body' \in Seq(Operations) /\ Len(body') = n + 1 /\ Ops' = 1..n + 1 /\ Ops = 1..n
        /\ \A i \in Ops : body'[i] = body[i] /\ body[i].op # "return"
        /\ body'[n + 1] = x
    <2>1. /\ body' \in Seq(Operations) /\ Len(body') = n + 1 /\ Ops' = 1..n + 1 /\ Ops = 1..n
          /\ \A i \in Ops : body'[i] = body[i] /\ body[i].op # "return"
          /\ \A j \in 1..1 : body'[n + j] = ops[j]
      BY <1>1, <1>4, Emitted
    <2>2. body'[n + 1] = ops[1]
      BY <2>1
    <2> QED BY <1>4, <2>1, <2>2
  <1>6. PICK h \in Ops' : h = n + 1 /\ h > n /\ h \notin Ops
    BY <1>5
  <1>7. (\A j \in Ops' : j > n => j = h) /\ body'[h] = x
    BY <1>5, <1>6
  <1>8. Extended
    <2>1. \A j \in Is("kernel") : body[j].workspace # 0 => x.root # body[j].workspace
      BY <1>3, NoWorkspace
    <2>2. n <= n + 1
      OBVIOUS
    <2> QED BY <1>1, <1>3, <1>5, <1>7, <2>1, <2>2 DEF Extended
  <1>9. /\ Root(v)' = Root(v) /\ ~Dynamic(v)' /\ StaticSize(v)' = StaticSize(v) /\ Sum(v)' = Sum(v)
        /\ StaticSize(Root(v))' = StaticSize(Root(v)) /\ Known(h)' = Known(n + 1)
    <2>1. /\ Root(v)' = Root(v) /\ ~Dynamic(v)' /\ StaticSize(v)' = StaticSize(v) /\ Sum(v)' = Sum(v)
      BY <1>2, <1>8, ExtendedTensors
    <2>2. PICK r \in {0} \cup Ops : r = Root(v)
      BY <1>2
    <2>3. StaticSize(r)' = StaticSize(r)
      BY <1>8, ExtendedTensors
    <2>4. Known(h)' = Known(n + 1)
      <3>1. h \in Nat /\ h > Len(body) /\ h <= Len(body') + 1
        BY <1>1, <1>5, <1>6
      <3>2. \A j \in Ops' : ~(j > Len(body) /\ j < h)
        BY <1>1, <1>5, <1>6
      <3> QED BY <1>1, <1>8, <3>1, <3>2, ExtendedKnown
    <2> QED BY <2>1, <2>2, <2>3, <2>4
  <1>10. Root(v) \in {0} \cup allocs' /\ Root(v) < h
    <2>1. Root(v) \in {0} \cup allocs
      <3>1. CASE IsView(v)
        BY <1>2, <3>1, TensorTyped
      <3>2. CASE ~IsView(v)
        <4>1. Root(v) = v
          BY <3>2 DEF Root
        <4>2. v = 0 \/ v \in Is("alloc")
          <5>1. CASE v = 0
            BY <5>1
          <5>2. CASE v # 0
            <6>1. v \notin Is("view")
              BY <3>2, <5>2 DEF IsView, Is
            <6> QED BY <1>2, <5>2, <6>1 DEF IsTensor, Dynamic
          <5> QED BY <5>1, <5>2
        <4> QED BY <4>1, <4>2 DEF allocs
      <3> QED BY <3>1, <3>2
    <2>2. allocs \subseteq allocs'
      <3>1. \A i \in Ops : i \in allocs => i \in allocs'
        BY <1>8, ExtendedTensors DEF allocs, OpNames
      <3> QED BY <3>1 DEF allocs, Is
    <2>3. Root(v) < h
      <3>1. \A i \in {0} \cup Ops : i < h
        BY <1>5, <1>6
      <3> QED BY <1>2, <3>1
    <2> QED BY <2>1, <2>2, <2>3
  <1>11. OpOK(h)'
    <2>1. /\ v \in Known(h)' /\ body'[h].reads = {v} /\ ~Dynamic(v)' /\ body'[h].root = Root(v)'
          /\ body'[h].offset + body'[h].size <= StaticSize(v)'
          /\ body'[h].sum = body'[h].offset + Sum(v)'
      BY <1>2, <1>3, <1>7, <1>9
    <2>2. PICK c \in Nat : c = StaticSize(Root(v)) /\ c = StaticSize(body[h].root)'
      <3>1. PICK r \in {0} \cup Ops : r = Root(v) /\ r = body'[h].root
        BY <1>2, <1>3, <1>7
      <3>2. StaticSize(r)' = StaticSize(r)
        BY <1>9, <3>1
      <3>3. \A y \in {0} \cup Ops : StaticSize(y) \in Nat
        BY BodyTyped, SizesAssumption DEF StaticSize, BodyOK
      <3> QED BY <3>1, <3>2, <3>3
    <2>3. body'[h].sum + body'[h].size <= c
      <3>1. PICK a \in Nat, b \in Nat : a = Sum(v) /\ b = StaticSize(v) /\ a + b <= c
        BY <1>2, <2>2
      <3>2. body'[h].sum = k + a /\ body'[h].size = s /\ s + k <= b
        BY <1>2, <1>3, <1>7, <3>1
      <3>3. (k + a) + s <= c
        BY ONLY <3>1, <3>2, <1>2, k \in Nat
      <3> QED BY <3>1, <3>2, <3>3
    <2>4. ViewOK(h)'
      BY <1>3, <1>7, <1>10, <2>1, <2>2, <2>3 DEF ViewOK
    <2> QED BY <1>2, <1>3, <1>7, <2>4 DEF OpOK
  <1>12. NewOK
    BY <1>1, <1>7, <1>11 DEF NewOK
  <1>13. NewWriters
    BY <1>1, <1>7 DEF NewWriters
  <1> QED BY <1>8, <1>12, <1>13, Lowered

LEMMA createReshapeInsKeeps ==
    ASSUME BodyOK, ~ReshapesPlanned, NEW v \in Tensors, createReshapeIns(v)
    PROVE  BodyOK'
  <1>1. PICK n \in Nat : n = Len(body) /\ Next1 = n + 1
    BY BodyTyped DEF BodyOK, Next1
  <1>2. v \in Nat /\ v \in {0} \cup Ops /\ v \in Known(n + 1) /\ Root(v) \in {0} \cup Ops /\ Root(v) \notin allocs
    <2>1. v \in Nat /\ v \in {0} \cup Ops /\ v \in Known(n + 1) /\ IsTensor(v)
      BY <1>1, TensorsTyped
    <2> QED BY <2>1, TensorTyped DEF createReshapeIns
  <1>3. PICK x : x = [Operation("reshape") EXCEPT !.reads = {v}, !.to = n + 1]
    OBVIOUS
  <1>4. x \in Operations /\ x.op = "reshape" /\ x.reads = {v} /\ x.to = n + 1
    <2>1. {v} \in SUBSET Nat /\ n + 1 \in Nat
      BY <1>2
    <2> QED BY <1>3, <2>1 DEF Operation, Operations, OpNames
  <1>5. PICK d \in Operations : d = DynamicAlloc /\ d.op = "dynamic"
    BY OperationsTyped
  <1>6. PICK ops \in Seq(Operations) : Len(ops) = 2 /\ ops[1] = d /\ ops[2] = x /\ Emit(ops)
    <2>1. Emit(<<d, x>>)
      BY <1>1, <1>3, <1>5 DEF createReshapeIns
    <2>2. <<d, x>> \in Seq(Operations) /\ Len(<<d, x>>) = 2
      BY <1>4, <1>5
    <2> QED BY <2>1, <2>2
  <1>7. /\ body' \in Seq(Operations) /\ Len(body') = n + 2 /\ Ops' = 1..n + 2 /\ Ops = 1..n
        /\ \A i \in Ops : body'[i] = body[i] /\ body[i].op # "return"
        /\ body'[n + 1] = d /\ body'[n + 2] = x
    <2>1. /\ body' \in Seq(Operations) /\ Len(body') = n + 2 /\ Ops' = 1..n + 2 /\ Ops = 1..n
          /\ \A i \in Ops : body'[i] = body[i] /\ body[i].op # "return"
          /\ \A j \in 1..2 : body'[n + j] = ops[j]
      BY <1>1, <1>6, Emitted
    <2>2. body'[n + 1] = ops[1] /\ body'[n + 2] = ops[2]
      BY <2>1
    <2> QED BY <1>6, <2>1, <2>2
  <1>8. PICK to \in Ops', h \in Ops' : to = n + 1 /\ h = n + 2 /\ to > n /\ h > n /\ to < h /\ h \notin Ops /\ to \notin Ops
    BY <1>7
  <1>9. (\A j \in Ops' : j > n => (j = to \/ j = h) /\ (j < h => j = to)) /\ body'[to] = d /\ body'[h] = x
    BY <1>7, <1>8
  <1>10. Extended
    <2>1. ASSUME NEW i \in Ops', i > n
          PROVE  (body'[i].op \in {"kernel", "reshape"} => body'[i].to > n) /\ body'[i].op # "view"
      BY <1>4, <1>5, <1>8, <1>9, <2>1
    <2>2. n <= n + 2
      OBVIOUS
    <2> QED BY <1>1, <1>7, <2>1, <2>2 DEF Extended
  <1>11. OpOK(to)'
    BY <1>5, <1>9, NewBuffer
  <1>12. OpOK(h)'
    <2>1. v \in Known(h)'
      <3>1. h \in Nat /\ h > Len(body)
        BY <1>1, <1>8
      <3> QED BY <1>1, <1>2, <1>10, <3>1, ExtendedKnown
    <2>2. Root(v)' = Root(v)
      BY <1>2, <1>10, ExtendedTensors
    <2>3. Root(v) \notin allocs'
      <3>1. \A i \in Ops : i \in allocs' => i \in allocs
        BY <1>10, ExtendedTensors DEF allocs, OpNames
      <3>2. 0 \notin allocs'
        BY <1>7 DEF allocs, Is
      <3> QED BY <1>2, <3>1, <3>2
    <2>4. to \in Is("dynamic")'
      BY <1>5, <1>9 DEF Is
    <2>5. ReshapeOK(h)'
      BY <1>4, <1>8, <1>9, <2>1, <2>2, <2>3, <2>4 DEF ReshapeOK
    <2> QED BY <1>4, <1>9, <2>5 DEF OpOK
  <1>13. NewOK
    BY <1>1, <1>9, <1>11, <1>12 DEF NewOK
  <1>14. NewWriters
    <2>1. body'[to].op \notin {"kernel", "reshape"}
      BY <1>5, <1>9
    <2> QED BY <1>1, <1>9, <2>1 DEF NewWriters
  <1> QED BY <1>10, <1>13, <1>14, Lowered

LEMMA ReturnOpKeeps ==
    ASSUME BodyOK, NEW v \in Tensors, ReturnOp(v)
    PROVE  BodyOK' /\ Len(body') > 0 /\ body'[Len(body')].op = "return"
  <1>1. PICK n \in Nat : n = Len(body) /\ Ops = 1..n
    BY BodyTyped DEF BodyOK
  <1>2. v \in Nat /\ v \in Known(n + 1)
    BY <1>1, TensorsTyped
  <1>3. PICK x : x = [Operation("return") EXCEPT !.reads = {v}]
    OBVIOUS
  <1>4. x \in Operations /\ x.op = "return" /\ x.reads = {v}
    BY <1>2, <1>3 DEF Operation, Operations, OpNames
  <1>5. /\ body' \in Seq(Operations) /\ Len(body') = n + 1 /\ Ops' = 1..n + 1
        /\ (\A i \in Ops : body'[i] = body[i]) /\ body'[n + 1] = x
    <2>1. body' = Append(body, x) /\ body \in Seq(Operations)
      BY <1>3 DEF ReturnOp, BodyOK
    <2>2. /\ body' \in Seq(Operations) /\ Len(body') = n + 1
          /\ (\A i \in 1..n : body'[i] = body[i]) /\ body'[n + 1] = x
      BY <1>1, <1>4, <2>1, AppendProperties
    <2>3. Ops' = 1..n + 1
      BY <2>2, LenProperties DEF Ops
    <2> QED BY <1>1, <2>2, <2>3
  <1>6. \A i \in Ops : body[i].op # "return"
    <2>1. \A i \in Ops : body[i].op = "return" => i = Len(body)
      BY DEF BodyOK, OpOK, ReturnOK
    <2> QED BY <2>1 DEF ReturnOp
  <1>7. PICK h \in Ops' : h = n + 1 /\ h > n /\ body'[h] = x /\ \A j \in Ops' : j > n => j = h
    BY <1>5
  <1>8. Extended
    <2>1. n <= n + 1
      OBVIOUS
    <2> QED BY <1>1, <1>4, <1>5, <1>6, <1>7, <2>1 DEF Extended
  <1>9. OpOK(h)'
    <2>1. v \in Known(h)'
      <3>1. h \in Nat /\ h > Len(body)
        BY <1>1, <1>7
      <3> QED BY <1>1, <1>2, <1>8, <3>1, ExtendedKnown
    <2>2. ReturnOK(h)'
      BY <1>4, <1>5, <1>7, <2>1 DEF ReturnOK
    <2> QED BY <1>4, <1>7, <2>2 DEF OpOK
  <1>10. NewOK
    BY <1>1, <1>7, <1>9 DEF NewOK
  <1>11. NewWriters
    BY <1>1, <1>7 DEF NewWriters
  <1>12. BodyOK'
    BY <1>8, <1>10, <1>11, Lowered
  <1>13. Len(body') > 0 /\ body'[Len(body')].op = "return"
    BY <1>4, <1>5
  <1> QED BY <1>12, <1>13

LEMMA createSetSubtensorKeeps ==
    ASSUME BodyOK, NEW v \in Tensors, NEW part \in Tensors, NEW k \in Nat, createSetSubtensor(v, part, k)
    PROVE  BodyOK'
  <1>1. PICK n \in Nat : n = Len(body) /\ Next1 = n + 1
    BY BodyTyped DEF BodyOK, Next1
  <1>2. PICK s \in Nat, p \in Nat : s = StaticSize(v) /\ p = StaticSize(part) /\ s > 0 /\ p > 0 /\ p + k <= s
    <2>1. IsTensor(v) /\ IsTensor(part)
      BY TensorsTyped
    <2>2. ~Dynamic(v) /\ ~Dynamic(part) /\ StaticSize(part) + k <= StaticSize(v)
      BY DEF createSetSubtensor
    <2>3. StaticSize(v) \in Nat /\ StaticSize(part) \in Nat /\ StaticSize(v) > 0 /\ StaticSize(part) > 0
      BY <2>1, <2>2, TensorTyped
    <2> QED BY <2>2, <2>3
  <1>3. v \in Nat /\ part \in Nat /\ part \in {0} \cup Ops /\ part \in Known(n + 1)
    BY <1>1, TensorsTyped
  <1>4. PICK x \in Operations : x = AllocOp(s) /\ x.op = "alloc" /\ x.size = s
    BY OperationsTyped
  <1>5. PICK y \in Operations : y = Kernel({v}, n + 1) /\ y.op = "kernel" /\ y.reads = {v} /\ y.to = n + 1 /\ y.workspace = 0
    <2>1. {v} \in SUBSET Nat /\ n + 1 \in Nat
      BY <1>3
    <2> QED BY <2>1, OperationsTyped
  <1>6. PICK z : z = [View(0, p, k) EXCEPT !.reads = {n + 1}, !.root = n + 1]
    OBVIOUS
  <1>7. /\ z \in Operations /\ z.op = "view" /\ z.reads = {n + 1} /\ z.root = n + 1
        /\ z.size = p /\ z.offset = k /\ z.sum = k
    <2>1. Root(0) = 0 /\ Sum(0) = 0
      BY DEF Root, Sum, IsView
    <2>2. PICK u : u = View(0, p, k)
      OBVIOUS
    <2>3. u \in Operations /\ u.op = "view" /\ u.size = p /\ u.offset = k /\ u.sum = k + 0
      <3>1. 0 \in Nat /\ Root(0) \in Nat /\ Sum(0) \in Nat /\ p \in Nat /\ k \in Nat
        BY <2>1
      <3>2. /\ View(0, p, k) \in Operations /\ View(0, p, k).op = "view"
            /\ View(0, p, k).size = p /\ View(0, p, k).offset = k
            /\ View(0, p, k).sum = k + Sum(0)
        BY ONLY <3>1, ViewTyped
      <3> QED BY <2>1, <2>2, <3>2
    <2>4. z = [u EXCEPT !.reads = {n + 1}, !.root = n + 1] /\ {n + 1} \in SUBSET Nat /\ n + 1 \in Nat
      BY <1>6, <2>2
    <2>5. k + 0 = k
      OBVIOUS
    <2> QED BY <2>3, <2>4, <2>5 DEF Operations
  <1>8. PICK q \in Operations : q = Kernel({part}, n + 3) /\ q.op = "kernel" /\ q.reads = {part} /\ q.to = n + 3 /\ q.workspace = 0
    <2>1. {part} \in SUBSET Nat /\ n + 3 \in Nat
      BY <1>3
    <2> QED BY <2>1, OperationsTyped
  <1>9. PICK ops \in Seq(Operations) : Len(ops) = 4 /\ ops[1] = x /\ ops[2] = y /\ ops[3] = z /\ ops[4] = q /\ Emit(ops)
    <2>1. Emit(<<x, y, z, q>>)
      <3>1. Next1 + 2 = n + 3
        BY <1>1
      <3> QED BY <1>1, <1>2, <1>4, <1>5, <1>6, <1>8, <3>1 DEF createSetSubtensor
    <2>2. <<x, y, z, q>> \in Seq(Operations) /\ Len(<<x, y, z, q>>) = 4
      BY <1>4, <1>5, <1>7, <1>8
    <2> QED BY <2>1, <2>2
  <1>10. /\ body' \in Seq(Operations) /\ Len(body') = n + 4 /\ Ops' = 1..n + 4 /\ Ops = 1..n
         /\ \A i \in Ops : body'[i] = body[i] /\ body[i].op # "return"
         /\ body'[n + 1] = x /\ body'[n + 2] = y /\ body'[n + 3] = z /\ body'[n + 4] = q
    <2>1. /\ body' \in Seq(Operations) /\ Len(body') = n + 4 /\ Ops' = 1..n + 4 /\ Ops = 1..n
          /\ \A i \in Ops : body'[i] = body[i] /\ body[i].op # "return"
          /\ \A j \in 1..4 : body'[n + j] = ops[j]
      BY <1>1, <1>9, Emitted
    <2>2. body'[n + 1] = ops[1] /\ body'[n + 2] = ops[2] /\ body'[n + 3] = ops[3] /\ body'[n + 4] = ops[4]
      BY <2>1
    <2> QED BY <1>9, <2>1, <2>2
  <1>11. PICK a \in Ops', b \in Ops', c \in Ops', d \in Ops' :
             /\ a = n + 1 /\ b = n + 2 /\ c = n + 3 /\ d = n + 4
             /\ a > n /\ b > n /\ c > n /\ d > n /\ a < b /\ b < c /\ c < d /\ a < c /\ b < d /\ a < d
             /\ a # 0 /\ c # 0 /\ a # c /\ a \notin Ops /\ c \notin Ops
    BY <1>10
  <1>12. \A j \in Ops' : j > n => /\ j = a \/ j = b \/ j = c \/ j = d
                                  /\ (j < b => j = a) /\ (j < d => j # d)
    BY <1>10, <1>11
  <1>13. body'[a] = x /\ body'[b] = y /\ body'[c] = z /\ body'[d] = q
    BY <1>10, <1>11
  <1>14. Extended
    <2>1. ASSUME NEW j \in Is("kernel"), body[j].workspace # 0
          PROVE  n + 1 # body[j].workspace
      <3>1. body[j].workspace \in Ops
        BY <2>1 DEF BodyOK, OpOK, KernelOK, Is, allocs
      <3> QED BY <1>10, <3>1
    <2>2. ASSUME NEW i \in Ops', i > n
          PROVE  /\ body'[i].op \in {"kernel", "reshape"} => body'[i].to > n
                 /\ body'[i].op = "view" => body'[i].root = n + 1
      <3>1. i = a \/ i = b \/ i = c \/ i = d
        BY <1>12, <2>2
      <3>2. n + 1 > n /\ n + 3 > n
        OBVIOUS
      <3> QED BY <1>4, <1>5, <1>7, <1>8, <1>13, <3>1, <3>2
    <2>3. n <= n + 4
      OBVIOUS
    <2> QED BY <1>1, <1>10, <2>1, <2>2, <2>3 DEF Extended
  <1>15. OpOK(a)'
    BY <1>2, <1>4, <1>13, NewBuffer
  <1>16. OpOK(b)'
    <2>1. /\ body'[b].op = "kernel" /\ body'[b].to = a /\ body'[b].reads \subseteq Tensors
          /\ body'[b].workspace = 0
      BY <1>5, <1>11, <1>13
    <2>2. \A j \in Ops' : j > Len(body) /\ j < b => body'[j].op \in {"alloc", "dynamic"}
      BY <1>1, <1>4, <1>12, <1>13
    <2> QED BY <1>1, <1>11, <1>14, <2>1, <2>2, NewKernel
  <1>17. /\ ~IsView(a)' /\ Root(a)' = a /\ Sum(a)' = 0 /\ StaticSize(a)' = s /\ ~Dynamic(a)' /\ a \in allocs'
         /\ IsView(c)' /\ Root(c)' = a /\ c \in Is("view")'
    <2>1. ~IsView(a)' /\ IsView(c)'
      BY <1>4, <1>7, <1>11, <1>13 DEF IsView
    <2>2. Root(a)' = a /\ Sum(a)' = 0 /\ StaticSize(a)' = s
      BY <1>4, <1>11, <1>13, <2>1 DEF Root, Sum, StaticSize
    <2>3. Root(c)' = a
      BY <1>7, <1>11, <1>13, <2>1 DEF Root
    <2>4. ~Dynamic(a)' /\ a \in allocs' /\ c \in Is("view")'
      BY <1>4, <1>7, <1>13 DEF Dynamic, allocs, Is
    <2> QED BY <2>1, <2>2, <2>3, <2>4
  <1>18. a \in Known(c)'
    <2>1. Writes(b, a)'
      BY <1>5, <1>11, <1>13 DEF Writes, Is
    <2> QED BY <1>11, <2>1 DEF Known
  <1>19. OpOK(c)'
    <2>1. /\ body'[c].reads = {a} /\ body'[c].root = a /\ body'[c].offset = k /\ body'[c].size = p
          /\ body'[c].sum = k /\ k + p <= s /\ k + 0 = k
      BY <1>2, <1>7, <1>11, <1>13
    <2>2. StaticSize(body[c].root)' = s
      <3>1. PICK r : r = body'[c].root /\ r = a
        BY <2>1
      <3>2. StaticSize(r)' = s
        BY <1>17, <3>1
      <3> QED BY <3>1, <3>2
    <2>3. ViewOK(c)'
      BY <1>11, <1>17, <1>18, <2>1, <2>2 DEF ViewOK
    <2> QED BY <1>2, <1>7, <1>13, <2>3 DEF OpOK
  <1>20. Known(n + 1) \subseteq Known(d)'
    <2>1. d \in Nat /\ d > Len(body)
      BY <1>1, <1>11
    <2> QED BY <1>1, <1>14, <2>1, ExtendedKnown
  <1>21. ASSUME NEW u \in Known(d)' PROVE u \in Known(n + 1) \/ u = a
    <2>1. CASE u = 0
      BY <2>1 DEF Known
    <2>2. CASE u # 0
      <3>1. /\ u \in Ops' /\ u < d
            /\ \/ \E j \in Ops' : j < d /\ Writes(j, u)'
               \/ IsView(u)' /\ \A j \in Ops' : ~Writes(j, u)'
        BY <1>21, <2>2 DEF Known
      <3>2. ASSUME NEW j \in Ops', j < d, Writes(j, u)' PROVE u \in Known(n + 1) \/ u = a
        <4>1. CASE j \in Ops
          <5>1. Writes(j, u)
            BY <1>14, <3>2, <4>1, ExtendedTensors
          <5>2. u \in Ops
            BY <5>1 DEF Writes, Is, BodyOK, OpOK, KernelOK, ReshapeOK
          <5>3. u < n + 1 /\ j < n + 1
            BY <1>10, <4>1, <5>2
          <5> QED BY <4>1, <5>1, <5>2, <5>3 DEF Known
        <4>2. CASE j \notin Ops
          <5>1. j > n
            BY <1>10, <4>2
          <5>2. j = a \/ j = b \/ j = c
            BY <1>12, <3>2, <5>1
          <5>3. body'[j].op \in {"kernel", "reshape"} /\ body'[j].to = u
            BY <3>2 DEF Writes, Is
          <5> QED BY <1>4, <1>5, <1>7, <1>11, <1>13, <5>2, <5>3
        <4> QED BY <4>1, <4>2
      <3>3. ASSUME IsView(u)', \A j \in Ops' : ~Writes(j, u)' PROVE u \in Known(n + 1) \/ u = a
        <4>1. CASE u \in Ops
          <5>1. IsView(u) /\ (\A j \in Ops : ~Writes(j, u)) /\ u < n + 1
            <6>1. IsView(u)
              BY <1>14, <3>3, <4>1, ExtendedTensors
            <6>2. Ops \subseteq Ops'
              BY <1>10
            <6>3. \A j \in Ops : ~Writes(j, u)
              BY <1>14, <3>3, <6>2, ExtendedTensors
            <6> QED BY <1>10, <4>1, <6>1, <6>3
          <5> QED BY <4>1, <5>1 DEF Known
        <4>2. CASE u \notin Ops
          <5>1. u > n
            BY <1>10, <3>1, <4>2
          <5>2. u = a \/ u = b \/ u = c
            BY <1>12, <3>1, <5>1
          <5>3. body'[u].op = "view"
            BY <3>3 DEF IsView
          <5>4. u = c
            BY <1>4, <1>5, <1>13, <5>2, <5>3
          <5>5. Writes(d, c)'
            BY <1>8, <1>11, <1>13 DEF Writes, Is
          <5> QED BY <3>3, <5>4, <5>5
        <4> QED BY <4>1, <4>2
      <3> QED BY <3>1, <3>2, <3>3
    <2> QED BY <2>1, <2>2
  <1>22. ASSUME NEW u \in Known(n + 1) PROVE Root(u)' # a
    <2>1. IsTensor(u)
      BY KnownTensor
    <2>2. u \in {0} \cup Ops /\ Root(u) \in {0} \cup Ops
      BY <2>1, TensorTyped
    <2>3. Root(u)' = Root(u)
      BY <1>14, <2>2, ExtendedTensors
    <2> QED BY <1>11, <2>2, <2>3
  <1>23. OpOK(d)'
    <2>1. body'[d].op = "kernel" /\ body'[d].to = c /\ body'[d].reads = {part} /\ body'[d].workspace = 0
      BY <1>8, <1>11, <1>13
    <2>2. body'[c].reads = {a} /\ body'[c].sum = body'[c].offset
      BY <1>7, <1>11, <1>13
    <2>3. {part} \subseteq Known(d)' /\ Root(part)' # a
      BY <1>3, <1>20, <1>22
    <2>4. \A u \in Known(d)' : Root(u)' = a => u = a
      BY <1>21, <1>22
    <2>5. KernelOK(d)'
      BY <1>11, <1>17, <1>18, <2>1, <2>2, <2>3, <2>4 DEF KernelOK
    <2> QED BY <2>1, <2>5 DEF OpOK
  <1>24. NewOK
    BY <1>1, <1>12, <1>15, <1>16, <1>19, <1>23 DEF NewOK
  <1>25. NewWriters
    <2>1. /\ body'[a].op \notin {"kernel", "reshape"} /\ body'[c].op \notin {"kernel", "reshape"}
          /\ body'[b].to # body'[d].to
      <3>1. body'[b].to = n + 1 /\ body'[d].to = n + 3
        BY <1>5, <1>8, <1>13
      <3>2. x.op = "alloc" /\ z.op = "view"
        BY <1>4, <1>7
      <3> QED BY <1>13, <3>1, <3>2
    <2> QED BY <1>1, <1>12, <2>1 DEF NewWriters
  <1> QED BY <1>14, <1>24, <1>25, Lowered

-----------------------------------------------------------------------------
(* The plan                                                                *)

LEMMA BodyKept == ASSUME BodyOK, UNCHANGED body PROVE BodyOK'
  <1>1. Ops' = Ops /\ allocs' = allocs /\ \A name : Is(name)' = Is(name)
    BY DEF Ops, allocs, Is
  <1>2. \A v : /\ (IsView(v)' <=> IsView(v)) /\ Root(v)' = Root(v) /\ Sum(v)' = Sum(v)
               /\ StaticSize(v)' = StaticSize(v) /\ (Dynamic(v)' <=> Dynamic(v))
    BY <1>1 DEF IsView, Root, Sum, StaticSize, Dynamic
  <1>3. \A j, v : Writes(j, v)' <=> Writes(j, v)
    BY <1>1 DEF Writes
  <1>4. \A i : Known(i)' = Known(i)
    BY <1>1, <1>2, <1>3 DEF Known
  <1>5. ASSUME NEW i \in Ops PROVE OpOK(i)'
    <2>1. OpOK(i)
      BY DEF BodyOK
    <2>2. ViewOK(i)' <=> ViewOK(i)
      <3>1. PICK r : r = body[i].root /\ r = body'[i].root
        OBVIOUS
      <3>2. StaticSize(r)' = StaticSize(r)
        BY <1>2
      <3>3. StaticSize(body[i].root)' = StaticSize(body[i].root)
        BY <3>1, <3>2
      <3> QED BY <1>1, <1>2, <1>4, <3>3 DEF ViewOK
    <2>3. KernelOK(i)' <=> KernelOK(i)
      <3>1. PICK to : to = body[i].to /\ to = body'[i].to
        OBVIOUS
      <3>2. /\ Root(to)' = Root(to) /\ (IsView(to)' <=> IsView(to)) /\ Known(to)' = Known(to)
        BY <1>2, <1>4
      <3> QED BY <1>1, <1>2, <1>3, <1>4, <3>1, <3>2 DEF KernelOK
    <2>4. ReshapeOK(i)' <=> ReshapeOK(i)
      BY <1>1, <1>2, <1>4 DEF ReshapeOK
    <2>5. ReturnOK(i)' <=> ReturnOK(i)
      BY <1>4 DEF ReturnOK
    <2> QED BY <2>1, <2>2, <2>3, <2>4, <2>5 DEF OpOK
  <1> QED BY <1>1, <1>3, <1>5 DEF BodyOK, OneWriter

LEMMA GreatestExists ==
    ASSUME NEW n \in Nat, NEW T \in SUBSET (1..n), T # {}
    PROVE  \E m \in T : \A i \in T : i <= m
  <1> DEFINE R == {n - i : i \in T}
  <1>1. R \in SUBSET Nat /\ R # {}
    <2>1. \A i \in T : n - i \in Nat
      OBVIOUS
    <2> QED BY <2>1
  <1>2. PICK r \in R : \A k \in R : r <= k
    <2> HIDE DEF R
    <2> QED BY <1>1, LeastExists
  <1>3. PICK m \in T : r = n - m
    BY <1>2
  <1>4. \A i \in T : n - m <= n - i
    BY <1>2, <1>3
  <1>5. \A i \in T : i <= m
    BY <1>4
  <1> QED BY <1>5

(* The last use comes after every use.                                     *)
LEMMA LastUseIsLast ==
    ASSUME BodyOK, NEW a \in allocs
    PROVE  /\ LastUse(a) \in Ops
           /\ \A j \in Ops, x \in aliases(a) : j = x \/ Uses(j, x) => j <= LastUse(a)
  <1>1. Len(body) \in Nat /\ Ops = 1..Len(body)
    BY BodyTyped DEF BodyOK
  <1> DEFINE at == {i \in Ops : \E x \in aliases(a) : i = x \/ Uses(i, x)}
  <1>2. a \in at
    <2>1. a \in Ops /\ ~IsView(a)
      BY DEF allocs, Is, IsView
    <2>2. a \in aliases(a)
      BY <2>1 DEF aliases, Root
    <2> QED BY <2>1, <2>2
  <1>3. at \in SUBSET (1..Len(body)) /\ at # {}
    BY <1>1, <1>2
  <1>4. \E i \in at : \A j \in at : j <= i
    <2> HIDE DEF at
    <2> QED BY <1>1, <1>3, GreatestExists
  <1>5. LastUse(a) = CHOOSE i \in at : \A j \in at : j <= i
    BY DEF LastUse
  <1>6. LastUse(a) \in at /\ \A j \in at : j <= LastUse(a)
    <2> HIDE DEF at
    <2> QED BY <1>4, <1>5
  <1> QED BY <1>6

LEMMA InUseInLifetime ==
    ASSUME BodyOK, NEW a \in allocs, NEW i \in Ops, InUse(a, i)
    PROVE  lifetime(a).begin <= i /\ i < lifetime(a).end /\ lifetime(a).begin \in Nat /\ lifetime(a).end \in Nat
  <1>1. Ops \subseteq Nat /\ a \in Ops
    BY BodyTyped DEF BodyOK, allocs, Is
  <1>2. PICK l \in Nat : l = LastUse(a)
    BY <1>1, LastUseIsLast
  <1>3. PICK j \in Ops : j >= i /\ \E x \in aliases(a) : j = x \/ Uses(j, x)
    BY DEF InUse
  <1>4. j <= l
    BY <1>2, <1>3, LastUseIsLast
  <1>5. i \in Nat /\ j \in Nat /\ a \in Nat /\ a <= i
    BY <1>1 DEF InUse
  <1>6. i < l + 1 /\ l + 1 \in Nat
    BY <1>3, <1>4, <1>5
  <1>7. lifetime(a).begin = a /\ lifetime(a).end = l + 1
    BY <1>2 DEF lifetime
  <1> QED BY <1>5, <1>6, <1>7

LEMMA NotChained ==
    ASSUME NEW i \in DOMAIN itv, NEW j \in DOMAIN itv, i # j
    PROVE  ~Solver!Chained({}, i, j)
  <1>1. {i} \in SUBSET Solver!Ids
    BY DEF Solver!Ids
  <1>2. i \in {i} /\ j \notin {i}
    OBVIOUS
  <1> QED BY <1>1, <1>2 DEF Solver!Chained

LEMMA makePlanPlans ==
    ASSUME BodyOK, itv = [v \in allocs |-> lifetime(v)], makePlan
    PROVE  PlanOK'
  <1>1. PICK f \in [allocs -> 0..MaxMemory - 1], n \in 0..MaxMemory :
            Solver!Plan(f, {}, n) /\ addr' = f /\ tot' = n
    BY DEF makePlan
  <1>2. body' = body /\ Ops' = Ops /\ allocs' = allocs
    BY DEF makePlan, Ops, allocs, Is
  <1>3. n \in Nat /\ (\A a \in allocs : f[a] \in Nat) /\ f = addr'
    BY <1>1
  <1>4. DOMAIN itv = allocs /\ \A a \in allocs : /\ itv[a].size = body[a].size /\ itv[a] = lifetime(a)
    BY DEF lifetime
  <1>5. \A a \in allocs : body[a].size \in Nat /\ body[a].size > 0
    BY BodyTyped DEF BodyOK, allocs, Is, OpOK
  <1>6. \A a \in allocs : f[a] + body[a].size <= n
    BY <1>1, <1>4 DEF Solver!Plan, Solver!EndOf, Solver!Ids
  <1>7. ASSUME NEW a \in allocs, NEW b \in allocs, NEW i \in Ops, a # b, InUse(a, i), InUse(b, i)
        PROVE  f[a] + body[a].size <= f[b] \/ f[b] + body[b].size <= f[a]
    <2>1. Solver!Meet(a, b)
      <3>1. /\ lifetime(a).begin <= i /\ i < lifetime(a).end /\ lifetime(a).begin \in Nat /\ lifetime(a).end \in Nat
            /\ lifetime(b).begin <= i /\ i < lifetime(b).end /\ lifetime(b).begin \in Nat /\ lifetime(b).end \in Nat
        BY <1>7, InUseInLifetime
      <3>2. i \in Nat
        BY BodyTyped DEF BodyOK
      <3>3. lifetime(a).begin < lifetime(b).end /\ lifetime(b).begin < lifetime(a).end
        BY ONLY <3>1, <3>2
      <3> QED BY <1>4, <3>3 DEF Solver!Meet
    <2>2. ~Solver!Chained({}, a, b)
      BY <1>4, <1>7, NotChained
    <2>3. ~Solver!Share(f, a, b)
      BY <1>1, <1>4, <2>1, <2>2 DEF Solver!Plan, Solver!Ids
    <2>4. ~(f[a] < f[b] + body[b].size /\ f[b] < f[a] + body[a].size)
      BY <1>4, <2>3 DEF Solver!Share, Solver!EndOf
    <2> QED BY <1>3, <1>5, <2>4
  <1>8. \A a \in allocs, i \in Ops : InUse(a, i)' <=> InUse(a, i)
    <2>1. \A a : aliases(a)' = aliases(a)
      BY <1>2 DEF aliases, Root, IsView
    <2>2. \A j, x : Uses(j, x)' <=> Uses(j, x)
      BY <1>2 DEF Uses
    <2> QED BY <1>2, <2>1, <2>2 DEF InUse
  <1> QED BY <1>1, <1>2, <1>3, <1>6, <1>7, <1>8 DEF PlanOK

LEMMA LifetimesKept ==
    ASSUME UNCHANGED body
    PROVE  [v \in allocs |-> lifetime(v)]' = [v \in allocs |-> lifetime(v)]
  <1>1. Ops' = Ops /\ allocs' = allocs
    BY DEF Ops, allocs, Is
  <1>2. \A v : aliases(v)' = aliases(v)
    BY <1>1 DEF aliases, Root, IsView
  <1>3. \A j, x : Uses(j, x)' <=> Uses(j, x)
    BY DEF Uses
  <1>4. \A v : LastUse(v)' = LastUse(v)
    <2> SUFFICES ASSUME NEW v PROVE LastUse(v)' = LastUse(v)
      OBVIOUS
    <2>1. {i \in Ops' : \E a \in aliases(v)' : i = a \/ Uses(i, a)'}
              = {i \in Ops : \E a \in aliases(v) : i = a \/ Uses(i, a)}
      BY <1>1, <1>2, <1>3
    <2> QED BY <2>1 DEF LastUse
  <1>5. \A v : lifetime(v)' = lifetime(v)
    BY <1>4 DEF lifetime
  <1> QED BY <1>1, <1>5

LEMMA PlanUnchanged == ASSUME PlanInv, UNCHANGED plan PROVE PlanInv'
  <1>1. UNCHANGED <<body, stage, itv, addr, tot>>
    BY DEF plan
  <1>2. BodyOK'
    BY <1>1, BodyKept DEF PlanInv
  <1>3. [v \in allocs |-> lifetime(v)]' = [v \in allocs |-> lifetime(v)]
    BY <1>1, LifetimesKept
  <1>4. PlanOK => PlanOK'
    <2>1. Ops' = Ops /\ allocs' = allocs
      BY <1>1 DEF Ops, allocs, Is
    <2>2. \A a : aliases(a)' = aliases(a)
      BY <1>1, <2>1 DEF aliases, Root, IsView
    <2>3. \A j, x : Uses(j, x)' <=> Uses(j, x)
      BY <1>1 DEF Uses
    <2>4. \A a, i : InUse(a, i)' <=> InUse(a, i)
      BY <2>1, <2>2, <2>3 DEF InUse
    <2> QED BY <1>1, <2>1, <2>4 DEF PlanOK
  <1> QED BY <1>1, <1>2, <1>3, <1>4 DEF PlanInv

(* Every step of the compiler keeps the function and its plan right, and   *)
(* there is none once the memory is planned.                               *)
LEMMA PlanStep ==
    ASSUME PlanInv, ~ReshapesPlanned, NextPlan
    PROVE  PlanInv' /\ stage # "planned"
  <1>1. BodyOK
    BY DEF PlanInv
  <1>2. ASSUME stage = "lowering", stage' = stage, BodyOK' PROVE PlanInv' /\ stage # "planned"
    BY <1>2 DEF PlanInv
  <1>3. ASSUME NEW reads \in SUBSET Tensors, NEW buffer \in Buffers, createOp(reads, buffer)
        PROVE  PlanInv' /\ stage # "planned"
    <2>1. stage = "lowering" /\ stage' = stage
      BY <1>3 DEF createOp, Emit
    <2> QED BY <1>1, <1>2, <1>3, <2>1, createOpKeeps
  <1>4. ASSUME NEW reads \in SUBSET Tensors, NEW s \in Sizes, NEW w \in Sizes, createOp_workspace(reads, s, w)
        PROVE  PlanInv' /\ stage # "planned"
    <2>1. stage = "lowering" /\ stage' = stage
      BY <1>4 DEF createOp_workspace, Emit
    <2> QED BY <1>1, <1>2, <1>4, <2>1, createOp_workspaceKeeps
  <1>5. ASSUME NEW v \in Tensors, NEW s \in Sizes, NEW k \in 0..1, createView(v, s, k)
        PROVE  PlanInv' /\ stage # "planned"
    <2>1. stage = "lowering" /\ stage' = stage /\ k \in Nat
      BY <1>5 DEF createView, Emit
    <2> QED BY <1>1, <1>2, <1>5, <2>1, createViewKeeps
  <1>6. ASSUME NEW v \in Tensors, createReshapeIns(v)
        PROVE  PlanInv' /\ stage # "planned"
    <2>1. stage = "lowering" /\ stage' = stage
      BY <1>6 DEF createReshapeIns, Emit
    <2> QED BY <1>1, <1>2, <1>6, <2>1, createReshapeInsKeeps
  <1>7. ASSUME NEW v \in Tensors, ReturnOp(v)
        PROVE  PlanInv' /\ stage # "planned"
    <2>1. stage = "lowering" /\ stage' = stage
      BY <1>7 DEF ReturnOp
    <2> QED BY <1>1, <1>2, <1>7, <2>1, ReturnOpKeeps
  <1>8. ASSUME NEW v \in Tensors, NEW part \in Tensors, NEW k \in 0..1, createSetSubtensor(v, part, k)
        PROVE  PlanInv' /\ stage # "planned"
    <2>1. stage = "lowering" /\ stage' = stage /\ k \in Nat
      BY <1>8 DEF createSetSubtensor, Emit
    <2> QED BY <1>1, <1>2, <1>8, <2>1, createSetSubtensorKeeps
  <1>9. CASE constructProblem
    <2>1. /\ stage = "lowering" /\ stage' = "described" /\ body' = body /\ body # <<>>
          /\ body[Len(body)].op = "return" /\ itv' = [v \in allocs |-> lifetime(v)]
      BY <1>9 DEF constructProblem
    <2>2. BodyOK'
      BY <1>1, <2>1, BodyKept
    <2>3. itv' = [v \in allocs |-> lifetime(v)]'
      BY <2>1, LifetimesKept
    <2>4. Len(body) > 0
      BY <1>1, <2>1, EmptySeq, LenProperties DEF BodyOK
    <2> QED BY <2>1, <2>2, <2>3, <2>4 DEF PlanInv
  <1>10. CASE makePlan
    <2>1. stage = "described" /\ stage' = "planned" /\ UNCHANGED <<body, itv>>
      BY <1>10 DEF makePlan
    <2>2. itv = [v \in allocs |-> lifetime(v)] /\ Len(body) > 0 /\ body[Len(body)].op = "return"
      BY <2>1 DEF PlanInv
    <2>3. PlanOK'
      BY <1>1, <1>10, <2>2, makePlanPlans
    <2>4. BodyOK'
      BY <1>1, <2>1, BodyKept
    <2>5. itv' = [v \in allocs |-> lifetime(v)]'
      BY <2>1, <2>2, LifetimesKept
    <2> QED BY <2>1, <2>2, <2>3, <2>4, <2>5 DEF PlanInv
  <1> QED BY <1>3, <1>4, <1>5, <1>6, <1>7, <1>8, <1>9, <1>10 DEF NextPlan

-----------------------------------------------------------------------------
(* The machine: where tensors are                                          *)

LEMMA PlannedBody ==
    ASSUME PlanInv, stage = "planned"
    PROVE  /\ BodyOK /\ PlanOK /\ Len(body) > 0 /\ body[Len(body)].op = "return"
           /\ Len(body) \in Nat /\ Ops = 1..Len(body) /\ Ops \subseteq Nat /\ 0 \notin Ops /\ allocs \subseteq Ops
  <1>1. BodyOK /\ PlanOK /\ Len(body) > 0 /\ body[Len(body)].op = "return"
    BY DEF PlanInv
  <1>2. Len(body) \in Nat /\ Ops = 1..Len(body) /\ 0 \notin Ops
    BY <1>1, BodyTyped DEF BodyOK
  <1>3. Ops \subseteq Nat
    BY <1>2
  <1> QED BY <1>1, <1>2, <1>3 DEF allocs, Is

LEMMA Memories ==
    ASSUME MemoryInv
    PROVE  /\ \A m \in Models, v \in {0} \cup Ops :
                ptr[m][v] \in Pointers /\ ptr[m][v].block \in Nat /\ ptr[m][v].offset \in Nat
           /\ Len(blocks) \in Nat /\ Len(blocks) >= 2 /\ DOMAIN blocks = 1..Len(blocks)
           /\ \A b \in 1..Len(blocks) : /\ blocks[b] \in Blocks /\ blocks[b].data \in Seq(Units)
                                        /\ blocks[b].live \in BOOLEAN /\ Len(blocks[b].data) \in Nat
  <1>1. ptr \in [Models -> [{0} \cup Ops -> Pointers]] /\ blocks \in Seq(Blocks) /\ Len(blocks) >= 2
    BY DEF MemoryInv, MemoryTyped
  <1>2. Len(blocks) \in Nat /\ DOMAIN blocks = 1..Len(blocks)
    BY <1>1, LenProperties
  <1>3. \A b \in 1..Len(blocks) : blocks[b] \in Blocks
    BY <1>1, <1>2, ElementOfSeq
  <1>4. \A b \in 1..Len(blocks) : /\ blocks[b].data \in Seq(Units) /\ blocks[b].live \in BOOLEAN
                                  /\ Len(blocks[b].data) \in Nat
    BY <1>3, LenProperties DEF Blocks
  <1>5. \A m \in Models, v \in {0} \cup Ops : ptr[m][v] \in Pointers
    BY <1>1
  <1> QED BY <1>1, <1>2, <1>3, <1>4, <1>5 DEF Pointers

LEMMA Placed ==
    ASSUME PlanInv, MemoryInv, NEW m \in Models, NEW v, IsTensor(v), Planned(v)
    PROVE  /\ addr[Root(v)] \in Nat /\ Sum(v) \in Nat /\ body[Root(v)].size \in Nat /\ StaticSize(v) \in Nat
           /\ ptr[m][v] = At(Arena, addr[Root(v)] + Sum(v))
           /\ ptr[m][v].block = Arena /\ ptr[m][v].offset = addr[Root(v)] + Sum(v)
           /\ Sum(v) + StaticSize(v) <= body[Root(v)].size
           /\ addr[Root(v)] + body[Root(v)].size <= tot /\ tot \in Nat
  <1>1. BodyOK /\ PlanOK /\ allocs \subseteq Ops /\ 0 \notin Ops
    BY PlannedBody DEF MemoryInv
  <1>2. /\ v \in Ops /\ Root(v) \in allocs /\ ~Dynamic(v) /\ Sum(v) \in Nat /\ StaticSize(v) \in Nat
        /\ Sum(v) + StaticSize(v) <= StaticSize(Root(v))
    BY <1>1, TensorTyped
  <1>3. StaticSize(Root(v)) = body[Root(v)].size
    BY <1>1, <1>2 DEF StaticSize
  <1>4. addr[Root(v)] \in Nat /\ addr[Root(v)] + body[Root(v)].size <= tot /\ tot \in Nat
    BY <1>1, <1>2 DEF PlanOK
  <1>5. body[Root(v)].size \in Nat
    BY <1>1, <1>2, BodyTyped DEF BodyOK
  <1>6. ptr[m][v] = At(Arena, addr[Root(v)] + Sum(v))
    BY <1>2 DEF MemoryInv, PlacesKept
  <1>7. ptr[m][v].block = Arena /\ ptr[m][v].offset = addr[Root(v)] + Sum(v)
    BY <1>6 DEF At
  <1> QED BY <1>2, <1>3, <1>4, <1>5, <1>6, <1>7

LEMMA PlannedInRange ==
    ASSUME PlanInv, MemoryInv, active \in Models, NEW v, IsTensor(v), Planned(v)
    PROVE  InRange(Here[v], StaticSize(v))
  <1>1. /\ addr[Root(v)] \in Nat /\ Sum(v) \in Nat /\ body[Root(v)].size \in Nat /\ StaticSize(v) \in Nat
        /\ ptr[active][v].block = Arena /\ ptr[active][v].offset = addr[Root(v)] + Sum(v)
        /\ Sum(v) + StaticSize(v) <= body[Root(v)].size
        /\ addr[Root(v)] + body[Root(v)].size <= tot /\ tot \in Nat
    BY Placed
  <1>2. PICK a \in Nat, k \in Nat, z \in Nat, n \in Nat :
            a = addr[Root(v)] /\ k = Sum(v) /\ z = body[Root(v)].size /\ n = StaticSize(v)
    BY <1>1
  <1>3. a + k + n <= tot
    BY <1>1, <1>2
  <1>4. Len(blocks[Arena].data) = tot /\ blocks[Arena].live
    BY DEF MemoryInv, MemoryTyped, BlocksOwned
  <1>5. Here[v].block = Arena /\ Here[v].offset = a + k
    BY <1>1, <1>2 DEF Here
  <1>6. Here[v] # NULL
    BY <1>5 DEF NULL, Arena
  <1> QED BY <1>2, <1>3, <1>4, <1>5, <1>6 DEF InRange

(* Other tensors of a run are in memory of their own, or that the client   *)
(* gave.                                                                   *)
LEMMA Reached ==
    ASSUME PlanInv, MemoryInv, RunInv, NEW v \in Known(pc), ~Planned(v)
    PROVE  /\ Here[v].block \in 2..Len(blocks) /\ blocks[Here[v].block].live /\ Here[v] # NULL
           /\ \E o \in Known(pc) \cap ({0} \cup DynOut) :
                Here[v].block = Here[o].block /\ (o # 0 => Here[o] # NULL)
  <1>1. TensorOK(v) /\ active \in Models
    BY DEF RunInv
  <1>2. PICK o \in Known(pc) \cap ({0} \cup DynOut) : Here[v].block = Here[o].block
    BY <1>1 DEF TensorOK
  <1>3. TensorOK(o)
    BY DEF RunInv
  <1>4. Len(blocks) \in Nat /\ Len(blocks) >= 2
    BY Memories
  <1>5. CASE o = 0
    <2>1. Here[o].block = 2
      BY <1>1, <1>5 DEF Here, MemoryInv, PlacesKept, At, Client
    <2>2. blocks[2].live
      BY DEF MemoryInv, BlocksOwned, Client
    <2> QED BY <1>2, <1>4, <1>5, <2>1, <2>2 DEF NULL
  <1>6. CASE o # 0
    <2>1. o \in DynOut /\ Here[o] # NULL
      BY <1>3, <1>6 DEF TensorOK
    <2>2. ptr[active][o].block \in 3..Len(blocks) /\ blocks[ptr[active][o].block].live
      BY <1>1, <2>1 DEF MemoryInv, BlocksOwned, Here
    <2>3. Here[o].block \in 2..Len(blocks) /\ blocks[Here[o].block].live /\ Here[o].block # 0
      BY <1>4, <2>2 DEF Here
    <2> QED BY <1>2, <2>1, <2>3 DEF NULL
  <1> QED BY <1>5, <1>6

(* A tensor that is known is within its memory.                            *)
LEMMA WithinMemory ==
    ASSUME PlanInv, MemoryInv, RunInv, NEW v \in Known(pc)
    PROVE  /\ Here[v] \in Pointers /\ meant[v] \in Seq(Units) /\ Len(meant[v]) \in Nat
           /\ Here[v].block \in 1..Len(blocks) /\ InRange(Here[v], Len(meant[v]))
           /\ \A c \in 1..Len(meant[v]) : Here[v].offset + c \in 1..Len(blocks[Here[v].block].data)
  <1>1. /\ TensorOK(v) /\ active \in Models /\ IsTensor(v) /\ v \in {0} \cup Ops
        /\ meant[v] \in Seq(Units) /\ Len(meant[v]) \in Nat
    <2>1. IsTensor(v) /\ v \in {0} \cup Ops
      BY KnownTensor DEF PlanInv, Known
    <2> QED BY <2>1, LenProperties DEF RunInv
  <1>2. Here[v] \in Pointers /\ Here[v].offset \in Nat /\ Len(blocks) \in Nat /\ Len(blocks) >= 2
    BY <1>1, Memories DEF Here
  <1>3. /\ Here[v] # NULL /\ Here[v].block \in 1..Len(blocks) /\ blocks[Here[v].block].live
        /\ Here[v].offset + Len(meant[v]) <= Len(blocks[Here[v].block].data)
    <2>1. CASE Planned(v)
      <3>1. Len(meant[v]) = StaticSize(v)
        BY <1>1, <2>1, TensorTyped DEF TensorOK, PlanInv
      <3>2. InRange(Here[v], Len(meant[v])) /\ Here[v].block = Arena
        BY <1>1, <2>1, <3>1, Placed, PlannedInRange DEF Here
      <3>3. Here[v].block \in 1..Len(blocks)
        BY <1>2, <3>2 DEF Arena
      <3> QED BY <3>2, <3>3 DEF InRange
    <2>2. CASE ~Planned(v)
      <3>1. Here[v].block \in 2..Len(blocks) /\ blocks[Here[v].block].live /\ Here[v] # NULL
        BY <2>2, Reached
      <3>2. Here[v].offset + Len(meant[v]) <= Len(blocks[Here[v].block].data)
        BY <1>1, <2>2 DEF TensorOK
      <3> QED BY <1>2, <3>1, <3>2
    <2> QED BY <2>1, <2>2
  <1>4. InRange(Here[v], Len(meant[v]))
    BY <1>3 DEF InRange
  <1>5. ASSUME NEW c \in 1..Len(meant[v]) PROVE Here[v].offset + c \in 1..Len(blocks[Here[v].block].data)
    <2>1. Len(blocks[Here[v].block].data) \in Nat
      BY <1>3, Memories
    <2>2. PICK f \in Nat, n \in Nat, l \in Nat :
              f = Here[v].offset /\ n = Len(meant[v]) /\ l = Len(blocks[Here[v].block].data)
      BY <1>1, <1>2, <2>1
    <2>3. f + n <= l /\ c \in 1..n
      BY <1>3, <2>2
    <2>4. f + c \in 1..l
      BY ONLY <2>2, <2>3, f \in Nat, n \in Nat, l \in Nat
    <2> QED BY <2>2, <2>4
  <1> QED BY <1>1, <1>2, <1>3, <1>4, <1>5

-----------------------------------------------------------------------------
(* The machine: what a kernel writes                                       *)

Cells(p, n, b, k) == b = p.block /\ k - p.offset \in 1..n
Touched(b, k) ==
    LET to == body[pc].to
        w == body[pc].workspace
    IN  \/ Cells(Here[to], Len(meant[to]), b, k)
        \/ w # 0 /\ Cells(Here[w], body[w].size, b, k)

LEMMA ApartCells ==
    ASSUME PlanInv, MemoryInv, NEW m \in Models, NEW i \in Ops,
           NEW u, IsTensor(u), Planned(u), InUse(Root(u), i),
           NEW x, IsTensor(x), Planned(x), InUse(Root(x), i), Root(u) # Root(x),
           NEW c \in 1..StaticSize(u)
    PROVE  ~Cells(ptr[m][x], StaticSize(x), ptr[m][u].block, ptr[m][u].offset + c)
  <1>1. /\ addr[Root(u)] \in Nat /\ Sum(u) \in Nat /\ body[Root(u)].size \in Nat /\ StaticSize(u) \in Nat
        /\ ptr[m][u].offset = addr[Root(u)] + Sum(u)
        /\ Sum(u) + StaticSize(u) <= body[Root(u)].size
    BY Placed
  <1>2. /\ addr[Root(x)] \in Nat /\ Sum(x) \in Nat /\ body[Root(x)].size \in Nat /\ StaticSize(x) \in Nat
        /\ ptr[m][x].offset = addr[Root(x)] + Sum(x)
        /\ Sum(x) + StaticSize(x) <= body[Root(x)].size
    BY Placed
  <1>3. \/ addr[Root(u)] + body[Root(u)].size <= addr[Root(x)]
        \/ addr[Root(x)] + body[Root(x)].size <= addr[Root(u)]
    <2>1. Root(u) \in allocs /\ Root(x) \in allocs /\ PlanOK
      BY DEF Planned, PlanInv, MemoryInv
    <2> QED BY <2>1 DEF PlanOK
  <1>4. PICK a \in Nat, k \in Nat, z \in Nat, n \in Nat :
            a = addr[Root(u)] /\ k = Sum(u) /\ z = body[Root(u)].size /\ n = StaticSize(u)
    BY <1>1
  <1>5. PICK b \in Nat, l \in Nat, y \in Nat, r \in Nat :
            b = addr[Root(x)] /\ l = Sum(x) /\ y = body[Root(x)].size /\ r = StaticSize(x)
    BY <1>2
  <1>6. k + n <= z /\ l + r <= y /\ (a + z <= b \/ b + y <= a) /\ c \in 1..n
    BY <1>1, <1>2, <1>3, <1>4, <1>5
  <1>7. ~((a + k + c) - (b + l) \in 1..r)
    BY ONLY <1>6, a \in Nat, k \in Nat, z \in Nat, n \in Nat, b \in Nat, l \in Nat, y \in Nat, r \in Nat
  <1>8. ptr[m][u].offset = a + k /\ ptr[m][x].offset = b + l
    BY <1>1, <1>2, <1>4, <1>5
  <1> QED BY <1>5, <1>7, <1>8 DEF Cells

LEMMA Output ==
    ASSUME PlanInv, MemoryInv, RunInv, body[pc].op = "kernel", NEW to, to = body[pc].to
    PROVE  /\ pc \in Ops /\ pc \in Nat /\ KernelOK(pc) /\ to \in Ops /\ to < pc /\ IsTensor(to) /\ active \in Models
           /\ \A u \in Known(pc) : u # to
           /\ Dynamic(to) => to \in DynOut /\ ~Planned(to)
           /\ ~Dynamic(to) => Planned(to) /\ InUse(Root(to), pc)
           /\ to \in DynOut => Dynamic(to)
  <1>1. pc \in Ops /\ active \in Models /\ BodyOK /\ pc \in Is("kernel") /\ pc \in Nat
    <2>1. pc \in Ops /\ active \in Models /\ BodyOK
      BY DEF RunInv, PlanInv
    <2> QED BY <2>1, BodyTyped DEF Is, BodyOK
  <1>2. KernelOK(pc)
    BY <1>1 DEF BodyOK, OpOK
  <1>3. IsTensor(to) /\ to \in Ops /\ to < pc
    BY <1>1, <1>2, OutputInUse DEF KernelOK
  <1>4. ASSUME to \in Known(pc) PROVE FALSE
    <2>1. IsView(to) /\ to = Root(to)
      BY <1>2, <1>4 DEF KernelOK
    <2>2. Root(to) \in allocs
      BY <1>2, <2>1 DEF KernelOK
    <2> QED BY <2>1, <2>2 DEF IsView, allocs, Is
  <1>5. Dynamic(to) => to \in DynOut /\ ~Planned(to)
    <2>1. to \in Outputs
      BY <1>1 DEF Outputs
    <2>2. Dynamic(to) => ~Planned(to)
      BY <1>1, <1>3, TensorTyped
    <2> QED BY <2>1, <2>2 DEF DynOut
  <1>6. ~Dynamic(to) => Planned(to)
    <2>1. to \in Is("alloc") => Root(to) = to
      BY DEF Root, IsView, Is
    <2>2. to \in Is("view") => IsView(to)
      BY <1>1, <1>3, BodyTyped DEF IsView, Is, BodyOK
    <2>3. to \in Is("alloc") \cup Is("dynamic") \cup Is("view") /\ (IsView(to) => Root(to) \in allocs)
      BY <1>2 DEF KernelOK
    <2> QED BY <2>1, <2>2, <2>3 DEF Dynamic, Planned, allocs
  <1>7. Planned(to) => InUse(Root(to), pc)
    BY <1>1, OutputInUse
  <1> QED BY <1>1, <1>2, <1>3, <1>4, <1>5, <1>6, <1>7 DEF DynOut

LEMMA Workspace ==
    ASSUME PlanInv, MemoryInv, RunInv, body[pc].op = "kernel", NEW w, w = body[pc].workspace, w # 0
    PROVE  /\ w \in allocs /\ w \in Ops /\ IsTensor(w) /\ Planned(w) /\ Root(w) = w /\ InUse(w, pc)
           /\ StaticSize(w) = body[w].size /\ body[w].size \in Nat /\ Root(body[pc].to) # w
           /\ \A u \in Known(pc) : Root(u) # w
  <1>1. pc \in Ops /\ BodyOK /\ pc \in Is("kernel") /\ KernelOK(pc)
    BY Output DEF PlanInv, Is
  <1>2. w \in allocs /\ InUse(w, pc) /\ w \in Ops
    BY <1>1, OutputInUse DEF allocs, Is
  <1>3. ~IsView(w) /\ Root(w) = w /\ IsTensor(w) /\ Planned(w) /\ StaticSize(w) = body[w].size
    BY <1>2 DEF allocs, Is, IsView, Root, IsTensor, Planned, StaticSize
  <1>4. body[w].size \in Nat
    BY <1>1, <1>2, BodyTyped DEF BodyOK
  <1>5. w # Root(body[pc].to) /\ \A j \in Ops : ~Writes(j, w) /\ (IsView(j) => body[j].root # w)
    BY <1>1 DEF KernelOK
  <1>6. ASSUME NEW u \in Known(pc) PROVE Root(u) # w
    <2>1. CASE IsView(u)
      <3>1. u \in Ops /\ Root(u) = body[u].root
        BY <2>1 DEF Known, IsView, Root
      <3> QED BY <1>5, <2>1, <3>1
    <2>2. CASE ~IsView(u)
      <3>1. Root(u) = u
        BY <2>2 DEF Root
      <3>2. u = 0 \/ \E j \in Ops : Writes(j, u)
        BY <2>2 DEF Known
      <3> QED BY <1>5, <3>1, <3>2
    <2> QED BY <2>1, <2>2
  <1> QED BY <1>2, <1>3, <1>4, <1>5, <1>6

(* What a kernel writes is not the memory of a tensor that is needed.      *)
LEMMA Untouched ==
    ASSUME PlanInv, MemoryInv, RunInv, Inside, NEW u \in Known(pc), Root(u) # Root(body[pc].to),
           Planned(u) => Needed(u, pc), NEW c \in 1..Len(meant[u])
    PROVE  ~Touched(Here[u].block, Here[u].offset + c)
  <1>1. OutputOK /\ body[pc].op = "kernel" /\ BodyOK
    BY DEF RunInv, OutputOK, PlanInv
  <1>2. PICK to : to = body[pc].to
    OBVIOUS
  <1>3. /\ pc \in Ops /\ pc \in Nat /\ to \in Ops /\ IsTensor(to) /\ active \in Models /\ u # to
        /\ Dynamic(to) => to \in DynOut /\ ~Planned(to)
        /\ ~Dynamic(to) => Planned(to) /\ InUse(Root(to), pc)
    BY <1>1, <1>2, Output
  <1>4. IsTensor(u) /\ TensorOK(u)
    BY <1>1, KnownTensor DEF RunInv
  <1>5. ~Dynamic(to) => Len(meant[to]) = StaticSize(to)
    BY <1>1, <1>2 DEF OutputOK
  <1>6. Here[to] # NULL
    BY <1>1, <1>2 DEF OutputOK, InRange
  <1>7. CASE Planned(u)
    <2>1. InUse(Root(u), pc)
      BY <1>1, <1>3, <1>7, NeededInUse
    <2>2. Len(meant[u]) = StaticSize(u)
      BY <1>1, <1>4, <1>7, TensorTyped DEF TensorOK
    <2>3. ~Cells(Here[to], Len(meant[to]), Here[u].block, Here[u].offset + c)
      <3>1. CASE Dynamic(to)
        <4>1. Here[to].block \in 3..Len(blocks)
          BY <1>3, <1>6, <3>1 DEF MemoryInv, BlocksOwned, Here
        <4>2. Here[u].block = Arena
          BY <1>3, <1>4, <1>7, Placed DEF Here
        <4>3. Here[to].block # 1
          BY <4>1, Memories
        <4> QED BY <4>2, <4>3 DEF Cells, Arena
      <3>2. CASE ~Dynamic(to)
        <4>1. Planned(to) /\ InUse(Root(to), pc) /\ Len(meant[to]) = StaticSize(to) /\ Root(u) # Root(to)
          BY <1>2, <1>3, <1>5, <3>2
        <4>2. ~Cells(ptr[active][to], StaticSize(to), ptr[active][u].block, ptr[active][u].offset + c)
          BY <1>3, <1>4, <1>7, <2>1, <2>2, <4>1, ApartCells
        <4> QED BY <4>1, <4>2 DEF Here
      <3> QED BY <3>1, <3>2
    <2>4. ASSUME NEW w, w = body[pc].workspace, w # 0
          PROVE  ~Cells(Here[w], body[w].size, Here[u].block, Here[u].offset + c)
      <3>1. /\ IsTensor(w) /\ Planned(w) /\ Root(w) = w /\ InUse(w, pc)
            /\ StaticSize(w) = body[w].size /\ Root(u) # w
        BY <1>1, <2>4, Workspace
      <3>2. InUse(Root(w), pc) /\ Root(u) # Root(w)
        BY <3>1
      <3>3. ~Cells(ptr[active][w], StaticSize(w), ptr[active][u].block, ptr[active][u].offset + c)
        BY <1>3, <1>4, <1>7, <2>1, <2>2, <3>1, <3>2, ApartCells
      <3> QED BY <3>1, <3>3 DEF Here
    <2> QED BY <1>2, <2>3, <2>4 DEF Touched
  <1>8. CASE ~Planned(u)
    <2>1. /\ Here[u].block \in 2..Len(blocks) /\ Len(blocks) \in Nat
          /\ \E o \in Known(pc) \cap ({0} \cup DynOut) :
               Here[u].block = Here[o].block /\ (o # 0 => Here[o] # NULL)
      BY <1>8, Reached, Memories
    <2>2. PICK o \in Known(pc) \cap ({0} \cup DynOut) :
              Here[u].block = Here[o].block /\ (o # 0 => Here[o] # NULL)
      BY <2>1
    <2>3. Here[u].block # Arena
      BY <2>1 DEF Arena
    <2>4. Here[u].block # Here[to].block
      <3>1. CASE ~Dynamic(to)
        <4>1. Here[to].block = Arena
          BY <1>3, <3>1, Placed DEF Here
        <4> QED BY <2>3, <4>1
      <3>2. CASE Dynamic(to) /\ o = 0
        <4>1. Here[to].block \in 3..Len(blocks) /\ Here[o].block = Client
          <5>1. Here[to].block \in 3..Len(blocks)
            BY <1>3, <1>6, <3>2 DEF MemoryInv, BlocksOwned, Here
          <5> QED BY <1>3, <3>2, <5>1 DEF MemoryInv, PlacesKept, Here, At
        <4>2. Here[to].block # 2
          BY <2>1, <4>1
        <4> QED BY <2>2, <4>1, <4>2 DEF Client
      <3>3. CASE Dynamic(to) /\ o # 0
        <4>1. o \in DynOut /\ to \in DynOut /\ o # to /\ Here[o] # NULL
          BY <1>2, <1>1, <1>3, <2>2, <3>3, Output
        <4>2. ptr[active][o] # NULL /\ ptr[active][o].block = ptr[active][to].block => o = to
          BY <1>3, <4>1 DEF MemoryInv, BlocksOwned
        <4> QED BY <2>2, <4>1, <4>2 DEF Here
      <3> QED BY <3>1, <3>2, <3>3
    <2>5. ASSUME NEW w, w = body[pc].workspace, w # 0 PROVE Here[w].block = Arena
      <3>1. IsTensor(w) /\ Planned(w)
        BY <1>1, <2>5, Workspace
      <3> QED BY <1>3, <3>1, Placed DEF Here
    <2> QED BY <1>2, <2>3, <2>4, <2>5 DEF Touched, Cells
  <1> QED BY <1>7, <1>8

LEMMA OutputWithin ==
    ASSUME PlanInv, MemoryInv, RunInv, Inside, NEW to, to = body[pc].to
    PROVE  /\ Here[to] \in Pointers /\ meant[to] \in Seq(Units) /\ Len(meant[to]) \in Nat
           /\ Here[to].block \in 1..Len(blocks) /\ Here[to].offset \in Nat
           /\ (~Planned(to) => Here[to].block \in 3..Len(blocks))
           /\ \A c \in 1..Len(meant[to]) : Here[to].offset + c \in 1..Len(blocks[Here[to].block].data)
  <1>1. OutputOK /\ body[pc].op = "kernel" /\ InRange(Here[to], Len(meant[to]))
    BY DEF RunInv, OutputOK
  <1>2. /\ to \in Ops /\ IsTensor(to) /\ active \in Models
        /\ Dynamic(to) => to \in DynOut /\ ~Planned(to)
        /\ ~Dynamic(to) => Planned(to)
    BY <1>1, Output
  <1>3. Here[to] \in Pointers /\ Here[to].offset \in Nat /\ Len(blocks) \in Nat /\ Len(blocks) >= 2
    BY <1>2, Memories DEF Here
  <1>4. meant[to] \in Seq(Units) /\ Len(meant[to]) \in Nat
    BY <1>2, LenProperties DEF RunInv
  <1>5. Planned(to) => Here[to].block \in 1..Len(blocks)
    <2>1. Planned(to) => Here[to].block = Arena
      BY <1>2, Placed DEF Here
    <2> QED BY <1>3, <2>1 DEF Arena
  <1>6. ~Planned(to) => Here[to].block \in 3..Len(blocks)
    BY <1>1, <1>2 DEF MemoryInv, BlocksOwned, Here, InRange
  <1>7. Here[to].block \in 1..Len(blocks)
    BY <1>3, <1>5, <1>6
  <1>8. PICK f \in Nat, n \in Nat, l \in Nat :
            f = Here[to].offset /\ n = Len(meant[to]) /\ l = Len(blocks[Here[to].block].data)
    BY <1>3, <1>4, <1>7, Memories
  <1>9. f + n <= l
    BY <1>1, <1>8 DEF InRange
  <1>10. \A c \in 1..n : f + c \in 1..l
    BY ONLY <1>9, f \in Nat, n \in Nat, l \in Nat
  <1> QED BY <1>3, <1>4, <1>6, <1>7, <1>8, <1>10

SameShape(bs) ==
    /\ bs \in Seq(Blocks) /\ Len(bs) = Len(blocks)
    /\ \A b \in 1..Len(blocks) : bs[b].live = blocks[b].live /\ Len(bs[b].data) = Len(blocks[b].data)

KernelWrote(bs, to, by) ==
    /\ SameShape(bs)
    /\ \A c \in 1..Len(by) : bs[Here[to].block].data[Here[to].offset + c] = by[c]
    /\ \A b \in 1..Len(blocks) : \A k \in 1..Len(blocks[b].data) :
         Touched(b, k) \/ bs[b].data[k] = blocks[b].data[k]

LEMMA KernelWrites ==
    ASSUME PlanInv, MemoryInv, RunInv, Inside, NEW to, to = body[pc].to,
           NEW by \in Seq(Units), Len(by) = Len(meant[to]),
           NEW bs, bs = workspace_used(Write(blocks, Here[to], by))
    PROVE  KernelWrote(bs, to, by)
  <1>1. /\ OutputOK /\ body[pc].op = "kernel" /\ active \in Models /\ pc \in Ops
        /\ IsTensor(to) /\ (~Dynamic(to) => Planned(to) /\ InUse(Root(to), pc))
        /\ (Dynamic(to) => ~Planned(to))
    <2>1. OutputOK /\ body[pc].op = "kernel"
      BY DEF RunInv, OutputOK
    <2> QED BY <2>1, Output
  <1>2. /\ Here[to] \in Pointers /\ Len(meant[to]) \in Nat
        /\ Here[to].block \in 1..Len(blocks) /\ Here[to].offset \in Nat
        /\ ~Planned(to) => Here[to].block \in 3..Len(blocks)
        /\ \A c \in 1..Len(meant[to]) : Here[to].offset + c \in 1..Len(blocks[Here[to].block].data)
    BY OutputWithin
  <1>3. blocks \in Seq(Blocks) /\ Len(blocks) \in Nat /\ Len(blocks) >= 2
    BY Memories DEF MemoryInv, MemoryTyped
  <1>4. PICK cs : cs = Write(blocks, Here[to], by)
    OBVIOUS
  <1>5. /\ cs \in Seq(Blocks) /\ Len(cs) = Len(blocks)
        /\ \A b \in 1..Len(blocks) : cs[b].live = blocks[b].live /\ Len(cs[b].data) = Len(blocks[b].data)
        /\ \A b \in 1..Len(blocks) : \A c \in 1..Len(blocks[b].data) :
             cs[b].data[c] = IF b = Here[to].block /\ c - Here[to].offset \in 1..Len(by)
                             THEN by[c - Here[to].offset] ELSE blocks[b].data[c]
    <2>1. IsWritten(blocks, Here[to], by, cs)
      BY <1>2, <1>3, <1>4, WriteWrites
    <2> QED BY <2>1 DEF IsWritten
  <1>6. \A c \in 1..Len(by) : cs[Here[to].block].data[Here[to].offset + c] = by[c]
    <2> SUFFICES ASSUME NEW c \in 1..Len(by)
                 PROVE  cs[Here[to].block].data[Here[to].offset + c] = by[c]
      OBVIOUS
    <2>1. PICK f \in Nat : f = Here[to].offset
      BY <1>2
    <2>2. (f + c) - f = c
      BY <1>2
    <2>3. f + c \in 1..Len(blocks[Here[to].block].data)
      BY <1>2, <2>1
    <2> QED BY <1>2, <1>5, <2>1, <2>2, <2>3
  <1>7. CASE body[pc].workspace = 0
    <2>1. bs = cs
      BY <1>4, <1>7 DEF workspace_used
    <2>2. ASSUME NEW b \in 1..Len(blocks), NEW k \in 1..Len(blocks[b].data), ~Touched(b, k)
          PROVE  bs[b].data[k] = blocks[b].data[k]
      <3>1. ~(b = Here[to].block /\ k - Here[to].offset \in 1..Len(by))
        BY <2>2 DEF Touched, Cells
      <3> QED BY <1>5, <2>1, <3>1
    <2> QED BY <1>5, <1>6, <2>1, <2>2 DEF SameShape, KernelWrote
  <1>8. CASE body[pc].workspace # 0
    <2>1. PICK w : w = body[pc].workspace
      OBVIOUS
    <2>2. /\ IsTensor(w) /\ Planned(w) /\ Root(w) = w /\ InUse(w, pc) /\ w \in Ops
          /\ StaticSize(w) = body[w].size /\ body[w].size \in Nat /\ Root(to) # w
      BY <1>1, <1>8, <2>1, Workspace
    <2>3. Here[w].block = Arena /\ Here[w] \in Pointers /\ Arena \in 1..Len(blocks)
      <3>1. Here[w].block = Arena /\ Here[w] \in Pointers
        BY <1>1, <2>2, Placed, Memories DEF Here
      <3> QED BY <1>3, <3>1 DEF Arena
    <2>4. PICK any \in Seq(Units) : any = Anything(body[w].size) /\ Len(any) = body[w].size
      BY <2>2, AnythingUnits
    <2>5. bs = Write(cs, Here[w], any)
      BY <1>4, <1>8, <2>1, <2>4 DEF workspace_used
    <2>6. /\ bs \in Seq(Blocks) /\ Len(bs) = Len(cs)
          /\ \A b \in 1..Len(cs) : bs[b].live = cs[b].live /\ Len(bs[b].data) = Len(cs[b].data)
          /\ \A b \in 1..Len(cs) : \A c \in 1..Len(cs[b].data) :
               bs[b].data[c] = IF b = Here[w].block /\ c - Here[w].offset \in 1..Len(any)
                               THEN any[c - Here[w].offset] ELSE cs[b].data[c]
      <3>1. IsWritten(cs, Here[w], any, bs)
        BY <1>5, <2>3, <2>5, WriteWrites
      <3> QED BY <3>1 DEF IsWritten
    <2>7. ASSUME NEW b \in 1..Len(blocks), NEW k \in 1..Len(blocks[b].data), ~Touched(b, k)
          PROVE  bs[b].data[k] = blocks[b].data[k]
      <3>1. /\ ~(b = Here[to].block /\ k - Here[to].offset \in 1..Len(by))
            /\ ~(b = Here[w].block /\ k - Here[w].offset \in 1..Len(any))
        BY <1>8, <2>1, <2>4, <2>7 DEF Touched, Cells
      <3> QED BY <1>5, <2>6, <3>1
    <2>8. ASSUME NEW c \in 1..Len(by)
          PROVE  bs[Here[to].block].data[Here[to].offset + c] = by[c]
      <3>1. ~Cells(Here[w], body[w].size, Here[to].block, Here[to].offset + c)
        <4>1. CASE Planned(to)
          <5>1. InUse(Root(to), pc) /\ InUse(Root(w), pc) /\ Root(to) # Root(w) /\ c \in 1..StaticSize(to)
            BY <1>1, <2>2, <4>1 DEF OutputOK
          <5>2. ~Cells(ptr[active][w], StaticSize(w), ptr[active][to].block, ptr[active][to].offset + c)
            BY <1>1, <2>2, <4>1, <5>1, ApartCells
          <5> QED BY <2>2, <5>2 DEF Here
        <4>2. CASE ~Planned(to)
          <5>1. Here[to].block # 1
            BY <1>2, <1>3, <4>2
          <5> QED BY <2>3, <5>1 DEF Cells, Arena
        <4> QED BY <4>1, <4>2
      <3>2. Here[to].offset + c \in 1..Len(cs[Here[to].block].data) /\ Here[to].block \in 1..Len(cs)
        BY <1>2, <1>5
      <3>3. bs[Here[to].block].data[Here[to].offset + c] = cs[Here[to].block].data[Here[to].offset + c]
        BY <2>4, <2>6, <3>1, <3>2 DEF Cells
      <3> QED BY <1>6, <3>3
    <2>9. SameShape(bs)
      BY <1>5, <2>6 DEF SameShape
    <2> QED BY <2>7, <2>8, <2>9 DEF KernelWrote
  <1> QED BY <1>7, <1>8

(* What a step that does not compile leaves as it is.                      *)
LEMMA SamePlan ==
    ASSUME UNCHANGED plan
    PROVE  /\ UNCHANGED <<body, stage, itv, addr, tot>>
           /\ Ops' = Ops /\ allocs' = allocs /\ Outputs' = Outputs /\ DynOut' = DynOut
           /\ \A v : /\ (IsView(v)' <=> IsView(v)) /\ Root(v)' = Root(v) /\ Sum(v)' = Sum(v)
                     /\ StaticSize(v)' = StaticSize(v) /\ (Dynamic(v)' <=> Dynamic(v))
                     /\ (Planned(v)' <=> Planned(v))
           /\ \A i : Known(i)' = Known(i) /\ (IsInstruction(i)' <=> IsInstruction(i))
           /\ \A v, i : Needed(v, i)' <=> Needed(v, i)
  <1>1. UNCHANGED <<body, stage, itv, addr, tot>>
    BY DEF plan
  <1>2. Ops' = Ops /\ allocs' = allocs /\ \A name : Is(name)' = Is(name)
    BY <1>1 DEF Ops, allocs, Is
  <1>3. \A v : /\ (IsView(v)' <=> IsView(v)) /\ Root(v)' = Root(v) /\ Sum(v)' = Sum(v)
               /\ StaticSize(v)' = StaticSize(v) /\ (Dynamic(v)' <=> Dynamic(v))
               /\ (Planned(v)' <=> Planned(v))
    BY <1>1, <1>2 DEF IsView, Root, Sum, StaticSize, Dynamic, Planned
  <1>4. \A j, v : Writes(j, v)' <=> Writes(j, v)
    BY <1>1, <1>2 DEF Writes
  <1>5. \A i : Known(i)' = Known(i) /\ (IsInstruction(i)' <=> IsInstruction(i))
    BY <1>1, <1>2, <1>3, <1>4 DEF Known, IsInstruction
  <1>6. \A v, i : Needed(v, i)' <=> Needed(v, i)
    BY <1>1, <1>2 DEF Needed
  <1>7. Outputs' = Outputs /\ DynOut' = DynOut
    <2>1. Outputs' = Outputs
      BY <1>1, <1>2 DEF Outputs
    <2> QED BY <1>3, <2>1 DEF DynOut
  <1> QED BY <1>1, <1>2, <1>3, <1>5, <1>6, <1>7

LEMMA MemoryKept ==
    ASSUME MemoryInv, UNCHANGED <<plan, ptr, size>>, forwards' \in Nat, SameShape(blocks')
    PROVE  MemoryInv'
  <1>1. /\ UNCHANGED <<body, stage, itv, addr, tot>> /\ Ops' = Ops /\ DynOut' = DynOut
        /\ \A v : Root(v)' = Root(v) /\ Sum(v)' = Sum(v) /\ (Planned(v)' <=> Planned(v))
    BY SamePlan
  <1>2. Len(blocks) \in Nat /\ Len(blocks) >= 2
    BY Memories
  <1>3. Arena \in 1..Len(blocks) /\ Client \in 1..Len(blocks)
    BY <1>2 DEF Arena, Client
  <1>4. MemoryTyped'
    BY <1>1, <1>3 DEF MemoryInv, MemoryTyped, SameShape
  <1>5. PlacesKept'
    BY <1>1 DEF MemoryInv, PlacesKept
  <1>6. \A b \in 3..Len(blocks) : b \in 1..Len(blocks)
    BY <1>2
  <1>7. BlocksOwned'
    <2>1. BlocksOwned /\ ptr' = ptr /\ size' = size
      BY DEF MemoryInv
    <2>2. \A b \in 1..Len(blocks) : blocks'[b].live = blocks[b].live /\ Len(blocks'[b].data) = Len(blocks[b].data)
      BY DEF SameShape
    <2>3. blocks'[Arena].live /\ blocks'[Client].live /\ Len(blocks') = Len(blocks)
      BY <1>3, <2>1, <2>2 DEF BlocksOwned, SameShape
    <2>4. \A m \in Models, v \in DynOut : ptr[m][v] # NULL =>
             /\ ptr[m][v].block \in 3..Len(blocks) /\ ptr[m][v].offset = 0
             /\ blocks'[ptr[m][v].block].live /\ Len(blocks'[ptr[m][v].block].data) = size[m][v]
      BY <1>6, <2>1, <2>2 DEF BlocksOwned
    <2>5. \A b \in 3..Len(blocks) : blocks'[b].live => \E m \in Models, v \in DynOut : ptr[m][v].block = b
      BY <1>6, <2>1, <2>2 DEF BlocksOwned
    <2>6. \A m, k \in Models, v, w \in DynOut :
             ptr[m][v] # NULL /\ ptr[m][v].block = ptr[k][w].block => m = k /\ v = w
      BY <2>1 DEF BlocksOwned
    <2> QED BY <1>1, <2>1, <2>3, <2>4, <2>5, <2>6 DEF BlocksOwned
  <1> QED BY <1>1, <1>4, <1>5, <1>7 DEF MemoryInv

-----------------------------------------------------------------------------
(* The machine: its steps                                                  *)

LEMMA Addresses ==
    ASSUME PlanInv, stage = "planned"
    PROVE  /\ address(0) = At(Client, 0)
           /\ \A v \in {0} \cup Ops : address(v) \in Pointers
           /\ \A v \in Ops : Planned(v) => address(v) = At(Arena, addr[Root(v)] + Sum(v))
           /\ \A v \in DynOut : v \in Ops /\ address(v) = NULL
  <1>1. BodyOK /\ PlanOK /\ 0 \notin Ops /\ Ops \subseteq Nat
    BY PlannedBody
  <1>2. address(0) = At(Client, 0)
    BY DEF address
  <1>3. ASSUME NEW v \in Ops, Planned(v)
        PROVE  address(v) = At(Arena, addr[Root(v)] + Sum(v)) /\ address(v) \in Pointers
    <2>1. IsTensor(v)
      BY <1>1, <1>3 DEF IsTensor, Planned, Root, IsView, Is, allocs
    <2>2. Root(v) \in allocs /\ ~Dynamic(v) /\ Sum(v) \in Nat /\ v # 0
      BY <1>1, <1>3, <2>1, TensorTyped
    <2>3. addr[Root(v)] \in Nat
      BY <1>1, <2>2 DEF PlanOK
    <2>4. Offset(v) = addr[Root(v)] + Sum(v)
      BY <2>3 DEF Offset, Root, Sum
    <2>5. addr[Root(v)] + Sum(v) \in Nat
      BY <2>2, <2>3
    <2> QED BY <1>3, <2>2, <2>4, <2>5 DEF address, At, Pointers, Arena
  <1>4. ASSUME NEW v \in Ops, ~Planned(v) PROVE address(v) \in Pointers
    <2>1. v # 0 /\ body[v].sum \in Nat
      BY <1>1, BodyTyped DEF BodyOK
    <2> QED BY <1>4, <2>1 DEF address, At, Pointers, Arena, NULL
  <1>5. ASSUME NEW v \in DynOut PROVE v \in Ops /\ address(v) = NULL
    <2>1. v \in Ops /\ Dynamic(v)
      BY DEF DynOut, Dynamic, Is
    <2> QED BY <1>1, <2>1 DEF address
  <1>6. address(0) \in Pointers
    BY <1>2 DEF At, Pointers, Client
  <1> QED BY <1>2, <1>3, <1>4, <1>5, <1>6

LEMMA InitMemory == ASSUME IInv, init_model_memory PROVE IInv'
  <1>1. /\ PlanInv /\ stage = "planned" /\ forwards \in Nat /\ status' = "idle" /\ UNCHANGED plan
        /\ forwards' = forwards
    BY DEF IInv, init_model_memory
  <1>2. /\ UNCHANGED <<body, stage, itv, addr, tot>> /\ Ops' = Ops /\ DynOut' = DynOut
        /\ \A v : Root(v)' = Root(v) /\ Sum(v)' = Sum(v) /\ (Planned(v)' <=> Planned(v))
    BY <1>1, SamePlan
  <1>3. PlanInv'
    BY <1>1, PlanUnchanged
  <1>4. tot \in Nat /\ ArgSize \in Nat
    BY <1>1, PlannedBody, SizesAssumption DEF PlanOK
  <1>5. /\ ptr' = [m \in Models |-> [v \in {0} \cup Ops |-> address(v)]]
        /\ size' = [m \in Models |-> [v \in Ops |-> 0]]
    BY DEF init_model_memory
  <1>6. PICK x \in Blocks, y \in Blocks : /\ x = Block(tot) /\ y = Block(ArgSize) /\ x.live /\ y.live
                                          /\ Len(x.data) = tot /\ Len(y.data) = ArgSize
    <2>1. Block(tot) \in Blocks /\ Len(Anything(tot)) = tot /\ Block(ArgSize) \in Blocks /\ Len(Anything(ArgSize)) = ArgSize
      BY <1>4, AnythingUnits
    <2> QED BY <2>1 DEF Block
  <1>7. /\ blocks' \in Seq(Blocks) /\ Len(blocks') = 2 /\ blocks'[1] = x /\ blocks'[2] = y
    <2>1. blocks' = <<x, y>>
      BY <1>6 DEF init_model_memory
    <2> QED BY <2>1
  <1>8. /\ ptr' \in [Models -> [{0} \cup Ops -> Pointers]] /\ size' \in [Models -> [Ops -> Nat]]
        /\ \A m \in Models : /\ ptr'[m][0] = At(Client, 0)
                             /\ \A v \in Ops : Planned(v) => ptr'[m][v] = At(Arena, addr[Root(v)] + Sum(v))
                             /\ \A v \in DynOut : ptr'[m][v] = NULL
    BY <1>1, <1>5, Addresses
  <1>9. MemoryTyped'
    <2>1. 2 >= 2 /\ Len(blocks'[1].data) = tot /\ Len(blocks'[2].data) = ArgSize
      BY <1>6, <1>7
    <2> QED BY <1>1, <1>2, <1>7, <1>8, <2>1 DEF MemoryTyped, Arena, Client
  <1>10. PlacesKept'
    BY <1>2, <1>8 DEF PlacesKept
  <1>11. BlocksOwned'
    <2>1. \A b \in 3..2 : FALSE
      OBVIOUS
    <2> QED BY <1>2, <1>6, <1>7, <1>8, <2>1 DEF BlocksOwned, Arena, Client
  <1> QED BY <1>1, <1>2, <1>3, <1>9, <1>10, <1>11 DEF IInv, MemoryInv, Running

LEMMA Forward == ASSUME IInv, NEW m \in Models, LITE_forward(m) PROVE IInv'
  <1>1. /\ PlanInv /\ MemoryInv /\ forwards \in Nat /\ UNCHANGED <<plan, ptr, size, forwards>>
        /\ status' = "running" /\ active' = m /\ pc' = After(0)
    BY DEF IInv, LITE_forward
  <1>2. /\ UNCHANGED <<body, stage, itv, addr, tot>> /\ Ops' = Ops /\ DynOut' = DynOut
        /\ \A v : /\ Root(v)' = Root(v) /\ Sum(v)' = Sum(v) /\ (Planned(v)' <=> Planned(v))
                  /\ (Dynamic(v)' <=> Dynamic(v)) /\ StaticSize(v)' = StaticSize(v)
        /\ \A i : Known(i)' = Known(i) /\ (IsInstruction(i)' <=> IsInstruction(i))
    BY <1>1, SamePlan
  <1>3. PlanInv'
    BY <1>1, PlanUnchanged
  <1>4. /\ BodyOK /\ Len(body) > 0 /\ body[Len(body)].op = "return" /\ Len(body) \in Nat
        /\ 0 \notin Ops /\ Ops \subseteq Nat
    BY <1>1, PlannedBody DEF MemoryInv
  <1>5. PICK input \in Seq(Units) : input = Fresh(0, ArgSize) /\ Len(input) = ArgSize
    <2>1. ArgSize \in Nat
      BY SizesAssumption
    <2> QED BY <1>1, <2>1, FreshUnits
  <1>6. PICK p \in Pointers : p = At(Client, 0) /\ p.block = Client /\ p.offset = 0
    <2>1. At(Client, 0) \in Pointers /\ At(Client, 0).block = Client /\ At(Client, 0).offset = 0
      BY DEF At, Pointers, Client
    <2> QED BY <2>1
  <1>7. IsWritten(blocks, p, input, blocks')
    <2>1. blocks' = Write(blocks, p, input)
      BY <1>5, <1>6 DEF LITE_forward
    <2>2. blocks \in Seq(Blocks) /\ Len(blocks) \in Nat /\ Len(blocks) >= 2
      BY <1>1, Memories DEF MemoryInv, MemoryTyped
    <2>3. p.block \in 1..Len(blocks)
      BY <1>6, <2>2 DEF Client
    <2> QED BY <2>1, <2>2, <2>3, WriteWrites
  <1>8. SameShape(blocks')
    BY <1>7 DEF SameShape, IsWritten
  <1>9. MemoryInv'
    BY <1>1, <1>8, MemoryKept
  <1>10. /\ After(0) \in Ops /\ IsInstruction(After(0))
    BY <1>4, NextInstruction
  <1>11. Known(After(0)) = {0}
    <2>0. \A v \in Ops : ~(v < 0)
      <3>1. \A n \in Nat : ~(n < 0)
        OBVIOUS
      <3> QED BY <1>4, <3>1
    <2>1. ASSUME NEW v \in Known(After(0)) PROVE v = 0
      <3>1. v \in Known(0) \/ (0 \in Ops /\ Writes(0, v)) \/ (v = 0 /\ v \in Ops)
        BY <1>4, KnownAfter
      <3>2. v \in Known(0) => v = 0
        BY <2>0 DEF Known
      <3> QED BY <1>4, <3>1, <3>2
    <2> QED BY <2>1 DEF Known
  <1>12. meant' = [v \in {0} \cup Ops |-> IF v = 0 THEN input ELSE <<>>]
    BY <1>5 DEF LITE_forward
  <1>13. meant' \in [{0} \cup Ops -> Seq(Units)] /\ meant'[0] = input
    <2>1. <<>> \in Seq(Units)
      BY EmptySeq
    <2> QED BY <1>12, <2>1
  <1>14. TensorOK(0)'
    <2>1. Here[0]' = p
      BY <1>1, <1>6 DEF Here, MemoryInv, PlacesKept
    <2>2. Len(blocks[Client].data)' = ArgSize
      BY <1>9 DEF MemoryInv, MemoryTyped
    <2>3. \A c \in 1..Len(input) : blocks'[p.block].data[p.offset + c] = input[c]
      <3> SUFFICES ASSUME NEW c \in 1..Len(input)
                   PROVE  blocks'[Client].data[0 + c] = input[c]
        BY <1>6
      <3>1. ArgSize \in Nat /\ 0 + c = c /\ c - 0 = c /\ c \in 1..ArgSize
        BY <1>5, SizesAssumption
      <3>2. Len(blocks[Client].data) = ArgSize /\ Client \in 1..Len(blocks)
        BY <1>1, Memories DEF MemoryInv, MemoryTyped, Client
      <3> QED BY <1>5, <1>6, <1>7, <3>1, <3>2 DEF IsWritten
    <2>4. 0 \notin DynOut /\ ~Planned(0) /\ StaticSize(0) = ArgSize
      <3>1. 0 \notin DynOut
        BY <1>4 DEF DynOut, Dynamic, Is
      <3>2. ~Planned(0)
        BY <1>4 DEF Planned, Root, IsView, allocs, Is
      <3> QED BY <3>1, <3>2 DEF StaticSize
    <2>5. 0 \in Known(pc)'
      BY <1>1, <1>2, <1>11
    <2>6. ArgSize \in Nat /\ 0 + ArgSize <= ArgSize
      BY SizesAssumption
    <2>7. Len(meant[0])' = ArgSize
      BY <1>5, <1>13
    <2>8. HoldsAt(Here[0], meant[0])'
      BY <1>13, <2>1, <2>3 DEF HoldsAt
    <2>9. ~Planned(0)' => /\ \E o \in Known(pc)' \cap ({0} \cup DynOut') : Here[0].block' = Here[o].block'
                          /\ Here[0].offset' + Len(meant[0])' <= Len(blocks[Here[0].block].data)'
      BY <1>6, <2>1, <2>2, <2>5, <2>6, <2>7
    <2> QED BY <1>2, <2>4, <2>7, <2>8, <2>9 DEF TensorOK
  <1>15. RunInv'
    BY <1>1, <1>2, <1>10, <1>11, <1>13, <1>14 DEF RunInv, Inside
  <1> QED BY <1>1, <1>3, <1>9, <1>15 DEF IInv, Running

(* Instructions that only set the pointer of a tensor without memory of    *)
(* its own.                                                                *)
LEMMA PointersKept ==
    ASSUME MemoryInv, UNCHANGED <<plan, blocks, forwards>>,
           ptr' \in [Models -> [{0} \cup Ops -> Pointers]], size' \in [Models -> [Ops -> Nat]],
           \A m \in Models : \A v \in {0} \cup Ops :
               v = 0 \/ Planned(v) \/ v \in DynOut => ptr'[m][v] = ptr[m][v],
           \A m \in Models : \A v \in DynOut : size'[m][v] = size[m][v]
    PROVE  MemoryInv'
  <1>1. /\ UNCHANGED <<body, stage, itv, addr, tot>> /\ Ops' = Ops /\ DynOut' = DynOut
        /\ \A v : Root(v)' = Root(v) /\ Sum(v)' = Sum(v) /\ (Planned(v)' <=> Planned(v))
    BY SamePlan
  <1>2. DynOut \subseteq Ops
    BY DEF DynOut, Dynamic, Is
  <1>3. \A m \in Models : \A v \in DynOut : ptr'[m][v] = ptr[m][v]
    BY <1>2
  <1>4. MemoryTyped'
    BY <1>1 DEF MemoryInv, MemoryTyped
  <1>5. PlacesKept'
    BY <1>1 DEF MemoryInv, PlacesKept
  <1>6. BlocksOwned'
    <2>1. BlocksOwned /\ blocks' = blocks
      BY DEF MemoryInv
    <2>2. \A m \in Models, v \in DynOut : ptr[m][v] # NULL =>
             /\ ptr[m][v].block \in 3..Len(blocks) /\ ptr[m][v].offset = 0
             /\ blocks[ptr[m][v].block].live /\ Len(blocks[ptr[m][v].block].data) = size'[m][v]
      BY <2>1 DEF BlocksOwned
    <2>3. \A m, k \in Models, v, w \in DynOut :
             ptr[m][v] # NULL /\ ptr[m][v].block = ptr[k][w].block => m = k /\ v = w
      BY <2>1 DEF BlocksOwned
    <2>4. \A b \in 3..Len(blocks) : blocks[b].live => \E m \in Models, v \in DynOut : ptr[m][v].block = b
      BY <2>1 DEF BlocksOwned
    <2>5. \A m \in Models, v \in DynOut : ptr'[m][v] # NULL =>
             /\ ptr'[m][v].block \in 3..Len(blocks) /\ ptr'[m][v].offset = 0
             /\ blocks[ptr'[m][v].block].live /\ Len(blocks[ptr'[m][v].block].data) = size'[m][v]
      BY <1>3, <2>2
    <2>6. \A m, k \in Models, v, w \in DynOut :
             ptr'[m][v] # NULL /\ ptr'[m][v].block = ptr'[k][w].block => m = k /\ v = w
      BY <1>3, <2>3
    <2>7. ASSUME NEW b \in 3..Len(blocks), blocks[b].live
          PROVE  \E m \in Models, v \in DynOut : ptr'[m][v].block = b
      <3>1. PICK m \in Models, v \in DynOut : ptr[m][v].block = b
        BY <2>4, <2>7
      <3>2. ptr'[m][v] = ptr[m][v]
        BY <1>3
      <3> QED BY <3>1, <3>2
    <2> QED BY <1>1, <2>1, <2>5, <2>6, <2>7 DEF BlocksOwned
  <1> QED BY <1>1, <1>4, <1>5, <1>6 DEF MemoryInv

(* A tensor that was known still is what it was.                           *)
LEMMA TensorStays ==
    ASSUME RunInv, UNCHANGED <<plan, active>>, NEW q, q = pc', Known(pc) \subseteq Known(q),
           NEW u \in Known(pc), \A o \in Known(pc) : ptr'[active][o] = ptr[active][o],
           Len(meant'[u]) = Len(meant[u]),
           Len(blocks'[Here[u].block].data) = Len(blocks[Here[u].block].data),
           (Planned(u) => Needed(u, q)) /\ ~Busy(u)' => HoldsAt(Here[u], meant[u])'
    PROVE  TensorOK(u)'
  <1>1. TensorOK(u)
    BY DEF RunInv
  <1>2. /\ DynOut' = DynOut
        /\ \A v : /\ (Dynamic(v)' <=> Dynamic(v)) /\ StaticSize(v)' = StaticSize(v) /\ (Planned(v)' <=> Planned(v))
        /\ \A i : Known(i)' = Known(i)
        /\ \A v, i : Needed(v, i)' <=> Needed(v, i)
    BY SamePlan
  <1>3. Known(pc)' = Known(q) /\ (Needed(u, pc)' <=> Needed(u, q))
    BY <1>2
  <1>4. \A o \in Known(pc) : Here[o]' = Here[o]
    BY DEF Here
  <1>5. ~Dynamic(u)' => Len(meant[u])' = StaticSize(u)'
    BY <1>1, <1>2 DEF TensorOK
  <1>6. u \in DynOut' => Here[u]' # NULL
    BY <1>1, <1>2, <1>4 DEF TensorOK
  <1>7. ~Planned(u)' => /\ \E o \in Known(pc)' \cap ({0} \cup DynOut') : Here[u].block' = Here[o].block'
                        /\ Here[u].offset' + Len(meant[u])' <= Len(blocks[Here[u].block].data)'
    <2>1. CASE ~Planned(u)
      <3>1. PICK o \in Known(pc) \cap ({0} \cup DynOut) : Here[u].block = Here[o].block
        BY <1>1, <2>1 DEF TensorOK
      <3>2. Here[u].offset + Len(meant[u]) <= Len(blocks[Here[u].block].data)
        BY <1>1, <2>1 DEF TensorOK
      <3>3. Here[u]' = Here[u] /\ Here[o]' = Here[o]
        BY <1>4
      <3> QED BY <1>2, <1>3, <3>1, <3>2, <3>3
    <2> QED BY <1>2, <2>1
  <1>8. (Planned(u)' => Needed(u, pc)') /\ ~Busy(u)' => HoldsAt(Here[u], meant[u])'
    BY <1>2, <1>3
  <1> QED BY <1>5, <1>6, <1>7, <1>8 DEF TensorOK

(* To the next instruction.                                                *)
LEMMA Onwards ==
    ASSUME PlanInv, MemoryInv, RunInv, UNCHANGED plan, body[pc].op # "return", NEW q, q = After(pc), q = pc'
    PROVE  /\ pc \in Nat /\ q \in Nat /\ pc < q /\ q \in Ops /\ IsInstruction(q) /\ Known(pc) \subseteq Known(q)
           /\ \A v : Needed(v, q) => Needed(v, pc)
           /\ \A v \in Known(q) :
                \/ v \in Known(pc) \/ Writes(pc, v)
                \/ v = pc /\ IsView(v) /\ \A j \in Ops : ~Writes(j, v)
           /\ Known(pc)' = Known(q) /\ IsInstruction(pc)' /\ (pc \in Ops)'
  <1>1. /\ BodyOK /\ Len(body) > 0 /\ body[Len(body)].op = "return" /\ Len(body) \in Nat
        /\ Ops = 1..Len(body) /\ pc \in Ops /\ Ops \subseteq Nat
    BY PlannedBody DEF MemoryInv, RunInv
  <1>2. pc \in Nat /\ pc < Len(body)
    <2>1. pc # Len(body)
      BY <1>1
    <2> QED BY <1>1, <2>1
  <1>3. q \in Ops /\ pc < q /\ IsInstruction(q)
    BY <1>1, <1>2, NextInstruction
  <1>4. q \in Nat /\ pc <= q
    BY <1>1, <1>2, <1>3
  <1>5. Known(pc) \subseteq Known(q)
    BY <1>1, <1>2, <1>4, KnownGrows
  <1>6. \A v : Needed(v, q) => Needed(v, pc)
    <2>1. \A j \in Ops : j >= q => j >= pc
      BY <1>1, <1>2, <1>4
    <2> QED BY <2>1 DEF Needed
  <1>7. \A v \in Known(q) :
                \/ v \in Known(pc) \/ Writes(pc, v)
                \/ v = pc /\ IsView(v) /\ \A j \in Ops : ~Writes(j, v)
    BY <1>1, <1>2, KnownAfter
  <1>8. Known(pc)' = Known(q) /\ (IsInstruction(pc)' <=> IsInstruction(q)) /\ ((pc \in Ops)' <=> q \in Ops)
    BY SamePlan
  <1> QED BY <1>2, <1>3, <1>4, <1>5, <1>6, <1>7, <1>8

LEMMA MemForward == ASSUME IInv, execute_memforward PROVE IInv'
  <1>1. /\ PlanInv /\ MemoryInv /\ RunInv /\ status = "running" /\ body[pc].op = "view" /\ BodyOK
        /\ UNCHANGED <<plan, active, size, blocks, forwards>> /\ status' = "running" /\ pc' = After(pc)
        /\ forwards \in Nat
    BY DEF IInv, execute_memforward, At_, Running, PlanInv
  <1>2. PICK q : q = After(pc) /\ q = pc'
    BY <1>1
  <1>3. /\ pc \in Nat /\ q \in Nat /\ pc < q /\ q \in Ops /\ Known(pc) \subseteq Known(q)
        /\ \A v : Needed(v, q) => Needed(v, pc)
        /\ \A v \in Known(q) :
             \/ v \in Known(pc) \/ Writes(pc, v)
             \/ v = pc /\ IsView(v) /\ \A j \in Ops : ~Writes(j, v)
        /\ Known(pc)' = Known(q) /\ IsInstruction(pc)' /\ (pc \in Ops)'
    BY <1>1, <1>2, Onwards
  <1>4. /\ pc \in Ops /\ active \in Models /\ 0 \notin Ops /\ ViewOK(pc) /\ Ops \subseteq Nat
        /\ \A v : ~Writes(pc, v)
    <2>1. pc \in Ops /\ active \in Models
      BY <1>1 DEF RunInv
    <2>2. ViewOK(pc) /\ \A v : ~Writes(pc, v)
      BY <1>1, <2>1 DEF BodyOK, OpOK, Writes, Is
    <2> QED BY <1>1, <2>1, <2>2, PlannedBody DEF MemoryInv
  <1>5. PICK v \in Known(pc) :
            /\ body[pc].reads = {v} /\ ~Dynamic(v) /\ body[pc].root = Root(v)
            /\ body[pc].offset + body[pc].size <= StaticSize(v)
            /\ body[pc].sum = body[pc].offset + Sum(v)
    BY <1>4 DEF ViewOK
  <1>6. source(pc) = v
    BY <1>5 DEF source
  <1>7. PICK k \in Nat, z \in Nat : k = body[pc].offset /\ z = body[pc].size
    BY <1>1, <1>4, BodyTyped DEF BodyOK
  <1>8. TensorOK(v) /\ IsTensor(v) /\ v \in {0} \cup Ops /\ v # pc
    <2>1. TensorOK(v) /\ IsTensor(v) /\ (v # 0 => v < pc) /\ v \in {0} \cup Ops
      BY <1>1, KnownTensor DEF RunInv, Known
    <2>2. v # pc
      BY <1>3, <1>4, <2>1
    <2> QED BY <2>1, <2>2
  <1>9. PICK whole \in Seq(Units) : whole = meant[v] /\ Len(whole) = StaticSize(v) /\ k + z <= Len(whole)
    BY <1>1, <1>5, <1>7, <1>8 DEF RunInv, TensorOK
  <1>10. PICK part \in Seq(Units) : /\ part = Part(whole, k, z) /\ Len(part) = z
                                    /\ \A c \in 1..z : part[c] = whole[k + c]
    BY <1>7, <1>9, PartUnits
  <1>11. meant' = [meant EXCEPT ![pc] = part]
    BY <1>6, <1>7, <1>9, <1>10 DEF execute_memforward
  <1>12. /\ meant' \in [{0} \cup Ops -> Seq(Units)] /\ meant'[pc] = part
         /\ \A u \in {0} \cup Ops : u # pc => meant'[u] = meant[u]
    BY <1>1, <1>4, <1>11 DEF RunInv
  <1>13. IsView(pc) /\ Root(pc) = Root(v) /\ Sum(pc) = k + Sum(v) /\ StaticSize(pc) = z /\ ~Dynamic(pc)
         /\ (Planned(pc) <=> Planned(v)) /\ pc \notin DynOut /\ IsTensor(pc)
    <2>1. IsView(pc) /\ pc # 0
      BY <1>1, <1>4 DEF IsView
    <2>2. ~Dynamic(pc) /\ IsTensor(pc)
      BY <1>1, <1>4 DEF Dynamic, Is, IsTensor
    <2>3. Root(pc) = Root(v) /\ Sum(pc) = k + Sum(v) /\ StaticSize(pc) = z
      BY <1>5, <1>7, <2>1 DEF Root, Sum, StaticSize
    <2> QED BY <2>1, <2>2, <2>3 DEF Planned, DynOut
  <1>14. PICK new \in Pointers : /\ new = At(Here[v].block, Here[v].offset + k)
                                 /\ new.block = Here[v].block /\ new.offset = Here[v].offset + k
    <2>1. PICK b \in Nat, f \in Nat : b = Here[v].block /\ f = Here[v].offset
      BY <1>1, <1>4, <1>8, Memories DEF Here
    <2>2. At(b, f + k) \in Pointers /\ At(b, f + k).block = b /\ At(b, f + k).offset = f + k
      BY DEF At, Pointers
    <2> QED BY <2>1, <2>2
  <1>15. ptr' = IF Planned(pc) THEN ptr ELSE [ptr EXCEPT ![active][pc] = new]
    BY <1>6, <1>7, <1>14 DEF execute_memforward
  <1>16. /\ ptr' \in [Models -> [{0} \cup Ops -> Pointers]]
         /\ \A m \in Models : \A u \in {0} \cup Ops : u # pc \/ Planned(pc) => ptr'[m][u] = ptr[m][u]
         /\ ~Planned(pc) => ptr'[active][pc] = new
    <2>1. ptr \in [Models -> [{0} \cup Ops -> Pointers]]
      BY <1>1 DEF MemoryInv, MemoryTyped
    <2>2. CASE Planned(pc)
      BY <1>15, <2>1, <2>2
    <2>3. CASE ~Planned(pc)
      <3>1. ptr' = [ptr EXCEPT ![active] = [ptr[active] EXCEPT ![pc] = new]]
        BY <1>15, <2>3
      <3> QED BY <1>4, <2>1, <2>3, <3>1
    <2> QED BY <2>2, <2>3
  <1>17. MemoryInv'
    <2>1. \A m \in Models : \A u \in {0} \cup Ops :
               u = 0 \/ Planned(u) \/ u \in DynOut => ptr'[m][u] = ptr[m][u]
      BY <1>4, <1>13, <1>16
    <2>2. size' \in [Models -> [Ops -> Nat]]
      BY <1>1 DEF MemoryInv, MemoryTyped
    <2> QED BY <1>1, <1>16, <2>1, <2>2, PointersKept
  <1>18. ASSUME NEW u \in Known(pc) PROVE TensorOK(u)'
    <2>1. u # pc /\ u \in {0} \cup Ops
      <3>1. u # 0 => u < pc
        BY <1>1, KnownTensor
      <3> QED BY <1>3, <1>4, <3>1 DEF Known
    <2>2. \A o \in Known(pc) : ptr'[active][o] = ptr[active][o]
      <3>1. ASSUME NEW o \in Known(pc) PROVE o # pc /\ o \in {0} \cup Ops
        <4>1. o # 0 => o < pc
          BY <1>1, KnownTensor
        <4> QED BY <1>3, <1>4, <4>1 DEF Known
      <3> QED BY <1>4, <1>16, <3>1
    <2>3. meant'[u] = meant[u] /\ Here[u]' = Here[u]
      BY <1>1, <1>12, <2>1, <2>2 DEF Here
    <2>4. (Planned(u) => Needed(u, q)) => HoldsAt(Here[u], meant[u])'
      <3>1. TensorOK(u) /\ ~Busy(u)
        BY <1>1 DEF RunInv, Busy, Inside
      <3>2. (Planned(u) => Needed(u, q)) => HoldsAt(Here[u], meant[u])
        BY <1>3, <3>1 DEF TensorOK
      <3> QED BY <1>1, <2>3, <3>2 DEF HoldsAt
    <2> QED BY <1>1, <1>2, <1>3, <2>2, <2>3, <2>4, TensorStays
  <1>19. PICK i : i = pc
    OBVIOUS
  <1>20. /\ Here[v]' = Here[v] /\ Here[v].block \in 1..Len(blocks) /\ Here[v].offset \in Nat
         /\ Here[i]'.block = Here[v].block /\ Here[i]'.offset = Here[v].offset + k
    <2>1. ptr'[active][v] = ptr[active][v]
      BY <1>4, <1>8, <1>16
    <2>2. Here[v].block \in 1..Len(blocks) /\ Here[v].offset \in Nat
      BY <1>1, WithinMemory DEF Pointers
    <2>3. CASE Planned(pc)
      <3>1. /\ ptr[active][pc].block = Arena /\ ptr[active][pc].offset = addr[Root(v)] + (k + Sum(v))
            /\ ptr[active][v].block = Arena /\ ptr[active][v].offset = addr[Root(v)] + Sum(v)
            /\ addr[Root(v)] \in Nat /\ Sum(v) \in Nat
        BY <1>1, <1>4, <1>8, <1>13, <2>3, Placed
      <3>2. addr[Root(v)] + (k + Sum(v)) = (addr[Root(v)] + Sum(v)) + k
        BY ONLY <3>1, k \in Nat
      <3>3. ptr'[active][pc] = ptr[active][pc]
        BY <1>4, <1>16, <2>3
      <3> QED BY <1>1, <1>19, <2>1, <2>2, <3>1, <3>2, <3>3 DEF Here
    <2>4. CASE ~Planned(pc)
      <3>1. ptr'[active][pc] = new
        BY <1>16, <2>4
      <3> QED BY <1>1, <1>14, <1>19, <2>1, <2>2, <3>1 DEF Here
    <2> QED BY <2>3, <2>4
  <1>21. TensorOK(i)'
    <2>1. /\ DynOut' = DynOut
          /\ \A u : /\ (Dynamic(u)' <=> Dynamic(u)) /\ StaticSize(u)' = StaticSize(u) /\ (Planned(u)' <=> Planned(u))
      BY <1>1, SamePlan
    <2>2. meant[i]' = part /\ Len(part) = StaticSize(i) /\ i \notin DynOut
      BY <1>10, <1>12, <1>13, <1>19
    <2>3. HoldsAt(Here[v], whole)
      <3>1. Needed(v, pc)
        <4>1. pc >= pc /\ v \in body[pc].reads
          BY <1>3, <1>5
        <4> QED BY <1>4, <4>1 DEF Needed
      <3>2. ~Busy(v)
        BY <1>1 DEF Busy, Inside
      <3> QED BY <1>8, <1>9, <3>1, <3>2 DEF TensorOK
    <2>4. HoldsAt(Here[i], meant[i])'
      <3> SUFFICES ASSUME NEW c \in 1..Len(part)
                   PROVE  blocks'[Here[i]'.block].data[Here[i]'.offset + c] = part[c]
        BY <2>2 DEF HoldsAt
      <3>1. PICK f \in Nat : f = Here[v].offset
        BY <1>20
      <3>2. k + c \in 1..Len(whole) /\ (f + k) + c = f + (k + c)
        <4>1. c \in 1..z /\ Len(whole) \in Nat
          BY <1>10, LenProperties
        <4> QED BY <1>9, <4>1
      <3>3. blocks[Here[v].block].data[f + (k + c)] = whole[k + c]
        BY <2>3, <3>1, <3>2 DEF HoldsAt
      <3>4. part[c] = whole[k + c]
        BY <1>10
      <3> QED BY <1>1, <1>20, <3>1, <3>2, <3>3, <3>4
    <2>5. ASSUME ~Planned(i)
          PROVE  /\ \E o \in Known(q) \cap ({0} \cup DynOut) : Here[i]'.block = Here[o]'.block
                 /\ Here[i]'.offset + Len(part) <= Len(blocks[Here[i]'.block].data)
      <3>1. ~Planned(v)
        BY <1>13, <1>19, <2>5
      <3>2. PICK o \in Known(pc) \cap ({0} \cup DynOut) : Here[v].block = Here[o].block
        BY <1>8, <3>1 DEF TensorOK
      <3>3. Here[o]' = Here[o]
        <4>1. o # pc /\ o \in {0} \cup Ops
          <5>1. o # 0 => o < pc
            BY <1>1, KnownTensor
          <5> QED BY <1>3, <1>4, <5>1 DEF Known
        <4> QED BY <1>1, <1>4, <1>16, <4>1 DEF Here
      <3>4. Here[v].offset + Len(whole) <= Len(blocks[Here[v].block].data)
        BY <1>8, <1>9, <3>1 DEF TensorOK
      <3>5. PICK f \in Nat, l \in Nat, r \in Nat : f = Here[v].offset /\ l = Len(whole) /\ r = Len(blocks[Here[v].block].data)
        BY <1>1, <1>20, LenProperties, Memories
      <3>6. (f + k) + z <= r
        <4>1. k + z <= l /\ f + l <= r
          BY <1>9, <3>4, <3>5
        <4> QED BY ONLY <4>1, f \in Nat, k \in Nat, z \in Nat, l \in Nat, r \in Nat
      <3> QED BY <1>3, <1>10, <1>20, <3>2, <3>3, <3>5, <3>6
    <2>6. blocks' = blocks
      BY <1>1
    <2> QED BY <1>3, <2>1, <2>2, <2>4, <2>5, <2>6 DEF TensorOK
  <1>22. \A u \in Known(pc)' : TensorOK(u)'
    <2>1. \A u \in Known(q) : u \in Known(pc) \/ u = i
      BY <1>3, <1>4, <1>19
    <2> QED BY <1>3, <1>18, <1>21, <2>1
  <1>23. RunInv'
    <2>1. Ops' = Ops /\ active' = active /\ ~Inside'
      BY <1>1, SamePlan DEF Inside
    <2> QED BY <1>3, <1>4, <1>12, <1>22, <2>1 DEF RunInv
  <1>24. PlanInv'
    BY <1>1, PlanUnchanged
  <1> QED BY <1>1, <1>17, <1>23, <1>24 DEF IInv, Running

LEMMA Reshape == ASSUME IInv, execute_reshape PROVE IInv'
  <1>1. /\ PlanInv /\ MemoryInv /\ RunInv /\ status = "running" /\ body[pc].op = "reshape" /\ BodyOK
        /\ UNCHANGED <<plan, active, blocks, forwards>> /\ status' = "running" /\ pc' = After(pc)
        /\ forwards \in Nat
    BY DEF IInv, execute_reshape, At_, Running, PlanInv
  <1>2. PICK q : q = After(pc) /\ q = pc'
    BY <1>1
  <1>3. /\ pc \in Nat /\ q \in Nat /\ pc < q /\ q \in Ops /\ Known(pc) \subseteq Known(q)
        /\ \A v : Needed(v, q) => Needed(v, pc)
        /\ \A v \in Known(q) :
             \/ v \in Known(pc) \/ Writes(pc, v)
             \/ v = pc /\ IsView(v) /\ \A j \in Ops : ~Writes(j, v)
        /\ Known(pc)' = Known(q) /\ IsInstruction(pc)' /\ (pc \in Ops)'
    BY <1>1, <1>2, Onwards
  <1>4. PICK to : to = body[pc].to
    OBVIOUS
  <1>5. pc \in Ops /\ active \in Models /\ 0 \notin Ops /\ ReshapeOK(pc) /\ pc \in Is("reshape")
    <2>1. pc \in Ops /\ active \in Models
      BY <1>1 DEF RunInv
    <2>2. ReshapeOK(pc) /\ pc \in Is("reshape")
      BY <1>1, <2>1 DEF BodyOK, OpOK, Is
    <2> QED BY <1>1, <2>1, <2>2, PlannedBody DEF MemoryInv
  <1>6. PICK v \in Known(pc) : body[pc].reads = {v} /\ Root(v) \notin allocs
    BY <1>5 DEF ReshapeOK
  <1>7. source(pc) = v
    BY <1>6 DEF source
  <1>8. /\ to \in Ops /\ Dynamic(to) /\ ~IsView(to) /\ Root(to) = to /\ ~Planned(to) /\ to # 0 /\ Writes(pc, to)
        /\ \A j \in Ops : Writes(j, to) => j = pc
    <2>1. to \in Is("dynamic") /\ to \in Ops
      BY <1>4, <1>5 DEF ReshapeOK, Is
    <2>2. ~IsView(to) /\ Root(to) = to /\ ~Planned(to)
      BY <2>1 DEF IsView, Root, Is, Planned, allocs
    <2>3. Writes(pc, to)
      BY <1>4, <1>5 DEF Writes
    <2>4. \A j \in Ops : Writes(j, to) => j = pc
      BY <1>1, <1>5, <2>1, <2>3 DEF BodyOK, OneWriter
    <2> QED BY <1>5, <2>1, <2>2, <2>3, <2>4 DEF Dynamic
  <1>9. to \notin Known(pc) /\ to \notin DynOut
    <2>1. to \notin Known(pc)
      <3>1. ~(pc < pc)
        BY <1>3
      <3> QED BY <1>8, <3>1 DEF Known
    <2>2. ASSUME to \in Outputs PROVE FALSE
      <3>1. PICK j \in Is("kernel") : body[j].to = to
        BY <2>2 DEF Outputs
      <3>2. j \in Ops /\ Writes(j, to)
        BY <3>1 DEF Writes, Is
      <3>3. j = pc
        BY <1>8, <3>2
      <3> QED BY <1>1, <3>1, <3>3 DEF Is
    <2> QED BY <2>1, <2>2 DEF DynOut
  <1>10. \A o \in Known(pc) : o # to /\ o \in {0} \cup Ops
    BY <1>9 DEF Known
  <1>11. TensorOK(v) /\ v # to /\ v \in {0} \cup Ops /\ ~Planned(v)
    BY <1>1, <1>6, <1>10 DEF RunInv, Planned
  <1>12. PICK whole \in Seq(Units) : whole = meant[v] /\ Len(whole) \in Nat
    BY <1>1, <1>11, LenProperties DEF RunInv
  <1>13. /\ meant' \in [{0} \cup Ops -> Seq(Units)] /\ meant'[to] = whole
         /\ \A u \in {0} \cup Ops : u # to => meant'[u] = meant[u]
    <2>1. meant' = [meant EXCEPT ![to] = whole]
      BY <1>4, <1>7, <1>12 DEF execute_reshape
    <2> QED BY <1>1, <1>8, <2>1 DEF RunInv
  <1>14. PICK new \in Pointers : new = Here[v]
    BY <1>1, <1>5, <1>11, Memories DEF Here
  <1>15. /\ ptr' \in [Models -> [{0} \cup Ops -> Pointers]]
         /\ \A m \in Models : \A u \in {0} \cup Ops : u # to => ptr'[m][u] = ptr[m][u]
         /\ ptr'[active][to] = new
    <2>1. ptr \in [Models -> [{0} \cup Ops -> Pointers]]
      BY <1>1 DEF MemoryInv, MemoryTyped
    <2>2. ptr' = [ptr EXCEPT ![active][to] = new]
      BY <1>4, <1>7, <1>14 DEF execute_reshape
    <2>3. ptr' = [ptr EXCEPT ![active] = [ptr[active] EXCEPT ![to] = new]]
      BY <2>2
    <2> QED BY <1>5, <1>8, <2>1, <2>3
  <1>16. /\ size' \in [Models -> [Ops -> Nat]]
         /\ \A m \in Models : \A u \in Ops : u # to => size'[m][u] = size[m][u]
    <2>1. size \in [Models -> [Ops -> Nat]]
      BY <1>1 DEF MemoryInv, MemoryTyped
    <2>2. size' = [size EXCEPT ![active][to] = Len(whole)]
      BY <1>4, <1>7, <1>12 DEF execute_reshape
    <2>3. size' = [size EXCEPT ![active] = [size[active] EXCEPT ![to] = Len(whole)]]
      BY <2>2
    <2> QED BY <1>5, <1>8, <1>12, <2>1, <2>3
  <1>17. MemoryInv'
    <2>1. \A m \in Models : \A u \in {0} \cup Ops :
               u = 0 \/ Planned(u) \/ u \in DynOut => ptr'[m][u] = ptr[m][u]
      BY <1>8, <1>9, <1>15
    <2>2. \A m \in Models : \A u \in DynOut : size'[m][u] = size[m][u]
      <3>1. \A u \in DynOut : u \in Ops /\ u # to
        BY <1>9 DEF DynOut, Dynamic, Is
      <3> QED BY <1>16, <3>1
    <2> QED BY <1>1, <1>15, <1>16, <2>1, <2>2, PointersKept
  <1>18. ASSUME NEW u \in Known(pc) PROVE TensorOK(u)'
    <2>1. \A o \in Known(pc) : ptr'[active][o] = ptr[active][o]
      BY <1>5, <1>10, <1>15
    <2>2. meant'[u] = meant[u] /\ Here[u]' = Here[u]
      BY <1>1, <1>10, <1>13, <2>1 DEF Here
    <2>3. (Planned(u) => Needed(u, q)) => HoldsAt(Here[u], meant[u])'
      <3>1. TensorOK(u) /\ ~Busy(u)
        BY <1>1 DEF RunInv, Busy, Inside
      <3>2. (Planned(u) => Needed(u, q)) => HoldsAt(Here[u], meant[u])
        BY <1>3, <3>1 DEF TensorOK
      <3> QED BY <1>1, <2>2, <3>2 DEF HoldsAt
    <2> QED BY <1>1, <1>2, <1>3, <2>1, <2>2, <2>3, TensorStays
  <1>19. TensorOK(to)'
    <2>1. /\ DynOut' = DynOut
          /\ \A u : /\ (Dynamic(u)' <=> Dynamic(u)) /\ StaticSize(u)' = StaticSize(u) /\ (Planned(u)' <=> Planned(u))
      BY <1>1, SamePlan
    <2>2. Here[to]' = Here[v] /\ meant[to]' = meant[v]
      BY <1>1, <1>12, <1>13, <1>14, <1>15 DEF Here
    <2>3. HoldsAt(Here[to], meant[to])'
      <3>1. ~Busy(v)
        BY <1>1 DEF Busy, Inside
      <3>2. HoldsAt(Here[v], meant[v])
        BY <1>11, <3>1 DEF TensorOK
      <3> QED BY <1>1, <2>2, <3>2 DEF HoldsAt
    <2>4. PICK o \in Known(pc) \cap ({0} \cup DynOut) : Here[v].block = Here[o].block
      BY <1>11 DEF TensorOK
    <2>5. Here[o]' = Here[o]
      BY <1>1, <1>5, <1>10, <1>15 DEF Here
    <2>6. Here[v].offset + Len(meant[v]) <= Len(blocks[Here[v].block].data)
      BY <1>11 DEF TensorOK
    <2> QED BY <1>1, <1>3, <1>8, <1>9, <2>1, <2>2, <2>3, <2>4, <2>5, <2>6 DEF TensorOK
  <1>20. \A u \in Known(pc)' : TensorOK(u)'
    <2>1. \A u \in Known(q) : u \in Known(pc) \/ u = to
      <3>1. ~IsView(pc)
        BY <1>1 DEF IsView
      <3>2. \A u : Writes(pc, u) => u = to
        BY <1>4 DEF Writes
      <3> QED BY <1>3, <3>1, <3>2
    <2> QED BY <1>3, <1>18, <1>19, <2>1
  <1>21. RunInv'
    <2>1. Ops' = Ops /\ active' = active /\ ~Inside'
      BY <1>1, SamePlan DEF Inside
    <2> QED BY <1>3, <1>5, <1>13, <1>20, <2>1 DEF RunInv
  <1>22. PlanInv'
    BY <1>1, PlanUnchanged
  <1> QED BY <1>1, <1>17, <1>21, <1>22 DEF IInv, Running

(* A tensor of dynamic shape gets a block of its own that is large enough, *)
(* and the block that it had is freed.                                     *)
LEMMA AllocTensor ==
    ASSUME PlanInv, MemoryInv, active \in Models, NEW v \in DynOut, NEW n \in Nat,
           alloc_tensor_opt(v, n), UNCHANGED <<plan, active, forwards>>
    PROVE  /\ MemoryInv' /\ Here[v]' # NULL /\ Here[v]'.offset = 0
           /\ Here[v]'.block \in 1..Len(blocks') /\ blocks'[Here[v]'.block].live
           /\ n <= Len(blocks'[Here[v]'.block].data)
           /\ \A u \in {0} \cup Ops : u # v => Here[u]' = Here[u]
           /\ \A b \in 1..Len(blocks) : blocks'[b].data = blocks[b].data
  <1>1. /\ UNCHANGED <<body, stage, itv, addr, tot>> /\ Ops' = Ops /\ DynOut' = DynOut
        /\ \A u : Root(u)' = Root(u) /\ Sum(u)' = Sum(u) /\ (Planned(u)' <=> Planned(u))
    BY SamePlan
  <1>2. /\ v \in Ops /\ Dynamic(v) /\ DynOut \subseteq Ops /\ 0 \notin Ops
        /\ \A u \in DynOut : ~Planned(u)
    <2>1. v \in Ops /\ Dynamic(v) /\ DynOut \subseteq Ops /\ 0 \notin Ops
      BY PlannedBody DEF DynOut, Dynamic, Is, MemoryInv
    <2>2. \A u \in DynOut : ~Planned(u)
      BY DEF DynOut, Dynamic, Is, Planned, Root, IsView, allocs
    <2> QED BY <2>1, <2>2
  <1>3. PICK l \in Nat : l = Len(blocks) /\ l >= 2
    BY Memories
  <1>4. BlocksOwned /\ blocks \in Seq(Blocks)
    BY DEF MemoryInv, MemoryTyped
  <1>5. CASE kept(v, n)
    <2>1. UNCHANGED <<ptr, size, blocks>>
      BY <1>2, <1>5 DEF alloc_tensor_opt
    <2>2. SameShape(blocks')
      BY <1>4, <2>1 DEF SameShape
    <2>3. MemoryInv'
      BY <2>1, <2>2, MemoryKept DEF MemoryInv, MemoryTyped
    <2>4. Here' = Here
      BY <2>1 DEF Here
    <2>5. Here[v] # NULL /\ size[active][v] >= n /\ size[active][v] \in Nat
      BY <1>2, <1>5 DEF kept, MemoryInv, MemoryTyped
    <2>6. /\ Here[v].block \in 3..Len(blocks) /\ Here[v].offset = 0
          /\ blocks[Here[v].block].live /\ Len(blocks[Here[v].block].data) = size[active][v]
      BY <1>4, <2>5 DEF BlocksOwned, Here
    <2>7. Here[v].block \in 1..Len(blocks)
      BY <1>3, <2>6
    <2>8. n <= Len(blocks[Here[v].block].data)
      BY <2>5, <2>6
    <2> QED BY <2>1, <2>3, <2>4, <2>5, <2>6, <2>7, <2>8
  <1>6. CASE ~kept(v, n)
    <2>1. PICK p \in Pointers : p = At(Len(blocks) + 1, 0) /\ p.block = l + 1 /\ p.offset = 0 /\ p # NULL
      <3>1. l + 1 \in Nat /\ l + 1 # 0
        OBVIOUS
      <3>2. /\ At(l + 1, 0) \in Pointers /\ At(l + 1, 0).block = l + 1 /\ At(l + 1, 0).offset = 0
            /\ At(l + 1, 0) # NULL
        BY <3>1 DEF At, Pointers, NULL
      <3> QED BY <1>3, <3>2
    <2>2. /\ ptr' = [ptr EXCEPT ![active][v] = p]
          /\ size' = [size EXCEPT ![active][v] = n]
          /\ blocks' = Append(freed(v), Block(n))
      BY <1>2, <1>6, <2>1 DEF alloc_tensor_opt
    <2>3. /\ ptr' \in [Models -> [{0} \cup Ops -> Pointers]]
          /\ ptr'[active][v] = p
          /\ \A m \in Models : \A u \in {0} \cup Ops : ~(m = active /\ u = v) => ptr'[m][u] = ptr[m][u]
      <3>1. ptr \in [Models -> [{0} \cup Ops -> Pointers]]
        BY DEF MemoryInv, MemoryTyped
      <3>2. ptr' = [ptr EXCEPT ![active] = [ptr[active] EXCEPT ![v] = p]]
        BY <2>2
      <3> QED BY <1>2, <3>1, <3>2
    <2>4. /\ size' \in [Models -> [Ops -> Nat]]
          /\ size'[active][v] = n
          /\ \A m \in Models : \A u \in Ops : ~(m = active /\ u = v) => size'[m][u] = size[m][u]
      <3>1. size \in [Models -> [Ops -> Nat]]
        BY DEF MemoryInv, MemoryTyped
      <3>2. size' = [size EXCEPT ![active] = [size[active] EXCEPT ![v] = n]]
        BY <2>2
      <3> QED BY <1>2, <3>1, <3>2
    <2>5. ptr[active][v] # NULL => ptr[active][v].block \in 3..l
      BY <1>3, <1>4 DEF BlocksOwned
    <2>6. PICK fs \in Seq(Blocks) :
              /\ fs = freed(v) /\ Len(fs) = l
              /\ \A b \in 1..l : /\ fs[b].data = blocks[b].data
                                 /\ fs[b].live <=> blocks[b].live /\ ~(ptr[active][v] # NULL /\ b = ptr[active][v].block)
      <3>1. CASE ptr[active][v] = NULL
        <4>1. freed(v) = blocks
          BY <3>1 DEF freed, Here
        <4>2. \A b \in 1..l : blocks[b].live \in BOOLEAN
          BY <1>3, Memories
        <4> QED BY <1>3, <1>4, <3>1, <4>1, <4>2
      <3>2. CASE ptr[active][v] # NULL
        <4>1. PICK b \in 1..l : b = ptr[active][v].block
          BY <1>3, <2>5, <3>2
        <4>2. PICK gone : gone = [blocks[b] EXCEPT !.live = FALSE]
          OBVIOUS
        <4>3. \A c \in 1..l : blocks[c] \in Blocks /\ blocks[c].live \in BOOLEAN
          BY <1>3, Memories
        <4>4. gone \in Blocks /\ gone.live = FALSE /\ gone.data = blocks[b].data
          BY <4>2, <4>3 DEF Blocks
        <4>5. freed(v) = [blocks EXCEPT ![b] = gone]
          BY <3>2, <4>1, <4>2 DEF freed, Here
        <4>6. /\ [blocks EXCEPT ![b] = gone] \in Seq(Blocks)
              /\ Len([blocks EXCEPT ![b] = gone]) = l
              /\ \A c \in 1..l : [blocks EXCEPT ![b] = gone][c] = IF c = b THEN gone ELSE blocks[c]
          BY <1>3, <1>4, <4>4, ExceptSeq
        <4>7. PICK fs \in Seq(Blocks) : /\ fs = freed(v) /\ Len(fs) = l
                                        /\ \A c \in 1..l : fs[c] = IF c = b THEN gone ELSE blocks[c]
          BY <4>5, <4>6
        <4>8. ASSUME NEW c \in 1..l
              PROVE  /\ fs[c].data = blocks[c].data
                     /\ fs[c].live <=> blocks[c].live /\ ~(ptr[active][v] # NULL /\ c = ptr[active][v].block)
          <5>1. CASE c = b
            BY <3>2, <4>1, <4>4, <4>7, <5>1
          <5>2. CASE c # b
            BY <3>2, <4>1, <4>7, <5>2
          <5> QED BY <5>1, <5>2
        <4> QED BY <4>7, <4>8
      <3> QED BY <3>1, <3>2
    <2>7. PICK x \in Blocks : x = Block(n) /\ x.live /\ Len(x.data) = n
      <3>1. Block(n) \in Blocks /\ Len(Anything(n)) = n
        BY AnythingUnits
      <3> QED BY <3>1 DEF Block
    <2>8. /\ blocks' \in Seq(Blocks) /\ Len(blocks') = l + 1 /\ blocks'[l + 1] = x
          /\ \A b \in 1..l : blocks'[b] = fs[b]
      <3>1. blocks' = Append(fs, x)
        BY <2>2, <2>6, <2>7
      <3> QED BY <2>6, <3>1, AppendProperties
    <2>9. /\ \A b \in 3..l : b \in 1..l
          /\ 1 \in 1..l /\ 2 \in 1..l /\ ~(1 \in 3..l) /\ ~(2 \in 3..l) /\ l + 1 \in 3..l + 1
          /\ \A b \in 3..l : b \in 3..l + 1 /\ b # l + 1
          /\ \A b \in 3..l + 1 : b = l + 1 \/ b \in 3..l
          /\ l + 1 \in 1..l + 1 /\ l + 1 >= 2 /\ l + 1 # 0 /\ ~(0 \in 3..l)
      BY <1>3
    <2>10. \A b \in 1..l : blocks'[b].data = blocks[b].data
      BY <2>6, <2>8
    <2>11. /\ blocks'[1].live /\ blocks'[2].live
           /\ Len(blocks'[1].data) = tot /\ Len(blocks'[2].data) = ArgSize
      <3>1. blocks[1].live /\ blocks[2].live
        BY <1>4 DEF BlocksOwned, Arena, Client
      <3>2. Len(blocks[1].data) = tot /\ Len(blocks[2].data) = ArgSize
        BY DEF MemoryInv, MemoryTyped, Arena, Client
      <3> QED BY <2>5, <2>6, <2>8, <2>9, <2>10, <3>1, <3>2
    <2>12. MemoryTyped'
      <3>1. forwards' \in Nat
        BY DEF MemoryInv, MemoryTyped
      <3> QED BY <1>1, <2>3, <2>4, <2>8, <2>9, <2>11, <3>1 DEF MemoryTyped, Arena, Client
    <2>13. PlacesKept'
      <3>1. ASSUME NEW m \in Models
            PROVE  /\ ptr'[m][0] = At(Client, 0)
                   /\ \A u \in Ops : Planned(u) => ptr'[m][u] = At(Arena, addr[Root(u)] + Sum(u))
        <4>1. v # 0 /\ ~Planned(v)
          BY <1>2
        <4> QED BY <2>3, <4>1 DEF MemoryInv, PlacesKept
      <3> QED BY <1>1, <3>1 DEF PlacesKept
    <2>14. \A m \in Models, u \in DynOut :
               /\ ~(m = active /\ u = v) => ptr'[m][u] = ptr[m][u] /\ size'[m][u] = size[m][u]
               /\ ptr[m][u] # NULL => ptr[m][u].block \in 3..l
               /\ ptr[m][u] = NULL => ptr[m][u].block = 0
      <3> SUFFICES ASSUME NEW m \in Models, NEW u \in DynOut
                   PROVE  /\ ~(m = active /\ u = v) => ptr'[m][u] = ptr[m][u] /\ size'[m][u] = size[m][u]
                          /\ ptr[m][u] # NULL => ptr[m][u].block \in 3..l
                          /\ ptr[m][u] = NULL => ptr[m][u].block = 0
        OBVIOUS
      <3>1. u \in Ops
        BY <1>2
      <3>2. ~(m = active /\ u = v) => ptr'[m][u] = ptr[m][u] /\ size'[m][u] = size[m][u]
        BY <2>3, <2>4, <3>1
      <3>3. ptr[m][u] # NULL => ptr[m][u].block \in 3..l
        BY <1>3, <1>4 DEF BlocksOwned
      <3>4. NULL.block = 0
        BY DEF NULL
      <3> QED BY <3>2, <3>3, <3>4
    <2>15. BlocksOwned'
      <3>1. ASSUME NEW m \in Models, NEW u \in DynOut, ptr'[m][u] # NULL
            PROVE  /\ ptr'[m][u].block \in 3..l + 1 /\ ptr'[m][u].offset = 0
                   /\ blocks'[ptr'[m][u].block].live /\ Len(blocks'[ptr'[m][u].block].data) = size'[m][u]
        <4>1. CASE m = active /\ u = v
          BY <2>1, <2>3, <2>4, <2>7, <2>8, <2>9, <4>1
        <4>2. CASE ~(m = active /\ u = v)
          <5>1. PICK b : b = ptr[m][u].block /\ b = ptr'[m][u].block
            BY <2>14, <4>2
          <5>2. /\ b \in 3..l /\ ptr[m][u].offset = 0 /\ blocks[b].live /\ Len(blocks[b].data) = size[m][u]
            BY <1>3, <1>4, <2>14, <3>1, <4>2, <5>1 DEF BlocksOwned
          <5>3. ~(ptr[active][v] # NULL /\ b = ptr[active][v].block)
            <6>1. ptr[active][v] # NULL /\ ptr[active][v].block = ptr[m][u].block => active = m /\ v = u
              BY <1>4 DEF BlocksOwned
            <6> QED BY <4>2, <5>1, <6>1
          <5>4. blocks'[b].live /\ blocks'[b].data = blocks[b].data
            BY <2>6, <2>8, <2>9, <2>10, <5>2, <5>3
          <5> QED BY <2>9, <2>14, <4>2, <5>1, <5>2, <5>4
        <4> QED BY <4>1, <4>2
      <3>2. ASSUME NEW m \in Models, NEW k \in Models, NEW u \in DynOut, NEW w \in DynOut,
                   ptr'[m][u] # NULL, ptr'[m][u].block = ptr'[k][w].block
            PROVE  m = k /\ u = w
        <4>1. CASE (m = active /\ u = v) /\ (k = active /\ w = v)
          BY <4>1
        <4>2. CASE (m = active /\ u = v) /\ ~(k = active /\ w = v)
          <5>1. ptr[k][w].block = l + 1
            BY <2>1, <2>3, <2>14, <3>2, <4>2
          <5> QED BY <2>9, <2>14, <5>1
        <4>3. CASE ~(m = active /\ u = v) /\ (k = active /\ w = v)
          <5>1. ptr[m][u].block = l + 1 /\ ptr[m][u] # NULL
            BY <2>1, <2>3, <2>14, <3>2, <4>3
          <5> QED BY <2>9, <2>14, <5>1
        <4>4. CASE ~(m = active /\ u = v) /\ ~(k = active /\ w = v)
          <5>1. ptr[m][u] # NULL /\ ptr[m][u].block = ptr[k][w].block
            BY <2>14, <3>2, <4>4
          <5> QED BY <1>4, <5>1 DEF BlocksOwned
        <4> QED BY <4>1, <4>2, <4>3, <4>4
      <3>3. ASSUME NEW b \in 3..l + 1, blocks'[b].live
            PROVE  \E m \in Models, u \in DynOut : ptr'[m][u].block = b
        <4>1. CASE b = l + 1
          BY <2>1, <2>3, <4>1
        <4>2. CASE b \in 3..l
          <5>1. blocks[b].live /\ ~(ptr[active][v] # NULL /\ b = ptr[active][v].block)
            <6>1. b \in 1..l /\ blocks'[b] = fs[b]
              BY <2>8, <2>9, <4>2
            <6> QED BY <2>6, <3>3, <6>1
          <5>2. PICK m \in Models, u \in DynOut : ptr[m][u].block = b
            BY <1>3, <1>4, <4>2, <5>1 DEF BlocksOwned
          <5>3. ~(m = active /\ u = v)
            BY <2>9, <2>14, <4>2, <5>1, <5>2
          <5> QED BY <2>14, <5>2, <5>3
        <4> QED BY <2>9, <4>1, <4>2
      <3> QED BY <1>1, <2>8, <2>11, <3>1, <3>2, <3>3 DEF BlocksOwned, Arena, Client
    <2>16. MemoryInv'
      BY <1>1, <2>12, <2>13, <2>15 DEF MemoryInv
    <2>17. Here[v]' = p /\ \A u \in {0} \cup Ops : u # v => Here[u]' = Here[u]
      BY <1>2, <2>3 DEF Here
    <2>18. /\ Here[v]' # NULL /\ Here[v]'.offset = 0 /\ Here[v]'.block = l + 1
           /\ blocks'[l + 1].live /\ Len(blocks'[l + 1].data) = n
      BY <2>1, <2>7, <2>8, <2>17
    <2>19. n <= n /\ l + 1 \in 1..Len(blocks')
      BY <2>8, <2>9
    <2> QED BY <1>3, <2>10, <2>16, <2>17, <2>18, <2>19
  <1> QED BY <1>5, <1>6

(* The output has memory, and is meant to hold n new units; so is the part *)
(* of a copy that is written through a view.                               *)
LEMMA DeduceDynamic ==
    ASSUME IInv, execute_deduce, Dynamic(body[pc].to) PROVE IInv'
  <1>1. /\ PlanInv /\ MemoryInv /\ RunInv /\ status = "running" /\ body[pc].op = "kernel" /\ BodyOK
        /\ UNCHANGED <<plan, active, pc, forwards>> /\ forwards \in Nat /\ status' = "computing"
    BY DEF IInv, execute_deduce, At_, Running, PlanInv
  <1>2. PICK to : to = body[pc].to
    OBVIOUS
  <1>3. /\ pc \in Ops /\ pc \in Nat /\ to \in Ops /\ active \in Models /\ IsTensor(to)
        /\ to \in DynOut /\ ~Planned(to) /\ Dynamic(to)
        /\ \A u \in Known(pc) : u # to
    BY <1>1, <1>2, Output
  <1>4. to \notin Is("view") /\ ~IsView(to)
    BY <1>3 DEF Dynamic, Is, IsView
  <1>5. PICK n \in Nat : alloc_tensor_opt(to, n) /\ meant' = [meant EXCEPT ![to] = Fresh(pc, n)]
    <2>1. Lengths \subseteq Nat
      BY VMAssumption
    <2> QED BY <1>2, <1>3, <1>4, <2>1 DEF execute_deduce, DeducedLengths
  <1>6. PICK new \in Seq(Units) : new = Fresh(pc, n) /\ Len(new) = n
    BY <1>1, <1>3, FreshUnits
  <1>7. /\ meant' \in [{0} \cup Ops -> Seq(Units)] /\ meant'[to] = new
        /\ \A u \in {0} \cup Ops : u # to => meant'[u] = meant[u]
    <2>1. meant \in [{0} \cup Ops -> Seq(Units)]
      BY <1>1 DEF RunInv
    <2> QED BY <1>3, <1>5, <1>6, <2>1
  <1>8. /\ MemoryInv' /\ Here[to]' # NULL /\ Here[to]'.offset = 0
        /\ Here[to]'.block \in 1..Len(blocks') /\ blocks'[Here[to]'.block].live
        /\ n <= Len(blocks'[Here[to]'.block].data)
        /\ \A u \in {0} \cup Ops : u # to => Here[u]' = Here[u]
        /\ \A b \in 1..Len(blocks) : blocks'[b].data = blocks[b].data
    BY <1>1, <1>3, <1>5, AllocTensor
  <1>9. PlanInv'
    BY <1>1, PlanUnchanged
  <1>10. /\ UNCHANGED <<body, stage, itv, addr, tot>> /\ Ops' = Ops
         /\ \A v : (IsView(v)' <=> IsView(v)) /\ (Dynamic(v)' <=> Dynamic(v))
         /\ \A i : Known(i)' = Known(i) /\ (IsInstruction(i)' <=> IsInstruction(i))
    BY <1>1, SamePlan
  <1>11. \A u \in Known(pc) : u \in {0} \cup Ops
    BY DEF Known
  <1>12. ASSUME NEW u \in Known(pc) PROVE TensorOK(u)'
    <2>1. Here[u].block \in 1..Len(blocks)
      BY <1>1, WithinMemory
    <2>2. Here[u]' = Here[u] /\ meant'[u] = meant[u] /\ \A o \in Known(pc) : ptr'[active][o] = ptr[active][o]
      BY <1>1, <1>3, <1>7, <1>8, <1>11 DEF Here
    <2>3. Len(blocks'[Here[u].block].data) = Len(blocks[Here[u].block].data)
      BY <1>8, <2>1
    <2>4. (Planned(u) => Needed(u, pc)) => HoldsAt(Here[u], meant[u])'
      <3>1. TensorOK(u) /\ ~Busy(u)
        BY <1>1 DEF RunInv, Busy, Inside
      <3>2. (Planned(u) => Needed(u, pc)) => HoldsAt(Here[u], meant[u])
        BY <3>1 DEF TensorOK
      <3>3. PICK q, d : q = Here[u] /\ d = meant[u] /\ q = Here[u]' /\ d = meant[u]'
        BY <1>7, <2>2
      <3>4. blocks'[q.block].data = blocks[q.block].data
        BY <1>8, <2>1, <3>3
      <3> QED BY <3>2, <3>3, <3>4 DEF HoldsAt
    <2>5. pc' = pc /\ Known(pc) \subseteq Known(pc) /\ Len(meant'[u]) = Len(meant[u])
      BY <1>1, <2>2
    <2>6. (Planned(u) => Needed(u, pc)) /\ ~Busy(u)' => HoldsAt(Here[u], meant[u])'
      BY <2>4
    <2> QED BY <1>1, <2>2, <2>3, <2>5, <2>6, TensorStays
  <1>13. OutputOK'
    <2>1. body[pc].to' = to /\ body[pc].op' = "kernel" /\ ~IsView(to)' /\ Dynamic(to)'
      BY <1>1, <1>2, <1>3, <1>4, <1>10
    <2>2. PICK q : q = Here[to]'
      OBVIOUS
    <2>3. PICK l \in Nat : l = Len(blocks'[q.block].data)
      <3>1. Len(blocks'[Here[to]'.block].data) \in Nat
        <4>1. blocks' \in Seq(Blocks)
          BY <1>8 DEF MemoryInv, MemoryTyped
        <4>2. blocks'[Here[to]'.block] \in Blocks
          BY <1>8, <4>1, ElementOfSeq
        <4>3. \A x \in Blocks : Len(x.data) \in Nat
          BY LenProperties DEF Blocks
        <4> QED BY <4>2, <4>3
      <3> QED BY <2>2, <3>1
    <2>4. q # NULL /\ q.offset = 0 /\ blocks'[q.block].live /\ n <= l
      BY <1>8, <2>2, <2>3
    <2>5. q.offset + n <= Len(blocks'[q.block].data)
      BY <2>3, <2>4
    <2>6. Len(meant[to])' = n
      BY <1>6, <1>7
    <2>7. InRange(Here[to], Len(meant[to]))'
      BY <2>2, <2>4, <2>5, <2>6 DEF InRange
    <2> QED BY <2>1, <2>7 DEF OutputOK
  <1>14. RunInv'
    BY <1>1, <1>7, <1>10, <1>12, <1>13 DEF RunInv
  <1> QED BY <1>1, <1>8, <1>9, <1>14 DEF IInv, Running

(* A kernel that writes through a view, writes to a part of a copy.        *)
LEMMA ViewOfCopy ==
    ASSUME PlanInv, MemoryInv, RunInv, body[pc].op = "kernel", NEW to, to = body[pc].to, IsView(to),
           NEW root, root = Root(to)
    PROVE  /\ root \in Known(pc) /\ root \in Ops /\ Planned(root) /\ Root(root) = root /\ IsTensor(root)
           /\ addr[root] \in Nat /\ body[to].offset \in Nat /\ StaticSize(root) \in Nat /\ StaticSize(to) \in Nat
           /\ body[to].offset + StaticSize(to) <= StaticSize(root)
           /\ Here[root].block = Arena /\ Here[root].offset = addr[root]
           /\ Here[to].block = Arena /\ Here[to].offset = addr[root] + body[to].offset
  <1>1. body[pc].op = "kernel" /\ BodyOK
    BY DEF PlanInv
  <1>2. /\ pc \in Ops /\ pc \in Nat /\ KernelOK(pc) /\ to \in Ops /\ to < pc /\ IsTensor(to) /\ active \in Models
        /\ ~Dynamic(to) => Planned(to)
    BY <1>1, Output
  <1>3. root \in allocs /\ root \in Known(to) /\ body[to].sum = body[to].offset
    BY <1>2 DEF KernelOK
  <1>4. to \in Nat /\ to <= pc /\ root \in Ops
    <2>1. Ops \subseteq Nat /\ allocs \subseteq Ops
      BY PlannedBody DEF MemoryInv
    <2> QED BY <1>2, <1>3, <2>1
  <1>5. root \in Known(pc)
    BY <1>1, <1>2, <1>3, <1>4, KnownGrows
  <1>6. ~IsView(root) /\ Root(root) = root /\ Sum(root) = 0 /\ Planned(root) /\ IsTensor(root)
    BY <1>3 DEF allocs, Is, IsView, Root, Sum, Planned, IsTensor
  <1>7. Planned(to) /\ ~Dynamic(to) /\ Sum(to) = body[to].offset /\ Root(to) = root
    BY <1>1, <1>2, <1>3, TensorTyped DEF Sum
  <1>8. /\ addr[root] \in Nat /\ Here[root].block = Arena /\ Here[root].offset = addr[root] + 0
        /\ StaticSize(root) \in Nat
    BY <1>2, <1>6, Placed DEF Here
  <1>9. /\ body[to].offset \in Nat /\ Here[to].block = Arena /\ Here[to].offset = addr[root] + body[to].offset
        /\ StaticSize(to) \in Nat
    BY <1>2, <1>7, Placed DEF Here
  <1>10. body[to].offset + StaticSize(to) <= StaticSize(root)
    BY <1>1, <1>2, <1>7, TensorTyped
  <1>11. Here[root].offset = addr[root]
    BY <1>8
  <1> QED BY <1>4, <1>5, <1>6, <1>8, <1>9, <1>10, <1>11

LEMMA DeducePlanned ==
    ASSUME IInv, execute_deduce, ~Dynamic(body[pc].to) PROVE IInv'
  <1>1. /\ PlanInv /\ MemoryInv /\ RunInv /\ status = "running" /\ body[pc].op = "kernel" /\ BodyOK
        /\ UNCHANGED <<plan, active, pc, forwards>> /\ forwards \in Nat /\ status' = "computing"
    BY DEF IInv, execute_deduce, At_, Running, PlanInv
  <1>2. PICK to, root : to = body[pc].to /\ root = Root(to)
    OBVIOUS
  <1>3. /\ pc \in Ops /\ pc \in Nat /\ to \in Ops /\ active \in Models /\ IsTensor(to) /\ KernelOK(pc)
        /\ ~Dynamic(to) /\ Planned(to)
        /\ \A u \in Known(pc) : u # to
    BY <1>1, <1>2, Output
  <1>4. PICK n \in Nat : n = StaticSize(to)
    BY <1>1, <1>3, TensorTyped
  <1>5. PICK new \in Seq(Units) : new = Fresh(pc, n) /\ Len(new) = n
    BY <1>1, <1>3, FreshUnits
  <1>6. /\ UNCHANGED <<ptr, size, blocks>>
        /\ meant' = IF to \in Is("view")
                    THEN [meant EXCEPT ![source(to)] = Replaced(@, body[to].offset, new), ![to] = new]
                    ELSE [meant EXCEPT ![to] = new]
    BY <1>2, <1>3, <1>4, <1>5 DEF execute_deduce, DeducedLengths, alloc_tensor_opt
  <1>7. MemoryInv'
    <2>1. SameShape(blocks')
      BY <1>1, <1>6 DEF SameShape, MemoryInv, MemoryTyped
    <2> QED BY <1>1, <1>6, <2>1, MemoryKept
  <1>8. PlanInv'
    BY <1>1, PlanUnchanged
  <1>9. \A u \in Known(pc) : u \in {0} \cup Ops
    BY DEF Known
  <1>10. meant \in [{0} \cup Ops -> Seq(Units)] /\ Ops \subseteq Nat /\ 0 \notin Ops
    BY <1>1, PlannedBody DEF RunInv, MemoryInv
  (* What a copy is meant to hold when a part of it is written. *)
  <1>11. ASSUME IsView(to)
         PROVE  /\ meant' \in [{0} \cup Ops -> Seq(Units)] /\ meant'[to] = new
                /\ \A u \in Known(pc) : u # root => meant'[u] = meant[u]
                /\ Len(meant'[root]) = Len(meant[root])
                /\ \A c \in 1..Len(meant[root]) :
                     meant'[root][c] = IF c - body[to].offset \in 1..n THEN new[c - body[to].offset] ELSE meant[root][c]
                /\ \A c \in 1..n : body[to].offset + c \in 1..Len(meant[root])
    <2>1. /\ root \in Known(pc) /\ root \in Ops /\ Planned(root) /\ IsTensor(root)
          /\ body[to].offset \in Nat /\ StaticSize(root) \in Nat
          /\ body[to].offset + StaticSize(to) <= StaticSize(root)
      BY <1>1, <1>2, <1>11, ViewOfCopy
    <2>2. source(to) = root /\ to \in Is("view") /\ root # to
      <3>1. body[to].reads = {root} /\ root # to
        BY <1>2, <1>3, <1>11, <2>1 DEF KernelOK
      <3> QED BY <1>3, <1>11, <3>1 DEF source, IsView, Is
    <2>3. PICK d \in Seq(Units), k \in Nat : d = meant[root] /\ k = body[to].offset
      BY <1>10, <2>1
    <2>4. PICK r \in Seq(Units) : r = Replaced(d, k, new) /\ Len(r) = Len(d)
                                 /\ \A c \in 1..Len(d) : r[c] = IF c - k \in 1..Len(new) THEN new[c - k] ELSE d[c]
      BY ReplacedUnits
    <2>5. meant' = [[meant EXCEPT ![root] = r] EXCEPT ![to] = new]
      BY <1>6, <2>2, <2>3, <2>4
    <2>6. /\ meant' \in [{0} \cup Ops -> Seq(Units)] /\ meant'[to] = new /\ meant'[root] = r
          /\ \A u \in {0} \cup Ops : u # root /\ u # to => meant'[u] = meant[u]
      BY <1>3, <1>10, <2>1, <2>2, <2>5
    <2>7. Len(d) = StaticSize(root)
      <3>1. TensorOK(root) /\ ~Dynamic(root)
        BY <1>1, <2>1, TensorTyped DEF RunInv
      <3> QED BY <2>3, <3>1 DEF TensorOK
    <2>8. PICK z \in Nat : z = Len(d) /\ k + n <= z
      BY <1>4, <2>1, <2>3, <2>7
    <2>9. \A c \in 1..n : k + c \in 1..z
      BY ONLY <2>8, k \in Nat, n \in Nat, z \in Nat
    <2> QED BY <1>3, <1>5, <1>9, <2>3, <2>4, <2>6, <2>8, <2>9
  <1>12. /\ meant' \in [{0} \cup Ops -> Seq(Units)] /\ meant'[to] = new
         /\ \A u \in Known(pc) : Root(u) # Root(to) => meant'[u] = meant[u]
         /\ \A u \in Known(pc) : Len(meant'[u]) = Len(meant[u])
    <2>1. CASE IsView(to)
      <3>1. root \in Known(pc) /\ Root(root) = root
        BY <1>1, <1>2, <2>1, ViewOfCopy
      <3> QED BY <1>2, <1>11, <2>1, <3>1
    <2>2. CASE ~IsView(to)
      <3>1. to \notin Is("view")
        BY <1>3, <1>10, <2>2 DEF Is, IsView
      <3>2. meant' = [meant EXCEPT ![to] = new]
        BY <1>6, <3>1
      <3>3. /\ meant' \in [{0} \cup Ops -> Seq(Units)] /\ meant'[to] = new
            /\ \A u \in {0} \cup Ops : u # to => meant'[u] = meant[u]
        BY <1>3, <1>10, <3>2
      <3> QED BY <1>3, <1>9, <3>3
    <2> QED BY <2>1, <2>2
  <1>13. /\ UNCHANGED <<body, stage, itv, addr, tot>> /\ Ops' = Ops
         /\ \A v : /\ (IsView(v)' <=> IsView(v)) /\ Root(v)' = Root(v) /\ StaticSize(v)' = StaticSize(v)
                   /\ (Dynamic(v)' <=> Dynamic(v)) /\ (Planned(v)' <=> Planned(v))
         /\ \A i : Known(i)' = Known(i) /\ (IsInstruction(i)' <=> IsInstruction(i))
         /\ \A v, i : Needed(v, i)' <=> Needed(v, i)
    BY <1>1, SamePlan
  <1>14. Inside' /\ Here' = Here
    BY <1>1, <1>6 DEF Inside, Here
  <1>15. ASSUME NEW u \in Known(pc), Planned(u) => Needed(u, pc) PROVE HoldsAt(Here[u], meant[u])
    <2>1. TensorOK(u) /\ ~Busy(u)
      BY <1>1 DEF RunInv, Busy, Inside
    <2> QED BY <1>15, <2>1 DEF TensorOK
  <1>16. ASSUME NEW u \in Known(pc) PROVE TensorOK(u)'
    <2>1. Root(u) = Root(to) => Busy(u)'
      BY <1>1, <1>2, <1>13, <1>14 DEF Busy
    <2>2. (Planned(u) => Needed(u, pc)) /\ Root(u) # Root(to) => HoldsAt(Here[u], meant[u])'
      <3>1. PICK p, d : p = Here[u] /\ d = meant[u]
        OBVIOUS
      <3>2. Root(u) # Root(to) => p = Here[u]' /\ d = meant[u]'
        BY <1>12, <1>14, <3>1
      <3> QED BY <1>6, <1>15, <3>1, <3>2 DEF HoldsAt
    <2>3. (Planned(u) => Needed(u, pc)) /\ ~Busy(u)' => HoldsAt(Here[u], meant[u])'
      BY <2>1, <2>2
    <2>4. /\ Len(blocks'[Here[u].block].data) = Len(blocks[Here[u].block].data)
          /\ Len(meant'[u]) = Len(meant[u]) /\ (\A o \in Known(pc) : ptr'[active][o] = ptr[active][o])
          /\ pc' = pc /\ Known(pc) \subseteq Known(pc)
      BY <1>1, <1>6, <1>12
    <2> QED BY <1>1, <2>3, <2>4, TensorStays
  <1>17. OutputOK'
    <2>1. InRange(Here[to], Len(meant[to]))' /\ Len(meant[to])' = StaticSize(to)
      <3>1. InRange(Here[to], n)
        BY <1>1, <1>3, <1>4, PlannedInRange
      <3> QED BY <1>4, <1>5, <1>6, <1>12, <1>14, <3>1 DEF InRange
    <2>2. ASSUME IsView(to), Needed(root, pc)
          PROVE  /\ \A c \in 1..n : meant'[root][body[to].offset + c] = new[c]
                 /\ \A c \in 1..Len(meant'[root]) : c - body[to].offset \notin 1..n =>
                      blocks[Arena].data[addr[root] + c] = meant'[root][c]
      <3>1. /\ root \in Known(pc) /\ body[to].offset \in Nat
            /\ Here[root].block = Arena /\ Here[root].offset = addr[root]
        BY <1>1, <1>2, <2>2, ViewOfCopy
      <3>2. HoldsAt(Here[root], meant[root])
        BY <1>15, <2>2, <3>1
      <3>3. /\ Len(meant'[root]) = Len(meant[root])
            /\ \A c \in 1..Len(meant[root]) :
                 meant'[root][c] = IF c - body[to].offset \in 1..n THEN new[c - body[to].offset] ELSE meant[root][c]
            /\ \A c \in 1..n : body[to].offset + c \in 1..Len(meant[root])
        BY <1>11, <2>2
      <3>4. PICK k \in Nat : k = body[to].offset
        BY <3>1
      <3>5. \A c \in 1..n : (k + c) - k = c
        BY ONLY k \in Nat, n \in Nat
      <3>6. \A c \in 1..n : meant'[root][k + c] = new[c]
        BY <3>3, <3>4, <3>5
      <3>7. \A c \in 1..Len(meant'[root]) : c - k \notin 1..n =>
                blocks[Arena].data[addr[root] + c] = meant'[root][c]
        BY <3>1, <3>2, <3>3, <3>4 DEF HoldsAt
      <3> QED BY <3>4, <3>6, <3>7
    <2>3. /\ body[pc].to' = to /\ body[pc].op' = "kernel" /\ Root(to)' = root /\ Len(meant'[to]) = n
          /\ IsView(to)' /\ Needed(root, pc)' => IsView(to) /\ Needed(root, pc)
      BY <1>1, <1>2, <1>5, <1>12, <1>13
    <2>4. IsView(to)' /\ Needed(root, pc)' =>
             /\ \A c \in 1..Len(meant'[to]) : meant'[root][body[to].offset + c] = meant'[to][c]
             /\ \A c \in 1..Len(meant'[root]) : c - body[to].offset \notin 1..Len(meant'[to]) =>
                  blocks'[Arena].data[addr[root] + c] = meant'[root][c]
      BY <1>6, <1>12, <2>2, <2>3
    <2> QED BY <1>13, <2>1, <2>3, <2>4 DEF OutputOK
  <1>18. RunInv'
    BY <1>1, <1>12, <1>13, <1>16, <1>17 DEF RunInv
  <1> QED BY <1>1, <1>7, <1>8, <1>18 DEF IInv, Running

(* The rest of the copy it leaves alone.                                   *)
LEMMA BesideView ==
    ASSUME PlanInv, MemoryInv, RunInv, Inside, NEW to, to = body[pc].to, IsView(to),
           NEW root, root = Root(to), Needed(root, pc),
           NEW c \in 1..StaticSize(root), c - body[to].offset \notin 1..Len(meant[to])
    PROVE  ~Touched(Arena, addr[root] + c)
  <1>1. body[pc].op = "kernel" /\ BodyOK
    BY DEF RunInv, OutputOK, PlanInv
  <1>2. pc \in Nat /\ pc \in Ops /\ active \in Models
    BY <1>1, Output
  <1>3. /\ root \in Known(pc) /\ Planned(root) /\ Root(root) = root /\ IsTensor(root)
        /\ addr[root] \in Nat /\ body[to].offset \in Nat /\ StaticSize(root) \in Nat
        /\ Here[root].block = Arena /\ Here[root].offset = addr[root]
        /\ Here[to].block = Arena /\ Here[to].offset = addr[root] + body[to].offset
    BY <1>1, ViewOfCopy
  <1>4. ~Cells(Here[to], Len(meant[to]), Arena, addr[root] + c)
    <2>1. PICK a \in Nat, k \in Nat : a = addr[root] /\ k = body[to].offset
      BY <1>3
    <2>2. (a + c) - (a + k) = c - k
      BY <1>3, <2>1
    <2> QED BY <1>3, <2>1, <2>2 DEF Cells
  <1>5. ASSUME NEW w, w = body[pc].workspace, w # 0
        PROVE  ~Cells(Here[w], body[w].size, Arena, addr[root] + c)
    <2>1. /\ IsTensor(w) /\ Planned(w) /\ Root(w) = w /\ InUse(w, pc)
          /\ StaticSize(w) = body[w].size /\ root # w
      BY <1>1, <1>5, Workspace
    <2>2. InUse(Root(root), pc)
      BY <1>1, <1>2, <1>3, NeededInUse
    <2>3. InUse(Root(w), pc) /\ Root(root) # Root(w)
      BY <1>3, <2>1
    <2>4. ~Cells(ptr[active][w], StaticSize(w), ptr[active][root].block, ptr[active][root].offset + c)
      BY <1>2, <1>3, <2>1, <2>2, <2>3, ApartCells
    <2> QED BY <1>3, <2>1, <2>4 DEF Here
  <1> QED BY <1>4, <1>5 DEF Touched

(* What a kernel writes does not change the tensors that are needed and    *)
(* that it is not meant to change.                                         *)
LEMMA OthersHold ==
    ASSUME PlanInv, MemoryInv, RunInv, Inside, UNCHANGED <<plan, active, ptr, size, meant>>,
           SameShape(blocks'),
           \A b \in 1..Len(blocks) : \A k \in 1..Len(blocks[b].data) :
               Touched(b, k) \/ blocks'[b].data[k] = blocks[b].data[k],
           NEW u \in Known(pc), Root(u) # Root(body[pc].to), Planned(u) => Needed(u, pc)
    PROVE  HoldsAt(Here[u], meant[u])'
  <1>1. TensorOK(u) /\ ~Busy(u)
    BY DEF RunInv, Busy
  <1>2. HoldsAt(Here[u], meant[u])
    BY <1>1 DEF TensorOK
  <1>3. /\ Here[u].block \in 1..Len(blocks)
        /\ \A c \in 1..Len(meant[u]) : Here[u].offset + c \in 1..Len(blocks[Here[u].block].data)
    BY WithinMemory
  <1>4. Here[u]' = Here[u] /\ meant[u]' = meant[u]
    BY DEF Here
  <1>5. PICK p, d : p = Here[u] /\ d = meant[u]
    OBVIOUS
  <1>6. ASSUME NEW c \in 1..Len(d) PROVE blocks'[p.block].data[p.offset + c] = d[c]
    <2>1. ~Touched(p.block, p.offset + c)
      BY <1>5, Untouched
    <2>2. blocks[p.block].data[p.offset + c] = d[c]
      BY <1>2, <1>5 DEF HoldsAt
    <2> QED BY <1>3, <1>5, <2>1, <2>2
  <1> QED BY <1>4, <1>5, <1>6 DEF HoldsAt

LEMMA Computes == ASSUME IInv, execute_kernel PROVE IInv'
  <1>1. /\ PlanInv /\ MemoryInv /\ RunInv /\ status = "computing" /\ Inside /\ BodyOK /\ OutputOK
        /\ UNCHANGED <<plan, active, pc, ptr, size, meant, forwards>> /\ forwards \in Nat
    BY DEF IInv, execute_kernel, Running, PlanInv, Inside, RunInv
  <1>2. PICK to : to = body[pc].to
    OBVIOUS
  <1>3. InRange(Here[to], Len(meant[to])) /\ body[pc].op = "kernel"
    BY <1>1, <1>2 DEF OutputOK
  <1>4. PICK any \in Seq(Units) : any = Anything(Len(meant[to])) /\ Len(any) = Len(meant[to])
    <2>1. Len(meant[to]) \in Nat
      BY <1>1, <1>2, OutputWithin
    <2> QED BY <2>1, AnythingUnits
  <1>5. status' = "writing" /\ blocks' = workspace_used(Write(blocks, Here[to], any))
    BY <1>2, <1>3, <1>4 DEF execute_kernel
  <1>6. /\ SameShape(blocks')
        /\ \A b \in 1..Len(blocks) : \A k \in 1..Len(blocks[b].data) :
             Touched(b, k) \/ blocks'[b].data[k] = blocks[b].data[k]
    <2>1. PICK bs : bs = blocks' /\ bs = workspace_used(Write(blocks, Here[to], any))
      BY <1>5
    <2>2. KernelWrote(bs, to, any)
      BY <1>1, <1>2, <1>4, <2>1, KernelWrites
    <2> QED BY <2>1, <2>2 DEF KernelWrote
  <1>7. MemoryInv'
    BY <1>1, <1>6, MemoryKept
  <1>8. PlanInv'
    BY <1>1, PlanUnchanged
  <1>9. /\ UNCHANGED <<body, stage, itv, addr, tot>> /\ Ops' = Ops
        /\ \A v : /\ (IsView(v)' <=> IsView(v)) /\ Root(v)' = Root(v) /\ StaticSize(v)' = StaticSize(v)
                  /\ (Dynamic(v)' <=> Dynamic(v)) /\ (Planned(v)' <=> Planned(v))
        /\ \A i : Known(i)' = Known(i) /\ (IsInstruction(i)' <=> IsInstruction(i))
        /\ \A v, i : Needed(v, i)' <=> Needed(v, i)
    BY <1>1, SamePlan
  <1>10. Inside' /\ Here' = Here
    BY <1>1, <1>5 DEF Inside, Here
  <1>11. ASSUME NEW u \in Known(pc) PROVE TensorOK(u)'
    <2>1. Root(u) = Root(to) => Busy(u)'
      BY <1>1, <1>2, <1>9, <1>10 DEF Busy
    <2>2. (Planned(u) => Needed(u, pc)) /\ ~Busy(u)' => HoldsAt(Here[u], meant[u])'
      BY <1>1, <1>2, <1>6, <2>1, OthersHold
    <2>3. Len(blocks'[Here[u].block].data) = Len(blocks[Here[u].block].data)
      BY <1>1, <1>6, WithinMemory DEF SameShape
    <2>4. Len(meant'[u]) = Len(meant[u]) /\ (\A o \in Known(pc) : ptr'[active][o] = ptr[active][o])
      BY <1>1
    <2>5. pc' = pc /\ Known(pc) \subseteq Known(pc)
      BY <1>1
    <2> QED BY <1>1, <2>2, <2>3, <2>4, <2>5, TensorStays
  <1>12. OutputOK'
    <2>1. /\ Here[to].block \in 1..Len(blocks) /\ Arena \in 1..Len(blocks)
      <3>1. Len(blocks) \in Nat /\ Len(blocks) >= 2
        BY <1>1, Memories
      <3> QED BY <1>1, <1>2, <3>1, OutputWithin DEF Arena
    <2>2. InRange(Here[to], Len(meant[to]))'
      BY <1>1, <1>3, <1>6, <1>10, <2>1 DEF InRange, SameShape
    <2>3. ASSUME IsView(to), NEW root, root = Root(to), Needed(root, pc),
                 NEW c \in 1..Len(meant[root]), c - body[to].offset \notin 1..Len(meant[to])
          PROVE  blocks'[Arena].data[addr[root] + c] = meant[root][c]
      <3>1. /\ root \in Known(pc) /\ Planned(root)
            /\ Here[root].block = Arena /\ Here[root].offset = addr[root]
        BY <1>1, <1>2, <1>3, <2>3, ViewOfCopy
      <3>2. IsTensor(root) /\ ~Dynamic(root) /\ TensorOK(root)
        BY <1>1, <3>1, KnownTensor, TensorTyped DEF RunInv
      <3>3. Len(meant[root]) = StaticSize(root)
        BY <3>2 DEF TensorOK
      <3>4. addr[root] + c \in 1..Len(blocks[Arena].data)
        BY <1>1, <3>1, WithinMemory
      <3>5. blocks'[Arena].data[addr[root] + c] = blocks[Arena].data[addr[root] + c]
        <4>1. ~Touched(Arena, addr[root] + c)
          BY <1>1, <1>2, <2>3, <3>3, BesideView
        <4> QED BY <1>6, <2>1, <3>4, <4>1
      <3>6. blocks[Arena].data[addr[root] + c] = meant[root][c]
        BY <1>1, <1>2, <2>3 DEF OutputOK
      <3> QED BY <3>5, <3>6
    <2>4. ASSUME IsView(to), NEW root, root = Root(to), Needed(root, pc)
          PROVE  \A c \in 1..Len(meant[to]) : meant[root][body[to].offset + c] = meant[to][c]
      BY <1>1, <1>2, <2>4 DEF OutputOK
    <2>5. ~Dynamic(to) => Len(meant[to]) = StaticSize(to)
      BY <1>1, <1>2 DEF OutputOK
    <2>6. body[pc].to' = to /\ body[pc].op' = "kernel" /\ Root(to)' = Root(to)
      BY <1>1, <1>2, <1>3, <1>9
    <2>7. IsView(to)' /\ Needed(Root(to), pc)' => IsView(to) /\ Needed(Root(to), pc)
      BY <1>1, <1>9
    <2>8. PICK root : root = Root(to)
      OBVIOUS
    <2>9. IsView(to)' /\ Needed(Root(to), pc)' =>
             /\ \A c \in 1..Len(meant[to]) : meant[root][body[to].offset + c] = meant[to][c]
             /\ \A c \in 1..Len(meant[root]) : c - body[to].offset \notin 1..Len(meant[to]) =>
                  blocks'[Arena].data[addr[root] + c] = meant[root][c]
      BY <2>3, <2>4, <2>7, <2>8
    <2> QED BY <1>1, <1>9, <2>2, <2>5, <2>6, <2>8, <2>9 DEF OutputOK
  <1>13. RunInv'
    BY <1>1, <1>9, <1>11, <1>12 DEF RunInv
  <1> QED BY <1>1, <1>5, <1>7, <1>8, <1>13 DEF IInv, Running

LEMMA Ends == ASSUME IInv, execute_ends PROVE IInv'
  <1>1. /\ PlanInv /\ MemoryInv /\ RunInv /\ status = "writing" /\ Inside /\ BodyOK /\ OutputOK
        /\ UNCHANGED <<plan, active, ptr, size, meant, forwards>> /\ forwards \in Nat
        /\ status' = "running" /\ pc' = After(pc) /\ body[pc].op = "kernel"
    BY DEF IInv, execute_ends, Running, PlanInv, Inside, RunInv, OutputOK
  <1>2. PICK to, q : to = body[pc].to /\ q = After(pc) /\ q = pc'
    BY <1>1
  <1>3. /\ pc \in Nat /\ q \in Nat /\ pc < q /\ q \in Ops /\ Known(pc) \subseteq Known(q)
        /\ \A v : Needed(v, q) => Needed(v, pc)
        /\ \A v \in Known(q) :
             \/ v \in Known(pc) \/ Writes(pc, v)
             \/ v = pc /\ IsView(v) /\ \A j \in Ops : ~Writes(j, v)
        /\ Known(pc)' = Known(q) /\ IsInstruction(pc)' /\ (pc \in Ops)'
    BY <1>1, <1>2, Onwards
  <1>4. /\ meant[to] \in Seq(Units) /\ Here[to].block \in 1..Len(blocks)
        /\ \A c \in 1..Len(meant[to]) : Here[to].offset + c \in 1..Len(blocks[Here[to].block].data)
    BY <1>1, <1>2, OutputWithin
  <1>5. PICK by \in Seq(Units) : by = meant[to] /\ Len(by) = Len(meant[to])
    BY <1>4
  <1>6. blocks' = workspace_used(Write(blocks, Here[to], by))
    BY <1>2, <1>5 DEF execute_ends
  <1>7. /\ SameShape(blocks')
        /\ \A c \in 1..Len(by) : blocks'[Here[to].block].data[Here[to].offset + c] = by[c]
        /\ \A b \in 1..Len(blocks) : \A k \in 1..Len(blocks[b].data) :
             Touched(b, k) \/ blocks'[b].data[k] = blocks[b].data[k]
    <2>1. PICK bs : bs = blocks' /\ bs = workspace_used(Write(blocks, Here[to], by))
      BY <1>6
    <2>2. KernelWrote(bs, to, by)
      BY <1>1, <1>2, <1>5, <2>1, KernelWrites
    <2> QED BY <2>1, <2>2 DEF KernelWrote
  <1>8. MemoryInv'
    BY <1>1, <1>7, MemoryKept
  <1>9. PlanInv'
    BY <1>1, PlanUnchanged
  <1>10. /\ pc \in Ops /\ KernelOK(pc) /\ to \in Ops /\ to < pc /\ IsTensor(to) /\ active \in Models
         /\ Dynamic(to) => to \in DynOut /\ ~Planned(to)
         /\ ~Dynamic(to) => Planned(to)
         /\ to \in DynOut => Dynamic(to)
    BY <1>1, <1>2, Output
  <1>11. Here' = Here /\ ~Inside'
    BY <1>1 DEF Here, Inside
  <1>12. ASSUME NEW u \in Known(pc) PROVE TensorOK(u)'
    <2>1. ASSUME Planned(u) => Needed(u, q), Root(u) # Root(to) PROVE HoldsAt(Here[u], meant[u])'
      <3>1. Planned(u) => Needed(u, pc)
        BY <1>3, <2>1
      <3> QED BY <1>1, <1>2, <1>7, <2>1, <3>1, OthersHold
    <2>2. ASSUME Planned(u) => Needed(u, q), Root(u) = Root(to) PROVE HoldsAt(Here[u], meant[u])'
      <3>1. IsView(to) /\ u = Root(to)
        BY <1>2, <1>10, <2>2 DEF KernelOK
      <3>2. /\ Planned(u) /\ IsTensor(u)
            /\ addr[u] \in Nat /\ body[to].offset \in Nat /\ StaticSize(u) \in Nat
            /\ Here[u].block = Arena /\ Here[u].offset = addr[u]
            /\ Here[to].block = Arena /\ Here[to].offset = addr[u] + body[to].offset
        BY <1>1, <1>2, <3>1, ViewOfCopy
      <3>3. Needed(u, pc)
        BY <1>3, <2>2, <3>2
      <3>4. /\ \A c \in 1..Len(meant[to]) : meant[u][body[to].offset + c] = meant[to][c]
            /\ \A c \in 1..Len(meant[u]) : c - body[to].offset \notin 1..Len(meant[to]) =>
                 blocks[Arena].data[addr[u] + c] = meant[u][c]
        BY <1>1, <1>2, <3>1, <3>3 DEF OutputOK
      <3>5. Len(meant[u]) = StaticSize(u) /\ Len(by) \in Nat
        <4>1. TensorOK(u) /\ ~Dynamic(u)
          BY <1>1, <3>2, TensorTyped DEF RunInv
        <4> QED BY <1>5, <4>1, LenProperties DEF TensorOK
      <3>6. \A c \in 1..Len(meant[u]) : addr[u] + c \in 1..Len(blocks[Arena].data)
        BY <1>1, <3>2, WithinMemory
      <3>7. PICK a \in Nat, k \in Nat, z \in Nat, n \in Nat :
                a = addr[u] /\ k = body[to].offset /\ z = StaticSize(u) /\ n = Len(by)
        BY <3>2, <3>5
      <3>8. Arena \in 1..Len(blocks)
        BY <1>4, <3>2
      <3>9. ASSUME NEW c \in 1..z PROVE blocks'[Arena].data[a + c] = meant[u][c]
        <4>1. CASE c - k \in 1..n
          <5>1. PICK e \in 1..n : e = c - k
            BY <4>1
          <5>2. k + e = c /\ (a + k) + e = a + c
            BY ONLY <5>1, a \in Nat, k \in Nat, n \in Nat, z \in Nat, c \in 1..z, e \in 1..n
          <5>3. blocks'[Arena].data[(a + k) + e] = by[e]
            BY <1>7, <3>2, <3>7
          <5>4. meant[u][k + e] = by[e]
            BY <1>5, <3>4, <3>7
          <5> QED BY <5>2, <5>3, <5>4
        <4>2. CASE c - k \notin 1..n
          <5>1. ~Touched(Arena, a + c)
            BY <1>1, <1>2, <1>5, <3>1, <3>3, <3>7, <4>2, BesideView
          <5>2. blocks'[Arena].data[a + c] = blocks[Arena].data[a + c]
            BY <1>7, <3>5, <3>6, <3>7, <3>8, <5>1
          <5> QED BY <1>5, <3>4, <3>5, <3>7, <4>2, <5>2
        <4> QED BY <4>1, <4>2
      <3>10. PICK p, d : p = Here[u] /\ d = meant[u]
        OBVIOUS
      <3>11. \A c \in 1..Len(d) : blocks'[p.block].data[p.offset + c] = d[c]
        BY <3>2, <3>5, <3>7, <3>9, <3>10
      <3>12. Here[u]' = p /\ meant[u]' = d
        BY <1>1, <3>10 DEF Here
      <3> QED BY <3>11, <3>12 DEF HoldsAt
    <2>3. Len(blocks'[Here[u].block].data) = Len(blocks[Here[u].block].data)
      BY <1>1, <1>7, WithinMemory DEF SameShape
    <2>4. Len(meant'[u]) = Len(meant[u]) /\ (\A o \in Known(pc) : ptr'[active][o] = ptr[active][o])
      BY <1>1
    <2>5. (Planned(u) => Needed(u, q)) /\ ~Busy(u)' => HoldsAt(Here[u], meant[u])'
      BY <2>1, <2>2
    <2> QED BY <1>1, <1>2, <1>3, <2>3, <2>4, <2>5, TensorStays
  <1>13. TensorOK(to)'
    <2>1. /\ DynOut' = DynOut
          /\ \A u : /\ (Dynamic(u)' <=> Dynamic(u)) /\ StaticSize(u)' = StaticSize(u) /\ (Planned(u)' <=> Planned(u))
      BY <1>1, SamePlan
    <2>2. InRange(Here[to], Len(meant[to])) /\ (~Dynamic(to) => Len(meant[to]) = StaticSize(to))
      BY <1>1, <1>2 DEF OutputOK
    <2>3. PICK p : p = Here[to] /\ p = Here[to]'
      BY <1>11
    <2>4. meant[to]' = by
      BY <1>1, <1>5
    <2>5. HoldsAt(Here[to], meant[to])'
      BY <1>7, <2>3, <2>4 DEF HoldsAt
    <2>6. p # NULL /\ p.offset + Len(by) <= Len(blocks'[p.block].data)
      BY <1>4, <1>5, <1>7, <2>2, <2>3 DEF InRange, SameShape
    <2>7. to \in Known(q)
      <3>1. Writes(pc, to)
        BY <1>1, <1>2, <1>10 DEF Writes, Is
      <3>2. to < q
        <4>1. to \in Nat
          BY <1>1, PlannedBody, <1>10 DEF MemoryInv
        <4> QED BY <1>3, <1>10, <4>1
      <3> QED BY <1>3, <1>10, <3>1, <3>2 DEF Known
    <2> QED BY <1>3, <1>5, <1>10, <2>1, <2>2, <2>3, <2>4, <2>5, <2>6, <2>7 DEF TensorOK
  <1>14. \A u \in Known(pc)' : TensorOK(u)'
    <2>1. \A u \in Known(q) : u \in Known(pc) \/ u = to
      <3>1. ~IsView(pc)
        BY <1>1 DEF IsView
      <3>2. \A u : Writes(pc, u) => u = to
        BY <1>2 DEF Writes
      <3> QED BY <1>3, <3>1, <3>2
    <2> QED BY <1>3, <1>12, <1>13, <2>1
  <1>15. RunInv'
    <2>1. Ops' = Ops
      BY <1>1, SamePlan
    <2> QED BY <1>1, <1>3, <1>10, <1>11, <1>14, <2>1 DEF RunInv
  <1> QED BY <1>1, <1>8, <1>9, <1>15 DEF IInv, Running

LEMMA Returns == ASSUME IInv, execute_fails \/ forward_returns PROVE IInv'
  <1>1. /\ PlanInv /\ MemoryInv /\ forwards \in Nat /\ status' = "idle" /\ forwards' = forwards + 1
        /\ UNCHANGED <<plan, active, ptr, size, blocks>>
    BY DEF IInv, execute_fails, forward_returns, forward_ends, At_, Running
  <1>2. SameShape(blocks') /\ forwards' \in Nat
    BY <1>1 DEF SameShape, MemoryInv, MemoryTyped
  <1>3. MemoryInv'
    BY <1>1, <1>2, MemoryKept
  <1>4. PlanInv'
    BY <1>1, PlanUnchanged
  <1> QED BY <1>1, <1>2, <1>3, <1>4 DEF IInv, Running

LEMMA Deduce == ASSUME IInv, execute_deduce PROVE IInv'
  BY DeduceDynamic, DeducePlanned

(* All memory but that of the client is freed, each block once.            *)
LEMMA Destroy == ASSUME IInv, DestroysFromLast, destroy_network PROVE IInv'
  <1>1. /\ PlanInv /\ MemoryInv /\ forwards \in Nat /\ status = "idle"
        /\ UNCHANGED <<plan, active, pc, ptr, size, meant, forwards>>
    BY DEF IInv, destroy_network
  <1>2. PICK given : given = UNION {{<<m, v>> : v \in with_memory(m)} : m \in Models}
    OBVIOUS
  <1>3. \A x \in given : \E m \in Models, v \in DynOut : x = <<m, v>> /\ ptr[m][v] # NULL
    BY <1>2 DEF with_memory, DynOut
  <1>4. \A m \in Models, v \in DynOut : ptr[m][v] # NULL => <<m, v>> \in given
    BY <1>2 DEF with_memory, DynOut
  <1>5. BlocksOwned
    BY <1>1 DEF MemoryInv
  <1>6. \A x, y \in given : ptr[x[1]][x[2]].block = ptr[y[1]][y[2]].block => x = y
    BY <1>3, <1>5 DEF BlocksOwned
  <1>7. \A x \in given : blocks[ptr[x[1]][x[2]].block].live
    BY <1>3, <1>5 DEF BlocksOwned
  <1>8. status' = "destroyed"
    BY <1>2, <1>6, <1>7 DEF destroy_network
  <1>9. blocks' = [b \in DOMAIN blocks |->
                    [blocks[b] EXCEPT !.live = @ /\ b # Arena /\ \A x \in given : ptr[x[1]][x[2]].block # b]]
    BY <1>2 DEF destroy_network
  <1>10. ASSUME NEW b \in DOMAIN blocks', b # Client PROVE ~blocks'[b].live
    <2>1. b \in DOMAIN blocks /\ b \in 1..Len(blocks) /\ Len(blocks) \in Nat /\ blocks[b] \in Blocks
      BY <1>1, <1>9, <1>10, Memories
    <2>2. blocks'[b].live <=> blocks[b].live /\ b # Arena /\ \A x \in given : ptr[x[1]][x[2]].block # b
      BY <1>9, <2>1 DEF Blocks
    <2>3. ASSUME b # Arena, blocks[b].live PROVE \E x \in given : ptr[x[1]][x[2]].block = b
      <3>1. b \in 3..Len(blocks)
        BY <1>10, <2>1, <2>3 DEF Arena, Client
      <3>2. PICK m \in Models, v \in DynOut : ptr[m][v].block = b
        BY <1>5, <2>3, <3>1 DEF BlocksOwned
      <3>3. ptr[m][v] # NULL
        BY <3>1, <3>2 DEF NULL
      <3>4. <<m, v>> \in given /\ <<m, v>>[1] = m /\ <<m, v>>[2] = v
        BY <1>4, <3>3
      <3> QED BY <3>2, <3>4
    <2> QED BY <2>2, <2>3
  <1>11. PlanInv'
    BY <1>1, PlanUnchanged
  <1>12. stage' = "planned" /\ PlacesKept'
    <2>1. /\ UNCHANGED <<body, stage, itv, addr, tot>> /\ Ops' = Ops
          /\ \A v : Root(v)' = Root(v) /\ Sum(v)' = Sum(v) /\ (Planned(v)' <=> Planned(v))
      BY <1>1, SamePlan
    <2> QED BY <1>1, <2>1 DEF MemoryInv, PlacesKept
  <1> QED BY <1>1, <1>8, <1>10, <1>11, <1>12 DEF IInv, Running

LEMMA Stays == ASSUME IInv, UNCHANGED vars PROVE IInv'
  <1>1. /\ UNCHANGED <<plan, active, pc, ptr, size, blocks, meant, forwards, status>>
        /\ PlanInv /\ forwards \in Nat
    BY DEF vars, machine, IInv
  <1>2. PlanInv'
    BY <1>1, PlanUnchanged
  <1>3. /\ UNCHANGED <<body, stage, itv, addr, tot>> /\ Ops' = Ops
        /\ \A v : /\ (IsView(v)' <=> IsView(v)) /\ Root(v)' = Root(v) /\ StaticSize(v)' = StaticSize(v)
                  /\ Sum(v)' = Sum(v) /\ (Dynamic(v)' <=> Dynamic(v)) /\ (Planned(v)' <=> Planned(v))
        /\ \A i : Known(i)' = Known(i) /\ (IsInstruction(i)' <=> IsInstruction(i))
        /\ \A v, i : Needed(v, i)' <=> Needed(v, i)
    BY <1>1, SamePlan
  <1>4. Here' = Here /\ (Inside' <=> Inside) /\ (Running' <=> Running)
    BY <1>1 DEF Here, Inside, Running
  <1>5. MemoryInv => MemoryInv'
    <2>1. MemoryInv => SameShape(blocks')
      BY <1>1 DEF SameShape, MemoryInv, MemoryTyped
    <2> QED BY <1>1, <2>1, MemoryKept
  <1>6. RunInv => RunInv'
    <2>1. ASSUME RunInv, NEW u \in Known(pc) PROVE TensorOK(u)'
      <3>1. TensorOK(u)
        BY <2>1 DEF RunInv
      <3>2. Busy(u)' <=> Busy(u)
        BY <1>1, <1>3, <1>4 DEF Busy
      <3>3. (Planned(u) => Needed(u, pc)) /\ ~Busy(u)' => HoldsAt(Here[u], meant[u])'
        BY <1>1, <1>4, <3>1, <3>2 DEF TensorOK, HoldsAt
      <3>4. /\ pc = pc' /\ Known(pc) \subseteq Known(pc) /\ Len(meant'[u]) = Len(meant[u])
            /\ Len(blocks'[Here[u].block].data) = Len(blocks[Here[u].block].data)
            /\ \A o \in Known(pc) : ptr'[active][o] = ptr[active][o]
        BY <1>1
      <3> QED BY <1>1, <2>1, <3>3, <3>4, TensorStays
    <2>2. OutputOK => OutputOK'
      BY <1>1, <1>3, <1>4 DEF OutputOK, InRange
    <2> QED BY <1>1, <1>3, <1>4, <2>1, <2>2 DEF RunInv
  <1>7. PlacesKept => PlacesKept'
    BY <1>1, <1>3 DEF PlacesKept
  <1> QED BY <1>1, <1>2, <1>3, <1>4, <1>5, <1>6, <1>7 DEF IInv

LEMMA InitIInv == Init => IInv
  <1> SUFFICES ASSUME Init PROVE IInv
    OBVIOUS
  <1>1. body = <<>> /\ stage = "lowering" /\ status = "none" /\ forwards = 0
    BY DEF Init, InitPlan, InitMachine
  <1>2. body \in Seq(Operations) /\ Ops = {}
    BY <1>1, EmptySeq DEF Ops
  <1>3. PlanInv
    BY <1>1, <1>2 DEF PlanInv, BodyOK, OneWriter
  <1> QED BY <1>1, <1>3 DEF IInv, Running

LEMMA NextIInv == ASSUME ~ReshapesPlanned, DestroysFromLast, IInv, [Next]_vars PROVE IInv'
  <1>1. CASE NextPlan /\ UNCHANGED machine
    <2>1. PlanInv' /\ stage # "planned"
      BY <1>1, PlanStep DEF IInv
    <2>2. status = "none" /\ forwards \in Nat
      BY <2>1 DEF IInv, MemoryInv, Running
    <2>3. status' = "none" /\ forwards' \in Nat
      BY <1>1, <2>2 DEF machine
    <2> QED BY <2>1, <2>3 DEF IInv, Running
  <1>2. CASE init_model_memory
    BY <1>2, InitMemory
  <1>3. ASSUME NEW m \in Models, LITE_forward(m) PROVE IInv'
    BY <1>3, Forward
  <1>4. CASE execute_memforward
    BY <1>4, MemForward
  <1>5. CASE execute_reshape
    BY <1>5, Reshape
  <1>6. CASE execute_deduce
    BY <1>6, Deduce
  <1>7. CASE execute_kernel
    BY <1>7, Computes
  <1>8. CASE execute_ends
    BY <1>8, Ends
  <1>9. CASE execute_fails \/ forward_returns
    BY <1>9, Returns
  <1>10. CASE destroy_network
    BY <1>10, Destroy
  <1>11. CASE UNCHANGED vars
    BY <1>11, Stays
  <1> QED BY <1>1, <1>2, <1>3, <1>4, <1>5, <1>6, <1>7, <1>8, <1>9, <1>10, <1>11 DEF Next, NextMachine, Stopped

LEMMA IInvHolds == ASSUME IInv PROVE OperandsHeld
  <1> SUFFICES ASSUME Inside \/ (status = "running" /\ body[pc].op \in {"reshape", "return"}),
                      NEW v \in body[pc].reads
               PROVE  InRange(Here[v], Len(meant[v])) /\ Holds(Here[v], meant[v])
    BY DEF OperandsHeld, Inside
  <1>1. PlanInv /\ MemoryInv /\ RunInv /\ pc \in Ops /\ OpOK(pc)
    BY DEF IInv, Running, Inside, RunInv, PlanInv, BodyOK
  <1>2. v \in Known(pc) /\ ~Busy(v)
    <2>1. CASE Inside
      <3>1. body[pc].op = "kernel"
        BY <1>1, <2>1 DEF RunInv, OutputOK
      <3> QED BY <1>1, <3>1 DEF OpOK, KernelOK, Busy
    <2>2. CASE ~Inside
      BY <1>1, <2>2 DEF OpOK, ReshapeOK, ReturnOK, Busy
    <2> QED BY <2>1, <2>2
  <1>3. Needed(v, pc)
    <2>1. pc \in Nat
      BY <1>1, PlannedBody DEF MemoryInv
    <2>2. pc >= pc
      BY <2>1
    <2> QED BY <1>1, <2>2 DEF Needed
  <1>4. HoldsAt(Here[v], meant[v])
    BY <1>1, <1>2, <1>3 DEF RunInv, TensorOK
  <1>5. /\ Here[v] \in Pointers /\ meant[v] \in Seq(Units) /\ Here[v].block \in 1..Len(blocks)
        /\ InRange(Here[v], Len(meant[v])) /\ blocks \in Seq(Blocks)
    BY <1>1, <1>2, WithinMemory DEF MemoryInv, MemoryTyped
  <1> QED BY <1>4, <1>5, HoldsUnits

LEMMA IInvSafe == ASSUME IInv PROVE MemorySafe
  <1>1. status # "none" => PlacesKept
    BY DEF IInv, Running, MemoryInv
  <1>2. status # "undefined" /\ (status = "destroyed" => \A b \in DOMAIN blocks : b # Client => ~blocks[b].live)
    BY DEF IInv
  <1> QED BY <1>1, <1>2 DEF MemorySafe, PlacesKept, Planned, Sum

-----------------------------------------------------------------------------
LEMMA Invariant ==
    ASSUME ~ReshapesPlanned, DestroysFromLast
    PROVE  Spec => []IInv
  <1>1. Init => IInv
    BY InitIInv
  <1>2. IInv /\ [Next]_vars => IInv'
    BY NextIInv
  <1> QED BY <1>1, <1>2, PTL DEF Spec

(* Buffers that are in use at the same instruction, themselves or through  *)
(* views, lie apart: the lifetimes that the planning pass takes from uses  *)
(* cover every use (StaticMemoryPlanning.cpp:54-84).                       *)
THEOREM PlansKeepApart ==
    ASSUME ~ReshapesPlanned
    PROVE  Spec => [](stage = "planned" => PlanOK)
  <1>1. Init => PlanInv
    BY InitIInv DEF IInv
  <1>2. PlanInv /\ [Next]_vars => PlanInv'
    <2> SUFFICES ASSUME PlanInv, [Next]_vars PROVE PlanInv'
      OBVIOUS
    <2>1. NextMachine \/ UNCHANGED vars => UNCHANGED plan
      BY DEF NextMachine, init_model_memory, LITE_forward, execute_memforward, execute_reshape,
             execute_deduce, execute_kernel, execute_ends, execute_fails, forward_returns, forward_ends,
             destroy_network, Stopped, vars
    <2>2. CASE NextPlan
      BY <2>2, PlanStep
    <2>3. CASE UNCHANGED plan
      BY <2>3, PlanUnchanged
    <2> QED BY <2>1, <2>2, <2>3 DEF Next
  <1>3. PlanInv => (stage = "planned" => PlanOK)
    BY DEF PlanInv
  <1> QED BY <1>1, <1>2, <1>3, PTL DEF Spec

(* An operand holds what the program means it to hold until the            *)
(* instruction that reads it is done, for all functions, plans and runs    *)
(* (StaticMemoryPlanning.cpp:56-83, common.h:11-25).                       *)
THEOREM OperandsAlwaysHeld ==
    ASSUME ~ReshapesPlanned, DestroysFromLast
    PROVE  Spec => []OperandsHeld
  <1>1. IInv => OperandsHeld
    BY IInvHolds
  <1> QED BY <1>1, Invariant, PTL

(* Nothing uses memory that was freed or is too small or frees memory      *)
(* twice, a planned tensor stays where it was planned, and all memory is   *)
(* freed in the end (common.h:11-25, network.c:305-368).                   *)
THEOREM MemoryAlwaysSafe ==
    ASSUME ~ReshapesPlanned, DestroysFromLast
    PROVE  Spec => []MemorySafe
  <1>1. IInv => MemorySafe
    BY IInvSafe
  <1> QED BY <1>1, Invariant, PTL
=============================================================================

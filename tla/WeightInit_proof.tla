------------------------- MODULE WeightInit_proof --------------------------
(***************************************************************************)
(* For any device models, of any length: whichever of its three ways       *)
(* init_model_weights() goes, every operator ends up with the weight that  *)
(* it was compiled for, and each weight is freed once.  This needs what    *)
(* the importer gives when no two operators of a network read the same     *)
(* parameter node (DisciplineAssumption).  The inductive invariant says    *)
(* what each operand, use count and piece of memory is when a given set of *)
(* instructions is still to be visited.                                    *)
(***************************************************************************)
EXTENDS WeightInit, FiniteSetTheorems, TLAPS

(* Device models that count as likely have the same init functions: one    *)
(* import gives all of them the same operators.                            *)
InitsAlike ==
    \A pr \in Programs : PathOf(pr) = "likely" =>
        \A m \in DOMAIN pr : \A k \in DOMAIN pr[m] : pr[m][k].init = pr[1][k].init
DisciplineAssumption == ~NodesShared /\ InitsAlike

(* The instruction whose processed weight instruction <<m, k>> gets.       *)
Maker(m, k) == IF path = "likely" THEN <<1, k>> ELSE <<m, k>>
HasInit(m, k) == program[m][k].init # NoInit
Turned(m, k, left) == HasInit(m, k) /\ Maker(m, k) \notin left

OperandsWhen(left) ==
    [m \in Models |-> [k \in DOMAIN program[m] |-> [p \in DOMAIN program[m][k].inputs |->
        IF p = 1 /\ Turned(m, k, left) THEN Maker(m, k) ELSE program[m][k].inputs[p]]]]
ProcessedWhen(left) ==
    {t \in Processable : t[1] \in Visited(program) /\ HasInit(t[1], t[2]) /\ t \notin left}

Used(w) == ReadsOf(operands, w) # {}
Origin(t) == program[t[1]][t[2]].inputs[1]
Made(t) == <<Origin(t), program[t[1]][t[2]].init>>

Control ==
    /\ program \in Programs /\ path = PathOf(program)
    /\ todo \subseteq {t \in Processable : t[1] \in Visited(program)}
    /\ stage \in {"init", "ready", "destroyed", "out of memory"}
    /\ stage \in {"ready", "destroyed"} => todo = {}
Settled ==
    /\ operands = OperandsWhen(todo)
    /\ processed = ProcessedWhen(todo)
    /\ use_count = [w \in Weights |-> Cardinality(ReadsOf(operands, w))]
Typed ==
    /\ ptr \in [Tensors -> Tensors \cup {NULL}]
    /\ is_shared \in [Tensors -> BOOLEAN]
    /\ DOMAIN memory = Tensors
WeightsHeld ==
    \A w \in Weights :
        /\ Used(w) => ptr[w] = w /\ memory[w] = <<w>>
        /\ ~Used(w) /\ ~is_shared[w] => memory[w] = Freed
ProcessedHeld ==
    \A t \in processed :
        IF is_shared[t]
        THEN /\ ptr[t] = Origin(t) /\ is_shared[Origin(t)] /\ ~Used(Origin(t))
             /\ memory[Origin(t)] = Made(t) /\ memory[t] = Freed
        ELSE ptr[t] = t /\ memory[t] = Made(t)
IInv ==
    /\ Control /\ Settled /\ Typed
    /\ stage # "destroyed" => WeightsHeld /\ ProcessedHeld
    /\ NothingLeaks

-----------------------------------------------------------------------------
(* What the programs are.                                                  *)
LEMMA ProgramTypes ==
    ASSUME NEW pr \in Programs
    PROVE  /\ DOMAIN pr = 1..Len(pr) /\ Len(pr) \in Nat /\ 1 \in DOMAIN pr
           /\ \A m \in DOMAIN pr : Len(pr[m]) \in Nat /\ DOMAIN pr[m] = 1..Len(pr[m])
           /\ \A m \in DOMAIN pr : \A k \in DOMAIN pr[m] :
                /\ Len(pr[m][k].inputs) \in Nat /\ DOMAIN pr[m][k].inputs = 1..Len(pr[m][k].inputs)
                /\ pr[m][k].inputs \in Seq(Weights)
                /\ \A p \in DOMAIN pr[m][k].inputs : pr[m][k].inputs[p] \in Weights
  <1>1. IsProgram(pr)
    BY ProgramsAssumption
  <1>2. pr \in Seq(Seq(Instruction)) /\ pr # <<>>
    BY <1>1 DEF IsProgram
  <1>3. DOMAIN pr = 1..Len(pr) /\ Len(pr) \in Nat /\ 1 \in DOMAIN pr
    BY <1>2
  <1>4. ASSUME NEW m \in DOMAIN pr
        PROVE  Len(pr[m]) \in Nat /\ DOMAIN pr[m] = 1..Len(pr[m]) /\ pr[m] \in Seq(Instruction)
    BY <1>2
  <1>5. ASSUME NEW m \in DOMAIN pr, NEW k \in DOMAIN pr[m]
        PROVE  pr[m][k].inputs \in Seq(Weights)
    <2>1. pr[m][k] \in Instruction
      BY <1>4
    <2> QED BY <2>1 DEF Instruction
  <1> QED BY <1>3, <1>4, <1>5

LEMMA ProcessesItsFirst ==
    ASSUME NEW pr \in Programs, NEW m \in DOMAIN pr, NEW k \in DOMAIN pr[m], pr[m][k].init # NoInit
    PROVE  /\ pr[m][k].opr
           /\ 1 \in DOMAIN pr[m][k].inputs /\ pr[m][k].inputs[1] \in Weights
           /\ \A p \in DOMAIN pr[m][k].inputs : pr[m][k].inputs[p] = pr[m][k].inputs[1] => p = 1
  <1>1. IsProgram(pr)
    BY ProgramsAssumption
  <1>2. pr[m][k].opr /\ pr[m][k].inputs # <<>>
    BY <1>1 DEF IsProgram
  <1>3. pr[m][k].inputs \in Seq(Weights)
    <2>1. pr \in Seq(Seq(Instruction))
      BY <1>1 DEF IsProgram
    <2>2. pr[m] \in Seq(Instruction)
      BY <2>1
    <2>3. pr[m][k] \in Instruction
      BY <2>2
    <2> QED BY <2>3 DEF Instruction
  <1>4. 1 \in DOMAIN pr[m][k].inputs /\ pr[m][k].inputs[1] \in Weights
    BY <1>2, <1>3
  <1>5. \A p, q \in DOMAIN pr[m][k].inputs : pr[m][k].inputs[p] = pr[m][k].inputs[q] => p = q
    BY <1>1 DEF IsProgram
  <1> QED BY <1>2, <1>4, <1>5

LEMMA LikelyAlike ==
    ASSUME DisciplineAssumption, NEW pr \in Programs, PathOf(pr) = "likely",
           NEW m \in DOMAIN pr
    PROVE  /\ DOMAIN pr[m] = DOMAIN pr[1]
           /\ \A k \in DOMAIN pr[m] :
                /\ pr[m][k].init = pr[1][k].init
                /\ pr[m][k].init # NoInit => pr[m][k].inputs = pr[1][k].inputs
  <1>1. is_likely_multi_device_model(pr)
    BY DEF PathOf
  <1>2. DOMAIN pr[m] = DOMAIN pr[1]
    BY <1>1 DEF is_likely_multi_device_model
  <1>3. ASSUME NEW k \in DOMAIN pr[m]
        PROVE  /\ pr[m][k].init = pr[1][k].init
               /\ pr[m][k].init # NoInit => pr[m][k].inputs = pr[1][k].inputs
    <2>1. pr[m][k].init = pr[1][k].init
      BY DEF DisciplineAssumption, InitsAlike
    <2>2. AlikeInstructions(pr[1][k], pr[m][k])
      BY <1>1, <1>2 DEF is_likely_multi_device_model
    <2>3. pr[m][k].init # NoInit => pr[1][k].opr
      BY <2>1, <1>2, ProgramTypes, ProcessesItsFirst
    <2> QED BY <2>1, <2>2, <2>3 DEF AlikeInstructions
  <1> QED BY <1>2, <1>3

LEMMA MakerFacts ==
    ASSUME DisciplineAssumption, Control, NEW m \in Models, NEW k \in DOMAIN program[m]
    PROVE  LET t == Maker(m, k)
           IN  /\ t \in Processable /\ t \notin Weights /\ t[1] \in Visited(program)
               /\ program[t[1]][t[2]].init = program[m][k].init
               /\ HasInit(m, k) => Origin(t) = program[m][k].inputs[1]
  <1>1. program \in Programs /\ path = PathOf(program)
    BY DEF Control
  <1>2. /\ 1 \in Models /\ Models \subseteq Nat
        /\ \A n \in Models : DOMAIN program[n] \subseteq Nat
    BY <1>1, ProgramTypes DEF Models
  <1>3. \A t \in Processable : t \in Nat \X Nat
    BY <1>2 DEF Processable, Models
  <1>4. \A t \in Processable : t \notin Weights
    BY <1>3, NamesAssumption
  <1>5. CASE path = "likely"
    <2>1. DOMAIN program[m] = DOMAIN program[1]
      BY <1>1, <1>5, LikelyAlike DEF Models
    <2>2. <<1, k>> \in Processable
      BY <1>2, <2>1 DEF Processable
    <2>3. /\ program[m][k].init = program[1][k].init
          /\ program[m][k].init # NoInit => program[m][k].inputs = program[1][k].inputs
      BY <1>1, <1>5, LikelyAlike DEF Models
    <2> QED BY <1>1, <1>4, <1>5, <2>2, <2>3 DEF Maker, Visited, Origin, HasInit
  <1>6. CASE path # "likely"
    <2>1. <<m, k>> \in Processable
      BY DEF Processable
    <2> QED BY <1>1, <1>4, <1>6, <2>1 DEF Maker, Visited, Origin, HasInit, Models
  <1> QED BY <1>5, <1>6

-----------------------------------------------------------------------------
(* Sets of reads.                                                          *)
LEMMA ReadsMembers ==
    ASSUME NEW code, NEW w, NEW r
    PROVE  r \in ReadsOf(code, w) <=>
               \E m \in DOMAIN code : \E k \in DOMAIN code[m] : \E p \in DOMAIN code[m][k] :
                   r = <<m, k, p>> /\ code[m][k][p] = w
  BY DEF ReadsOf

LEMMA ImageFinite ==
    ASSUME NEW S, NEW f, DOMAIN f = S, IsFiniteSet(S)
    PROVE  IsFiniteSet({f[x] : x \in S})
  <1> DEFINE T == {f[x] : x \in S}
             g == [x \in S |-> f[x]]
  <1>1. g \in Surjection(S, T)
    BY DEF Surjection
  <1> QED BY <1>1, FS_Surjection

LEMMA ReadsFinite ==
    ASSUME NEW code, NEW w, IsFiniteSet(DOMAIN code),
           \A m \in DOMAIN code : IsFiniteSet(DOMAIN code[m]),
           \A m \in DOMAIN code : \A k \in DOMAIN code[m] : IsFiniteSet(DOMAIN code[m][k])
    PROVE  IsFiniteSet(ReadsOf(code, w))
  <1> DEFINE reads(m, k) == {<<m, k, p>> : p \in {q \in DOMAIN code[m][k] : code[m][k][q] = w}}
             all(m) == {reads(m, k) : k \in DOMAIN code[m]}
  <1>1. ASSUME NEW m \in DOMAIN code, NEW k \in DOMAIN code[m]
        PROVE  IsFiniteSet(reads(m, k))
    <2> DEFINE S == {q \in DOMAIN code[m][k] : code[m][k][q] = w}
               f == [p \in S |-> <<m, k, p>>]
    <2>1. IsFiniteSet(S)
      BY FS_Subset
    <2>2. IsFiniteSet({f[p] : p \in S})
      BY <2>1, ImageFinite
    <2>3. {f[p] : p \in S} = reads(m, k)
      OBVIOUS
    <2> QED BY <2>2, <2>3
  <1>2. ASSUME NEW m \in DOMAIN code
        PROVE  IsFiniteSet(UNION all(m))
    <2> DEFINE f == [k \in DOMAIN code[m] |-> reads(m, k)]
    <2>1. IsFiniteSet({f[k] : k \in DOMAIN code[m]})
      BY ImageFinite
    <2>2. {f[k] : k \in DOMAIN code[m]} = all(m)
      OBVIOUS
    <2>3. \A T \in all(m) : IsFiniteSet(T)
      BY <1>1
    <2> HIDE DEF all
    <2> QED BY <2>1, <2>2, <2>3, FS_UNION
  <1>3. IsFiniteSet({UNION all(m) : m \in DOMAIN code})
    <2> DEFINE f == [m \in DOMAIN code |-> UNION all(m)]
    <2>1. IsFiniteSet({f[m] : m \in DOMAIN code})
      BY ImageFinite
    <2>2. {f[m] : m \in DOMAIN code} = {UNION all(m) : m \in DOMAIN code}
      OBVIOUS
    <2> QED BY <2>1, <2>2
  <1>4. ReadsOf(code, w) = UNION {UNION all(m) : m \in DOMAIN code}
    BY DEF ReadsOf
  <1> QED BY <1>2, <1>3, <1>4, FS_UNION

(* The reads of a weight when some instructions are left.                  *)
LEMMA ReadsWhen ==
    ASSUME DisciplineAssumption, Control, NEW left, NEW w \in Weights, NEW r
    PROVE  r \in ReadsOf(OperandsWhen(left), w) <=>
               \E m \in Models : \E k \in DOMAIN program[m] : \E p \in DOMAIN program[m][k].inputs :
                   /\ r = <<m, k, p>> /\ program[m][k].inputs[p] = w
                   /\ ~(p = 1 /\ Turned(m, k, left))
  <1> DEFINE code == OperandsWhen(left)
  <1>1. /\ DOMAIN code = Models
        /\ \A m \in Models : DOMAIN code[m] = DOMAIN program[m]
        /\ \A m \in Models : \A k \in DOMAIN program[m] :
             DOMAIN code[m][k] = DOMAIN program[m][k].inputs
    BY DEF OperandsWhen
  <1>2. ASSUME NEW m \in Models, NEW k \in DOMAIN program[m], NEW p \in DOMAIN program[m][k].inputs
        PROVE  code[m][k][p] = w <=>
                   program[m][k].inputs[p] = w /\ ~(p = 1 /\ Turned(m, k, left))
    <2>1. code[m][k][p] = IF p = 1 /\ Turned(m, k, left) THEN Maker(m, k)
                          ELSE program[m][k].inputs[p]
      BY DEF OperandsWhen
    <2>2. Maker(m, k) # w
      BY MakerFacts
    <2> QED BY <2>1, <2>2
  <1> HIDE DEF code
  <1> QED BY <1>1, <1>2, ReadsMembers DEF code

LEMMA ReadsWhenFinite ==
    ASSUME Control, NEW left, NEW w
    PROVE  /\ IsFiniteSet(ReadsOf(OperandsWhen(left), w))
           /\ Cardinality(ReadsOf(OperandsWhen(left), w)) \in Nat
  <1> DEFINE code == OperandsWhen(left)
  <1>1. /\ DOMAIN code = Models
        /\ \A m \in Models : DOMAIN code[m] = DOMAIN program[m]
        /\ \A m \in Models : \A k \in DOMAIN program[m] :
             DOMAIN code[m][k] = DOMAIN program[m][k].inputs
    BY DEF OperandsWhen
  <1>2. program \in Programs
    BY DEF Control
  <1> HIDE DEF code
  <1> DEFINE upTo(n) == 1..n
  <1>3. \A n \in Nat : IsFiniteSet(upTo(n))
    BY FS_Interval
  <1>4. /\ Len(program) \in Nat /\ DOMAIN code = upTo(Len(program))
        /\ \A m \in DOMAIN code : Len(program[m]) \in Nat /\ DOMAIN code[m] = upTo(Len(program[m]))
        /\ \A m \in DOMAIN code : \A k \in DOMAIN code[m] :
             /\ Len(program[m][k].inputs) \in Nat
             /\ DOMAIN code[m][k] = upTo(Len(program[m][k].inputs))
    BY <1>1, <1>2, ProgramTypes DEF Models
  <1> HIDE DEF upTo
  <1>5. /\ IsFiniteSet(DOMAIN code)
        /\ \A m \in DOMAIN code : IsFiniteSet(DOMAIN code[m])
        /\ \A m \in DOMAIN code : \A k \in DOMAIN code[m] : IsFiniteSet(DOMAIN code[m][k])
    BY <1>3, <1>4
  <1>6. IsFiniteSet(ReadsOf(code, w))
    BY <1>5, ReadsFinite
  <1> QED BY <1>6, FS_CardinalityType DEF code

-----------------------------------------------------------------------------
LEMMA InitInvariant == DisciplineAssumption /\ Init => IInv
  <1> SUFFICES ASSUME DisciplineAssumption, Init PROVE IInv
    OBVIOUS
  <1> USE DEF Init
  <1>1. Control
    BY DEF Control
  <1>2. \A m \in Models : \A k \in DOMAIN program[m] : ~Turned(m, k, todo)
    BY <1>1, MakerFacts DEF Turned
  <1>3. operands = OperandsWhen(todo)
    <2>1. ASSUME NEW m \in Models, NEW k \in DOMAIN program[m]
          PROVE  program[m][k].inputs =
                    [p \in DOMAIN program[m][k].inputs |->
                        IF p = 1 /\ Turned(m, k, todo) THEN Maker(m, k)
                        ELSE program[m][k].inputs[p]]
      <3>1. program[m][k].inputs \in Seq(Weights)
        BY ProgramTypes DEF Models
      <3>2. program[m][k].inputs = [p \in DOMAIN program[m][k].inputs |-> program[m][k].inputs[p]]
        BY <3>1
      <3> QED BY <1>2, <3>2
    <2> QED BY <2>1 DEF OperandsWhen, Operands, Models
  <1>4. processed = ProcessedWhen(todo)
    BY DEF ProcessedWhen
  <1>5. use_count = [w \in Weights |-> Cardinality(ReadsOf(operands, w))]
    BY DEF user_count, DisciplineAssumption
  <1>6. Typed
    <2>1. \A t \in Tensors \ Weights : t \notin Weights
      OBVIOUS
    <2> QED BY DEF Typed, Tensors, NULL
  <1>7. \A w \in Weights : Used(w)
    BY ProgramsAssumption DEF Used
  <1>8. WeightsHeld /\ ProcessedHeld
    BY <1>7 DEF WeightsHeld, ProcessedHeld, Tensors
  <1> QED BY <1>1, <1>3, <1>4, <1>5, <1>6, <1>8 DEF IInv, Settled, NothingLeaks

-----------------------------------------------------------------------------
(* The visit of an instruction that has an init function.                  *)

(* The instructions that get what <<m, k>> makes.                          *)
Gets(m, k, n, j) == j = k /\ (n = m \/ path = "likely")
GivenUp(m, k) == IF path = "likely" THEN {<<n, k, 1>> : n \in Models} ELSE {<<m, k, 1>>}

LEMMA WhoGets ==
    ASSUME DisciplineAssumption, Control, NEW m, NEW k, <<m, k>> \in todo, HasInit(m, k)
    PROVE  /\ m \in Models /\ k \in DOMAIN program[m]
           /\ Maker(m, k) = <<m, k>>
           /\ path = "likely" => m = 1 /\ \A n \in Models : k \in DOMAIN program[n]
           /\ \A n \in Models : \A j \in DOMAIN program[n] :
                /\ Gets(m, k, n, j) <=> Maker(n, j) = <<m, k>>
                /\ Gets(m, k, n, j) =>
                     /\ HasInit(n, j) /\ ~Turned(n, j, todo)
                     /\ program[n][j].inputs = program[m][k].inputs
                     /\ 1 \in DOMAIN program[n][j].inputs
  <1>1. program \in Programs /\ path = PathOf(program)
    BY DEF Control
  <1>2. m \in Models /\ k \in DOMAIN program[m] /\ m \in Visited(program)
    <2>1. <<m, k>> \in Processable /\ m \in Visited(program)
      BY DEF Control
    <2> QED BY <2>1 DEF Processable
  <1>3. Maker(m, k) = <<m, k>>
    BY <1>1, <1>2 DEF Maker, Visited
  <1>4. path = "likely" => m = 1 /\ \A n \in Models : DOMAIN program[n] = DOMAIN program[m]
    BY <1>1, <1>2, LikelyAlike DEF Visited, Models
  <1>5. ASSUME NEW n \in Models, NEW j \in DOMAIN program[n]
        PROVE  /\ Gets(m, k, n, j) <=> Maker(n, j) = <<m, k>>
               /\ Gets(m, k, n, j) =>
                     /\ HasInit(n, j) /\ ~Turned(n, j, todo)
                     /\ program[n][j].inputs = program[m][k].inputs
                     /\ 1 \in DOMAIN program[n][j].inputs
    <2>1. Gets(m, k, n, j) <=> Maker(n, j) = <<m, k>>
      BY <1>4 DEF Gets, Maker
    <2>2. ASSUME Gets(m, k, n, j)
          PROVE  /\ HasInit(n, j) /\ ~Turned(n, j, todo)
                 /\ program[n][j].inputs = program[m][k].inputs
                 /\ 1 \in DOMAIN program[n][j].inputs
      <3>1. HasInit(n, j)
        BY <2>1, <2>2, MakerFacts DEF HasInit
      <3>2. ~Turned(n, j, todo)
        BY <2>1, <2>2 DEF Turned
      <3>3. program[n][j].inputs = program[m][k].inputs
        BY <1>1, <1>4, <2>2, <3>1, LikelyAlike DEF Gets, HasInit, Models
      <3>4. 1 \in DOMAIN program[n][j].inputs
        BY <1>1, <3>1, ProcessesItsFirst DEF HasInit, Models
      <3> QED BY <3>1, <3>2, <3>3, <3>4
    <2> QED BY <2>1, <2>2
  <1> QED BY <1>2, <1>3, <1>4, <1>5

LEMMA AsManyGivenUp ==
    ASSUME Control, NEW m, NEW k
    PROVE  IsFiniteSet(GivenUp(m, k)) /\ Cardinality(GivenUp(m, k)) = uses_given_up
  <1>1. CASE path # "likely"
    BY <1>1, FS_Singleton DEF GivenUp, uses_given_up
  <1>2. CASE path = "likely"
    <2> DEFINE f == [n \in 1..Len(program) |-> <<n, k, 1>>]
    <2>1. Len(program) \in Nat /\ Models = 1..Len(program)
      BY ProgramTypes DEF Control, Models
    <2>2. f \in Bijection(1..Len(program), GivenUp(m, k))
      BY <1>2, <2>1 DEF GivenUp, Bijection, Injection, Surjection, IsInjective
    <2>3. ExistsBijection(1..Len(program), GivenUp(m, k))
      BY <2>2 DEF ExistsBijection
    <2>4. IsFiniteSet(1..Len(program))
      BY <2>1, FS_Interval
    <2>5. IsFiniteSet(GivenUp(m, k))
      BY <2>3, <2>4, FS_Bijection
    <2>6. Cardinality(GivenUp(m, k)) = Len(program)
      BY <2>1, <2>3, FS_CountingElements
    <2> QED BY <1>2, <2>5, <2>6 DEF uses_given_up
  <1> QED BY <1>1, <1>2

LEMMA Visit ==
    ASSUME DisciplineAssumption, Control, Settled,
           NEW m, NEW k, <<m, k>> \in todo, HasInit(m, k)
    PROVE  LET left == todo \ {<<m, k>>}
               old == operands[m][k][1]
               given == GivenUp(m, k)
           IN  /\ old = program[m][k].inputs[1] /\ old \in Weights
               /\ replaced(m, k, old, <<m, k>>) = OperandsWhen(left)
               /\ given \subseteq ReadsOf(operands, old) /\ given # {}
               /\ ReadsOf(OperandsWhen(left), old) = ReadsOf(operands, old) \ given
               /\ \A w \in Weights \ {old} : ReadsOf(OperandsWhen(left), w) = ReadsOf(operands, w)
  <1> DEFINE left == todo \ {<<m, k>>}
             old == operands[m][k][1]
             given == GivenUp(m, k)
  <1>1. program \in Programs /\ operands = OperandsWhen(todo)
    BY DEF Control, Settled
  <1>2. /\ m \in Models /\ k \in DOMAIN program[m] /\ Maker(m, k) = <<m, k>>
        /\ path = "likely" => \A n \in Models : k \in DOMAIN program[n]
    BY WhoGets
  <1>3. ASSUME NEW n \in Models, NEW j \in DOMAIN program[n]
        PROVE  /\ Gets(m, k, n, j) <=> Maker(n, j) = <<m, k>>
               /\ Gets(m, k, n, j) =>
                     /\ HasInit(n, j) /\ ~Turned(n, j, todo)
                     /\ program[n][j].inputs = program[m][k].inputs
                     /\ 1 \in DOMAIN program[n][j].inputs
               /\ Turned(n, j, left) <=> Turned(n, j, todo) \/ Gets(m, k, n, j)
    <2>1. /\ Gets(m, k, n, j) <=> Maker(n, j) = <<m, k>>
          /\ Gets(m, k, n, j) =>
                     /\ HasInit(n, j) /\ ~Turned(n, j, todo)
                     /\ program[n][j].inputs = program[m][k].inputs
                     /\ 1 \in DOMAIN program[n][j].inputs
      BY WhoGets
    <2> QED BY <2>1 DEF Turned
  <1>4. 1 \in DOMAIN program[m][k].inputs /\ ~Turned(m, k, todo)
    BY <1>2, <1>3 DEF Gets
  <1>5. old = program[m][k].inputs[1]
    BY <1>1, <1>2, <1>4 DEF OperandsWhen
  <1>6. /\ old \in Weights
        /\ \A p \in DOMAIN program[m][k].inputs : program[m][k].inputs[p] = old => p = 1
    BY <1>1, <1>2, <1>5, ProcessesItsFirst DEF HasInit, Models
  <1>7. replaced(m, k, old, <<m, k>>) = OperandsWhen(left)
    <2>1. /\ DOMAIN operands = Models
          /\ \A n \in Models : DOMAIN operands[n] = DOMAIN program[n]
          /\ \A n \in Models : \A j \in DOMAIN program[n] :
               DOMAIN operands[n][j] = DOMAIN program[n][j].inputs
      BY <1>1 DEF OperandsWhen
    <2> DEFINE A(n, j, p) == IF operands[n][j][p] = old /\ j = k /\ (n = m \/ path = "likely")
                             THEN <<m, k>> ELSE operands[n][j][p]
               B(n, j, p) == IF p = 1 /\ Turned(n, j, left) THEN Maker(n, j)
                             ELSE program[n][j].inputs[p]
    <2>2. ASSUME NEW n \in Models, NEW j \in DOMAIN program[n], NEW p \in DOMAIN program[n][j].inputs
          PROVE  A(n, j, p) = B(n, j, p)
      <3>1. operands[n][j][p] = IF p = 1 /\ Turned(n, j, todo) THEN Maker(n, j)
                                ELSE program[n][j].inputs[p]
        BY <1>1 DEF OperandsWhen
      <3>2. CASE Gets(m, k, n, j)
        <4>1. operands[n][j][p] = program[m][k].inputs[p] /\ p \in DOMAIN program[m][k].inputs
          BY <1>3, <3>1, <3>2
        <4>2. operands[n][j][p] = old <=> p = 1
          BY <1>5, <1>6, <4>1
        <4> QED BY <1>3, <3>2, <4>1, <4>2, <3>1 DEF Gets
      <3>3. CASE ~Gets(m, k, n, j)
        BY <1>3, <3>1, <3>3 DEF Gets
      <3> QED BY <3>2, <3>3
    <2>3. replaced(m, k, old, <<m, k>>) =
             [n \in Models |-> [j \in DOMAIN program[n] |->
                 [p \in DOMAIN program[n][j].inputs |-> A(n, j, p)]]]
      BY <2>1 DEF replaced
    <2>4. OperandsWhen(left) =
             [n \in Models |-> [j \in DOMAIN program[n] |->
                 [p \in DOMAIN program[n][j].inputs |-> B(n, j, p)]]]
      BY DEF OperandsWhen
    <2> HIDE DEF A, B
    <2>5. ASSUME NEW n \in Models, NEW j \in DOMAIN program[n]
          PROVE  [p \in DOMAIN program[n][j].inputs |-> A(n, j, p)]
                 = [p \in DOMAIN program[n][j].inputs |-> B(n, j, p)]
      BY <2>2
    <2>6. ASSUME NEW n \in Models
          PROVE  [j \in DOMAIN program[n] |-> [p \in DOMAIN program[n][j].inputs |-> A(n, j, p)]]
                 = [j \in DOMAIN program[n] |-> [p \in DOMAIN program[n][j].inputs |-> B(n, j, p)]]
      BY <2>5
    <2> QED BY <2>3, <2>4, <2>6
  <1> HIDE DEF old
  <1>8. ASSUME NEW r
        PROVE  r \in given <=> \E n \in Models : \E j \in DOMAIN program[n] :
                                   Gets(m, k, n, j) /\ r = <<n, j, 1>>
    BY <1>2 DEF GivenUp, Gets
  <1>9. ASSUME NEW w \in Weights, NEW r
        PROVE  /\ r \in ReadsOf(operands, w) <=>
                   \E n \in Models : \E j \in DOMAIN program[n] : \E p \in DOMAIN program[n][j].inputs :
                      /\ r = <<n, j, p>> /\ program[n][j].inputs[p] = w
                      /\ ~(p = 1 /\ Turned(n, j, todo))
               /\ r \in ReadsOf(OperandsWhen(left), w) <=>
                   \E n \in Models : \E j \in DOMAIN program[n] : \E p \in DOMAIN program[n][j].inputs :
                      /\ r = <<n, j, p>> /\ program[n][j].inputs[p] = w
                      /\ ~(p = 1 /\ Turned(n, j, left))
    <2>1. r \in ReadsOf(OperandsWhen(todo), w) <=>
             \E n \in Models : \E j \in DOMAIN program[n] : \E p \in DOMAIN program[n][j].inputs :
                /\ r = <<n, j, p>> /\ program[n][j].inputs[p] = w
                /\ ~(p = 1 /\ Turned(n, j, todo))
      BY ReadsWhen
    <2> HIDE DEF left
    <2>2. r \in ReadsOf(OperandsWhen(left), w) <=>
             \E n \in Models : \E j \in DOMAIN program[n] : \E p \in DOMAIN program[n][j].inputs :
                /\ r = <<n, j, p>> /\ program[n][j].inputs[p] = w
                /\ ~(p = 1 /\ Turned(n, j, left))
      BY ReadsWhen
    <2> QED BY <1>1, <2>1, <2>2
  <1> HIDE DEF left, given
  <1>10. given \subseteq ReadsOf(operands, old) /\ given # {}
    <2>1. given # {}
      BY <1>2, <1>8 DEF Gets
    <2>2. ASSUME NEW r \in given PROVE r \in ReadsOf(operands, old)
      <3>1. PICK n, j : /\ n \in Models /\ j \in DOMAIN program[n]
                        /\ Gets(m, k, n, j) /\ r = <<n, j, 1>>
        BY <1>8
      <3>2. /\ ~Turned(n, j, todo) /\ 1 \in DOMAIN program[n][j].inputs
            /\ program[n][j].inputs[1] = old
        BY <1>3, <1>5, <3>1
      <3> QED BY <1>6, <1>9, <3>1, <3>2
    <2> QED BY <2>1, <2>2
  <1>11. ReadsOf(OperandsWhen(left), old) = ReadsOf(operands, old) \ given
    <2>1. ASSUME NEW r
          PROVE  r \in ReadsOf(OperandsWhen(left), old) <=>
                     r \in ReadsOf(operands, old) /\ r \notin given
      BY <1>3, <1>6, <1>8, <1>9
    <2> QED BY <2>1
  <1>12. ASSUME NEW w \in Weights \ {old}
         PROVE  ReadsOf(OperandsWhen(left), w) = ReadsOf(operands, w)
    <2>1. ASSUME NEW r
          PROVE  r \in ReadsOf(OperandsWhen(left), w) <=> r \in ReadsOf(operands, w)
      BY <1>3, <1>5, <1>9
    <2> QED BY <2>1
  <1> QED BY <1>5, <1>6, <1>7, <1>10, <1>11, <1>12 DEF old, left, given

LEMMA SameWhen ==
    ASSUME program' = program, path' = path, NEW left, todo' = left
    PROVE  /\ OperandsWhen(todo)' = OperandsWhen(left)
           /\ ProcessedWhen(todo)' = ProcessedWhen(left)
           /\ Tensors' = Tensors /\ Processable' = Processable
  BY DEF OperandsWhen, ProcessedWhen, Turned, Maker, HasInit, Processable, Models, Tensors

LEMMA AppendOne ==
    ASSUME NEW a, NEW b
    PROVE  Append(<<a>>, b) = <<a, b>>
  <1> DEFINE S == {a, b}
  <1>1. a \in S /\ b \in S
    OBVIOUS
  <1> HIDE DEF S
  <1> DEFINE s == Append(<<a>>, b)
             t == <<a, b>>
  <1>2. <<a>> \in Seq(S) /\ Len(<<a>>) = 1
    BY <1>1
  <1>3. s \in Seq(S) /\ Len(s) = 2 /\ s[1] = a /\ s[2] = b
    BY <1>1, <1>2
  <1>4. t \in Seq(S) /\ Len(t) = 2 /\ t[1] = a /\ t[2] = b
    BY <1>1
  <1> HIDE DEF s, t
  <1>5. /\ s = [i \in 1..2 |-> s[i]]
        /\ t = [i \in 1..2 |-> t[i]]
    BY <1>3, <1>4
  <1>6. \A i \in 1..2 : s[i] = t[i]
    BY <1>3, <1>4
  <1> QED BY <1>5, <1>6 DEF s, t

(* What the visit does: old is the weight, kept says whether it has uses   *)
(* left, and taken whether the processed weight takes its memory over.     *)
WeightVisited(new, old, kept, taken) ==
    /\ old = Origin(new) /\ Used(old)
    /\ kept <=> ReadsOf(operands', old) # {}
    /\ taken => ~kept /\ is_shared[old]
    /\ \A w \in Weights \ {old} : ReadsOf(operands', w) = ReadsOf(operands, w)
    /\ use_count' = [use_count EXCEPT ![old] = Cardinality(ReadsOf(operands', old))]
    /\ is_shared' = [is_shared EXCEPT ![new] = taken]
    /\ ptr' \in [Tensors -> Tensors \cup {NULL}] /\ DOMAIN memory' = Tensors
    /\ \A c \in Tensors \ {old, new} : ptr'[c] = ptr[c] /\ memory'[c] = memory[c]
    /\ ptr'[old] \in {old, NULL} /\ ptr'[new] = IF taken THEN old ELSE new
    /\ memory'[new] = IF taken THEN Freed ELSE Made(new)
    /\ taken => memory'[old] = Made(new)
    /\ kept => ptr'[old] = old /\ memory'[old] = <<old>>
    /\ taken => ptr'[old] = old
    /\ ~kept /\ ~is_shared[old] => memory'[old] = Freed

LEMMA VisitEffect ==
    ASSUME DisciplineAssumption, IInv, NEW m, NEW k, <<m, k>> \in todo, init_weight(m, k)
    PROVE  LET new == <<m, k>>
               left == todo \ {new}
           IN  /\ new \in Processable /\ new \notin Weights /\ new \in ProcessedWhen(left)
               /\ stage = "init" /\ stage' = "init"
               /\ program' = program /\ path' = path /\ todo' = left
               /\ operands' = OperandsWhen(left)
               /\ processed' = processed \cup {new}
               /\ \E old \in Weights, kept, taken \in BOOLEAN : WeightVisited(new, old, kept, taken)
  <1> PICK left : left = todo \ {<<m, k>>}
    OBVIOUS
  <1> PICK old : old = operands[m][k][1]
    OBVIOUS
  <1> DEFINE f == program[m][k].init
             new == <<m, k>>
             cell == ptr[old]
             uses == use_count[old] - uses_given_up
             released == no_more_uses(uses) /\ ~is_shared[old]
             taken_over == /\ no_more_uses(uses) /\ is_shared[old] /\ path # "general"
                           /\ WeightSize[old] >= OutSize[f]
  <1>1. /\ stage = "init" /\ HasInit(m, k) /\ Control /\ Settled /\ Typed
        /\ WeightsHeld /\ ProcessedHeld
    BY DEF init_weight, Turn, HasInit, IInv
  <1>2. /\ old = program[m][k].inputs[1] /\ old \in Weights
        /\ replaced(m, k, old, new) = OperandsWhen(left)
        /\ GivenUp(m, k) \subseteq ReadsOf(operands, old) /\ GivenUp(m, k) # {}
        /\ ReadsOf(OperandsWhen(left), old) = ReadsOf(operands, old) \ GivenUp(m, k)
        /\ \A w \in Weights \ {old} : ReadsOf(OperandsWhen(left), w) = ReadsOf(operands, w)
    BY <1>1, Visit
  <1>3. /\ new \in Processable /\ new \in Tensors /\ new \notin Weights /\ old \in Tensors
        /\ new # old
    BY <1>1, <1>2, WhoGets, MakerFacts DEF Tensors
  <1>4. cell = old /\ memory[old] = <<old>> /\ old # NULL /\ memory[old] # Freed /\ Used(old)
    BY <1>1, <1>2, NamesAssumption DEF WeightsHeld, Used, NULL, Freed
  <1>5. /\ uses = Cardinality(ReadsOf(OperandsWhen(left), old))
        /\ no_more_uses(uses) <=> ReadsOf(OperandsWhen(left), old) = {}
    <2> DEFINE all == ReadsOf(operands, old)
               rest == ReadsOf(OperandsWhen(left), old)
    <2>1. operands = OperandsWhen(todo) /\ use_count[old] = Cardinality(all)
      BY <1>1, <1>2 DEF Settled
    <2>2. IsFiniteSet(all) /\ Cardinality(all) \in Nat
      BY <1>1, <2>1, ReadsWhenFinite
    <2>3. Cardinality(GivenUp(m, k)) = uses_given_up
      BY <1>1, AsManyGivenUp
    <2>4. all \cap GivenUp(m, k) = GivenUp(m, k) /\ rest = all \ GivenUp(m, k)
      BY <1>2
    <2> HIDE DEF all, rest
    <2>5. IsFiniteSet(rest) /\ Cardinality(rest) = Cardinality(all) - Cardinality(GivenUp(m, k))
      <3>1. /\ IsFiniteSet(all \ GivenUp(m, k))
            /\ Cardinality(all \ GivenUp(m, k)) =
                 Cardinality(all) - Cardinality(all \cap GivenUp(m, k))
        BY <2>2, FS_Difference
      <3> QED BY <2>4, <3>1
    <2>6. Cardinality(rest) \in Nat /\ (Cardinality(rest) = 0 <=> rest = {})
      BY <2>5, FS_CardinalityType, FS_EmptySet
    <2>7. uses = Cardinality(rest)
      BY <2>1, <2>3, <2>5
    <2> HIDE DEF uses
    <2> QED BY <2>6, <2>7 DEF no_more_uses, rest
  <1>6. /\ use_count' = [use_count EXCEPT ![old] = uses]
        /\ operands' = replaced(m, k, old, new)
        /\ processed' = processed \cup {new}
        /\ is_shared' = [is_shared EXCEPT ![new] = taken_over]
        /\ ptr' = [ptr EXCEPT ![new] = IF taken_over THEN cell ELSE new,
                              ![old] = IF released /\ path # "general" THEN NULL ELSE cell]
        /\ memory' = [c \in Tensors |->
               CASE c = cell -> IF taken_over THEN Append(memory[cell], f)
                                ELSE IF released THEN Freed ELSE memory[cell]
                 [] c = new -> IF taken_over THEN Freed ELSE Append(memory[cell], f)
                 [] OTHER -> memory[c]]
        /\ stage' = stage
    <2>1. ~(cell = NULL \/ (released /\ ~Freeable({cell})))
      BY <1>4 DEF Freeable
    <2> QED BY <2>1 DEF init_weight
  <1>7. todo' = left /\ program' = program /\ path' = path
    BY DEF init_weight
  <1>8. new \in ProcessedWhen(left)
    <2>1. new[1] \in Visited(program) /\ HasInit(new[1], new[2]) /\ new \notin left
      BY <1>1 DEF Control
    <2> QED BY <1>3, <2>1 DEF ProcessedWhen
  <1>9. Append(memory[old], f) = Made(new) /\ old = Origin(new)
    <2>1. Append(<<old>>, f) = <<old, f>>
      BY AppendOne
    <2> QED BY <1>2, <1>4, <2>1 DEF Made, Origin
  <1> DEFINE kept == ReadsOf(operands', old) # {}
  <1>10. operands' = OperandsWhen(left) /\ (kept <=> ~no_more_uses(uses))
    BY <1>2, <1>5, <1>6
  <1>11. /\ taken_over \in BOOLEAN /\ released \in BOOLEAN /\ kept \in BOOLEAN
         /\ taken_over => ~kept /\ is_shared[old]
         /\ released <=> ~kept /\ ~is_shared[old]
    BY <1>10
  <1> HIDE DEF cell, f, uses, released, taken_over, kept
  <1>12. /\ ptr' \in [Tensors -> Tensors \cup {NULL}]
         /\ \A c \in Tensors \ {old, new} : ptr'[c] = ptr[c]
         /\ ptr'[old] = IF released /\ path # "general" THEN NULL ELSE old
         /\ ptr'[new] = IF taken_over THEN old ELSE new
    BY <1>1, <1>3, <1>4, <1>6 DEF Typed
  <1>13. /\ DOMAIN memory' = Tensors
         /\ \A c \in Tensors \ {old, new} : memory'[c] = memory[c]
         /\ memory'[old] = IF taken_over THEN Made(new) ELSE IF released THEN Freed ELSE <<old>>
         /\ memory'[new] = IF taken_over THEN Freed ELSE Made(new)
    BY <1>3, <1>4, <1>6, <1>9
  <1>14. use_count' = [use_count EXCEPT ![old] = Cardinality(ReadsOf(operands', old))]
    BY <1>5, <1>6, <1>10
  <1>15. /\ kept <=> ReadsOf(operands', old) # {}
         /\ \A w \in Weights \ {old} : ReadsOf(operands', w) = ReadsOf(operands, w)
    BY <1>2, <1>10 DEF kept
  <1>16. \E o \in Weights, kp, taken \in BOOLEAN : WeightVisited(new, o, kp, taken)
    <2> USE <1>2, <1>11
    <2> WITNESS old \in Weights, kept \in BOOLEAN, taken_over \in BOOLEAN
    <2> QED BY <1>4, <1>6, <1>9, <1>11, <1>12, <1>13, <1>14, <1>15 DEF WeightVisited
  <1> QED BY <1>1, <1>3, <1>6, <1>7, <1>8, <1>10, <1>16

LEMMA ProcessedFacts ==
    ASSUME DisciplineAssumption, Control, NEW left, NEW t \in ProcessedWhen(left)
    PROVE  /\ t \in Processable /\ t \in Tensors /\ t \notin Weights /\ t # NULL
           /\ Origin(t) \in Weights /\ Origin(t) \in Tensors
  <1>1. t \in Processable /\ HasInit(t[1], t[2]) /\ program \in Programs
    BY DEF ProcessedWhen, Control
  <1>2. PICK m \in Models : \E k \in DOMAIN program[m] : t = <<m, k>>
    BY <1>1 DEF Processable
  <1>3. PICK k \in DOMAIN program[m] : t = <<m, k>>
    BY <1>2
  <1>4. Origin(t) \in Weights
    BY <1>1, <1>3, ProcessesItsFirst DEF Origin, HasInit, Models
  <1>5. m \in Nat /\ k \in Nat
    BY <1>1, ProgramTypes DEF Models
  <1>6. t \notin Weights /\ t # NULL
    BY <1>3, <1>5, NamesAssumption DEF NULL
  <1> QED BY <1>1, <1>4, <1>6 DEF Tensors

LEMMA InitWeightKeeps ==
    ASSUME DisciplineAssumption, IInv, NEW m, NEW k, <<m, k>> \in todo, init_weight(m, k)
    PROVE  IInv'
  <1> PICK new : new = <<m, k>>
    OBVIOUS
  <1> PICK left : left = todo \ {new}
    OBVIOUS
  <1>1. /\ Control /\ Settled /\ Typed /\ stage = "init" /\ WeightsHeld /\ ProcessedHeld
    BY DEF IInv, init_weight, Turn
  <1>2. /\ new \in Processable /\ new \notin Weights /\ new \in ProcessedWhen(left)
        /\ stage' = "init" /\ program' = program /\ path' = path /\ todo' = left
        /\ operands' = OperandsWhen(left) /\ processed' = processed \cup {new}
    BY VisitEffect
  <1>3a. PICK old \in Weights, kept \in BOOLEAN, taken \in BOOLEAN :
            WeightVisited(new, old, kept, taken)
    BY VisitEffect
  <1>3. /\ old = Origin(new) /\ Used(old)
        /\ kept <=> ReadsOf(operands', old) # {}
        /\ taken => ~kept /\ is_shared[old]
        /\ \A w \in Weights \ {old} : ReadsOf(operands', w) = ReadsOf(operands, w)
        /\ use_count' = [use_count EXCEPT ![old] = Cardinality(ReadsOf(operands', old))]
        /\ is_shared' = [is_shared EXCEPT ![new] = taken]
        /\ ptr' \in [Tensors -> Tensors \cup {NULL}] /\ DOMAIN memory' = Tensors
        /\ \A c \in Tensors \ {old, new} : ptr'[c] = ptr[c] /\ memory'[c] = memory[c]
        /\ ptr'[old] \in {old, NULL} /\ ptr'[new] = IF taken THEN old ELSE new
        /\ memory'[new] = IF taken THEN Freed ELSE Made(new)
        /\ taken => memory'[old] = Made(new)
        /\ kept => ptr'[old] = old /\ memory'[old] = <<old>>
        /\ taken => ptr'[old] = old
        /\ ~kept /\ ~is_shared[old] => memory'[old] = Freed
    BY <1>3a DEF WeightVisited
  <1>4. /\ OperandsWhen(todo)' = OperandsWhen(left) /\ ProcessedWhen(todo)' = ProcessedWhen(left)
        /\ Tensors' = Tensors
    BY <1>2, SameWhen
  <1>5. Control'
    <2>1. Processable' = Processable
      BY <1>2 DEF Processable, Models
    <2> QED BY <1>1, <1>2, <2>1 DEF Control
  <1>6. Settled'
    <2>1. processed' = ProcessedWhen(left)
      BY <1>1, <1>2 DEF Settled, ProcessedWhen
    <2>2. use_count' = [w \in Weights |-> Cardinality(ReadsOf(operands', w))]
      BY <1>1, <1>3 DEF Settled
    <2> QED BY <1>2, <1>4, <2>1, <2>2 DEF Settled
  <1>7. Typed'
    BY <1>1, <1>3, <1>4 DEF Typed
  <1>8. /\ new \in Tensors /\ old \in Tensors /\ new # old
        /\ \A w \in Weights : w \in Tensors /\ is_shared'[w] = is_shared[w]
    BY <1>1, <1>2, <1>3 DEF Tensors, Typed
  <1>9. /\ \A w \in Weights \ {old} : Used(w)' <=> Used(w)
        /\ Used(old)' <=> kept
    BY <1>3 DEF Used
  <1>10. WeightsHeld'
    <2>1. ASSUME NEW w \in Weights
          PROVE  /\ Used(w)' => ptr'[w] = w /\ memory'[w] = <<w>>
                 /\ ~Used(w)' /\ ~is_shared'[w] => memory'[w] = Freed
      <3>1. CASE w = old
        BY <1>3, <1>8, <1>9, <3>1
      <3>2. CASE w # old
        <4>1. w \in Tensors \ {old, new}
          BY <1>2, <1>8, <3>2
        <4>2. ptr'[w] = ptr[w] /\ memory'[w] = memory[w] /\ is_shared'[w] = is_shared[w]
          BY <1>3, <1>8, <4>1
        <4> QED BY <1>1, <1>9, <3>2, <4>2 DEF WeightsHeld
      <3> QED BY <3>1, <3>2
    <2> QED BY <2>1 DEF WeightsHeld
  <1>11. \A t : Origin(t)' = Origin(t) /\ Made(t)' = Made(t)
    BY <1>2 DEF Origin, Made
  <1>12. ProcessedHeld'
    <2>1. ASSUME NEW t \in processed'
          PROVE  IF is_shared'[t]
                 THEN /\ ptr'[t] = Origin(t) /\ is_shared'[Origin(t)] /\ ~Used(Origin(t))'
                      /\ memory'[Origin(t)] = Made(t) /\ memory'[t] = Freed
                 ELSE ptr'[t] = t /\ memory'[t] = Made(t)
      <3>1. CASE t = new
        <4>1. is_shared'[t] = taken
          BY <1>1, <1>3, <1>8, <3>1 DEF Typed
        <4> QED BY <1>3, <1>8, <1>11, <3>1, <4>1 DEF Used
      <3>2. CASE t # new
        <4>1. t \in processed /\ t \in ProcessedWhen(todo)
          BY <1>1, <1>2, <3>2 DEF Settled
        <4>2. /\ t \in Tensors /\ t \notin Weights
              /\ Origin(t) \in Weights /\ Origin(t) \in Tensors
          BY <1>1, <4>1, ProcessedFacts
        <4>3. ptr'[t] = ptr[t] /\ memory'[t] = memory[t] /\ is_shared'[t] = is_shared[t]
          BY <1>1, <1>3, <3>2, <4>2 DEF Typed
        <4>4. CASE is_shared[t]
          <5>1. /\ ptr[t] = Origin(t) /\ is_shared[Origin(t)] /\ ~Used(Origin(t))
                /\ memory[Origin(t)] = Made(t) /\ memory[t] = Freed
            BY <1>1, <4>1, <4>4 DEF ProcessedHeld
          <5>2. Origin(t) # old /\ Origin(t) # new
            BY <1>2, <1>3, <4>2, <5>1
          <5>3. memory'[Origin(t)] = memory[Origin(t)] /\ is_shared'[Origin(t)] /\ ~Used(Origin(t))'
            <6>1. Origin(t) \in Weights \ {old} /\ Origin(t) \in Tensors \ {old, new}
              BY <4>2, <5>2
            <6>2. Used(Origin(t))' <=> Used(Origin(t))
              <7> PICK o : o = Origin(t)
                OBVIOUS
              <7>1. o \in Weights \ {old}
                BY <6>1
              <7>2. ReadsOf(operands', o) = ReadsOf(operands, o)
                BY <1>3, <7>1
              <7>3. Origin(t)' = o
                BY <1>11
              <7> QED BY <7>2, <7>3 DEF Used
            <6> QED BY <1>3, <1>8, <5>1, <6>1, <6>2
          <5> QED BY <4>3, <4>4, <5>1, <5>3
        <4>5. CASE ~is_shared[t]
          BY <1>1, <4>1, <4>3, <4>5 DEF ProcessedHeld
        <4> QED BY <4>4, <4>5
      <3> QED BY <3>1, <3>2
    <2> QED BY <1>11, <2>1 DEF ProcessedHeld
  <1>13. NothingLeaks'
    BY <1>2 DEF NothingLeaks
  <1> QED BY <1>5, <1>6, <1>7, <1>10, <1>12, <1>13 DEF IInv

-----------------------------------------------------------------------------
(* The other steps.                                                        *)
LEMMA NoInitKeeps ==
    ASSUME DisciplineAssumption, IInv, NEW m, NEW k, <<m, k>> \in todo, no_init(m, k)
    PROVE  IInv'
  <1> PICK left : left = todo \ {<<m, k>>}
    OBVIOUS
  <1>1. /\ Control /\ Settled /\ Typed /\ stage = "init" /\ WeightsHeld /\ ProcessedHeld
        /\ ~HasInit(m, k)
    BY DEF IInv, no_init, Turn, HasInit
  <1>2. /\ program' = program /\ path' = path /\ stage' = stage /\ todo' = left
        /\ operands' = operands /\ use_count' = use_count /\ ptr' = ptr
        /\ is_shared' = is_shared /\ processed' = processed /\ memory' = memory
    BY DEF no_init, tensors
  <1>3. /\ OperandsWhen(todo)' = OperandsWhen(left) /\ ProcessedWhen(todo)' = ProcessedWhen(left)
        /\ Tensors' = Tensors
    BY <1>2, SameWhen
  <1>4. \A n \in Models : \A j \in DOMAIN program[n] : Turned(n, j, left) <=> Turned(n, j, todo)
    <2>1. ASSUME NEW n \in Models, NEW j \in DOMAIN program[n], Maker(n, j) = <<m, k>>
          PROVE  ~HasInit(n, j)
      BY <1>1, <2>1, MakerFacts DEF HasInit
    <2> QED BY <2>1 DEF Turned
  <1>5. OperandsWhen(left) = OperandsWhen(todo)
    BY <1>4 DEF OperandsWhen
  <1>6. ProcessedWhen(left) = ProcessedWhen(todo)
    BY <1>1 DEF ProcessedWhen
  <1>7. Control'
    <2>1. Processable' = Processable
      BY <1>2 DEF Processable, Models
    <2> QED BY <1>1, <1>2, <2>1 DEF Control
  <1>8. Settled' /\ Typed'
    BY <1>1, <1>2, <1>3, <1>5, <1>6 DEF Settled, Typed
  <1>9. WeightsHeld' /\ ProcessedHeld' /\ NothingLeaks'
    BY <1>1, <1>2 DEF WeightsHeld, ProcessedHeld, NothingLeaks, Used, Origin, Made
  <1> QED BY <1>7, <1>8, <1>9 DEF IInv

(* Steps that only change the stage.                                       *)
LEMMA StageKeeps ==
    ASSUME IInv, UNCHANGED <<program, tensors, todo, path>>,
           \/ stage' = stage
           \/ stage # "destroyed" /\ stage' \in {"init", "out of memory"}
           \/ stage = "init" /\ todo = {} /\ stage' = "ready"
    PROVE  IInv'
  <1>1. /\ program' = program /\ path' = path /\ todo' = todo
        /\ operands' = operands /\ use_count' = use_count /\ ptr' = ptr
        /\ is_shared' = is_shared /\ processed' = processed /\ memory' = memory
    BY DEF tensors
  <1>2. /\ Processable' = Processable /\ Tensors' = Tensors
        /\ OperandsWhen(todo)' = OperandsWhen(todo) /\ ProcessedWhen(todo)' = ProcessedWhen(todo)
    <2>1. /\ program' = program /\ path' = path /\ todo' = todo
      BY <1>1
    <2> QED BY <2>1, SameWhen
  <1>3. Control' /\ Settled' /\ Typed'
    BY <1>1, <1>2 DEF IInv, Control, Settled, Typed
  <1>4. stage' # "destroyed" => stage # "destroyed"
    OBVIOUS
  <1>5. stage' # "destroyed" => WeightsHeld' /\ ProcessedHeld'
    BY <1>1, <1>4 DEF IInv, WeightsHeld, ProcessedHeld, Used, Origin, Made
  <1>6. NothingLeaks'
    BY <1>1 DEF IInv, NothingLeaks
  <1> QED BY <1>3, <1>5, <1>6 DEF IInv

(* A weight has uses left if and only if an operator reads it.             *)
LEMMA CountSaysUsed ==
    ASSUME Control, Settled, NEW w \in Weights
    PROVE  use_count[w] \in Nat /\ (use_count[w] > 0 <=> Used(w))
  <1> DEFINE reads == ReadsOf(operands, w)
  <1>1. IsFiniteSet(reads) /\ Cardinality(reads) \in Nat
    BY ReadsWhenFinite DEF Settled
  <1>2. use_count[w] = Cardinality(reads)
    BY DEF Settled
  <1>3. Cardinality(reads) = 0 <=> reads = {}
    BY <1>1, FS_EmptySet
  <1> QED BY <1>1, <1>2, <1>3 DEF Used

LEMMA DestroyKeeps ==
    ASSUME DisciplineAssumption, IInv, destroy
    PROVE  IInv'
  <1> DEFINE given == weights_to_free \cup processed_to_free
             cells == {ptr[t] : t \in given}
  <1>1. /\ Control /\ Settled /\ Typed /\ stage = "ready" /\ WeightsHeld /\ ProcessedHeld
    BY DEF IInv, destroy
  <1>2. /\ program' = program /\ path' = path /\ todo' = todo
        /\ operands' = operands /\ use_count' = use_count /\ ptr' = ptr
        /\ is_shared' = is_shared /\ processed' = processed
    BY DEF destroy
  <1>3. \A w \in Weights : w \in weights_to_free <=> Used(w) /\ ~is_shared[w]
    BY <1>1, CountSaysUsed DEF weights_to_free
  <1>4. ASSUME NEW t \in weights_to_free
        PROVE  t \in Tensors /\ ptr[t] = t /\ t # NULL /\ memory[t] # Freed
    <2>1. t \in Weights /\ Used(t)
      BY <1>3 DEF weights_to_free
    <2>2. ptr[t] = t /\ memory[t] = <<t>>
      BY <1>1, <2>1 DEF WeightsHeld
    <2> QED BY <2>1, <2>2, NamesAssumption DEF Tensors, NULL, Freed
  <1>5. ASSUME NEW t \in processed_to_free
        PROVE  t \in Tensors /\ ptr[t] = t /\ t # NULL /\ memory[t] # Freed
    <2>1. t \in processed /\ ~is_shared[t] /\ t \in ProcessedWhen(todo)
      BY <1>1 DEF processed_to_free, Settled
    <2>2. ptr[t] = t /\ memory[t] = Made(t)
      BY <1>1, <2>1 DEF ProcessedHeld
    <2>3. Made(t) # Freed
      BY DEF Made, Freed
    <2> QED BY <1>1, <2>1, <2>2, <2>3, ProcessedFacts
  <1>6. cells = given /\ given \subseteq Tensors
    BY <1>4, <1>5
  <1>7. Freeable(cells)
    BY <1>4, <1>5, <1>6 DEF Freeable
  <1>8. \A t, u \in given : ptr[t] = ptr[u] => t = u
    BY <1>4, <1>5
  <1>9. memory' = [c \in Tensors |-> IF c \in given THEN Freed ELSE memory[c]] /\ stage' = "destroyed"
    BY <1>6, <1>7, <1>8 DEF destroy
  <1>10. /\ Processable' = Processable /\ Tensors' = Tensors
         /\ OperandsWhen(todo)' = OperandsWhen(todo) /\ ProcessedWhen(todo)' = ProcessedWhen(todo)
    BY <1>2, SameWhen
  <1>11. Control' /\ Settled' /\ Typed'
    BY <1>1, <1>2, <1>9, <1>10 DEF Control, Settled, Typed
  <1>12. ASSUME NEW w \in Weights, ~is_shared[w] PROVE memory'[w] = Freed
    <2>1. w \in Tensors
      BY DEF Tensors
    <2>2. CASE Used(w)
      BY <1>3, <1>9, <1>12, <2>1, <2>2
    <2>3. CASE ~Used(w)
      BY <1>1, <1>9, <1>12, <2>1, <2>3 DEF WeightsHeld
    <2> QED BY <2>2, <2>3
  <1>13. ASSUME NEW t \in processed PROVE memory'[t] = Freed
    <2>1. t \in Tensors
      BY <1>1, ProcessedFacts DEF Settled
    <2>2. CASE is_shared[t]
      BY <1>1, <1>9, <2>1, <2>2 DEF ProcessedHeld
    <2>3. CASE ~is_shared[t]
      BY <1>9, <2>1, <2>3 DEF processed_to_free
    <2> QED BY <2>2, <2>3
  <1>14. NothingLeaks'
    BY <1>2, <1>12, <1>13 DEF NothingLeaks
  <1> QED BY <1>9, <1>11, <1>14 DEF IInv

LEMMA StepInvariant == DisciplineAssumption /\ IInv /\ [Next]_vars => IInv'
  <1> SUFFICES ASSUME DisciplineAssumption, IInv, [Next]_vars PROVE IInv'
    OBVIOUS
  <1>1. ASSUME NEW t \in todo, init_weight(t[1], t[2]) PROVE IInv'
    <2>1. <<t[1], t[2]>> \in todo
      BY <1>1 DEF init_weight, Turn
    <2> QED BY <1>1, <2>1, InitWeightKeeps
  <1>2. ASSUME NEW t \in todo, alloc_fails(t[1], t[2]) PROVE IInv'
    BY <1>2, StageKeeps DEF alloc_fails, Turn
  <1>3. ASSUME NEW t \in todo, no_init(t[1], t[2]) PROVE IInv'
    <2>1. <<t[1], t[2]>> \in todo
      BY <1>3 DEF no_init, Turn
    <2> QED BY <1>3, <2>1, NoInitKeeps
  <1>4. CASE init_done
    BY <1>4, StageKeeps DEF init_done
  <1>5. CASE destroy
    BY <1>5, DestroyKeeps
  <1>6. CASE Stopped
    BY <1>6, StageKeeps DEF Stopped, vars
  <1>7. CASE UNCHANGED vars
    BY <1>7, StageKeeps DEF vars
  <1> QED BY <1>1, <1>2, <1>3, <1>4, <1>5, <1>6, <1>7 DEF Next

-----------------------------------------------------------------------------
(* What the invariant says.                                                *)
LEMMA InvariantTypes == DisciplineAssumption /\ IInv => TypeOK
  <1> SUFFICES ASSUME DisciplineAssumption, IInv PROVE TypeOK
    OBVIOUS
  <1>1. Control /\ Settled /\ Typed
    BY DEF IInv
  <1>2. ASSUME NEW m \in Models, NEW k \in DOMAIN program[m]
        PROVE  /\ DOMAIN operands[m][k] = DOMAIN program[m][k].inputs
               /\ \A p \in DOMAIN operands[m][k] : operands[m][k][p] \in Weights \cup processed
    <2>1. operands[m][k] = [p \in DOMAIN program[m][k].inputs |->
              IF p = 1 /\ Turned(m, k, todo) THEN Maker(m, k) ELSE program[m][k].inputs[p]]
      BY <1>1 DEF Settled, OperandsWhen
    <2>2. Turned(m, k, todo) => Maker(m, k) \in processed
      <3>1. /\ Maker(m, k) \in Processable /\ Maker(m, k)[1] \in Visited(program)
            /\ program[Maker(m, k)[1]][Maker(m, k)[2]].init = program[m][k].init
        BY <1>1, MakerFacts
      <3> QED BY <1>1, <3>1 DEF Settled, ProcessedWhen, Turned, HasInit
    <2>3. \A p \in DOMAIN program[m][k].inputs : program[m][k].inputs[p] \in Weights
      BY <1>1, ProgramTypes DEF Control, Models
    <2> QED BY <2>1, <2>2, <2>3
  <1>3. use_count \in [Weights -> Nat]
    BY <1>1, CountSaysUsed DEF Settled
  <1>4. processed \subseteq Processable /\ todo \subseteq Processable
    BY <1>1 DEF Settled, ProcessedWhen, Control
  <1>5. path \in {"single", "likely", "general"}
    <2>1. program \in Programs /\ path = PathOf(program)
      BY <1>1 DEF Control
    <2>2. Len(program) \in Nat /\ Len(program) >= 1
      BY <2>1, ProgramTypes
    <2> QED BY <2>1, <2>2 DEF PathOf
  <1> QED BY <1>1, <1>2, <1>3, <1>4, <1>5 DEF TypeOK, Control, Typed

LEMMA InvariantIntact == DisciplineAssumption /\ IInv => OperandsIntact
  <1> SUFFICES ASSUME DisciplineAssumption, IInv, stage = "ready",
                      NEW m \in Models, NEW k \in DOMAIN program[m], NEW p \in DOMAIN operands[m][k]
               PROVE  Holds(operands[m][k][p]) = Compiled(m, k, p)
    BY DEF OperandsIntact
  <1>1. Control /\ Settled /\ Typed /\ WeightsHeld /\ ProcessedHeld /\ todo = {}
    BY DEF IInv, Control
  <1>2. /\ operands[m][k] = [q \in DOMAIN program[m][k].inputs |->
              IF q = 1 /\ Turned(m, k, todo) THEN Maker(m, k) ELSE program[m][k].inputs[q]]
        /\ DOMAIN operands = Models /\ DOMAIN operands[m] = DOMAIN program[m]
    BY <1>1 DEF Settled, OperandsWhen
  <1>3. CASE p = 1 /\ HasInit(m, k)
    <2> PICK t : t = Maker(m, k)
      OBVIOUS
    <2>1. operands[m][k][p] = t /\ Turned(m, k, todo)
      BY <1>1, <1>2, <1>3 DEF Turned
    <2>2. /\ t \in Processable /\ t[1] \in Visited(program)
          /\ program[t[1]][t[2]].init = program[m][k].init
          /\ Origin(t) = program[m][k].inputs[1]
      BY <1>1, <1>3, MakerFacts
    <2>3. t \in processed /\ t \in ProcessedWhen(todo)
      BY <1>1, <1>3, <2>2 DEF Settled, ProcessedWhen, HasInit
    <2>4. t # NULL /\ Origin(t) # NULL
      BY <1>1, <2>3, ProcessedFacts, NamesAssumption DEF NULL
    <2>5. Holds(t) = Made(t)
      BY <1>1, <2>3, <2>4 DEF ProcessedHeld, Holds
    <2>6. Made(t) = Compiled(m, k, p)
      BY <1>3, <2>2 DEF Made, Compiled, HasInit
    <2> QED BY <2>1, <2>5, <2>6
  <1>4. CASE ~(p = 1 /\ HasInit(m, k))
    <2> PICK w : w = program[m][k].inputs[p]
      OBVIOUS
    <2>1. operands[m][k][p] = w
      BY <1>2, <1>4 DEF Turned
    <2>2. w \in Weights
      BY <1>1, <1>2, ProgramTypes DEF Control, Models
    <2>3. Used(w)
      BY <1>2, <2>1, ReadsMembers DEF Used
    <2>4. ptr[w] = w /\ memory[w] = <<w>> /\ w # NULL
      BY <1>1, <2>2, <2>3, NamesAssumption DEF WeightsHeld, NULL
    <2> QED BY <1>4, <2>1, <2>4 DEF Holds, Compiled, HasInit
  <1> QED BY <1>3, <1>4

(* In every state the invariant holds, when no two operators of a network  *)
(* read the same parameter node and likely device models are initialized   *)
(* alike.                                                                  *)
THEOREM WeightsInvariant == ASSUME DisciplineAssumption PROVE Spec => []IInv
  <1>1. Init => IInv
    BY InitInvariant
  <1>2. IInv /\ [Next]_vars => IInv'
    BY StepInvariant
  <1> QED BY <1>1, <1>2, PTL DEF Spec

(* For all device models of any length: tensors, use counts and addresses  *)
(* are what their types in tinynn.h and init.c say.                        *)
THEOREM WeightsTypeCorrect == ASSUME DisciplineAssumption PROVE Spec => []TypeOK
  <1>1. IInv => TypeOK
    BY InvariantTypes
  <1> QED BY <1>1, WeightsInvariant, PTL

(* Whichever of its three ways init_model_weights() goes, no operator ends *)
(* up with a weight other than the one that it was compiled for.           *)
THEOREM OperandsAlwaysIntact == ASSUME DisciplineAssumption PROVE Spec => []OperandsIntact
  <1>1. IInv => OperandsIntact
    BY InvariantIntact
  <1> QED BY <1>1, WeightsInvariant, PTL

(* The use counts of the importer are given up one by one with the uses.   *)
THEOREM UseCountsAlwaysExact == ASSUME DisciplineAssumption PROVE Spec => []UseCountsExact
  <1>1. IInv => UseCountsExact
    BY DEF IInv, Settled, UseCountsExact
  <1> QED BY <1>1, WeightsInvariant, PTL

(* Neither init_model_weights() nor LITE_destroy_network() frees a weight  *)
(* twice, and together they free each of them.                             *)
THEOREM WeightsAlwaysFreedOnce == ASSUME DisciplineAssumption PROVE Spec => []FreedOnce
  <1>1. IInv => FreedOnce
    BY DEF IInv, Control, FreedOnce, NoBadFree
  <1> QED BY <1>1, WeightsInvariant, PTL
=============================================================================

----------------------------- MODULE WeightInit -----------------------------
(***************************************************************************)
(* init_model_weights() of the TinyNN runtime (runtime/src/init.c), and    *)
(* what LITE_destroy_network() frees of the weights (lite/network.c).      *)
(* The init function of an operator turns one of its weights into another  *)
(* layout.  When a weight has no more uses its memory is freed, or taken   *)
(* over by the processed weight; the uses are counted by the importer of   *)
(* the compiler (Target/MGB/importer.cpp).                                 *)
(*                                                                         *)
(* A tensor is a weight of the model, or the processed weight <<m, k>> of  *)
(* instruction k of device model m; a piece of memory has the name of the  *)
(* tensor that it was obtained for.  What memory holds is the weight       *)
(* that is in it, followed by the init functions it went through.          *)
(***************************************************************************)
EXTENDS Integers, Sequences, FiniteSets

CONSTANTS
    Weights,        \* model->weights
    InitFuncs,      \* init_kernels
    NoInit,         \* the init_func of an operator that has none
    OutSize,        \* the size of what an init function makes
    WeightSize,     \* the size of a weight in the model
    Programs,       \* the instructions of the device models, see IsProgram
    NodesShared     \* TRUE: the operators of a network that read the same
                    \* weight read it from the same parameter node

(* Instructions other than operators have no init function; an operator    *)
(* reads a weight once, and its init function works on the first one.      *)
Instruction == [opr : BOOLEAN, inputs : Seq(Weights), init : InitFuncs \cup {NoInit}]
IsProgram(pr) ==
    /\ pr \in Seq(Seq(Instruction)) /\ pr # <<>>
    /\ \A m \in DOMAIN pr : \A k \in DOMAIN pr[m] :
         /\ pr[m][k].init # NoInit => pr[m][k].opr /\ pr[m][k].inputs # <<>>
         /\ \A p, q \in DOMAIN pr[m][k].inputs :
              pr[m][k].inputs[p] = pr[m][k].inputs[q] => p = q

(* Where a program reads w: input p of instruction k of device model m.    *)
ReadsOf(code, w) ==
    UNION {UNION {{<<m, k, p>> : p \in {q \in DOMAIN code[m][k] : code[m][k][q] = w}} :
                      k \in DOMAIN code[m]} : m \in DOMAIN code}
Operands(pr) == [m \in DOMAIN pr |-> [k \in DOMAIN pr[m] |-> pr[m][k].inputs]]

ASSUME KernelsAssumption ==
    /\ NoInit \notin InitFuncs
    /\ OutSize \in [InitFuncs -> Nat \ {0}] /\ WeightSize \in [Weights -> Nat]
ASSUME ProgramsAssumption ==
    \A pr \in Programs : IsProgram(pr) /\ \A w \in Weights : ReadsOf(Operands(pr), w) # {}
ASSUME NamesAssumption ==
    /\ Weights \cap (Nat \X Nat) = {}
    /\ \A w \in Weights : w \notin {<<>>, "freed", "none"}
ASSUME NodesAssumption == NodesShared \in BOOLEAN

VARIABLES
    program,        \* combo_model->device_models[m]->instructions
    operands,       \* opr->inputs of each instruction, as tensors
    use_count,      \* weight->use_count
    ptr,            \* tensor->ptr
    is_shared,      \* tensor->is_shared
    processed,      \* the tensors in the processed_weights of the device models
    memory,         \* what is in each piece of memory
    todo,           \* the instructions init_model_weights() has still to visit
    path,           \* which of its three ways init_model_weights() goes
    stage           \* "init", "ready", "destroyed", or how the program stopped

tensors == <<operands, use_count, ptr, is_shared, processed, memory>>
vars == <<program, tensors, todo, path, stage>>

NULL == <<>>
Freed == <<"freed">>
NotObtained == <<"none">>
Models == DOMAIN program
Processable == UNION {{<<m, k>> : k \in DOMAIN program[m]} : m \in Models}
Tensors == Weights \cup Processable

-----------------------------------------------------------------------------
(* create_param_storage(): one use for each parameter node that has the    *)
(* content of the weight, in any of the networks that are imported.        *)
user_count(pr, w) ==
    LET reads == ReadsOf(Operands(pr), w)
    IN  Cardinality(IF NodesShared THEN {r[1] : r \in reads} ELSE reads)

(* is_likely_multi_device_model(): the device models are compared with the *)
(* first one, operators of which without an init function are not.         *)
SameInit(i, j) == i.init # NoInit => i.init = j.init
AlikeInstructions(i, j) ==
    /\ i.opr = j.opr
    /\ i.opr => SameInit(i, j) /\ i.inputs = j.inputs
is_likely_multi_device_model(pr) ==
    \A m \in DOMAIN pr :
        /\ DOMAIN pr[m] = DOMAIN pr[1]
        /\ \A k \in DOMAIN pr[1] : AlikeInstructions(pr[1][k], pr[m][k])

PathOf(pr) ==
    CASE Len(pr) = 1 -> "single"
      [] Len(pr) > 1 /\ is_likely_multi_device_model(pr) -> "likely"
      [] OTHER -> "general"

(* The likely device models take over what is made for the first one.      *)
Visited(pr) == IF PathOf(pr) = "likely" THEN {1} ELSE DOMAIN pr

Init ==
    /\ program \in Programs
    /\ operands = Operands(program)
    /\ use_count = [w \in Weights |-> user_count(program, w)]
    /\ ptr = [t \in Tensors |-> IF t \in Weights THEN t ELSE NULL]
    /\ \E shared \in [Weights -> BOOLEAN] :
         is_shared = [t \in Tensors |-> t \in Weights /\ shared[t]]
    /\ processed = {}
    /\ memory = [t \in Tensors |-> IF t \in Weights THEN <<t>> ELSE NotObtained]
    /\ todo = {t \in Processable : t[1] \in Visited(program)}
    /\ path = PathOf(program)
    /\ stage = "init"

Turn(m, k) ==
    /\ stage = "init" /\ <<m, k>> \in todo
    /\ \A t \in todo : m < t[1] \/ (m = t[1] /\ k <= t[2])

(* free(): of NULL, or of what was freed before, it stops the program.     *)
Freeable(cells) == \A c \in cells : c # NULL /\ memory[c] # Freed

(* An operator gives up one use, or that of each of the likely models;     *)
(* slips: only its own; always that of every device model.                 *)
only_its_own == 1
that_of_all == Len(program)
uses_given_up == IF path = "likely" THEN Len(program) ELSE 1
no_more_uses(uses) == uses <= 0

(* The operator reads the processed weight; so do the operators of the     *)
(* likely device models that read the weight.  A slip leaves those out.    *)
replaced_here(m, k, old, new) ==
    [operands EXCEPT ![m][k] = [p \in DOMAIN @ |-> IF @[p] = old THEN new ELSE @[p]]]
replaced(m, k, old, new) ==
    [n \in Models |-> [j \in DOMAIN operands[n] |-> [p \in DOMAIN operands[n][j] |->
        IF /\ operands[n][j][p] = old /\ j = k
           /\ n = m \/ path = "likely"
        THEN new ELSE operands[n][j][p]]]]

(* init_ins_weights() and what is done with the memory of the old weight.  *)
init_weight(m, k) ==
    /\ Turn(m, k) /\ program[m][k].init # NoInit
    /\ LET f == program[m][k].init
           old == operands[m][k][1]
           new == <<m, k>>
           cell == ptr[old]
           uses == use_count[old] - uses_given_up
           released == no_more_uses(uses) /\ ~is_shared[old]
           taken_over == /\ no_more_uses(uses) /\ is_shared[old] /\ path # "general"
                         /\ WeightSize[old] >= OutSize[f]
       IN  IF cell = NULL \/ (released /\ ~Freeable({cell}))
           THEN stage' = "crash" /\ UNCHANGED tensors
           ELSE /\ use_count' = [use_count EXCEPT ![old] = uses]
                /\ operands' = replaced(m, k, old, new)
                /\ processed' = processed \cup {new}
                /\ is_shared' = [is_shared EXCEPT ![new] = taken_over]
                /\ ptr' = [ptr EXCEPT ![new] = IF taken_over THEN cell ELSE new,
                                      ![old] = IF released /\ path # "general"
                                               THEN NULL ELSE cell]
                /\ memory' = [c \in Tensors |->
                     CASE c = cell -> IF taken_over THEN Append(memory[cell], f)
                                      ELSE IF released THEN Freed ELSE memory[cell]
                       [] c = new  -> IF taken_over THEN Freed ELSE Append(memory[cell], f)
                       [] OTHER -> memory[c]]
                /\ stage' = stage
    /\ todo' = todo \ {<<m, k>>}
    /\ UNCHANGED <<program, path>>

(* malloc() fails for the processed weight: the init function writes to it.*)
alloc_fails(m, k) ==
    /\ Turn(m, k) /\ program[m][k].init # NoInit
    /\ stage' = "out of memory"
    /\ UNCHANGED <<program, tensors, todo, path>>

no_init(m, k) ==
    /\ Turn(m, k) /\ program[m][k].init = NoInit
    /\ todo' = todo \ {<<m, k>>}
    /\ UNCHANGED <<program, tensors, path, stage>>

init_done ==
    /\ stage = "init" /\ todo = {}
    /\ stage' = "ready"
    /\ UNCHANGED <<program, tensors, todo, path>>

(* LITE_destroy_network(): weights with uses left, then processed ones.    *)
(* Slips: a weight in use once is forgotten; the uses are not looked at.   *)
weights_used_often == {w \in Weights : use_count[w] > 1 /\ ~is_shared[w]}
weights_not_shared == {w \in Weights : ~is_shared[w]}
weights_to_free == {w \in Weights : use_count[w] > 0 /\ ~is_shared[w]}
processed_to_free == {t \in processed : ~is_shared[t]}

destroy ==
    /\ stage = "ready"
    /\ LET cells == {ptr[t] : t \in weights_to_free \cup processed_to_free}
           once == \A t, u \in weights_to_free \cup processed_to_free : ptr[t] = ptr[u] => t = u
       IN  IF Freeable(cells) /\ once
           THEN /\ memory' = [c \in Tensors |-> IF c \in cells THEN Freed ELSE memory[c]]
                /\ stage' = "destroyed"
           ELSE stage' = "crash" /\ memory' = memory
    /\ UNCHANGED <<program, operands, use_count, ptr, is_shared, processed, todo, path>>

Stopped == stage \notin {"init", "ready"} /\ UNCHANGED vars

Next ==
    \/ \E t \in todo : \/ init_weight(t[1], t[2])
                     \/ alloc_fails(t[1], t[2])
                     \/ no_init(t[1], t[2])
    \/ init_done \/ destroy
    \/ Stopped

Spec == Init /\ [][Next]_vars

-----------------------------------------------------------------------------
TypeOK ==
    /\ program \in Programs
    /\ \A m \in Models : \A k \in DOMAIN program[m] :
         /\ DOMAIN operands[m][k] = DOMAIN program[m][k].inputs
         /\ \A p \in DOMAIN operands[m][k] : operands[m][k][p] \in Weights \cup processed
    /\ use_count \in [Weights -> Nat]
    /\ ptr \in [Tensors -> Tensors \cup {NULL}]
    /\ is_shared \in [Tensors -> BOOLEAN]
    /\ processed \subseteq Processable
    /\ DOMAIN memory = Tensors
    /\ todo \subseteq Processable
    /\ path \in {"single", "likely", "general"}
    /\ stage \in {"init", "ready", "destroyed", "crash", "out of memory"}

(* What input p of an instruction was compiled to be: the weight, or what  *)
(* the init function of the operator makes of it.                          *)
Compiled(m, k, p) ==
    IF p = 1 /\ program[m][k].init # NoInit
    THEN <<program[m][k].inputs[p], program[m][k].init>>
    ELSE <<program[m][k].inputs[p]>>
Holds(t) == IF ptr[t] = NULL THEN NULL ELSE memory[ptr[t]]

(* When the model has been loaded every instruction reads what it was      *)
(* compiled for: no weight was processed twice, or freed or overwritten    *)
(* while another operator, or another device model, still reads it.        *)
OperandsIntact ==
    stage = "ready" =>
        \A m \in Models : \A k \in DOMAIN program[m] : \A p \in DOMAIN operands[m][k] :
            Holds(operands[m][k][p]) = Compiled(m, k, p)

(* The count of a weight is the number of inputs that still name it, on    *)
(* all three ways of init_model_weights().                                 *)
UseCountsExact ==
    stage \in {"init", "ready"} =>
        \A w \in Weights : use_count[w] = Cardinality(ReadsOf(operands, w))

(* Nothing is freed twice and NULL is never freed or read, though the      *)
(* three ways, and LITE_destroy_network(), treat freed weights differently.*)
NoBadFree == stage # "crash"

(* LITE_destroy_network() leaves no memory of a weight behind.             *)
NothingLeaks ==
    stage = "destroyed" =>
        /\ \A w \in Weights : ~is_shared[w] => memory[w] = Freed
        /\ \A t \in processed : memory[t] = Freed

(* Each weight is freed exactly once.                                      *)
FreedOnce == NoBadFree /\ NothingLeaks
=============================================================================

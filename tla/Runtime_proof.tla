--------------------------- MODULE Runtime_proof ---------------------------
(***************************************************************************)
(* Networks, external operators, and weights that are aligned in place.    *)
(*                                                                         *)
(* For any networks and any files, destroyed in any order: as long as      *)
(* clients run and share no network whose memory lost its owner, and give  *)
(* up one that failed to load (DisciplineAssumption), nothing that was     *)
(* freed is used.  If they also share memory before it is used             *)
(* (SharesEarly), it is large enough, and none is left without an owner.   *)
(* The inductive invariant says who owns what: the Memory objects that are *)
(* there are those of networks that are loaded and own one, and such a     *)
(* Memory is long enough for all that use it.  The same for the table of   *)
(* loaders of external operators: until a network with some is destroyed,  *)
(* it has all operators once a library was opened.                         *)
(*                                                                         *)
(* For every buffer whose weights lie apart, every alignment and every     *)
(* number of weights, alignment_or_alloc_weights() loses no byte of a      *)
(* weight.                                                                 *)
(***************************************************************************)
EXTENDS LiteExtern, WeightAlign, WellFoundedInduction, TLAPS

DisciplineAssumption == OrphansRest /\ ChecksLoad

Unused ==
    \A n \in Networks : net[n] \in {"none", "made"} => ~have_init[n]
OwnersLive ==
    \A k \in Networks : Owner(k) =>
        /\ max_tensor_memroy[k] = k
        /\ memory[k].object = "live" /\ memory[k].block # "freed"
        /\ SharesEarly /\ memory[k].block = "live" => memory[k].size = memory[k].length_in_byte
UsersHold ==
    \A n \in Networks : net[n] = "loaded" /\ HasOwner(n) =>
        /\ \A m \in DeviceModels(n) : file[n].memory[m] <= memory[max_tensor_memroy[n]].length_in_byte
        /\ have_init[n] => memory[max_tensor_memroy[n]].block = "live"
OthersGone ==
    \A k \in Networks : ~Owner(k) =>
        memory[k].object # "live" /\ (SharesEarly => memory[k].block # "live")
UsedOnceLoaded ==
    \A n \in Networks : net[n] = "loaded" => net[max_tensor_memroy[n]] \in {"loaded", "destroyed"}
IInv ==
    /\ TypeOK /\ Unused /\ OwnersLive /\ UsersHold /\ OthersGone /\ UsedOnceLoaded
    /\ status # "undefined"

-----------------------------------------------------------------------------
(* What a file gives a network.                                            *)
LEMMA FileTypes ==
    ASSUME NEW f \in Files
    PROVE  /\ f.memory \in [DOMAIN f.memory -> Nat \ {0}]
           /\ f.input \in [DOMAIN f.memory -> BOOLEAN]
           /\ 1 \in DOMAIN f.memory
           /\ Len(f.memory) \in Nat /\ DOMAIN f.memory = 1..Len(f.memory)
  <1>1. IsFile(f)
    BY FilesAssumption
  <1>2. f.memory \in Seq(Nat \ {0}) /\ f.memory # <<>> /\ f.input \in [DOMAIN f.memory -> BOOLEAN]
    BY <1>1 DEF IsFile
  <1> QED BY <1>2

(* Files and NoModels differ, so a file of a network says that it has one. *)
LEMMA NoModelsIsNoFile == NoModels \notin Files
  <1>1. NoModels.memory = <<>>
    BY DEF NoModels
  <1> QED BY <1>1, FilesAssumption DEF IsFile

LEMMA InitInvariant == Init => IInv
  <1> SUFFICES ASSUME Init PROVE IInv
    OBVIOUS
  <1>1. NoMemory \in Memory /\ NoMemory.object = "none" /\ NoMemory.block = "none"
    BY DEF NoMemory, Memory, States
  <1>2. \A n \in Networks : input[n] \in [DeviceModels(n) -> BOOLEAN]
    <2>1. DOMAIN NoModels.memory = {} /\ <<>> \in [{} -> BOOLEAN]
      BY DEF NoModels
    <2>2. \A n \in Networks : file[n] = NoModels /\ input[n] = <<>>
      BY DEF Init
    <2> QED BY <2>1, <2>2 DEF DeviceModels
  <1>3. TypeOK
    BY <1>1, <1>2, NoModelsIsNoFile DEF Init, TypeOK
  <1> QED BY <1>1, <1>3 DEF Init, IInv, Unused, OwnersLive, UsersHold, OthersGone, UsedOnceLoaded,
                            HasOwner, Owner

-----------------------------------------------------------------------------
LEMMA MakeStep ==
    ASSUME IInv, NEW n \in Networks, make_network(n)
    PROVE  IInv'
  <1>1. TypeOK'
    BY DEF IInv, TypeOK, make_network, sharing, tensors, DeviceModels
  <1> QED BY <1>1 DEF IInv, TypeOK, Unused, OwnersLive, UsersHold, OthersGone, UsedOnceLoaded,
                      HasOwner, Owner, make_network, sharing, tensors, DeviceModels

LEMMA FailStep ==
    ASSUME IInv, NEW n \in Networks, load_fails(n)
    PROVE  IInv'
  <1>1. TypeOK'
    BY DEF IInv, TypeOK, load_fails, sharing, tensors, DeviceModels
  <1> QED BY <1>1 DEF IInv, TypeOK, Unused, OwnersLive, UsersHold, OthersGone, UsedOnceLoaded,
                      HasOwner, Owner, load_fails, sharing, tensors, DeviceModels

(* Nobody uses the Memory of a network that was not loaded before.         *)
LEMMA LoadStep ==
    ASSUME IInv, NEW n \in Networks, NEW f \in Files, load_model(n, f)
    PROVE  IInv'
  <1>1. PICK m \in DOMAIN f.memory :
          max_tensor_size(f, f.memory[m]) /\ memory' = [memory EXCEPT ![n] = NewMemory(f.memory[m])]
    BY DEF load_model
  <1> DEFINE size == f.memory[m]
  <1>2. size \in Nat /\ \A i \in DOMAIN f.memory : f.memory[i] <= size
    BY <1>1, FileTypes DEF max_tensor_size
  <1>3. /\ memory' \in [Networks -> Memory]
        /\ memory'[n].object = "live" /\ memory'[n].block = "none"
        /\ memory'[n].length_in_byte = size
        /\ \A k \in Networks \ {n} : memory'[k] = memory[k]
    BY <1>1, <1>2 DEF IInv, TypeOK, NewMemory, Memory, States
  <1> HIDE DEF size
  <1>4. /\ net' = [net EXCEPT ![n] = "loaded"] /\ net[n] = "made"
        /\ file' = [file EXCEPT ![n] = f]
        /\ max_tensor_memroy' = [max_tensor_memroy EXCEPT ![n] = n]
        /\ is_own_tensor_memory' = [is_own_tensor_memory EXCEPT ![n] = TRUE]
        /\ active_device_model_idx' = [active_device_model_idx EXCEPT ![n] = 1]
        /\ input' = [input EXCEPT ![n] = [i \in DOMAIN f.memory |-> FALSE]]
        /\ have_init' = have_init /\ status' = status
    BY DEF load_model
  <1>5. TypeOK'
    <2>1. file'[n] = f /\ \A k \in Networks \ {n} : file'[k] = file[k]
      BY <1>4 DEF IInv, TypeOK
    <2> DEFINE unset == [i \in DOMAIN f.memory |-> FALSE]
    <2>6. input' = [input EXCEPT ![n] = unset] /\ unset \in [DOMAIN f.memory -> BOOLEAN]
      BY <1>4
    <2> HIDE DEF unset
    <2>4. /\ input'[n] = unset /\ DOMAIN input' = Networks
          /\ active_device_model_idx'[n] = 1
      BY <1>4, <2>6 DEF IInv, TypeOK
    <2>5. DeviceModels(n)' = DOMAIN f.memory
      BY <2>1 DEF DeviceModels
    <2>2. input'[n] \in [DeviceModels(n)' -> BOOLEAN]
      BY <2>4, <2>5, <2>6
    <2>3. active_device_model_idx'[n] \in DeviceModels(n)'
      BY <2>4, <2>5, FileTypes
    <2> QED BY <1>3, <1>4, <2>1, <2>2, <2>3, <2>4, <2>6 DEF IInv, TypeOK, DeviceModels
  <1>6. \A k \in Networks : net[k] = "loaded" => max_tensor_memroy[k] # n /\ k # n
    BY <1>4 DEF IInv, UsedOnceLoaded
  <1>7. Unused' /\ OwnersLive' /\ OthersGone' /\ UsedOnceLoaded'
    BY <1>3, <1>4 DEF IInv, TypeOK, Unused, OwnersLive, OthersGone, UsedOnceLoaded, Owner
  <1>8. UsersHold'
    BY <1>2, <1>3, <1>4, <1>6 DEF IInv, TypeOK, Unused, UsersHold, HasOwner, Owner, DeviceModels
  <1> QED BY <1>4, <1>5, <1>7, <1>8 DEF IInv

(* init_model_memory() of a network that is loaded: the block is that of a *)
(* Memory whose owner is loaded, and as long as the Memory says.           *)
LEMMA InitMemory ==
    ASSUME IInv, NEW n \in Networks, Loaded(n), HasOwner(n), init_model_memory(n),
           UNCHANGED <<net, file, sharing, active_device_model_idx>>
    PROVE  /\ TypeOK' \/ status' \notin {"run", "abort", "undefined", "overrun"}
           /\ Unused' /\ OwnersLive' /\ UsersHold' /\ OthersGone' /\ UsedOnceLoaded'
           /\ have_init'[n] /\ HasOwner(n)'
  <1> DEFINE k == max_tensor_memroy[n]
  <1>1. k \in Networks /\ Owner(k) /\ net[n] = "loaded"
    BY DEF IInv, TypeOK, HasOwner, Loaded
  <1>2. /\ memory' \in [Networks -> Memory]
        /\ \A j \in Networks \ {k} : memory'[j] = memory[j]
        /\ memory'[k].object = memory[k].object
        /\ memory'[k].length_in_byte = memory[k].length_in_byte
        /\ memory'[k].block = "live"
        /\ SharesEarly => memory'[k].size = memory[k].length_in_byte
    <2>1. CASE have_init[n]
      BY <1>1, <2>1 DEF init_model_memory, needs_init, IInv, TypeOK, OwnersLive, UsersHold, HasOwner
    <2>2. CASE ~have_init[n] /\ memory[k].block # "none"
      BY <1>1, <2>2 DEF init_model_memory, needs_init, IInv, TypeOK, OwnersLive, Memory, States
    <2>3. CASE ~have_init[n] /\ memory[k].block = "none"
      <3>1. memory' = [memory EXCEPT ![k].block = "live", ![k].size = memory[k].length_in_byte]
        BY <2>3 DEF init_model_memory, needs_init
      <3>2. memory \in [Networks -> Memory] /\ k \in Networks
        BY <1>1 DEF IInv, TypeOK
      <3> HIDE DEF k
      <3>3. memory[k] \in Memory
        BY <3>2
      <3>4. memory[k].length_in_byte \in Nat
        BY <3>3 DEF Memory
      <3>5. memory' = [memory EXCEPT ![k] = [memory[k] EXCEPT !.block = "live",
                                                    !.size = memory[k].length_in_byte]]
        BY <3>1, <3>2
      <3>6. /\ memory'[k] = [memory[k] EXCEPT !.block = "live", !.size = memory[k].length_in_byte]
            /\ \A j \in Networks \ {k} : memory'[j] = memory[j]
            /\ DOMAIN memory' = Networks
        BY <3>2, <3>5
      <3>7. /\ memory'[k] \in Memory /\ memory'[k].object = memory[k].object
            /\ memory'[k].length_in_byte = memory[k].length_in_byte
            /\ memory'[k].block = "live" /\ memory'[k].size = memory[k].length_in_byte
        BY <3>3, <3>4, <3>6 DEF Memory, States
      <3>8. memory' \in [Networks -> Memory]
        BY <3>2, <3>5, <3>6, <3>7
      <3> QED BY <3>6, <3>7, <3>8
    <2> QED BY <2>1, <2>2, <2>3
  <1> HIDE DEF k
  <1>3. /\ have_init' \in [Networks -> BOOLEAN] /\ have_init'[n]
        /\ \A j \in Networks \ {n} : have_init'[j] = have_init[j]
    BY DEF init_model_memory, needs_init, IInv, TypeOK
  <1>4. DOMAIN input' = Networks /\ \A j \in Networks : input'[j] \in [DeviceModels(j) -> BOOLEAN]
    <2> DEFINE cleared == [m \in DeviceModels(n) |-> FALSE]
    <2>1. input' = input \/ input' = [input EXCEPT ![n] = cleared]
      BY DEF init_model_memory, needs_init
    <2>2. cleared \in [DeviceModels(n) -> BOOLEAN]
      OBVIOUS
    <2> HIDE DEF cleared
    <2> QED BY <2>1, <2>2 DEF IInv, TypeOK
  <1>5. TypeOK' \/ status' \notin {"run", "abort", "undefined", "overrun"}
    BY <1>2, <1>3, <1>4 DEF IInv, TypeOK, sharing, DeviceModels
  <1>6. k = max_tensor_memroy[n]
    BY DEF k
  <1>9. /\ \A i \in Networks : Owner(i)' <=> Owner(i)
        /\ net' = net /\ file' = file /\ max_tensor_memroy' = max_tensor_memroy
    BY DEF Owner, sharing
  <1>7. Unused' /\ OwnersLive' /\ OthersGone' /\ UsedOnceLoaded' /\ HasOwner(n)'
    <2>1. Unused'
      BY <1>1, <1>3, <1>9 DEF IInv, Unused
    <2>2. OwnersLive'
      BY <1>1, <1>2, <1>9 DEF IInv, OwnersLive
    <2>3. OthersGone'
      BY <1>1, <1>2, <1>9 DEF IInv, OthersGone
    <2>4. UsedOnceLoaded' /\ HasOwner(n)'
      BY <1>1, <1>6, <1>9 DEF IInv, UsedOnceLoaded, HasOwner
    <2> QED BY <2>1, <2>2, <2>3, <2>4
  <1>8. UsersHold'
    <2> SUFFICES ASSUME NEW i \in Networks, net[i] = "loaded", HasOwner(i)'
                 PROVE  /\ \A m \in DeviceModels(i) :
                             file[i].memory[m] <= memory'[max_tensor_memroy[i]].length_in_byte
                        /\ have_init'[i] => memory'[max_tensor_memroy[i]].block = "live"
      BY <1>9 DEF UsersHold, DeviceModels
    <2>5. max_tensor_memroy[i] \in Networks /\ HasOwner(i)
      BY <1>9 DEF IInv, TypeOK, HasOwner
    <2>1. /\ max_tensor_memroy[i] \in Networks
          /\ \A m \in DeviceModels(i) :
               file[i].memory[m] <= memory[max_tensor_memroy[i]].length_in_byte
          /\ have_init[i] => memory[max_tensor_memroy[i]].block = "live"
      BY <2>5 DEF IInv, UsersHold
    <2>3. memory'[max_tensor_memroy[i]].length_in_byte = memory[max_tensor_memroy[i]].length_in_byte
      BY <1>2, <2>1
    <2>4. have_init'[i] => memory'[max_tensor_memroy[i]].block = "live"
      BY <1>2, <1>3, <1>6, <2>1
    <2> QED BY <2>1, <2>3, <2>4
  <1> QED BY <1>3, <1>5, <1>7, <1>8

LEMMA Holding ==
    ASSUME TypeOK, OwnersLive, UsersHold,
           NEW n \in Networks, net[n] = "loaded", have_init[n], HasOwner(n)
    PROVE  BlockLives(n) /\ (SharesEarly => BlockHolds(n))
  BY DEF TypeOK, OwnersLive, UsersHold, HasOwner, BlockLives, BlockHolds

LEMMA IoTensorStep ==
    ASSUME DisciplineAssumption, IInv, NEW n \in Networks, get_io_tensor(n)
    PROVE  IInv'
  <1>1. /\ Loaded(n) /\ HasOwner(n) /\ init_model_memory(n)
        /\ UNCHANGED <<net, file, sharing, active_device_model_idx>>
    BY DEF get_io_tensor, MayUse, DisciplineAssumption
  <1>3. memory[max_tensor_memroy[n]].object = "live"
    BY <1>1 DEF IInv, TypeOK, OwnersLive, HasOwner
  <1>2. status' = "run"
    BY <1>3 DEF get_io_tensor
  <1> QED BY <1>1, <1>2, InitMemory DEF IInv

LEMMA ForwardStep ==
    ASSUME DisciplineAssumption, IInv, NEW n \in Networks, forward(n)
    PROVE  IInv'
  <1>1. /\ Loaded(n) /\ HasOwner(n) /\ init_model_memory(n)
        /\ UNCHANGED <<net, file, sharing, active_device_model_idx>>
        /\ status' = IF ~BlockLives(n)' THEN "undefined" ELSE IF BlockHolds(n)' THEN "run" ELSE "overrun"
    BY DEF forward, MayUse, DisciplineAssumption
  <1>2. /\ TypeOK' /\ Unused' /\ OwnersLive' /\ UsersHold' /\ OthersGone' /\ UsedOnceLoaded'
        /\ have_init'[n] /\ HasOwner(n)'
    BY <1>1, InitMemory
  <1>3. net'[n] = "loaded"
    BY <1>1 DEF Loaded
  <1>4. BlockLives(n)'
    BY <1>2, <1>3 DEF TypeOK, OwnersLive, UsersHold, HasOwner, BlockLives
  <1> QED BY <1>1, <1>2, <1>4 DEF IInv

LEMMA NoMemoryStep ==
    ASSUME IInv, NEW n \in Networks, out_of_memory(n)
    PROVE  IInv'
  BY DEF IInv, TypeOK, Unused, OwnersLive, UsersHold, OthersGone, UsedOnceLoaded,
                      HasOwner, Owner, out_of_memory, sharing, tensors, DeviceModels

LEMMA LayoutStep ==
    ASSUME IInv, NEW n \in Networks, NEW m \in layouts(n), set_tensor_layout(n, m)
    PROVE  IInv'
  <1>1. TypeOK'
    <2>1. active_device_model_idx' = [active_device_model_idx EXCEPT ![n] = m] /\ m \in DeviceModels(n)
      BY DEF set_tensor_layout, layouts
    <2>2. m \in Nat
      BY <2>1, FileTypes DEF IInv, TypeOK, DeviceModels, set_tensor_layout, Loaded
    <2> QED BY <2>1, <2>2 DEF IInv, TypeOK, set_tensor_layout, sharing, DeviceModels
  <1> QED BY <1>1 DEF IInv, TypeOK, Unused, OwnersLive, UsersHold, OthersGone, UsedOnceLoaded,
                      HasOwner, Owner, set_tensor_layout, sharing, DeviceModels

LEMMA ResetStep ==
    ASSUME IInv, NEW n \in Networks, reset_tensor_memory(n)
    PROVE  IInv'
  <1> DEFINE a == active_device_model_idx[n]
             in == [input[n] EXCEPT ![a] = TRUE]
  <1>3. input[n] \in [DeviceModels(n) -> BOOLEAN] /\ in \in [DeviceModels(n) -> BOOLEAN]
    BY DEF IInv, TypeOK
  <1>4. input' = [input EXCEPT ![n] = in]
    BY DEF reset_tensor_memory
  <1> HIDE DEF a, in
  <1>1. DOMAIN input' = Networks /\ \A j \in Networks : input'[j] \in [DeviceModels(j) -> BOOLEAN]
    BY <1>3, <1>4 DEF IInv, TypeOK
  <1>2. TypeOK'
    BY <1>1 DEF IInv, TypeOK, reset_tensor_memory, sharing, DeviceModels
  <1> QED BY <1>2 DEF IInv, TypeOK, Unused, OwnersLive, UsersHold, OthersGone, UsedOnceLoaded,
                      HasOwner, Owner, reset_tensor_memory, sharing, DeviceModels

(* The destination gives up its Memory, which the source does not use; the *)
(* Memory of the source grows, if clients share early before anybody has a *)
(* block.                                                                  *)
LEMMA ShareStep ==
    ASSUME DisciplineAssumption, IInv,
           NEW s \in Networks, NEW d \in Networks, share_runtime_memroy(s, d)
    PROVE  IInv'
  <1> DEFINE k == max_tensor_memroy[s]
             j == max_tensor_memroy[d]
  <1>1. /\ net[s] = "loaded" /\ net[d] = "loaded" /\ status = "run"
        /\ UNCHANGED <<net, file, have_init, tensors>>
        /\ HasOwner(s) /\ HasOwner(d) /\ (is_own_tensor_memory[d] => k # j)
    BY DEF share_runtime_memroy, Loaded, MayShare, MayUse, DisciplineAssumption
  <1>2. k \in Networks /\ Owner(k) /\ j \in Networks /\ Owner(j)
    BY <1>1 DEF IInv, TypeOK, HasOwner
  <1>3. CASE have_init[s] \/ have_init[d]
    <2>1. status' = "abort" /\ UNCHANGED <<sharing, memory>>
      BY <1>3 DEF share_runtime_memroy
    <2> QED BY <1>1, <2>1 DEF IInv, TypeOK, Unused, OwnersLive, UsersHold, OthersGone, UsedOnceLoaded,
                      HasOwner, Owner, sharing, tensors, DeviceModels
  <1>4. CASE ~have_init[s] /\ ~have_init[d]
    <2>1. /\ status' = IF memory[j].object = "live" /\ own_memory_freed(d)[k].object = "live"
                       THEN "run" ELSE "undefined"
          /\ max_tensor_memroy' = [max_tensor_memroy EXCEPT ![d] = k]
          /\ is_own_tensor_memory' = [is_own_tensor_memory EXCEPT ![d] = FALSE]
          /\ memory' = [own_memory_freed(d) EXCEPT ![k].length_in_byte = shared_length(s, d)]
      BY <1>4 DEF share_runtime_memroy
    <2>2. SharesEarly => memory[k].block = "none" /\ memory[j].block = "none"
      BY <1>1, <1>4 DEF share_runtime_memroy, MayShare
    <2>3. is_own_tensor_memory[d] => j = d
      BY <1>1 DEF IInv, OwnersLive, Owner
    <2>4. k # d
      BY <1>1, <1>2, <2>3 DEF Owner
    <2>5. /\ shared_length(s, d) \in Nat
          /\ memory[k].length_in_byte <= shared_length(s, d)
          /\ memory[j].length_in_byte <= shared_length(s, d)
      BY <1>2 DEF IInv, TypeOK, Memory, shared_length
    <2> DEFINE longest == shared_length(s, d)
    <2> HIDE DEF longest
    <2>6. /\ own_memory_freed(d) \in [Networks -> Memory]
          /\ own_memory_freed(d)[k] = memory[k]
          /\ \A i \in Networks \ {d} : own_memory_freed(d)[i] = memory[i]
          /\ own_memory_freed(d)[d].block = memory[d].block
          /\ is_own_tensor_memory[d] => own_memory_freed(d)[d].object = "freed"
          /\ ~is_own_tensor_memory[d] => own_memory_freed(d)[d] = memory[d]
      <3>1. CASE ~is_own_tensor_memory[d]
        BY <1>2, <2>4, <3>1 DEF own_memory_freed, IInv, TypeOK
      <3>2. CASE is_own_tensor_memory[d]
        <4>1. /\ own_memory_freed(d) = [memory EXCEPT ![d].object = "freed"]
              /\ memory \in [Networks -> Memory]
          BY <2>3, <3>2 DEF own_memory_freed, IInv, TypeOK
        <4> HIDE DEF k, j
        <4>2. memory[d] \in Memory /\ k \in Networks /\ k # d
          BY <1>2, <2>4, <4>1 DEF k
        <4> QED BY <3>2, <4>1, <4>2 DEF Memory, States
      <3> QED BY <3>1, <3>2
    <2> DEFINE M == own_memory_freed(d)
    <2>7. /\ memory' \in [Networks -> Memory]
          /\ memory'[k].object = memory[k].object /\ memory'[k].block = memory[k].block
          /\ memory'[k].length_in_byte = longest
          /\ \A i \in Networks \ {d, k} : memory'[i] = memory[i]
          /\ memory'[d].block = memory[d].block
          /\ is_own_tensor_memory[d] => memory'[d].object = "freed"
          /\ ~is_own_tensor_memory[d] => memory'[d] = memory[d]
      <3>1. memory' = [M EXCEPT ![k].length_in_byte = longest]
        BY <2>1 DEF longest
      <3>2. longest \in Nat
        BY <2>5 DEF longest
      <3> HIDE DEF M, k
      <3>3. k \in Networks /\ k # d
        BY <1>2, <2>4 DEF k
      <3>4. /\ M \in [Networks -> Memory] /\ M[k] = memory[k]
            /\ \A i \in Networks \ {d} : M[i] = memory[i]
            /\ M[d].block = memory[d].block
            /\ is_own_tensor_memory[d] => M[d].object = "freed"
            /\ ~is_own_tensor_memory[d] => M[d] = memory[d]
        BY <2>6 DEF M, k
      <3> QED BY <3>1, <3>2, <3>3, <3>4 DEF Memory
    <2>8. status' = "run"
      BY <1>2, <2>1, <2>6 DEF IInv, OwnersLive
    <2>9. /\ k \in Networks /\ j \in Networks /\ k = max_tensor_memroy[s] /\ j = max_tensor_memroy[d]
          /\ memory[k].length_in_byte <= longest /\ memory[j].length_in_byte <= longest
      BY <1>2, <2>5 DEF longest
    <2> HIDE DEF k, j
    <2>10. TypeOK'
      BY <1>1, <1>4, <2>1, <2>7, <2>8, <2>9 DEF IInv, TypeOK, tensors, DeviceModels
    <2>11. Unused'
      BY <1>1 DEF IInv, Unused
    <2>12. \A i \in Networks : Owner(i)' <=> Owner(i) /\ i # d
      BY <1>1, <2>1 DEF IInv, TypeOK, Owner
    <2>13. OwnersLive'
      BY <1>1, <2>1, <2>2, <2>7, <2>9, <2>12 DEF IInv, TypeOK, OwnersLive
    <2>14. OthersGone'
      BY <1>1, <2>2, <2>3, <2>4, <2>7, <2>12, <1>2 DEF IInv, OthersGone, Owner
    <2>15. UsersHold'
      <3> SUFFICES ASSUME NEW n \in Networks, net'[n] = "loaded", HasOwner(n)'
                   PROVE  /\ \A m \in DeviceModels(n)' :
                               file'[n].memory[m] <= memory'[max_tensor_memroy'[n]].length_in_byte
                          /\ have_init'[n] => memory'[max_tensor_memroy'[n]].block = "live"
        BY DEF UsersHold
      <3>1. net[n] = "loaded" /\ file' = file /\ have_init' = have_init /\ net' = net
        BY <1>1
      <3>2. CASE n = d
        <4>1. max_tensor_memroy'[n] = k
          BY <2>1, <3>2 DEF IInv, TypeOK
        <4>2. HasOwner(n)
          BY <1>1, <3>2
        <4>3. \A m \in DeviceModels(n) : file[n].memory[m] <= longest
          <5> SUFFICES ASSUME NEW m \in DeviceModels(n) PROVE file[n].memory[m] <= longest
            OBVIOUS
          <5>1. file[n].memory[m] <= memory[j].length_in_byte
            BY <1>1, <2>9, <3>2, <4>2 DEF IInv, UsersHold
          <5>2. file[n].memory[m] \in Nat
            BY <3>1, FileTypes DEF IInv, TypeOK, DeviceModels
          <5>3. memory[j].length_in_byte \in Nat /\ longest \in Nat
            BY <2>5, <2>9 DEF IInv, TypeOK, Memory, longest
          <5> QED BY <5>1, <5>2, <5>3, <2>9
        <4> QED BY <1>4, <2>7, <3>1, <3>2, <4>1, <4>3 DEF DeviceModels
      <3>3. CASE n # d
        <4>1. max_tensor_memroy'[n] = max_tensor_memroy[n] /\ max_tensor_memroy[n] \in Networks
          BY <2>1, <3>3 DEF IInv, TypeOK
        <4>3. Owner(max_tensor_memroy[n])'
          BY <4>1 DEF HasOwner
        <4>2. HasOwner(n) /\ max_tensor_memroy[n] # d
          BY <2>12, <4>1, <4>3 DEF HasOwner
        <4>4. CASE max_tensor_memroy[n] # k
          BY <2>7, <3>1, <4>1, <4>2, <4>4 DEF IInv, UsersHold, DeviceModels
        <4>5. CASE max_tensor_memroy[n] = k
          <5>1. \A m \in DeviceModels(n) : file[n].memory[m] <= longest
            <6> SUFFICES ASSUME NEW m \in DeviceModels(n) PROVE file[n].memory[m] <= longest
              OBVIOUS
            <6>1. file[n].memory[m] <= memory[k].length_in_byte
              BY <3>1, <4>2, <4>5 DEF IInv, UsersHold
            <6>2. file[n].memory[m] \in Nat
              BY <3>1, FileTypes DEF IInv, TypeOK, DeviceModels
            <6>3. memory[k].length_in_byte \in Nat /\ longest \in Nat
              BY <2>5, <2>9 DEF IInv, TypeOK, Memory, longest
            <6> QED BY <6>1, <6>2, <6>3, <2>9
          <5>2. have_init[n] => memory[k].block = "live"
            BY <3>1, <4>2, <4>5 DEF IInv, UsersHold
          <5> QED BY <2>7, <3>1, <4>1, <4>5, <5>1, <5>2 DEF DeviceModels
        <4> QED BY <4>4, <4>5
      <3> QED BY <3>2, <3>3
    <2>16. UsedOnceLoaded'
      BY <1>1, <1>2, <2>1, <2>9 DEF IInv, TypeOK, UsedOnceLoaded, Owner
    <2> QED BY <2>8, <2>10, <2>11, <2>13, <2>14, <2>15, <2>16 DEF IInv
  <1> QED BY <1>3, <1>4

(* An owner that is destroyed frees its Memory; those who shared it have   *)
(* no owner any more, and nothing is said of them.                         *)
LEMMA DestroyStep ==
    ASSUME DisciplineAssumption, IInv, NEW n \in Networks, destroy_network(n)
    PROVE  IInv'
  <1>1. /\ net[n] \in {"made", "loaded"} /\ status = "run"
        /\ net' = [net EXCEPT ![n] = "destroyed"]
        /\ UNCHANGED <<file, sharing, have_init, tensors>>
    BY DEF destroy_network, DisciplineAssumption
  <1>2. /\ net'[n] = "destroyed" /\ \A i \in Networks \ {n} : net'[i] = net[i]
        /\ net' \in [Networks -> {"none", "made", "loaded", "broken", "destroyed"}]
    BY <1>1 DEF IInv, TypeOK
  <1>3. CASE ~Owner(n)
    <2>1. status' = "run" /\ memory' = memory
      BY <1>1, <1>3 DEF destroy_network, frees_memory, Owner
    <2>2. TypeOK'
      BY <1>1, <1>2, <2>1 DEF IInv, TypeOK, sharing, tensors, DeviceModels
    <2>3. \A i \in Networks : Owner(i)' <=> Owner(i)
      BY <1>1, <1>2, <1>3 DEF Owner, sharing
    <2>4. Unused' /\ OwnersLive' /\ OthersGone'
      BY <1>1, <1>2, <2>1, <2>3 DEF IInv, Unused, OwnersLive, OthersGone, sharing
    <2>5. UsersHold'
      BY <1>1, <1>2, <2>1, <2>3 DEF IInv, TypeOK, UsersHold, HasOwner, sharing, DeviceModels
    <2>6. UsedOnceLoaded'
      BY <1>1, <1>2 DEF IInv, TypeOK, UsedOnceLoaded, sharing
    <2> QED BY <2>1, <2>2, <2>4, <2>5, <2>6 DEF IInv
  <1>4. CASE Owner(n)
    <2>1. max_tensor_memroy[n] = n /\ memory[n].object = "live" /\ memory[n].block # "freed"
      BY <1>4 DEF IInv, OwnersLive
    <2>2. /\ status' = "run"
          /\ memory' = [memory EXCEPT ![n].object = "freed",
                                      ![n].block = IF @ = "live" THEN "freed" ELSE @]
      BY <1>1, <1>4, <2>1 DEF destroy_network, frees_memory, Owner
    <2>3. /\ memory' \in [Networks -> Memory]
          /\ memory'[n].object = "freed" /\ memory'[n].block # "live"
          /\ \A i \in Networks \ {n} : memory'[i] = memory[i]
      <3> DEFINE freed == [memory[n] EXCEPT !.object = "freed",
                             !.block = IF @ = "live" THEN "freed" ELSE @]
      <3>1. memory \in [Networks -> Memory] /\ memory[n] \in Memory
        BY DEF IInv, TypeOK
      <3>2. memory' = [memory EXCEPT ![n] = freed]
        BY <2>2, <3>1
      <3>3. freed \in Memory /\ freed.object = "freed" /\ freed.block # "live"
        BY <3>1 DEF Memory, States
      <3> HIDE DEF freed
      <3> QED BY <3>1, <3>2, <3>3
    <2>4. TypeOK'
      BY <1>1, <1>2, <2>2, <2>3 DEF IInv, TypeOK, sharing, tensors, DeviceModels
    <2>5. \A i \in Networks : Owner(i)' <=> Owner(i) /\ i # n
      BY <1>1, <1>2 DEF Owner, sharing
    <2>6. UsedOnceLoaded'
      BY <1>1, <1>2 DEF IInv, TypeOK, UsedOnceLoaded, sharing
    <2>7. Unused' /\ OwnersLive' /\ OthersGone'
      BY <1>1, <1>2, <2>3, <2>5 DEF IInv, Unused, OwnersLive, OthersGone, sharing
    <2>8. UsersHold'
      BY <1>1, <1>2, <2>3, <2>5 DEF IInv, TypeOK, UsersHold, HasOwner, sharing, DeviceModels
    <2> QED BY <2>2, <2>4, <2>6, <2>7, <2>8 DEF IInv
  <1> QED BY <1>3, <1>4

LEMMA StutterStep == ASSUME IInv, UNCHANGED vars PROVE IInv'
  BY DEF IInv, TypeOK, Unused, OwnersLive, UsersHold, OthersGone, UsedOnceLoaded,
                      HasOwner, Owner, vars, sharing, tensors, DeviceModels

(* Under the clients' discipline IInv is an invariant.                     *)
LEMMA Invariance == DisciplineAssumption /\ Spec => []IInv
  <1> SUFFICES ASSUME DisciplineAssumption PROVE Spec => []IInv
    OBVIOUS
  <1>1. ASSUME IInv, [Next]_vars PROVE IInv'
    BY <1>1, MakeStep, FailStep, LoadStep, IoTensorStep, NoMemoryStep, ResetStep, LayoutStep,
       ForwardStep, DestroyStep, ShareStep, StutterStep DEF Next, Stopped
  <1> QED BY InitInvariant, <1>1, PTL DEF Spec

-----------------------------------------------------------------------------
(* Every variable of the networks keeps its type, and the active device    *)
(* model is one that the network has.                                      *)
THEOREM NetworksTypeCorrect == DisciplineAssumption /\ Spec => []TypeOK
  BY Invariance, PTL DEF IInv

(* If memory is shared before it is used, no network whose memory has an   *)
(* owner has tensors in memory that was freed or is too small for one of   *)
(* its device models.                                                      *)
THEOREM RuntimeMemoryAlwaysSafe == SharesEarly /\ DisciplineAssumption /\ Spec => []RuntimeMemorySafe
  <1> SUFFICES ASSUME SharesEarly PROVE DisciplineAssumption /\ Spec => []RuntimeMemorySafe
    OBVIOUS
  <1>1. IInv => RuntimeMemorySafe
    BY Holding DEF IInv, RuntimeMemorySafe, Loaded
  <1> QED BY Invariance, <1>1, PTL

(* No call of the LITE interface uses a Memory after it was freed, or      *)
(* frees it twice, whenever memory is shared and in whatever order         *)
(* networks are destroyed: the client only has to leave alone, or destroy, *)
(* a network whose memory lost its owner, and one that failed to load.     *)
THEOREM NothingFreedIsEverUsed == DisciplineAssumption /\ Spec => []NothingFreedIsUsed
  BY Invariance, PTL DEF IInv, NothingFreedIsUsed

(* If memory is shared before it is used: when the last network is gone,   *)
(* in whatever order, so is all runtime memory.                            *)
THEOREM NothingEverLeaks == SharesEarly /\ DisciplineAssumption /\ Spec => []NothingLeaks
  <1> SUFFICES ASSUME SharesEarly PROVE DisciplineAssumption /\ Spec => []NothingLeaks
    OBVIOUS
  <1>1. IInv => NothingLeaks
    BY DEF IInv, NothingLeaks, OthersGone, Owner
  <1> QED BY Invariance, <1>1, PTL

(* A network that was not initialized has no input that the client set.    *)
Cleared ==
    \A n \in Networks : ~have_init[n] => \A m \in DeviceModels(n) : ~input[n][m]

Kept == \A n \in Networks : Loaded(n) => \A m \in DeviceModels(n) : input[n][m] => input'[n][m]

LEMMA InputsUnchanged ==
    ASSUME Cleared, UNCHANGED <<file, have_init, input>>
    PROVE  Cleared' /\ Kept
  BY DEF Cleared, Kept, DeviceModels

LEMMA InputsInitialized ==
    ASSUME IInv, Cleared, NEW n \in Networks, init_model_memory(n), UNCHANGED file
    PROVE  Cleared' /\ Kept
  <1>1. CASE have_init[n]
    BY <1>1 DEF init_model_memory, needs_init, Cleared, Kept, DeviceModels
  <1>2. CASE ~have_init[n]
    <2>1. have_init'[n] /\ \A i \in Networks \ {n} : have_init'[i] = have_init[i]
      BY <1>2 DEF init_model_memory, needs_init, IInv, TypeOK
    <2>2. \A i \in Networks \ {n} : input'[i] = input[i]
      BY <1>2 DEF init_model_memory, needs_init, IInv, TypeOK
    <2> QED BY <1>2, <2>1, <2>2 DEF Cleared, Kept, DeviceModels
  <1> QED BY <1>1, <1>2

LEMMA InputsReset ==
    ASSUME IInv, Cleared, NEW n \in Networks, reset_tensor_memory(n)
    PROVE  Cleared' /\ Kept
  <1> DEFINE a == active_device_model_idx[n]
             in == [input[n] EXCEPT ![a] = TRUE]
  <1>1. \A m \in DeviceModels(n) : input[n][m] => in[m]
    BY DEF IInv, TypeOK
  <1>2. input' = [input EXCEPT ![n] = in] /\ file' = file /\ have_init' = have_init /\ have_init[n]
    BY DEF reset_tensor_memory
  <1> HIDE DEF a, in
  <1>3. input'[n] = in /\ \A i \in Networks \ {n} : input'[i] = input[i]
    BY <1>2 DEF IInv, TypeOK
  <1> QED BY <1>1, <1>2, <1>3 DEF Cleared, Kept, DeviceModels

LEMMA InputsLoaded ==
    ASSUME IInv, Cleared, NEW n \in Networks, NEW f \in Files, load_model(n, f)
    PROVE  Cleared' /\ Kept
  <1> DEFINE unset == [i \in DOMAIN f.memory |-> FALSE]
  <1>1. \A m \in DOMAIN f.memory : ~unset[m]
    OBVIOUS
  <1>2. /\ input' = [input EXCEPT ![n] = unset] /\ file' = [file EXCEPT ![n] = f]
        /\ have_init' = have_init /\ ~Loaded(n)
    BY DEF load_model, Loaded
  <1> HIDE DEF unset
  <1>3. /\ input'[n] = unset /\ \A i \in Networks \ {n} : input'[i] = input[i]
        /\ file'[n] = f /\ \A i \in Networks \ {n} : file'[i] = file[i]
    BY <1>2 DEF IInv, TypeOK
  <1> QED BY <1>1, <1>2, <1>3 DEF Cleared, Kept, DeviceModels

(* A step takes no input away from a network: only init_model_memory()     *)
(* clears inputs, and it does so before the client can set one.            *)
THEOREM InputsAlwaysKept == DisciplineAssumption /\ Spec => InputsKept
  <1> SUFFICES ASSUME DisciplineAssumption PROVE Spec => InputsKept
    OBVIOUS
  <1>1. Init => Cleared
    BY DEF Init, Cleared, DeviceModels, NoModels
  <1>2. ASSUME IInv, Cleared, [Next]_vars PROVE Cleared' /\ Kept
    <2>1. CASE UNCHANGED <<file, have_init, input>>
      BY <1>2, <2>1, InputsUnchanged
    <2>2. ASSUME NEW n \in Networks, get_io_tensor(n) \/ forward(n) PROVE Cleared' /\ Kept
      BY <1>2, <2>2, InputsInitialized DEF get_io_tensor, forward
    <2>3. ASSUME NEW n \in Networks, reset_tensor_memory(n) PROVE Cleared' /\ Kept
      BY <1>2, <2>3, InputsReset
    <2>4. ASSUME NEW n \in Networks, NEW f \in Files, load_model(n, f) PROVE Cleared' /\ Kept
      BY <1>2, <2>4, InputsLoaded
    <2> QED BY <1>2, <2>1, <2>2, <2>3, <2>4 DEF Next, Stopped, vars, tensors, sharing,
               make_network, load_fails, out_of_memory, set_tensor_layout,
               share_runtime_memroy, destroy_network
  <1>3. Kept => \A n \in Networks : Loaded(n) => \A m \in DeviceModels(n) : input[n][m] => input'[n][m]
    BY DEF Kept
  <1> QED BY Invariance, <1>1, <1>2, <1>3, PTL DEF Spec, InputsKept

-----------------------------------------------------------------------------
(* The loaders.  External operators never change what networks do: a       *)
(* behaviour with them is one of LiteNetwork, and so everything above      *)
(* holds of it.                                                            *)
THEOREM ExternsLeaveNetworks == SpecExtern => Spec
  <1>1. InitExtern => Init
    BY DEF InitExtern
  <1>2. [NextExtern]_externs => [Next]_vars
    BY DEF NextExtern, externs
  <1> QED BY <1>1, <1>2, PTL DEF SpecExtern, Spec

(* What clients keep to: they load no external operators after a network   *)
(* with some was destroyed, unregister the last loader only, and register  *)
(* none in the name of an operator; each library has all operators.        *)
LoadersAssumption ==
    /\ LoadersKept /\ TakesLast
    /\ Spoilt \notin OwnLoaders /\ \A f \in Files : ~Contains(Library[f], Spoilt)
    /\ \A f, g \in Files : UsesExtern(f) /\ UsesExtern(g) =>
         \A i \in DOMAIN Operators[f] :
            Contains(Library[g], Operators[f][i]) /\ Operators[f][i] \notin OwnLoaders

TableOK(t) ==
    /\ t = [maps |-> t.maps, capacity |-> t.capacity]
    /\ t.maps \in Seq(STRING) /\ t.capacity \in Nat
    /\ IsInjective(t.maps) /\ Len(t.maps) <= t.capacity
    /\ ~Has(t, Spoilt)
HasOperators(t) ==
    \A f \in Files : UsesExtern(f) => \A i \in DOMAIN Operators[f] : Has(t, Operators[f][i])
ExternDestroyed == \E n \in Networks : net[n] = "destroyed" /\ UsesExtern(file[n])
LoadersInv ==
    /\ DOMAIN net = Networks /\ DOMAIN file = Networks
    /\ TableOK(Table) /\ loading = "done" /\ has_set_env_and_loader \in BOOLEAN
    /\ has_set_env_and_loader /\ ~ExternDestroyed => HasOperators(Table)

LEMMA InsertedLoader ==
    ASSUME NEW t, TableOK(t), NEW name \in STRING, name # Spoilt
    PROVE  /\ TableOK(insert_loader(t, name))
           /\ Has(insert_loader(t, name), name)
           /\ \A x : Has(t, x) => Has(insert_loader(t, name), x)
  <1> DEFINE u == insert_loader(t, name)
  <1>1. CASE Has(t, name)
    BY <1>1 DEF insert_loader
  <1>2. CASE ~Has(t, name)
    <2>1. PICK s \in Seq(STRING), c \in Nat : s = t.maps /\ c = t.capacity
      BY DEF TableOK
    <2>2. IsInjective(s) /\ Len(s) <= c /\ Len(s) \in Nat /\ \A i \in 1..Len(s) : s[i] # Spoilt /\ s[i] # name
      BY <1>2, <2>1 DEF TableOK, Has, Contains
    <2>3. u = [maps |-> Append(s, name), capacity |-> grown(t)]
      BY <1>2, <2>1 DEF insert_loader
    <2>4. grown(t) \in Nat /\ Len(s) + 1 <= grown(t)
      BY <2>1, <2>2 DEF grown
    <2> DEFINE w == Append(s, name)
    <2>5. /\ w \in Seq(STRING) /\ Len(w) = Len(s) + 1 /\ DOMAIN w = 1..Len(s) + 1
          /\ w[Len(s) + 1] = name /\ \A i \in 1..Len(s) : w[i] = s[i]
      BY <2>1
    <2>6. u.maps = w /\ u.capacity = grown(t) /\ u = [maps |-> u.maps, capacity |-> u.capacity]
      BY <2>3
    <2> HIDE DEF w, u
    <2>7. IsInjective(w)
      <3> SUFFICES ASSUME NEW a \in 1..Len(s) + 1, NEW b \in 1..Len(s) + 1, w[a] = w[b] PROVE a = b
        BY <2>5 DEF IsInjective
      <3>1. DOMAIN s = 1..Len(s)
        BY <2>1
      <3>2. (a \in 1..Len(s) \/ a = Len(s) + 1) /\ (b \in 1..Len(s) \/ b = Len(s) + 1)
        BY <2>2
      <3> QED BY <2>2, <2>5, <3>1, <3>2 DEF IsInjective
    <2>8. \A x : Has(u, x) <=> Has(t, x) \/ x = name
      <3>1. \A i : i \in 1..Len(s) + 1 <=> i \in 1..Len(s) \/ i = Len(s) + 1
        BY <2>2
      <3> QED BY <2>1, <2>5, <2>6, <3>1 DEF Has, Contains
    <2>9. TableOK(u)
      BY <2>4, <2>5, <2>6, <2>7, <2>8 DEF TableOK
    <2> QED BY <2>8, <2>9 DEF u
  <1> QED BY <1>1, <1>2

(* Counting up reaches every number.                                       *)
LEMMA CountUp ==
    ASSUME NEW S, 0 \in S, \A n \in Nat : n \in S => n + 1 \in S
    PROVE  Nat \subseteq S
  <1> DEFINE R == {p \in Nat \X Nat : p[1] < p[2]}
             T == Nat \ S
  <1> SUFFICES ASSUME T # {} PROVE FALSE
    OBVIOUS
  <1>1. IsWellFoundedOn(R, Nat)
    BY NatLessThanWellFounded DEF OpToRel
  <1>2. PICK m \in T : \A n \in T : ~ (<<n, m>> \in R)
    <2> HIDE DEF R
    <2> QED BY <1>1, WFMin
  <1>3. m \in Nat /\ m # 0 /\ m - 1 \in Nat /\ m = (m - 1) + 1
    OBVIOUS
  <1>4. m - 1 \in S
    <2>1. <<m - 1, m>> \in R
      BY <1>3
    <2> QED BY <1>2, <1>3, <2>1
  <1> QED BY <1>3, <1>4

(* A loop over the names: one more round can be appended to what the       *)
(* rounds so far have made.                                                *)
LEMMA InsertedLoaders ==
    ASSUME NEW t, TableOK(t), NEW names \in Seq(STRING), ~Contains(names, Spoilt)
    PROVE  /\ TableOK(insert_loaders(t, names))
           /\ \A x : Has(t, x) \/ Contains(names, x) => Has(insert_loaders(t, names), x)
  <1> DEFINE n == Len(names)
             Round(f, i) == IF i = 0 THEN t ELSE insert_loader(f[i - 1], names[i])
             after == CHOOSE f : f = [i \in 0..n |-> Round(f, i)]
             Runs(m) == \E f : f = [i \in 0..m |-> Round(f, i)]
             S == {m \in Nat : m <= n => Runs(m)}
  <1>1. insert_loaders(t, names) = after[n] /\ n \in Nat
    BY DEF insert_loaders
  <1>2. Runs(0)
    <2>1. [i \in 0..0 |-> t] = [i \in 0..0 |-> Round([j \in 0..0 |-> t], i)]
      OBVIOUS
    <2> QED BY <2>1
  <1>3. ASSUME NEW m \in Nat, m \in S, m + 1 <= n PROVE Runs(m + 1)
    <2>1. PICK f : f = [i \in 0..m |-> Round(f, i)]
      BY <1>1, <1>3
    <2> DEFINE g == [i \in 0..m + 1 |-> IF i = m + 1 THEN insert_loader(f[m], names[m + 1]) ELSE f[i]]
    <2>2. \A i \in 0..m : g[i] = f[i]
      OBVIOUS
    <2>3. ASSUME NEW i \in 0..m + 1 PROVE g[i] = Round(g, i)
      <3>1. CASE i = m + 1
        <4>1. g[i] = insert_loader(f[m], names[m + 1]) /\ i # 0 /\ i - 1 = m
          BY <3>1
        <4> QED BY <2>2, <3>1, <4>1
      <3>2. CASE i # m + 1
        <4>1. i \in 0..m /\ (i = 0 \/ i - 1 \in 0..m)
          BY <3>2
        <4> QED BY <2>1, <2>2, <4>1
      <3> QED BY <3>1, <3>2
    <2>4. g = [i \in 0..m + 1 |-> Round(g, i)]
      <3>1. g = [i \in 0..m + 1 |-> g[i]]
        OBVIOUS
      <3> HIDE DEF g
      <3> QED BY <2>3, <3>1
    <2> QED BY <2>4
  <1>4. n \in S
    <2>1. 0 \in S /\ \A m \in Nat : m \in S => m + 1 \in S
      <3> HIDE DEF Runs
      <3> QED BY <1>2, <1>3
    <2> HIDE DEF S
    <2>2. Nat \subseteq S
      BY <2>1, CountUp
    <2> QED BY <1>1, <2>2
  <1>5. after = [i \in 0..n |-> Round(after, i)]
    <2>1. PICK f : f = [i \in 0..n |-> Round(f, i)]
      BY <1>1, <1>4
    <2> QED BY <2>1, Zenon
  <1> HIDE DEF after
  <1> DEFINE Inserted(i) == /\ TableOK(after[i])
                            /\ \A x : Has(t, x) \/ (\E j \in 1..i : names[j] = x) => Has(after[i], x)
             U == {i \in Nat : i <= n => Inserted(i)}
  <1>6. Inserted(0)
    <2>1. after[0] = t
      BY <1>1, <1>5
    <2> QED BY <2>1
  <1>7. ASSUME NEW i \in Nat, i \in U, i + 1 <= n PROVE Inserted(i + 1)
    <2>1. after[i + 1] = insert_loader(after[i], names[i + 1]) /\ Inserted(i)
      <3>1. i + 1 \in 0..n /\ i + 1 # 0 /\ (i + 1) - 1 = i
        BY <1>1, <1>7
      <3>2. Inserted(i)
        BY <1>1, <1>7
      <3> QED BY <1>5, <3>1, <3>2
    <2>2. names[i + 1] \in STRING /\ names[i + 1] # Spoilt
      <3>1. i + 1 \in 1..n
        BY <1>1, <1>7
      <3> QED BY <3>1 DEF Contains
    <2>3. /\ TableOK(after[i + 1]) /\ Has(after[i + 1], names[i + 1])
          /\ \A x : Has(after[i], x) => Has(after[i + 1], x)
      <3>1. PICK u, name : u = after[i] /\ name = names[i + 1] /\ name \in STRING
        BY <2>2
      <3>2. TableOK(u) /\ name # Spoilt
        BY <2>1, <2>2, <3>1
      <3>3. /\ TableOK(insert_loader(u, name)) /\ Has(insert_loader(u, name), name)
            /\ \A x : Has(u, x) => Has(insert_loader(u, name), x)
        BY <3>1, <3>2, InsertedLoader
      <3> QED BY <2>1, <3>1, <3>3
    <2>4. \A j \in 1..i + 1 : j \in 1..i \/ j = i + 1
      OBVIOUS
    <2> QED BY <2>1, <2>3, <2>4
  <1>8. Inserted(n)
    <2>1. 0 \in U /\ \A i \in Nat : i \in U => i + 1 \in U
      BY <1>6, <1>7
    <2>2. Nat \subseteq U
      <3> HIDE DEF U
      <3> QED BY <2>1, CountUp
    <2> QED BY <1>1, <2>2
  <1> QED BY <1>1, <1>8 DEF Contains

LEMMA DeletedLast ==
    ASSUME NEW t, TableOK(t), t.maps # <<>>, NEW name, name = Last(t.maps)
    PROVE  /\ TableOK(delete_loader(t, name))
           /\ \A x : Has(t, x) /\ x # name => Has(delete_loader(t, name), x)
  <1> DEFINE u == delete_loader(t, name)
  <1>1. PICK s \in Seq(STRING), c \in Nat : s = t.maps /\ c = t.capacity
    BY DEF TableOK
  <1>2. IsInjective(s) /\ Len(s) <= c /\ Len(s) \in Nat \ {0} /\ DOMAIN s = 1..Len(s)
        /\ s[Len(s)] = name /\ \A i \in 1..Len(s) : s[i] # Spoilt
    BY <1>1 DEF TableOK, Has, Contains, Last
  <1>3. Has(t, name)
    BY <1>1, <1>2 DEF Has, Contains
  <1>4. (CHOOSE i \in DOMAIN t.maps : t.maps[i] = name) = Len(s)
    <2>1. \A i \in DOMAIN t.maps : t.maps[i] = name <=> i = Len(s)
      BY <1>1, <1>2 DEF IsInjective
    <2>2. Len(s) \in DOMAIN t.maps
      BY <1>1, <1>2
    <2> QED BY <2>1, <2>2
  <1>5. u = [t EXCEPT !.maps = Front(s)]
    <2>1. ~(Len(s) < Len(s))
      BY <1>2
    <2> QED BY <1>1, <1>3, <1>4, <2>1 DEF delete_loader
  <1> DEFINE w == Front(s)
  <1>6. /\ w \in Seq(STRING) /\ Len(w) = Len(s) - 1 /\ DOMAIN w = 1..Len(s) - 1
        /\ \A i \in 1..Len(s) - 1 : w[i] = s[i]
    BY <1>1, <1>2 DEF Front
  <1>7. u.maps = w /\ u.capacity = c /\ u = [maps |-> u.maps, capacity |-> u.capacity]
    BY <1>1, <1>5 DEF TableOK
  <1> HIDE DEF u, w
  <1>8. IsInjective(w)
    BY <1>2, <1>6 DEF IsInjective
  <1>9. \A x : Has(t, x) /\ x # name => Has(u, x)
    <2> SUFFICES ASSUME NEW i \in 1..Len(s), s[i] # name PROVE Has(u, s[i])
      BY <1>1 DEF Has, Contains
    <2>1. i \in 1..Len(s) - 1
      BY <1>2
    <2> QED BY <1>6, <1>7, <2>1 DEF Has, Contains
  <1>10. ~Has(u, Spoilt)
    BY <1>2, <1>6, <1>7 DEF Has, Contains
  <1>11. TableOK(u)
    BY <1>1, <1>2, <1>6, <1>7, <1>8, <1>10 DEF TableOK
  <1> QED BY <1>9, <1>11 DEF u

(* A network that was destroyed stays so, with the file it had.            *)
LEMMA DestroyedStays ==
    ASSUME DOMAIN net = Networks, DOMAIN file = Networks, [Next]_vars
    PROVE  /\ DOMAIN net' = Networks /\ DOMAIN file' = Networks
           /\ ExternDestroyed => ExternDestroyed'
  <1>1. /\ DOMAIN net' = Networks /\ DOMAIN file' = Networks
        /\ \A n \in Networks : net[n] = "destroyed" => net'[n] = "destroyed" /\ file'[n] = file[n]
    <2>1. CASE UNCHANGED <<net, file>>
      BY <2>1
    <2>2. ASSUME NEW k \in Networks, net[k] # "destroyed",
                 \E x : net' = [net EXCEPT ![k] = x],
                 file' = file \/ \E x : file' = [file EXCEPT ![k] = x]
          PROVE  /\ DOMAIN net' = Networks /\ DOMAIN file' = Networks
                 /\ \A n \in Networks : net[n] = "destroyed" => net'[n] = "destroyed" /\ file'[n] = file[n]
      BY <2>2
    <2>3. ASSUME NEW k \in Networks, make_network(k) \/ load_fails(k) \/ destroy_network(k)
                                     \/ \E f \in Files : load_model(k, f)
          PROVE  /\ net[k] # "destroyed" /\ \E x : net' = [net EXCEPT ![k] = x]
                 /\ file' = file \/ \E x : file' = [file EXCEPT ![k] = x]
      BY <2>3 DEF make_network, load_fails, destroy_network, load_model
    <2> QED BY <2>1, <2>2, <2>3 DEF Next, Stopped, vars, tensors, sharing, get_io_tensor, out_of_memory,
               reset_tensor_memory, set_tensor_layout, forward, share_runtime_memroy
  <1> QED BY <1>1 DEF ExternDestroyed

LEMMA LibraryLoads ==
    ASSUME LoadersAssumption, LoadersInv, NEW f, load_operators(f)
    PROVE  /\ TableOK(Table)' /\ loading' = "done" /\ has_set_env_and_loader' \in BOOLEAN
           /\ has_set_env_and_loader' /\ ~ExternDestroyed => HasOperators(Table)'
  <1>1. CASE ~UsesExtern(f)
    BY <1>1 DEF load_operators, LoadersInv, loaders, Table, TableOK, HasOperators, Has
  <1>2. CASE UsesExtern(f)
    <2> DEFINE t == WithLibrary(f)
    <2>1. /\ ~ExternDestroyed /\ Set(t) /\ has_set_env_and_loader' = TRUE
          /\ loading' = IF Has(Table, Spoilt) THEN "undefined"
                        ELSE IF \A i \in DOMAIN Operators[f] : Has(t, Operators[f][i])
                        THEN "done" ELSE "wrong loader"
      BY <1>2 DEF load_operators, LoadersAssumption, ExternDestroyed
    <2>2. f \in Files /\ Library[f] \in Seq(STRING) /\ ~Contains(Library[f], Spoilt)
      BY <1>2, ExternAssumption DEF UsesExtern, LoadersAssumption
    <2>3. TableOK(t) /\ HasOperators(t)
      <3>1. CASE has_set_env_and_loader
        BY <2>1, <3>1 DEF WithLibrary, LoadersInv
      <3>2. CASE ~has_set_env_and_loader
        <4>1. t = insert_loaders(Table, Library[f])
          BY <3>2 DEF WithLibrary
        <4>2. TableOK(t) /\ \A x : Contains(Library[f], x) => Has(t, x)
          BY <2>2, <4>1, InsertedLoaders DEF LoadersInv
        <4>3. HasOperators(t)
          BY <1>2, <2>2, <4>2 DEF HasOperators, LoadersAssumption
        <4> QED BY <4>2, <4>3
      <3> QED BY <3>1, <3>2
    <2>4. Table' = t
      <3> HIDE DEF t
      <3> QED BY <2>1, <2>3 DEF Set, Table, TableOK
    <2>5. loading' = "done"
      BY <1>2, <2>1, <2>2, <2>3 DEF LoadersInv, TableOK, HasOperators
    <2>6. TableOK(Table)' /\ HasOperators(Table)'
      <3> HIDE DEF t
      <3> QED BY <2>3, <2>4 DEF TableOK, HasOperators, Has
    <2> QED BY <2>1, <2>5, <2>6
  <1> QED BY <1>1, <1>2

(* The steps of clients that register a loader of their own, or take the   *)
(* last one away.                                                          *)
LEMMA OwnLoaderStep ==
    ASSUME LoadersAssumption, LoadersInv, NEW name \in OwnLoaders,
           register_loader(name) \/ unregister_loader(name), UNCHANGED vars
    PROVE  LoadersInv'
  <1>1. name \in STRING /\ name # Spoilt
    BY ExternAssumption DEF LoadersAssumption
  <1>2. TableOK(Table) /\ loading' = "done" /\ has_set_env_and_loader' = has_set_env_and_loader
    BY DEF LoadersInv, register_loader, unregister_loader, Searched, TableOK
  <1>3. PICK t : /\ Set(t) /\ TableOK(t)
                 /\ \A x : Has(Table, x) /\ x # name => Has(t, x)
    <2>1. CASE register_loader(name)
      BY <1>1, <1>2, <2>1, InsertedLoader DEF register_loader
    <2>2. CASE unregister_loader(name)
      <3>1. Set(delete_loader(Table, name)) /\ Table.maps # <<>> /\ name = Last(Table.maps)
        BY <2>2 DEF unregister_loader, LoadersAssumption, Table
      <3> QED BY <1>2, <3>1, DeletedLast
    <2> QED BY <2>1, <2>2
  <1>4. Table' = t
    BY <1>3 DEF Set, Table, TableOK
  <1>5. HasOperators(Table) => HasOperators(t)
    <2>1. \A f \in Files : UsesExtern(f) => \A i \in DOMAIN Operators[f] : Operators[f][i] # name
      BY DEF LoadersAssumption
    <2> QED BY <1>3, <2>1 DEF HasOperators
  <1>6. ExternDestroyed' <=> ExternDestroyed
    BY DEF ExternDestroyed, vars
  <1>7. TableOK(Table)' /\ (HasOperators(Table) => HasOperators(Table)')
    BY <1>3, <1>4, <1>5 DEF TableOK, HasOperators, Has
  <1> QED BY <1>2, <1>6, <1>7 DEF LoadersInv, vars

LEMMA NetworkStep ==
    ASSUME LoadersAssumption, LoadersInv, [Next]_vars,
           \/ \E n \in Networks : Destroying(n) /\ free_loader_maps(file[n])
           \/ \E f : load_operators(f)
           \/ UNCHANGED loaders
    PROVE  LoadersInv'
  <1>1. /\ DOMAIN net' = Networks /\ DOMAIN file' = Networks
        /\ ExternDestroyed => ExternDestroyed'
    BY DestroyedStays DEF LoadersInv
  <1>2. CASE UNCHANGED loaders
    <2>1. UNCHANGED <<Table, loading, has_set_env_and_loader>>
      BY <1>2 DEF loaders, Table
    <2> QED BY <1>1, <2>1 DEF LoadersInv, TableOK, HasOperators, Has
  <1>3. ASSUME NEW f, load_operators(f) PROVE LoadersInv'
    BY <1>1, <1>3, LibraryLoads DEF LoadersInv
  <1>4. ASSUME NEW n \in Networks, Destroying(n), free_loader_maps(file[n]), UsesExtern(file[n])
        PROVE  LoadersInv'
    <2>1. Table' = [maps |-> <<>>, capacity |-> 0] /\ UNCHANGED <<loading, has_set_env_and_loader>>
      BY <1>4 DEF free_loader_maps, Set, Table
    <2>2. TableOK([maps |-> <<>>, capacity |-> 0])
      BY DEF TableOK, IsInjective, Has, Contains
    <2>3. TableOK(Table)'
      BY <2>1, <2>2 DEF TableOK, Has
    <2>4. ExternDestroyed'
      <3>1. net'[n] = "destroyed" /\ file'[n] = file[n]
        <4>1. net[n] = "loaded" /\ net'[n] = "destroyed"
          BY <1>4 DEF Destroying
        <4>2. file' = file
          BY <4>1 DEF Next, Stopped, vars, tensors, sharing, make_network, load_model, load_fails,
             get_io_tensor, out_of_memory, reset_tensor_memory, set_tensor_layout, forward,
             destroy_network, share_runtime_memroy, LoadersInv
        <4> QED BY <4>1, <4>2
      <3> QED BY <1>4, <3>1 DEF ExternDestroyed
    <2> QED BY <1>1, <2>1, <2>3, <2>4 DEF LoadersInv
  <1> QED BY <1>2, <1>3, <1>4 DEF free_loader_maps

(* No load ends in "Wrong loader.", no name in the table is spoilt, and    *)
(* the table never overflows, in whatever order networks are loaded, run   *)
(* and destroyed.                                                          *)
THEOREM LoadersAlwaysFound == LoadersAssumption /\ SpecExtern => []LoadersFound
  <1> SUFFICES ASSUME LoadersAssumption PROVE SpecExtern => []LoadersFound
    OBVIOUS
  <1>1. InitExtern => LoadersInv
    <2> SUFFICES ASSUME InitExtern PROVE LoadersInv
      OBVIOUS
    <2>1. Table = [maps |-> <<>>, capacity |-> 0]
      BY DEF InitExtern, InitLoaders, Table
    <2>2. TableOK(Table)
      BY <2>1 DEF TableOK, IsInjective, Has, Contains
    <2> QED BY <2>2 DEF InitExtern, InitLoaders, Init, LoadersInv
  <1>2. ASSUME LoadersInv, [NextExtern]_externs PROVE LoadersInv'
    <2>1. CASE UNCHANGED externs
      BY <1>2, <2>1, NetworkStep DEF externs
    <2>2. CASE Next /\ loading = "done" /\ NextExtern
      BY <1>2, <2>2, NetworkStep, OwnLoaderStep DEF NextExtern
    <2>3. ASSUME NEW name \in OwnLoaders, register_loader(name) \/ unregister_loader(name), UNCHANGED vars
          PROVE  LoadersInv'
      BY <1>2, <2>3, OwnLoaderStep
    <2> QED BY <1>2, <2>1, <2>2, <2>3 DEF NextExtern
  <1>3. LoadersInv => LoadersFound
    BY DEF LoadersInv, LoadersFound, TableOK, Table
  <1> QED BY <1>1, <1>2, <1>3, PTL DEF SpecExtern

-----------------------------------------------------------------------------
(***************************************************************************)
(* Weights.  The inductive invariant says where the loop is: the weights   *)
(* kept in the buffer end at or before current_addr, and those still to be *)
(* read begin after it.                                                    *)
(***************************************************************************)

(* Rounding, from the division of an address by the alignment.             *)
LEMMA Division ==
    ASSUME NEW a \in Nat
    PROVE  /\ a % Alignment \in 0..Alignment - 1
           /\ a \div Alignment \in Nat
           /\ a = Alignment * (a \div Alignment) + (a % Alignment)
  BY AddressAssumption

LEMMA Multiple == ASSUME NEW q \in Nat PROVE (Alignment * q) % Alignment = 0
  BY AddressAssumption

LEMMA RoundedDown ==
    ASSUME NEW a \in Nat
    PROVE  /\ RoundDown(a) \in Nat /\ RoundDown(a) <= a /\ a < RoundDown(a) + Alignment
           /\ RoundDown(a) = Alignment * (a \div Alignment)
           /\ RoundDown(a) % Alignment = 0
  <1>1. a \div Alignment \in Nat /\ RoundDown(a) = Alignment * (a \div Alignment)
    BY Division, AddressAssumption DEF RoundDown
  <1>2. (Alignment * (a \div Alignment)) % Alignment = 0
    BY <1>1, Multiple
  <1>3. RoundDown(a) \in Nat /\ RoundDown(a) <= a /\ a < RoundDown(a) + Alignment
    BY Division, AddressAssumption DEF RoundDown
  <1> QED BY <1>1, <1>2, <1>3

LEMMA RoundedUp ==
    ASSUME NEW a \in Nat
    PROVE  RoundUp(a) \in Nat /\ a <= RoundUp(a) /\ RoundUp(a) % Alignment = 0
  <1>1. a + Alignment - 1 \in Nat
    BY AddressAssumption
  <1>2. /\ RoundDown(a + Alignment - 1) \in Nat
        /\ a + Alignment - 1 < RoundDown(a + Alignment - 1) + Alignment
        /\ RoundDown(a + Alignment - 1) % Alignment = 0
    BY <1>1, RoundedDown
  <1> QED BY <1>2, AddressAssumption DEF RoundUp

(* Quotients are ordered as their multiples are.                           *)
LEMMA Quotients ==
    ASSUME NEW p \in Nat, NEW q \in Nat, Alignment * p < Alignment * q + Alignment
    PROVE  Alignment * p <= Alignment * q
  <1>1. p <= q
    BY AddressAssumption
  <1> QED BY <1>1, AddressAssumption

(* Below an aligned address there is room to round up.                     *)
LEMMA RoomToRoundUp ==
    ASSUME NEW c \in Nat, NEW o \in Nat, c <= RoundDown(o)
    PROVE  RoundUp(c) <= RoundDown(o)
  <1> DEFINE b == c + Alignment - 1
  <1>1. b \in Nat
    BY AddressAssumption
  <1>2. RoundDown(b) <= b /\ RoundDown(b) = Alignment * (b \div Alignment)
        /\ RoundDown(b) \in Nat
    BY <1>1, RoundedDown
  <1>3. RoundDown(o) = Alignment * (o \div Alignment) /\ RoundDown(o) \in Nat
    BY RoundedDown
  <1>4. o \div Alignment \in Nat /\ b \div Alignment \in Nat
    BY <1>1, Division
  <1>5. b < RoundDown(o) + Alignment
    BY AddressAssumption, <1>3
  <1>6. Alignment * (b \div Alignment) < Alignment * (o \div Alignment) + Alignment
    BY <1>1, <1>2, <1>3, <1>5, AddressAssumption
  <1>7. Alignment * (b \div Alignment) <= Alignment * (o \div Alignment)
    BY <1>4, <1>6, Quotients
  <1> QED BY <1>2, <1>3, <1>7 DEF RoundUp

-----------------------------------------------------------------------------
Typed ==
    /\ layout \in Layouts /\ share_weights \in BOOLEAN
    /\ mem \in [Buffer -> Address]
    /\ todo \subseteq Weights /\ current_addr \in Address
    /\ ptr \in [Weights -> Address \cup {Nil}]
    /\ is_shared \in [Weights -> BOOLEAN]
    /\ copy = [w \in Weights |-> copy[w]]
    /\ stage \in {"align", "done", "crash"}

(* current_addr separates what has been moved from what is still to be read. *)
Separated ==
    /\ Base <= current_addr
    /\ \A w \in todo : ptr[w] = origin[w] /\ (stage = "align" => current_addr < origin[w])
    /\ \A w \in Weights \ todo : is_shared[w] =>
         /\ ptr[w] \in Nat /\ Base <= ptr[w] /\ ptr[w] + length[w] <= current_addr
         /\ ptr[w] % Alignment = 0 /\ ~compressed(w)

Unread == \A w \in todo : \A k \in 0..length[w] - 1 : mem[origin[w] + k] = origin[w] + k
KeptIntact ==
    \A w \in Weights \ todo : is_shared[w] =>
        \A k \in 0..length[w] - 1 : mem[ptr[w] + k] = origin[w] + k
CopiedIntact ==
    \A w \in Weights \ todo : ~is_shared[w] => copy[w] = Read(File, w)

AligningInv == Typed /\ Separated /\ Unread /\ KeptIntact /\ CopiedIntact

LEMMA LayoutFacts ==
    ASSUME layout \in Layouts
    PROVE  /\ Base \in Address
           /\ \A w \in Weights : /\ origin[w] \in Address /\ length[w] \in Nat
                                 /\ layout.half[w] \in BOOLEAN
                                 /\ Base < origin[w] /\ origin[w] + length[w] <= MaxAddress
           /\ \A v, w \in Weights : v # w => \/ origin[v] + length[v] < origin[w]
                                             \/ origin[w] + length[w] < origin[v]
           /\ origin \in [Weights -> Address]
  <1>1. layout \in Layout /\ Apart(layout)
    BY LayoutsAssumption
  <1> QED BY <1>1 DEF Apart, Layout, Base, origin, length

LEMMA InitInv == InitAlign => AligningInv
  <1> SUFFICES ASSUME InitAlign PROVE AligningInv
    OBVIOUS
  <1> USE DEF InitAlign
  <1>1. layout \in Layouts
    OBVIOUS
  <1>2. /\ Base \in Address /\ origin \in [Weights -> Address]
        /\ \A w \in Weights : Base < origin[w] /\ origin[w] \in Address /\ length[w] \in Nat
                              /\ origin[w] + length[w] <= MaxAddress
    BY <1>1, LayoutFacts
  <1>3. Typed
    BY <1>1, <1>2, AddressAssumption DEF Typed, Buffer, Address
  <1>4. Separated
    BY <1>2, AddressAssumption DEF Separated, Address
  <1>5. Unread
    BY <1>2, AddressAssumption DEF Unread, Buffer, Address
  <1> QED BY <1>3, <1>4, <1>5 DEF AligningInv, KeptIntact, CopiedIntact

(* What a weight still to be read has in the buffer is what the file has.  *)
LEMMA ReadIsFile ==
    ASSUME AligningInv, NEW w \in todo
    PROVE  Read(mem, w) = Read(File, w)
           /\ Bytes(mem, origin[w], length[w]) = Bytes(File, origin[w], length[w])
  <1>1. /\ w \in Weights /\ origin[w] \in Nat /\ length[w] \in Nat /\ Base \in Nat
        /\ Base < origin[w] /\ origin[w] + length[w] <= MaxAddress /\ MaxAddress \in Nat
    BY LayoutFacts, AddressAssumption DEF AligningInv, Typed, Address
  <1>2. \A k \in 0..length[w] - 1 : mem[origin[w] + k] = File[origin[w] + k]
    BY <1>1 DEF AligningInv, Unread, File, Buffer
  <1>3. Bytes(mem, origin[w], length[w]) = Bytes(File, origin[w], length[w])
    BY <1>2 DEF Bytes
  <1>4. Halves(mem, origin[w], length[w]) = Halves(File, origin[w], length[w])
    <2>1. \A k \in 0..(length[w] \div 2) - 1 :
            2 * k \in 0..length[w] - 1 /\ 2 * k + 1 \in 0..length[w] - 1
      BY <1>1
    <2>2. \A k \in 0..(length[w] \div 2) - 1 :
            /\ mem[origin[w] + 2 * k] = File[origin[w] + 2 * k]
            /\ mem[origin[w] + 2 * k + 1] = File[origin[w] + 2 * k + 1]
      <3> SUFFICES ASSUME NEW k \in 0..(length[w] \div 2) - 1
                   PROVE  /\ mem[origin[w] + 2 * k] = File[origin[w] + 2 * k]
                          /\ mem[origin[w] + 2 * k + 1] = File[origin[w] + 2 * k + 1]
        OBVIOUS
      <3>1. mem[origin[w] + (2 * k)] = File[origin[w] + (2 * k)]
        BY <1>2, <2>1
      <3>2. mem[origin[w] + (2 * k + 1)] = File[origin[w] + (2 * k + 1)]
        BY <1>2, <2>1
      <3>3. origin[w] + (2 * k + 1) = origin[w] + 2 * k + 1
        BY <1>1
      <3> QED BY <3>1, <3>2, <3>3
    <2> QED BY <2>2 DEF Halves
  <1> QED BY <1>3, <1>4 DEF Read

LEMMA AllocInv ==
    ASSUME AligningInv, NEW w \in Weights, alloc_weight(w)
    PROVE  AligningInv'
  <1>1. /\ w \in todo /\ stage = "align" /\ layout' = layout /\ share_weights' = share_weights
        /\ mem' = mem /\ current_addr' = current_addr /\ todo' = todo \ {w}
        /\ ptr' = [ptr EXCEPT ![w] = Nil]
        /\ is_shared' = [is_shared EXCEPT ![w] = FALSE]
        /\ copy' = [copy EXCEPT ![w] = Read(mem, w)]
    BY DEF alloc_weight, NextWeight
  <1>2. stage' = "align"
    BY <1>1 DEF alloc_weight, TINYNN_ASSERT, Ahead, AligningInv, Separated
  <1>3. Typed'
    <2>1. copy' = [v \in Weights |-> copy'[v]]
      BY <1>1 DEF AligningInv, Typed
    <2> QED BY <2>1, <1>1, <1>2 DEF AligningInv, Typed, Buffer, Base
  <1>4. Separated'
    BY <1>1, <1>2 DEF AligningInv, Typed, Separated, Base, origin, length, compressed
  <1>5. Unread'
    BY <1>1 DEF AligningInv, Unread, origin, length
  <1>6. KeptIntact'
    BY <1>1 DEF AligningInv, Typed, KeptIntact, origin, length
  <1>7. CopiedIntact'
    <2>1. Read(mem, w) = Read(File, w)
      BY <1>1, ReadIsFile
    <2>2. \A v \in Weights \ todo' : v # w =>
            v \notin todo /\ is_shared'[v] = is_shared[v] /\ copy'[v] = copy[v]
      BY <1>1 DEF AligningInv, Typed
    <2>3. copy'[w] = Read(mem, w)
      BY <1>1 DEF AligningInv, Typed
    <2>4. \A v \in Weights \ todo' : ~is_shared'[v] => copy'[v] = Read(File, v)
      BY <2>1, <2>2, <2>3 DEF AligningInv, CopiedIntact
    <2>5. \A v : Read(File, v)' = Read(File, v)
      BY <1>1 DEF Read, File, compressed, length, origin, Bytes, Halves, Buffer, Base
    <2> QED BY <2>4, <2>5 DEF CopiedIntact
  <1> QED BY <1>3, <1>4, <1>5, <1>6, <1>7 DEF AligningInv

(* Where align_weight(w) puts w, and what that leaves alone.               *)
LEMMA NewPlace ==
    ASSUME AligningInv, NEW w \in Weights, NextWeight(w), Keeps(w)
    PROVE  /\ alignment_addr(w) = RoundUp(current_addr)
           /\ alignment_addr(w) \in Nat /\ alignment_addr(w) % Alignment = 0
           /\ current_addr <= alignment_addr(w) /\ alignment_addr(w) <= origin[w]
           /\ Base <= alignment_addr(w) /\ Base \in Nat /\ current_addr \in Nat
           /\ origin[w] \in Nat /\ length[w] \in Nat /\ MaxAddress \in Nat
           /\ alignment_addr(w) + length[w] <= MaxAddress
           /\ \A v \in todo \ {w} : alignment_addr(w) + length[w] < origin[v]
  <1>1. /\ current_addr \in Nat /\ origin[w] \in Nat /\ length[w] \in Nat
        /\ MaxAddress \in Nat /\ Base \in Nat /\ Base <= current_addr /\ w \in todo
        /\ origin[w] + length[w] <= MaxAddress
    BY LayoutFacts, AddressAssumption DEF AligningInv, Typed, Separated, Address, NextWeight
  <1>2. RoundUp(current_addr) <= RoundDown(origin[w])
    BY <1>1, RoomToRoundUp DEF Keeps
  <1>3. /\ RoundUp(current_addr) \in Nat /\ current_addr <= RoundUp(current_addr)
        /\ RoundUp(current_addr) % Alignment = 0
        /\ RoundDown(origin[w]) \in Nat /\ RoundDown(origin[w]) <= origin[w]
    BY <1>1, RoundedUp, RoundedDown
  <1>4. alignment_addr(w) = RoundUp(current_addr)
    BY <1>2, <1>3 DEF alignment_addr, more_fit_addr
  <1>5. \A v \in todo \ {w} : origin[w] + length[w] < origin[v]
    <2> SUFFICES ASSUME NEW v \in todo \ {w} PROVE origin[w] + length[w] < origin[v]
      OBVIOUS
    <2>1. v \in Weights /\ origin[v] \in Nat /\ length[v] \in Nat /\ origin[w] <= origin[v]
      BY LayoutFacts, AddressAssumption DEF AligningInv, Typed, Address, NextWeight
    <2>2. \/ origin[v] + length[v] < origin[w]
          \/ origin[w] + length[w] < origin[v]
      BY <2>1, LayoutFacts DEF AligningInv, Typed
    <2> QED BY <1>1, <2>1, <2>2
  <1>6. \A v \in todo \ {w} : origin[v] \in Nat
    BY LayoutFacts, AddressAssumption DEF AligningInv, Typed, Address
  <1> QED BY <1>1, <1>2, <1>3, <1>4, <1>5, <1>6

LEMMA AlignInv ==
    ASSUME AligningInv, NEW w \in Weights, align_weight(w)
    PROVE  AligningInv'
  <1> DEFINE d == alignment_addr(w)
             n == length[w]
             o == origin[w]
  <1>1. /\ NextWeight(w) /\ Keeps(w) /\ w \in todo /\ stage = "align"
        /\ layout' = layout /\ share_weights' = share_weights /\ copy' = copy
        /\ mem' = Moved(mem, d, o, n) /\ current_addr' = d + n /\ todo' = todo \ {w}
        /\ ptr' = [ptr EXCEPT ![w] = d] /\ is_shared' = [is_shared EXCEPT ![w] = TRUE]
    BY DEF align_weight, NextWeight, new_addr
  <1>2. /\ d \in Nat /\ d % Alignment = 0 /\ current_addr <= d /\ d <= o
        /\ Base <= d /\ Base \in Nat /\ current_addr \in Nat
        /\ o \in Nat /\ n \in Nat /\ MaxAddress \in Nat /\ d + n <= MaxAddress
        /\ \A v \in todo \ {w} : d + n < origin[v]
    BY <1>1, NewPlace
  <1>3. o + n <= MaxAddress /\ Base < o /\ ~compressed(w)
    BY <1>1, LayoutFacts DEF AligningInv, Typed, Keeps
  <1>4. stage' = "align"
    BY <1>1, <1>2 DEF align_weight, TINYNN_ASSERT, Ahead, AligningInv, Separated
  <1>5. /\ mem \in [Buffer -> Address] /\ Buffer = Base..MaxAddress
        /\ mem' = [b \in Buffer |-> IF d <= b /\ b < d + n THEN mem[b - d + o] ELSE mem[b]]
    BY <1>1 DEF AligningInv, Typed, Moved, Buffer
  <1>6. UNCHANGED <<Buffer, Base, origin, length>> /\ \A v : compressed(v)' = compressed(v)
    BY <1>1 DEF Buffer, Base, origin, length, compressed
  <1> HIDE DEF d, n, o
  <1>7. \A k \in 0..n - 1 : mem'[d + k] = o + k
    <2> SUFFICES ASSUME NEW k \in 0..n - 1 PROVE mem'[d + k] = o + k
      OBVIOUS
    <2>1. d + k \in Buffer /\ d <= d + k /\ d + k < d + n /\ (d + k) - d + o = o + k
      BY <1>2, <1>5
    <2>2. mem'[d + k] = mem[o + k]
      BY <2>1, <1>5
    <2>3. mem[o + k] = o + k
      BY <1>1 DEF AligningInv, Unread, o, n
    <2> QED BY <2>2, <2>3
  <1>8. \A b \in Buffer : b < d \/ d + n <= b => mem'[b] = mem[b]
    BY <1>2, <1>5
  <1>9. Typed'
    <2>1. mem' \in [Buffer -> Address]
      <3> SUFFICES ASSUME NEW b \in Buffer, d <= b, b < d + n
                   PROVE  mem[b - d + o] \in Address
        BY <1>5
      <3>1. b - d + o \in Buffer
        BY <1>2, <1>3, <1>5
      <3> QED BY <3>1, <1>5
    <2>2. d \in Address /\ d + n \in Address
      BY <1>2 DEF Address
    <2>3. ptr' \in [Weights -> Address \cup {Nil}] /\ is_shared' \in [Weights -> BOOLEAN]
      BY <1>1, <2>2 DEF AligningInv, Typed
    <2> QED BY <2>1, <2>2, <2>3, <1>1, <1>4, <1>6 DEF AligningInv, Typed
  <1>10. \A v \in Weights \ todo' : v # w =>
           v \in Weights \ todo /\ ptr'[v] = ptr[v] /\ is_shared'[v] = is_shared[v]
    BY <1>1 DEF AligningInv, Typed
  <1>11. w \in Weights \ todo' /\ ptr'[w] = d /\ is_shared'[w] = TRUE
    BY <1>1 DEF AligningInv, Typed
  <1>12. \A v \in Weights \ todo : is_shared[v] =>
           /\ ptr[v] \in Nat /\ length[v] \in Nat /\ Base <= ptr[v]
           /\ ptr[v] + length[v] <= current_addr /\ ptr[v] % Alignment = 0 /\ ~compressed(v)
    BY LayoutFacts DEF AligningInv, Typed, Separated
  <1>13. Separated'
    <2>1. Base <= d + n
      BY <1>2
    <2>2. \A v \in todo' : ptr'[v] = origin[v] /\ d + n < origin[v]
      BY <1>1, <1>2 DEF AligningInv, Typed, Separated
    <2>3. \A v \in Weights \ todo' : is_shared'[v] =>
            /\ ptr'[v] \in Nat /\ Base <= ptr'[v] /\ ptr'[v] + length[v] <= d + n
            /\ ptr'[v] % Alignment = 0 /\ ~compressed(v)
      <3> SUFFICES ASSUME NEW v \in Weights \ todo', is_shared'[v]
                   PROVE  /\ ptr'[v] \in Nat /\ Base <= ptr'[v]
                          /\ ptr'[v] + length[v] <= d + n
                          /\ ptr'[v] % Alignment = 0 /\ ~compressed(v)
        OBVIOUS
      <3>1. CASE v = w
        BY <3>1, <1>2, <1>3, <1>11 DEF n
      <3>2. CASE v # w
        <4>1. /\ ptr'[v] = ptr[v] /\ ptr[v] \in Nat /\ length[v] \in Nat /\ Base <= ptr[v]
              /\ ptr[v] + length[v] <= current_addr /\ ptr[v] % Alignment = 0
              /\ ~compressed(v)
          BY <3>2, <1>10, <1>12
        <4> QED BY <4>1, <1>2
      <3> QED BY <3>1, <3>2
    <2> QED BY <2>1, <2>2, <2>3, <1>1, <1>6 DEF Separated
  <1>14. Unread'
    <2> SUFFICES ASSUME NEW v \in todo', NEW k \in 0..length[v] - 1
                 PROVE  mem'[origin[v] + k] = origin[v] + k
      BY <1>6 DEF Unread
    <2>1. v \in todo \ {w} /\ v \in Weights
      BY <1>1 DEF AligningInv, Typed
    <2>2. /\ origin[v] \in Nat /\ length[v] \in Nat /\ Base < origin[v]
          /\ origin[v] + length[v] <= MaxAddress
      BY <2>1, LayoutFacts, AddressAssumption DEF AligningInv, Typed, Address
    <2>3. origin[v] + k \in Buffer /\ d + n <= origin[v] + k
      BY <2>1, <2>2, <1>2, <1>5
    <2>4. mem[origin[v] + k] = origin[v] + k
      BY <2>1 DEF AligningInv, Unread
    <2> QED BY <2>3, <2>4, <1>8
  <1>15. KeptIntact'
    <2> SUFFICES ASSUME NEW v \in Weights \ todo', is_shared'[v],
                        NEW k \in 0..length[v] - 1
                 PROVE  mem'[ptr'[v] + k] = origin[v] + k
      BY <1>6 DEF KeptIntact
    <2>1. CASE v = w
      BY <2>1, <1>7, <1>11 DEF n, o
    <2>2. CASE v # w
      <3>1. /\ v \in Weights \ todo /\ is_shared[v] /\ ptr'[v] = ptr[v]
            /\ ptr[v] \in Nat /\ length[v] \in Nat /\ Base <= ptr[v]
            /\ ptr[v] + length[v] <= current_addr
        BY <2>2, <1>10, <1>12
      <3>2. ptr[v] + k \in Buffer /\ ptr[v] + k < d
        BY <3>1, <1>2, <1>5
      <3>3. mem[ptr[v] + k] = origin[v] + k
        BY <3>1 DEF AligningInv, KeptIntact
      <3> QED BY <3>1, <3>2, <3>3, <1>8
    <2> QED BY <2>1, <2>2
  <1>16. CopiedIntact'
    <2>1. \A v : Read(File, v)' = Read(File, v)
      BY <1>1 DEF Read, File, compressed, length, origin, Bytes, Halves, Buffer, Base
    <2> QED BY <2>1, <1>1, <1>10, <1>11 DEF AligningInv, CopiedIntact
  <1> QED BY <1>9, <1>13, <1>14, <1>15, <1>16 DEF AligningInv

LEMMA NextInv == AligningInv /\ [NextAlign]_aligning => AligningInv'
  <1> SUFFICES ASSUME AligningInv, [NextAlign]_aligning PROVE AligningInv'
    OBVIOUS
  <1>1. ASSUME NEW w \in Weights, alloc_weight(w) PROVE AligningInv'
    BY <1>1, AllocInv
  <1>2. ASSUME NEW w \in Weights, align_weight(w) PROVE AligningInv'
    BY <1>2, AlignInv
  <1>3. ASSUME stage' \in {"done", "crash"}, 
               UNCHANGED <<layout, share_weights, mem, todo, current_addr, ptr, is_shared, copy>>
        PROVE  AligningInv'
    BY <1>3 DEF AligningInv, Typed, Separated, Unread, KeptIntact, CopiedIntact, Buffer, Base,
       origin, length, compressed, Read, File, Bytes, Halves
  <1>4. ASSUME NEW w \in Weights, alloc_fails(w) PROVE AligningInv'
    BY <1>3, <1>4 DEF alloc_fails
  <1>5. CASE all_aligned
    BY <1>3, <1>5 DEF all_aligned
  <1>6. CASE UNCHANGED aligning
    BY <1>6 DEF aligning, AligningInv, Typed, Separated, Unread, KeptIntact, CopiedIntact, Buffer, Base,
       origin, length, compressed, Read, File, Bytes, Halves
  <1> QED BY <1>1, <1>2, <1>4, <1>5, <1>6 DEF NextAlign, AlignStopped

LEMMA InvHolds == SpecAlign => []AligningInv
  BY InitInv, NextInv, PTL DEF SpecAlign

-----------------------------------------------------------------------------
(* Every variable of the loop keeps its type: no address leaves the buffer. *)
THEOREM AligningTypeCorrect == SpecAlign => []TypeOKAlign
  <1>1. AligningInv => TypeOKAlign
    BY DEF AligningInv, Typed, TypeOKAlign
  <1> QED BY <1>1, InvHolds, PTL

(* No move overwrites a weight: each holds what the file says.             *)
THEOREM WeightsAlwaysIntact == SpecAlign => []WeightsIntact
  <1>1. ASSUME AligningInv PROVE WeightsIntact
    <2>1. \A w \in todo : /\ ptr[w] = origin[w]
                          /\ Bytes(mem, origin[w], length[w]) = Bytes(File, origin[w], length[w])
      BY <1>1, ReadIsFile DEF AligningInv, Separated
    <2>2. ASSUME NEW w \in Weights \ todo PROVE Holds(w) = Read(File, w)
      <3>1. CASE ~is_shared[w]
        BY <1>1, <3>1 DEF AligningInv, CopiedIntact, Holds
      <3>2. CASE is_shared[w]
        <4>1. /\ \A k \in 0..length[w] - 1 : mem[ptr[w] + k] = origin[w] + k
              /\ ~compressed(w)
          BY <1>1, <3>2 DEF AligningInv, KeptIntact, Separated
        <4>2. /\ origin[w] \in Nat /\ length[w] \in Nat /\ Base \in Nat
              /\ Base < origin[w] /\ origin[w] + length[w] <= MaxAddress /\ MaxAddress \in Nat
          BY <1>1, LayoutFacts, AddressAssumption DEF AligningInv, Typed, Address
        <4>3. \A k \in 0..length[w] - 1 : File[origin[w] + k] = origin[w] + k
          BY <4>2 DEF File, Buffer
        <4>4. Bytes(mem, ptr[w], length[w]) = Bytes(File, origin[w], length[w])
          BY <4>1, <4>3 DEF Bytes
        <4> QED BY <3>2, <4>1, <4>4 DEF Holds, Read
      <3> QED BY <3>1, <3>2
    <2> QED BY <2>1, <2>2 DEF WeightsIntact
  <1> QED BY <1>1, InvHolds, PTL

(* A weight that stays in the buffer is aligned, and inside the buffer.    *)
THEOREM SharedAlwaysAligned == SpecAlign => []SharedAligned
  <1>1. ASSUME AligningInv PROVE SharedAligned
    BY <1>1, LayoutFacts, AddressAssumption
       DEF AligningInv, Typed, Separated, SharedAligned, Buffer, Address
  <1> QED BY <1>1, InvHolds, PTL

(* Neither assertion of the loop ever fails.                               *)
THEOREM AligningNeverAsserts == SpecAlign => []AlignNeverAsserts
  <1>1. AligningInv => AlignNeverAsserts
    BY DEF AligningInv, Typed, AlignNeverAsserts
  <1> QED BY <1>1, InvHolds, PTL
=============================================================================

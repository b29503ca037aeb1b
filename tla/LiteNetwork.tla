---------------------------- MODULE LiteNetwork ----------------------------
(***************************************************************************)
(* The life of networks in the LITE interface of the TinyNN runtime        *)
(* (runtime/src/lite/network.c, tensor.c; init_model_memory() of init.c;   *)
(* parse_model() of parse.c): who owns the runtime memory of a network,    *)
(* who shares it, how long it is and who frees it, whatever the order in   *)
(* which a client makes its calls.                                         *)
(*                                                                         *)
(* A network is made, loaded and destroyed once.  The Memory object that   *)
(* parse_model() makes for a network has the name of the network.          *)
(***************************************************************************)
EXTENDS Integers, Sequences

CONSTANTS
    Networks,
    Files,          \* models to load, see IsFile
    SharesEarly,    \* TRUE: clients share memory only while no other network
                    \* that shares either of the two memories has used it
    OrphansRest,    \* TRUE: when the owner of a memory was destroyed, or shares
                    \* another one, clients no longer run or share the networks
                    \* that shared it; they may destroy them
    ChecksLoad      \* TRUE: clients give up a network that failed to load

(* For each device model of a file the memory of its tensors, and whether  *)
(* it has an input.                                                        *)
IsFile(f) ==
    /\ f = [memory |-> f.memory, input |-> f.input]
    /\ f.memory \in Seq(Nat \ {0}) /\ f.memory # <<>>
    /\ f.input \in [DOMAIN f.memory -> BOOLEAN]

ASSUME FilesAssumption == \A f \in Files : IsFile(f)
ASSUME ClientAssumption == {SharesEarly, OrphansRest, ChecksLoad} \subseteq BOOLEAN

VARIABLES
    net,                \* what has become of each network
    file,               \* the device models of a network that is loaded
    max_tensor_memroy,  \* the name of a Memory
    is_own_tensor_memory,
    have_init,
    active_device_model_idx,
    input,              \* whether the input of each device model has a ptr
    memory,             \* the Memory objects
    status              \* "run"; "abort", an assertion failed; what happens when
                        \* "undefined", memory that was freed is used;
                        \* "overrun", memory that is too small is

tensors == <<active_device_model_idx, input>>
sharing == <<max_tensor_memroy, is_own_tensor_memory>>
vars == <<net, file, sharing, have_init, tensors, memory, status>>

NoModels == [memory |-> <<>>, input |-> <<>>]
DeviceModels(n) == DOMAIN file[n].memory
Loaded(n) == status = "run" /\ net[n] = "loaded"

(* A Memory, and the block that its ptr points to; both may have been freed.*)
States == {"none", "live", "freed"}
Memory == [object : States, length_in_byte : Nat, block : States, size : Nat]
NewMemory(s) == [object |-> "live", length_in_byte |-> s, block |-> "none", size |-> 0]
NoMemory == [object |-> "none", length_in_byte |-> 0, block |-> "none", size |-> 0]
max_tensor_size(f, s) == \A m \in DOMAIN f.memory : f.memory[m] <= s

-----------------------------------------------------------------------------
Init ==
    /\ net = [n \in Networks |-> "none"]
    /\ file = [n \in Networks |-> NoModels]
    /\ max_tensor_memroy = [n \in Networks |-> n]
    /\ is_own_tensor_memory = [n \in Networks |-> FALSE]
    /\ have_init = [n \in Networks |-> FALSE]
    /\ active_device_model_idx = [n \in Networks |-> 1]
    /\ input = [n \in Networks |-> <<>>]
    /\ memory = [n \in Networks |-> NoMemory]
    /\ status = "run"

make_network(n) ==
    /\ status = "run" /\ net[n] = "none"
    /\ net' = [net EXCEPT ![n] = "made"]
    /\ UNCHANGED <<file, sharing, have_init, tensors, memory, status>>

load_model(n, f) ==
    /\ status = "run" /\ net[n] = "made"
    /\ net' = [net EXCEPT ![n] = "loaded"]
    /\ file' = [file EXCEPT ![n] = f]
    /\ max_tensor_memroy' = [max_tensor_memroy EXCEPT ![n] = n]
    /\ is_own_tensor_memory' = [is_own_tensor_memory EXCEPT ![n] = TRUE]
    /\ active_device_model_idx' = [active_device_model_idx EXCEPT ![n] = 1]
    /\ input' = [input EXCEPT ![n] = [m \in DOMAIN f.memory |-> FALSE]]
    /\ \E m \in DOMAIN f.memory :
         /\ max_tensor_size(f, f.memory[m])
         /\ memory' = [memory EXCEPT ![n] = NewMemory(f.memory[m])]
    /\ UNCHANGED <<have_init, status>>

(* parse_model() fails on an instruction that the runtime was built        *)
(* without: it frees all that it made, and leaves the pointers to it.      *)
load_fails(n) ==
    /\ status = "run" /\ net[n] = "made"
    /\ net' = [net EXCEPT ![n] = "broken"]
    /\ UNCHANGED <<file, sharing, have_init, tensors, memory, status>>

(* Slips: the length stays that of the source; the Memory that the         *)
(* destination had of its own is not freed.                                *)
length_of_source(s, d) == memory[max_tensor_memroy[s]].length_in_byte
without_freeing(d) == memory

shared_length(s, d) ==
    IF memory[max_tensor_memroy[s]].length_in_byte > memory[max_tensor_memroy[d]].length_in_byte
    THEN memory[max_tensor_memroy[s]].length_in_byte
    ELSE memory[max_tensor_memroy[d]].length_in_byte
own_memory_freed(d) ==
    IF is_own_tensor_memory[d] THEN [memory EXCEPT ![max_tensor_memroy[d]].object = "freed"]
                               ELSE memory

(* The client's part.  A source that shares the Memory which the           *)
(* destination gives up has none to share.                                 *)
Owner(k) == net[k] = "loaded" /\ is_own_tensor_memory[k]
HasOwner(n) == Owner(max_tensor_memroy[n])
MayUse(n) == OrphansRest => HasOwner(n)
MayShare(s, d) ==
    /\ SharesEarly /\ ~have_init[s] /\ ~have_init[d] =>
         /\ memory[max_tensor_memroy[s]].block = "none"
         /\ memory[max_tensor_memroy[d]].block = "none"
    /\ OrphansRest /\ is_own_tensor_memory[d] => max_tensor_memroy[s] # max_tensor_memroy[d]
    /\ MayUse(s) /\ MayUse(d)

(* The lengths are read before the Memory of the destination is freed.     *)
share_runtime_memroy(s, d) ==
    /\ Loaded(s) /\ Loaded(d) /\ MayShare(s, d)
    /\ IF have_init[s] \/ have_init[d]
       THEN status' = "abort" /\ UNCHANGED <<sharing, memory>>
       ELSE LET k == max_tensor_memroy[s] IN
            /\ status' = IF /\ memory[max_tensor_memroy[d]].object = "live"
                            /\ own_memory_freed(d)[k].object = "live" THEN "run" ELSE "undefined"
            /\ max_tensor_memroy' = [max_tensor_memroy EXCEPT ![d] = k]
            /\ is_own_tensor_memory' = [is_own_tensor_memory EXCEPT ![d] = FALSE]
            /\ memory' = [own_memory_freed(d) EXCEPT ![k].length_in_byte = shared_length(s, d)]
    /\ UNCHANGED <<net, file, have_init, tensors>>

(* init_model_memory(): the tensors get addresses in the block, which the  *)
(* first network that shares it obtains.  A slip does it again every time. *)
always(n) == TRUE
needs_init(n) == ~have_init[n]
init_model_memory(n) ==
    LET k == max_tensor_memroy[n] IN
    IF ~needs_init(n) THEN UNCHANGED <<have_init, input, memory>>
    ELSE /\ have_init' = [have_init EXCEPT ![n] = TRUE]
         /\ input' = [input EXCEPT ![n] = [m \in DeviceModels(n) |-> FALSE]]
         /\ memory' = IF memory[k].block # "none" THEN memory
                      ELSE [memory EXCEPT ![k].block = "live",
                                          ![k].size = memory[k].length_in_byte]

(* The tensors of n lie in memory that is there, and large enough.         *)
BlockLives(n) ==
    LET k == max_tensor_memroy[n] IN memory[k].object = "live" /\ memory[k].block = "live"
BlockHolds(n) ==
    \A m \in DeviceModels(n) : file[n].memory[m] <= memory[max_tensor_memroy[n]].size

get_io_tensor(n) ==
    /\ Loaded(n) /\ MayUse(n)
    /\ init_model_memory(n)
    /\ UNCHANGED <<net, file, sharing, active_device_model_idx>>
    /\ status' = IF needs_init(n) /\ memory[max_tensor_memroy[n]].object # "live"
                 THEN "undefined" ELSE "run"

(* malloc() gives init_model_memory() no block: its assertion fails.       *)
out_of_memory(n) ==
    /\ Loaded(n) /\ MayUse(n) /\ needs_init(n) /\ memory[max_tensor_memroy[n]].block = "none"
    /\ status' = "abort"
    /\ UNCHANGED <<net, file, sharing, have_init, tensors, memory>>

(* The client has a tensor from get_io_tensor().  It finds the device      *)
(* model by the layout; a slip looks at one too many.                      *)
layouts_past_end(n) == 1..Len(file[n].memory) + 1
layouts(n) == DeviceModels(n)
set_tensor_layout(n, m) ==
    /\ Loaded(n) /\ have_init[n] /\ m \in layouts(n)
    /\ active_device_model_idx' = [active_device_model_idx EXCEPT ![n] = m]
    /\ UNCHANGED <<net, file, sharing, have_init, input, memory, status>>

reset_tensor_memory(n) ==
    /\ Loaded(n) /\ have_init[n] /\ file[n].input[active_device_model_idx[n]]
    /\ input' = [input EXCEPT ![n][active_device_model_idx[n]] = TRUE]
    /\ UNCHANGED <<net, file, sharing, have_init, active_device_model_idx, memory, status>>

(* The instructions of the active device model are run; its input, if it   *)
(* has one, was set by the client.                                         *)
forward(n) ==
    /\ Loaded(n) /\ MayUse(n)
    /\ file[n].input[active_device_model_idx[n]] => input[n][active_device_model_idx[n]]
    /\ init_model_memory(n)
    /\ UNCHANGED <<net, file, sharing, active_device_model_idx>>
    /\ status' = IF ~BlockLives(n)' THEN "undefined" ELSE IF BlockHolds(n)' THEN "run" ELSE "overrun"

(* LITE_destroy_network(): the owner of a memory frees it.  After a load   *)
(* that failed all pointers are to memory that was freed.                  *)
frees_whatever_it_uses(n) == net[n] = "loaded"      \* a slip
frees_memory(n) == net[n] = "loaded" /\ is_own_tensor_memory[n]
destroy_network(n) ==
    /\ status = "run" /\ net[n] \in {"made", "loaded", "broken"}
    /\ net[n] = "broken" => ~ChecksLoad
    /\ net' = [net EXCEPT ![n] = "destroyed"]
    /\ LET k == max_tensor_memroy[n] IN
       IF ~frees_memory(n)
       THEN status' = (IF net[n] = "broken" THEN "undefined" ELSE "run") /\ memory' = memory
       ELSE /\ status' = IF memory[k].object = "live" /\ memory[k].block # "freed"
                         THEN "run" ELSE "undefined"
            /\ memory' = [memory EXCEPT ![k].object = "freed",
                                        ![k].block = IF @ = "live" THEN "freed" ELSE @]
    /\ UNCHANGED <<file, sharing, have_init, tensors>>

Stopped == (status # "run" \/ \A n \in Networks : net[n] \in {"broken", "destroyed"}) /\ UNCHANGED vars

Next ==
    \/ \E n \in Networks :
         \/ make_network(n) \/ load_fails(n) \/ (\E f \in Files : load_model(n, f))
         \/ get_io_tensor(n) \/ out_of_memory(n)
         \/ reset_tensor_memory(n) \/ (\E m \in layouts(n) : set_tensor_layout(n, m))
         \/ forward(n) \/ destroy_network(n)
    \/ \E s, d \in Networks : share_runtime_memroy(s, d)
    \/ Stopped

Spec == Init /\ [][Next]_vars
-----------------------------------------------------------------------------
(* Each variable has its type: the device model that is active is one of   *)
(* the network (network.c:43-45 indexes with it).                          *)
TypeOK ==
    /\ net \in [Networks -> {"none", "made", "loaded", "broken", "destroyed"}]
    /\ file \in [Networks -> Files \cup {NoModels}]
    /\ max_tensor_memroy \in [Networks -> Networks]
    /\ is_own_tensor_memory \in [Networks -> BOOLEAN]
    /\ have_init \in [Networks -> BOOLEAN]
    /\ active_device_model_idx \in [Networks -> Nat] /\ DOMAIN input = Networks
    /\ memory \in [Networks -> Memory]
    /\ status \in {"run", "abort", "undefined", "overrun"}
    /\ \A n \in Networks :
         /\ net[n] = "loaded" => file[n] \in Files
         /\ file[n] \in Files => active_device_model_idx[n] \in DeviceModels(n)
         /\ input[n] \in [DeviceModels(n) -> BOOLEAN]

(* As long as the owner of its memory is there, the tensors of a network   *)
(* that was initialized lie in a block that was not freed and that is      *)
(* large enough for each of its device models, whatever networks shared    *)
(* it, grew it or were destroyed (the offsets of init.c:470 are into that  *)
(* block).                                                                 *)
RuntimeMemorySafe ==
    \A n \in Networks : Loaded(n) /\ have_init[n] /\ HasOwner(n) => BlockLives(n) /\ BlockHolds(n)

(* No call uses a Memory, a block or a network that was freed, or frees it *)
(* again, in whatever order networks that share memory are destroyed.      *)
NothingFreedIsUsed == status # "undefined"

(* When every network is destroyed (or failed to load), every Memory and   *)
(* every block was freed: sharing leaves none without an owner             *)
(* (network.c:294-298, 324-330).                                           *)
NothingLeaks ==
    status = "run" /\ (\A n \in Networks : net[n] # "loaded") =>
        \A k \in Networks : memory[k].object # "live" /\ memory[k].block # "live"

(* An input that the client has set stays set: neither looking up a tensor *)
(* again, nor running, nor another layout takes it away (init.c:442).      *)
InputsKept ==
    [][\A n \in Networks : Loaded(n) => \A m \in DeviceModels(n) : input[n][m] => input'[n][m]]_vars
=============================================================================

----------------------------- MODULE LiteExtern -----------------------------
(***************************************************************************)
(* The loaders of external operators (vm/extern_opr.c), beside the life of *)
(* networks (LiteNetwork).  There is one table of loaders for all networks *)
(* of a process.  The first network with an external operator that is      *)
(* loaded opens its library, which registers loaders; later ones do not.   *)
(* Destroying a network with an external operator empties the table.       *)
(***************************************************************************)
EXTENDS LiteNetwork, FiniteSets, SequencesExt

CONSTANTS
    Operators,      \* the external operators of a file
    Library,        \* the loaders that the library of a file registers
    OwnLoaders,     \* loaders that clients register themselves
    LoadersKept,    \* TRUE: clients load no network with external operators
                    \* after one was destroyed
    TakesLast       \* TRUE: clients only unregister the last loader

ASSUME ExternAssumption ==
    /\ {Operators, Library} \subseteq [Files -> Seq(STRING)] /\ OwnLoaders \subseteq STRING
    /\ {LoadersKept, TakesLast} \subseteq BOOLEAN

VARIABLES
    loader_maps,            \* the names in the table
    capacity,
    has_set_env_and_loader,
    loading                 \* "done"; "wrong loader", an assertion; "undefined"

loaders == <<loader_maps, capacity, has_set_env_and_loader, loading>>
externs == <<vars, loaders>>
Spoilt == "spoilt"          \* a name that is no pointer to a string any more
UsesExtern(f) == f \in Files /\ Operators[f] # <<>>

-----------------------------------------------------------------------------
InitLoaders ==
    /\ loader_maps = <<>> /\ capacity = 0
    /\ has_set_env_and_loader = FALSE /\ loading = "done"

Table == [maps |-> loader_maps, capacity |-> capacity]
Has(t, name) == Contains(t.maps, name)

(* insert_loader(): the table doubles.  A slip: it stays as large as it is.*)
stays(t) == IF t.capacity = 0 THEN 2 ELSE t.capacity
grown(t) ==
    IF t.capacity = 0 THEN 2 ELSE IF Len(t.maps) >= t.capacity THEN 2 * t.capacity ELSE t.capacity
insert_loader(t, name) ==
    IF Has(t, name) THEN t
    ELSE [maps |-> Append(t.maps, name), capacity |-> grown(t)]

(* delete_loader(): as many BYTES are moved down as there are entries      *)
(* behind, so that the name is spoilt unless it is the last.               *)
delete_loader(t, name) ==
    IF ~Has(t, name) THEN t
    ELSE LET i == CHOOSE i \in DOMAIN t.maps : t.maps[i] = name
         IN  [t EXCEPT !.maps = Front(IF i < Len(@) THEN [@ EXCEPT ![i] = Spoilt] ELSE @)]
Searched(t) == IF Has(t, Spoilt) THEN "undefined" ELSE "done"

Set(t) == loader_maps' = t.maps /\ capacity' = t.capacity

register_loader(name) ==
    /\ loading = "done" /\ loading' = Searched(Table) /\ Set(insert_loader(Table, name))
    /\ UNCHANGED has_set_env_and_loader

unregister_loader(name) ==
    /\ loading = "done" /\ loading' = Searched(Table)
    /\ TakesLast => loader_maps # <<>> /\ Last(loader_maps) = name
    /\ Set(delete_loader(Table, name))
    /\ UNCHANGED has_set_env_and_loader

(* load() of all external operators of a file: the library registers its   *)
(* loaders one after the other.                                            *)
insert_loaders(t, names) ==
    LET after[i \in 0..Len(names)] ==
            IF i = 0 THEN t ELSE insert_loader(after[i - 1], names[i])
    IN  after[Len(names)]
WithLibrary(f) == IF has_set_env_and_loader THEN Table ELSE insert_loaders(Table, Library[f])
load_operators(f) ==
    IF ~UsesExtern(f) THEN UNCHANGED loaders
    ELSE /\ LoadersKept => \A n \in Networks : net[n] = "destroyed" => ~UsesExtern(file[n])
         /\ Set(WithLibrary(f))
         /\ has_set_env_and_loader' = TRUE
         /\ loading' = IF Has(Table, Spoilt) THEN "undefined"
                       ELSE IF \A i \in DOMAIN Operators[f] : Has(WithLibrary(f), Operators[f][i])
                       THEN "done" ELSE "wrong loader"

(* destruct() of them. *)
free_loader_maps(f) ==
    IF UsesExtern(f) THEN Set([maps |-> <<>>, capacity |-> 0]) /\ UNCHANGED <<has_set_env_and_loader, loading>>
    ELSE UNCHANGED loaders

-----------------------------------------------------------------------------
Loading(n) == net[n] = "made" /\ net'[n] = "loaded"
Failing(n) == net[n] = "made" /\ net'[n] = "broken"
Destroying(n) == net[n] = "loaded" /\ net'[n] = "destroyed"

(* A load may fail before or after external operators were loaded.         *)
InitExtern == Init /\ InitLoaders
NextExtern ==
    \/ /\ Next /\ loading = "done"
       /\ \/ \E n \in Networks : Loading(n) /\ load_operators(file'[n])
          \/ \E n \in Networks, f \in Files : Failing(n) /\ load_operators(f)
          \/ \E n \in Networks : Failing(n) /\ UNCHANGED loaders
          \/ \E n \in Networks : Destroying(n) /\ free_loader_maps(file[n])
          \/ (\A n \in Networks : ~Loading(n) /\ ~Failing(n) /\ ~Destroying(n)) /\ UNCHANGED loaders
    \/ \E name \in OwnLoaders :
         (register_loader(name) \/ unregister_loader(name)) /\ status = "run" /\ UNCHANGED vars
SpecExtern == InitExtern /\ [][NextExtern]_externs
-----------------------------------------------------------------------------
(* Whenever clients load networks, register and unregister loaders of      *)
(* their own and destroy networks: no load ends in the assertion "Wrong    *)
(* loader." (extern_opr.c:289) or reads a name that is no string, and the  *)
(* table holds no name twice and not more than its capacity.               *)
LoadersFound ==
    /\ loading = "done"
    /\ IsInjective(loader_maps) /\ Len(loader_maps) <= capacity
=============================================================================

----------------------------- MODULE LKCompiler -----------------------------
(* The compiler of src/src/main on one function: IRGenerator, then         *)
(* CodeGenerator (Compiler.java), each held against what it was given.     *)
EXTENDS CodeGenerator

CONSTANTS
    Bodies,   \* the functions compiled: blocks that end with a return
    Inputs,   \* the arguments they are called with
    MaxSteps  \* bound: a run of the intermediate code takes at most 2^MaxSteps steps

VARIABLES
    stage,  \* "parsed", "ir", "assembly"
    body,   \* the function
    meant,  \* what it means for each argument (a history variable)
    ir, code

vars == <<stage, body, meant, ir, code>>

Init ==
    /\ stage = "parsed"
    /\ body \in Bodies
    /\ meant = <<>>
    /\ ir = EmptyState
    /\ code = <<>>

GenerateIR ==
    /\ stage = "parsed"
    /\ stage' = "ir"
    /\ meant' = [p \in Inputs |-> Meaning(body, p)]
    /\ ir' = compileFunctionBody(body)
    /\ UNCHANGED <<body, code>>

(* With the option -fPIC or without; with it, g and the called function    *)
(* may be local.                                                           *)
GenerateAssembly ==
    /\ stage = "ir"
    /\ stage' = "assembly"
    /\ \E pic \in BOOLEAN : \E local \in SUBSET (IF pic THEN {"g", "f"} ELSE {}) :
         code' = generateFunctionBody(ir, pic, local)
    /\ UNCHANGED <<body, meant, ir>>

Next == GenerateIR \/ GenerateAssembly
Spec == Init /\ [][Next]_vars

(* The intermediate code of a function that has a meaning has that         *)
(* meaning: operands that are computed late, temporaries and jumps change  *)
(* nothing that the source can see, whatever encloses whatever.            *)
IRFaithful ==
    stage = "ir" =>
        \A p \in Inputs :
            meant[p].ok => IROutcome(ir, p, 50, MaxSteps) = meant[p]

CallsPLT == \E i \in DOMAIN code : code[i].dst = PLTSymbol

(* So have its instructions, on a stack frame whose places scopes and      *)
(* slots share, with registers that every call may change, and with or     *)
(* without a table of global offsets; and they give the caller its stack   *)
(* and registers back. Nothing is said of a function that calls through    *)
(* the PLT and itself reads no global variable: the base of the table,     *)
(* which the PLT needs, is not loaded for its sake.                        *)
CodeFaithful ==
    stage = "assembly" /\ (CallsPLT => UsesGOTBase(code)) =>
        \A p \in Inputs :
            meant[p].ok => CodeOutcome(code, p, 50, MaxSteps + 4) = meant[p]
=============================================================================

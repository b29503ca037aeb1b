---------------------------- MODULE MCWeightInit ----------------------------
(* Instances of WeightInit: up to two device models of a few instructions. *)
EXTENDS WeightInit, TLC

CONSTANTS a, b, f1, g1, MaxOne, MaxTwo, AlikeInits

MCOutSize == (f1 :> 1) @@ (g1 :> 2)
MCWeightSize == (a :> 1) @@ (b :> 2)

Instr(opr, inputs, init) == [opr |-> opr, inputs |-> inputs, init |-> init]
Instructions ==
    {Instr(TRUE, in, init) : in \in {<<a>>, <<b>>, <<a, b>>}, init \in {NoInit, f1, g1}}
    \cup {Instr(FALSE, in, NoInit) : in \in {<<a>>, <<b>>}}
SeqsUpTo(n) == UNION {[1..k -> Instructions] : k \in 1..n}

(* Unless AlikeInits is FALSE, an operator of another device model has an  *)
(* init function only where the one of the first device model has one.     *)
MCPrograms ==
    {pr \in {<<c>> : c \in SeqsUpTo(MaxOne)} \cup (SeqsUpTo(MaxTwo) \X SeqsUpTo(MaxTwo)) :
        /\ \A w \in Weights : ReadsOf(Operands(pr), w) # {}
        /\ AlikeInits => \A m \in DOMAIN pr : \A k \in DOMAIN pr[1] \cap DOMAIN pr[m] :
               pr[1][k].init = NoInit => pr[m][k].init = NoInit}
=============================================================================

---------------------------- MODULE MCLKCompiler ----------------------------
(* A small instance of LKCompiler: all functions of a few shapes around    *)
(* every small expression and loop.                                        *)
EXTENDS LKCompiler

V(x) == [k |-> "var", x |-> x]
I(v) == [k |-> "int", v |-> v]
A(i) == [k |-> "aref", x |-> "a", i |-> i]
B(op, l, r) == [k |-> "bin", op |-> op, l |-> l, r |-> r]
Set(l, r) == [k |-> "assign", l |-> l, r |-> r]
Add(l, r) == [k |-> "opassign", op |-> "ADD", l |-> l, r |-> r]
Inc(e) == [k |-> "suffix", op |-> "ADD", e |-> e]
PreInc(e) == [k |-> "prefix", op |-> "ADD", e |-> e]
Call(args) == [k |-> "call", args |-> args]
E(e) == [k |-> "expr", e |-> e]
Empty == [k |-> "empty"]
Var(x, init) == [x |-> x, init |-> <<init>>]
Block(vs, ss) == [k |-> "block", vars |-> vs, stmts |-> ss]
If(c, l, r) == [k |-> "if", c |-> c, l |-> l, r |-> r]

(* All functions have x = p, y = 1, a = {0, 1}, q = &x and return all of   *)
(* them in one number.                                                     *)
Deref == [k |-> "deref", e |-> V("q")]
Function(ss) ==
    Block(<<Var("x", V("p")), Var("y", I(1)), [x |-> "a", init |-> <<>>],
            Var("q", [k |-> "addr", e |-> V("x")])>>,
          <<E(Set(A(I(0)), I(0))), E(Set(A(I(1)), I(1)))>> \o ss \o
          <<[k |-> "return",
             e |-> B("ADD", B("MUL", B("ADD", V("x"), B("MUL", I(9), V("y"))), I(81)),
                     B("ADD", A(I(0)), B("MUL", A(I(1)), I(9))))]>>)

Leaves == {V("x"), V("g"), A(V("x"))}
Effects == {Inc(V("x")), PreInc(Deref), Set(V("y"), V("x")), Add(A(I(1)), V("y")),
            Call(<<V("y")>>)}
Small == Leaves \cup Effects
Two(S, T) == {B(op, l, r) : op \in {"SUB"}, l \in S, r \in T}
             \cup {[k |-> k, l |-> l, r |-> r] : k \in {"and", "or"}, l \in S, r \in T}
             \cup {Call(<<l, r>>) : l \in S, r \in T}
Conds == {[k |-> "cond", c |-> c, l |-> l, r |-> r] :
             c \in {V("p"), Inc(V("x")), B("EQ", V("x"), I(0))}, l \in Small, r \in Effects}
Nested == {B(op, l, r) : op \in {"SUB", "EQ"}, l \in {V("x"), A(V("x"))},
                         r \in Two(Small, {A(V("x")), Inc(V("y"))})}
          \cup Two(Two({A(I(1)), Inc(V("y"))}, {I(2), Inc(V("x"))}),
                   Small)
          \cup {B("S_DIV", l, I(2)) : l \in Small}
          \cup {[k |-> "not", e |-> e] : e \in Small}

Shallow == Small \cup Two(Small, Small) \cup Conds
Places == {V("y"), A(Inc(V("x"))), Deref}

(* One statement around an expression. *)
Plain ==
    {<<E(e)>> : e \in Shallow}
    \cup {<<E(Set(V("y"), e))>> : e \in Nested}
    \cup {<<E(Set(l, e))>> : l \in Places, e \in Shallow}
    \cup {<<E(Add(l, e))>> : l \in Places, e \in Two(Small, Leaves)}
    \cup {<<Block(<<Var("z", e)>>, <<E(Add(V("y"), V("z")))>>)>> : e \in Conds}

(* Jumps within loops, loops and switches within each other. *)
Steps == {E(Inc(V("y"))), E(Call(<<V("y")>>)), [k |-> "break"], [k |-> "continue"],
          Block(<<Var("z", B("ADD", V("x"), V("y")))>>, <<E(Set(A(V("p")), Inc(V("z"))))>>)}
Guarded == {If(c, l, r) : c \in {B("EQ", V("y"), I(2)), V("p")},
                          l \in Steps, r \in Steps \cup {Empty}}
CaseOf(v, ss) == [vals |-> v, body |-> Block(<<>>, ss)]
Switches == {[k |-> "switch", c |-> V("y"),
              cases |-> <<CaseOf({1}, <<s>>), CaseOf({}, <<t>>), CaseOf({2}, <<E(Inc(A(I(0))))>>)>>] :
                s \in Steps, t \in Steps}
LoopsOver(S) ==
    {[k |-> "for", i |-> E(Set(V("x"), I(0))), c |-> B("S_LT", V("x"), I(2)),
      incr |-> E(Inc(V("x"))), body |-> Block(<<>>, s)] : s \in S}
    \cup {[k |-> k, c |-> B("S_LT", Inc(V("x")), I(2)), body |-> Block(<<>>, s)] :
             k \in {"while", "dowhile"}, s \in S}
Simple == LoopsOver({<<s, E(PreInc(V("y")))>> : s \in Guarded \cup Switches})
Loops ==
    {<<s>> : s \in Simple}
    \cup {<<l>> : l \in LoopsOver({<<E(Inc(V("y"))), s>> : s \in
             LoopsOver({<<If(V("p"), t, u), E(Inc(A(I(0))))>> : t, u \in Steps})})}

MCBodies == {Function(ss) : ss \in Plain \cup Loops}
MCInputs == {0, 1}
=============================================================================

--------------------------- MODULE SourceLanguage ---------------------------
(* What a function of the source language means, as an evaluator: the      *)
(* reference that the compiler of src/src/main is held against. A program  *)
(* has a meaning only if it leaves nothing open: it ends, no operand of an *)
(* expression changes what its neighbour uses, and it does not depend on   *)
(* what was in memory before it.                                           *)
EXTENDS Integers, Sequences, TLC

CONSTANTS
    Arrays,   \* the names of variables that are arrays (of two words)
    Fuel      \* bound: how often a loop may go round

(* Memory: cells that were written, and what is read anywhere else. *)
Peek(m, a) == IF a \in DOMAIN m.cell THEN m.cell[a] ELSE m.junk
Poke(m, a, v) == [m EXCEPT !.cell = (a :> v) @@ @]

Bit(b) == IF b THEN 1 ELSE 0

(* The binary operators, one of each way the code generator treats them.  *)
Apply(op, a, b) ==
    CASE op = "ADD"  -> a + b
      [] op = "SUB"  -> a - b
      [] op = "MUL"  -> a * b
      [] op = "S_DIV" -> IF a < 0 THEN -((-a) \div b) ELSE a \div b
      [] op = "EQ"   -> Bit(a = b)
      [] op = "S_LT" -> Bit(a < b)

(* The function that programs call: it returns the global variable g and   *)
(* changes it, so that the order and the number of calls can be seen.      *)
CalleeSets(args, g) == g + args[1] + (IF Len(args) = 2 THEN 2 * args[2] ELSE 0)

(***************************************************************************)
(* Expressions. The result of one: its value (its address, as a place),    *)
(* the memory after it, what it read and wrote, and whether it is free of  *)
(* conflicts.                                                              *)
(***************************************************************************)
Result(v, m) == [v |-> v, m |-> m, rd |-> {}, wr |-> {}, ok |-> TRUE]
Reads(r) == [r EXCEPT !.rd = @ \cup {r.v}]
Fetch(r) == [Reads(r) EXCEPT !.v = Peek(r.m, r.v)]

Then(a, b) == [b EXCEPT !.rd = @ \cup a.rd, !.wr = @ \cup a.wr, !.ok = @ /\ a.ok]
Beside(a, b) ==
    [Then(a, b) EXCEPT !.ok = @ /\ a.wr \cap (b.rd \cup b.wr) = {}
                                /\ b.wr \cap a.rd = {}]
Write(r, a, v) ==
    [r EXCEPT !.v = v, !.m = Poke(@, a, v), !.wr = @ \cup {a},
              !.ok = @ /\ a \notin r.wr]

RECURSIVE Eval(_, _, _, _)
Eval(e, place, env, m) ==
    LET Value(x, mem) == Eval(x, FALSE, env, mem)
        At(r) == IF place THEN r ELSE Fetch(r)
    IN
    CASE e.k = "int" -> Result(e.v, m)
      [] e.k = "var" /\ e.x \in Arrays -> Result(env[e.x], m)
      [] e.k = "var" /\ e.x \notin Arrays -> At(Result(env[e.x], m))
      [] e.k = "aref" ->
           LET i == Value(e.i, m)
           IN  At([i EXCEPT !.v = env[e.x] + @, !.ok = @ /\ i.v \in 0 .. 1])
      [] e.k = "deref" -> At(Value(e.e, m))
      [] e.k = "addr" -> Eval(e.e, TRUE, env, m)
      [] e.k = "not" -> LET a == Value(e.e, m) IN [a EXCEPT !.v = Bit(a.v = 0)]
      [] e.k = "bin" ->
           LET a == Value(e.l, m)
               b == Value(e.r, a.m)
           IN  [Beside(a, b) EXCEPT !.v = Apply(e.op, a.v, b.v)]
      [] e.k = "assign" ->
           LET a == Eval(e.l, TRUE, env, m)
               b == Value(e.r, a.m)
           IN  Write(Beside(a, b), a.v, b.v)
      [] e.k = "opassign" ->
           LET a == Eval(e.l, TRUE, env, m)
               b == Value(e.r, a.m)
           IN  Write(Beside(Reads(a), b), a.v, Apply(e.op, Peek(b.m, a.v), b.v))
      [] e.k \in {"prefix", "suffix"} ->
           LET a == Eval(e.e, TRUE, env, m)
               old == Peek(a.m, a.v)
               w == Write(Reads(a), a.v, Apply(e.op, old, 1))
           IN  IF e.k = "prefix" THEN w ELSE [w EXCEPT !.v = old]
      [] e.k = "cond" ->
           LET c == Value(e.c, m)
           IN  Then(c, Value(IF c.v # 0 THEN e.l ELSE e.r, c.m))
      [] e.k \in {"and", "or"} ->
           LET a == Value(e.l, m)
           IN  IF (a.v # 0) = (e.k = "and") THEN Then(a, Value(e.r, a.m)) ELSE a
      [] e.k = "call" ->
           LET a == Value(e.args[1], m)
               b == IF Len(e.args) = 2 THEN Beside(a, Value(e.args[2], a.m)) ELSE a
               g == Peek(b.m, env["g"])
           IN  [b EXCEPT !.v = g,
                         !.m = Poke(@, env["g"], CalleeSets(IF Len(e.args) = 2 THEN <<a.v, b.v>> ELSE <<a.v>>, g)),
                         !.rd = @ \cup {env["g"]}, !.wr = @ \cup {env["g"]}]

(***************************************************************************)
(* Statements: how one leaves its place, with the value of a return.      *)
(***************************************************************************)
Done(how, r) == [how |-> how, v |-> r.v, m |-> r.m, ok |-> r.ok]

(* Every time a block is entered its variables are new. *)
Entered(s, env, m) ==
    [x \in DOMAIN env \cup {s.vars[i].x : i \in DOMAIN s.vars} |->
        IF \E i \in DOMAIN s.vars : s.vars[i].x = x
        THEN m.top + 2 * (CHOOSE i \in DOMAIN s.vars : s.vars[i].x = x)
        ELSE env[x]]

Initializers(s) ==
    LET inits == SelectSeq(s.vars, LAMBDA d : d.init # <<>>)
    IN  [i \in DOMAIN inits |->
            [k |-> "expr", e |-> [k |-> "assign", l |-> [k |-> "var", x |-> inits[i].x],
                                  r |-> inits[i].init[1]]]]

Selected(s, v) ==
    LET hit == {i \in DOMAIN s.cases : v \in s.cases[i].vals}
        default == {i \in DOMAIN s.cases : s.cases[i].vals = {}}
        from == IF hit # {} THEN hit ELSE default
    IN  IF from = {} THEN <<>>
        ELSE LET i == CHOOSE i \in from : TRUE
             IN  [j \in 1 .. Len(s.cases) + 1 - i |-> s.cases[i + j - 1].body]

RECURSIVE Exec(_, _, _, _), ExecAll(_, _, _, _), Loop(_, _, _, _)
Exec(s, env, m, fuel) ==
    LET Value(e) == Eval(e, FALSE, env, m)
        Kept(c, r) == [r EXCEPT !.ok = @ /\ c.ok]
    IN
    CASE s.k = "expr" -> Done("next", Value(s.e))
      [] s.k = "return" -> Done("return", Value(s.e))
      [] s.k \in {"break", "continue", "empty"} ->
           Done(IF s.k = "empty" THEN "next" ELSE s.k, Result(0, m))
      [] s.k = "block" ->
           ExecAll(Initializers(s) \o s.stmts, Entered(s, env, m),
                   [m EXCEPT !.top = @ + 2 * (1 + Len(s.vars))], fuel)
      [] s.k = "if" ->
           LET c == Value(s.c)
           IN  Kept(c, Exec(IF c.v # 0 THEN s.l ELSE s.r, env, c.m, fuel))
      [] s.k = "switch" ->
           LET c == Value(s.c)
               r == ExecAll(Selected(s, c.v), env, c.m, fuel)
           IN  Kept(c, IF r.how = "break" THEN [r EXCEPT !.how = "next"] ELSE r)
      [] s.k = "for" ->
           LET i == Exec(s.i, env, m, fuel) IN Kept(i, Loop(s, env, i.m, fuel))
      [] s.k \in {"while", "dowhile"} -> Loop(s, env, m, fuel)

ExecAll(ss, env, m, fuel) ==
    IF ss = <<>> THEN Done("next", Result(0, m))
    ELSE LET r == Exec(Head(ss), env, m, fuel)
         IN  IF r.how # "next" \/ ~r.ok THEN r ELSE ExecAll(Tail(ss), env, r.m, fuel)

(* One round of a loop: the condition (not before the first round of       *)
(* do-while), the body, what follows it.                                   *)
Loop(s, env, m, fuel) ==
    LET c == IF s.k = "dowhile" THEN Result(1, m) ELSE Eval(s.c, FALSE, env, m)
        b == Exec(s.body, env, c.m, fuel)
        i == IF s.k = "for" THEN Exec(s.incr, env, b.m, fuel) ELSE b
        again == Loop(IF s.k = "dowhile" THEN [s EXCEPT !.k = "while"] ELSE s,
                      env, i.m, fuel - 1)
        Kept(r) == [r EXCEPT !.ok = @ /\ c.ok]
    IN  IF fuel = 0 \/ ~c.ok THEN [Done("next", c) EXCEPT !.ok = FALSE]
        ELSE IF c.v = 0 THEN Done("next", c)
        ELSE IF b.how = "break" THEN Kept([b EXCEPT !.how = "next"])
        ELSE IF b.how = "return" \/ ~b.ok THEN Kept(b)
        ELSE [again EXCEPT !.ok = @ /\ i.ok]

(* What a caller sees of a run: the value returned, the global variable.   *)
Outcome(body, p, junk) ==
    LET r == Exec(body, [x \in {"g", "p"} |-> IF x = "g" THEN 1 ELSE 2],
                  [cell |-> (1 :> 1) @@ (2 :> p), junk |-> junk, top |-> 3], Fuel)
    IN  [ok |-> r.ok /\ r.how = "return", v |-> r.v, g |-> Peek(r.m, 1)]

(* The meaning of a function for argument p; ok is FALSE if it has none. *)
Meaning(body, p) ==
    LET a == Outcome(body, p, 50)
    IN  [a EXCEPT !.ok = @ /\ a = Outcome(body, p, 61)]
=============================================================================

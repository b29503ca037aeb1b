----------------------------- MODULE IRGenerator ----------------------------
(* IRGenerator.java: the syntax tree of a function becomes a list of       *)
(* statements over expression trees without side effects (calls apart).    *)
(* What an operand does is emitted as statements when the operand is       *)
(* visited; what it is worth is a tree, computed where it is used.         *)
EXTENDS SourceLanguage

(* The state of the generator:                                             *)
(*   stmts   the statements so far                                         *)
(*   ents    the variables, in the order they are defined: name, scope,    *)
(*           words; the first is the global variable, the second the       *)
(*           parameter                                                     *)
(*   outer   the scope around each scope, 0 around the toplevel scope 1    *)
(*   scopes, brk, con   scopeStack, breakStack, continueStack              *)
(*   labels  how many labels were made                                     *)
EmptyState ==
    [stmts |-> <<>>, outer |-> <<0, 1>>, scopes |-> <<1, 2>>,
     ents |-> << [x |-> "g", scope |-> 1, words |-> 1],
                 [x |-> "p", scope |-> 2, words |-> 1] >>,
     brk |-> <<>>, con |-> <<>>, labels |-> 0]

Top(stack) == stack[Len(stack)]
Pop(stack) == SubSeq(stack, 1, Len(stack) - 1)

Emit(st, s) == [st EXCEPT !.stmts = Append(@, s)]
NewLabels(st, n) == [st EXCEPT !.labels = @ + n]
label(st, l) == Emit(st, [k |-> "Label", l |-> l])
jump(st, l) == Emit(st, [k |-> "Jump", l |-> l])
cjump(st, c, l, r) == Emit(st, [k |-> "CJump", c |-> c, l |-> l, r |-> r])

(* The trees. *)
None == [k |-> "None"]
IntNode(v) == [k |-> "Int", v |-> v]
ref(n) == [k |-> "Var", n |-> n]
mem(e) == [k |-> "Mem", e |-> e]
Bin(op, l, r) == [k |-> "Bin", op |-> op, l |-> l, r |-> r]
addressOf(e) == IF e.k = "Var" THEN [k |-> "Addr", n |-> e.n] ELSE e.e

assign(st, lhs, rhs) == Emit(st, [k |-> "Assign", l |-> addressOf(lhs), r |-> rhs])

define(st, name, words) ==
    [st EXCEPT !.ents = Append(@, [x |-> name, scope |-> Top(st.scopes),
                                   words |-> words])]
tmpVar(st) == define(st, "@tmp", 1)
Last(st) == ref(Len(st.ents))

(* The innermost scope that has the name: scopes are numbered from outside *)
(* to inside.                                                              *)
Lookup(st, x) ==
    LET named == {n \in DOMAIN st.ents :
                    st.ents[n].x = x /\ \E i \in DOMAIN st.scopes :
                                            st.scopes[i] = st.ents[n].scope}
    IN  CHOOSE n \in named : \A o \in named : st.ents[o].scope <= st.ents[n].scope

(***************************************************************************)
(* Expressions: the tree of one and the state after it. The flag says that *)
(* the expression is a statement of its own (exprNestLevel = 0).           *)
(***************************************************************************)
Tree(e, st) == [e |-> e, st |-> st]
Valued(stmt, e, st) == Tree(IF stmt THEN None ELSE e, st)

transformOpAssign(stmt, op, lhs, rhs, st) ==
    IF lhs.k = "Var"
    THEN Valued(stmt, lhs, assign(st, lhs, Bin(op, lhs, rhs)))
    ELSE LET s1 == tmpVar(st)
             a == Last(s1)
             s2 == assign(s1, a, addressOf(lhs))
         IN  Valued(stmt, mem(a), assign(s2, mem(a), Bin(op, mem(a), rhs)))

(* A value that is used and then changed. *)
SuffixValue(op, expr, st) ==
    IF expr.k = "Var"
    THEN LET s1 == tmpVar(st)
             v == Last(s1)
             s2 == assign(s1, v, expr)
         IN  Tree(v, assign(s2, expr, Bin(op, v, IntNode(1))))
    ELSE LET s1 == tmpVar(st)
             s2 == tmpVar(s1)
             a == Last(s1)
             v == Last(s2)
             s3 == assign(assign(s2, a, addressOf(expr)), v, mem(a))
         IN  Tree(v, assign(s3, mem(a), Bin(op, mem(a), IntNode(1))))

RECURSIVE Visit(_, _, _)
transformExpr(e, st) == Visit(e, FALSE, st)

VisitCond(e, stmt, st) ==
    LET l == st.labels
        s1 == tmpVar(NewLabels(st, 3))
        v == Last(s1)
        c == transformExpr(e.c, s1)
        t == transformExpr(e.l, label(cjump(c.st, c.e, l + 1, l + 2), l + 1))
        s2 == label(jump(assign(t.st, v, t.e), l + 3), l + 2)
        f == transformExpr(e.r, s2)
    IN  Valued(stmt, v, label(jump(assign(f.st, v, f.e), l + 3), l + 3))

(* Of the logical operators, && goes on to the right operand when the left *)
(* one holds, || when it does not.                                         *)
LogicalJump(k, st, v, right, end) ==
    IF k = "and" THEN cjump(st, v, right, end) ELSE cjump(st, v, end, right)

VisitLogical(e, stmt, st) ==
    LET l == st.labels
        s1 == tmpVar(NewLabels(st, 2))
        v == Last(s1)
        a == transformExpr(e.l, s1)
        s2 == LogicalJump(e.k, assign(a.st, v, a.e), v, l + 1, l + 2)
        b == transformExpr(e.r, label(s2, l + 1))
    IN  Valued(stmt, v, label(assign(b.st, v, b.e), l + 2))

(* Within an expression the value is kept in a temporary before the place  *)
(* is visited.                                                             *)
VisitAssign(e, stmt, st) ==
    IF stmt
    THEN LET rhs == transformExpr(e.r, st)
             lhs == transformExpr(e.l, rhs.st)
         IN  Tree(None, assign(lhs.st, lhs.e, rhs.e))
    ELSE LET s1 == tmpVar(st)
             tmp == Last(s1)
             rhs == transformExpr(e.r, s1)
             lhs == transformExpr(e.l, assign(rhs.st, tmp, rhs.e))
         IN  Tree(tmp, assign(lhs.st, lhs.e, tmp))

VisitOpAssign(e, stmt, st) ==
    LET rhs == transformExpr(e.r, st)
        lhs == transformExpr(e.l, rhs.st)
    IN  transformOpAssign(stmt, e.op, lhs.e, rhs.e, lhs.st)

VisitPrefixOp(e, stmt, st) ==
    LET a == transformExpr(e.e, st)
    IN  transformOpAssign(stmt, e.op, a.e, IntNode(1), a.st)

VisitSuffixOp(e, stmt, st) ==
    LET a == transformExpr(e.e, st)
    IN  IF stmt THEN transformOpAssign(stmt, e.op, a.e, IntNode(1), a.st)
        ELSE SuffixValue(e.op, a.e, a.st)

(* The last argument is visited first. *)
VisitFuncall(e, stmt, st) ==
    LET n == Len(e.args)
        z == transformExpr(e.args[n], st)
        a == IF n = 2 THEN transformExpr(e.args[1], z.st) ELSE z
        call == [k |-> "Call", args |-> IF n = 2 THEN <<a.e, z.e>> ELSE <<z.e>>]
        s1 == tmpVar(a.st)
    IN  IF stmt THEN Tree(None, Emit(a.st, [k |-> "ExprStmt", e |-> call]))
        ELSE Tree(Last(s1), assign(s1, Last(s1), call))

(* The right operand is visited first. *)
VisitBinaryOp(e, st) ==
    LET right == transformExpr(e.r, st)
        left == transformExpr(e.l, right.st)
    IN  Tree(Bin(e.op, left.e, right.e), left.st)

isLoadable(e) == e.k # "var" \/ e.x \notin Arrays

VisitVariable(e, st) ==
    LET v == ref(Lookup(st, e.x))
    IN  Tree(IF isLoadable(e) THEN v ELSE addressOf(v), st)

VisitAref(e, st) ==
    LET base == addressOf(ref(Lookup(st, e.x)))
        i == transformExpr(e.i, st)
    IN  Tree(mem(Bin("ADD", base, Bin("MUL", IntNode(1), i.e))), i.st)

VisitUnary(e, st) ==
    LET a == transformExpr(e.e, st)
    IN  Tree(CASE e.k = "not" -> [k |-> "Uni", e |-> a.e]
               [] e.k = "deref" -> mem(a.e)
               [] e.k = "addr" -> IF isLoadable(e.e) THEN addressOf(a.e) ELSE a.e, a.st)

Visit(e, stmt, st) ==
    CASE e.k = "int" -> Tree(IntNode(e.v), st)
      [] e.k = "var" -> VisitVariable(e, st)
      [] e.k = "aref" -> VisitAref(e, st)
      [] e.k \in {"not", "deref", "addr"} -> VisitUnary(e, st)
      [] e.k = "bin" -> VisitBinaryOp(e, st)
      [] e.k = "assign" -> VisitAssign(e, stmt, st)
      [] e.k = "opassign" -> VisitOpAssign(e, stmt, st)
      [] e.k = "prefix" -> VisitPrefixOp(e, stmt, st)
      [] e.k = "suffix" -> VisitSuffixOp(e, stmt, st)
      [] e.k = "cond" -> VisitCond(e, stmt, st)
      [] e.k \in {"and", "or"} -> VisitLogical(e, stmt, st)
      [] e.k = "call" -> VisitFuncall(e, stmt, st)

(***************************************************************************)
(* Statements.                                                             *)
(***************************************************************************)
(* A block's variables are in its scope before anything in it is visited   *)
(* (LocalResolver), and so can be named by the initializers.               *)
pushScope(st, vars) ==
    LET n == Len(st.outer) + 1
    IN  [st EXCEPT !.outer = Append(@, Top(st.scopes)), !.scopes = Append(@, n),
                   !.ents = @ \o [i \in DOMAIN vars |->
                        [x |-> vars[i].x, scope |-> n,
                         words |-> IF vars[i].x \in Arrays THEN 2 ELSE 1]]]

pushTargets(st, con, brk) ==
    [st EXCEPT !.con = Append(@, con), !.brk = Append(@, brk)]
popTargets(st) == [st EXCEPT !.con = Pop(@), !.brk = Pop(@)]

(* Everything is visited within a scope (scopeStack.getLast() would throw). *)
InScope(st, next) == CASE st.scopes # <<>> -> next

RECURSIVE VisitStmt(_, _), VisitStmts(_, _), initialize(_, _)
VisitStmts(ss, st) ==
    IF ss = <<>> THEN st ELSE VisitStmts(Tail(ss), VisitStmt(Head(ss), st))

initialize(vars, st) ==
    IF vars = <<>> THEN InScope(st, st)
    ELSE LET d == Head(vars)
             e == Visit(d.init[1], FALSE, st)
         IN  initialize(Tail(vars),
                        IF d.init = <<>> THEN st
                        ELSE assign(e.st, ref(Lookup(st, d.x)), e.e))

Condition(s, st) == Visit(s.c, FALSE, st)

VisitBlock(s, st) ==
    LET b == VisitStmts(s.stmts, initialize(s.vars, pushScope(st, s.vars)))
    IN  [b EXCEPT !.scopes = Pop(@)]

VisitIf(s, st) == \* labels: then, else, end
    LET l == st.labels
        c == Condition(s, NewLabels(st, 3))
        hasElse == s.r.k # "empty"
        no == IF hasElse THEN l + 2 ELSE l + 3
        s1 == VisitStmt(s.l, label(cjump(c.st, c.e, l + 1, no), l + 1))
        s2 == IF hasElse THEN VisitStmt(s.r, label(jump(s1, l + 3), l + 2)) ELSE s1
    IN  label(s2, l + 3)

VisitSwitch(s, st) == \* labels: of the cases, end
    LET l == st.labels
        n == Len(s.cases)
        end == l + n + 1
        default == {i \in 1 .. n : s.cases[i].vals = {}}
        c == Condition(s, NewLabels(st, n + 1))
        s1 == Emit(c.st, [k |-> "Switch", c |-> c.e,
                 cases |-> [i \in 1 .. n |-> [vals |-> s.cases[i].vals, l |-> l + i]],
                 default |-> IF default = {} THEN end
                             ELSE l + (CHOOSE i \in default : TRUE)])
        bodies[i \in 0 .. n] ==
            IF i = 0 THEN [s1 EXCEPT !.brk = Append(@, end)]
            ELSE VisitStmt(s.cases[i].body, label(bodies[i - 1], l + i))
    IN  label([bodies[n] EXCEPT !.brk = Pop(@)], end)

VisitWhile(s, st) == \* labels: begin, body, end
    LET l == st.labels
        c == Condition(s, label(NewLabels(st, 3), l + 1))
        s1 == label(cjump(c.st, c.e, l + 2, l + 3), l + 2)
        s2 == popTargets(VisitStmt(s.body, pushTargets(s1, l + 1, l + 3)))
    IN  label(jump(s2, l + 1), l + 3)

VisitDoWhile(s, st) == \* labels: begin, continue, end
    LET l == st.labels
        s1 == label(pushTargets(NewLabels(st, 3), l + 2, l + 3), l + 1)
        c == Condition(s, label(popTargets(VisitStmt(s.body, s1)), l + 2))
    IN  label(cjump(c.st, c.e, l + 1, l + 3), l + 3)

(* Slip: continue goes on to the condition.                                *)
VisitForContinueAtBegin(s, st) ==
    LET l == st.labels
        c == Condition(s, label(VisitStmt(s.i, NewLabels(st, 4)), l + 1))
        s1 == label(cjump(c.st, c.e, l + 2, l + 4), l + 2)
        s2 == popTargets(VisitStmt(s.body, pushTargets(s1, l + 1, l + 4)))
        s3 == VisitStmt(s.incr, label(s2, l + 3))
    IN  label(jump(s3, l + 1), l + 4)

VisitFor(s, st) == \* labels: begin, body, continue, end
    LET l == st.labels
        c == Condition(s, label(VisitStmt(s.i, NewLabels(st, 4)), l + 1))
        s1 == label(cjump(c.st, c.e, l + 2, l + 4), l + 2)
        s2 == popTargets(VisitStmt(s.body, pushTargets(s1, l + 3, l + 4)))
        s3 == VisitStmt(s.incr, label(s2, l + 3))
    IN  label(jump(s3, l + 1), l + 4)

VisitReturn(s, st) ==
    LET e == Visit(s.e, FALSE, st) IN Emit(e.st, [k |-> "Return", e |-> e.e])

VisitIn(s, st) ==
    CASE s.k = "empty" -> st
      [] s.k = "expr" -> Visit(s.e, TRUE, st).st
      [] s.k = "return" -> VisitReturn(s, st)
      [] s.k = "break" -> jump(st, Top(st.brk))
      [] s.k = "continue" -> jump(st, Top(st.con))
      [] s.k = "block" -> VisitBlock(s, st)
      [] s.k = "if" -> VisitIf(s, st)
      [] s.k = "switch" -> VisitSwitch(s, st)
      [] s.k = "while" -> VisitWhile(s, st)
      [] s.k = "dowhile" -> VisitDoWhile(s, st)
      [] s.k = "for" -> VisitFor(s, st)

VisitStmt(s, st) == InScope(st, VisitIn(s, st))
compileFunctionBody(body) == VisitStmt(body, EmptyState)

(***************************************************************************)
(* What the statements mean, each variable having memory of its own.      *)
(***************************************************************************)
Home(n) == 4 * n

RECURSIVE Worth(_, _)
Worth(e, m) ==
    CASE e.k = "Int" -> e.v
      [] e.k = "Var" -> Peek(m, Home(e.n))
      [] e.k = "Addr" -> Home(e.n)
      [] e.k = "Mem" -> Peek(m, Worth(e.e, m))
      [] e.k = "Uni" -> Bit(Worth(e.e, m) = 0)
      [] e.k = "Bin" -> Apply(e.op, Worth(e.l, m), Worth(e.r, m))
      [] e.k = "Call" -> Peek(m, Home(1))

(* A call is at the root of its statement; it changes memory. *)
Called(e, m) ==
    IF e.k # "Call" THEN m
    ELSE Poke(m, Home(1), CalleeSets([i \in DOMAIN e.args |-> Worth(e.args[i], m)],
                                     Peek(m, Home(1))))

Target(stmts, l) == CHOOSE i \in DOMAIN stmts : stmts[i] = [k |-> "Label", l |-> l]

Case(s, v) ==
    LET hit == {i \in DOMAIN s.cases : v \in s.cases[i].vals}
    IN  IF hit = {} THEN s.default ELSE s.cases[CHOOSE i \in hit : TRUE].l

(* A run is at a statement, with a memory, and ends with an outcome; it    *)
(* cannot go on behind the last statement.                                 *)
Halted(code, c) == c.out # <<>> \/ c.at > Len(code)
Unfinished == [ok |-> FALSE, v |-> 0, g |-> 0]
OutcomeOf(c) == IF c.out = <<>> THEN Unfinished ELSE c.out[1]

StepIR(stmts, c) ==
    LET s == stmts[c.at]
        m == c.m
        Next(m2) == [c EXCEPT !.at = @ + 1, !.m = m2]
        Goto(l) == [c EXCEPT !.at = Target(stmts, l)]
    IN
    CASE s.k = "Label" -> Next(m)
      [] s.k = "Jump" -> Goto(s.l)
      [] s.k = "CJump" -> Goto(IF Worth(s.c, m) # 0 THEN s.l ELSE s.r)
      [] s.k = "Switch" -> Goto(Case(s, Worth(s.c, m)))
      [] s.k = "ExprStmt" -> Next(Called(s.e, m))
      [] s.k = "Assign" -> Next(Poke(Called(s.r, m), Worth(s.l, m), Worth(s.r, m)))
      [] s.k = "Return" ->
           [c EXCEPT !.out = <<[ok |-> TRUE, v |-> Worth(s.e, m), g |-> Peek(m, Home(1))]>>]

(* At most 2^n steps. *)
RECURSIVE RunIR(_, _, _)
RunIR(stmts, c, n) ==
    IF Halted(stmts, c) THEN c
    ELSE IF n = 0 THEN StepIR(stmts, c)
    ELSE RunIR(stmts, RunIR(stmts, c, n - 1), n - 1)

(* The same view of a run that the source has. *)
IROutcome(ir, p, junk, n) ==
    LET m == [cell |-> (Home(1) :> 1) @@ (Home(2) :> p), junk |-> junk]
    IN  OutcomeOf(RunIR(ir.stmts, [at |-> 1, m |-> m, out |-> <<>>], n))
=============================================================================

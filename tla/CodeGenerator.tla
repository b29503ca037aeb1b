---------------------------- MODULE CodeGenerator ---------------------------
(* CodeGenerator.java for x86: the statements of a function become         *)
(* instructions, its variables get places in the stack frame. Addresses    *)
(* and sizes are in words of the stack.                                    *)
EXTENDS IRGenerator, FiniteSetsExt

(***************************************************************************)
(* Operands and instructions, the source first as in the assembler.        *)
(***************************************************************************)
imm(v) == [k |-> "imm", n |-> v]
label_of(l) == [k |-> "label", n |-> l]
ax == [k |-> "ax"]
bx == [k |-> "bx"]
cx == [k |-> "cx"]
sp == [k |-> "sp"]
bp == [k |-> "bp"]
indirect(r) == [k |-> "ind", r |-> r.k]       \* (r)
frame(off) == [k |-> "frame", n |-> off]      \* off(bp)
memref(n) == [k |-> "var", n |-> n]           \* of a variable, its offset not yet fixed
slot(i) == [k |-> "slot", n |-> i]            \* of the virtual stack, not yet fixed
gotGlobal == [k |-> "got"]                    \* g@GOT(bx): holds the address of g
gotOffset == [k |-> "gotoff"]                 \* g@GOTOFF(bx): g itself
symbol == [k |-> "sym"]                       \* f
PLTSymbol == [k |-> "plt"]                    \* f@PLT: jumps through the table in bx

Ins(op, src, dst) == [op |-> op, src |-> src, dst |-> dst]
mov(src, dst) == Ins("mov", src, dst)
lea(src, dst) == Ins("lea", src, dst)
jmp(l) == Ins("jmp", imm(0), label_of(l))

(***************************************************************************)
(* The stack frame.                                                        *)
(***************************************************************************)
PARAM_START_WORD == 2   \* return address and saved bp

(* The words of scope s that its variables up to n take. *)
ScopeWords(ir, s, n) ==
    MapThenSumSet(LAMBDA i : ir.ents[i].words, {i \in 1 .. n : ir.ents[i].scope = s})

(* locateLocalVariables: the variables of a scope lie below those of the   *)
(* scope around it, and scopes next to each other share their place. Scope *)
(* 3 is the body of the function.                                          *)
RECURSIVE ScopeStart(_, _)
ScopeStart(ir, s) ==
    IF s = 3 THEN 0
    ELSE ScopeStart(ir, ir.outer[s]) + ScopeWords(ir, ir.outer[s], Len(ir.ents))
(* Slip: the length of the scopes around is forgotten.                     *)
lvarLenOfScope(ir, n) == ScopeWords(ir, ir.ents[n].scope, n)

lvarLen(ir, n) ==
    ScopeStart(ir, ir.ents[n].scope) + ScopeWords(ir, ir.ents[n].scope, n)
lvarSize(ir) ==
    Max({ScopeStart(ir, s) + ScopeWords(ir, s, Len(ir.ents)) : s \in 3 .. Len(ir.outer)})

(* fixLocalVariableOffsets, fixTempVariableOffsets, locateParameters: from *)
(* the bottom of the frame, the saved registers, the variables, the slots  *)
(* of the virtual stack.                                                   *)
Fixed(o, ir, saved) ==
    CASE o.k = "var" /\ o.n = 2 -> frame(PARAM_START_WORD)
      [] o.k = "var" /\ o.n > 2 -> frame(-(saved + lvarLen(ir, o.n)))
      [] o.k = "slot" -> frame(-(saved + lvarSize(ir) + o.n))
      [] OTHER -> o

(***************************************************************************)
(* The body. The state of the generator: the instructions so far, the      *)
(* depth of the virtual stack and the most it ever was, whether the code   *)
(* is position independent, and which of "g" and "f" are local: private,   *)
(* or defined here under -fPIE. The value of an expression is left in ax.  *)
(***************************************************************************)
Code(c, is) == [c EXCEPT !.code = @ \o is]
virtualPush(c, r) ==
    [Code(c, <<mov(r, slot(c.top + 1))>>) EXCEPT !.top = @ + 1, !.max = Max({@, c.top + 1})]
virtualPop(c, r) == [Code(c, <<mov(slot(c.top), r)>>) EXCEPT !.top = @ - 1]

(* Only a global variable of position independent code that is not local   *)
(* is without a place of its own: its address is loaded first.             *)
HasMemref(c, n) == n # 1 \/ ~c.pic \/ "g" \in c.local
memrefOf(c, n) == IF n = 1 /\ c.pic THEN gotOffset ELSE memref(n)
loadVariable(c, n, r) ==
    IF HasMemref(c, n) THEN Code(c, <<mov(memrefOf(c, n), r)>>)
    ELSE Code(c, <<mov(gotGlobal, r), mov(indirect(r), r)>>)
loadAddress(c, n, r) ==
    IF HasMemref(c, n) THEN Code(c, <<lea(memrefOf(c, n), r)>>)
    ELSE Code(c, <<mov(gotGlobal, r)>>)

callingSymbol(c) == IF c.pic /\ "f" \notin c.local THEN PLTSymbol ELSE symbol

doesRequireRegisterOperand(op) == op = "S_DIV"
compileBinaryOp(c, op, right) ==
    Code(c, <<Ins(op, IF op = "S_DIV" THEN cx ELSE right, ax)>>)

RECURSIVE Compile(_, _), pushArgs(_, _)

(* How the operands meet: the right one in cx, or an immediate.            *)
CompileBin(e, c) ==
    CASE e.r.k = "Int" /\ ~doesRequireRegisterOperand(e.op) ->
           compileBinaryOp(Compile(e.l, c), e.op, imm(e.r.v))
      [] e.r.k = "Int" /\ doesRequireRegisterOperand(e.op) ->
           compileBinaryOp(Code(Compile(e.l, c), <<mov(imm(e.r.v), cx)>>), e.op, cx)
      [] e.r.k = "Var" ->
           compileBinaryOp(loadVariable(Compile(e.l, c), e.r.n, cx), e.op, cx)
      [] e.r.k = "Addr" ->
           compileBinaryOp(loadAddress(Compile(e.l, c), e.r.n, cx), e.op, cx)
      [] e.r.k \notin {"Int", "Var", "Addr"} /\ e.l.k \in {"Int", "Var", "Addr"} ->
           compileBinaryOp(Compile(e.l, Code(Compile(e.r, c), <<mov(ax, cx)>>)), e.op, cx)
      [] e.r.k \notin {"Int", "Var", "Addr"} /\ e.l.k \notin {"Int", "Var", "Addr"} ->
           compileBinaryOp(virtualPop(Compile(e.l, virtualPush(Compile(e.r, c), ax)), cx),
                           e.op, cx)

CompileCall(e, c) ==
    Code(pushArgs(e.args, c),
         <<Ins("call", imm(Len(e.args)), callingSymbol(c)), Ins("ADD", imm(Len(e.args)), sp)>>)

Compile(e, c) ==
    CASE e.k = "Int" -> Code(c, <<mov(imm(e.v), ax)>>)
      [] e.k = "Var" -> loadVariable(c, e.n, ax)
      [] e.k = "Addr" -> loadAddress(c, e.n, ax)
      [] e.k = "Mem" -> Code(Compile(e.e, c), <<mov(indirect(ax), ax)>>)
      [] e.k = "Uni" -> Code(Compile(e.e, c), <<Ins("not", ax, ax)>>)
      [] e.k = "Bin" -> CompileBin(e, c)
      [] e.k = "Call" -> CompileCall(e, c)

(* The last argument is pushed first. *)
pushArgs(args, c) ==
    IF args = <<>> THEN c
    ELSE Code(Compile(Head(args), pushArgs(Tail(args), c)), <<Ins("push", ax, ax)>>)

Epilogue == 0   \* the label of the epilogue

AssignCode(s, c) ==
    IF s.l.k = "Addr" /\ HasMemref(c, s.l.n)
    THEN Code(Compile(s.r, c), <<mov(ax, memrefOf(c, s.l.n))>>)
    ELSE IF s.r.k = "Int"
    THEN Code(Compile(s.l, c), <<mov(ax, cx), mov(imm(s.r.v), ax), mov(ax, indirect(cx))>>)
    ELSE LET pushed == Code(Compile(s.l, virtualPush(Compile(s.r, c), ax)), <<mov(ax, cx)>>)
         IN  Code(virtualPop(pushed, ax), <<mov(ax, indirect(cx))>>)

SwitchCode(s) ==
    LET Je(v, l) == <<mov(imm(v), cx), Ins("je", cx, label_of(l))>>
        Jes[i \in 0 .. Len(s.cases)] ==
            IF i = 0 THEN <<>>
            ELSE Jes[i - 1] \o (IF s.cases[i].vals = {} THEN <<>>
                                ELSE Je(CHOOSE v \in s.cases[i].vals : TRUE, s.cases[i].l))
    IN  Jes[Len(s.cases)] \o <<jmp(s.default)>>

compileStmt(s, c) ==
    CASE s.k = "Label" -> Code(c, <<Ins("label", imm(0), label_of(s.l))>>)
      [] s.k = "Jump" -> Code(c, <<jmp(s.l)>>)
      [] s.k = "CJump" ->
           Code(Compile(s.c, c), <<Ins("jnz", ax, label_of(s.l)), jmp(s.r)>>)
      [] s.k = "Switch" -> Code(Compile(s.c, c), SwitchCode(s))
      [] s.k = "ExprStmt" -> Compile(s.e, c)
      [] s.k = "Assign" -> AssignCode(s, c)
      [] s.k = "Return" -> Code(Compile(s.e, c), <<jmp(Epilogue)>>)

(* Between statements the virtual stack is empty; were it not, this would  *)
(* have no value.                                                          *)
compileNext(s, c) == CASE c.top = 0 -> compileStmt(s, c)

compileStmts(ir, pic, local) ==
    LET b[i \in 0 .. Len(ir.stmts)] ==
            IF i = 0 THEN [code |-> <<>>, top |-> 0, max |-> 0, pic |-> pic, local |-> local]
            ELSE compileNext(ir.stmts[i], b[i - 1])
    IN  Code(b[Len(ir.stmts)], <<Ins("label", imm(0), label_of(Epilogue))>>)

(* usedCalleeSaveRegisters: bx, if an operand names it. That of a call     *)
(* through the PLT names no register.                                      *)
UsesGOTBase(code) ==
    \E i \in DOMAIN code : {code[i].src, code[i].dst} \cap {gotGlobal, gotOffset} # {}
savedRegs(code) == IF UsesGOTBase(code) THEN <<bx>> ELSE <<>>
frameSize(ir, saved, tempSize) == saved + lvarSize(ir) + tempSize

prologue(saveRegs, size) ==
    <<Ins("push", bp, bp), mov(sp, bp)>>
    \o [i \in DOMAIN saveRegs |-> mov(saveRegs[i], frame(-i))]
    \o (IF size > 0 THEN <<Ins("SUB", imm(size), sp)>> ELSE <<>>)
epilogue(saveRegs) ==
    [i \in DOMAIN saveRegs |-> mov(frame(-i), saveRegs[i])]
    \o <<mov(bp, sp), Ins("pop", bp, bp), Ins("ret", ax, ax)>>

(* Loaded if it is used, that is, saved. *)
loadGOTBaseAddress(saveRegs) ==
    [i \in DOMAIN saveRegs |-> Ins("thunk", saveRegs[i], saveRegs[i])]

generateFunctionBody(ir, pic, local) ==
    LET body == compileStmts(ir, pic, local)
        regs == savedRegs(body.code)
        Fix(o) == Fixed(o, ir, Len(regs))
    IN  prologue(regs, frameSize(ir, Len(regs), body.max))
        \o loadGOTBaseAddress(regs)
        \o [i \in DOMAIN body.code |->
               [body.code[i] EXCEPT !.src = Fix(@), !.dst = Fix(@)]]
        \o epilogue(regs)

(***************************************************************************)
(* The machine: registers and memory, and a callee that may change every   *)
(* register and all the memory that is not its caller's.                   *)
(***************************************************************************)
GlobalAddress == 90
GotBase == 80
GotSlot == 5
CallerBx == 70
CallerBp == 71
ReturnAddress == 72

Place(o, m) ==
    CASE o.k = "ind" -> m[o.r]
      [] o.k = "frame" -> m.bp + o.n
      [] o.k = "var" -> GlobalAddress   \* g, the only one left unfixed
      [] o.k = "got" -> m.bx + GotSlot
      [] o.k = "gotoff" -> m.bx - GotBase + GlobalAddress
Load(o, m) ==
    CASE o.k = "imm" -> o.n
      [] o.k \in {"ax", "bx", "cx", "sp", "bp"} -> m[o.k]
      [] OTHER -> Peek(m, Place(o, m))
Store(o, v, m) ==
    IF o.k \in {"ax", "bx", "cx", "sp", "bp"} THEN [m EXCEPT ![o.k] = v]
    ELSE Poke(m, Place(o, m), v)

(* What is below the top of the stack is the callee's. *)
Callee(n, m) ==
    LET g == Peek(m, GlobalAddress)
        mine == {a \in DOMAIN m.cell : a >= m.sp}
        m2 == [m EXCEPT !.cell = [a \in mine |-> m.cell[a]], !.ax = g, !.cx = m.junk]
    IN  Poke(m2, GlobalAddress,
             CalleeSets([i \in 1 .. n |-> Peek(m, m.sp + i - 1)], g))

At(code, l) ==
    CHOOSE i \in DOMAIN code : code[i].op = "label" /\ code[i].dst.n = l

(* Through a table that is not there a call goes astray. *)
Astray == <<[ok |-> FALSE]>>

StepCode(code, c) ==
    LET s == code[c.at]
        m == c.m
        Next(m2) == [c EXCEPT !.at = @ + 1, !.m = m2]
        Goto(l) == [c EXCEPT !.at = At(code, l.n)]
    IN
    CASE s.op = "label" -> Next(m)
      [] s.op = "mov" -> Next(Store(s.dst, Load(s.src, m), m))
      [] s.op = "lea" -> Next(Store(s.dst, Place(s.src, m), m))
      [] s.op \in {"ADD", "SUB", "MUL", "S_DIV", "EQ", "S_LT"} ->
           Next(Store(s.dst, Apply(s.op, Load(s.dst, m), Load(s.src, m)), m))
      [] s.op = "not" -> Next([m EXCEPT !.ax = Bit(@ = 0)])
      [] s.op = "jmp" -> Goto(s.dst)
      [] s.op = "jnz" -> IF m.ax # 0 THEN Goto(s.dst) ELSE Next(m)
      [] s.op = "je" -> IF m.ax = m.cx THEN Goto(s.dst) ELSE Next(m)
      [] s.op = "push" -> Next(Poke([m EXCEPT !.sp = @ - 1], m.sp - 1, Load(s.src, m)))
      [] s.op = "pop" -> Next([Store(s.dst, Peek(m, m.sp), m) EXCEPT !.sp = @ + 1])
      [] s.op = "thunk" -> Next([m EXCEPT !.bx = GotBase])
      [] s.op = "call" /\ s.dst = PLTSymbol /\ m.bx # GotBase -> [c EXCEPT !.out = Astray]
      [] s.op = "call" /\ ~(s.dst = PLTSymbol /\ m.bx # GotBase) -> Next(Callee(s.src.n, m))
      [] s.op = "ret" ->
           [c EXCEPT !.out = <<[ok |-> /\ Peek(m, m.sp) = ReturnAddress /\ m.sp = 1
                                       /\ m.bx = CallerBx /\ m.bp = CallerBp,
                                v |-> m.ax, g |-> Peek(m, GlobalAddress)]>>]

(* At most 2^n steps. *)
RECURSIVE RunCode(_, _, _)
RunCode(code, c, n) ==
    IF Halted(code, c) THEN c
    ELSE IF n = 0 THEN StepCode(code, c)
    ELSE RunCode(code, RunCode(code, c, n - 1), n - 1)

(* The same view of a run: ok says that the caller gets back its stack and *)
(* the registers that are its own.                                         *)
CodeOutcome(code, p, junk, n) ==
    LET m == [cell |-> (1 :> ReturnAddress) @@ (2 :> p) @@ (GlobalAddress :> 1)
                       @@ (GotBase + GotSlot :> GlobalAddress),
              junk |-> junk, ax |-> junk, bx |-> CallerBx, cx |-> junk,
              sp |-> 1, bp |-> CallerBp]
    IN  OutcomeOf(RunCode(code, [at |-> 1, m |-> m, out |-> <<>>], n))
=============================================================================

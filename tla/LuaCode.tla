------------------------------ MODULE LuaCode -------------------------------
(***************************************************************************)
(* The code generator of the embedded Lua (lcode.c).  f is the FuncState   *)
(* of the function being compiled, and f.e the expdesc of the expression   *)
(* at hand: an operator here is the C function of that name, applied to    *)
(* f.e.  A list of jumps is threaded through the jumps' own offsets; a     *)
(* jump after TESTSET may still have to deliver a value.                   *)
(*                                                                         *)
(* f.ok is TRUE as long as every lua_assert has held.  Left out: line      *)
(* numbers, division and modulus, and the limits on sizes.                 *)
(***************************************************************************)
EXTENDS Integers, Sequences, SequencesExt, FiniteSets

NoJump == -1
NoReg == 255
Multret == -1
BitRK == 256
IsK(r) == r >= BitRK

Ins(op, a, b, c) == [op |-> op, a |-> a, b |-> b, c |-> c]
\* luaP_opmodes, testTMode
Tests == {"EQ", "LT", "LE", "TEST", "TESTSET", "TFORLOOP"}
\* getBMode, getCMode: the iABC instructions without an operand B, or C.
NoB == {"TFORLOOP", "CLOSE"}
NoC == {"MOVE", "LOADNIL", "GETUPVAL", "SETUPVAL", "UNM", "NOT", "LEN", "RETURN",
        "CLOSE", "VARARG"}

\* init_exp
Exp(k, info) == [k |-> k, info |-> info, aux |-> 0, t |-> NoJump, f |-> NoJump]
\* open_func.  act are the names of the active local variables, pend those
\* declared but not active yet, bl the blocks around the current position.
NewFuncState ==
  [code |-> <<>>, k |-> <<>>, e |-> Exp("void", 0), jpc |-> NoJump,
   lasttarget |-> -1, freereg |-> 0, act |-> <<>>, pend |-> <<>>, bl |-> <<>>,
   ups |-> <<>>, max |-> 2, numparams |-> 0, vararg |-> FALSE, ok |-> TRUE]

Pc(f) == Len(f.code)
NActVar(f) == Len(f.act)
Asserted(f, p) == [f EXCEPT !.ok = @ /\ p]
HasJumps(e) == e.t # e.f
IsNumeral(e) == e.k = "knum" /\ ~HasJumps(e)
HasMultret(e) == e.k \in {"call", "vararg"}

\* luaK_getlabel
GetLabel(f) == [f EXCEPT !.lasttarget = Pc(f)]
FixJump(f, pc, dest) ==
  [Asserted(f, dest # NoJump) EXCEPT !.code[pc + 1].b = dest - (pc + 1)]
GetJump(f, pc) == LET b == f.code[pc + 1].b
                  IN  IF b = NoJump THEN NoJump ELSE pc + 1 + b
RECURSIVE List(_, _)
List(f, l) == IF l = NoJump THEN <<>> ELSE <<l>> \o List(f, GetJump(f, l))

\* getjumpcontrol, as an index into code.
Control(f, pc) == IF pc >= 1 /\ f.code[pc].op \in Tests THEN pc ELSE pc + 1
SetsValue(f, pc) == f.code[Control(f, pc)].op = "TESTSET"
NeedValue(f, l) == \E pc \in Range(List(f, l)) : ~SetsValue(f, pc)
PatchTestReg(f, pc, reg) ==
  LET i == Control(f, pc)
      b == f.code[i].b
  IN  IF ~SetsValue(f, pc) THEN f
      ELSE IF reg # NoReg /\ reg # b THEN [f EXCEPT !.code[i].a = reg]
      ELSE [f EXCEPT !.code[i] = Ins("TEST", b, 0, @.c)]
RemoveValues(f, l) == FoldLeft(LAMBDA g, pc : PatchTestReg(g, pc, NoReg), f, List(f, l))
PatchListAux(f, l, vtarget, reg, dtarget) ==
  FoldLeft(LAMBDA g, pc : FixJump(PatchTestReg(g, pc, reg), pc,
                                  IF SetsValue(g, pc) THEN vtarget ELSE dtarget),
           f, List(f, l))

\* luaK_code, luaK_codeABC: operands that an instruction does not use are 0.
Code(f, i) ==
  LET g == PatchListAux(f, f.jpc, Pc(f), NoReg, Pc(f))
  IN  [Asserted(g, (i.op \in NoB => i.b = 0) /\ (i.op \in NoC => i.c = 0)) EXCEPT
         !.jpc = NoJump, !.code = Append(@, i)]
\* ... whose result is a relocatable expression.
Emit(f, i) == [Code(f, i) EXCEPT !.e.k = "reloc", !.e.info = Pc(f)]

\* luaK_concat(&l1, l2): what it does to the code, and the new l1.
Link(f, l1, l2) == IF l1 = NoJump \/ l2 = NoJump THEN f
                   ELSE FixJump(f, Last(List(f, l1)), l2)
Either(l1, l2) == IF l1 = NoJump THEN l2 ELSE l1
JoinT(f, l) == [Link(f, f.e.t, l) EXCEPT !.e.t = Either(@, l)]
JoinF(f, l) == [Link(f, f.e.f, l) EXCEPT !.e.f = Either(@, l)]
PatchToHere(f, l) == [Link(GetLabel(f), f.jpc, l) EXCEPT !.jpc = Either(@, l)]
PatchList(f, l, target) == IF target = Pc(f) THEN PatchToHere(f, l)
                           ELSE PatchListAux(Asserted(f, target < Pc(f)), l, target,
                                             NoReg, target)

\* luaK_jump: what would jump to this jump stays pending with it.
Jump(f) == Link(Code([f EXCEPT !.jpc = NoJump], Ins("JMP", 0, NoJump, 0)), Pc(f), f.jpc)
CondJump(f, op, a, b, c) == Jump(Code(f, Ins(op, a, b, c)))

\* luaK_nil: joined with a LOADNIL before it, unless a jump lands here.
Nil(f, from, n) ==
  LET prev == f.code[Pc(f)]
      straight == Pc(f) > f.lasttarget
  IN  IF straight /\ Pc(f) = 0 /\ from >= NActVar(f) THEN f
      ELSE IF straight /\ Pc(f) > 0 /\ prev.op = "LOADNIL"
              /\ prev.a <= from /\ from <= prev.b + 1
      THEN [f EXCEPT !.code[Pc(f)].b = IF from + n - 1 > @ THEN from + n - 1 ELSE @]
      ELSE Code(f, Ins("LOADNIL", from, from + n - 1, 0))

\* luaK_checkstack, luaK_reserveregs
CheckStack(f, n) == [f EXCEPT !.max = IF f.freereg + n > @ THEN f.freereg + n ELSE @]
ReserveRegs(f, n) == [CheckStack(f, n) EXCEPT !.freereg = @ + n]
FreeReg(f, reg) == IF IsK(reg) \/ reg < NActVar(f) THEN f
                   ELSE [Asserted(f, reg = f.freereg - 1) EXCEPT !.freereg = @ - 1]
FreeExp(f, e) == IF e.k = "nonreloc" THEN FreeReg(f, e.info) ELSE f

\* addk: equal constants are shared.
AddK(f, v) == IF v \in Range(f.k) THEN f ELSE [f EXCEPT !.k = Append(@, v)]
KIndex(f, v) == SelectInSeq(f.k, LAMBDA x : x = v) - 1
\* codestring: the constant as the expression at hand.
Constant(f, v) == LET g == AddK(f, v)
                  IN  [g EXCEPT !.e = Exp("k", KIndex(g, v))]

\* luaK_setreturns, luaK_setoneret
SetReturns(f, n) ==
  IF f.e.k = "call" THEN [f EXCEPT !.code[f.e.info + 1].c = n + 1]
  ELSE IF f.e.k = "vararg"
  THEN ReserveRegs([f EXCEPT !.code[f.e.info + 1].b = n + 1,
                             !.code[f.e.info + 1].a = f.freereg], 1)
  ELSE f
SetOneRet(f) ==
  IF f.e.k = "call" THEN [f EXCEPT !.e.k = "nonreloc", !.e.info = f.code[@ + 1].a]
  ELSE IF f.e.k = "vararg" THEN [f EXCEPT !.code[f.e.info + 1].b = 2, !.e.k = "reloc"]
  ELSE f

DischargeVars(f) ==
  CASE f.e.k = "local" -> [f EXCEPT !.e.k = "nonreloc"]
    [] f.e.k = "upval" -> Emit(f, Ins("GETUPVAL", 0, f.e.info, 0))
    [] f.e.k = "global" -> Emit(f, Ins("GETGLOBAL", 0, f.e.info, 0))
    [] f.e.k = "indexed" -> Emit(FreeReg(FreeReg(f, f.e.aux), f.e.info),
                                 Ins("GETTABLE", 0, f.e.info, f.e.aux))
    [] HasMultret(f.e) -> SetOneRet(f)
    [] OTHER -> f

Discharge2Reg(f, reg) ==
  LET d == DischargeVars(f)
      e == d.e
      n == AddK(d, <<"num", e.info>>)
      into(g) == [g EXCEPT !.e.info = reg, !.e.k = "nonreloc"]
  IN  CASE e.k = "nil" -> into(Nil(d, reg, 1))
        [] e.k \in {"true", "false"} ->
             into(Code(d, Ins("LOADBOOL", reg, IF e.k = "true" THEN 1 ELSE 0, 0)))
        [] e.k = "k" -> into(Code(d, Ins("LOADK", reg, e.info, 0)))
        [] e.k = "knum" ->
             into(Code(n, Ins("LOADK", reg, KIndex(n, <<"num", e.info>>), 0)))
        [] e.k = "reloc" -> into([d EXCEPT !.code[e.info + 1].a = reg])
        [] e.k = "nonreloc" ->
             into(IF reg = e.info THEN d ELSE Code(d, Ins("MOVE", reg, e.info, 0)))
        [] OTHER -> Asserted(d, e.k \in {"void", "jmp"})
Discharge2AnyReg(f) == IF f.e.k = "nonreloc" THEN f
                       ELSE Discharge2Reg(ReserveRegs(f, 1), f.freereg)

\* exp2reg: jumps that bring no value with them go to a LOADBOOL.
Exp2Reg(f, reg) ==
  LET d == Discharge2Reg(f, reg)
      g == IF d.e.k = "jmp" THEN JoinT(d, d.e.info) ELSE d
      need == NeedValue(g, g.e.t) \/ NeedValue(g, g.e.f)
      over == IF g.e.k = "jmp" THEN g ELSE Jump(g)
      pf == Pc(over)
      loads == Code(GetLabel(Code(GetLabel(over), Ins("LOADBOOL", reg, 0, 1))),
                    Ins("LOADBOOL", reg, 1, 0))
      there == IF need
               THEN PatchToHere(loads, IF g.e.k = "jmp" THEN NoJump ELSE pf - 1)
               ELSE g
      falses == PatchListAux(GetLabel(there), g.e.f, Pc(there), reg, pf)
      both == PatchListAux(falses, g.e.t, Pc(there), reg, pf + 1)
  IN  [IF HasJumps(g.e) THEN both ELSE g EXCEPT !.e = Exp("nonreloc", reg)]

\* luaK_exp2nextreg, luaK_exp2anyreg, luaK_exp2val
Exp2NextReg(f) ==
  LET d == DischargeVars(f)
      r == ReserveRegs(FreeExp(d, d.e), 1)
  IN  Exp2Reg(r, r.freereg - 1)
Exp2AnyReg(f) ==
  LET d == DischargeVars(f)
  IN  IF d.e.k = "nonreloc" /\ ~HasJumps(d.e) THEN d
      ELSE IF d.e.k = "nonreloc" /\ d.e.info >= NActVar(d) THEN Exp2Reg(d, d.e.info)
      ELSE Exp2NextReg(d)
Exp2Val(f) == IF HasJumps(f.e) THEN Exp2AnyReg(f) ELSE DischargeVars(f)
\* luaK_exp2RK, and the operand it returns.
Exp2RK(f) ==
  LET v == Exp2Val(f)
  IN  CASE v.e.k = "knum" -> Constant(v, <<"num", v.e.info>>)
        [] v.e.k = "nil" -> Constant(v, <<"nil">>)
        [] v.e.k \in {"true", "false"} -> Constant(v, <<"bool", v.e.k = "true">>)
        [] v.e.k = "k" -> v
        [] OTHER -> Exp2AnyReg(v)
RK(e) == IF e.k = "k" THEN BitRK + e.info ELSE e.info

\* luaK_storevar: f.e into the variable v.
StoreVar(f, v) ==
  LET any == Exp2AnyReg(f)
      rk == Exp2RK(f)
      after(g) == FreeExp(g, g.e)
  IN  CASE v.k = "local" -> Exp2Reg(FreeExp(f, f.e), v.info)
        [] v.k = "upval" -> after(Code(any, Ins("SETUPVAL", any.e.info, v.info, 0)))
        [] v.k = "global" -> after(Code(any, Ins("SETGLOBAL", any.e.info, v.info, 0)))
        [] v.k = "indexed" -> after(Code(rk, Ins("SETTABLE", v.info, v.aux, RK(rk.e))))

\* luaK_self: the key is the constant v.
Self(f, v) ==
  LET g == Exp2AnyReg(f)
      r == ReserveRegs(FreeExp(g, g.e), 2)
      k == Constant(r, v)
      c == Code(k, Ins("SELF", r.freereg - 2, g.e.info, RK(k.e)))
  IN  [c EXCEPT !.e = Exp("nonreloc", r.freereg - 2)]

InvertJump(f) ==
  LET i == Control(f, f.e.info)
  IN  [Asserted(f, f.code[i].op \in {"EQ", "LT", "LE"}) EXCEPT !.code[i].a = 1 - @]
\* jumponcond: a NOT just generated is taken back.
JumpOnCond(f, cond) ==
  LET not == f.code[f.e.info + 1]
      d == Discharge2AnyReg(f)
  IN  IF f.e.k = "reloc" /\ not.op = "NOT"
      THEN CondJump([f EXCEPT !.code = Front(@)], "TEST", not.b, 0, 1 - cond)
      ELSE CondJump(FreeExp(d, d.e), "TESTSET", NoReg, d.e.info, cond)

\* luaK_goiftrue, luaK_goiffalse: the jump is the last instruction.
GoIfTrue(f) ==
  LET d == DischargeVars(f)
      j == CASE d.e.k \in {"k", "knum", "true"} -> d
             [] d.e.k = "false" -> Jump(d)
             [] d.e.k = "jmp" -> InvertJump(d)
             [] OTHER -> JumpOnCond(d, 0)
      g == CASE d.e.k \in {"k", "knum", "true"} -> j
             [] d.e.k = "jmp" -> JoinF(j, d.e.info)
             [] OTHER -> JoinF(j, Pc(j) - 1)
  IN  [PatchToHere(g, g.e.t) EXCEPT !.e.t = NoJump]
GoIfFalse(f) ==
  LET d == DischargeVars(f)
      j == CASE d.e.k \in {"nil", "false", "jmp"} -> d
             [] d.e.k = "true" -> Jump(d)
             [] OTHER -> JumpOnCond(d, 1)
      g == CASE d.e.k \in {"nil", "false"} -> j
             [] d.e.k = "jmp" -> JoinT(j, d.e.info)
             [] OTHER -> JoinT(j, Pc(j) - 1)
  IN  [PatchToHere(g, g.e.f) EXCEPT !.e.f = NoJump]

CodeNot(f) ==
  LET d == DischargeVars(f)
      r == Discharge2AnyReg(d)
      n == CASE d.e.k \in {"nil", "false"} -> [d EXCEPT !.e.k = "true"]
             [] d.e.k \in {"k", "knum", "true"} -> [d EXCEPT !.e.k = "false"]
             [] d.e.k = "jmp" -> InvertJump(d)
             [] OTHER -> Emit(FreeExp(r, r.e), Ins("NOT", 0, r.e.info, 0))
      x == [n EXCEPT !.e.t = n.e.f, !.e.f = n.e.t]
  IN  RemoveValues(RemoveValues(x, x.e.f), x.e.t)

\* luaK_indexed: t[f.e]
Indexed(f, t) == LET g == Exp2RK(f)
                 IN  [g EXCEPT !.e = [t EXCEPT !.k = "indexed", !.aux = RK(g.e)]]

\* luai_numadd, luai_numsub, luai_nummul, luai_numpow
Num(op, x, y) == CASE op = "ADD" -> x + y [] op = "SUB" -> x - y
                   [] op = "MUL" -> x * y [] op = "POW" -> x ^ y
Foldable == {"ADD", "SUB", "MUL", "POW"}

\* Mutant: the operands are freed in the order they were written in.
CodeArithInOrder(f, op, e1) ==
  LET g == Exp2RK(f)
      h == Exp2RK([g EXCEPT !.e = e1])
  IN  IF op \in Foldable /\ IsNumeral(e1) /\ IsNumeral(f.e)
      THEN [f EXCEPT !.e = [e1 EXCEPT !.info = Num(op, @, f.e.info)]]
      ELSE Emit(FreeExp(FreeExp(h, h.e), g.e), Ins(op, 0, RK(h.e), RK(g.e)))
\* constfolding, codearith: e1 op f.e; the higher register is freed first.
CodeArith(f, op, e1) ==
  LET g == Exp2RK(f)
      h == Exp2RK([g EXCEPT !.e = e1])
      free == IF RK(h.e) > RK(g.e) THEN FreeExp(FreeExp(h, h.e), g.e)
              ELSE FreeExp(FreeExp(h, g.e), h.e)
  IN  IF op \in Foldable /\ IsNumeral(e1) /\ IsNumeral(f.e)
      THEN [f EXCEPT !.e = [e1 EXCEPT !.info = Num(op, @, f.e.info)]]
      ELSE Emit(free, Ins(op, 0, RK(h.e), RK(g.e)))
\* codecomp: > and >= exchange the operands.
CodeComp(f, op, cond, e1) ==
  LET g == Exp2RK([f EXCEPT !.e = e1])
      h == Exp2RK([g EXCEPT !.e = f.e])
      free == FreeExp(FreeExp(h, h.e), g.e)
      j == IF cond = 0 /\ op # "EQ" THEN CondJump(free, op, 1, RK(h.e), RK(g.e))
           ELSE CondJump(free, op, cond, RK(g.e), RK(h.e))
  IN  [j EXCEPT !.e = [g.e EXCEPT !.k = "jmp", !.info = Pc(j) - 1]]

\* luaK_prefix; UNM and LEN have one operand.
Prefix(f, op) ==
  LET r == Exp2AnyReg(f)
      one(o) == Emit(FreeExp(r, r.e), Ins(o, 0, r.e.info, 0))
  IN  CASE op = "not" -> CodeNot(f)
        [] op = "#" -> one("LEN")
        [] op = "-" -> IF IsNumeral(f.e) THEN [f EXCEPT !.e.info = -@] ELSE one("UNM")

Arith == [o \in {"+", "-", "*", "^"} |->
            CASE o = "+" -> "ADD" [] o = "-" -> "SUB" [] o = "*" -> "MUL" [] o = "^" -> "POW"]
\* luaK_infix: the first operand, when the operator has been read.
Infix(f, op) ==
  CASE op = "and" -> GoIfTrue(f)
    [] op = "or" -> GoIfFalse(f)
    [] op = ".." -> Exp2NextReg(f)
    [] op \in DOMAIN Arith -> IF IsNumeral(f.e) THEN f ELSE Exp2RK(f)
    [] OTHER -> Exp2RK(f)

\* luaK_posfix: e1 op f.e
PosFix(f, op, e1) ==
  LET d == DischargeVars(f)
      v == Exp2Val(f)
      last == v.code[v.e.info + 1]
  IN  CASE op = "and" -> JoinF(Asserted(d, e1.t = NoJump), e1.f)
        [] op = "or" -> JoinT(Asserted(d, e1.f = NoJump), e1.t)
        [] op = ".." ->
             IF v.e.k = "reloc" /\ last.op = "CONCAT"
             THEN LET g == FreeExp(Asserted(v, e1.info = last.b - 1), e1)
                  IN  [g EXCEPT !.code[v.e.info + 1].b = e1.info,
                                !.e = [e1 EXCEPT !.k = "reloc", !.info = v.e.info]]
             ELSE CodeArith(Exp2NextReg(v), "CONCAT", e1)
        [] op \in DOMAIN Arith -> CodeArith(f, Arith[op], e1)
        [] op = "==" -> CodeComp(f, "EQ", 1, e1)
        [] op = "~=" -> CodeComp(f, "EQ", 0, e1)
        [] op = "<" -> CodeComp(f, "LT", 1, e1)
        [] op = "<=" -> CodeComp(f, "LE", 1, e1)
        [] op = ">" -> CodeComp(f, "LT", 0, e1)
        [] op = ">=" -> CodeComp(f, "LE", 0, e1)
=============================================================================

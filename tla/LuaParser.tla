----------------------------- MODULE LuaParser -----------------------------
(***************************************************************************)
(* The compiler of the embedded Lua (lparser.c): one pass over the tokens, *)
(* generating code with LuaCode.  ls is the LexState: toks are the tokens  *)
(* left, f the FuncState of the function being compiled, up those of the   *)
(* functions around it, protos the functions compiled so far; n is the     *)
(* number of expressions that an explist1 has read.                        *)
(*                                                                         *)
(* A token is a tuple: <<"while">>, <<"name", "x">>, <<"num", 1>>.  Left   *)
(* out: syntax errors, debug information, the limits on sizes, and the     *)
(* table of a vararg function that uses arg instead of "...".              *)
(***************************************************************************)
EXTENDS LuaCode

CONSTANT Fields \* LFIELDS_PER_FLUSH, 50

Tok(ls) == Head(ls.toks)[1]
Val(ls) == Head(ls.toks)[2]
\* luaX_next, checknext, check_match
Skip(ls) == [ls EXCEPT !.toks = Tail(@)]
Gen(ls, f) == [ls EXCEPT !.f = f]
Str(x) == <<"str", <<x>>>>

\* new_localvar, adjustlocalvars
NewLocal(ls, x) == [ls EXCEPT !.f.pend = Append(@, x)]
AdjustLocals(f, n) ==
  [f EXCEPT !.act = @ \o SubSeq(f.pend, 1, n), !.pend = SubSeq(@, n + 1, Len(@))]
\* LOCAL NAME {`,' NAME} and its likes.
RECURSIVE NewLocals(_)
NewLocals(ls) ==
  LET l == Skip(NewLocal(ls, Val(ls)))
  IN  IF Tok(l) = "," /\ Tok(Skip(l)) = "name" THEN NewLocals(Skip(l)) ELSE l

SearchVar(f, x) == SelectLastInSeq(f.act, LAMBDA y : y = x) - 1
\* Mutant: the innermost block is taken to be the variable's.
MarkInnermost(f, level) == IF f.bl = <<>> THEN f
                           ELSE [f EXCEPT !.bl[Len(f.bl)].upval = TRUE]
\* markupval
MarkUpval(f, level) ==
  LET i == SelectLastInSeq(f.bl, LAMBDA b : b.nactvar <= level)
  IN  IF i = 0 THEN f ELSE [f EXCEPT !.bl[i].upval = TRUE]
\* singlevaraux: looks through the functions fs, the innermost one last, and
\* makes an upvalue in each function that x is not local to.
RECURSIVE SingleVarAux(_, _, _)
SingleVarAux(fs, x, base) ==
  LET f == Last(fs)
      v == SearchVar(f, x)
      outer == SingleVarAux(Front(fs), x, FALSE)
      up == <<outer.k, outer.info>>
      known == SelectInSeq(f.ups, LAMBDA u : u = up) - 1
  IN  IF fs = <<>> THEN [fs |-> fs, k |-> "global", info |-> NoReg]
      ELSE IF v >= 0
      THEN [fs |-> IF base THEN fs ELSE Append(Front(fs), MarkUpval(f, v)),
            k |-> "local", info |-> v]
      ELSE IF outer.k = "global" THEN [outer EXCEPT !.fs = fs]
      ELSE IF known >= 0
      THEN [fs |-> Append(outer.fs, f), k |-> "upval", info |-> known]
      ELSE [fs |-> Append(outer.fs, [f EXCEPT !.ups = Append(@, up)]),
            k |-> "upval", info |-> Len(f.ups)]
SingleVar(ls) ==
  LET r == SingleVarAux(Append(ls.up, ls.f), Val(ls), TRUE)
      g == Constant(ls.f, Str(Val(ls)))
      f == IF r.k = "global" THEN [g EXCEPT !.e.k = "global"]
           ELSE [Last(r.fs) EXCEPT !.e = Exp(r.k, r.info)]
  IN  Skip([ls EXCEPT !.up = Front(r.fs), !.f = f])

AdjustAssign(f, nvars, nexps) ==
  LET extra == nvars - nexps
      more == IF extra + 1 < 0 THEN 0 ELSE extra + 1
      r == SetReturns(f, more)
      n == IF f.e.k = "void" THEN f ELSE Exp2NextReg(f)
  IN  IF HasMultret(f.e)
      THEN IF more > 1 THEN ReserveRegs(r, more - 1) ELSE r
      ELSE IF extra > 0 THEN Nil(ReserveRegs(n, extra), n.freereg, extra) ELSE n

\* enterblock, leaveblock
EnterBlock(f, breakable) ==
  [Asserted(f, f.freereg = NActVar(f)) EXCEPT
     !.bl = Append(@, [breaklist |-> NoJump, breakable |-> breakable,
                       nactvar |-> NActVar(f), upval |-> FALSE])]
LeaveBlock(f) ==
  LET b == Last(f.bl)
      out == [Asserted(f, ~(b.breakable /\ b.upval)) EXCEPT
                !.bl = Front(@), !.act = SubSeq(@, 1, b.nactvar)]
      closed == IF b.upval THEN Code(out, Ins("CLOSE", b.nactvar, 0, 0)) ELSE out
  IN  PatchToHere([closed EXCEPT !.freereg = b.nactvar], b.breaklist)

Ret(f, first, nret) == Code(f, Ins("RETURN", first, nret + 1, 0))
\* close_func: the function is complete.
CloseFunc(ls) ==
  LET f == Ret([ls.f EXCEPT !.act = <<>>], 0, 0)
      proto == [code |-> f.code, k |-> f.k, nups |-> Len(f.ups), max |-> f.max,
                numparams |-> f.numparams, vararg |-> f.vararg,
                ok |-> f.ok /\ f.bl = <<>>]
  IN  [ls EXCEPT !.protos = Append(@, proto), !.f = f]
\* pushclosure: each upvalue is a pseudo-instruction after CLOSURE.
PushClosure(f, func, i) ==
  LET c == Emit(f, Ins("CLOSURE", 0, i, 0))
  IN  FoldLeft(LAMBDA g, u : Code(g, Ins(IF u[1] = "local" THEN "MOVE" ELSE "GETUPVAL",
                                         0, u[2], 0)), c, func.ups)

BlockFollow == {"else", "elseif", "end", "until", "eos"}
Priority == [o \in {"+", "-", "*", "^", "..", "==", "~=", "<", "<=", ">", ">=",
                    "and", "or"} |->
               CASE o \in {"+", "-"} -> <<6, 6>>
                 [] o = "*" -> <<7, 7>>
                 [] o = "^" -> <<10, 9>>
                 [] o = ".." -> <<5, 4>>
                 [] o = "and" -> <<2, 2>>
                 [] o = "or" -> <<1, 1>>
                 [] OTHER -> <<3, 3>>]
UnaryPriority == 8

RECURSIVE SubExpr(_, _), Chunk(_)
Expr(ls) == SubExpr(ls, 0)

\* explist1
RECURSIVE ExpListFrom(_, _)
ExpListFrom(ls, n) ==
  LET x == Expr(ls)
  IN  IF Tok(x) = "," THEN ExpListFrom(Skip(Gen(x, Exp2NextReg(x.f))), n + 1)
      ELSE [x EXCEPT !.n = n]
ExpList1(ls) == ExpListFrom(ls, 1)

\* field: ['.' | ':'] NAME
Field(ls) ==
  LET t == Gen(ls, Exp2AnyReg(ls.f))
      key == Constant(t.f, Str(Val(Skip(t))))
  IN  Skip(Skip(Gen(t, Indexed(key, t.f.e))))
\* yindex: '[' expr ']'
YIndex(ls) == LET x == Expr(Skip(ls))
              IN  Skip(Gen(x, Exp2Val(x.f)))

\* luaK_setlist
SetList(f, base, nelems, tostore) ==
  [Code(Asserted(f, tostore # 0),
        Ins("SETLIST", base, IF tostore = Multret THEN 0 ELSE tostore,
            (nelems - 1) \div Fields + 1)) EXCEPT !.freereg = base + 1]
\* recfield: the key is in f.e when the '=' is reached.
RecField(ls, t, reg) ==
  LET name == Skip(Gen(ls, Constant(ls.f, Str(Val(ls)))))
      key == IF Tok(ls) = "name" THEN name ELSE YIndex(ls)
      rk == Exp2RK(key.f)
      x == Expr(Skip(Gen(key, rk)))
      v == Exp2RK(x.f)
      set == Code(v, Ins("SETTABLE", t, RK(rk.e), RK(v.e)))
  IN  Gen(x, [set EXCEPT !.freereg = reg, !.e = Exp("void", 0)])
\* closelistfield
CloseListField(f, t, na, tostore) ==
  LET n == [Exp2NextReg(f) EXCEPT !.e = Exp("void", 0)]
  IN  IF f.e.k = "void" THEN f
      ELSE IF tostore = Fields THEN [SetList(n, t, na, tostore) EXCEPT !.e = Exp("void", 0)]
      ELSE n
\* lastlistfield
LastListField(f, t, na, tostore) ==
  IF tostore = 0 THEN f
  ELSE IF HasMultret(f.e) THEN SetList(SetReturns(f, Multret), t, na, Multret)
  ELSE SetList(IF f.e.k = "void" THEN f ELSE Exp2NextReg(f), t, na, tostore)
\* constructor: the items, t being the table's register; f.e is the list item
\* that was read last.
RECURSIVE Items(_, _, _, _)
Items(ls, t, na, tostore) ==
  LET closed == Gen(ls, CloseListField(ls.f, t, na, tostore))
      pending == IF ls.f.e.k # "void" /\ tostore = Fields THEN 0 ELSE tostore
      rec == \/ Tok(ls) = "["
             \/ Tok(ls) = "name" /\ ls.toks[2] = <<"=">>
      r == RecField(closed, t, closed.f.freereg)
      l == Expr(closed)
      next(x) == IF Tok(x) = "," THEN Skip(x) ELSE x
  IN  IF Tok(ls) = "}" THEN Skip(Gen(ls, LastListField(ls.f, t, na, tostore)))
      ELSE IF rec THEN Items(next(r), t, na, pending)
      ELSE Items(next(l), t, na + 1, pending + 1)
Constructor(ls) ==
  LET t == Exp2NextReg(Emit([ls.f EXCEPT !.e = Exp("void", 0)], Ins("NEWTABLE", 0, 0, 0)))
      all == Items(Skip(Gen(ls, [t EXCEPT !.e = Exp("void", 0)])), t.e.info, 0, 0)
  IN  [all EXCEPT !.f.e = t.e]

\* parlist: a vararg function has one more local variable, arg.
ParList(ls) ==
  LET names == IF Tok(ls) = "name" THEN NewLocals(ls) ELSE ls
      rest == IF Tok(names) = "," THEN Skip(names) ELSE names
      dots == Tok(rest) = "..."
      p == IF dots THEN Skip(rest) ELSE rest
      arg == IF dots THEN NewLocal(p, "arg") ELSE p
      a == AdjustLocals(arg.f, Len(arg.f.pend))
      n == IF dots THEN NActVar(a) - 1 ELSE NActVar(a)
  IN  Gen(p, ReserveRegs([a EXCEPT !.numparams = n, !.vararg = dots], NActVar(a)))
\* body: `(' parlist `)' chunk END, around open_func and close_func.
Body(ls, needself) ==
  LET open == [ls EXCEPT !.up = Append(@, ls.f),
                         !.f = [NewFuncState EXCEPT !.act = IF needself THEN <<"self">>
                                                            ELSE <<>>]]
      done == CloseFunc(Skip(Chunk(Skip(ParList(Skip(open))))))
      outer == Last(done.up)
  IN  [done EXCEPT !.up = Front(@), !.f = PushClosure(outer, done.f, Len(done.protos))]

\* funcargs: the function is in the register base.
FuncArgs(ls) ==
  LET base == ls.f.e.info
      none == Skip(Skip([ls EXCEPT !.f.e = Exp("void", 0)]))
      list == ExpList1(Skip(ls))
      args == CASE Tok(ls) = "{" -> Constructor(ls)
                [] Tok(ls) = "str" -> Skip(Gen(ls, Constant(ls.f, Str(Val(ls)))))
                [] Tok(ls) = "(" /\ ls.toks[2] = <<")">> -> none
                [] OTHER -> Skip(Gen(list, SetReturns(list.f, Multret)))
      f == IF HasMultret(args.f.e) \/ args.f.e.k = "void" THEN args.f
           ELSE Exp2NextReg(args.f)
      n == IF HasMultret(args.f.e) THEN Multret ELSE f.freereg - (base + 1)
      call == Emit(Asserted(f, ls.f.e.k = "nonreloc"), Ins("CALL", base, n + 1, 2))
  IN  Gen(args, [call EXCEPT !.e = Exp("call", Pc(f)), !.freereg = base + 1])

\* prefixexp, primaryexp
RECURSIVE PrimarySuffixes(_)
PrimarySuffixes(ls) ==
  LET t == Gen(ls, Exp2AnyReg(ls.f))
      i == YIndex(t)
      self == Gen(ls, Self(ls.f, Str(Val(Skip(ls)))))
  IN  CASE Tok(ls) = "." -> PrimarySuffixes(Field(ls))
        [] Tok(ls) = "[" -> PrimarySuffixes(Gen(i, Indexed(i.f, t.f.e)))
        [] Tok(ls) = ":" -> PrimarySuffixes(FuncArgs(Skip(Skip(self))))
        [] Tok(ls) \in {"(", "str", "{"} -> PrimarySuffixes(FuncArgs(Gen(ls, Exp2NextReg(ls.f))))
        [] OTHER -> ls
PrimaryExp(ls) ==
  LET x == Skip(Expr(Skip(ls)))
  IN  PrimarySuffixes(IF Tok(ls) = "(" THEN Gen(x, DischargeVars(x.f)) ELSE SingleVar(ls))

SimpleExp(ls) ==
  CASE Tok(ls) = "num" -> Skip([ls EXCEPT !.f.e = Exp("knum", Val(ls))])
    [] Tok(ls) = "str" -> Skip(Gen(ls, Constant(ls.f, Str(Val(ls)))))
    [] Tok(ls) \in {"nil", "true", "false"} -> Skip([ls EXCEPT !.f.e = Exp(Tok(ls), 0)])
    [] Tok(ls) = "..." ->
         LET v == Emit(ls.f, Ins("VARARG", 0, 1, 0))
         IN  Skip(Gen(ls, [v EXCEPT !.e = Exp("vararg", v.e.info)]))
    [] Tok(ls) = "{" -> Constructor(ls)
    [] Tok(ls) = "function" ->
         LET b == Body(Skip(ls), FALSE)
         IN  [b EXCEPT !.f.e = Exp("reloc", b.f.e.info)]
    [] OTHER -> PrimaryExp(ls)

\* subexpr: (simpleexp | unop subexpr) { binop subexpr }, for operators of a
\* higher priority than limit.
RECURSIVE Operators(_, _)
Operators(ls, limit) ==
  LET op == Tok(ls)
      left == Infix(ls.f, op)
      x == SubExpr(Skip(Gen(ls, left)), Priority[op][2])
  IN  IF op \in DOMAIN Priority /\ Priority[op][1] > limit
      THEN Operators(Gen(x, PosFix(x.f, op, left.e)), limit)
      ELSE ls
SubExpr(ls, limit) ==
  LET fresh == [ls EXCEPT !.f.e = Exp("void", 0)]
      x == SubExpr(Skip(fresh), UnaryPriority)
      first == IF Tok(ls) \in {"not", "-", "#"} THEN Gen(x, Prefix(x.f, Tok(ls)))
               ELSE SimpleExp(fresh)
  IN  Operators(first, limit)
-----------------------------------------------------------------------------
\* block
Block(ls) == LET b == Chunk(Gen(ls, EnterBlock(ls.f, FALSE)))
             IN  Gen(b, LeaveBlock(Asserted(b.f, Last(b.f.bl).breaklist = NoJump)))

\* check_conflict: a local variable that is assigned to may be the table or the
\* key of a target before it.
CheckConflict(f, lhs, v) ==
  LET uses(l) == l.k = "indexed" /\ v.info \in {l.info, l.aux}
      safe(r) == IF r = v.info THEN f.freereg ELSE r
  IN  IF v.k = "local" /\ \E l \in Range(lhs) : uses(l)
      THEN [f |-> ReserveRegs(Code(f, Ins("MOVE", f.freereg, v.info, 0)), 1),
            lhs |-> [i \in DOMAIN lhs |->
                       IF uses(lhs[i])
                       THEN [lhs[i] EXCEPT !.info = safe(@), !.aux = safe(@)]
                       ELSE lhs[i]]]
      ELSE [f |-> f, lhs |-> lhs]
\* assignment: the targets, and then the stores, from the last one to the first.
RECURSIVE Targets(_, _)
Targets(ls, lhs) ==
  LET p == PrimaryExp(Skip(ls))
      c == CheckConflict(p.f, lhs, p.f.e)
  IN  IF Tok(ls) = "," THEN Targets(Gen(p, c.f), Append(c.lhs, p.f.e))
      ELSE [ls |-> ls, lhs |-> lhs]
Assignment(ls) ==
  LET t == Targets(ls, <<ls.f.e>>)
      nvars == Len(t.lhs)
      x == ExpList1(Skip(t.ls))
      adjusted == AdjustAssign(x.f, nvars, x.n)
      stack == IF x.n > nvars THEN [adjusted EXCEPT !.freereg = @ - (x.n - nvars)]
               ELSE adjusted
      store(f, v) == StoreVar([f EXCEPT !.e = Exp("nonreloc", f.freereg - 1)], v)
  IN  Gen(x, IF x.n = nvars
             THEN FoldLeft(store, StoreVar(SetOneRet(x.f), Last(t.lhs)),
                           Reverse(Front(t.lhs)))
             ELSE FoldLeft(store, stack, Reverse(t.lhs)))

\* cond: f.e.f is the list of exits.
Cond(ls) ==
  LET x == Expr(ls)
  IN  Gen(x, GoIfTrue(IF x.f.e.k = "nil" THEN [x.f EXCEPT !.e.k = "false"] ELSE x.f))

BreakStat(f) ==
  LET i == SelectLastInSeq(f.bl, LAMBDA b : b.breakable)
      upval == \E j \in (i + 1)..Len(f.bl) : f.bl[j].upval
      c == IF upval THEN Code(f, Ins("CLOSE", f.bl[i].nactvar, 0, 0)) ELSE f
      j == Jump(c)
      l == f.bl[i].breaklist
  IN  [Link(j, l, Pc(c)) EXCEPT !.bl[i].breaklist = Either(l, Pc(c))]

WhileStat(ls) ==
  LET init == Gen(Skip(ls), GetLabel(ls.f))
      c == Cond(init)
      b == Block(Skip(Gen(c, EnterBlock(c.f, TRUE))))
      back == PatchList(Jump(b.f), Pc(b.f), Pc(ls.f))
  IN  Skip(Gen(b, PatchToHere(LeaveBlock(back), c.f.e.f)))

RepeatStat(ls) ==
  LET init == Pc(ls.f)
      c == Cond(Skip(Chunk(Skip(Gen(ls, EnterBlock(EnterBlock(GetLabel(ls.f), TRUE),
                                                   FALSE))))))
      exit == c.f.e.f
      plain == PatchList(LeaveBlock(c.f), exit, init)
      scope == LeaveBlock(PatchToHere(BreakStat(c.f), exit))
      closing == PatchList(Jump(scope), Pc(scope), init)
  IN  Gen(c, LeaveBlock(IF Last(c.f.bl).upval THEN closing ELSE plain))

\* exp1
Exp1(ls) == LET x == Expr(ls)
            IN  Gen(x, Exp2NextReg(x.f))
ForBody(ls, base, nvars, isnum) ==
  LET f == AdjustLocals(ls.f, 3)
      prep == IF isnum THEN Code(f, Ins("FORPREP", base, NoJump, 0)) ELSE Jump(f)
      scope == ReserveRegs(AdjustLocals(EnterBlock(prep, FALSE), nvars), nvars)
      b == Block(Skip(Gen(ls, scope)))
      out == PatchToHere(LeaveBlock(b.f), Pc(f))
      num == Code(out, Ins("FORLOOP", base, NoJump, 0))
      gen == Jump(Code(out, Ins("TFORLOOP", base, 0, nvars)))
  IN  Gen(b, IF isnum THEN PatchList(num, Pc(out), Pc(f) + 1)
             ELSE PatchList(gen, Pc(gen) - 1, Pc(f) + 1))
ForNum(ls) ==
  LET base == ls.f.freereg
      v == FoldLeft(NewLocal, ls, <<"(for index)", "(for limit)", "(for step)", Val(ls)>>)
      limit == Exp1(Skip(Exp1(Skip(Skip(v)))))
      step == Constant(limit.f, <<"num", 1>>)
      one == ReserveRegs(Code(step, Ins("LOADK", step.freereg, step.e.info, 0)), 1)
  IN  ForBody(IF Tok(limit) = "," THEN Exp1(Skip(limit)) ELSE Gen(limit, one), base, 1, TRUE)
ForList(ls) ==
  LET base == ls.f.freereg
      v == NewLocals(FoldLeft(NewLocal, ls, <<"(for generator)", "(for state)",
                                              "(for control)">>))
      x == ExpList1(Skip(v))
  IN  ForBody(Gen(x, CheckStack(AdjustAssign(x.f, 3, x.n), 3)), base,
              Len(v.f.pend) - 3, FALSE)
ForStat(ls) ==
  LET in == Skip(Gen(ls, EnterBlock(ls.f, TRUE)))
      b == IF in.toks[2] = <<"=">> THEN ForNum(in) ELSE ForList(in)
  IN  Skip(Gen(b, LeaveBlock(b.f)))

\* test_then_block, ifstat
RECURSIVE IfClauses(_, _)
IfClauses(ls, escapes) ==
  LET c == Cond(Skip(ls))
      b == Block(Skip(c))
      j == Jump(b.f)
      out == Either(escapes, Pc(b.f))
      past == Gen(b, PatchToHere(Link(j, escapes, Pc(b.f)), c.f.e.f))
      e == Block(Skip(past))
  IN  CASE Tok(b) = "elseif" -> IfClauses(past, out)
        [] Tok(b) = "else" -> Gen(e, PatchToHere(e.f, out))
        [] OTHER -> Gen(b, PatchToHere(Link(b.f, escapes, c.f.e.f),
                                       Either(escapes, c.f.e.f)))
IfStat(ls) == Skip(IfClauses(ls, NoJump))

LocalFunc(ls) ==
  LET v == Skip(NewLocal(ls, Val(ls)))
      reg == v.f.freereg
      b == Body(Gen(v, AdjustLocals(ReserveRegs(v.f, 1), 1)), FALSE)
  IN  Gen(b, StoreVar([b.f EXCEPT !.e = Exp("reloc", b.f.e.info)], Exp("local", reg)))
LocalStat(ls) ==
  LET v == NewLocals(ls)
      n == Len(v.f.pend)
      x == IF Tok(v) = "=" THEN ExpList1(Skip(v))
           ELSE [v EXCEPT !.f.e = Exp("void", 0), !.n = 0]
  IN  Gen(x, AdjustLocals(AdjustAssign(x.f, n, x.n), n))
\* funcname, funcstat
RECURSIVE FieldNames(_)
FieldNames(ls) == IF Tok(ls) \in {".", ":"} THEN FieldNames(Field(ls)) ELSE ls
FuncStat(ls) ==
  LET v == FieldNames(SingleVar(Skip(ls)))
      needself == ls.toks[SelectInSeq(ls.toks, LAMBDA t : t = <<"(">>) - 2] = <<":">>
      b == Body(v, needself)
  IN  Gen(b, StoreVar([b.f EXCEPT !.e = Exp("reloc", b.f.e.info)], v.f.e))

ExprStat(ls) ==
  LET p == PrimaryExp(ls)
  IN  IF p.f.e.k = "call" THEN [p EXCEPT !.f.code[p.f.e.info + 1].c = 1]
      ELSE Assignment(p)

RetStat(ls) ==
  LET x == ExpList1(ls)
      m == SetReturns(x.f, Multret)
      tail == x.f.e.k = "call" /\ x.n = 1
      one == Exp2AnyReg(x.f)
      more == Exp2NextReg(x.f)
      act == NActVar(ls.f)
  IN  CASE Tok(ls) \in BlockFollow -> Gen(ls, Ret(ls.f, 0, 0))
        [] HasMultret(x.f.e) /\ tail ->
             Gen(x, Ret(Asserted([m EXCEPT !.code[m.e.info + 1].op = "TAILCALL"],
                                 m.code[m.e.info + 1].a = act), act, Multret))
        [] HasMultret(x.f.e) /\ ~tail -> Gen(x, Ret(m, act, Multret))
        [] ~HasMultret(x.f.e) /\ x.n = 1 -> Gen(x, Ret(one, one.e.info, 1))
        [] OTHER -> Gen(x, Ret(Asserted(more, x.n = more.freereg - act), act, x.n))

Statement(ls) ==
  CASE Tok(ls) = "if" -> IfStat(ls)
    [] Tok(ls) = "while" -> WhileStat(ls)
    [] Tok(ls) = "do" -> Skip(Block(Skip(ls)))
    [] Tok(ls) = "for" -> ForStat(ls)
    [] Tok(ls) = "repeat" -> RepeatStat(ls)
    [] Tok(ls) = "function" -> FuncStat(ls)
    [] Tok(ls) = "local" -> IF ls.toks[2] = <<"function">> THEN LocalFunc(Skip(Skip(ls)))
                            ELSE LocalStat(Skip(ls))
    [] Tok(ls) = "return" -> RetStat(Skip(ls))
    [] Tok(ls) = "break" -> Skip(Gen(ls, BreakStat(ls.f)))
    [] OTHER -> ExprStat(ls)
Chunk(ls) ==
  LET x == Statement(ls)
      n == NActVar(x.f)
      f == Asserted(x.f, x.f.max >= x.f.freereg /\ x.f.freereg >= n)
  IN  IF Tok(ls) \in BlockFollow THEN ls
      ELSE Chunk(Gen(x, [f EXCEPT !.freereg = n]))

\* luaY_parser: the main function is the last one.
Compile(toks) ==
  CloseFunc(Chunk([toks |-> Append(toks, <<"eos">>), up |-> <<>>, protos |-> <<>>, n |-> 0,
                   f |-> [NewFuncState EXCEPT !.vararg = TRUE]])).protos
=============================================================================

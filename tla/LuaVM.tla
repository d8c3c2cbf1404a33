------------------------------- MODULE LuaVM -------------------------------
(***************************************************************************)
(* From source to result in the embedded Lua: a program is compiled        *)
(* (LuaParser), every function of it passes the bytecode checker of        *)
(* ldebug.c, and the virtual machine of lvm.c runs it, with the calling    *)
(* sequence of ldo.c and the upvalues of lfunc.c.  What the program does   *)
(* is compared with what LuaMeaning says that it means.                    *)
(*                                                                         *)
(* s.m is the lua_State: st is the stack, cells are the UpVals (at is the  *)
(* stack position of an open one), cls the closures, tabs the tables, fr   *)
(* the CallInfos; out is what the C function p has been called with.       *)
(* Left out: metamethods, coercions, order of strings, a Lua function as   *)
(* the generator of a for loop, and what LuaParser leaves out.             *)
(***************************************************************************)
EXTENDS LuaParser, LuaMeaning

CONSTANTS
  Programs, \* the programs that are run: a syntax tree p has Processed(p)
  MaxStack  \* bound: stack positions

VARIABLE s \* [prog, phase, m]

\* What f_parser makes of a program, and what the program means.
Processed(p) == [protos |-> Compile(Tokens(p)), meaning |-> Meaning(p)]
-----------------------------------------------------------------------------
\* luaP_opmodes: which operand is a register, a register or constant, unused.
Binary == {"ADD", "SUB", "MUL", "POW"}
Compare == {"EQ", "LT", "LE"}
Modes ==
  [bR |-> {"MOVE", "LOADNIL", "GETTABLE", "SELF", "UNM", "NOT", "LEN", "CONCAT",
           "TEST", "TESTSET"},
   bK |-> Binary \cup Compare \cup {"SETTABLE"},
   bN |-> {"TFORLOOP", "CLOSE"},
   cR |-> {"CONCAT"},
   cK |-> Binary \cup Compare \cup {"GETTABLE", "SETTABLE", "SELF"},
   cN |-> {"MOVE", "LOADNIL", "GETUPVAL", "SETUPVAL", "UNM", "NOT", "LEN", "RETURN",
           "CLOSE", "VARARG"}]
\* luaG_checkopenop
OpenOp(i) == i.op \in {"CALL", "TAILCALL", "RETURN", "SETLIST"} /\ i.b = 0

\* precheck, checkArgMode, symbexec with NO_REG.
CheckIns(p, protos, pc) ==
  LET i == p.code[pc + 1]
      next == p.code[pc + 2]
      reg(r) == r < p.max
      rk(r) == IF IsK(r) THEN r - BitRK < Len(p.k) ELSE reg(r)
      target == pc + 1 + i.b
  IN  /\ reg(i.a)
      /\ i.op \in Modes.bR => reg(i.b)
      /\ i.op \in Modes.bK => rk(i.b)
      /\ i.op \in Modes.bN => i.b = 0
      /\ i.op \in Modes.cR => reg(i.c)
      /\ i.op \in Modes.cK => rk(i.c)
      /\ i.op \in Modes.cN => i.c = 0
      /\ i.op \in {"JMP", "FORLOOP", "FORPREP"} => target \in 0..(Len(p.code) - 1)
      /\ i.op \in {"FORLOOP", "FORPREP"} => reg(i.a + 3)
      /\ i.op \in Tests => pc + 2 < Len(p.code) /\ next.op = "JMP"
      /\ i.op = "LOADBOOL" /\ i.c = 1 => pc + 2 < Len(p.code)
      /\ i.op \in {"GETUPVAL", "SETUPVAL"} => i.b < p.nups
      /\ i.op \in {"LOADK", "GETGLOBAL", "SETGLOBAL"} => i.b < Len(p.k)
      /\ i.op \in {"GETGLOBAL", "SETGLOBAL"} => p.k[i.b + 1][1] = "str"
      /\ i.op = "SELF" => reg(i.a + 1)
      /\ i.op = "CONCAT" => i.b < i.c
      /\ i.op = "TFORLOOP" => i.c >= 1 /\ reg(i.a + 2 + i.c)
      /\ i.op \in {"CALL", "TAILCALL"} =>
           /\ i.b = 0 \/ reg(i.a + i.b - 1)
           /\ IF i.c = 0 THEN OpenOp(next) ELSE i.c = 1 \/ reg(i.a + i.c - 2)
      /\ i.op = "RETURN" => i.b <= 1 \/ reg(i.a + i.b - 2)
      /\ i.op = "SETLIST" => i.b = 0 \/ reg(i.a + i.b)
      /\ i.op = "CLOSURE" =>
           \A j \in 1..protos[i.b].nups :
             p.code[pc + 1 + j].op \in {"MOVE", "GETUPVAL"}
      /\ i.op = "VARARG" =>
           p.vararg /\ IF i.b = 0 THEN OpenOp(next) ELSE reg(i.a + i.b - 2)
CheckCode(p, protos) ==
  /\ p.numparams <= p.max
  /\ Last(p.code).op = "RETURN"
  /\ \A pc \in 0..(Len(p.code) - 1) : CheckIns(p, protos, pc)
-----------------------------------------------------------------------------
Frame(m) == Last(m.fr)
Base(m) == Frame(m).base
Proto(m) == m.protos[m.cls[Frame(m).cl].p]
I(m) == Proto(m).code[Frame(m).pc + 1]
R(m, r) == m.st[Base(m) + r]
K(m, j) == Proto(m).k[j + 1]
\* RKB, RKC
Rk(m, x) == IF IsK(x) THEN K(m, x - BitRK) ELSE R(m, x)
Set(m, r, v) == [m EXCEPT !.st[Base(m) + r] = v]
Skips(m, n) == [m EXCEPT !.fr[Len(m.fr)].pc = @ + n]
Fail(m) == [m EXCEPT !.err = TRUE]
Write(m, at, vs) ==
  [m EXCEPT !.st = [r \in DOMAIN @ |-> IF r - at + 1 \in DOMAIN vs THEN vs[r - at + 1]
                                       ELSE @[r]]]
CiTop(m) == Base(m) + Proto(m).max

\* luaF_close
Close(m, level) ==
  [m EXCEPT !.cells = [c \in DOMAIN @ |-> IF @[c].at >= level
                                          THEN [at |-> -1, val |-> m.st[@[c].at]]
                                          ELSE @[c]]]
UpvalGet(m, c) == IF m.cells[c].at >= 0 THEN m.st[m.cells[c].at] ELSE m.cells[c].val
UpvalSet(m, c, v) == IF m.cells[c].at >= 0 THEN [m EXCEPT !.st[m.cells[c].at] = v]
                     ELSE [m EXCEPT !.cells[c].val = v]

\* luaD_poscall: the results vs of the function at func.
PosCall(m, func, vs, nres) ==
  LET rs == IF nres = Multret THEN vs ELSE Adjust(vs, nres)
  IN  [Write(m, func, rs) EXCEPT !.top = func + Len(rs)]
\* luaD_precall, adjust_varargs
PreCall(m, func, nres) ==
  LET f == m.st[func]
      args == [j \in 1..(m.top - func - 1) |-> m.st[func + j]]
      p == m.protos[m.cls[f[2]].p]
      fixed == Adjust(args, p.numparams)
      \* the parameters of a vararg function are moved above its arguments
      n == IF Len(args) < p.numparams THEN p.numparams ELSE Len(args)
      base == IF p.vararg THEN func + 1 + n ELSE func + 1
      extra == IF p.vararg
               THEN [j \in 1..n |-> IF j <= p.numparams THEN Nil_ ELSE args[j]]
               ELSE <<>>
      regs == extra \o fixed \o [j \in 1..(p.max - p.numparams) |-> Nil_]
      called == [m EXCEPT !.out = IF f = <<"c", "p">> THEN Append(@, args) ELSE @]
  IN  IF f[1] = "c" THEN PosCall(called, func, CResults(f[2], args), nres)
      ELSE IF f[1] # "fun" THEN Fail(m)
      ELSE [Write(m, func + 1, regs) EXCEPT
              !.top = base + p.max,
              !.fr = Append(@, [cl |-> f[2], func |-> func, base |-> base, pc |-> 0,
                                nres |-> nres])]

\* luaV_gettable, luaV_settable
GetTable(m, t, k, a) == IF t[1] # "tab" THEN Fail(m)
                        ELSE Set(m, a, Lookup(m.tabs[t[2]], k))
SetTable(m, t, k, v) == IF t[1] # "tab" \/ k = Nil_ THEN Fail(m)
                        ELSE [m EXCEPT !.tabs[t[2]] = Update(@, k, v)]
Nums(x, y) == x[1] = "num" /\ y[1] = "num"
-----------------------------------------------------------------------------
Running == s.phase = "run" /\ ~s.m.err
\* One turn of luaV_execute's loop: the instruction, the state with the pc moved on.
Here == I(s.m)
Ahead == Skips(s.m, 1)
Execute(ops, m) ==
  /\ Running
  /\ Here.op \in ops
  /\ s' = [s EXCEPT !.m = m]

OpVarArg(m, i) ==
  LET n == Base(m) - Frame(m).func - Proto(m).numparams - 1
      all == [j \in 1..n |-> m.st[Base(m) - n + j - 1]]
  IN  IF i.b = 0 THEN [Write(m, Base(m) + i.a, all) EXCEPT !.top = Base(m) + i.a + n]
      ELSE Write(m, Base(m) + i.a, Adjust(all, i.b - 1))
Loads(m, i) ==
  CASE i.op = "MOVE" -> Set(m, i.a, R(m, i.b))
    [] i.op = "LOADK" -> Set(m, i.a, K(m, i.b))
    [] i.op = "LOADBOOL" -> Skips(Set(m, i.a, <<"bool", i.b = 1>>), i.c)
    [] i.op = "LOADNIL" -> Write(m, Base(m) + i.a, [j \in 1..(i.b - i.a + 1) |-> Nil_])
    [] i.op = "VARARG" -> OpVarArg(m, i)
Variables(m, i) ==
  LET ups == m.cls[Frame(m).cl].ups
  IN  CASE i.op = "GETUPVAL" -> Set(m, i.a, UpvalGet(m, ups[i.b + 1]))
        [] i.op = "SETUPVAL" -> UpvalSet(m, ups[i.b + 1], R(m, i.a))
        [] i.op = "GETGLOBAL" -> Set(m, i.a, Lookup(m.glob, K(m, i.b)))
        [] i.op = "SETGLOBAL" -> [m EXCEPT !.glob = Update(@, K(m, i.b), R(m, i.a))]
OpSetList(m, i) ==
  LET n == IF i.b = 0 THEN m.top - (Base(m) + i.a) - 1 ELSE i.b
      first == (i.c - 1) * Fields
      t == FoldLeft(LAMBDA g, j : Update(g, <<"num", first + j>>, R(m, i.a + j)),
                    m.tabs[R(m, i.a)[2]], [j \in 1..n |-> j])
  IN  [m EXCEPT !.tabs[R(m, i.a)[2]] = t, !.top = IF i.b = 0 THEN CiTop(m) ELSE @]
Tables(m, i) ==
  CASE i.op = "NEWTABLE" -> Set([m EXCEPT !.tabs = Append(@, NoKeys)], i.a,
                                <<"tab", Len(m.tabs) + 1>>)
    [] i.op = "GETTABLE" -> GetTable(m, R(m, i.b), Rk(m, i.c), i.a)
    [] i.op = "SETTABLE" -> SetTable(m, R(m, i.a), Rk(m, i.b), Rk(m, i.c))
    [] i.op = "SELF" -> GetTable(Set(m, i.a + 1, R(m, i.b)), R(m, i.b), Rk(m, i.c), i.a)
    [] i.op = "SETLIST" -> OpSetList(m, i)
Operations(m, i) ==
  LET x == Rk(m, i.b)
      y == Rk(m, i.c)
      strings == [j \in 1..(i.c - i.b + 1) |-> R(m, i.b + j - 1)]
      joined == <<"str", FlattenSeq([j \in DOMAIN strings |-> strings[j][2]])>>
  IN  CASE i.op \in Binary -> IF Nums(x, y) THEN Set(m, i.a, <<"num", Num(i.op, x[2], y[2])>>)
                              ELSE Fail(m)
        [] i.op = "UNM" -> IF x[1] = "num" THEN Set(m, i.a, <<"num", -x[2]>>) ELSE Fail(m)
        [] i.op = "NOT" -> Set(m, i.a, <<"bool", IsFalse(x)>>)
        [] i.op = "LEN" -> IF x[1] \in {"tab", "str"}
                           THEN Set(m, i.a, <<"num", Length(m.tabs, x)>>) ELSE Fail(m)
        \* luaV_concat leaves its result in R(B)
        [] i.op = "CONCAT" -> IF \A j \in DOMAIN strings : strings[j][1] = "str"
                              THEN Set(Set(m, i.b, joined), i.a, joined) ELSE Fail(m)
\* The JMP after a test is part of it.
Jumps(m, i) ==
  LET x == Rk(m, i.b)
      y == Rk(m, i.c)
      if(p) == IF p THEN Skips(m, 1 + I(m).b) ELSE Skips(m, 1)
      holds == IF i.op = "LT" THEN x[2] < y[2] ELSE x[2] <= y[2]
  IN  CASE i.op = "JMP" -> Skips(m, i.b)
        [] i.op = "EQ" -> if((x = y) = (i.a = 1))
        [] i.op \in {"LT", "LE"} -> IF Nums(x, y) THEN if(holds = (i.a = 1)) ELSE Fail(m)
        [] i.op = "TEST" -> if(IsFalse(R(m, i.a)) # (i.c = 1))
        [] i.op = "TESTSET" ->
             IF IsFalse(x) # (i.c = 1) THEN Skips(Set(m, i.a, x), 1 + I(m).b) ELSE Skips(m, 1)
Loops(m, i) ==
  LET v(j) == R(m, i.a + j)
      idx == v(0)[2] + v(2)[2]
      more == IF v(2)[2] > 0 THEN idx <= v(1)[2] ELSE v(1)[2] <= idx
      cb == Base(m) + i.a + 3
      g == PreCall([Write(m, cb, <<v(0), v(1), v(2)>>) EXCEPT !.top = cb + 3], cb, i.c)
      r == [g EXCEPT !.top = CiTop(m)]
  IN  CASE i.op = "FORPREP" ->
             IF v(0)[1] = "num" /\ v(1)[1] = "num" /\ v(2)[1] = "num"
             THEN Skips(Set(m, i.a, <<"num", v(0)[2] - v(2)[2]>>), i.b) ELSE Fail(m)
        [] i.op = "FORLOOP" ->
             IF more THEN Skips(Set(Set(m, i.a, <<"num", idx>>), i.a + 3, <<"num", idx>>), i.b)
             ELSE m
        [] i.op = "TFORLOOP" ->
             IF g.err THEN g
             ELSE IF r.st[cb] # Nil_ THEN Skips(Set(r, i.a + 2, r.st[cb]), 1 + I(r).b)
             ELSE Skips(r, 1)
\* luaF_findupval for a MOVE, the enclosing function's for a GETUPVAL.
Capture(c, j) ==
  LET u == I(Skips(c.m, j))
      at == Base(c.m) + u.b
      open == {n \in DOMAIN c.m.cells : c.m.cells[n].at = at}
  IN  IF u.op = "GETUPVAL"
      THEN [c EXCEPT !.ups = Append(@, c.m.cls[Frame(c.m).cl].ups[u.b + 1])]
      ELSE IF open # {} THEN [c EXCEPT !.ups = Append(@, CHOOSE n \in open : TRUE)]
      ELSE [m |-> [c.m EXCEPT !.cells = Append(@, [at |-> at, val |-> Nil_])],
            ups |-> Append(c.ups, Len(c.m.cells) + 1)]
Closures(m, i) ==
  LET n == m.protos[i.b].nups
      c == FoldLeft(Capture, [m |-> m, ups |-> <<>>], [j \in 1..n |-> j - 1])
  IN  IF i.op = "CLOSE" THEN Close(m, Base(m) + i.a)
      ELSE Skips(Set([c.m EXCEPT !.cls = Append(@, [p |-> i.b, ups |-> c.ups])], i.a,
                     <<"fun", Len(m.cls) + 1>>), n)
Calls(m, i) ==
  LET func == Base(m) + i.a
      t == IF i.b = 0 THEN m ELSE [m EXCEPT !.top = func + i.b]
      c == PreCall(t, func, i.c - 1)
      lua == m.st[func][1] = "fun"
      old == Frame(m)
      \* the frame of a tail call takes the caller's place
      shift == func - old.func
      closed == Close(c, old.base)
      moved == [closed EXCEPT
                  !.st = [r \in DOMAIN @ |-> IF r >= old.func /\ r + shift < closed.top
                                             THEN @[r + shift] ELSE @[r]],
                  !.top = @ - shift,
                  !.fr = Append(Front(Front(@)),
                                [Last(@) EXCEPT !.func = old.func, !.base = @ - shift,
                                                !.nres = old.nres])]
  IN  CASE i.op = "CALL" -> IF c.err \/ lua \/ i.c = 0 THEN c
                            ELSE [c EXCEPT !.top = CiTop(m)]
        [] i.op = "TAILCALL" -> IF c.err \/ ~lua THEN c ELSE moved
Returns(m, i) ==
  LET ra == Base(m) + i.a
      top == IF i.b = 0 THEN m.top ELSE ra + i.b - 1
      vs == [j \in 1..(top - ra) |-> m.st[ra + j - 1]]
      old == Frame(m)
      back == [PosCall(Close(m, old.base), old.func, vs, old.nres) EXCEPT !.fr = Front(@)]
  IN  IF Len(m.fr) = 1 THEN [back EXCEPT !.fr = m.fr, !.result = vs]
      ELSE IF old.nres = Multret THEN back
      ELSE [back EXCEPT !.top = CiTop(back)]
-----------------------------------------------------------------------------
Init == \E p \in DOMAIN Programs : s = [prog |-> p, phase |-> "source", m |-> <<>>]

\* f_parser, luaF_newLclosure
Load ==
  /\ s.phase = "source"
  /\ s' = [s EXCEPT
            !.phase = "loaded",
            !.m = [protos |-> Programs[s.prog].protos,
                   st |-> [[r \in 0..MaxStack |-> Nil_] EXCEPT ![0] = <<"fun", 1>>],
                   cells |-> <<>>, cls |-> <<[p |-> Len(Programs[s.prog].protos), ups |-> <<>>]>>,
                   tabs |-> <<>>, fr |-> <<>>, top |-> 1, glob |-> Globals, out |-> <<>>,
                   err |-> FALSE, result |-> <<>>]]
\* luaD_call of the main function
Start ==
  /\ s.phase = "loaded"
  /\ s' = [s EXCEPT !.phase = "run", !.m = PreCall(@, 0, Multret)]
Stop ==
  /\ s.phase = "run"
  /\ s.m.err \/ (Here.op = "RETURN" /\ Len(s.m.fr) = 1)
  /\ s' = [s EXCEPT !.phase = "done",
                    !.m = IF s.m.err THEN @ ELSE Returns(Ahead, Here)]
Return ==
  /\ Running
  /\ Len(s.m.fr) > 1
  /\ Execute({"RETURN"}, Returns(Ahead, Here))

Next ==
  \/ Load \/ Start \/ Stop \/ Return
  \/ Execute({"MOVE", "LOADK", "LOADBOOL", "LOADNIL", "VARARG"}, Loads(Ahead, Here))
  \/ Execute({"GETUPVAL", "SETUPVAL", "GETGLOBAL", "SETGLOBAL"}, Variables(Ahead, Here))
  \/ Execute({"NEWTABLE", "GETTABLE", "SETTABLE", "SELF", "SETLIST"}, Tables(Ahead, Here))
  \/ Execute(Binary \cup {"UNM", "NOT", "LEN", "CONCAT"}, Operations(Ahead, Here))
  \/ Execute(Compare \cup {"JMP", "TEST", "TESTSET"}, Jumps(Ahead, Here))
  \/ Execute({"FORPREP", "FORLOOP", "TFORLOOP"}, Loops(Ahead, Here))
  \/ Execute({"CLOSURE", "CLOSE"}, Closures(Ahead, Here))
  \/ Execute({"CALL", "TAILCALL"}, Calls(Ahead, Here))
-----------------------------------------------------------------------------
\* Every function that the compiler makes satisfies its assertions and passes
\* the bytecode checker (lparser.c, close_func), and the machine only ever sees
\* a top that is not the frame's in front of an open instruction (lvm.c,
\* luaV_execute).
AssertionsHold ==
  /\ s.phase = "loaded" =>
       \A i \in DOMAIN s.m.protos : LET p == s.m.protos[i]
                                    IN  p.ok /\ CheckCode(p, s.m.protos)
  /\ Running => s.m.top = CiTop(s.m) \/ OpenOp(Here)

\* Short circuits, jumps that carry values, the reuse of registers, assignments
\* to several targets, upvalues and their closing at the end of a scope, varargs
\* and tail calls: the compiled program does what the source says.
SameMeaning ==
  s.phase = "done" =>
    LET x == Programs[s.prog].meaning
    IN  /\ s.m.out = x.out
        /\ s.m.err = x.err
        /\ ~x.err => s.m.result = x.v
=============================================================================

---------------------------- MODULE LuaMeaning ------------------------------
(***************************************************************************)
(* What a Lua program means, after chapter 2 of the reference manual: its  *)
(* abstract syntax, the tokens it is written with, and an evaluator with   *)
(* environments and cells, which knows nothing of registers and jumps.     *)
(*                                                                         *)
(* x is what evaluation works on: v the values of the last expression or   *)
(* statement, sig how the last statement ended, and the stores.  An        *)
(* environment maps the names of local variables to cells; "..." is its    *)
(* list of extra arguments.  The order of evaluation, which the manual     *)
(* leaves open, is left to right, and that of stores right to left.        *)
(***************************************************************************)
EXTENDS Integers, Sequences, SequencesExt, FiniteSets

Nil_ == <<"nil">>
IsFalse(v) == v \in {<<"nil">>, <<"bool", FALSE>>}
Adjust(vs, n) == [j \in 1..n |-> IF j <= Len(vs) THEN vs[j] ELSE Nil_]
NoKeys == [k \in {} |-> Nil_]
Lookup(t, k) == IF k \in DOMAIN t THEN t[k] ELSE Nil_
Update(t, k, v) == [j \in DOMAIN t \cup {k} |-> IF j = k THEN v ELSE t[j]]
\* The C functions that programs may call: p reports its arguments and returns
\* them, it counts up to its first argument.
Globals == Update(Update(NoKeys, <<"str", <<"p">>>>, <<"c", "p">>),
                  <<"str", <<"it">>>>, <<"c", "it">>)
CResults(name, args) ==
  IF name = "p" THEN args
  ELSE IF args[2][2] < args[1][2] THEN <<<<"num", args[2][2] + 1>>>> ELSE <<Nil_>>
Length(tabs, v) ==
  IF v[1] = "str" THEN Len(v[2])
  ELSE CHOOSE n \in 0..Cardinality(DOMAIN tabs[v[2]]) :
         /\ \A j \in 1..n : Lookup(tabs[v[2]], <<"num", j>>) # Nil_
         /\ Lookup(tabs[v[2]], <<"num", n + 1>>) = Nil_
-----------------------------------------------------------------------------
\* Expressions and statements are tuples that begin with their kind.
Commas(ts) == FlattenSeq([j \in 1..Len(ts) |-> IF j = 1 THEN ts[1] ELSE <<<<",">>>> \o ts[j]])
Names(xs) == Commas([j \in DOMAIN xs |-> <<<<"name", xs[j]>>>>])

RECURSIVE E(_), B(_)
Es(es) == Commas([j \in DOMAIN es |-> E(es[j])])
FunBody(ps, dots, body) ==
  <<<<"(">>>> \o Commas([j \in DOMAIN ps |-> <<<<"name", ps[j]>>>>]
                        \o (IF dots THEN <<<<<<"...">>>>>> ELSE <<>>))
  \o <<<<")">>>> \o B(body) \o <<<<"end">>>>
E(e) ==
  LET k == e[1]
      item(i) == IF i[1] = "item" THEN E(i[2])
                 ELSE <<<<"[">>>> \o E(i[2]) \o <<<<"]">>, <<"=">>>> \o E(i[3])
  IN  CASE k \in {"nil", "true", "false", "..."} -> <<<<k>>>>
        [] k \in {"num", "str", "name"} -> <<<<k, e[2]>>>>
        [] k = "paren" -> <<<<"(">>>> \o E(e[2]) \o <<<<")">>>>
        [] k = "index" -> E(e[2]) \o <<<<"[">>>> \o E(e[3]) \o <<<<"]">>>>
        [] k = "field" -> E(e[2]) \o <<<<".">>, <<"name", e[3]>>>>
        [] k = "call" -> E(e[2]) \o <<<<"(">>>> \o Es(e[3]) \o <<<<")">>>>
        [] k = "method" -> E(e[2]) \o <<<<":">>, <<"name", e[3]>>, <<"(">>>> \o Es(e[4])
                           \o <<<<")">>>>
        [] k = "function" -> <<<<"function">>>> \o FunBody(e[2], e[3], e[4])
        [] k = "table" -> <<<<"{">>>> \o Commas([j \in DOMAIN e[2] |-> item(e[2][j])])
                          \o <<<<"}">>>>
        [] k = "un" -> <<<<e[2]>>>> \o E(e[3])
        [] k = "bin" -> E(e[3]) \o <<<<e[2]>>>> \o E(e[4])
S(t) ==
  LET k == t[1]
      assigned(es) == IF es = <<>> THEN <<>> ELSE <<<<"=">>>> \o Es(es)
      clause(c, word) == <<<<word>>>> \o E(c[1]) \o <<<<"then">>>> \o B(c[2])
  IN  CASE k = "local" -> <<<<"local">>>> \o Names(t[2]) \o assigned(t[3])
        [] k = "assign" -> Es(t[2]) \o <<<<"=">>>> \o Es(t[3])
        [] k = "callst" -> E(t[2])
        [] k = "do" -> <<<<"do">>>> \o B(t[2]) \o <<<<"end">>>>
        [] k = "while" -> <<<<"while">>>> \o E(t[2]) \o <<<<"do">>>> \o B(t[3]) \o <<<<"end">>>>
        [] k = "repeat" -> <<<<"repeat">>>> \o B(t[2]) \o <<<<"until">>>> \o E(t[3])
        [] k = "if" -> FlattenSeq([j \in DOMAIN t[2] |->
                                     clause(t[2][j], IF j = 1 THEN "if" ELSE "elseif")])
                       \o (IF t[3] = <<>> THEN <<>> ELSE <<<<"else">>>> \o B(t[3]))
                       \o <<<<"end">>>>
        [] k = "for" -> <<<<"for">>, <<"name", t[2]>>, <<"=">>>> \o Es(t[3])
                        \o <<<<"do">>>> \o B(t[4]) \o <<<<"end">>>>
        [] k = "forin" -> <<<<"for">>>> \o Names(t[2]) \o <<<<"in">>>> \o Es(t[3])
                          \o <<<<"do">>>> \o B(t[4]) \o <<<<"end">>>>
        [] k = "localfun" -> <<<<"local">>, <<"function">>, <<"name", t[2]>>>>
                             \o FunBody(t[3], FALSE, t[4])
        [] k = "funst" -> <<<<"function">>>> \o E(t[2]) \o FunBody(t[3], FALSE, t[4])
        [] k = "method" -> <<<<"function">>>> \o E(t[2]) \o <<<<":">>, <<"name", t[3]>>>>
                           \o FunBody(t[4], FALSE, t[5])
        [] k = "return" -> <<<<"return">>>> \o Es(t[2])
        [] k = "break" -> <<<<"break">>>>
B(body) == FlattenSeq([j \in DOMAIN body |-> S(body[j])])
Tokens(p) == B(p)
-----------------------------------------------------------------------------
Fails(x) == [x EXCEPT !.err = TRUE]
Value(x, v) == [x EXCEPT !.v = <<v>>]
One(x) == Adjust(x.v, 1)[1]
\* New local variables ns with the values vs.
Bind(r, ns, vs) ==
  LET n == Len(r.x.cells)
  IN  [x |-> [r.x EXCEPT !.cells = @ \o Adjust(vs, Len(ns))],
       env |-> FoldLeft(LAMBDA g, j : Update(g, ns[j], n + j), r.env,
                        [j \in DOMAIN ns |-> j])]

BinOp(x, op, a, b) ==
  LET nums == a[1] = "num" /\ b[1] = "num"
      num(v) == IF nums THEN Value(x, <<"num", v>>) ELSE Fails(x)
      bool(v) == Value(x, <<"bool", v>>)
      ord(v) == IF nums THEN bool(v) ELSE Fails(x)
  IN  CASE op = "+" -> num(a[2] + b[2])
        [] op = "-" -> num(a[2] - b[2])
        [] op = "*" -> num(a[2] * b[2])
        [] op = "^" -> num(a[2] ^ b[2])
        [] op = "==" -> bool(a = b)
        [] op = "~=" -> bool(a # b)
        [] op = "<" -> ord(a[2] < b[2])
        [] op = "<=" -> ord(a[2] <= b[2])
        [] op = ">" -> ord(a[2] > b[2])
        [] op = ">=" -> ord(a[2] >= b[2])
        [] op = ".." -> IF a[1] = "str" /\ b[1] = "str"
                        THEN Value(x, <<"str", a[2] \o b[2]>>) ELSE Fails(x)
UnOp(x, op, a) ==
  CASE op = "not" -> Value(x, <<"bool", IsFalse(a)>>)
    [] op = "-" -> IF a[1] = "num" THEN Value(x, <<"num", -a[2]>>) ELSE Fails(x)
    [] op = "#" -> IF a[1] \in {"tab", "str"} THEN Value(x, <<"num", Length(x.tabs, a)>>)
                   ELSE Fails(x)
IndexOf(x, t, k) == IF t[1] = "tab" THEN Value(x, Lookup(x.tabs[t[2]], k)) ELSE Fails(x)

RECURSIVE Ev(_, _, _), Evs(_, _, _), Run(_, _, _), Apply(_, _, _), Store(_, _, _)
Closure(x, env, ps, dots, body) ==
  Value([x EXCEPT !.cls = Append(@, [ps |-> ps, dots |-> dots, body |-> body, env |-> env])],
        <<"fun", Len(x.cls) + 1>>)
\* One value each, all of the last one's.
Evs(x, es, env) ==
  LET h == Ev(x, Head(es), env)
      t == Evs(h, Tail(es), env)
  IN  IF es = <<>> THEN [x EXCEPT !.v = <<>>]
      ELSE IF Len(es) = 1 \/ h.err THEN h
      ELSE [t EXCEPT !.v = <<One(h)>> \o @]
Apply(x, f, args) ==
  LET c == x.cls[f[2]]
      n == Len(c.ps)
      r == Bind([x |-> x, env |-> c.env], c.ps, args)
      va == IF Len(args) > n THEN SubSeq(args, n + 1, Len(args)) ELSE <<>>
      done == Run(r.x, c.body, Update(r.env, "...", va))
  IN  CASE f[1] = "c" -> [x EXCEPT !.v = CResults(f[2], args),
                                   !.out = IF f[2] = "p" THEN Append(@, args) ELSE @]
        [] f[1] = "fun" -> [done EXCEPT !.v = IF done.sig = "return" THEN @ ELSE <<>>,
                                        !.sig = "go"]
        [] OTHER -> Fails(x)
Ev(x, e, env) ==
  LET k == e[1]
      a == Ev(x, e[2], env)
      l == Ev(x, e[3], env)
      r == Ev(l, e[4], env)
      key == Ev(a, e[3], env)
      args == Evs(a, e[3], env)
      method == IndexOf(a, One(a), <<"str", <<e[3]>>>>)
      more == Evs(method, e[4], env)
      item(c, i) ==
        LET v == Ev(c.x, i[Len(i)], env)
            q == Ev(c.x, i[2], env)
            w == Ev(q, i[3], env)
            put(y, n, z) == [y EXCEPT !.tabs[c.t] = Update(@, n, z)]
            vs == IF c.last = i THEN v.v ELSE <<One(v)>>
        IN  IF i[1] = "rec" THEN [c EXCEPT !.x = put(w, One(q), One(w))]
            ELSE [c EXCEPT !.n = @ + Len(vs),
                           !.x = FoldLeft(LAMBDA y, j : put(y, <<"num", c.n + j>>, vs[j]), v,
                                          [j \in DOMAIN vs |-> j])]
      made == FoldLeft(item, [x |-> [x EXCEPT !.tabs = Append(@, NoKeys)],
                              t |-> Len(x.tabs) + 1, n |-> 0,
                              last |-> IF e[2] = <<>> THEN <<>> ELSE Last(e[2])], e[2])
  IN  IF x.err THEN x
      ELSE CASE k = "nil" -> Value(x, Nil_)
             [] k \in {"true", "false"} -> Value(x, <<"bool", k = "true">>)
             [] k = "num" -> Value(x, e)
             [] k = "str" -> Value(x, <<"str", <<e[2]>>>>)
             [] k = "..." -> [x EXCEPT !.v = env["..."]]
             [] k = "name" -> Value(x, IF e[2] \in DOMAIN env THEN x.cells[env[e[2]]]
                                       ELSE Lookup(x.glob, <<"str", <<e[2]>>>>))
             [] k = "paren" -> Value(a, One(a))
             [] k = "index" -> IF key.err THEN key ELSE IndexOf(key, One(a), One(key))
             [] k = "field" -> IF a.err THEN a ELSE IndexOf(a, One(a), <<"str", <<e[3]>>>>)
             [] k = "call" -> IF args.err THEN args ELSE Apply(args, One(a), args.v)
             [] k = "method" -> IF more.err THEN more
                                ELSE Apply(more, One(method), <<One(a)>> \o more.v)
             [] k = "function" -> Closure(x, env, e[2], e[3], e[4])
             [] k = "table" -> Value(made.x, <<"tab", made.t>>)
             [] k = "un" -> IF l.err THEN l ELSE UnOp(l, e[2], One(l))
             [] k = "bin" /\ e[2] \in {"and", "or"} ->
                  IF l.err \/ IsFalse(One(l)) = (e[2] = "and") THEN Value(l, One(l))
                  ELSE Value(r, One(r))
             [] k = "bin" /\ e[2] \notin {"and", "or"} ->
                  IF r.err THEN r ELSE BinOp(r, e[2], One(l), One(r))

\* The targets of an assignment, with their tables and keys, and the store.
Place(c, t) ==
  LET a == Ev(c.x, t[2], c.env)
      k == IF t[1] = "field" THEN Value(a, <<"str", <<t[3]>>>>) ELSE Ev(a, t[3], c.env)
  IN  IF t[1] = "name" THEN [c EXCEPT !.at = Append(@, t)]
      ELSE [c EXCEPT !.x = k, !.at = Append(@, <<"at", One(a), One(k)>>)]
Store(x, t, ve) ==
  LET v == ve[1]
      env == ve[2]
  IN  IF x.err THEN x
      ELSE IF t[1] = "name" /\ t[2] \in DOMAIN env THEN [x EXCEPT !.cells[env[t[2]]] = v]
      ELSE IF t[1] = "name" THEN [x EXCEPT !.glob = Update(@, <<"str", <<t[2]>>>>, v)]
      ELSE IF t[2][1] # "tab" \/ t[3] = Nil_ THEN Fails(x)
      ELSE [x EXCEPT !.tabs[t[2][2]] = Update(@, t[3], v)]
Assigned(x, ts, es, env) ==
  LET p == FoldLeft(Place, [x |-> x, at |-> <<>>, env |-> env], ts)
      r == Evs(p.x, es, env)
      vs == Adjust(r.v, Len(ts))
      js == [j \in DOMAIN ts |-> Len(ts) + 1 - j]
  IN  IF r.err THEN r ELSE FoldLeft(LAMBDA y, j : Store(y, p.at[j], <<vs[j], env>>), r, js)

RECURSIVE While(_, _, _, _), Clauses(_, _, _, _), For(_, _, _, _, _), ForIn(_, _, _, _, _)
Ended(x) == IF x.sig = "break" THEN [x EXCEPT !.sig = "go"] ELSE x
While(x, e, body, env) ==
  LET c == Ev(x, e, env)
      b == Run(c, body, env)
  IN  IF c.err \/ IsFalse(One(c)) THEN c
      ELSE IF b.err \/ b.sig # "go" THEN Ended(b) ELSE While(b, e, body, env)
Clauses(x, cs, otherwise, env) ==
  LET c == Ev(x, Head(cs)[1], env)
  IN  IF cs = <<>> THEN Run(x, otherwise, env)
      ELSE IF c.err THEN c
      ELSE IF IsFalse(One(c)) THEN Clauses(c, Tail(cs), otherwise, env)
      ELSE Run(c, Head(cs)[2], env)
For(x, name, range, body, env) ==
  LET r == Bind([x |-> x, env |-> env], <<name>>, <<<<"num", range[1]>>>>)
      b == Run(r.x, body, r.env)
  IN  IF IF range[3] > 0 THEN range[1] > range[2] ELSE range[1] < range[2] THEN x
      ELSE IF b.err \/ b.sig # "go" THEN Ended(b)
      ELSE For(b, name, [range EXCEPT ![1] = @ + range[3]], body, env)
ForIn(x, ns, fsc, body, env) ==
  LET c == Apply(x, fsc[1], <<fsc[2], fsc[3]>>)
      r == Bind([x |-> c, env |-> env], ns, c.v)
      b == Run(r.x, body, r.env)
  IN  IF c.err \/ One(c) = Nil_ THEN c
      ELSE IF b.err \/ b.sig # "go" THEN Ended(b)
      ELSE ForIn(b, ns, [fsc EXCEPT ![3] = One(c)], body, env)
\* REPEAT body UNTIL e: e sees the local variables of body, as if it were the
\* last statement of a loop without end.
Repeat(body, e) ==
  <<"while", <<"true">>, body \o <<<<"if", <<<<e, <<<<"break">>>>>>>>, <<>>>>>>>>

Run(x, body, env) ==
  LET t == Head(body)
      k == t[1]
      vs == Evs(x, t[3], env)
      loc == Bind([x |-> vs, env |-> env], t[2], vs.v)
      self == Bind([x |-> x, env |-> env], <<t[2]>>, <<Nil_>>)
      fun == Closure(self.x, self.env, t[3], FALSE, t[4])
      rec == [fun EXCEPT !.cells[self.env[t[2]]] = One(fun)]
      range == [j \in 1..3 |-> IF j <= Len(vs.v) THEN vs.v[j][2] ELSE 1]
      on(y) == IF y.err \/ y.sig # "go" THEN y ELSE Run(y, Tail(body), env)
  IN  IF x.err \/ body = <<>> THEN x
      ELSE CASE k = "local" -> Run(loc.x, Tail(body), loc.env)
             [] k = "assign" -> on(Assigned(x, t[2], t[3], env))
             [] k = "callst" -> on(Ev(x, t[2], env))
             [] k = "do" -> on(Run(x, t[2], env))
             [] k = "while" -> on(While(x, t[2], t[3], env))
             [] k = "repeat" -> on(Run(x, <<Repeat(t[2], t[3])>>, env))
             [] k = "if" -> on(Clauses(x, t[2], t[3], env))
             [] k = "for" -> on(IF vs.err \/ \E j \in DOMAIN vs.v : vs.v[j][1] # "num"
                                THEN Fails(vs) ELSE For(vs, t[2], range, t[4], env))
             [] k = "forin" -> on(IF vs.err THEN vs
                                  ELSE ForIn(vs, t[2], Adjust(vs.v, 3), t[4], env))
             [] k = "localfun" -> Run(rec, Tail(body), self.env)
             [] k = "funst" -> on(Assigned(x, <<t[2]>>, <<<<"function", t[3], FALSE, t[4]>>>>,
                                           env))
             [] k = "method" -> on(Assigned(x, <<<<"field", t[2], t[3]>>>>,
                                            <<<<"function", <<"self">> \o t[4], FALSE, t[5]>>>>,
                                            env))
             [] k = "return" -> LET r == Evs(x, t[2], env)
                                IN  [r EXCEPT !.sig = "return"]
             [] k = "break" -> [x EXCEPT !.sig = "break"]

Meaning(p) ==
  LET x == Run([v |-> <<>>, sig |-> "go", cells |-> <<>>, cls |-> <<>>, tabs |-> <<>>,
                glob |-> Globals, out |-> <<>>, err |-> FALSE],
               p, Update(NoKeys, "...", <<>>))
  IN  [x EXCEPT !.v = IF x.sig = "return" THEN @ ELSE <<>>]
=============================================================================

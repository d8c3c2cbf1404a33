---------------------------- MODULE LuaPrograms ----------------------------
\* Programs for LuaVM: all expressions of a small depth in the places where the
\* compiler treats them differently, and programs for the other constructs.
EXTENDS Integers, Sequences

N(x) == <<"name", x>>
Lit(n) == <<"num", n>>
St(x) == <<"str", x>>
Bin(op, l, r) == <<"bin", op, l, r>>
Not(e) == <<"un", "not", e>>
P(e) == <<"paren", e>>
Call(f, es) == <<"call", N(f), es>>
Do(e) == <<"callst", e>>
Local(x, e) == <<"local", <<x>>, <<e>>>>
Assign(t, e) == <<"assign", <<t>>, <<e>>>>
Ret_(es) == <<"return", es>>
Idx(t, k) == <<"index", t, k>>
Fun(ps, body) == <<"function", ps, FALSE, body>>

Logic == {"and", "or"}
Deep(A) ==
  LET ops == {Bin(op, l, r) : op \in Logic, l \in A, r \in A}
             \cup {Bin("==", N("a"), N("b"))}
      nots == {Not(l) : l \in A}
      d1 == {P(e) : e \in ops} \cup nots
  IN  {Bin(op, l, r) : op \in Logic, l \in d1 \cup A, r \in d1 \cup A}
      \cup {Not(e) : e \in d1} \cup ops
\* body for a and b true and false; g is a global variable.
ForAll(body) ==
  <<Assign(N("g"), Lit(5)), <<"localfun", "f", <<"a", "b">>, body>>,
    Do(Call("p", <<Call("f", <<<<"nil">>, <<"false">>>>)>>)),
    Do(Call("p", <<Call("f", <<<<"nil">>, Lit(2)>>)>>)),
    Do(Call("p", <<Call("f", <<Lit(1), <<"false">>>>)>>)), Ret_(<<Call("f", <<Lit(1), Lit(2)>>)>>)>>
InPlace(where, e) ==
  CASE where = "return" -> <<Ret_(<<e>>)>>
    [] where = "argument" -> <<Do(Call("p", <<e, Lit(3)>>))>>
    [] where = "condition" ->
         <<<<"if", <<<<e, <<Do(Call("p", <<Lit(1)>>))>>>>>>, <<Do(Call("p", <<Lit(2)>>))>>>>>>
    [] where = "value" -> <<Assign(N("a"), e), Ret_(<<N("a")>>)>>
ExpPrograms(A) == {ForAll(InPlace(where, e)) :
                     where \in {"return", "argument", "condition", "value"}, e \in Deep(A)}

\* Chains of binary operators, grouped as the manual says (2.5.6).
Level(op) == CASE op = "or" -> 1 [] op = "and" -> 2 [] op \in {"==", "<", ">="} -> 3
               [] op = ".." -> 4 [] op \in {"+", "-"} -> 5 [] op = "*" -> 6 [] op = "^" -> 8
RECURSIVE Tree(_, _)
Tree(xs, ops) ==
  LET low == {i \in DOMAIN ops : \A j \in DOMAIN ops : Level(ops[i]) <= Level(ops[j])}
      i == IF ops[CHOOSE k \in low : TRUE] \in {"..", "^"}
           THEN CHOOSE k \in low : \A j \in low : k <= j
           ELSE CHOOSE k \in low : \A j \in low : k >= j
  IN  IF ops = <<>> THEN xs[1]
      ELSE Bin(ops[i], Tree(SubSeq(xs, 1, i), SubSeq(ops, 1, i - 1)),
               Tree(SubSeq(xs, i + 1, Len(xs)), SubSeq(ops, i + 1, Len(ops))))
Chain(xs) == {Tree(xs, <<o1, o2, o3>>) :
                o1, o2, o3 \in {"+", "-", "*", "^", "==", "<", ">=", "and", "or", ".."}}
Numbers == <<Lit(2), N("a"), Lit(2), Lit(2)>>
StringOperands == <<St("x"), N("b"), N("b"), St("y")>>
Chains == {<<Local("a", Lit(1)), Local("b", St("z")), Ret_(<<e>>)>> :
             e \in Chain(Numbers) \cup
                   {Tree(StringOperands, <<o1, o2, o3>>) : o1, o2, o3 \in {"..", "==", "and"}}}

\* Closures made in loops, with break, and the end of each scope.
Counter == Fun(<<>>, <<Assign(N("c"), Bin("+", N("c"), Lit(1))), Ret_(<<N("c")>>)>>)
LoopBody(cond) ==
  <<Local("c", N("i")), <<"do", <<Assign(Idx(N("t"), N("i")), Counter)>>>>,
    <<"if", <<<<cond, <<<<"break">>>>>>>>, <<>>>>>>
CallAll == <<Do(Call("p", <<<<"call", Idx(N("t"), Lit(1)), <<>>>>,
                           <<"call", Idx(N("t"), Lit(1)), <<>>>>,
                           <<"call", Idx(N("t"), Lit(2)), <<>>>>>>))>>
Inc == Assign(N("i"), Bin("+", N("i"), Lit(1)))
LoopOver(loop) == <<Local("t", <<"table", <<>>>>), Local("i", Lit(0))>> \o <<loop>> \o CallAll
Loops_(cond) ==
  {LoopOver(l) :
     l \in {<<"while", Bin("<", N("i"), Lit(3)), <<Inc>> \o LoopBody(cond)>>,
            <<"repeat", <<Inc>> \o LoopBody(cond), Bin(">=", N("c"), Lit(2))>>,
            <<"repeat", <<Inc>> \o LoopBody(cond), Bin(">=", N("i"), Lit(3))>>,
            <<"for", "i", <<Lit(1), Lit(3)>>, LoopBody(cond)>>,
            <<"for", "i", <<Lit(3), Lit(1), <<"un", "-", Lit(1)>>>>, LoopBody(cond)>>,
            <<"forin", <<"i", "j">>, <<N("it"), Lit(3), Lit(0)>>, LoopBody(cond)>>,
            <<"for", "i", <<Lit(1), Lit(2)>>, <<<<"do", LoopBody(cond)>>,
                                               Do(Call("p", <<N("i")>>))>>>>}}
Conds == {Bin("==", N("i"), Lit(2)), <<"false">>, Bin("and", N("i"), Bin(">=", N("c"), Lit(9)))}

\* Assignments to several targets, one of which another one uses.
Targets_ == {N("i"), N("t"), N("u"), Idx(N("t"), N("i")), Idx(N("u"), N("i")),
             Idx(N("t"), Lit(2))}
Table(es) == <<"table", [j \in DOMAIN es |-> <<"item", es[j]>>]>>
Values == {<<N("i"), N("u")>>, <<Lit(2), N("t")>>, <<Call("p", <<Lit(2), N("t")>>)>>,
           <<Lit(3)>>, <<N("u"), Lit(2), Lit(1)>>}
Assignments ==
  {<<Local("i", Lit(1)), Local("t", Table(<<Lit(1), Lit(2), Lit(3)>>)), Local("u", N("t")),
     Local("v", N("t")), <<"assign", <<x, y>>, vs>>,
     <<"if", <<<<Bin("==", N("t"), N("u")), <<Do(Call("p", <<N("i")>>))>>>>>>, <<>>>>,
     Ret_(<<Idx(N("v"), Lit(1)), Idx(N("v"), Lit(2)), N("i"), Bin("==", N("v"), N("t"))>>)>> :
      x \in Targets_, y \in Targets_, vs \in Values}

\* Several values from calls and varargs; tail calls; methods; constructors.
Dots == <<"...">>
Va(body) == <<"local", <<"f">>, <<<<"function", <<"x">>, TRUE, body>>>>>>
Lists == {<<Dots>>, <<N("x"), Dots>>, <<Dots, N("x")>>, <<P(Dots)>>, <<Call("p", <<Dots>>)>>,
          <<Call("p", <<Dots>>), Lit(7)>>, <<Lit(1), Lit(2), Call("p", <<Dots, Dots>>)>>}
Multiple ==
  UNION {{<<Va(<<Ret_(es)>>), Ret_(<<Call("f", as)>>)>>,
          <<Va(<<<<"local", <<"y", "z", "w">>, es>>, Ret_(<<N("w"), N("z"), N("y")>>)>>),
            Do(Call("p", <<Call("f", as), Lit(9)>>)), Ret_(<<P(Call("f", as))>>)>>,
          <<Va(<<Local("y", Table(es)), Do(Call("p", <<Idx(N("y"), Lit(3))>>)),
                 Ret_(<<<<"un", "#", N("y")>>>>)>>), Ret_(<<Call("f", as)>>)>>} :
           es \in Lists, as \in {<<>>, <<Lit(1), Lit(2)>>, <<Lit(1), Lit(2), Lit(3), Lit(4)>>}}
If1(c, yes, no) == <<"if", <<<<c, yes>>>>, no>>
Times == <<"localfun", "f", <<"n", "r">>,
           <<If1(Bin("==", N("n"), Lit(0)), <<Ret_(<<N("r")>>)>>, <<>>),
             Local("k", N("n")), Assign(N("g"), Fun(<<>>, <<Ret_(<<N("k"), N("r")>>)>>)),
             Ret_(<<Call("f", <<Bin("-", N("n"), Lit(1)), Bin("*", N("r"), Lit(2))>>)>>)>>>>
Method == <<"method", N("t"), "add", <<"d">>,
            <<Assign(<<"field", N("self"), "n">>,
                     Bin("+", <<"field", N("self"), "n">>, N("d"))), Ret_(<<N("self")>>)>>>>
Add(o, d) == <<"method", o, "add", <<Lit(d)>>>>
Others_ ==
  {<<Times, Do(Call("p", <<Call("f", <<Lit(3), Lit(1)>>)>>)), Ret_(<<Call("g", <<>>)>>)>>,
   <<Local("t", <<"table", <<<<"rec", St("n"), Lit(1)>>>>>>), Method,
     Ret_(<<<<"field", Add(Add(N("t"), 2), 3), "n">>>>)>>,
   <<Local("t", <<"table", <<<<"item", Lit(1)>>, <<"rec", Lit(9), Lit(9)>>, <<"item", Lit(2)>>,
                             <<"rec", St("k"), Call("p", <<Lit(4)>>)>>,
                             <<"item", Lit(3)>>, <<"item", Lit(4)>>,
                             <<"item", Call("p", <<Lit(5), Lit(6)>>)>>>>>>),
     Ret_(<<<<"un", "#", N("t")>>, Idx(N("t"), Lit(6)), <<"field", N("t"), "k">>>>)>>,
   <<<<"do", <<<<"local", <<"a", "b">>, <<Lit(1), Lit(2)>>>>>>>>, <<"local", <<"a">>, <<>>>>,
     <<"local", <<"b">>, <<>>>>, Ret_(<<N("a"), N("b")>>)>>,
   <<Local("a", Lit(2)), Ret_(<<Bin("^", P(Bin("-", Lit(0), Lit(2))), Lit(2))>>)>>,
   <<Local("a", Lit(2)), Ret_(<<<<"un", "-", Bin("^", N("a"), Lit(2))>>,
                              Not(Bin("==", P(Not(N("a"))), <<"false">>))>>)>>,
   <<Local("x", Lit(1)),
     <<"localfun", "f", <<>>, <<<<"localfun", "h", <<>>, <<Assign(N("x"), Bin("+", N("x"), Lit(1)))>>>>,
                                Do(Call("h", <<>>)), Ret_(<<N("x"), N("h")>>)>>>>,
     <<"local", <<"y", "h">>, <<Call("f", <<>>)>>>>, Do(Call("h", <<>>)), Ret_(<<N("x"), N("y")>>)>>,
   <<<<"funst", N("h"), <<"a">>,
       <<<<"if", <<<<Bin("==", N("a"), Lit(1)), <<Ret_(<<Lit(10)>>)>>>>,
                   <<Bin("==", N("a"), Lit(2)), <<Local("z", Lit(20)), Ret_(<<N("z")>>)>>>>>>,
         <<Ret_(<<Lit(30)>>)>>>>>>>>,
     Ret_(<<Call("h", <<Lit(1)>>), Call("h", <<Lit(2)>>), Call("h", <<Lit(3)>>)>>)>>,
   <<<<"local", <<"a">>, <<>>>>, Do(Call("p", <<Lit(1)>>)), Ret_(<<Bin("+", N("a"), Lit(1))>>)>>}

AllPrograms == ExpPrograms({N("a"), N("b")}) \cup Chains \cup UNION {Loops_(c) : c \in Conds}
              \cup Assignments \cup Multiple \cup Others_
=============================================================================

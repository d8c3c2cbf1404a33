-------------------------- MODULE LuaRuntimeProofs --------------------------
(***************************************************************************)
(* Proofs about three machines of the embedded Lua, which share no state.  *)
(*                                                                         *)
(* require and the libraries it loads: for any number of modules, whatever *)
(* files there are for them, and chunks nested to any depth.               *)
(*                                                                         *)
(* Calls, errors and coroutines: for any number of coroutines, any limit   *)
(* of the C stack, and frames nested to any depth.  The argument: a count  *)
(* of the calls from C up to each frame of each thread of the chain        *)
(* (IsCount), which nCcalls of a thread that runs or waits is, and which   *)
(* each handler has put aside for the frame that it goes back to; Framed   *)
(* says how handlers and frames match, and Rests what a coroutine is that  *)
(* nobody has resumed.                                                     *)
(*                                                                         *)
(* Tables: for any keys, hashes and sizes.  The argument: the nodes are    *)
(* chained without cycles, every key is in the chain of its main position, *)
(* whose node belongs to that chain, none is there twice, and every node   *)
(* from lastfree on is taken (Good); so a key is found where it was put,   *)
(* and a re-sized table has a node for each key that is put back.          *)
(***************************************************************************)
EXTENDS LuaLoader, LuaCall, LuaTable, SequenceTheorems, FiniteSetTheorems,
        WellFoundedInduction, TLAPS

\* What there is for each name, and the names in front of the first dot.
LoaderConstants ==
  /\ Worlds \subseteq [Names -> Files]
  /\ Root \in [Names -> Names]

Values == {"nil", "false", "true", "table", "sentinel"}
Handles == {"none", "null", "open", "closed"}
Chunks == [name : Names, from : Names \cup {"lua"}, assigned : BOOLEAN]
Entries == {"lib", "obj"} \X Names
State ==
  [files : [Names -> Files], loaded : [Names -> Values], preload : SUBSET Names,
   handle : [Names -> Handles], udata : Seq(Entries), run : Seq(Chunks), open : BOOLEAN]

\* A chunk that is running is marked in package.loaded, if the program has not
\* written to its entry since.
Marked(x) ==
  \A i \in DOMAIN x.run :
    ~x.run[i].assigned => x.loaded[x.run[i].name] = "sentinel"
NotTwice(x) ==
  \A i, j \in DOMAIN x.run :
    i < j /\ x.run[i].name = x.run[j].name => x.run[i].assigned

\* A library that was asked for has an entry, and only one, ...
IsLib(x, i, p) == i \in DOMAIN x.udata /\ x.udata[i] = <<"lib", p>>
LibOnce(x) ==
  \A p \in Names :
    /\ x.handle[p] = "none" => \A i \in DOMAIN x.udata : ~IsLib(x, i, p)
    /\ x.handle[p] \in {"null", "open"} => \E i \in DOMAIN x.udata : IsLib(x, i, p)
    /\ \A i, j \in DOMAIN x.udata : IsLib(x, i, p) /\ IsLib(x, j, p) => i = j
\* ... and is older than the objects that have their finalizers in it.
LibOlder(x) ==
  \A p \in Names : \A i \in DOMAIN x.udata :
    x.udata[i] = <<"obj", p>> =>
      x.handle[p] = "open" /\ \E j \in DOMAIN x.udata : j < i /\ IsLib(x, j, p)

RunInv(x) == Marked(x) /\ NotTwice(x)
LibInv(x) == LibOnce(x) /\ LibOlder(x)
LoaderInv(x) == x \in State /\ RunInv(x) /\ LibInv(x)
-----------------------------------------------------------------------------
LEMMA Prefix ==
  ASSUME NEW S, NEW q \in Seq(S), NEW d \in 0..Len(q)
  PROVE  LET r == SubSeq(q, 1, d)
         IN  r \in Seq(S) /\ Len(r) = d /\ \A i \in 1..d : r[i] = q[i]
  OBVIOUS

LEMMA FrontIs ==
  ASSUME NEW S, NEW q \in Seq(S), q # <<>>
  PROVE  LET r == Front(q)
         IN  /\ r \in Seq(S)
             /\ Len(r) = Len(q) - 1
             /\ \A i \in 1..Len(r) : r[i] = q[i]
             /\ Last(q) \in S
             /\ Last(q) = q[Len(q)]
<1>1. Len(q) \in Nat \ {0} /\ Len(q) - 1 \in 0..Len(q)
  OBVIOUS
<1>2. Last(q) \in S
  BY <1>1, ElementOfSeq DEF Last
<1> QED
  BY <1>1, <1>2, Prefix DEF Front, Last

LEMMA RemovedAt ==
  ASSUME NEW S, NEW q \in Seq(S), NEW k \in DOMAIN q
  PROVE  LET r == RemoveAt(q, k)
         IN  /\ r \in Seq(S)
             /\ Len(r) = Len(q) - 1
             /\ \A i \in 1..Len(r) : r[i] = IF i < k THEN q[i] ELSE q[i + 1]
<1> DEFINE a == SubSeq(q, 1, k - 1)
           b == SubSeq(q, k + 1, Len(q))
<1>1. k \in 1..Len(q)
  OBVIOUS
<1>2. a \in Seq(S) /\ Len(a) = k - 1 /\ \A i \in 1..(k - 1) : a[i] = q[i]
  BY <1>1
<1>3. b \in Seq(S) /\ Len(b) = Len(q) - k /\ \A i \in 1..(Len(q) - k) : b[i] = q[k + i]
  BY <1>1
<1> DEFINE r == a \o b
<1>4. RemoveAt(q, k) = r
  BY DEF RemoveAt
<1> HIDE DEF a, b
<1>5. r \in Seq(S) /\ Len(r) = Len(q) - 1
  BY <1>1, <1>2, <1>3
<1>6. ASSUME NEW i \in 1..Len(r)
      PROVE  r[i] = IF i < k THEN q[i] ELSE q[i + 1]
  <2>1. CASE i < k
    BY <1>1, <1>2, <1>3, <1>5, <2>1
  <2>2. CASE ~(i < k)
    <3>1. i - (k - 1) \in 1..(Len(q) - k) /\ k + (i - (k - 1)) = i + 1
      BY <1>1, <1>5, <2>2
    <3>2. r[i] = b[i - (k - 1)]
      <4>1. i \in 1..(Len(a) + Len(b)) /\ ~(i <= Len(a))
        BY <1>1, <1>2, <1>3, <1>5, <2>2
      <4>2. r[i] = IF i <= Len(a) THEN a[i] ELSE b[i - Len(a)]
        BY <1>2, <1>3, <4>1, ConcatProperties
      <4> QED
        BY <1>2, <4>1, <4>2
    <3> QED
      BY <1>3, <2>2, <3>1, <3>2
  <2> QED
    BY <2>1, <2>2
<1> HIDE DEF r
<1> QED
  BY <1>4, <1>5, <1>6
-----------------------------------------------------------------------------
\* x differs from y in the libraries only.
SameRun(x, y) == x.loaded = y.loaded /\ x.run = y.run

\* ll_register's new entry.
LEMMA Registered ==
  ASSUME NEW x \in State, NEW p \in Names
  PROVE  LET y == [x EXCEPT !.handle[p] = "null", !.udata = Append(@, <<"lib", p>>)]
         IN  /\ y \in State
             /\ SameRun(y, x)
             /\ y.handle = [x.handle EXCEPT ![p] = "null"]
             /\ y.udata = Append(x.udata, <<"lib", p>>)
<1> DEFINE h == [x.handle EXCEPT ![p] = "null"]
           u == Append(x.udata, <<"lib", p>>)
<1>1. x.handle \in [Names -> Handles] /\ x.udata \in Seq(Entries)
  BY DEF State
<1>2. h \in [Names -> Handles]
  BY <1>1 DEF Handles
<1>3. u \in Seq(Entries)
  <2>1. <<"lib", p>> \in Entries
    BY DEF Entries
  <2> HIDE DEF Entries
  <2> QED
    BY <1>1, <2>1
<1>4. [x EXCEPT !.handle[p] = "null", !.udata = Append(@, <<"lib", p>>)]
        = [x EXCEPT !.handle = h, !.udata = u]
  BY DEF State
<1> HIDE DEF h, u
<1>5. LET y == [x EXCEPT !.handle = h, !.udata = u]
      IN  y \in State /\ y.handle = h /\ y.udata = u /\ y.loaded = x.loaded /\ y.run = x.run
  BY <1>2, <1>3 DEF State
<1> QED
  BY <1>4, <1>5 DEF h, u, SameRun

\* A new value of a library's handle.
LEMMA HandleSet ==
  ASSUME NEW x \in State, NEW p \in Names, NEW v \in Handles
  PROVE  LET y == [x EXCEPT !.handle[p] = v]
         IN  /\ y \in State
             /\ SameRun(y, x)
             /\ y.handle = [x.handle EXCEPT ![p] = v]
             /\ y.udata = x.udata
<1> DEFINE h == [x.handle EXCEPT ![p] = v]
<1>1. h \in [Names -> Handles]
  BY DEF State
<1>2. [x EXCEPT !.handle[p] = v] = [x EXCEPT !.handle = h]
  OBVIOUS
<1> HIDE DEF h
<1>3. LET y == [x EXCEPT !.handle = h]
      IN  y \in State /\ y.handle = h /\ y.udata = x.udata /\ y.loaded = x.loaded /\ y.run = x.run
  BY <1>1 DEF State
<1> QED
  BY <1>2, <1>3 DEF h, SameRun

(***************************************************************************)
(* LoadFunc registers a library that has no entry yet, and may open it.    *)
(***************************************************************************)
LEMMA LoadKeeps ==
  ASSUME NEW x \in State, LibInv(x), NEW p \in Names, NEW sym
  PROVE  LET y == LoadFunc(x, p, sym).x
         IN  y \in State /\ SameRun(y, x) /\ LibInv(y)
<1> DEFINE reg == IF x.handle[p] # "none" THEN x
                  ELSE [x EXCEPT !.handle[p] = "null", !.udata = Append(@, <<"lib", p>>)]
           ld == IF reg.handle[p] = "null" /\ x.files[p].lib = "ok"
                 THEN [reg EXCEPT !.handle[p] = "open"] ELSE reg
<1>1. LoadFunc(x, p, sym).x = ld
  BY DEF LoadFunc
<1>2. reg \in State /\ SameRun(reg, x) /\ LibInv(reg)
  <2>1. CASE x.handle[p] # "none"
    BY <2>1 DEF SameRun
  <2>2. CASE x.handle[p] = "none"
    <3> DEFINE n == Len(x.udata)
    <3>1. x.handle \in [Names -> Handles] /\ n \in Nat /\ DOMAIN x.udata = 1..n
      BY DEF State
    <3>2. /\ reg \in State /\ SameRun(reg, x)
          /\ reg.handle = [x.handle EXCEPT ![p] = "null"]
          /\ reg.udata = Append(x.udata, <<"lib", p>>)
      BY <2>2, Registered
    <3> HIDE DEF reg
    <3>3. x.udata \in Seq(Entries)
      BY DEF State
    <3>4. /\ DOMAIN reg.udata = 1..(n + 1)
          /\ \A i \in 1..n : reg.udata[i] = x.udata[i]
          /\ reg.udata[n + 1] = <<"lib", p>>
      BY <3>2, <3>3
    <3> HIDE DEF n
    <3>5. ASSUME NEW q \in Names, NEW i \in 1..(n + 1)
          PROVE  IsLib(reg, i, q) <=> IsLib(x, i, q) \/ (i = n + 1 /\ q = p)
      BY <3>1, <3>4 DEF IsLib
    <3>6. LibOnce(reg)
      <4> SUFFICES ASSUME NEW q \in Names
                   PROVE  /\ reg.handle[q] = "none" => \A i \in 1..(n + 1) : ~IsLib(reg, i, q)
                          /\ reg.handle[q] \in {"null", "open"} =>
                               \E i \in 1..(n + 1) : IsLib(reg, i, q)
                          /\ \A i, j \in 1..(n + 1) :
                               IsLib(reg, i, q) /\ IsLib(reg, j, q) => i = j
        BY <3>4 DEF LibOnce
      <4>1. CASE q = p
        <5>1. \A i \in 1..(n + 1) : ~IsLib(x, i, p)
          BY <2>2, <3>1 DEF LibInv, LibOnce, IsLib
        <5> QED
          BY <3>1, <3>2, <3>5, <4>1, <5>1
      <4>2. CASE q # p
        <5>1. reg.handle[q] = x.handle[q]
          BY <3>1, <3>2, <4>2
        <5>2. \A i \in 1..(n + 1) : IsLib(reg, i, q) <=> IsLib(x, i, q)
          BY <3>5, <4>2
        <5>3. \A i : IsLib(x, i, q) => i \in 1..n
          BY <3>1 DEF IsLib
        <5>4. /\ x.handle[q] = "none" => \A i \in 1..n : ~IsLib(x, i, q)
              /\ x.handle[q] \in {"null", "open"} => \E i \in 1..n : IsLib(x, i, q)
              /\ \A i, j \in 1..n : IsLib(x, i, q) /\ IsLib(x, j, q) => i = j
          BY <3>1 DEF LibInv, LibOnce
        <5> QED
          BY <3>1, <5>1, <5>2, <5>3, <5>4
      <4> QED
        BY <4>1, <4>2
    <3>7. LibOlder(reg)
      <4> SUFFICES ASSUME NEW q \in Names, NEW i \in 1..(n + 1), reg.udata[i] = <<"obj", q>>
                   PROVE  /\ reg.handle[q] = "open"
                          /\ \E j \in 1..(n + 1) : j < i /\ IsLib(reg, j, q)
        BY <3>4 DEF LibOlder
      <4>1. i \in 1..n /\ x.udata[i] = <<"obj", q>>
        BY <3>1, <3>4
      <4>2. x.handle[q] = "open" /\ \E j \in 1..n : j < i /\ IsLib(x, j, q)
        BY <3>1, <4>1 DEF LibInv, LibOlder
      <4>3. q # p
        BY <2>2, <4>2
      <4> QED
        BY <3>1, <3>2, <3>5, <4>2, <4>3
    <3> QED
      BY <3>2, <3>6, <3>7 DEF LibInv
  <2> QED
    BY <2>1, <2>2
<1> HIDE DEF reg
<1>3. ld \in State /\ SameRun(ld, x) /\ LibInv(ld)
  <2>1. CASE ld = reg
    BY <1>2, <2>1
  <2>2. CASE reg.handle[p] = "null" /\ ld = [reg EXCEPT !.handle[p] = "open"]
    <3> HIDE DEF ld
    <3>1. /\ ld \in State /\ SameRun(ld, reg)
          /\ ld.handle = [reg.handle EXCEPT ![p] = "open"]
          /\ ld.udata = reg.udata
      <4>1. "open" \in Handles
        BY DEF Handles
      <4> QED
        BY <1>2, <2>2, <4>1, HandleSet
    <3>2. reg.handle \in [Names -> Handles]
      BY <1>2 DEF State
    <3>3. \A q \in Names : \A i : IsLib(ld, i, q) <=> IsLib(reg, i, q)
      BY <3>1 DEF IsLib
    <3>4. LibOnce(ld)
      BY <1>2, <2>2, <3>1, <3>2, <3>3 DEF LibInv, LibOnce
    <3>5. LibOlder(ld)
      BY <1>2, <2>2, <3>1, <3>2, <3>3 DEF LibInv, LibOlder
    <3> QED
      BY <1>2, <3>1, <3>4, <3>5 DEF SameRun, LibInv
  <2> QED
    BY <2>1, <2>2
<1> HIDE DEF ld
<1> QED
  BY <1>1, <1>3

LEMMA RunKept ==
  ASSUME NEW x, LoaderInv(x), NEW y \in State, SameRun(y, x), LibInv(y)
  PROVE  LoaderInv(y)
  BY DEF LoaderInv, SameRun, RunInv, Marked, NotTwice

LEMMA LibsKept ==
  ASSUME NEW x, LibInv(x), NEW y, y.handle = x.handle, y.udata = x.udata
  PROVE  LibInv(y)
<1>1. \A i, p : IsLib(y, i, p) <=> IsLib(x, i, p)
  BY DEF IsLib
<1>2. LibOnce(y)
  BY <1>1 DEF LibInv, LibOnce
<1>3. LibOlder(y)
  BY <1>1 DEF LibInv, LibOlder
<1>4. QED
  BY <1>2, <1>3 DEF LibInv

(***************************************************************************)
(* The searchers of package.loaders load libraries and nothing else.       *)
(***************************************************************************)
LEMMA SearchKeeps ==
  ASSUME LoaderConstants, NEW x, LoaderInv(x), NEW n \in Names
  PROVE  LET r == Search(x, n)
         IN  /\ LoaderInv(r.x)
             /\ SameRun(r.x, x)
             /\ r.from \in Names \cup {"lua"}
<1> DEFINE Good(y) == y \in State /\ SameRun(y, x) /\ LibInv(y)
           own == LoadFunc(x, n, n)
           default == LoadFunc(own.x, n, Default)
           c == LoaderC(x, n)
           r == LoadFunc(c.x, Root[n], n)
           all == LoaderCroot(c.x, n)
<1>1. Good(x)
  BY DEF LoaderInv, SameRun
<1>2. ASSUME NEW y, Good(y), NEW p \in Names, NEW sym
      PROVE  Good(LoadFunc(y, p, sym).x)
  BY <1>2, LoadKeeps DEF SameRun
<1> HIDE DEF Good
<1>3. Good(own.x) /\ Good(default.x)
  BY <1>1, <1>2
<1>4. Good(c.x) /\ c.from = n
  BY <1>1, <1>3 DEF LoaderC, Got
<1>5. Root[n] \in Names
  BY DEF LoaderConstants
<1> HIDE DEF c
<1>6. Good(r.x)
  BY <1>2, <1>4, <1>5
<1>7. Good(all.x) /\ all.from \in Names
  BY <1>4, <1>5, <1>6 DEF LoaderCroot, Got
<1> HIDE DEF own, default, r, all
<1>8. Good(LoaderPreload(x, n).x) /\ LoaderPreload(x, n).from = "lua"
  BY <1>1 DEF LoaderPreload, Got
<1>9. Good(LoaderLua(x, n).x) /\ LoaderLua(x, n).from = "lua"
  BY <1>1 DEF LoaderLua, Got
<1>10. Search(x, n) \in {LoaderPreload(x, n), LoaderLua(x, n), c, all}
  BY DEF Search, c, all
<1>11. Good(Search(x, n).x) /\ Search(x, n).from \in Names \cup {"lua"}
  BY <1>4, <1>7, <1>8, <1>9, <1>10
<1> QED
  BY <1>11, RunKept DEF Good

(***************************************************************************)
(* A prefix of the running chunks satisfies what all of them do.           *)
(***************************************************************************)
LEMMA PrefixKeeps ==
  ASSUME NEW x, LoaderInv(x), NEW d \in 0..Len(x.run)
  PROVE  LoaderInv([x EXCEPT !.run = SubSeq(@, 1, d)])
<1> DEFINE q == SubSeq(x.run, 1, d)
           y == [x EXCEPT !.run = q]
<1>1. x \in State /\ x.run \in Seq(Chunks)
  BY DEF LoaderInv, State
<1>2. q \in Seq(Chunks) /\ Len(q) = d /\ \A i \in 1..d : q[i] = x.run[i]
  BY <1>1, Prefix
<1>3. DOMAIN q = 1..d /\ 1..d \subseteq DOMAIN x.run
  BY <1>1, <1>2
<1> HIDE DEF q
<1>4. /\ y \in State /\ y.run = q /\ y.loaded = x.loaded
      /\ y.handle = x.handle /\ y.udata = x.udata
  BY <1>1, <1>2 DEF State
<1> HIDE DEF y
<1>5. RunInv(y)
  BY <1>2, <1>3, <1>4 DEF LoaderInv, RunInv, Marked, NotTwice
<1>6. LibInv(y)
  BY <1>4, LibsKept DEF LoaderInv
<1> QED
  BY <1>4, <1>5, <1>6 DEF LoaderInv, y, q

LEMMA RaisedKeeps ==
  ASSUME NEW x, LoaderInv(x), NEW y \in Raised(x)
  PROVE  LoaderInv(y)
  BY PrefixKeeps DEF Raised

(***************************************************************************)
(* Once the program has written to an entry, no running chunk of it is     *)
(* bound to it any more.                                                   *)
(***************************************************************************)
LEMMA AssignKeeps ==
  ASSUME NEW x, LoaderInv(x), NEW n \in Names, NEW v \in Values
  PROVE  LoaderInv(Assign(x, n, v))
<1> DEFINE l == [x.loaded EXCEPT ![n] = v]
           q == [i \in DOMAIN x.run |->
                   IF x.run[i].name = n THEN [x.run[i] EXCEPT !.assigned = TRUE] ELSE x.run[i]]
           y == [x EXCEPT !.loaded = l, !.run = q]
<1>1. x \in State /\ x.run \in Seq(Chunks) /\ x.loaded \in [Names -> Values]
  BY DEF LoaderInv, State
<1>2. Assign(x, n, v) = y
  BY <1>1 DEF Assign, State
<1>3. \A i \in DOMAIN x.run : x.run[i] \in Chunks
  BY <1>1
<1>4. ASSUME NEW i \in DOMAIN x.run
      PROVE  /\ q[i] \in Chunks
             /\ q[i].name = x.run[i].name
             /\ q[i].assigned = (x.run[i].name = n \/ x.run[i].assigned)
  <2>1. x.run[i] \in Chunks
    BY <1>3
  <2>2. CASE x.run[i].name = n
    BY <2>1, <2>2 DEF Chunks
  <2>3. CASE x.run[i].name # n
    BY <2>1, <2>3 DEF Chunks
  <2> QED
    BY <2>2, <2>3
<1>5. DOMAIN q = DOMAIN x.run
  OBVIOUS
<1>6. q \in Seq(Chunks)
  <2>1. DOMAIN x.run = 1..Len(x.run) /\ Len(x.run) \in Nat
    BY <1>1
  <2>2. q = [i \in 1..Len(x.run) |-> q[i]]
    BY <2>1
  <2> HIDE DEF q
  <2>3. q \in [1..Len(x.run) -> Chunks]
    BY <1>4, <2>1, <2>2
  <2> QED
    BY <2>1, <2>3, SeqDef
<1> HIDE DEF q
<1>7. l \in [Names -> Values]
  BY <1>1
<1> HIDE DEF l
<1>8. /\ y \in State /\ y.run = q /\ y.loaded = l
      /\ y.handle = x.handle /\ y.udata = x.udata
  BY <1>1, <1>6, <1>7 DEF State
<1> HIDE DEF y
<1>9. Marked(y)
  BY <1>1, <1>3, <1>4, <1>5, <1>8 DEF LoaderInv, RunInv, Marked, l, Chunks
<1>10. NotTwice(y)
  BY <1>4, <1>5, <1>8 DEF LoaderInv, RunInv, NotTwice
<1>11. LibInv(y)
  BY <1>8, LibsKept DEF LoaderInv
<1> QED
  BY <1>2, <1>8, <1>9, <1>10, <1>11 DEF LoaderInv, RunInv
-----------------------------------------------------------------------------
LEMMA InitHolds == ASSUME LoaderConstants, Init PROVE LoaderInv(s)
<1> PICK f \in Worlds :
      s = [files |-> f, loaded |-> [n \in Names |-> "nil"], preload |-> {},
           handle |-> [n \in Names |-> "none"], udata |-> <<>>, run |-> <<>>, open |-> TRUE]
  BY DEF Init
<1>1. s \in State
  BY DEF LoaderConstants, State, Values, Handles
<1>2. RunInv(s)
  BY DEF RunInv, Marked, NotTwice
<1>3. LibInv(s)
  BY DEF LibInv, LibOnce, LibOlder, IsLib
<1> QED
  BY <1>1, <1>2, <1>3 DEF LoaderInv

LEMMA RequireHolds ==
  ASSUME LoaderConstants, LoaderInv(s), NEW n \in Names, Require(n)
  PROVE  LoaderInv(s')
<1> DEFINE r == Search(s, n)
           ch == [name |-> n, from |-> r.from, assigned |-> FALSE]
           y == [r.x EXCEPT !.loaded[n] = "sentinel", !.run = Append(@, ch)]
<1>1. LoaderInv(r.x) /\ SameRun(r.x, s) /\ r.from \in Names \cup {"lua"}
  BY SearchKeeps
<1> HIDE DEF r
<1>2. \/ s' \in Raised(s)
      \/ s' \in Raised(r.x)
      \/ s.loaded[n] \in {"nil", "false"} /\ s' = y
  BY DEF Require, r
<1>3. CASE s' \in Raised(s)
  BY <1>3, RaisedKeeps
<1>4. CASE s' \in Raised(r.x)
  BY <1>1, <1>4, RaisedKeeps
<1>5. CASE s.loaded[n] \in {"nil", "false"} /\ s' = y
  <2> DEFINE x == r.x
             l == [x.loaded EXCEPT ![n] = "sentinel"]
             q == Append(x.run, ch)
             k == Len(x.run)
  <2>1. /\ x \in State /\ x.run \in Seq(Chunks) /\ x.loaded \in [Names -> Values]
        /\ k \in Nat /\ DOMAIN x.run = 1..k
        /\ \A i \in 1..k : x.run[i] \in Chunks
    BY <1>1 DEF LoaderInv, State
  <2>2. ch \in Chunks /\ ch.name = n /\ ~ch.assigned
    BY <1>1 DEF Chunks
  <2> HIDE DEF x, ch
  <2>3. y = [x EXCEPT !.loaded = l, !.run = q]
    BY <2>1 DEF State, x
  <2>4. l \in [Names -> Values]
    BY <2>1 DEF Values
  <2>5. /\ q \in Seq(Chunks) /\ DOMAIN q = 1..(k + 1)
        /\ \A i \in 1..k : q[i] = x.run[i]
        /\ q[k + 1] = ch
    BY <2>1, <2>2
  <2> HIDE DEF y, l, q, k
  <2>6. /\ s' \in State /\ s'.run = q /\ s'.loaded = l
        /\ s'.handle = x.handle /\ s'.udata = x.udata
    BY <1>5, <2>1, <2>3, <2>4, <2>5 DEF State
  <2>7. \A i \in 1..k : ~x.run[i].assigned => x.loaded[x.run[i].name] = "sentinel"
    BY <1>1, <2>1 DEF LoaderInv, RunInv, Marked, x
  <2>8. x.loaded[n] \in {"nil", "false"}
    BY <1>1, <1>5 DEF SameRun, x
  <2>9. \A i \in 1..k : x.run[i].name = n => x.run[i].assigned
    BY <2>7, <2>8
  <2>10. Marked(s')
    BY <2>1, <2>2, <2>5, <2>6, <2>7 DEF Marked, l, Chunks
  <2>11. NotTwice(s')
    <3>1. \A i, j \in 1..k :
            i < j /\ x.run[i].name = x.run[j].name => x.run[i].assigned
      BY <1>1, <2>1 DEF LoaderInv, RunInv, NotTwice, x
    <3> QED
      BY <2>1, <2>2, <2>5, <2>6, <2>9, <3>1 DEF NotTwice
  <2>12. LibInv(s')
    BY <1>1, <2>6, LibsKept DEF LoaderInv, x
  <2> QED
    BY <2>6, <2>10, <2>11, <2>12 DEF LoaderInv, RunInv
<1> QED
  BY <1>2, <1>3, <1>4, <1>5
LEMMA FrontKeeps ==
  ASSUME NEW x, LoaderInv(x), x.run # <<>>
  PROVE  /\ LoaderInv([x EXCEPT !.run = Front(@)])
         /\ Last(x.run).name \in Names
<1>1. x.run \in Seq(Chunks) /\ Len(x.run) - 1 \in 0..Len(x.run)
  BY DEF LoaderInv, State
<1>2. LoaderInv([x EXCEPT !.run = SubSeq(@, 1, Len(x.run) - 1)])
  BY <1>1, PrefixKeeps
<1>3. Last(x.run) \in Chunks
  BY <1>1, FrontIs
<1> QED
  BY <1>2, <1>3 DEF Front, Chunks

LEMMA FinishHolds ==
  ASSUME LoaderInv(s), NEW v \in {"nil", "false", "table"}, Finish(v)
  PROVE  LoaderInv(s')
<1> DEFINE n == Last(s.run).name
           x == [s EXCEPT !.run = Front(@)]
<1>1. LoaderInv(x) /\ n \in Names
  BY FrontKeeps DEF Finish
<1> HIDE DEF n, x
<1>2. v \in Values /\ "true" \in Values
  BY DEF Values
<1>3. s' \in {x, Assign(x, n, v), Assign(x, n, "true")}
  BY DEF Finish, n, x
<1> QED
  BY <1>1, <1>2, <1>3, AssignKeeps

LEMMA ModuleHolds ==
  ASSUME LoaderInv(s), NEW n \in Names, Module(n)
  PROVE  LoaderInv(s')
<1> DEFINE made == IF s.loaded[n] = "table" THEN s ELSE Assign(s, n, "table")
<1>1. LoaderInv(made)
  BY AssignKeeps DEF Values
<1>2. s' \in Raised(s) \/ s' = made \/ s' \in Raised(made)
  BY DEF Module
<1> HIDE DEF made
<1> QED
  BY <1>1, <1>2, RaisedKeeps

(***************************************************************************)
(* A userdata is new behind the entry of its library, and the entry goes   *)
(* only when nothing is left behind it.                                    *)
(***************************************************************************)
LEMMA UdataSet ==
  ASSUME NEW x \in State, NEW u \in Seq(Entries)
  PROVE  LET y == [x EXCEPT !.udata = u]
         IN  y \in State /\ SameRun(y, x) /\ y.handle = x.handle /\ y.udata = u
  BY DEF State, SameRun

LEMMA NewUdataHolds ==
  ASSUME LoaderInv(s), NEW p \in Names, NewUdata(p)
  PROVE  LoaderInv(s')
<1> DEFINE n == Len(s.udata)
           u == Append(s.udata, <<"obj", p>>)
<1>1. s \in State /\ s.udata \in Seq(Entries) /\ n \in Nat /\ DOMAIN s.udata = 1..n
  BY DEF LoaderInv, State
<1>2. /\ u \in Seq(Entries) /\ DOMAIN u = 1..(n + 1)
      /\ \A i \in 1..n : u[i] = s.udata[i]
      /\ u[n + 1] = <<"obj", p>>
  <2>1. <<"obj", p>> \in Entries
    BY DEF Entries
  <2> HIDE DEF Entries
  <2> QED
    BY <1>1, <2>1
<1>3. s' = [s EXCEPT !.udata = u] /\ s.handle[p] = "open"
  BY DEF NewUdata
<1> HIDE DEF u, n
<1>4. s' \in State /\ SameRun(s', s) /\ s'.handle = s.handle /\ s'.udata = u
  BY <1>1, <1>2, <1>3, UdataSet
<1>5. \A q \in Names : \A i : IsLib(s', i, q) <=> IsLib(s, i, q)
  BY <1>1, <1>2, <1>4 DEF IsLib
<1>6. \A q \in Names : \A i : IsLib(s, i, q) => i \in 1..n
  BY <1>1 DEF IsLib
<1>7. LibOnce(s')
  <2> SUFFICES ASSUME NEW q \in Names
               PROVE  /\ s.handle[q] = "none" => \A i \in 1..(n + 1) : ~IsLib(s', i, q)
                      /\ s.handle[q] \in {"null", "open"} =>
                           \E i \in 1..(n + 1) : IsLib(s', i, q)
                      /\ \A i, j \in 1..(n + 1) :
                           IsLib(s', i, q) /\ IsLib(s', j, q) => i = j
    BY <1>2, <1>4 DEF LibOnce
  <2>1. /\ s.handle[q] = "none" => \A i \in 1..n : ~IsLib(s, i, q)
        /\ s.handle[q] \in {"null", "open"} => \E i \in 1..n : IsLib(s, i, q)
        /\ \A i, j \in 1..n : IsLib(s, i, q) /\ IsLib(s, j, q) => i = j
    BY <1>1 DEF LoaderInv, LibInv, LibOnce
  <2> QED
    BY <1>1, <1>5, <1>6, <2>1
<1>8. LibOlder(s')
  <2> SUFFICES ASSUME NEW q \in Names, NEW i \in 1..(n + 1), u[i] = <<"obj", q>>
               PROVE  /\ s.handle[q] = "open"
                      /\ \E j \in 1..(n + 1) : j < i /\ IsLib(s', j, q)
    BY <1>2, <1>4 DEF LibOlder
  <2>1. CASE i = n + 1
    <3>1. q = p
      BY <1>2, <2>1
    <3>2. \E j \in 1..n : IsLib(s, j, p)
      BY <1>1, <1>3 DEF LoaderInv, LibInv, LibOnce
    <3> QED
      BY <1>1, <1>3, <1>5, <2>1, <3>1, <3>2
  <2>2. CASE i \in 1..n
    <3>1. s.handle[q] = "open" /\ \E j \in 1..n : j < i /\ IsLib(s, j, q)
      BY <1>1, <1>2, <2>2 DEF LoaderInv, LibInv, LibOlder
    <3> QED
      BY <1>1, <1>5, <3>1
  <2> QED
    BY <1>1, <2>1, <2>2
<1> QED
  BY <1>4, <1>7, <1>8, RunKept DEF LibInv

LEMMA CollectHolds ==
  ASSUME LoaderInv(s), NEW k \in DOMAIN s.udata, Collect(k)
  PROVE  LoaderInv(s')
<1> DEFINE n == Len(s.udata)
           u == RemoveAt(s.udata, k)
           To(i) == IF i < k THEN i ELSE i + 1
<1>1. s \in State /\ s.udata \in Seq(Entries) /\ n \in Nat /\ DOMAIN s.udata = 1..n
  BY DEF LoaderInv, State
<1>2. k \in 1..n
  BY <1>1
<1>3. /\ u \in Seq(Entries) /\ Len(u) = n - 1
      /\ \A i \in 1..(n - 1) : u[i] = IF i < k THEN s.udata[i] ELSE s.udata[i + 1]
  BY <1>1, RemovedAt
<1> HIDE DEF u
<1>4. DOMAIN u = 1..(n - 1)
  BY <1>3
<1>5. s' = [s EXCEPT !.udata = u] /\ s.udata[k][1] = "obj"
  BY DEF Collect, u
<1> HIDE DEF n
<1>6. s' \in State /\ SameRun(s', s) /\ s'.handle = s.handle /\ s'.udata = u
  BY <1>1, <1>3, <1>5, UdataSet
<1>7. ASSUME NEW i \in 1..(n - 1)
      PROVE  To(i) \in 1..n /\ To(i) # k /\ u[i] = s.udata[To(i)]
  BY <1>1, <1>2, <1>3
<1>8. ASSUME NEW j \in 1..n, j # k
      PROVE  \E i \in 1..(n - 1) : To(i) = j
  <2>1. CASE j < k
    BY <1>1, <1>2, <2>1
  <2>2. CASE j > k
    <3>1. j - 1 \in 1..(n - 1) /\ To(j - 1) = j
      BY <1>1, <1>2, <2>2
    <3> QED
      BY <3>1
  <2> QED
    BY <1>1, <1>2, <1>8, <2>1, <2>2
<1>9. \A i, j \in 1..(n - 1) : (To(i) = To(j) => i = j) /\ (To(i) < To(j) => i < j)
  BY <1>1, <1>2
<1> HIDE DEF To
<1>10. \A q \in Names : \A i \in 1..(n - 1) : IsLib(s', i, q) <=> IsLib(s, To(i), q)
  BY <1>1, <1>4, <1>6, <1>7 DEF IsLib
<1>11. \A q \in Names : ~IsLib(s, k, q)
  BY <1>5 DEF IsLib
<1>12. LibOnce(s')
  <2> SUFFICES ASSUME NEW q \in Names
               PROVE  /\ s.handle[q] = "none" => \A i \in 1..(n - 1) : ~IsLib(s', i, q)
                      /\ s.handle[q] \in {"null", "open"} =>
                           \E i \in 1..(n - 1) : IsLib(s', i, q)
                      /\ \A i, j \in 1..(n - 1) :
                           IsLib(s', i, q) /\ IsLib(s', j, q) => i = j
    BY <1>4, <1>6 DEF LibOnce
  <2>1. /\ s.handle[q] = "none" => \A i \in 1..n : ~IsLib(s, i, q)
        /\ s.handle[q] \in {"null", "open"} => \E i \in 1..n : IsLib(s, i, q)
        /\ \A i, j \in 1..n : IsLib(s, i, q) /\ IsLib(s, j, q) => i = j
    BY <1>1 DEF LoaderInv, LibInv, LibOnce
  <2>2. s.handle[q] = "none" => \A i \in 1..(n - 1) : ~IsLib(s', i, q)
    BY <1>7, <1>10, <2>1
  <2>3. s.handle[q] \in {"null", "open"} => \E i \in 1..(n - 1) : IsLib(s', i, q)
    BY <1>8, <1>10, <1>11, <2>1
  <2>4. \A i, j \in 1..(n - 1) : IsLib(s', i, q) /\ IsLib(s', j, q) => i = j
    BY <1>7, <1>9, <1>10, <2>1
  <2> QED
    BY <2>2, <2>3, <2>4
<1>13. LibOlder(s')
  <2> SUFFICES ASSUME NEW q \in Names, NEW i \in 1..(n - 1), u[i] = <<"obj", q>>
               PROVE  /\ s.handle[q] = "open"
                      /\ \E j \in 1..(n - 1) : j < i /\ IsLib(s', j, q)
    BY <1>4, <1>6 DEF LibOlder
  <2>1. s.udata[To(i)] = <<"obj", q>> /\ To(i) \in 1..n
    BY <1>7
  <2>2. s.handle[q] = "open"
    BY <1>1, <2>1 DEF LoaderInv, LibInv, LibOlder
  <2>3. PICK m \in 1..n : m < To(i) /\ IsLib(s, m, q)
    BY <1>1, <2>1 DEF LoaderInv, LibInv, LibOlder
  <2>4. PICK j \in 1..(n - 1) : To(j) = m
    BY <1>8, <1>11, <2>3
  <2> QED
    BY <1>9, <1>10, <2>2, <2>3, <2>4
<1> QED
  BY <1>6, <1>12, <1>13, RunKept DEF LibInv
LEMMA FinalizeHolds ==
  ASSUME LoaderInv(s), Finalize
  PROVE  LoaderInv(s')
<1> DEFINE n == Len(s.udata)
           f == Front(s.udata)
           x == [s EXCEPT !.udata = f]
           w == Last(s.udata)
           p == w[2]
<1>1. /\ s \in State /\ s.udata \in Seq(Entries) /\ s.udata # <<>>
      /\ n \in Nat \ {0} /\ DOMAIN s.udata = 1..n
  BY DEF LoaderInv, State, Finalize
<1>2. /\ f \in Seq(Entries) /\ Len(f) = n - 1
      /\ \A i \in 1..(n - 1) : f[i] = s.udata[i]
      /\ w \in Entries /\ w = s.udata[n]
  <2> HIDE DEF Entries
  <2> QED
    BY <1>1, FrontIs
<1>3. s' = IF w[1] = "lib" THEN [x EXCEPT !.handle[p] = "closed"] ELSE x
  BY DEF Finalize
<1>4. w = <<w[1], p>> /\ w[1] \in {"lib", "obj"} /\ p \in Names
  BY <1>2 DEF Entries
<1> HIDE DEF f, n, w, p
<1>5. x \in State /\ SameRun(x, s) /\ x.handle = s.handle /\ x.udata = f
  BY <1>1, <1>2, UdataSet
<1> HIDE DEF x
<1>6. DOMAIN f = 1..(n - 1)
  BY <1>2
<1>7. /\ s' \in State /\ SameRun(s', s) /\ s'.udata = f
      /\ w[1] = "lib" => s'.handle = [s.handle EXCEPT ![p] = "closed"]
      /\ w[1] = "obj" => s'.handle = s.handle
  <2>1. CASE w[1] = "lib"
    <3>1. "closed" \in Handles
      BY DEF Handles
    <3> QED
      BY <1>3, <1>4, <1>5, <2>1, <3>1, HandleSet DEF SameRun
  <2>2. CASE w[1] = "obj"
    BY <1>3, <1>5, <2>2
  <2> QED
    BY <1>4, <2>1, <2>2
<1>8. \A q \in Names : \A i \in 1..(n - 1) : IsLib(s', i, q) <=> IsLib(s, i, q)
  BY <1>1, <1>2, <1>6, <1>7 DEF IsLib
<1>9. \A q \in Names : IsLib(s, n, q) <=> (w[1] = "lib" /\ q = p)
  BY <1>1, <1>2, <1>4 DEF IsLib
<1>10. s.handle \in [Names -> Handles]
  BY <1>1 DEF State
<1>11. LibOnce(s')
  <2> SUFFICES ASSUME NEW q \in Names
               PROVE  /\ s'.handle[q] = "none" => \A i \in 1..(n - 1) : ~IsLib(s', i, q)
                      /\ s'.handle[q] \in {"null", "open"} =>
                           \E i \in 1..(n - 1) : IsLib(s', i, q)
                      /\ \A i, j \in 1..(n - 1) :
                           IsLib(s', i, q) /\ IsLib(s', j, q) => i = j
    BY <1>6, <1>7 DEF LibOnce
  <2>1. /\ s.handle[q] = "none" => \A i \in 1..n : ~IsLib(s, i, q)
        /\ s.handle[q] \in {"null", "open"} => \E i \in 1..n : IsLib(s, i, q)
        /\ \A i, j \in 1..n : IsLib(s, i, q) /\ IsLib(s, j, q) => i = j
    BY <1>1 DEF LoaderInv, LibInv, LibOnce
  <2>2. CASE w[1] = "lib" /\ q = p
    <3>1. s'.handle[q] = "closed"
      BY <1>7, <1>10, <2>2
    <3> QED
      BY <1>1, <1>8, <2>1, <3>1
  <2>3. CASE ~(w[1] = "lib" /\ q = p)
    <3>1. s'.handle[q] = s.handle[q]
      BY <1>4, <1>7, <1>10, <2>3
    <3>2. ~IsLib(s, n, q)
      BY <1>9, <2>3
    <3> QED
      BY <1>1, <1>8, <2>1, <3>1, <3>2
  <2> QED
    BY <2>2, <2>3
<1>12. LibOlder(s')
  <2> SUFFICES ASSUME NEW q \in Names, NEW i \in 1..(n - 1), f[i] = <<"obj", q>>
               PROVE  /\ s'.handle[q] = "open"
                      /\ \E j \in 1..(n - 1) : j < i /\ IsLib(s', j, q)
    BY <1>6, <1>7 DEF LibOlder
  <2>1. i \in 1..n /\ s.udata[i] = <<"obj", q>>
    BY <1>1, <1>2
  <2>2. s.handle[q] = "open"
    BY <1>1, <2>1 DEF LoaderInv, LibInv, LibOlder
  <2>3. PICK j \in 1..n : j < i /\ IsLib(s, j, q)
    BY <1>1, <2>1 DEF LoaderInv, LibInv, LibOlder
  <2>4. ~(w[1] = "lib" /\ q = p)
    <3> SUFFICES ASSUME w[1] = "lib", q = p PROVE FALSE
      OBVIOUS
    <3>1. IsLib(s, n, q)
      BY <1>9
    <3>2. j = n
      BY <1>1, <2>3, <3>1 DEF LoaderInv, LibInv, LibOnce
    <3> QED
      BY <1>1, <2>3, <3>2
  <2>5. s'.handle[q] = s.handle[q]
    BY <1>4, <1>7, <1>10, <2>4
  <2>6. j \in 1..(n - 1) /\ IsLib(s', j, q)
    BY <1>1, <1>8, <2>3
  <2> QED
    BY <2>2, <2>3, <2>5, <2>6
<1> QED
  BY <1>7, <1>11, <1>12, RunKept DEF LibInv
-----------------------------------------------------------------------------
LEMMA StepHolds ==
  ASSUME LoaderConstants, LoaderInv(s), [Next]_s
  PROVE  LoaderInv(s')
<1>1. ASSUME NEW n \in Names, Require(n) PROVE LoaderInv(s')
  BY <1>1, RequireHolds
<1>2. ASSUME NEW n \in Names, Module(n) PROVE LoaderInv(s')
  BY <1>2, ModuleHolds
<1>3. ASSUME NEW n \in Names, SetPreload(n) PROVE LoaderInv(s')
  <2>1. /\ s' \in State /\ SameRun(s', s)
        /\ s'.handle = s.handle /\ s'.udata = s.udata
    BY <1>3 DEF SetPreload, LoaderInv, State, SameRun
  <2> QED
    BY <2>1, LibsKept, RunKept DEF LoaderInv
<1>4. ASSUME NEW n \in Names, LoadLib(n) PROVE LoaderInv(s')
  BY <1>4, LoadKeeps, RunKept DEF LoadLib, LoaderInv
<1>5. ASSUME NEW p \in Names, NewUdata(p) PROVE LoaderInv(s')
  BY <1>5, NewUdataHolds
<1>6. ASSUME NEW n \in Names, SetLoaded(n, "nil") PROVE LoaderInv(s')
  BY <1>6, AssignKeeps DEF SetLoaded, Values
<1>7. ASSUME NEW v \in {"nil", "false", "table"}, Finish(v) PROVE LoaderInv(s')
  BY <1>7, FinishHolds
<1>8. ASSUME NEW i \in DOMAIN s.udata, Collect(i) PROVE LoaderInv(s')
  BY <1>8, CollectHolds
<1>9. CASE Error
  BY <1>9, FrontKeeps, RaisedKeeps DEF Error
<1>10. CASE Shutdown
  <2>1. /\ s' \in State /\ SameRun(s', s)
        /\ s'.handle = s.handle /\ s'.udata = s.udata
    BY <1>10 DEF Shutdown, LoaderInv, State, SameRun
  <2> QED
    BY <2>1, LibsKept, RunKept DEF LoaderInv
<1>11. CASE Finalize
  BY <1>11, FinalizeHolds
<1>12. CASE UNCHANGED s
  BY <1>12
<1> QED
  BY <1>1, <1>2, <1>3, <1>4, <1>5, <1>6, <1>7, <1>8, <1>9, <1>10, <1>11, <1>12 DEF Next

LEMMA LoaderInvariant == ASSUME LoaderConstants PROVE Spec => []LoaderInv(s)
<1>1. Init => LoaderInv(s)
  BY InitHolds
<1>2. LoaderInv(s) /\ [Next]_s => LoaderInv(s)'
  BY StepHolds
<1> QED
  BY <1>1, <1>2, PTL DEF Spec

(***************************************************************************)
(* ll_require marks the entry of package.loaded before it calls the chunk, *)
(* so no module's chunk is started again while it runs, whatever requires  *)
(* it again and wherever an error is caught, unless the program itself has *)
(* written to the entry.                                                   *)
(***************************************************************************)
THEOREM NeverReentered == ASSUME LoaderConstants PROVE Spec => []NoReentry
<1>1. LoaderInv(s) => NoReentry
  BY DEF LoaderInv, RunInv, NotTwice, NoReentry
<1> QED
  BY <1>1, LoaderInvariant, PTL

(***************************************************************************)
(* Finalizers run from the newest userdata to the oldest when the state is *)
(* closed, and ll_register has made a library's entry before anything that *)
(* lies in the library could make a userdata: none of them is called after *)
(* its library has been unloaded.                                          *)
(***************************************************************************)
THEOREM LibraryOutlivesFinalizers == ASSUME LoaderConstants PROVE Spec => []UnloadedLast
<1>1. LoaderInv(s) => UnloadedLast
  <2> SUFFICES ASSUME LoaderInv(s), NEW i \in DOMAIN s.udata, s.udata[i][1] = "obj"
               PROVE  s.handle[s.udata[i][2]] = "open"
    BY DEF UnloadedLast
  <2>1. s.udata[i] \in Entries
    BY DEF LoaderInv, State
  <2>2. s.udata[i] = <<"obj", s.udata[i][2]>> /\ s.udata[i][2] \in Names
    BY <2>1 DEF Entries
  <2> QED
    BY <2>2 DEF LoaderInv, LibInv, LibOlder
<1> QED
  BY <1>1, LoaderInvariant, PTL
-----------------------------------------------------------------------------
Resumers == {"resume", "wrap"}
FrameKinds == CFrames \cup Resumers \cup {"lua", "yield"}
HandlerStates == [ci : Nat, nC : Int, ef : BOOLEAN]
ThreadStates ==
  [ci : Seq(FrameKinds), nC : Int, baseC : Int, status : {"ok", "yield", "dead"},
   func : BOOLEAN, jmp : Seq(HandlerStates), ef : BOOLEAN]
CallStates == [th : [Threads -> ThreadStates], chain : Seq(Threads), err : BOOLEAN]

\* The frames of the threads of the chain, and the calls from C among them up to
\* frame n of thread i.
Cis(x) == [i \in 1..Len(x.chain) |-> x.th[x.chain[i]].ci]
Counts(q, c) == c[2] = 0 \/ q[c[1]][c[2]] \in CFrames
Below(q, i, n) ==
  {c \in (1..i) \X Nat : c[2] <= (IF c[1] = i THEN n ELSE Len(q[c[1]])) /\ Counts(q, c)}
IsCount(q, i, n, m) == IsFiniteSet(Below(q, i, n)) /\ Cardinality(Below(q, i, n)) = m

\* Each pcall and xpcall among the frames has its handler; the first handler is
\* that of the resume.  What is above a C function that calls nothing is raise.
Framed(t) ==
  /\ t.jmp # <<>>
  /\ t.jmp[1] = Handler(NewState)
  /\ t.ci # <<>> => t.ci[1] = "lua"
  /\ \A k \in 2..Len(t.jmp) :
       /\ t.jmp[k].ci + 1 \in 1..Len(t.ci)
       /\ t.ci[t.jmp[k].ci + 1] \in Protected
  /\ \A k, m \in 2..Len(t.jmp) : k < m => t.jmp[k].ci < t.jmp[m].ci
  /\ \A p \in 1..Len(t.ci) :
       t.ci[p] \in Protected => \E k \in 2..Len(t.jmp) : t.jmp[k].ci = p - 1
  /\ \A p \in 1..(Len(t.ci) - 1) :
       t.ci[p] \in Resumers \cup {"yield"} => t.ci[p + 1] = "raise"
  /\ ~(IF Len(t.jmp) = 1 THEN t.ef ELSE t.jmp[2].ef)
HandlersCount(q, i, t) ==
  \A k \in 2..Len(t.jmp) :
    IsCount(q, i, t.jmp[k].ci, t.jmp[k].nC) /\ t.jmp[k].nC < MaxC + Extra
Counted(q, i, t) == IsCount(q, i, Len(q[i]), t.nC) /\ t.nC < MaxC + Extra
Sound(q, i, t) ==
  /\ t.status = "ok"
  /\ Framed(t)
  /\ HandlersCount(q, i, t)
  /\ i > 1 => IsCount(q, i, 0, t.baseC)
  /\ i = 1 => t.baseC = 0
Waits(q, i, t) ==
  /\ Counted(q, i, t)
  /\ t.ci # <<>>
  /\ t.ci[Len(t.ci)] \in Resumers
Top(x) == Len(x.chain)
\* Before the C calls of the running thread are counted.
Active(x) ==
  /\ x.chain # <<>>
  /\ x.chain[1] = Main
  /\ \A i, j \in 1..Len(x.chain) : x.chain[i] = x.chain[j] => i = j
  /\ \A i \in 1..Len(x.chain) : Sound(Cis(x), i, x.th[x.chain[i]])
  /\ \A i \in 1..(Len(x.chain) - 1) : Waits(Cis(x), i, x.th[x.chain[i]])
IdleMain(x) ==
  LET t == x.th[Main]
  IN  /\ x.chain = <<Main>>
      /\ ~x.err
      /\ t.ci = <<>> /\ t.jmp = <<>> /\ t.nC = 0 /\ t.baseC = 0 /\ t.status = "ok" /\ ~t.ef
\* The coroutines that are not in the chain.
Rests(t) ==
  /\ t.status # "dead" => ~t.ef
  /\ t.status = "ok" => t.ci = <<>>
  /\ t.status = "yield" => /\ Len(t.ci) > 1
                           /\ t.ci[Len(t.ci)] = "yield"
                           /\ \A p \in 1..(Len(t.ci) - 1) : t.ci[p] = "lua"
Resting(x) == \A co \in Cos : (\A i \in 1..Len(x.chain) : x.chain[i] # co) => Rests(x.th[co])
CallInv(x) ==
  /\ x \in CallStates
  /\ Resting(x)
  /\ \/ IdleMain(x)
     \/ Active(x) /\ Counted(Cis(x), Top(x), Cur(x)) /\ (x.err \/ Cur(x).ci # <<>>)
-----------------------------------------------------------------------------
\* Of the calls on the C stack: those of the threads below, and of the frames.
LEMMA BelowIs ==
  ASSUME NEW q, NEW i \in Nat, NEW n \in Nat, NEW k \in Nat, NEW p \in Nat
  PROVE  <<k, p>> \in Below(q, i, n) <=>
           /\ 1 <= k /\ k <= i
           /\ p <= (IF k = i THEN n ELSE Len(q[k]))
           /\ p = 0 \/ q[k][p] \in CFrames
  BY DEF Below, Counts

\* They are pairs of a thread and a frame.
LEMMA BelowPairs ==
  ASSUME NEW q, NEW i \in Nat, NEW n \in Nat, NEW c \in Below(q, i, n)
  PROVE  \E k \in Nat, p \in Nat : c = <<k, p>>
  BY DEF Below

\* They depend on the frames up to the one asked for.
LEMMA BelowSame ==
  ASSUME NEW q, NEW r, NEW i \in Nat, NEW n \in Nat,
         \A k \in 1..(i - 1) : r[k] = q[k],
         \A p \in 1..n : r[i][p] = q[i][p]
  PROVE  Below(r, i, n) = Below(q, i, n)
<1>1. ASSUME NEW k \in Nat, NEW p \in Nat
      PROVE  <<k, p>> \in Below(r, i, n) <=> <<k, p>> \in Below(q, i, n)
  <2>1. <<k, p>> \in Below(q, i, n) <=>
          /\ 1 <= k /\ k <= i
          /\ p <= (IF k = i THEN n ELSE Len(q[k]))
          /\ p = 0 \/ q[k][p] \in CFrames
    BY BelowIs
  <2>2. <<k, p>> \in Below(r, i, n) <=>
          /\ 1 <= k /\ k <= i
          /\ p <= (IF k = i THEN n ELSE Len(r[k]))
          /\ p = 0 \/ r[k][p] \in CFrames
    BY BelowIs
  <2>3. CASE k = i
    <3>1. p = 0 \/ p > n \/ r[k][p] = q[k][p]
      BY <2>3
    <3>2. QED
      BY <2>1, <2>2, <2>3, <3>1
  <2>4. CASE k # i
    <3>1. k < 1 \/ k > i \/ r[k] = q[k]
      BY <2>4
    <3>2. QED
      BY <2>1, <2>2, <2>4, <3>1
  <2>5. QED
    BY <2>3, <2>4
<1>2. QED
  BY <1>1, BelowPairs

\* One frame more.
LEMMA BelowNext ==
  ASSUME NEW q, NEW i \in Nat \ {0}, NEW n \in Nat
  PROVE  /\ <<i, n + 1>> \notin Below(q, i, n)
         /\ Below(q, i, n + 1) = IF q[i][n + 1] \in CFrames
                                 THEN Below(q, i, n) \cup {<<i, n + 1>>} ELSE Below(q, i, n)
<1>1. <<i, n + 1>> \notin Below(q, i, n)
  <2>1. <<i, n + 1>> \in Below(q, i, n) => n + 1 <= n
    BY BelowIs, n + 1 \in Nat
  <2>2. QED
    BY <2>1
<1>2. ASSUME NEW k \in Nat, NEW p \in Nat
      PROVE  <<k, p>> \in Below(q, i, n + 1) <=>
               <<k, p>> \in Below(q, i, n)
               \/ (k = i /\ p = n + 1 /\ q[i][n + 1] \in CFrames)
  <2>1. <<k, p>> \in Below(q, i, n + 1) <=>
          /\ 1 <= k /\ k <= i
          /\ p <= (IF k = i THEN n + 1 ELSE Len(q[k]))
          /\ p = 0 \/ q[k][p] \in CFrames
    BY BelowIs, n + 1 \in Nat
  <2>2. <<k, p>> \in Below(q, i, n) <=>
          /\ 1 <= k /\ k <= i
          /\ p <= (IF k = i THEN n ELSE Len(q[k]))
          /\ p = 0 \/ q[k][p] \in CFrames
    BY BelowIs
  <2>3. QED
    BY <2>1, <2>2
<1>3. CASE q[i][n + 1] \in CFrames
  <2>1. Below(q, i, n + 1) = Below(q, i, n) \cup {<<i, n + 1>>}
    BY <1>2, <1>3, BelowPairs, n + 1 \in Nat
  <2>2. QED
    BY <1>1, <1>3, <2>1
<1>4. CASE q[i][n + 1] \notin CFrames
  <2>1. Below(q, i, n + 1) = Below(q, i, n)
    <3>1. \A k \in Nat, p \in Nat :
            <<k, p>> \in Below(q, i, n + 1) <=> <<k, p>> \in Below(q, i, n)
      BY <1>2, <1>4
    <3>2. ASSUME NEW c \in Below(q, i, n + 1)
          PROVE  c \in Below(q, i, n)
      <4>1. PICK k \in Nat, p \in Nat : c = <<k, p>>
        BY BelowPairs, n + 1 \in Nat
      <4>2. QED
        BY <3>1, <4>1
    <3>3. ASSUME NEW c \in Below(q, i, n)
          PROVE  c \in Below(q, i, n + 1)
      <4>1. PICK k \in Nat, p \in Nat : c = <<k, p>>
        BY BelowPairs
      <4>2. QED
        BY <3>1, <4>1
    <3>4. QED
      BY <3>2, <3>3
  <2>2. QED
    BY <1>1, <1>4, <2>1
<1>5. QED
  BY <1>3, <1>4

\* One thread more.
LEMMA BelowEnter ==
  ASSUME NEW q, NEW i \in Nat \ {0}, Len(q[i]) \in Nat
  PROVE  /\ <<i + 1, 0>> \notin Below(q, i, Len(q[i]))
         /\ Below(q, i + 1, 0) = Below(q, i, Len(q[i])) \cup {<<i + 1, 0>>}
<1>1. <<i + 1, 0>> \notin Below(q, i, Len(q[i]))
  <2>1. <<i + 1, 0>> \in Below(q, i, Len(q[i])) => i + 1 <= i
    BY BelowIs, i + 1 \in Nat
  <2>2. QED
    BY <2>1
<1>2. ASSUME NEW k \in Nat, NEW p \in Nat
      PROVE  <<k, p>> \in Below(q, i + 1, 0) <=>
               <<k, p>> \in Below(q, i, Len(q[i])) \/ (k = i + 1 /\ p = 0)
  <2>1. <<k, p>> \in Below(q, i + 1, 0) <=>
          /\ 1 <= k /\ k <= i + 1
          /\ p <= (IF k = i + 1 THEN 0 ELSE Len(q[k]))
          /\ p = 0 \/ q[k][p] \in CFrames
    BY BelowIs, i + 1 \in Nat
  <2>2. <<k, p>> \in Below(q, i, Len(q[i])) <=>
          /\ 1 <= k /\ k <= i
          /\ p <= (IF k = i THEN Len(q[i]) ELSE Len(q[k]))
          /\ p = 0 \/ q[k][p] \in CFrames
    BY BelowIs
  <2>3. QED
    BY <2>1, <2>2
<1>3. QED
  BY <1>1, <1>2, BelowPairs, i + 1 \in Nat

\* The call from the host program.
LEMMA BelowFirst ==
  ASSUME NEW q
  PROVE  Below(q, 1, 0) = {<<1, 0>>}
<1>1. ASSUME NEW k \in Nat, NEW p \in Nat
      PROVE  <<k, p>> \in Below(q, 1, 0) <=> k = 1 /\ p = 0
  <2>1. <<k, p>> \in Below(q, 1, 0) <=>
          /\ 1 <= k /\ k <= 1
          /\ p <= (IF k = 1 THEN 0 ELSE Len(q[k]))
          /\ p = 0 \/ q[k][p] \in CFrames
    BY BelowIs
  <2>2. QED
    BY <2>1
<1>2. QED
  BY <1>1, BelowPairs

\* More frames, more calls.
LEMMA BelowMono ==
  ASSUME NEW q, NEW i \in Nat, NEW n \in Nat, NEW m \in Nat, m <= n
  PROVE  Below(q, i, m) \subseteq Below(q, i, n)
<1>1. SUFFICES ASSUME NEW c \in Below(q, i, m)
               PROVE  c \in Below(q, i, n)
  OBVIOUS
<1>2. PICK k \in Nat, p \in Nat : c = <<k, p>>
  BY BelowPairs
<1>3. <<k, p>> \in Below(q, i, m) <=>
        /\ 1 <= k /\ k <= i
        /\ p <= (IF k = i THEN m ELSE Len(q[k]))
        /\ p = 0 \/ q[k][p] \in CFrames
  BY BelowIs
<1>4. <<k, p>> \in Below(q, i, n) <=>
        /\ 1 <= k /\ k <= i
        /\ p <= (IF k = i THEN n ELSE Len(q[k]))
        /\ p = 0 \/ q[k][p] \in CFrames
  BY BelowIs
<1>5. QED
  BY <1>2, <1>3, <1>4

\* Their number, when a frame comes or goes, and when a coroutine is entered.
LEMMA CountSame ==
  ASSUME NEW q, NEW r, NEW i \in Nat, NEW n \in Nat, NEW m \in Int,
         \A k \in 1..(i - 1) : r[k] = q[k],
         \A p \in 1..n : r[i][p] = q[i][p],
         IsCount(q, i, n, m)
  PROVE  IsCount(r, i, n, m)
<1>1. Below(r, i, n) = Below(q, i, n)
  BY BelowSame
<1>2. QED
  BY <1>1 DEF IsCount

LEMMA CountNext ==
  ASSUME NEW q, NEW i \in Nat \ {0}, NEW n \in Nat, NEW m \in Int
  PROVE  /\ q[i][n + 1] \in CFrames => (IsCount(q, i, n + 1, m + 1) <=> IsCount(q, i, n, m))
         /\ q[i][n + 1] \notin CFrames => (IsCount(q, i, n + 1, m) <=> IsCount(q, i, n, m))
<1> DEFINE b == Below(q, i, n)
           c == Below(q, i, n + 1)
           e == <<i, n + 1>>
<1>1. e \notin b /\ c = IF q[i][n + 1] \in CFrames THEN b \cup {e} ELSE b
  BY BelowNext
<1>2. ASSUME q[i][n + 1] \in CFrames
      PROVE  IsCount(q, i, n + 1, m + 1) <=> IsCount(q, i, n, m)
  <2>1. e \notin b /\ c = b \cup {e}
    BY <1>1, <1>2
  <2>2. IsFiniteSet(b) <=> IsFiniteSet(c)
    BY <2>1, FS_AddElement, FS_Subset
  <2>3. IsFiniteSet(b) => Cardinality(c) = Cardinality(b) + 1 /\ Cardinality(b) \in Nat
    BY <2>1, FS_AddElement, FS_CardinalityType
  <2>4. IsFiniteSet(b) => (Cardinality(c) = m + 1 <=> Cardinality(b) = m)
    BY <2>3
  <2>5. QED
    BY <2>2, <2>4 DEF IsCount
<1>3. ASSUME q[i][n + 1] \notin CFrames
      PROVE  IsCount(q, i, n + 1, m) <=> IsCount(q, i, n, m)
  BY <1>1, <1>3 DEF IsCount
<1>4. QED
  BY <1>2, <1>3

LEMMA CountEnter ==
  ASSUME NEW q, NEW i \in Nat \ {0}, NEW m \in Int, Len(q[i]) \in Nat,
         IsCount(q, i, Len(q[i]), m)
  PROVE  IsCount(q, i + 1, 0, m + 1)
<1> DEFINE b == Below(q, i, Len(q[i]))
           c == Below(q, i + 1, 0)
           e == <<i + 1, 0>>
<1>1. e \notin b /\ c = b \cup {e}
  BY BelowEnter
<1>2. IsFiniteSet(b) /\ Cardinality(b) = m
  BY DEF IsCount
<1> HIDE DEF b, c, e
<1>3. IsFiniteSet(c) /\ Cardinality(c) = Cardinality(b) + 1
  BY <1>1, <1>2, FS_AddElement
<1>4. QED
  BY <1>2, <1>3 DEF IsCount, b, c

LEMMA CountFirst ==
  ASSUME NEW q
  PROVE  IsCount(q, 1, 0, 1)
<1>1. IsFiniteSet({<<1, 0>>}) /\ Cardinality({<<1, 0>>}) = 1
  BY FS_Singleton
<1>2. QED
  BY <1>1, BelowFirst DEF IsCount

\* The main thread runs in a call from the host program.
LEMMA CountPositive ==
  ASSUME NEW q, NEW n \in Nat, NEW m \in Int, IsCount(q, 1, n, m)
  PROVE  m > 0
<1>1. <<1, 0>> \in Below(q, 1, n)
  <2>1. <<1, 0>> \in Below(q, 1, n) <=>
          /\ 1 <= 1 /\ 1 <= 1
          /\ 0 <= (IF 1 = 1 THEN n ELSE Len(q[1]))
          /\ 0 = 0 \/ q[1][0] \in CFrames
    BY BelowIs, 0 \in Nat, 1 \in Nat
  <2>2. QED
    BY <2>1
<1>2. Below(q, 1, n) # {}
  BY <1>1
<1>3. m \in Nat /\ (m = 0 <=> Below(q, 1, n) = {})
  BY FS_EmptySet, FS_CardinalityType DEF IsCount
<1>4. QED
  BY <1>2, <1>3

\* As many calls up to frame n as up to none: none of the frames makes one.
LEMMA CountNone ==
  ASSUME NEW q, NEW i \in Nat \ {0}, NEW n \in Nat, NEW m \in Int,
         IsCount(q, i, n, m), IsCount(q, i, 0, m),
         NEW p \in 1..n
  PROVE  q[i][p] \notin CFrames
<1>1. Below(q, i, 0) \subseteq Below(q, i, n)
  BY BelowMono
<1>2. Below(q, i, 0) = Below(q, i, n)
  BY <1>1, FS_Subset DEF IsCount
<1>3. <<i, p>> \notin Below(q, i, 0)
  <2>1. <<i, p>> \in Below(q, i, 0) => p <= 0
    BY BelowIs, p \in Nat
  <2>2. QED
    BY <2>1
<1>4. q[i][p] \in CFrames => <<i, p>> \in Below(q, i, n)
  BY BelowIs, p \in Nat
<1>5. QED
  BY <1>2, <1>3, <1>4
\* Lua functions add nothing to it.
LEMMA CountLua ==
  ASSUME NEW q, NEW i \in Nat \ {0}, NEW n \in Nat, NEW m \in Int,
         IsCount(q, i, 0, m), \A p \in 1..n : q[i][p] \notin CFrames
  PROVE  IsCount(q, i, n, m)
<1>1. Below(q, i, 0) \subseteq Below(q, i, n)
  BY BelowMono
<1>2. ASSUME NEW c \in Below(q, i, n)
      PROVE  c \in Below(q, i, 0)
  <2>1. PICK k \in Nat, p \in Nat : c = <<k, p>>
    BY BelowPairs
  <2>2. <<k, p>> \in Below(q, i, n) <=>
          /\ 1 <= k /\ k <= i
          /\ p <= (IF k = i THEN n ELSE Len(q[k]))
          /\ p = 0 \/ q[k][p] \in CFrames
    BY BelowIs
  <2>3. <<k, p>> \in Below(q, i, 0) <=>
          /\ 1 <= k /\ k <= i
          /\ p <= (IF k = i THEN 0 ELSE Len(q[k]))
          /\ p = 0 \/ q[k][p] \in CFrames
    BY BelowIs, 0 \in Nat
  <2>4. k = i => p = 0
    <3>1. k = i /\ p # 0 => p \in 1..n
      BY <2>1, <2>2
    <3>2. QED
      BY <2>1, <2>2, <3>1
  <2>5. QED
    BY <2>1, <2>2, <2>3, <2>4
<1>3. Below(q, i, n) = Below(q, i, 0)
  BY <1>1, <1>2
<1>4. QED
  BY <1>3 DEF IsCount

\* What the frames add is not negative.
LEMMA CountMono ==
  ASSUME NEW q, NEW i \in Nat \ {0}, NEW n \in Nat, NEW m \in Int, NEW l \in Int,
         IsCount(q, i, n, m), IsCount(q, i, 0, l)
  PROVE  l <= m
<1>1. Below(q, i, 0) \subseteq Below(q, i, n)
  BY BelowMono
<1>2. QED
  BY <1>1, FS_Subset DEF IsCount
-----------------------------------------------------------------------------
\* The threads of the chain.
LEMMA ChainFacts ==
  ASSUME NEW x \in CallStates, x.chain # <<>>
  PROVE  /\ Len(x.chain) \in Nat \ {0}
         /\ \A i \in 1..Len(x.chain) :
              /\ x.chain[i] \in Threads
              /\ x.th[x.chain[i]] \in ThreadStates
              /\ Cis(x)[i] = x.th[x.chain[i]].ci
              /\ x.th[x.chain[i]].ci \in Seq(FrameKinds)
         /\ Run(x) = x.chain[Len(x.chain)]
         /\ Run(x) \in Threads
         /\ Cur(x) = x.th[Run(x)]
         /\ Cur(x) \in ThreadStates
<1>1. x.chain \in Seq(Threads) /\ x.th \in [Threads -> ThreadStates]
  BY DEF CallStates
<1>2. Len(x.chain) \in Nat \ {0}
  BY <1>1, EmptySeq, LenProperties
<1>3. \A i \in 1..Len(x.chain) : x.chain[i] \in Threads
  BY <1>1, ElementOfSeq
<1>4. \A i \in 1..Len(x.chain) : x.th[x.chain[i]] \in ThreadStates
  BY <1>1, <1>3
<1>5. \A t \in ThreadStates : t.ci \in Seq(FrameKinds)
  BY DEF ThreadStates
<1>6. Len(x.chain) \in 1..Len(x.chain)
  BY <1>2
<1>7. QED
  BY <1>2, <1>3, <1>4, <1>5, <1>6 DEF Run, Cur, Cis

\* The types of the fields of a lua_State.
LEMMA ThreadFacts ==
  ASSUME NEW t \in ThreadStates
  PROVE  /\ t.ci \in Seq(FrameKinds)
         /\ Len(t.ci) \in Nat
         /\ \A p \in 1..Len(t.ci) : t.ci[p] \in FrameKinds
         /\ t.jmp \in Seq(HandlerStates)
         /\ Len(t.jmp) \in Nat
         /\ \A k \in 1..Len(t.jmp) :
              t.jmp[k] \in HandlerStates /\ t.jmp[k].ci \in Nat /\ t.jmp[k].nC \in Int
                /\ t.jmp[k].ef \in BOOLEAN
         /\ t.nC \in Int
         /\ t.baseC \in Int
         /\ t.ef \in BOOLEAN
         /\ t.status \in {"ok", "yield", "dead"}
<1>1. t.ci \in Seq(FrameKinds) /\ t.jmp \in Seq(HandlerStates) /\ t.nC \in Int
      /\ t.baseC \in Int /\ t.ef \in BOOLEAN /\ t.status \in {"ok", "yield", "dead"}
  BY DEF ThreadStates
<1>2. \A h \in HandlerStates : h.ci \in Nat /\ h.nC \in Int /\ h.ef \in BOOLEAN
  BY DEF HandlerStates
<1>3. \A k \in 1..Len(t.jmp) : t.jmp[k] \in HandlerStates
  BY <1>1, ElementOfSeq
<1>4. \A p \in 1..Len(t.ci) : t.ci[p] \in FrameKinds
  BY <1>1, ElementOfSeq
<1>5. QED
  BY <1>1, <1>2, <1>3, <1>4, LenProperties

\* What holds of a thread of the chain depends on it and on what is below it.
LEMMA SoundSame ==
  ASSUME NEW q, NEW r, NEW i \in Nat \ {0}, NEW t \in ThreadStates,
         \A k \in 1..i : r[k] = q[k], q[i] = t.ci
  PROVE  /\ Sound(q, i, t) => Sound(r, i, t)
         /\ Counted(q, i, t) => Counted(r, i, t)
         /\ Waits(q, i, t) => Waits(r, i, t)
<1>1. \A n \in Nat, m \in Int : IsCount(q, i, n, m) => IsCount(r, i, n, m)
  <2>1. (\A k \in 1..(i - 1) : r[k] = q[k]) /\ r[i] = q[i]
    OBVIOUS
  <2>2. QED
    BY <2>1, CountSame
<1>2. HandlersCount(q, i, t) => HandlersCount(r, i, t)
  <2>1. \A k \in 2..Len(t.jmp) : t.jmp[k].ci \in Nat /\ t.jmp[k].nC \in Int
    BY ThreadFacts
  <2>2. QED
    BY <1>1, <2>1 DEF HandlersCount
<1>3. Counted(q, i, t) => Counted(r, i, t)
  <2>1. Len(t.ci) \in Nat /\ t.nC \in Int /\ r[i] = t.ci
    BY ThreadFacts
  <2>2. QED
    BY <1>1, <2>1 DEF Counted
<1>4. Sound(q, i, t) => Sound(r, i, t)
  <2>1. t.baseC \in Int
    BY ThreadFacts
  <2>2. QED
    BY <1>1, <1>2, <2>1 DEF Sound
<1>5. QED
  BY <1>3, <1>4 DEF Waits
-----------------------------------------------------------------------------
\* A call that sets no handler.
LEMMA PushedFrame ==
  ASSUME NEW q, NEW r, NEW i \in Nat \ {0}, NEW t \in ThreadStates, NEW u \in ThreadStates,
         NEW f \in FrameKinds \ Protected,
         \A k \in 1..(i - 1) : r[k] = q[k], q[i] = t.ci, r[i] = u.ci,
         u.ci = Append(t.ci, f), u.jmp = t.jmp, u.ef = t.ef, u.baseC = t.baseC,
         u.status = t.status,
         Sound(q, i, t),
         t.ci = <<>> => f = "lua",
         f = "raise" \/ t.ci = <<>> \/ t.ci[Len(t.ci)] \notin Resumers \cup {"yield"}
  PROVE  /\ Sound(r, i, u)
         /\ \A m \in Int : IsCount(q, i, Len(t.ci), m) =>
              IsCount(r, i, Len(u.ci), IF f \in CFrames THEN m + 1 ELSE m)
<1> DEFINE n == Len(t.ci)
<1>1. n \in Nat /\ \A k \in 1..Len(t.jmp) : t.jmp[k].ci \in Nat /\ t.jmp[k].nC \in Int
  BY ThreadFacts
<1>2. Len(t.jmp) \in Nat /\ t.baseC \in Int
  BY ThreadFacts
<1>3. Len(u.ci) = n + 1 /\ u.ci[n + 1] = f /\ \A p \in 1..n : u.ci[p] = t.ci[p]
  BY ThreadFacts, AppendProperties
<1>4. t.ci = <<>> <=> n = 0
  BY ThreadFacts, EmptySeq
<1>5. u.ci # <<>>
  BY ThreadFacts, AppendProperties
<1>6. \A d \in 0..n, m \in Int : IsCount(q, i, d, m) => IsCount(r, i, d, m)
  <2>1. \A d \in 0..n : d \in Nat /\ \A p \in 1..d : r[i][p] = q[i][p]
    BY <1>1, <1>3
  <2>2. QED
    BY <2>1, CountSame
<1>7. Framed(u)
  <2> USE <1>1, <1>2, <1>3
  <2>1. u.jmp # <<>> /\ u.jmp[1] = Handler(NewState)
    BY DEF Sound, Framed
  <2>2. u.ci[1] = "lua"
    BY <1>4 DEF Sound, Framed
  <2>3. \A k \in 2..Len(u.jmp) :
          u.jmp[k].ci + 1 \in 1..Len(u.ci) /\ u.ci[u.jmp[k].ci + 1] \in Protected
    BY DEF Sound, Framed
  <2>4. \A k, m \in 2..Len(u.jmp) : k < m => u.jmp[k].ci < u.jmp[m].ci
    BY DEF Sound, Framed
  <2>5. \A p \in 1..Len(u.ci) :
          u.ci[p] \in Protected => \E k \in 2..Len(u.jmp) : u.jmp[k].ci = p - 1
    <3>1. \A p \in 1..Len(u.ci) : u.ci[p] \in Protected => p \in 1..n /\ t.ci[p] \in Protected
      BY DEF Protected
    <3>2. QED
      BY <3>1 DEF Sound, Framed
  <2>6. \A p \in 1..(Len(u.ci) - 1) :
          u.ci[p] \in Resumers \cup {"yield"} => u.ci[p + 1] = "raise"
    <3>1. \A p \in 1..n : t.ci[p] \in Resumers \cup {"yield"} =>
            \/ p \in 1..(n - 1) /\ t.ci[p + 1] = "raise"
            \/ p = n /\ f = "raise"
      BY <1>4 DEF Sound, Framed
    <3>2. QED
      BY <3>1
  <2>7. ~(IF Len(u.jmp) = 1 THEN u.ef ELSE u.jmp[2].ef)
    BY DEF Sound, Framed
  <2>8. QED
    BY <1>5, <2>1, <2>2, <2>3, <2>4, <2>5, <2>6, <2>7 DEF Framed
<1>8. HandlersCount(r, i, u)
  <2>1. \A k \in 2..Len(t.jmp) : t.jmp[k].ci \in 0..n /\ t.jmp[k].nC \in Int
    <3>1. \A k \in 2..Len(t.jmp) : t.jmp[k].ci + 1 \in 1..n
      BY DEF Sound, Framed
    <3>2. \A k \in 2..Len(t.jmp) : k \in 1..Len(t.jmp)
      BY <1>2
    <3>3. \A a \in Nat, b \in Nat : a + 1 \in 1..b => a \in 0..b
      OBVIOUS
    <3>4. QED
      BY ONLY <1>1, <3>1, <3>2, <3>3
  <2>2. QED
    BY <1>6, <2>1 DEF Sound, HandlersCount
<1>9. Sound(r, i, u)
  <2>1. 0 \in 0..n
    BY <1>1
  <2>2. QED
    BY <1>2, <1>6, <1>7, <1>8, <2>1 DEF Sound
<1>10. ASSUME NEW m \in Int, IsCount(q, i, n, m)
       PROVE  IsCount(r, i, n + 1, IF f \in CFrames THEN m + 1 ELSE m)
  <2>1. n \in 0..n
    BY <1>1
  <2>2. IsCount(r, i, n, m)
    BY <1>6, <1>10, <2>1
  <2>3. r[i][n + 1] = f
    BY <1>3
  <2>4. QED
    BY <1>1, <2>2, <2>3, CountNext
<1>11. QED
  BY <1>3, <1>9, <1>10

\* pcall and xpcall.
LEMMA PushedHandler ==
  ASSUME NEW q, NEW r, NEW i \in Nat \ {0}, NEW t \in ThreadStates, NEW u \in ThreadStates,
         NEW f \in Protected,
         \A k \in 1..(i - 1) : r[k] = q[k], q[i] = t.ci, r[i] = u.ci,
         u.ci = Append(t.ci, f), u.jmp = Append(t.jmp, Handler(t)), u.baseC = t.baseC,
         u.status = t.status,
         Sound(q, i, t),
         Counted(q, i, t),
         t.ci # <<>>,
         t.ci[Len(t.ci)] = "lua"
  PROVE  /\ Sound(r, i, u)
         /\ IsCount(r, i, Len(u.ci), t.nC + 1)
<1> DEFINE n == Len(t.ci)
           j == Len(t.jmp)
<1>1. n \in Nat /\ j \in Nat /\ t.baseC \in Int /\ t.nC \in Int /\ t.ef \in BOOLEAN
  BY ThreadFacts
<1>2. \A k \in 1..j : t.jmp[k].ci \in Nat /\ t.jmp[k].nC \in Int
  BY ThreadFacts
<1>3. f \in FrameKinds
  BY DEF FrameKinds, CFrames, Callers
<1>4. Len(u.ci) = n + 1 /\ u.ci[n + 1] = f /\ \A p \in 1..n : u.ci[p] = t.ci[p]
  BY <1>3, ThreadFacts, AppendProperties
<1>5. n > 0 /\ t.ci[n] = "lua"
  BY ThreadFacts, EmptySeq
<1>6. Handler(t) \in HandlerStates
      /\ Handler(t).ci = n /\ Handler(t).nC = t.nC /\ Handler(t).ef = t.ef
  BY <1>1 DEF Handler, HandlerStates
<1>7. Len(u.jmp) = j + 1 /\ u.jmp[j + 1] = Handler(t) /\ \A k \in 1..j : u.jmp[k] = t.jmp[k]
  BY <1>6, ThreadFacts, AppendProperties
<1>8. \A d \in 0..n, m \in Int : IsCount(q, i, d, m) => IsCount(r, i, d, m)
  <2>1. \A d \in 0..n : d \in Nat /\ \A p \in 1..d : r[i][p] = q[i][p]
    BY <1>1, <1>4
  <2>2. QED
    BY <2>1, CountSame
<1>9. j > 0 /\ t.jmp[1] = Handler(NewState)
  <2>1. t.jmp # <<>> /\ t.jmp[1] = Handler(NewState)
    BY DEF Sound, Framed
  <2>2. QED
    BY <2>1, ThreadFacts, EmptySeq
<1>10. IsCount(r, i, n, t.nC) /\ t.nC < MaxC + Extra
  <2>1. n \in 0..n
    BY <1>1
  <2>2. QED
    BY <1>1, <1>8, <2>1 DEF Counted
<1>11. Framed(u)
  <2>a. \A k \in 2..j : t.jmp[k].ci + 1 \in 1..n /\ t.ci[t.jmp[k].ci + 1] \in Protected
    BY DEF Sound, Framed
  <2>b. \A k \in 2..Len(u.jmp) :
          (k \in 2..j /\ u.jmp[k] = t.jmp[k]) \/ (k = j + 1 /\ u.jmp[k].ci = n)
    <3>1. \A k \in 2..(j + 1) : (k \in 2..j /\ k \in 1..j) \/ k = j + 1
      BY <1>1
    <3>2. QED
      BY <1>6, <1>7, <3>1
  <2> USE <1>1, <1>2, <1>4, <1>5, <1>6, <1>7, <1>9
  <2>1. u.jmp # <<>> /\ u.jmp[1] = Handler(NewState)
    BY ThreadFacts, EmptySeq
  <2>2. u.ci[1] = "lua"
    BY DEF Sound, Framed
  <2>3. \A k \in 2..Len(u.jmp) :
          u.jmp[k].ci + 1 \in 1..Len(u.ci) /\ u.ci[u.jmp[k].ci + 1] \in Protected
    <3>1. ASSUME NEW k \in 2..Len(u.jmp), k \in 2..j, u.jmp[k] = t.jmp[k]
          PROVE  u.jmp[k].ci + 1 \in 1..Len(u.ci) /\ u.ci[u.jmp[k].ci + 1] \in Protected
      <4>1. t.jmp[k].ci + 1 \in 1..n /\ t.ci[t.jmp[k].ci + 1] \in Protected
        BY <2>a, <3>1
      <4>2. u.ci[t.jmp[k].ci + 1] = t.ci[t.jmp[k].ci + 1] /\ t.jmp[k].ci + 1 \in 1..(n + 1)
        BY ONLY <1>1, <1>4, <4>1
      <4>3. QED
        BY <3>1, <4>1, <4>2
    <3>2. n + 1 \in 1..Len(u.ci) /\ u.ci[n + 1] \in Protected
      OBVIOUS
    <3>3. QED
      BY <2>b, <3>1, <3>2
  <2>4. \A k \in 2..j : t.jmp[k].ci < n
    <3>1. \A k \in 2..j : t.jmp[k].ci \in Nat /\ t.jmp[k].ci + 1 \in 1..n
      BY <1>1, <1>2, <2>a
    <3>2. \A a \in Nat, b \in Nat : a + 1 \in 1..b => a < b
      OBVIOUS
    <3>3. QED
      BY ONLY <1>1, <3>1, <3>2
  <2>5. \A k, m \in 2..Len(u.jmp) : k < m => u.jmp[k].ci < u.jmp[m].ci
    <3>1. \A k, m \in 2..j : k < m => t.jmp[k].ci < t.jmp[m].ci
      BY DEF Sound, Framed
    <3>2. QED
      BY <2>4, <2>b, <3>1
  <2>6. \A p \in 1..Len(u.ci) :
          u.ci[p] \in Protected => \E k \in 2..Len(u.jmp) : u.jmp[k].ci = p - 1
    <3>1. ASSUME NEW p \in 1..n, t.ci[p] \in Protected
          PROVE  \E k \in 2..Len(u.jmp) : u.jmp[k].ci = p - 1
      <4>1. PICK k \in 2..j : t.jmp[k].ci = p - 1
        BY <3>1 DEF Sound, Framed
      <4>2. k \in 2..Len(u.jmp) /\ u.jmp[k].ci = p - 1
        BY <4>1
      <4>3. QED
        BY <4>2
    <3>2. j + 1 \in 2..Len(u.jmp) /\ u.jmp[j + 1].ci = (n + 1) - 1
      OBVIOUS
    <3>3. \A p \in 1..(n + 1) : p \in 1..n \/ p = n + 1
      OBVIOUS
    <3>4. QED
      BY <3>1, <3>2, <3>3
  <2>7. \A p \in 1..(Len(u.ci) - 1) :
          u.ci[p] \in Resumers \cup {"yield"} => u.ci[p + 1] = "raise"
    <3>1. \A p \in 1..n : t.ci[p] \in Resumers \cup {"yield"} =>
            p \in 1..(n - 1) /\ t.ci[p + 1] = "raise"
      BY DEF Sound, Framed, Resumers
    <3>2. QED
      BY <3>1
  <2>8. ~u.jmp[2].ef /\ Len(u.jmp) # 1
    <3>1. IF j = 1 THEN ~t.ef ELSE ~t.jmp[2].ef
      BY DEF Sound, Framed
    <3>2. j = 1 => u.jmp[2] = Handler(t)
      <4>1. j = 1 => j + 1 = 2
        OBVIOUS
      <4>2. QED
        BY <4>1
    <3>3. j # 1 => 2 \in 1..j /\ u.jmp[2] = t.jmp[2]
      <4>1. j # 1 => 2 \in 1..j
        <5>1. \A a \in Nat : a > 0 /\ a # 1 => 2 \in 1..a
          OBVIOUS
        <5>2. j \in Nat /\ j > 0
          BY <1>1, <1>9
        <5>3. QED
          BY ONLY <5>1, <5>2
      <4>2. \A k \in 1..j : u.jmp[k] = t.jmp[k]
        BY <1>7
      <4>3. QED
        BY ONLY <4>1, <4>2
    <3>4. QED
      BY <3>1, <3>2, <3>3
  <2>9. QED
    BY <2>1, <2>2, <2>3, <2>5, <2>6, <2>7, <2>8 DEF Framed
<1>12. HandlersCount(r, i, u)
  <2>1. ASSUME NEW k \in 2..j
        PROVE  IsCount(r, i, t.jmp[k].ci, t.jmp[k].nC) /\ t.jmp[k].nC < MaxC + Extra
    <3>1. t.jmp[k].ci + 1 \in 1..n
      BY DEF Sound, Framed
    <3>3. t.jmp[k].ci \in 0..n /\ t.jmp[k].nC \in Int
      BY <1>1, <1>2, <3>1
    <3>2. QED
      BY <1>8, <3>3 DEF Sound, HandlersCount
  <2>2. \A k \in 2..(j + 1) : k \in 2..j \/ k = j + 1
    BY <1>1
  <2>3. ASSUME NEW k \in 2..(j + 1)
        PROVE  IsCount(r, i, u.jmp[k].ci, u.jmp[k].nC) /\ u.jmp[k].nC < MaxC + Extra
    BY <1>1, <1>6, <1>7, <1>10, <2>1, <2>2
  <2>4. QED
    BY <1>7, <2>3 DEF HandlersCount
<1>13. Sound(r, i, u)
  <2>1. 0 \in 0..n
    BY <1>1
  <2>2. QED
    BY <1>1, <1>8, <1>11, <1>12, <2>1 DEF Sound
<1>14. IsCount(r, i, n + 1, t.nC + 1)
  <2>1. r[i][n + 1] \in CFrames
    BY <1>4 DEF CFrames, Callers
  <2>2. QED
    BY <1>1, <1>10, <2>1, CountNext
<1>15. QED
  BY <1>4, <1>13, <1>14

\* A return that leaves no handler behind: of thread t at place i remains u.
PopTo(q, r, i, t, u) ==
  /\ \A k \in 1..(i - 1) : r[k] = q[k]
  /\ q[i] = t.ci /\ r[i] = u.ci
  /\ t.ci # <<>> /\ t.ci[Len(t.ci)] \notin Protected
  /\ u.ci = Front(t.ci)
  /\ u.jmp = t.jmp /\ u.ef = t.ef /\ u.baseC = t.baseC /\ u.status = t.status
LEMMA PoppedFrame ==
  ASSUME NEW q, NEW r, NEW i \in Nat \ {0}, NEW t \in ThreadStates, NEW u \in ThreadStates,
         PopTo(q, r, i, t, u),
         Sound(q, i, t)
  PROVE  /\ Sound(r, i, u)
         /\ \A m \in Int : IsCount(q, i, Len(t.ci), m) =>
              IsCount(r, i, Len(u.ci), IF t.ci[Len(t.ci)] \in CFrames THEN m - 1 ELSE m)
<1> DEFINE n == Len(u.ci)
<1>0. /\ \A k \in 1..(i - 1) : r[k] = q[k]
      /\ q[i] = t.ci /\ r[i] = u.ci
      /\ t.ci # <<>> /\ t.ci[Len(t.ci)] \notin Protected
      /\ u.ci = Front(t.ci)
      /\ u.jmp = t.jmp /\ u.ef = t.ef /\ u.baseC = t.baseC /\ u.status = t.status
  BY DEF PopTo
<1> USE <1>0
<1>1. n \in Nat /\ \A k \in 1..Len(t.jmp) : t.jmp[k].ci \in Nat /\ t.jmp[k].nC \in Int
  BY ThreadFacts
<1>2. Len(t.jmp) \in Nat /\ t.baseC \in Int
  BY ThreadFacts
<1>3. Len(t.ci) = n + 1 /\ \A p \in 1..n : u.ci[p] = t.ci[p]
  <2>1. t.ci \in Seq(FrameKinds) /\ Len(t.ci) \in Nat
    BY ThreadFacts
  <2>2. n = Len(t.ci) - 1 /\ \A p \in 1..n : u.ci[p] = t.ci[p]
    BY <2>1, FrontIs
  <2>3. QED
    BY <2>1, <2>2
<1>4. u.ci = <<>> <=> n = 0
  BY ThreadFacts, EmptySeq
<1>5. \A d \in 0..n, m \in Int : IsCount(q, i, d, m) => IsCount(r, i, d, m)
  <2>1. \A d \in 0..n : d \in Nat /\ \A p \in 1..d : r[i][p] = q[i][p]
    BY <1>1, <1>3
  <2>2. QED
    BY <2>1, CountSame
<1>6. \A k \in 2..Len(t.jmp) : t.jmp[k].ci + 1 \in 1..n /\ t.ci[t.jmp[k].ci + 1] \in Protected
  <2>1. \A k \in 2..Len(t.jmp) :
          t.jmp[k].ci + 1 \in 1..(n + 1) /\ t.ci[t.jmp[k].ci + 1] \in Protected
    BY <1>3 DEF Sound, Framed
  <2>2. t.ci[n + 1] \notin Protected
    BY <1>3
  <2>3. \A k \in 2..Len(t.jmp) : t.jmp[k].ci + 1 # n + 1
    BY <2>1, <2>2
  <2>4. \A a \in 1..(n + 1) : a # n + 1 => a \in 1..n
    BY <1>1
  <2>5. QED
    BY ONLY <2>1, <2>3, <2>4
<1>7. Framed(u)
  <2> USE <1>1, <1>2, <1>3
  <2>1. u.jmp # <<>> /\ u.jmp[1] = Handler(NewState)
    BY DEF Sound, Framed
  <2>2. u.ci # <<>> => u.ci[1] = "lua"
    BY <1>4 DEF Sound, Framed
  <2>3. \A k \in 2..Len(u.jmp) :
          u.jmp[k].ci + 1 \in 1..Len(u.ci) /\ u.ci[u.jmp[k].ci + 1] \in Protected
    <3>1. ASSUME NEW k \in 2..Len(t.jmp)
          PROVE  u.ci[t.jmp[k].ci + 1] \in Protected
      BY <1>6
    <3>2. QED
      BY <1>6, <3>1
  <2>4. \A k, m \in 2..Len(u.jmp) : k < m => u.jmp[k].ci < u.jmp[m].ci
    BY DEF Sound, Framed
  <2>5. ASSUME NEW p \in 1..n, u.ci[p] \in Protected
        PROVE  \E k \in 2..Len(u.jmp) : u.jmp[k].ci = p - 1
    <3>1. p \in 1..Len(t.ci) /\ t.ci[p] \in Protected
      BY <2>5
    <3>2. PICK k \in 2..Len(t.jmp) : t.jmp[k].ci = p - 1
      BY <3>1 DEF Sound, Framed
    <3>3. QED
      BY <3>2
  <2>6. \A p \in 1..(n - 1) :
          u.ci[p] \in Resumers \cup {"yield"} => u.ci[p + 1] = "raise"
    <3>1. \A p \in 1..(n - 1) : p \in 1..n /\ p + 1 \in 1..n /\ p \in 1..(Len(t.ci) - 1)
      OBVIOUS
    <3>2. \A p \in 1..(Len(t.ci) - 1) :
            t.ci[p] \in Resumers \cup {"yield"} => t.ci[p + 1] = "raise"
      BY DEF Sound, Framed
    <3>3. QED
      BY <3>1, <3>2
  <2>7. ~(IF Len(u.jmp) = 1 THEN u.ef ELSE u.jmp[2].ef)
    BY DEF Sound, Framed
  <2>8. QED
    BY <2>1, <2>2, <2>3, <2>4, <2>5, <2>6, <2>7 DEF Framed
<1>8. HandlersCount(r, i, u)
  <2>1. \A k \in 2..Len(t.jmp) : t.jmp[k].ci \in 0..n /\ t.jmp[k].nC \in Int
    BY <1>1, <1>2, <1>6
  <2>2. QED
    BY <1>5, <2>1 DEF Sound, HandlersCount
<1>9. Sound(r, i, u)
  <2>1. 0 \in 0..n
    BY <1>1
  <2>2. QED
    BY <1>2, <1>5, <1>7, <1>8, <2>1 DEF Sound
<1>10. ASSUME NEW m \in Int, IsCount(q, i, n + 1, m)
       PROVE  IsCount(r, i, n, IF t.ci[n + 1] \in CFrames THEN m - 1 ELSE m)
  <2>1. n \in 0..n /\ m - 1 \in Int /\ (m - 1) + 1 = m
    BY <1>1
  <2>2. q[i][n + 1] = t.ci[n + 1]
    OBVIOUS
  <2>3. t.ci[n + 1] \in CFrames => IsCount(q, i, n, m - 1)
    <3>1. \A l \in Int : q[i][n + 1] \in CFrames =>
            (IsCount(q, i, n + 1, l + 1) <=> IsCount(q, i, n, l))
      BY <1>1, CountNext
    <3>2. IsCount(q, i, n + 1, (m - 1) + 1)
      BY <1>10, <2>1
    <3>3. QED
      BY <2>1, <2>2, <3>1, <3>2
  <2>4. t.ci[n + 1] \notin CFrames => IsCount(q, i, n, m)
    BY <1>1, <1>10, <2>1, <2>2, CountNext
  <2>5. QED
    BY <1>5, <2>1, <2>3, <2>4
<1>11. QED
  BY <1>3, <1>9, <1>10

\* luaD_pcall, after an error or not, has left the innermost handler: of thread t
\* at place i there remains u.
CutTo(q, r, i, t, u) ==
  LET h == t.jmp[Len(t.jmp)]
  IN  /\ \A k \in 1..(i - 1) : r[k] = q[k]
      /\ q[i] = t.ci /\ r[i] = u.ci
      /\ Len(t.jmp) > 1
      /\ u.ci = SubSeq(t.ci, 1, h.ci) /\ u.nC = h.nC /\ u.ef = h.ef
      /\ u.jmp = Front(t.jmp) /\ u.baseC = t.baseC /\ u.status = t.status
LEMMA CutToHandler ==
  ASSUME NEW q, NEW r, NEW i \in Nat \ {0}, NEW t \in ThreadStates, NEW u \in ThreadStates,
         CutTo(q, r, i, t, u),
         Sound(q, i, t)
  PROVE  Sound(r, i, u) /\ Counted(r, i, u) /\ u.ci # <<>>
<1> DEFINE h == t.jmp[Len(t.jmp)]
           n == h.ci
           j == Len(t.jmp)
<1>0. /\ h = t.jmp[j] /\ j > 1
      /\ u.ci = SubSeq(t.ci, 1, h.ci) /\ u.nC = h.nC /\ u.ef = h.ef
      /\ u.jmp = Front(t.jmp) /\ u.baseC = t.baseC /\ u.status = t.status
      /\ q[i] = t.ci /\ r[i] = u.ci
      /\ \A k \in 1..(i - 1) : r[k] = q[k]
  BY DEF CutTo
<1> HIDE DEF h
<1>1. j \in Nat \ {0, 1} /\ Len(t.ci) \in Nat /\ t.baseC \in Int
  BY <1>0, ThreadFacts
<1>2. h \in HandlerStates /\ n \in Nat /\ h.nC \in Int /\ j \in 2..j
  BY <1>0, <1>1, ThreadFacts
<1>3. n + 1 \in 1..Len(t.ci) /\ t.ci[n + 1] \in Protected
  BY <1>0, <1>2 DEF Sound, Framed
<1>4. Len(u.ci) = n /\ \A p \in 1..n : u.ci[p] = t.ci[p]
  <2>0. \A a \in Nat, b \in Nat : a + 1 \in 1..b => a \in 0..b
    OBVIOUS
  <2>1. n \in 0..Len(t.ci)
    BY <1>1, <1>2, <1>3, <2>0
  <2>2. QED
    BY <1>0, <2>1, ThreadFacts, Prefix
<1>5. Len(u.jmp) = j - 1 /\ \A k \in 1..(j - 1) : u.jmp[k] = t.jmp[k]
  <2>1. t.jmp # <<>> /\ t.jmp \in Seq(HandlerStates)
    BY <1>0, ThreadFacts DEF Sound, Framed
  <2>2. Len(Front(t.jmp)) = j - 1 /\ \A k \in 1..Len(Front(t.jmp)) : Front(t.jmp)[k] = t.jmp[k]
    BY <1>0, <2>1, FrontIs
  <2>3. QED
    BY <1>0, <2>2
<1>6. n > 0 /\ t.ci[1] = "lua"
  <2>1. t.ci # <<>>
    BY <1>0, <1>3, ThreadFacts, EmptySeq
  <2>2. t.ci[1] = "lua"
    BY <1>0, <2>1 DEF Sound, Framed
  <2>3. n = 0 => t.ci[n + 1] = "lua"
    BY <1>0, <2>2
  <2>4. n # 0
    BY <1>0, <1>3, <2>3 DEF Protected
  <2>5. QED
    BY <1>0, <1>2, <2>2, <2>4
<1>7. \A d \in 0..n, m \in Int : IsCount(q, i, d, m) => IsCount(r, i, d, m)
  <2>1. \A d \in 0..n : d \in Nat /\ \A p \in 1..d : r[i][p] = q[i][p]
    BY <1>0, <1>2, <1>4
  <2>2. QED
    BY <1>0, <2>1, CountSame
<1>8. \A k \in 2..(j - 1) : /\ k \in 2..j
                            /\ t.jmp[k].ci \in 0..(n - 1)
                            /\ t.ci[t.jmp[k].ci + 1] \in Protected
                            /\ t.jmp[k].nC \in Int
  <2>1. \A k \in 2..(j - 1) : k \in 2..j /\ k \in 1..j /\ k < j
    BY <1>0, <1>1
  <2>2. \A k \in 2..j : t.ci[t.jmp[k].ci + 1] \in Protected
    BY DEF Sound, Framed
  <2>3. \A k \in 2..j : k < j => t.jmp[k].ci < n
    BY <1>0, <1>2 DEF Sound, Framed
  <2>4. \A k \in 1..j : t.jmp[k].ci \in Nat /\ t.jmp[k].nC \in Int
    BY <1>0, ThreadFacts
  <2>5. QED
    BY <1>0, <1>2, <2>1, <2>2, <2>3, <2>4
<1>9. u.ci # <<>>
  <2>1. Len(u.ci) # 0
    BY <1>0, <1>2, <1>4, <1>6
  <2>2. QED
    BY <1>0, <2>1, ThreadFacts, EmptySeq
<1>10. Framed(u)
  <2>1. u.jmp # <<>> /\ u.jmp[1] = Handler(NewState)
    <3>1. Len(u.jmp) > 0 /\ 1 \in 1..(j - 1)
      BY <1>0, <1>1, <1>5
    <3>2. t.jmp[1] = Handler(NewState)
      BY DEF Sound, Framed
    <3>3. QED
      BY <1>0, <1>5, <3>1, <3>2, ThreadFacts, EmptySeq
  <2>2. u.ci[1] = "lua"
    BY <1>0, <1>2, <1>4, <1>6
  <2>3. \A k \in 2..(j - 1) :
          u.jmp[k].ci + 1 \in 1..n /\ u.ci[u.jmp[k].ci + 1] \in Protected
    <3>1. \A k \in 2..(j - 1) : u.jmp[k] = t.jmp[k]
      BY <1>0, <1>1, <1>5
    <3>2. \A k \in 2..(j - 1) : t.jmp[k].ci + 1 \in 1..n
      <4>1. \A a \in Nat : \A b \in 0..(a - 1) : b + 1 \in 1..a
        OBVIOUS
      <4>2. QED
        BY <1>0, <1>2, <1>8, <4>1
    <3>3. QED
      BY <1>0, <1>4, <1>8, <3>1, <3>2
  <2>4. \A k, m \in 2..(j - 1) : k < m => u.jmp[k].ci < u.jmp[m].ci
    <3>1. \A k \in 2..(j - 1) : k \in 2..j /\ u.jmp[k] = t.jmp[k]
      BY <1>0, <1>1, <1>5
    <3>2. \A k, m \in 2..j : k < m => t.jmp[k].ci < t.jmp[m].ci
      BY DEF Sound, Framed
    <3>3. QED
      BY <1>0, <3>1, <3>2
  <2>5. ASSUME NEW p \in 1..n, u.ci[p] \in Protected
        PROVE  \E k \in 2..(j - 1) : u.jmp[k].ci = p - 1
    <3>1. p \in 1..Len(t.ci) /\ t.ci[p] \in Protected
      BY <1>0, <1>1, <1>2, <1>3, <1>4, <2>5
    <3>2. PICK k \in 2..j : t.jmp[k].ci = p - 1
      BY <1>0, <3>1 DEF Sound, Framed
    <3>3. k # j
      BY <1>0, <1>2, <3>2
    <3>4. k \in 2..(j - 1) /\ u.jmp[k] = t.jmp[k]
      BY <1>0, <1>1, <1>5, <3>3
    <3>5. QED
      BY <1>0, <3>2, <3>4
  <2>6. \A p \in 1..(n - 1) :
          u.ci[p] \in Resumers \cup {"yield"} => u.ci[p + 1] = "raise"
    <3>1. \A p \in 1..(n - 1) : p \in 1..n /\ p + 1 \in 1..n /\ p \in 1..(Len(t.ci) - 1)
      <4>1. \A a \in Nat, b \in Nat : a + 1 \in 1..b =>
              \A p \in 1..(a - 1) : p \in 1..a /\ p + 1 \in 1..a /\ p \in 1..(b - 1)
        OBVIOUS
      <4>2. QED
        BY <1>0, <1>1, <1>2, <1>3, <4>1
    <3>2. \A p \in 1..(Len(t.ci) - 1) :
            t.ci[p] \in Resumers \cup {"yield"} => t.ci[p + 1] = "raise"
      BY DEF Sound, Framed
    <3>3. QED
      BY <1>0, <1>4, <3>1, <3>2
  <2>7. ~(IF Len(u.jmp) = 1 THEN u.ef ELSE u.jmp[2].ef)
    <3>1. ~t.jmp[2].ef
      BY <1>0, <1>1 DEF Sound, Framed
    <3>2. CASE j = 2
      BY <1>0, <1>5, <3>1, <3>2
    <3>3. CASE j # 2
      <4>1. Len(u.jmp) # 1 /\ 2 \in 1..(j - 1)
        <5>1. \A a \in Nat \ {0, 1} : a # 2 => a - 1 # 1 /\ 2 \in 1..(a - 1)
          OBVIOUS
        <5>2. QED
          BY <1>0, <1>1, <1>5, <3>3, <5>1
      <4>2. QED
        BY <1>0, <1>5, <3>1, <4>1
    <3>4. QED
      BY <1>0, <3>2, <3>3
  <2>8. QED
    BY <1>0, <1>4, <1>5, <1>9, <2>1, <2>2, <2>3, <2>4, <2>5, <2>6, <2>7 DEF Framed
<1>11. \A k \in 2..j : IsCount(q, i, t.jmp[k].ci, t.jmp[k].nC) /\ t.jmp[k].nC < MaxC + Extra
  BY DEF Sound, HandlersCount
<1>12. HandlersCount(r, i, u)
  <2>1. ASSUME NEW k \in 2..(j - 1)
        PROVE  IsCount(r, i, u.jmp[k].ci, u.jmp[k].nC) /\ u.jmp[k].nC < MaxC + Extra
    <3>1. k \in 2..j /\ u.jmp[k] = t.jmp[k]
      BY <1>0, <1>1, <1>5
    <3>2. t.jmp[k].ci \in 0..n /\ t.jmp[k].nC \in Int
      <4>1. t.jmp[k].ci \in 0..(n - 1) /\ t.jmp[k].nC \in Int
        BY <1>0, <1>8
      <4>2. QED
        BY <1>0, <1>2, <4>1
    <3>3. QED
      BY <1>0, <1>7, <1>11, <3>1, <3>2
  <2>2. QED
    BY <1>0, <1>5, <2>1 DEF HandlersCount
<1>13. Counted(r, i, u)
  <2>1. n \in 0..n
    BY <1>0, <1>2
  <2>2. IsCount(r, i, n, h.nC) /\ h.nC < MaxC + Extra
    BY <1>0, <1>2, <1>7, <1>11, <2>1
  <2>3. QED
    BY <1>0, <1>4, <2>2 DEF Counted
<1>14. Sound(r, i, u)
  <2>1. 0 \in 0..n
    BY <1>0, <1>2
  <2>2. i > 1 => IsCount(r, i, 0, u.baseC)
    BY <1>0, <1>1, <1>7, <2>1 DEF Sound
  <2>3. u.status = "ok" /\ (i = 1 => u.baseC = 0)
    BY <1>0 DEF Sound
  <2>4. QED
    BY <1>0, <1>10, <1>12, <2>2, <2>3 DEF Sound
<1>15. QED
  BY <1>0, <1>9, <1>13, <1>14
-----------------------------------------------------------------------------
\* Steps of the running thread.
TopIs(x, y, t) ==
  /\ y \in CallStates
  /\ y.chain = x.chain
  /\ y.th[Run(x)] = t
  /\ \A u \in Threads \ {Run(x)} : y.th[u] = x.th[u]

\* The running thread changes.
LEMMA WithIs ==
  ASSUME NEW x \in CallStates, x.chain # <<>>, NEW t \in ThreadStates
  PROVE  TopIs(x, With(x, t), t) /\ With(x, t).err = x.err
<1>1. Run(x) \in Threads /\ x.th \in [Threads -> ThreadStates]
  BY ChainFacts DEF CallStates
<1> DEFINE th == [x.th EXCEPT ![Run(x)] = t]
<1>2. th \in [Threads -> ThreadStates] /\ th[Run(x)] = t
      /\ \A u \in Threads \ {Run(x)} : th[u] = x.th[u]
  BY <1>1
<1>3. With(x, t) = [x EXCEPT !.th = th]
  BY DEF With
<1> HIDE DEF th
<1>4. With(x, t) \in CallStates /\ With(x, t).chain = x.chain /\ With(x, t).err = x.err
      /\ With(x, t).th = th
  BY <1>2, <1>3 DEF CallStates
<1>5. QED
  BY <1>2, <1>4 DEF TopIs

\* luaG_errormsg is entered or left.
LEMMA ErrIs ==
  ASSUME NEW x \in CallStates, NEW b \in BOOLEAN
  PROVE  LET y == [x EXCEPT !.err = b]
         IN  y \in CallStates /\ y.chain = x.chain /\ y.th = x.th /\ y.err = b
BY DEF CallStates

\* A change of the running thread leaves the others and their frames as they are, ...
LEMMA TopFrames ==
  ASSUME NEW x \in CallStates, NEW y \in CallStates, NEW t \in ThreadStates,
         Active(x), TopIs(x, y, t)
  PROVE  /\ Top(x) \in Nat \ {0}
         /\ Cur(x) \in ThreadStates
         /\ Sound(Cis(x), Top(x), Cur(x))
         /\ Cur(y) = t /\ Run(y) = Run(x) /\ Top(y) = Top(x)
         /\ \A k \in 1..(Top(x) - 1) : Cis(y)[k] = Cis(x)[k]
         /\ Cis(x)[Top(x)] = Cur(x).ci
         /\ Cis(y)[Top(x)] = t.ci
         /\ \A k \in 1..(Top(x) - 1) : y.th[x.chain[k]] = x.th[x.chain[k]]
<1>1. x.chain # <<>> /\ y.chain = x.chain
  BY DEF Active, TopIs
<1>2. Top(x) \in Nat \ {0} /\ Cur(x) \in ThreadStates /\ Run(x) = x.chain[Top(x)]
      /\ Cur(x) = x.th[x.chain[Top(x)]]
  BY <1>1, ChainFacts DEF Top
<1>3. \A k \in 1..Top(x) : x.chain[k] \in Threads /\ Cis(x)[k] = x.th[x.chain[k]].ci
                           /\ Cis(y)[k] = y.th[x.chain[k]].ci
  BY <1>1, ChainFacts DEF Top
<1>4. Run(y) = Run(x) /\ Top(y) = Top(x) /\ Cur(y) = t
  BY <1>1 DEF Run, Top, Cur, TopIs
<1>5. Top(x) \in 1..Top(x)
  BY <1>2
<1>6. \A k \in 1..(Top(x) - 1) : y.th[x.chain[k]] = x.th[x.chain[k]]
  <2>1. SUFFICES ASSUME NEW k \in 1..(Top(x) - 1)
                 PROVE  y.th[x.chain[k]] = x.th[x.chain[k]]
    OBVIOUS
  <2>2. k \in 1..Top(x) /\ k # Top(x)
    BY <1>2
  <2>3. x.chain[k] # Run(x)
    BY <1>2, <1>5, <2>2 DEF Active, Top
  <2>4. QED
    BY <1>3, <2>2, <2>3 DEF TopIs
<1>7. \A k \in 1..(Top(x) - 1) : k \in 1..Top(x)
  BY <1>2
<1>8. Sound(Cis(x), Top(x), Cur(x))
  BY <1>2, <1>5 DEF Active, Top
<1>9. Cis(y)[Top(x)] = t.ci
  BY <1>2, <1>3, <1>5 DEF TopIs
<1>10. QED
  BY <1>2, <1>3, <1>4, <1>5, <1>6, <1>7, <1>8, <1>9

\* ... and with them what holds of them.
LEMMA TopChange ==
  ASSUME NEW x \in CallStates, NEW y \in CallStates, NEW t \in ThreadStates,
         Active(x), TopIs(x, y, t), Sound(Cis(y), Top(x), t)
  PROVE  Active(y) /\ (Resting(x) => Resting(y))
<1>1. y.chain = x.chain /\ Top(y) = Top(x) /\ Cur(y) = t /\ Top(x) \in Nat \ {0}
  BY TopFrames DEF TopIs
<1>2. \A k \in 1..(Top(x) - 1) : /\ y.th[x.chain[k]] = x.th[x.chain[k]]
                                 /\ Cis(y)[k] = Cis(x)[k]
                                 /\ Cis(x)[k] = x.th[x.chain[k]].ci
                                 /\ x.th[x.chain[k]] \in ThreadStates
  <2>1. \A k \in 1..(Top(x) - 1) : k \in 1..Len(x.chain)
    BY <1>1 DEF Top
  <2>2. x.chain # <<>>
    BY DEF Active
  <2>3. QED
    BY <2>1, <2>2, TopFrames, ChainFacts
<1>3. ASSUME NEW k \in 1..(Top(x) - 1)
      PROVE  /\ Sound(Cis(y), k, y.th[y.chain[k]])
             /\ Waits(Cis(y), k, y.th[y.chain[k]])
  <2>1. k \in Nat \ {0} /\ k \in 1..Len(x.chain) /\ k \in 1..(Len(x.chain) - 1)
        /\ \A l \in 1..k : l \in 1..(Top(x) - 1)
    BY <1>1 DEF Top
  <2>2. Sound(Cis(x), k, x.th[x.chain[k]]) /\ Waits(Cis(x), k, x.th[x.chain[k]])
    BY <2>1 DEF Active
  <2>3. \A l \in 1..k : Cis(y)[l] = Cis(x)[l]
    BY <1>2, <2>1
  <2>4. y.th[y.chain[k]] = x.th[x.chain[k]]
    BY <1>1, <1>2
  <2>5. x.th[x.chain[k]] \in ThreadStates /\ Cis(x)[k] = x.th[x.chain[k]].ci
    BY <1>2
  <2>6. Sound(Cis(y), k, x.th[x.chain[k]]) /\ Waits(Cis(y), k, x.th[x.chain[k]])
    BY <2>1, <2>2, <2>3, <2>5, SoundSame
  <2>7. QED
    BY <2>4, <2>6
<1>4. Sound(Cis(y), Top(x), y.th[y.chain[Top(x)]])
  BY <1>1 DEF Cur, Run, Top
<1>5. \A k \in 1..Top(x) : k \in 1..(Top(x) - 1) \/ k = Top(x)
  BY <1>1
<1>6. Active(y)
  <2>1. \A k \in 1..Len(y.chain) : Sound(Cis(y), k, y.th[y.chain[k]])
    BY <1>1, <1>3, <1>4, <1>5 DEF Top
  <2>2. \A k \in 1..(Len(y.chain) - 1) : Waits(Cis(y), k, y.th[y.chain[k]])
    BY <1>1, <1>3 DEF Top
  <2>3. QED
    BY <1>1, <2>1, <2>2 DEF Active
<1>7. Resting(x) => Resting(y)
  <2>1. SUFFICES ASSUME Resting(x), NEW co \in Cos, \A i \in 1..Len(y.chain) : y.chain[i] # co
                 PROVE  Rests(y.th[co])
    BY DEF Resting
  <2>2. co # Run(x)
    BY <1>1, <2>1 DEF Run, Top
  <2>3. y.th[co] = x.th[co]
    BY <2>2 DEF TopIs, Threads
  <2>4. QED
    BY <1>1, <2>1, <2>3 DEF Resting
<1>8. QED
  BY <1>6, <1>7
-----------------------------------------------------------------------------
\* A coroutine is left: its resumer runs.
LEMMA LeftThread ==
  ASSUME NEW t \in ThreadStates
  PROVE  LET u == [t EXCEPT !.nC = @ - 1, !.jmp = <<>>]
         IN  u \in ThreadStates /\ u.ci = t.ci /\ u.status = t.status /\ u.ef = t.ef
<1>1. t.nC - 1 \in Int /\ <<>> \in Seq(HandlerStates)
  BY ThreadFacts, EmptySeq
<1>2. QED
  BY <1>1 DEF ThreadStates

\* What lua_resume leaves behind when it comes back.
LEMMA LeftIs ==
  ASSUME NEW x \in CallStates, NEW t \in ThreadStates, Active(x), Top(x) > 1, Rests(t)
  PROVE  LET y == Left(x, t)
         IN  /\ y \in CallStates
             /\ Active(y)
             /\ Counted(Cis(y), Top(y), Cur(y))
             /\ Cur(y).ci # <<>>
             /\ Cur(y).ci[Len(Cur(y).ci)] \in Resumers
             /\ ~y.err
             /\ Resting(x) => Resting(y)
<1> DEFINE u == [t EXCEPT !.nC = @ - 1, !.jmp = <<>>]
           w == With(x, u)
           y == Left(x, t)
           n == Top(x) - 1
<1>1. u \in ThreadStates /\ Rests(u)
  BY LeftThread DEF Rests
<1>2. x.chain # <<>> /\ x.chain \in Seq(Threads)
  BY DEF Active, CallStates
<1> HIDE DEF u
<1>3. TopIs(x, w, u)
  BY <1>1, <1>2, WithIs
<1>4. w \in CallStates /\ w.chain = x.chain
  BY <1>3 DEF TopIs
<1>5. /\ Front(x.chain) \in Seq(Threads)
      /\ Len(Front(x.chain)) = n
      /\ \A k \in 1..n : Front(x.chain)[k] = x.chain[k]
  <2>1. Len(Front(x.chain)) = Len(x.chain) - 1
        /\ \A k \in 1..Len(Front(x.chain)) : Front(x.chain)[k] = x.chain[k]
    BY <1>2, FrontIs
  <2>2. QED
    BY <1>2, <2>1, FrontIs DEF Top
<1>6. y \in CallStates /\ y.chain = Front(x.chain) /\ y.th = w.th /\ ~y.err
  <2>1. y = [w EXCEPT !.chain = Front(@), !.err = FALSE]
    BY DEF Left, u
  <2> HIDE DEF w, y
  <2>2. QED
    BY <1>4, <1>5, <2>1 DEF CallStates
<1> HIDE DEF y, w
<1>7. Top(x) \in Nat \ {0, 1} /\ n \in Nat \ {0} /\ Top(y) = n
  BY <1>2, <1>5, <1>6, ChainFacts DEF Top
<1>8. y.chain # <<>>
  BY <1>5, <1>6, <1>7, EmptySeq
<1>9. ASSUME NEW k \in 1..n
      PROVE  /\ y.chain[k] = x.chain[k]
             /\ y.th[y.chain[k]] = x.th[x.chain[k]]
             /\ Sound(Cis(y), k, y.th[y.chain[k]])
             /\ Waits(Cis(y), k, y.th[y.chain[k]])
  <2>1. \A l \in 1..n : y.chain[l] = x.chain[l] /\ y.th[x.chain[l]] = x.th[x.chain[l]]
    <3>1. \A l \in 1..n : w.th[x.chain[l]] = x.th[x.chain[l]]
      BY <1>1, <1>3, <1>4, TopFrames
    <3>2. QED
      BY <1>5, <1>6, <3>1
  <2>2. \A l \in 1..n : l \in 1..Len(x.chain) /\ l \in 1..(Len(x.chain) - 1)
                        /\ l \in 1..Len(y.chain) /\ l \in Nat \ {0}
    BY <1>7 DEF Top
  <2>3. \A l \in 1..n : Cis(y)[l] = Cis(x)[l] /\ Cis(x)[l] = x.th[x.chain[l]].ci
                        /\ x.th[x.chain[l]] \in ThreadStates
    <3>1. \A l \in 1..n : Cis(x)[l] = x.th[x.chain[l]].ci /\ x.th[x.chain[l]] \in ThreadStates
      BY <1>2, <2>2, ChainFacts
    <3>2. \A l \in 1..n : Cis(y)[l] = y.th[y.chain[l]].ci
      BY <1>6, <1>8, <2>2, ChainFacts
    <3>3. QED
      BY <2>1, <3>1, <3>2
  <2>4. \A l \in 1..k : l \in 1..n
    BY <1>7
  <2>5. \A l \in 1..k : Cis(y)[l] = Cis(x)[l]
    BY <2>3, <2>4
  <2>6. Sound(Cis(x), k, x.th[x.chain[k]]) /\ Waits(Cis(x), k, x.th[x.chain[k]])
    BY <2>2 DEF Active
  <2>7. x.th[x.chain[k]] \in ThreadStates /\ Cis(x)[k] = x.th[x.chain[k]].ci /\ k \in Nat \ {0}
    BY <2>2, <2>3
  <2>8. Sound(Cis(y), k, x.th[x.chain[k]]) /\ Waits(Cis(y), k, x.th[x.chain[k]])
    BY <2>5, <2>6, <2>7, SoundSame
  <2>9. QED
    BY <2>1, <2>8
<1>10. Active(y)
  <2>1. \A k \in 1..Len(y.chain) : k \in 1..n
    BY <1>5, <1>6
  <2>2. \A i, j \in 1..Len(y.chain) : y.chain[i] = y.chain[j] => i = j
    <3>1. \A i \in 1..n : i \in 1..Len(x.chain)
      BY <1>7 DEF Top
    <3>2. QED
      BY <1>9, <2>1, <3>1 DEF Active
  <2>3. y.chain[1] = Main
    BY <1>7, <1>9 DEF Active
  <2>4. \A i \in 1..(Len(y.chain) - 1) : i \in 1..n
    BY <1>5, <1>6, <1>7
  <2>5. QED
    BY <1>8, <1>9, <2>1, <2>2, <2>3, <2>4 DEF Active
<1>11. Waits(Cis(y), Top(y), Cur(y))
  BY <1>7, <1>9 DEF Cur, Run, Top
<1>12. Resting(x) => Resting(y)
  <2>1. SUFFICES ASSUME Resting(x), NEW co \in Cos, \A i \in 1..Len(y.chain) : y.chain[i] # co
                 PROVE  Rests(y.th[co])
    BY DEF Resting
  <2>2. CASE co = Run(x)
    BY <1>1, <1>3, <1>6, <2>2 DEF TopIs
  <2>3. CASE co # Run(x)
    <3>1. y.th[co] = x.th[co]
      BY <1>3, <1>6, <2>3 DEF TopIs, Threads
    <3>2. \A i \in 1..Len(x.chain) : i \in 1..n \/ i = Top(x)
      BY <1>7 DEF Top
    <3>3. \A i \in 1..n : y.chain[i] = x.chain[i] /\ i \in 1..Len(y.chain)
      BY <1>5, <1>6
    <3>4. \A i \in 1..Len(x.chain) : x.chain[i] # co
      BY <2>1, <2>3, <3>2, <3>3 DEF Run, Top
    <3>5. QED
      BY <2>1, <3>1, <3>4 DEF Resting
  <2>4. QED
    BY <2>2, <2>3
<1>13. QED
  BY <1>6, <1>10, <1>11, <1>12 DEF Waits, y

\* What the resumer does then: its C function returns, or raises the error again.
LEMMA BackKeeps ==
  ASSUME NEW x \in CallStates, Active(x), Resting(x), Counted(Cis(x), Top(x), Cur(x)),
         Cur(x).ci # <<>>, Cur(x).ci[Len(Cur(x).ci)] \in Resumers
  PROVE  CallInv(Back(x))
<1> DEFINE t == Cur(x)
           u == [t EXCEPT !.ci = Front(@)]
           y == Back(x)
<1>1. x.chain # <<>> /\ t \in ThreadStates
  BY ChainFacts DEF Active
<1>2. t.ci \in Seq(FrameKinds) /\ Len(t.ci) \in Nat
  BY <1>1, ThreadFacts
<1>3. Front(t.ci) \in Seq(FrameKinds) /\ Len(Front(t.ci)) = Len(t.ci) - 1
  BY <1>2, FrontIs
<1> HIDE DEF t
<1>4. u \in ThreadStates /\ u.ci = Front(t.ci) /\ u.jmp = t.jmp /\ u.ef = t.ef /\ u.nC = t.nC
      /\ u.baseC = t.baseC /\ u.status = t.status
  BY <1>1, <1>3 DEF ThreadStates
<1>5. y = With(x, u)
  BY DEF Back, t
<1> HIDE DEF u, y
<1>6. TopIs(x, y, u) /\ y.err = x.err
  BY <1>1, <1>4, <1>5, WithIs
<1>7. y \in CallStates
  BY <1>6 DEF TopIs
<1>8. /\ Top(x) \in Nat \ {0}
      /\ Sound(Cis(x), Top(x), t)
      /\ Cur(y) = u /\ Top(y) = Top(x)
      /\ \A k \in 1..(Top(x) - 1) : Cis(y)[k] = Cis(x)[k]
      /\ Cis(x)[Top(x)] = t.ci
      /\ Cis(y)[Top(x)] = u.ci
  BY <1>4, <1>6, <1>7, TopFrames DEF t
<1>9. t.ci # <<>> /\ t.ci[Len(t.ci)] \in Resumers
      /\ IsCount(Cis(x), Top(x), Len(t.ci), t.nC) /\ t.nC < MaxC + Extra /\ t.nC \in Int
  BY <1>1, <1>8, ThreadFacts DEF Counted, t
<1>10. t.ci[Len(t.ci)] \notin Protected /\ t.ci[Len(t.ci)] \notin CFrames
  BY <1>9 DEF Resumers, Protected, CFrames, Callers
<1>11. Sound(Cis(y), Top(x), u) /\ IsCount(Cis(y), Top(x), Len(u.ci), u.nC)
  <2>1. PopTo(Cis(x), Cis(y), Top(x), t, u)
    BY <1>4, <1>8, <1>9, <1>10 DEF PopTo
  <2>2. QED
    BY <1>1, <1>4, <1>8, <1>9, <1>10, <2>1, PoppedFrame
<1>12. Active(y) /\ Resting(y)
  BY <1>4, <1>6, <1>7, <1>11, TopChange
<1>13. u.ci # <<>>
  <2>1. t.ci[1] = "lua"
    BY <1>8, <1>9 DEF Sound, Framed
  <2>2. Len(t.ci) # 1
    BY <1>9, <2>1 DEF Resumers
  <2>3. Len(t.ci) # 0
    BY <1>2, <1>9, EmptySeq
  <2>4. Len(u.ci) # 0
    <3>1. \A a \in Nat : a # 1 => a - 1 # 0
      OBVIOUS
    <3>2. QED
      BY <1>2, <1>3, <1>4, <2>2, <3>1
  <2>5. QED
    BY <2>4, EmptySeq
<1>14. Counted(Cis(y), Top(y), u)
  BY <1>4, <1>8, <1>9, <1>11 DEF Counted
<1>15. QED
  BY <1>7, <1>8, <1>12, <1>13, <1>14 DEF CallInv, y
-----------------------------------------------------------------------------
\* luaD_throw.
LEMMA CaughtThread ==
  ASSUME NEW t \in ThreadStates, NEW h \in HandlerStates, h.ci \in 0..Len(t.ci), t.jmp # <<>>
  PROVE  LET u == [t EXCEPT !.ci = SubSeq(@, 1, h.ci), !.nC = h.nC, !.ef = h.ef,
                            !.jmp = Front(@)]
         IN  /\ u \in ThreadStates
             /\ u.ci = SubSeq(t.ci, 1, h.ci) /\ u.nC = h.nC /\ u.ef = h.ef
             /\ u.jmp = Front(t.jmp) /\ u.baseC = t.baseC /\ u.status = t.status
<1>1. SubSeq(t.ci, 1, h.ci) \in Seq(FrameKinds)
  BY ThreadFacts, Prefix
<1>2. Front(t.jmp) \in Seq(HandlerStates)
  BY ThreadFacts, FrontIs
<1>3. h.nC \in Int /\ h.ef \in BOOLEAN
  BY DEF HandlerStates
<1>4. QED
  BY <1>1, <1>2, <1>3 DEF ThreadStates

\* luaD_throw, from any state of the running thread.
LEMMA ThrowKeeps ==
  ASSUME NEW x \in CallStates, Active(x), Resting(x)
  PROVE  CallInv(Throw(x))
<1> DEFINE t == Cur(x)
           j == Len(t.jmp)
           h == t.jmp[j]
           caught == [t EXCEPT !.ci = SubSeq(@, 1, h.ci), !.nC = h.nC, !.ef = h.ef,
                               !.jmp = Front(@)]
           dead == Left(x, [t EXCEPT !.status = "dead"])
<1>1. x.chain # <<>> /\ t \in ThreadStates
  BY ChainFacts DEF Active
<1>2. Top(x) \in Nat \ {0} /\ Sound(Cis(x), Top(x), t)
  <2>1. Top(x) \in Nat \ {0} /\ Top(x) \in 1..Len(x.chain)
    BY <1>1, ChainFacts DEF Top
  <2>2. QED
    BY <2>1 DEF Active, Cur, Run, Top
<1>3. t.jmp # <<>> /\ t.jmp[1] = Handler(NewState) /\ t.status = "ok"
  BY <1>2 DEF Sound, Framed
<1>4. j \in Nat \ {0} /\ h \in HandlerStates
  <2>1. t.jmp \in Seq(HandlerStates)
    BY <1>1, ThreadFacts
  <2>2. j \in Nat \ {0}
    BY <1>3, <2>1, EmptySeq
  <2>3. j \in 1..j
    BY <2>2
  <2>4. QED
    BY <2>1, <2>2, <2>3, ElementOfSeq
<1>5. Len(t.ci) \in Nat /\ h.ci \in Nat
  BY <1>1, <1>4, ThreadFacts DEF HandlerStates
<1>6. j = 1 => h.ci = 0 /\ h.nC = 0 /\ h.ef = FALSE
  <2>1. Len(NewState.ci) = 0
    BY EmptySeq DEF NewState
  <2>2. QED
    BY <1>3, <2>1 DEF Handler, NewState
<1>7. h.ci \in 0..Len(t.ci)
  <2>1. CASE j = 1
    BY <1>5, <1>6, <2>1
  <2>2. CASE j # 1
    <3>1. j \in 2..j
      <4>1. \A a \in Nat \ {0} : a # 1 => a \in 2..a
        OBVIOUS
      <4>2. QED
        BY <1>4, <2>2, <4>1
    <3>2. h.ci + 1 \in 1..Len(t.ci)
      BY <1>2, <3>1 DEF Sound, Framed
    <3>3. QED
      BY <1>5, <3>2
  <2>3. QED
    BY <2>1, <2>2
<1>8. /\ caught \in ThreadStates
      /\ caught.ci = SubSeq(t.ci, 1, h.ci) /\ caught.nC = h.nC /\ caught.ef = h.ef
      /\ caught.jmp = Front(t.jmp) /\ caught.baseC = t.baseC /\ caught.status = t.status
  BY <1>1, <1>3, <1>4, <1>7, CaughtThread
<1>9. Throw(x) = IF Run(x) = Main \/ j > 1
                 THEN [With(x, caught) EXCEPT !.err = FALSE]
                 ELSE IF Last(Cur(dead).ci) = "wrap" THEN [dead EXCEPT !.err = TRUE]
                 ELSE Back(dead)
  BY DEF Throw
<1> DEFINE w == With(x, caught)
           y == [w EXCEPT !.err = FALSE]
<1> HIDE DEF caught
<1>10. TopIs(x, w, caught)
  BY <1>1, <1>8, WithIs
<1> HIDE DEF w
<1>11. y \in CallStates /\ y.chain = x.chain /\ y.th = w.th /\ ~y.err
  BY <1>10, ErrIs DEF TopIs
<1> HIDE DEF y
<1>12. TopIs(x, y, caught)
  BY <1>10, <1>11 DEF TopIs
<1>13. CASE j > 1
  <2>1. /\ Cur(y) = caught /\ Top(y) = Top(x)
        /\ \A k \in 1..(Top(x) - 1) : Cis(y)[k] = Cis(x)[k]
        /\ Cis(x)[Top(x)] = t.ci
        /\ Cis(y)[Top(x)] = caught.ci
    BY <1>8, <1>11, <1>12, TopFrames DEF t
  <2> HIDE DEF t
  <2>2. Sound(Cis(y), Top(x), caught) /\ Counted(Cis(y), Top(x), caught) /\ caught.ci # <<>>
    <3>1. CutTo(Cis(x), Cis(y), Top(x), t, caught)
      BY <1>8, <1>13, <2>1 DEF CutTo
    <3>2. QED
      BY <1>1, <1>2, <1>8, <3>1, CutToHandler
  <2>3. Active(y) /\ Resting(y)
    BY <1>8, <1>11, <1>12, <2>2, TopChange
  <2>4. Throw(x) = y
    BY <1>9, <1>13 DEF y, w
  <2>5. QED
    BY <1>11, <2>1, <2>2, <2>3, <2>4 DEF CallInv
<1>14. CASE j = 1 /\ Run(x) = Main
  <2>1. Throw(x) = y
    BY <1>9, <1>14 DEF y, w
  <2>2. x.chain = <<Main>>
    <3>1. Top(x) \in 1..Top(x) /\ 1 \in 1..Top(x) /\ x.chain[Top(x)] = x.chain[1]
      BY <1>2, <1>14 DEF Active, Run, Top
    <3>2. Top(x) = 1
      BY <3>1 DEF Active, Top
    <3>3. x.chain \in Seq(Threads)
      BY DEF CallStates
    <3>4. QED
      BY <3>1, <3>2, <3>3 DEF Top, Active
  <2>3. caught.ci = <<>>
    BY <1>6, <1>8, <1>14
  <2>4. caught.jmp = <<>>
    <3>1. Front(t.jmp) \in Seq(HandlerStates) /\ Len(Front(t.jmp)) = j - 1
      BY <1>1, <1>3, ThreadFacts, FrontIs
    <3>2. Len(Front(t.jmp)) = 0
      BY <1>14, <3>1
    <3>3. QED
      BY <1>8, <3>1, <3>2, EmptySeq
  <2>5. y.th[Main] = caught
    BY <1>12, <1>14 DEF TopIs
  <2>6. IdleMain(y)
    <3>1. Len(x.chain) = 1
      BY <2>2
    <3>2. t.baseC = 0
      BY <1>2, <3>1 DEF Sound, Top
    <3>3. QED
      BY <3>2, <1>3, <1>6, <1>8, <1>11, <1>14, <2>2, <2>3, <2>4, <2>5 DEF IdleMain
  <2>7. Resting(y)
    <3>1. SUFFICES ASSUME NEW co \in Cos, \A i \in 1..Len(y.chain) : y.chain[i] # co
                   PROVE  Rests(y.th[co])
      BY DEF Resting
    <3>2. co # Run(x)
      BY <1>14, CallConstants
    <3>3. y.th[co] = x.th[co]
      BY <1>12, <3>2 DEF TopIs, Threads
    <3>4. QED
      BY <1>11, <3>1, <3>3 DEF Resting
  <2>8. QED
    BY <1>11, <2>1, <2>6, <2>7 DEF CallInv
<1>15. CASE j = 1 /\ Run(x) # Main
  <2> DEFINE d == [t EXCEPT !.status = "dead"]
  <2>1. d \in ThreadStates /\ d.status = "dead"
    BY <1>1 DEF ThreadStates
  <2>2. Rests(d)
    BY <2>1 DEF Rests
  <2> HIDE DEF d
  <2>3. Top(x) > 1
    <3>1. Top(x) # 1
      BY <1>15 DEF Active, Run, Top
    <3>2. QED
      BY <1>2, <3>1
  <2>4. /\ dead \in CallStates
        /\ Active(dead)
        /\ Counted(Cis(dead), Top(dead), Cur(dead))
        /\ Cur(dead).ci # <<>>
        /\ Cur(dead).ci[Len(Cur(dead).ci)] \in Resumers
        /\ Resting(dead)
    <3>1. dead = Left(x, d)
      BY DEF d
    <3>2. QED
      BY <2>1, <2>2, <2>3, <3>1, LeftIs
  <2> HIDE DEF dead
  <2>5. CallInv(Back(dead))
    BY <2>4, BackKeeps
  <2>6. CallInv([dead EXCEPT !.err = TRUE])
    <3> DEFINE z == [dead EXCEPT !.err = TRUE]
    <3>1. z \in CallStates /\ z.chain = dead.chain /\ z.th = dead.th /\ z.err
      BY <2>4, ErrIs
    <3> HIDE DEF z
    <3>2. Cis(z) = Cis(dead) /\ Top(z) = Top(dead) /\ Cur(z) = Cur(dead)
      BY <3>1 DEF Cis, Top, Cur, Run
    <3>3. Active(z) /\ Resting(z)
      BY <2>4, <3>1, <3>2 DEF Active, Resting
    <3>4. CallInv(z)
      BY <2>4, <3>1, <3>2, <3>3 DEF CallInv
    <3>5. QED
      BY <3>4 DEF z
  <2>7. Throw(x) = IF Last(Cur(dead).ci) = "wrap" THEN [dead EXCEPT !.err = TRUE]
                   ELSE Back(dead)
    BY <1>9, <1>15
  <2>8. QED
    BY <2>5, <2>6, <2>7
<1>16. QED
  <2>1. \A a \in Nat \ {0} : a = 1 \/ a > 1
    OBVIOUS
  <2>2. j = 1 \/ j > 1
    BY <1>4, <2>1
  <2>3. QED
    BY <1>13, <1>14, <1>15, <2>2

\* A step of the running thread whose C calls are counted.
LEMMA StepKeeps ==
  ASSUME NEW x \in CallStates, NEW y \in CallStates, NEW u \in ThreadStates,
         Active(x), Resting(x), TopIs(x, y, u),
         Sound(Cis(y), Top(x), u),
         IsCount(Cis(y), Top(x), Len(u.ci), u.nC),
         u.nC < MaxC + Extra,
         y.err \/ u.ci # <<>>
  PROVE  CallInv(y)
<1>1. Active(y) /\ Resting(y)
  BY TopChange
<1>2. Cur(y) = u /\ Top(y) = Top(x) /\ Cis(y)[Top(x)] = u.ci
  BY TopFrames
<1>3. Counted(Cis(y), Top(y), Cur(y))
  BY <1>2 DEF Counted
<1>4. QED
  BY <1>1, <1>2, <1>3 DEF CallInv

\* The thread with one frame more.
LEMMA PushIs ==
  ASSUME NEW t \in ThreadStates, NEW f \in FrameKinds
  PROVE  LET u == Push(t, f)
         IN  /\ u \in ThreadStates /\ u.ci = Append(t.ci, f)
             /\ u.jmp = t.jmp /\ u.ef = t.ef /\ u.nC = t.nC /\ u.baseC = t.baseC
             /\ u.status = t.status
<1>1. Append(t.ci, f) \in Seq(FrameKinds)
  BY ThreadFacts, AppendProperties
<1>2. QED
  BY <1>1 DEF Push, ThreadStates

\* The thread with another nCcalls.
LEMMA NcIs ==
  ASSUME NEW t \in ThreadStates, NEW n \in Int
  PROVE  LET u == [t EXCEPT !.nC = n]
         IN  /\ u \in ThreadStates /\ u.ci = t.ci
             /\ u.jmp = t.jmp /\ u.ef = t.ef /\ u.nC = n /\ u.baseC = t.baseC
             /\ u.status = t.status
             /\ \A q, i : Sound(q, i, t) => Sound(q, i, u)
<1> DEFINE u == [t EXCEPT !.nC = n]
<1>1. /\ u \in ThreadStates /\ u.ci = t.ci
      /\ u.jmp = t.jmp /\ u.ef = t.ef /\ u.nC = n /\ u.baseC = t.baseC
      /\ u.status = t.status
  BY DEF ThreadStates
<1> HIDE DEF u
<1>2. Framed(t) => Framed(u)
  BY <1>1 DEF Framed
<1>3. \A q, i : HandlersCount(q, i, t) => HandlersCount(q, i, u)
  BY <1>1 DEF HandlersCount
<1>4. \A q, i : Sound(q, i, t) => Sound(q, i, u)
  BY <1>1, <1>2, <1>3 DEF Sound
<1>5. QED
  BY <1>1, <1>4 DEF u

\* luaD_call, once the C function that makes the call is among the frames.
LEMMA CallKeeps ==
  ASSUME NEW x \in CallStates, Active(x), Resting(x),
         IsCount(Cis(x), Top(x), Len(Cur(x).ci), Cur(x).nC + 1),
         Cur(x).ci = <<>> \/ Cur(x).ci[Len(Cur(x).ci)] \notin Resumers \cup {"yield"}
  PROVE  CallInv(Call(x))
<1> DEFINE t == Cur(x)
           i == Top(x)
           called == [t EXCEPT !.nC = t.nC + 1]
           over == [With(x, called) EXCEPT !.err = TRUE]
           runs == [With(x, Push(called, "lua")) EXCEPT !.err = FALSE]
<1>1. x.chain # <<>> /\ t \in ThreadStates /\ i \in Nat \ {0} /\ Sound(Cis(x), i, t)
      /\ Cis(x)[i] = t.ci
  <2>1. x.chain # <<>> /\ t \in ThreadStates /\ i \in Nat \ {0} /\ i \in 1..Len(x.chain)
    BY ChainFacts DEF Active, Top
  <2>2. QED
    BY <2>1, ChainFacts DEF Active, Cur, Run, Top
<1>2. t.nC \in Int /\ t.nC + 1 \in Int
  BY <1>1, ThreadFacts
<1>3. Call(x) = IF t.nC + 1 >= MaxC + Extra THEN Throw(x)
                ELSE IF t.nC + 1 = MaxC THEN over ELSE runs
  BY DEF Call
<1>4. CallInv(Throw(x))
  BY ThrowKeeps
<1> HIDE DEF t
<1>5. /\ called \in ThreadStates /\ called.ci = t.ci
      /\ called.jmp = t.jmp /\ called.ef = t.ef /\ called.nC = t.nC + 1
      /\ called.baseC = t.baseC /\ called.status = t.status
      /\ Sound(Cis(x), i, called)
  BY <1>1, <1>2, NcIs
<1> HIDE DEF called
<1>6. ASSUME t.nC + 1 < MaxC + Extra
      PROVE  CallInv(over)
  <2>1. TopIs(x, With(x, called), called)
    BY <1>1, <1>5, WithIs
  <2>2. TopIs(x, over, called) /\ over.err /\ over \in CallStates
    BY <2>1, ErrIs DEF TopIs
  <2> HIDE DEF over
  <2>3. /\ \A k \in 1..(i - 1) : Cis(over)[k] = Cis(x)[k]
        /\ Cis(over)[i] = Cis(x)[i]
    BY <1>1, <1>5, <2>2, TopFrames
  <2>4. \A k \in 1..i : Cis(over)[k] = Cis(x)[k]
    <3>1. \A k \in 1..i : k \in 1..(i - 1) \/ k = i
      BY <1>1
    <3>2. QED
      BY <2>3, <3>1
  <2>5. Sound(Cis(over), i, called)
    BY <1>1, <1>5, <2>4, SoundSame
  <2>6. IsCount(Cis(over), i, Len(called.ci), called.nC)
    <3>1. Len(t.ci) \in Nat /\ IsCount(Cis(x), i, Len(t.ci), t.nC + 1)
      BY <1>1, ThreadFacts DEF t
    <3>2. \A p \in 1..Len(t.ci) : Cis(over)[i][p] = Cis(x)[i][p]
      BY <2>3
    <3>3. QED
      BY <1>1, <1>2, <1>5, <2>3, <3>1, <3>2, CountSame
  <2>7. QED
    BY <1>5, <1>6, <2>2, <2>5, <2>6, StepKeeps
<1>7. ASSUME t.nC + 1 < MaxC + Extra
      PROVE  CallInv(runs)
  <2> DEFINE u == Push(called, "lua")
  <2>1. "lua" \in FrameKinds /\ "lua" \notin Protected /\ "lua" \notin CFrames
    BY DEF FrameKinds, Protected, CFrames, Callers
  <2>2. /\ u \in ThreadStates /\ u.ci = Append(called.ci, "lua")
        /\ u.jmp = called.jmp /\ u.ef = called.ef /\ u.nC = called.nC
        /\ u.baseC = called.baseC /\ u.status = called.status
    BY <1>5, <2>1, PushIs
  <2> HIDE DEF u
  <2>3. TopIs(x, With(x, u), u)
    BY <1>1, <2>2, WithIs
  <2>4. TopIs(x, runs, u) /\ runs \in CallStates
    <3>1. runs = [With(x, u) EXCEPT !.err = FALSE]
      BY DEF u
    <3> HIDE DEF runs
    <3>2. QED
      BY <2>3, <3>1, ErrIs DEF TopIs
  <2> HIDE DEF runs
  <2>5. /\ \A k \in 1..(i - 1) : Cis(runs)[k] = Cis(x)[k]
        /\ Cis(runs)[i] = u.ci
    BY <1>1, <2>2, <2>4, TopFrames
  <2>6. called.ci = <<>> \/ called.ci[Len(called.ci)] \notin Resumers \cup {"yield"}
    BY <1>5 DEF t
  <2>7. IsCount(Cis(x), i, Len(called.ci), called.nC)
    BY <1>5 DEF t
  <2>8. /\ Sound(Cis(runs), i, u)
        /\ \A m \in Int : IsCount(Cis(x), i, Len(called.ci), m) =>
              IsCount(Cis(runs), i, Len(u.ci), m)
    <3>1. /\ Sound(Cis(runs), i, u)
          /\ \A m \in Int : IsCount(Cis(x), i, Len(called.ci), m) =>
                IsCount(Cis(runs), i, Len(u.ci), IF "lua" \in CFrames THEN m + 1 ELSE m)
      BY <1>1, <1>5, <2>1, <2>2, <2>5, <2>6, PushedFrame
    <3>2. QED
      BY <2>1, <3>1
  <2>9. u.ci # <<>>
    BY <1>5, <2>1, <2>2, ThreadFacts, AppendProperties
  <2>10. QED
    BY <1>2, <1>5, <1>7, <2>2, <2>4, <2>7, <2>8, <2>9, StepKeeps
<1>8. t.nC + 1 >= MaxC + Extra \/ t.nC + 1 < MaxC + Extra
  BY <1>2, CallConstants
<1>9. QED
  BY <1>3, <1>4, <1>6, <1>7, <1>8
-----------------------------------------------------------------------------
\* A thread that runs, and a frame pushed on it.
LEMMA Running ==
  ASSUME NEW x, CallInv(x), x.err \/ Cur(x).ci # <<>>
  PROVE  /\ x \in CallStates
         /\ Active(x)
         /\ Resting(x)
         /\ Counted(Cis(x), Top(x), Cur(x))
         /\ x.chain # <<>>
         /\ Cur(x) \in ThreadStates
         /\ Top(x) \in Nat \ {0}
         /\ Sound(Cis(x), Top(x), Cur(x))
         /\ Cis(x)[Top(x)] = Cur(x).ci
         /\ Cur(x).nC \in Int
         /\ IsCount(Cis(x), Top(x), Len(Cur(x).ci), Cur(x).nC)
         /\ Cur(x).nC < MaxC + Extra
<1>1. x \in CallStates /\ Resting(x)
  BY DEF CallInv
<1>2. ~IdleMain(x)
  <2>1. ASSUME x.chain = <<Main>>
        PROVE  Run(x) = Main
    BY <2>1 DEF Run
  <2>2. QED
    BY <2>1 DEF IdleMain, Cur
<1>3. Active(x) /\ Counted(Cis(x), Top(x), Cur(x)) /\ x.chain # <<>>
  BY <1>2 DEF CallInv, Active
<1>4. Top(x) \in Nat \ {0} /\ Cur(x) \in ThreadStates /\ Cis(x)[Top(x)] = Cur(x).ci
      /\ Cur(x) = x.th[x.chain[Top(x)]] /\ Top(x) \in 1..Len(x.chain)
  BY <1>1, <1>3, ChainFacts DEF Top, Cur, Run
<1>5. Sound(Cis(x), Top(x), Cur(x))
  BY <1>3, <1>4 DEF Active
<1>6. Cur(x).nC \in Int
  BY <1>4, ThreadFacts
<1>7. IsCount(Cis(x), Top(x), Len(Cur(x).ci), Cur(x).nC) /\ Cur(x).nC < MaxC + Extra
  BY <1>3, <1>4 DEF Counted
<1>8. QED
  BY <1>1, <1>3, <1>4, <1>5, <1>6, <1>7

\* The running thread with one frame more.
LEMMA PushStep ==
  ASSUME NEW x, CallInv(x), x.err \/ Cur(x).ci # <<>>,
         NEW f \in FrameKinds \ Protected, NEW y,
         TopIs(x, y, Push(Cur(x), f)),
         Cur(x).ci = <<>> => f = "lua",
         f = "raise" \/ Cur(x).ci = <<>> \/ Cur(x).ci[Len(Cur(x).ci)] \notin Resumers \cup {"yield"}
  PROVE  LET u == Push(Cur(x), f)
         IN  /\ y \in CallStates /\ Active(y) /\ Resting(y)
             /\ u \in ThreadStates
             /\ Cur(y) = u /\ Top(y) = Top(x)
             /\ u.ci = Append(Cur(x).ci, f) /\ u.nC = Cur(x).nC
             /\ Sound(Cis(y), Top(x), u)
             /\ IsCount(Cis(y), Top(x), Len(u.ci), IF f \in CFrames THEN u.nC + 1 ELSE u.nC)
<1> DEFINE t == Cur(x)
           u == Push(t, f)
           i == Top(x)
<1>1. x \in CallStates /\ Active(x) /\ Resting(x) /\ t \in ThreadStates /\ i \in Nat \ {0}
      /\ Sound(Cis(x), i, t) /\ Cis(x)[i] = t.ci /\ t.nC \in Int
      /\ IsCount(Cis(x), i, Len(t.ci), t.nC)
  BY Running
<1>2. /\ u \in ThreadStates /\ u.ci = Append(t.ci, f)
      /\ u.jmp = t.jmp /\ u.ef = t.ef /\ u.nC = t.nC /\ u.baseC = t.baseC
      /\ u.status = t.status
  BY <1>1, PushIs
<1>3. TopIs(x, y, u) /\ y \in CallStates
  BY DEF TopIs
<1> HIDE DEF u
<1>4. /\ \A k \in 1..(i - 1) : Cis(y)[k] = Cis(x)[k]
      /\ Cis(y)[i] = u.ci /\ Cur(y) = u /\ Top(y) = Top(x)
  BY <1>1, <1>2, <1>3, TopFrames
<1>5. t.ci = <<>> => f = "lua"
  OBVIOUS
<1>6. f = "raise" \/ t.ci = <<>> \/ t.ci[Len(t.ci)] \notin Resumers \cup {"yield"}
  OBVIOUS
<1> HIDE DEF t
<1>7. /\ Sound(Cis(y), i, u)
      /\ \A m \in Int : IsCount(Cis(x), i, Len(t.ci), m) =>
           IsCount(Cis(y), i, Len(u.ci), IF f \in CFrames THEN m + 1 ELSE m)
  BY <1>1, <1>2, <1>4, <1>5, <1>6, PushedFrame
<1>8. Active(y) /\ Resting(y)
  BY <1>1, <1>2, <1>3, <1>7, TopChange
<1>9. IsCount(Cis(y), i, Len(u.ci), IF f \in CFrames THEN u.nC + 1 ELSE u.nC)
  BY <1>1, <1>2, <1>7
<1>10. QED
  BY <1>2, <1>3, <1>4, <1>7, <1>8, <1>9 DEF u, t

\* A Lua function runs.
LEMMA LuaTop ==
  ASSUME NEW x, x \in CallStates, x.chain # <<>>, Cur(x).ci # <<>>, Last(Cur(x).ci) = "lua"
  PROVE  /\ Cur(x).ci[Len(Cur(x).ci)] = "lua"
         /\ Cur(x).ci[Len(Cur(x).ci)] \notin Resumers \cup {"yield"}
         /\ Cur(x).ci[Len(Cur(x).ci)] \notin CFrames
         /\ Cur(x).ci[Len(Cur(x).ci)] \notin Protected
         /\ Len(Cur(x).ci) \in Nat \ {0}
<1>1. Cur(x).ci \in Seq(FrameKinds)
  BY ChainFacts, ThreadFacts
<1>2. Cur(x).ci[Len(Cur(x).ci)] = "lua"
  BY DEF Last
<1>3. Len(Cur(x).ci) \in Nat \ {0}
  BY <1>1, EmptySeq
<1>4. QED
  BY <1>2, <1>3 DEF Resumers, CFrames, Callers, Protected
-----------------------------------------------------------------------------
\* The actions.
LEMMA HostCallKeeps ==
  ASSUME CallInv(L), HostCall
  PROVE  CallInv(L')
<1> DEFINE t == Cur(L)
           u == [t EXCEPT !.jmp = Append(@, Handler(t))]
           y == With(L, u)
<1>1. L \in CallStates /\ IdleMain(L) /\ Resting(L) /\ t.ci = <<>> /\ L.chain = <<Main>>
  BY DEF CallInv, HostCall
<1>2. Len(L.chain) = 1 /\ L.chain[1] = Main /\ L.chain # <<>>
  BY <1>1
<1>3. Run(L) = Main /\ t = L.th[Main] /\ t \in ThreadStates
  BY <1>1, <1>2, ChainFacts DEF Run, Cur
<1>4. t.jmp = <<>> /\ t.nC = 0 /\ t.baseC = 0 /\ t.status = "ok" /\ ~t.ef /\ t.ef \in BOOLEAN
  BY <1>1, <1>3, ThreadFacts DEF IdleMain
<1>5. Handler(t) = Handler(NewState) /\ Handler(t) \in HandlerStates
  <2>1. t.ef = FALSE
    BY <1>4
  <2>2. Len(t.ci) = 0
    BY <1>1, EmptySeq
  <2>3. Handler(t) = [ci |-> 0, nC |-> 0, ef |-> FALSE]
    BY <1>4, <2>1, <2>2 DEF Handler
  <2>4. Handler(NewState) = [ci |-> 0, nC |-> 0, ef |-> FALSE]
    BY EmptySeq DEF Handler, NewState
  <2>5. [ci |-> 0, nC |-> 0, ef |-> FALSE] \in HandlerStates
    BY DEF HandlerStates
  <2>6. QED
    BY <2>3, <2>4, <2>5
<1> HIDE DEF t
<1>6. u \in ThreadStates /\ u.ci = t.ci /\ u.nC = t.nC /\ u.status = t.status /\ u.ef = t.ef
      /\ u.baseC = t.baseC /\ u.jmp = <<Handler(t)>>
  <2>1. Append(t.jmp, Handler(t)) = <<Handler(t)>>
    BY <1>4
  <2>2. Append(t.jmp, Handler(t)) \in Seq(HandlerStates)
    BY <1>3, <1>5, ThreadFacts, AppendProperties
  <2>3. QED
    BY <1>3, <2>1, <2>2 DEF ThreadStates
<1> HIDE DEF u
<1>7. TopIs(L, y, u) /\ y.err = L.err
  BY <1>1, <1>2, <1>6, WithIs
<1> HIDE DEF y
<1>8. y \in CallStates /\ y.chain = <<Main>> /\ y.th[Main] = u /\ Cur(y) = u /\ Top(y) = 1
  BY <1>1, <1>2, <1>3, <1>7 DEF TopIs, Cur, Run, Top
<1>9. Framed(u)
  <2>1. Len(u.jmp) = 1 /\ u.jmp[1] = Handler(NewState) /\ u.jmp # <<>> /\ u.ci = <<>>
        /\ Len(u.ci) = 0
    BY <1>1, <1>5, <1>6 DEF t
  <2>2. ~u.ef
    BY <1>4, <1>6
  <2>3. QED
    BY <2>1, <2>2 DEF Framed
<1>10. Sound(Cis(y), 1, u)
  <2>1. HandlersCount(Cis(y), 1, u)
    BY <1>6 DEF HandlersCount
  <2>2. QED
    BY <1>4, <1>6, <1>9, <2>1 DEF Sound
<1>11. Active(y)
  BY <1>2, <1>8, <1>10 DEF Active
<1>12. Resting(y)
  <2>1. \A co \in Cos : co # Main
    BY CallConstants
  <2>2. \A co \in Cos : y.th[co] = L.th[co]
    BY <1>3, <1>7, <2>1 DEF TopIs, Threads
  <2>3. y.chain = L.chain
    BY <1>1, <1>8
  <2>4. QED
    BY <1>1, <2>2, <2>3 DEF Resting
<1>13. IsCount(Cis(y), Top(y), Len(Cur(y).ci), Cur(y).nC + 1)
  <2>1. Len(u.ci) = 0 /\ u.nC + 1 = 1
    BY <1>1, <1>4, <1>6 DEF t
  <2>2. IsCount(Cis(y), 1, 0, 1)
    BY CountFirst
  <2>3. QED
    BY <1>8, <2>1, <2>2
<1>14. Cur(y).ci = <<>>
  BY <1>1, <1>6, <1>8 DEF t
<1>15. CallInv(Call(y))
  BY <1>8, <1>11, <1>12, <1>13, <1>14, CallKeeps
<1>16. QED
  BY <1>15 DEF HostCall, y, u, t

\* luaD_precall of a Lua function.
LEMMA CallLuaKeeps ==
  ASSUME CallInv(L), CallLua
  PROVE  CallInv(L')
<1> DEFINE u == Push(Cur(L), "lua")
<1>1. ~L.err /\ Cur(L).ci # <<>> /\ Last(Cur(L).ci) = "lua" /\ L' = With(L, u)
  BY DEF CallLua, InLua
<1>2. L \in CallStates /\ L.chain # <<>> /\ Active(L) /\ Resting(L) /\ Cur(L) \in ThreadStates
      /\ Cur(L).nC < MaxC + Extra
  BY <1>1, Running
<1>3. "lua" \in FrameKinds /\ "lua" \notin Protected /\ "lua" \notin CFrames
  BY DEF FrameKinds, Protected, CFrames, Callers
<1>4. u \in ThreadStates
  BY <1>2, <1>3, PushIs
<1>5. TopIs(L, L', u) /\ L'.err = L.err
  BY <1>1, <1>2, <1>4, WithIs
<1>6. /\ L' \in CallStates
      /\ u.ci = Append(Cur(L).ci, "lua") /\ u.nC = Cur(L).nC
      /\ Sound(Cis(L'), Top(L), u)
      /\ IsCount(Cis(L'), Top(L), Len(u.ci), u.nC)
  BY <1>1, <1>2, <1>3, <1>5, LuaTop, PushStep
<1>7. u.ci # <<>>
  BY <1>2, <1>3, <1>6, ThreadFacts, AppendProperties
<1> HIDE DEF u
<1>8. QED
  BY <1>2, <1>4, <1>5, <1>6, <1>7, StepKeeps

\* An operation of a Lua function fails.
LEMMA FailKeeps ==
  ASSUME CallInv(L), Fail
  PROVE  CallInv(L')
<1>1. ~L.err /\ Cur(L).ci # <<>> /\ L' = [L EXCEPT !.err = TRUE]
  BY DEF Fail, InLua
<1>2. L \in CallStates /\ Active(L) /\ Resting(L) /\ Counted(Cis(L), Top(L), Cur(L))
  BY <1>1, Running
<1>3. L' \in CallStates /\ L'.chain = L.chain /\ L'.th = L.th /\ L'.err
  BY <1>1, <1>2, ErrIs
<1>4. Cis(L') = Cis(L) /\ Top(L') = Top(L) /\ Cur(L') = Cur(L)
  BY <1>3 DEF Cis, Top, Cur, Run
<1>5. Active(L') /\ Resting(L')
  BY <1>2, <1>3, <1>4 DEF Active, Resting
<1>6. QED
  BY <1>2, <1>3, <1>4, <1>5 DEF CallInv

\* luaG_errormsg: only a thread with frames has an error function.
LEMMA RaiseKeeps ==
  ASSUME CallInv(L), Raise
  PROVE  CallInv(L')
<1> DEFINE t == Cur(L)
           u == Push(t, "raise")
           y == With(L, u)
<1>1. L.err /\ L' = IF t.ef THEN Call(y) ELSE Throw(L)
  BY DEF Raise
<1>2. L \in CallStates /\ L.chain # <<>> /\ Active(L) /\ Resting(L) /\ t \in ThreadStates
      /\ Sound(Cis(L), Top(L), t)
  BY <1>1, Running
<1>3. CASE ~t.ef
  BY <1>1, <1>2, <1>3, ThrowKeeps
<1>4. CASE t.ef
  <2>1. t.ci # <<>>
    <3>1. SUFFICES ASSUME t.ci = <<>>
                   PROVE  FALSE
      OBVIOUS
    <3>2. Len(t.ci) = 0
      BY <3>1, EmptySeq
    <3>3. Len(t.jmp) # 1 /\ t.jmp # <<>>
      BY <1>2, <1>4 DEF Sound, Framed
    <3>4. Len(t.jmp) \in Nat \ {0}
      BY <1>2, <3>3, ThreadFacts, EmptySeq
    <3>5. 2 \in 2..Len(t.jmp)
      <4>1. \A a \in Nat \ {0} : a # 1 => 2 \in 2..a
        OBVIOUS
      <4>2. QED
        BY <3>3, <3>4, <4>1
    <3>6. t.jmp[2].ci + 1 \in 1..0
      BY <1>2, <3>2, <3>5 DEF Sound, Framed
    <3>7. QED
      BY <3>6
  <2>2. "raise" \in FrameKinds /\ "raise" \notin Protected /\ "raise" \in CFrames
    BY DEF FrameKinds, Protected, CFrames
  <2>3. u \in ThreadStates
    BY <1>2, <2>2, PushIs
  <2>4. TopIs(L, y, u)
    BY <1>2, <2>3, WithIs
  <2>5. /\ y \in CallStates /\ Active(y) /\ Resting(y)
        /\ Cur(y) = u /\ Top(y) = Top(L)
        /\ u.ci = Append(t.ci, "raise")
        /\ IsCount(Cis(y), Top(L), Len(u.ci), u.nC + 1)
    BY <1>1, <2>1, <2>2, <2>4, PushStep
  <2>6. u.ci[Len(u.ci)] = "raise"
    <3>1. t.ci \in Seq(FrameKinds)
      BY <1>2, ThreadFacts
    <3>2. Len(u.ci) = Len(t.ci) + 1 /\ u.ci[Len(t.ci) + 1] = "raise"
      BY <2>2, <2>5, <3>1, AppendProperties
    <3>3. QED
      BY <3>2
  <2>7. u.ci[Len(u.ci)] \notin Resumers \cup {"yield"}
    BY <2>6 DEF Resumers
  <2> HIDE DEF y, u
  <2>8. CallInv(Call(y))
    BY <2>5, <2>7, CallKeeps
  <2>9. QED
    BY <1>1, <1>4, <2>8
<1>5. t.ef \in BOOLEAN
  BY <1>2, ThreadFacts
<1>6. QED
  BY <1>3, <1>4, <1>5

\* luaB_pcall, luaB_xpcall, and a C function that uses lua_call.
LEMMA CallCKeeps ==
  ASSUME CallInv(L), NEW f \in Callers, CallC(f)
  PROVE  CallInv(L')
<1> DEFINE t == Cur(L)
           p == [t EXCEPT !.jmp = Append(@, Handler(t)), !.ef = f = "xpcall"]
           u == Push(IF f = "meta" THEN t ELSE p, f)
           y == With(L, u)
<1>1. ~L.err /\ t.ci # <<>> /\ Last(t.ci) = "lua" /\ L' = Call(y)
  BY DEF CallC, InLua
<1>2. L \in CallStates /\ L.chain # <<>> /\ Active(L) /\ Resting(L) /\ t \in ThreadStates
      /\ Sound(Cis(L), Top(L), t) /\ Top(L) \in Nat \ {0} /\ Cis(L)[Top(L)] = t.ci
      /\ Counted(Cis(L), Top(L), t) /\ t.nC \in Int
  BY <1>1, Running
<1>3. t.ci[Len(t.ci)] = "lua" /\ t.ci[Len(t.ci)] \notin Resumers \cup {"yield"}
  BY <1>1, <1>2, LuaTop
<1>4. f \in FrameKinds /\ f \in CFrames /\ f \notin Resumers \cup {"yield"}
      /\ (f = "meta" => f \notin Protected) /\ (f # "meta" => f \in Protected)
  BY DEF FrameKinds, CFrames, Callers, Protected, Resumers
<1>5. /\ y \in CallStates /\ Active(y) /\ Resting(y)
      /\ Cur(y) = u /\ Top(y) = Top(L)
      /\ u.ci = Append(t.ci, f)
      /\ IsCount(Cis(y), Top(L), Len(u.ci), u.nC + 1)
  <2>1. CASE f = "meta"
    <3>1. u = Push(t, f)
      BY <2>1
    <3>2. Push(t, f) \in ThreadStates
      BY <1>2, <1>4, PushIs
    <3>3. TopIs(L, y, Push(t, f))
      BY <1>2, <3>1, <3>2, WithIs
    <3> HIDE DEF y, u
    <3>4. QED
      BY <1>1, <1>3, <1>4, <2>1, <3>1, <3>3, PushStep
  <2>2. CASE f # "meta"
    <3>1. Append(t.jmp, Handler(t)) \in Seq(HandlerStates)
      <4>1. Handler(t) \in HandlerStates
        BY <1>2, ThreadFacts DEF Handler, HandlerStates
      <4>2. QED
        BY <1>2, <4>1, ThreadFacts, AppendProperties
    <3>2. (f = "xpcall") \in BOOLEAN
      OBVIOUS
    <3> HIDE DEF t
    <3>3. p \in ThreadStates /\ p.ci = t.ci /\ p.jmp = Append(t.jmp, Handler(t))
          /\ p.nC = t.nC /\ p.baseC = t.baseC /\ p.status = t.status
      BY <1>2, <3>1, <3>2 DEF ThreadStates
    <3> HIDE DEF p
    <3>4. u = Push(p, f)
      BY <2>2
    <3>5. /\ u \in ThreadStates /\ u.ci = Append(t.ci, f) /\ u.jmp = Append(t.jmp, Handler(t))
          /\ u.nC = t.nC /\ u.baseC = t.baseC /\ u.status = t.status
      BY <1>4, <3>3, <3>4, PushIs
    <3> HIDE DEF u
    <3>6. TopIs(L, y, u)
      BY <1>2, <3>5, WithIs
    <3>7. y \in CallStates
      BY <3>6 DEF TopIs
    <3> HIDE DEF y
    <3>8. /\ \A k \in 1..(Top(L) - 1) : Cis(y)[k] = Cis(L)[k]
          /\ Cis(y)[Top(L)] = u.ci /\ Cur(y) = u /\ Top(y) = Top(L)
      BY <1>2, <3>5, <3>6, <3>7, TopFrames
    <3>9. Sound(Cis(y), Top(L), u) /\ IsCount(Cis(y), Top(L), Len(u.ci), t.nC + 1)
      BY <1>1, <1>2, <1>3, <1>4, <2>2, <3>5, <3>8, PushedHandler
    <3>10. Active(y) /\ Resting(y)
      BY <1>2, <3>5, <3>6, <3>7, <3>9, TopChange
    <3>11. QED
      BY <3>5, <3>7, <3>8, <3>9, <3>10
  <2>3. QED
    BY <2>1, <2>2
<1>6. u.ci[Len(u.ci)] = f
  <2>1. t.ci \in Seq(FrameKinds)
    BY <1>2, ThreadFacts
  <2>2. Len(u.ci) = Len(t.ci) + 1 /\ u.ci[Len(t.ci) + 1] = f
    BY <1>4, <1>5, <2>1, AppendProperties
  <2>3. QED
    BY <2>2
<1>7. u.ci[Len(u.ci)] \notin Resumers \cup {"yield"}
  BY <1>4, <1>6
<1> HIDE DEF y, u
<1>8. CallInv(Call(y))
  BY <1>5, <1>7, CallKeeps
<1>9. QED
  BY <1>1, <1>8

\* When the main thread runs, nothing has been resumed.
LEMMA MainAlone ==
  ASSUME NEW x, x \in CallStates, Active(x), Run(x) = Main
  PROVE  x.chain = <<Main>>
<1>1. x.chain \in Seq(Threads) /\ Top(x) \in Nat \ {0}
  BY ChainFacts DEF CallStates, Active, Top
<1>2. Top(x) \in 1..Top(x) /\ 1 \in 1..Top(x) /\ x.chain[Top(x)] = x.chain[1]
  BY <1>1 DEF Active, Run, Top
<1>3. Top(x) = 1
  BY <1>2 DEF Active, Top
<1>4. QED
  BY <1>1, <1>3 DEF Top, Active

\* With one frame, or without handlers, there is no error function.
LEMMA NoErrfunc ==
  ASSUME NEW t \in ThreadStates, Framed(t), \A p \in 1..Len(t.ci) : t.ci[p] \notin Protected
  PROVE  ~t.ef
<1>1. Len(t.jmp) \in Nat \ {0}
  BY ThreadFacts, EmptySeq DEF Framed
<1>2. CASE Len(t.jmp) = 1
  BY <1>2 DEF Framed
<1>3. CASE Len(t.jmp) # 1
  <2>1. 2 \in 2..Len(t.jmp)
    <3>1. \A a \in Nat \ {0} : a # 1 => 2 \in 2..a
      OBVIOUS
    <3>2. QED
      BY <1>1, <1>3, <3>1
  <2>2. t.jmp[2].ci + 1 \in 1..Len(t.ci) /\ t.ci[t.jmp[2].ci + 1] \in Protected
    BY <2>1 DEF Framed
  <2>3. QED
    BY <2>2
<1>4. QED
  BY <1>2, <1>3

\* What is returned to is what the handler says.
LEMMA ReturnToHandler ==
  ASSUME NEW q, NEW i \in Nat \ {0}, NEW t \in ThreadStates,
         q[i] = t.ci, Sound(q, i, t), Counted(q, i, t),
         Len(t.ci) \in Nat \ {0, 1},
         t.ci[Len(t.ci)] = "lua",
         t.ci[Len(t.ci) - 1] \in Protected
  PROVE  LET h == t.jmp[Len(t.jmp)]
         IN  Len(t.jmp) > 1 /\ h.ci = Len(t.ci) - 2 /\ h.nC = t.nC - 1
<1> DEFINE n == Len(t.ci)
           j == Len(t.jmp)
           h == t.jmp[j]
<1>1. n - 1 \in 1..n /\ n - 2 \in Nat /\ n = (n - 2) + 2 /\ n - 1 = (n - 2) + 1
  <2>1. \A a \in Nat \ {0, 1} : a - 1 \in 1..a /\ a - 2 \in Nat /\ a = (a - 2) + 2
                                /\ a - 1 = (a - 2) + 1
    OBVIOUS
  <2>2. QED
    BY <2>1
<1>2. PICK k \in 2..j : t.jmp[k].ci = (n - 1) - 1
  BY <1>1 DEF Sound, Framed
<1>3. j \in Nat /\ k \in 1..j /\ t.nC \in Int
  BY ThreadFacts
<1>4. t.jmp[k].ci = n - 2
  BY <1>1, <1>2
<1>5. k = j
  <2>1. SUFFICES ASSUME k # j
                 PROVE  FALSE
    OBVIOUS
  <2>2. j \in 2..j /\ k < j
    BY <1>3, <2>1
  <2>3. t.jmp[k].ci < h.ci
    BY <2>2 DEF Sound, Framed
  <2>4. h.ci + 1 \in 1..n /\ t.ci[h.ci + 1] \in Protected
    BY <2>2 DEF Sound, Framed
  <2>5. h.ci \in Nat
    <3>1. \A l \in 1..j : t.jmp[l].ci \in Nat
      BY ThreadFacts
    <3>2. j \in 1..j
      BY <1>3, <2>2
    <3>3. QED
      BY ONLY <3>1, <3>2
  <2>6. h.ci + 1 = n
    BY <1>4, <2>3, <2>4, <2>5
  <2>7. QED
    BY <2>4, <2>6 DEF Protected
<1>6. h.ci = n - 2 /\ h.nC \in Int
  BY <1>3, <1>4, <1>5, ThreadFacts
<1>7. IsCount(q, i, n - 2, h.nC)
  BY <1>2, <1>5, <1>6 DEF Sound, HandlersCount
<1>8. IsCount(q, i, (n - 2) + 1, h.nC + 1)
  <2>1. q[i][(n - 2) + 1] \in CFrames
    BY <1>1 DEF CFrames, Callers
  <2>2. QED
    BY <1>1, <1>6, <1>7, <2>1, CountNext
<1>9. IsCount(q, i, n, h.nC + 1)
  <2>1. q[i][(n - 1) + 1] \notin CFrames
    BY <1>1 DEF CFrames, Callers, Protected
  <2>2. (n - 1) + 1 = n /\ n - 1 \in Nat /\ h.nC + 1 \in Int
    BY <1>1, <1>6
  <2>3. IsCount(q, i, n - 1, h.nC + 1)
    BY <1>1, <1>8
  <2>4. IsCount(q, i, (n - 1) + 1, h.nC + 1)
    BY <2>1, <2>2, <2>3, CountNext
  <2>5. QED
    BY <2>2, <2>4
<1>10. t.nC = h.nC + 1
  BY <1>9 DEF Counted, IsCount
<1>11. h.nC = t.nC - 1
  BY <1>6, <1>10
<1>12. j > 1
  BY <1>2, <1>3
<1>13. QED
  BY <1>6, <1>11, <1>12

\* The thread without its last frame.
LEMMA Unlua ==
  ASSUME NEW t \in ThreadStates, t.ci # <<>>
  PROVE  LET u == [t EXCEPT !.ci = Front(@)]
         IN  /\ u \in ThreadStates /\ u.ci = Front(t.ci)
             /\ u.jmp = t.jmp /\ u.ef = t.ef /\ u.nC = t.nC /\ u.baseC = t.baseC
             /\ u.status = t.status
<1>1. Front(t.ci) \in Seq(FrameKinds)
  BY ThreadFacts, FrontIs
<1>2. QED
  BY <1>1 DEF ThreadStates

\* Two frames less.
LEMMA FrontTwice ==
  ASSUME NEW S, NEW q \in Seq(S), Len(q) \in Nat \ {0, 1}
  PROVE  /\ Front(q) \in Seq(S) /\ Front(q) # <<>>
         /\ Front(Front(q)) = SubSeq(q, 1, Len(q) - 2)
         /\ Len(Front(q)) = Len(q) - 1 /\ Front(q)[Len(q) - 1] = q[Len(q) - 1]
<1>1. Len(q) - 1 \in Nat \ {0} /\ Len(q) - 1 \in 1..Len(q) /\ Len(q) - 2 \in 0..Len(q)
      /\ (Len(q) - 1) - 1 = Len(q) - 2 /\ q # <<>>
  <2>1. \A a \in Nat \ {0, 1} : a - 1 \in Nat \ {0} /\ a - 1 \in 1..a /\ a - 2 \in 0..a
                                /\ (a - 1) - 1 = a - 2
    OBVIOUS
  <2>2. q # <<>>
    BY EmptySeq
  <2>3. Len(q) \in Nat \ {0, 1}
    OBVIOUS
  <2>4. QED
    BY ONLY <2>1, <2>2, <2>3
<1> DEFINE r == Front(q)
<1>2. r \in Seq(S) /\ Len(r) = Len(q) - 1 /\ \A i \in 1..(Len(q) - 1) : r[i] = q[i]
  <2>1. r \in Seq(S) /\ Len(r) = Len(q) - 1 /\ \A i \in 1..Len(r) : r[i] = q[i]
    BY <1>1, FrontIs
  <2>2. QED
    BY <2>1
<1>3. r # <<>> /\ r[Len(q) - 1] = q[Len(q) - 1]
  BY <1>1, <1>2, EmptySeq
<1> HIDE DEF r
<1>4. Front(r) \in Seq(S) /\ Len(Front(r)) = Len(q) - 2
      /\ \A i \in 1..(Len(q) - 2) : Front(r)[i] = q[i]
  <2>1. Front(r) \in Seq(S) /\ Len(Front(r)) = Len(r) - 1
        /\ \A i \in 1..Len(Front(r)) : Front(r)[i] = r[i]
    BY <1>2, <1>3, FrontIs
  <2>2. Len(Front(r)) = Len(q) - 2
    BY <1>1, <1>2, <2>1
  <2>3. \A i \in 1..(Len(q) - 2) : i \in 1..(Len(q) - 1)
    BY <1>1
  <2>4. QED
    BY <1>2, <2>1, <2>2, <2>3
<1>5. LET p == SubSeq(q, 1, Len(q) - 2)
      IN  p \in Seq(S) /\ Len(p) = Len(q) - 2 /\ \A i \in 1..(Len(q) - 2) : p[i] = q[i]
  BY <1>1, Prefix
<1>6. Front(r) = SubSeq(q, 1, Len(q) - 2)
  BY <1>4, <1>5, SeqEqual
<1>7. QED
  BY <1>2, <1>3, <1>6 DEF r

\* Two frames are popped, a Lua function and the C function that called it.
LEMMA PoppedTwice ==
  ASSUME NEW q, NEW r, NEW i \in Nat \ {0}, NEW t \in ThreadStates, NEW u \in ThreadStates,
         \A k \in 1..(i - 1) : r[k] = q[k], q[i] = t.ci, r[i] = u.ci,
         Len(t.ci) \in Nat \ {0, 1},
         t.ci[Len(t.ci)] = "lua",
         t.ci[Len(t.ci) - 1] = "meta",
         u.ci = SubSeq(t.ci, 1, Len(t.ci) - 2), u.jmp = t.jmp, u.ef = t.ef,
         u.baseC = t.baseC, u.status = t.status, u.nC = t.nC - 1,
         Sound(q, i, t),
         IsCount(q, i, Len(t.ci), t.nC)
  PROVE  /\ Sound(r, i, u)
         /\ IsCount(r, i, Len(u.ci), u.nC)
<1> DEFINE v == [t EXCEPT !.ci = Front(@)]
           m == [k \in 1..i |-> IF k = i THEN v.ci ELSE q[k]]
<1>1. t.ci \in Seq(FrameKinds) /\ t.nC \in Int
  BY ThreadFacts
<1>2. /\ Front(t.ci) # <<>>
      /\ Front(Front(t.ci)) = u.ci
      /\ Len(Front(t.ci)) = Len(t.ci) - 1 /\ Front(t.ci)[Len(t.ci) - 1] = "meta"
  BY <1>1, FrontTwice
<1>3. t.ci # <<>>
  BY EmptySeq
<1>4. /\ v \in ThreadStates /\ v.ci = Front(t.ci)
      /\ v.jmp = t.jmp /\ v.ef = t.ef /\ v.nC = t.nC /\ v.baseC = t.baseC
      /\ v.status = t.status
  BY <1>3, Unlua
<1> HIDE DEF v
<1>5. (\A k \in 1..(i - 1) : m[k] = q[k]) /\ m[i] = v.ci
  <2>1. \A k \in 1..(i - 1) : k \in 1..i /\ k # i
    OBVIOUS
  <2>2. i \in 1..i
    OBVIOUS
  <2>3. QED
    BY <2>1, <2>2
<1> HIDE DEF m
<1>6. "lua" \notin Protected /\ "lua" \notin CFrames /\ "meta" \notin Protected
      /\ "meta" \in CFrames
  BY DEF Protected, CFrames, Callers
<1>7. /\ Sound(m, i, v)
      /\ \A c \in Int : IsCount(q, i, Len(t.ci), c) => IsCount(m, i, Len(v.ci), c)
  <2>1. PopTo(q, m, i, t, v)
    BY <1>3, <1>4, <1>5, <1>6 DEF PopTo
  <2>2. QED
    BY <1>4, <1>6, <2>1, PoppedFrame
<1>8. /\ \A k \in 1..(i - 1) : r[k] = m[k]
      /\ v.ci # <<>> /\ v.ci[Len(v.ci)] = "meta" /\ u.ci = Front(v.ci)
      /\ u.jmp = v.jmp /\ u.ef = v.ef /\ u.baseC = v.baseC /\ u.status = v.status
  BY <1>2, <1>4, <1>5
<1>9. /\ Sound(r, i, u)
      /\ \A c \in Int : IsCount(m, i, Len(v.ci), c) => IsCount(r, i, Len(u.ci), c - 1)
  <2>1. PopTo(m, r, i, v, u)
    BY <1>5, <1>6, <1>8 DEF PopTo
  <2>2. QED
    BY <1>4, <1>6, <1>7, <1>8, <2>1, PoppedFrame
<1>10. QED
  BY <1>1, <1>7, <1>9

\* preinit_state.
LEMMA NewStateIs ==
  /\ NewState \in ThreadStates
  /\ NewState.ci = <<>> /\ NewState.jmp = <<>> /\ NewState.nC = 0 /\ NewState.baseC = 0
  /\ NewState.status = "ok" /\ ~NewState.ef
<1>1. <<>> \in Seq(FrameKinds) /\ <<>> \in Seq(HandlerStates)
  BY EmptySeq
<1>2. QED
  BY <1>1 DEF NewState, ThreadStates

\* The first function of the main thread returns to the host program, that of a
\* coroutine to its resume.
LEMMA ReturnBaseKeeps ==
  ASSUME CallInv(L), InLua, Len(Cur(L).ci) = 1
  PROVE  CallInv(IF Run(L) = Main THEN With(L, NewState)
                 ELSE Back(Left(L, [Cur(L) EXCEPT !.ci = <<>>])))
<1> DEFINE t == Cur(L)
<1>1. ~L.err /\ t.ci # <<>> /\ Last(t.ci) = "lua"
  BY DEF InLua
<1>2. L \in CallStates /\ L.chain # <<>> /\ Active(L) /\ Resting(L) /\ t \in ThreadStates
      /\ Sound(Cis(L), Top(L), t) /\ Top(L) \in Nat \ {0}
  BY <1>1, Running
<1>3. CASE Run(L) = Main
  <2> DEFINE y == With(L, NewState)
  <2>1. L.chain = <<Main>>
    BY <1>2, <1>3, MainAlone
  <2>2. TopIs(L, y, NewState) /\ y.err = L.err
    BY <1>2, NewStateIs, WithIs
  <2> HIDE DEF y
  <2>3. y \in CallStates /\ y.chain = <<Main>> /\ y.th[Main] = NewState /\ ~y.err
    BY <1>1, <1>3, <2>1, <2>2 DEF TopIs
  <2>4. IdleMain(y)
    BY <2>3, NewStateIs DEF IdleMain
  <2>5. Resting(y)
    <3>1. \A co \in Cos : y.th[co] = L.th[co]
      BY <1>3, <2>2, CallConstants DEF TopIs, Threads
    <3>2. QED
      BY <1>2, <2>1, <2>3, <3>1 DEF Resting
  <2>6. CallInv(y)
    BY <2>3, <2>4, <2>5 DEF CallInv
  <2>7. QED
    BY <1>3, <2>6 DEF y
<1>4. CASE Run(L) # Main
  <2> DEFINE u == [t EXCEPT !.ci = <<>>]
             y == Left(L, u)
  <2>1. <<>> \in Seq(FrameKinds)
    BY EmptySeq
  <2>2. ~t.ef
    <3>1. t.ci[Len(t.ci)] = "lua"
      BY <1>1, <1>2, LuaTop
    <3>2. \A p \in 1..Len(t.ci) : t.ci[p] \notin Protected
      BY <3>1 DEF Protected
    <3>3. QED
      BY <1>2, <3>2, NoErrfunc DEF Sound
  <2>3. t.status = "ok"
    BY <1>2 DEF Sound
  <2> HIDE DEF t
  <2>4. u \in ThreadStates /\ u.ci = <<>> /\ ~u.ef /\ u.status = "ok"
    BY <1>2, <2>1, <2>2, <2>3 DEF ThreadStates
  <2>5. Rests(u)
    BY <2>4 DEF Rests
  <2>6. Top(L) > 1
    <3>1. Top(L) # 1
      BY <1>4 DEF Active, Run, Top, InLua, CallInv, IdleMain
    <3>2. QED
      BY <1>2, <3>1
  <2> HIDE DEF u
  <2>7. /\ y \in CallStates /\ Active(y) /\ Resting(y)
        /\ Counted(Cis(y), Top(y), Cur(y))
        /\ Cur(y).ci # <<>>
        /\ Cur(y).ci[Len(Cur(y).ci)] \in Resumers
    BY <1>2, <2>4, <2>5, <2>6, LeftIs
  <2> HIDE DEF y
  <2>8. CallInv(Back(y))
    BY <2>7, BackKeeps
  <2>9. QED
    BY <1>4, <2>8 DEF y, u, t
<1>5. QED
  BY <1>3, <1>4

\* luaD_pcall without an error.
LEMMA ReturnProtectedKeeps ==
  ASSUME CallInv(L), InLua, Len(Cur(L).ci) # 1, Cur(L).ci[Len(Cur(L).ci) - 1] \in Protected
  PROVE  LET t == Cur(L)
             returned == [t EXCEPT !.nC = @ - 1, !.ci = SubSeq(@, 1, Len(t.ci) - 2)]
         IN  CallInv(With(L, [returned EXCEPT !.ef = t.jmp[Len(t.jmp)].ef, !.jmp = Front(@)]))
<1> DEFINE t == Cur(L)
           n == Len(t.ci)
           h == t.jmp[Len(t.jmp)]
           returned == [t EXCEPT !.nC = @ - 1, !.ci = SubSeq(@, 1, n - 2)]
           u == [returned EXCEPT !.ef = h.ef, !.jmp = Front(@)]
           y == With(L, u)
           i == Top(L)
<1>1. ~L.err /\ t.ci # <<>> /\ Last(t.ci) = "lua"
  BY DEF InLua
<1>2. L \in CallStates /\ L.chain # <<>> /\ Active(L) /\ Resting(L) /\ t \in ThreadStates
      /\ Sound(Cis(L), i, t) /\ i \in Nat \ {0} /\ Cis(L)[i] = t.ci /\ Counted(Cis(L), i, t)
  BY <1>1, Running
<1>3. t.ci[n] = "lua" /\ n \in Nat \ {0, 1}
  BY <1>1, <1>2, LuaTop
<1>4. Len(t.jmp) > 1 /\ h.ci = n - 2 /\ h.nC = t.nC - 1
  BY <1>2, <1>3, ReturnToHandler
<1>5. h \in HandlerStates /\ h.nC \in Int /\ h.ef \in BOOLEAN
  <2>1. Len(t.jmp) \in 1..Len(t.jmp)
    BY <1>2, <1>4, ThreadFacts
  <2>2. QED
    BY <1>2, <2>1, ThreadFacts DEF HandlerStates
<1>6. SubSeq(t.ci, 1, n - 2) \in Seq(FrameKinds) /\ Front(t.jmp) \in Seq(HandlerStates)
  <2>1. n - 2 \in 0..n
    <3>1. \A a \in Nat \ {0, 1} : a - 2 \in 0..a
      OBVIOUS
    <3>2. QED
      BY <1>3, <3>1
  <2>2. t.jmp # <<>>
    BY <1>2 DEF Sound, Framed
  <2>3. QED
    BY <1>2, <2>1, <2>2, ThreadFacts, Prefix, FrontIs
<1>7. t.nC - 1 \in Int
  BY <1>2, ThreadFacts
<1> HIDE DEF t, h
<1>8. returned \in ThreadStates /\ returned.ci = SubSeq(t.ci, 1, n - 2) /\ returned.nC = t.nC - 1
      /\ returned.jmp = t.jmp /\ returned.baseC = t.baseC /\ returned.status = t.status
  BY <1>2, <1>6, <1>7 DEF ThreadStates
<1> HIDE DEF returned
<1>9. u \in ThreadStates /\ u.ci = SubSeq(t.ci, 1, n - 2) /\ u.nC = t.nC - 1
      /\ u.jmp = Front(t.jmp) /\ u.ef = h.ef /\ u.baseC = t.baseC /\ u.status = t.status
  BY <1>5, <1>6, <1>8 DEF ThreadStates
<1> HIDE DEF u
<1>10. TopIs(L, y, u) /\ y \in CallStates
  BY <1>2, <1>9, WithIs DEF TopIs
<1> HIDE DEF y
<1>11. /\ \A k \in 1..(i - 1) : Cis(y)[k] = Cis(L)[k]
       /\ Cis(y)[i] = u.ci
  BY <1>2, <1>9, <1>10, TopFrames
<1>12. CutTo(Cis(L), Cis(y), i, t, u)
  BY <1>2, <1>4, <1>9, <1>11 DEF CutTo, h
<1>13. Sound(Cis(y), i, u) /\ Counted(Cis(y), i, u) /\ u.ci # <<>>
  BY <1>2, <1>9, <1>12, CutToHandler
<1>14. IsCount(Cis(y), i, Len(u.ci), u.nC) /\ u.nC < MaxC + Extra
  BY <1>11, <1>13 DEF Counted
<1>15. CallInv(y)
  BY <1>2, <1>9, <1>10, <1>13, <1>14, StepKeeps
<1>16. QED
  BY <1>15 DEF y, u, returned, h, t

\* lua_call returns to the C function, and that returns.
LEMMA ReturnMetaKeeps ==
  ASSUME CallInv(L), InLua, Len(Cur(L).ci) # 1, Cur(L).ci[Len(Cur(L).ci) - 1] = "meta"
  PROVE  LET t == Cur(L)
         IN  CallInv(With(L, [t EXCEPT !.nC = @ - 1, !.ci = SubSeq(@, 1, Len(t.ci) - 2)]))
<1> DEFINE t == Cur(L)
           n == Len(t.ci)
           u == [t EXCEPT !.nC = @ - 1, !.ci = SubSeq(@, 1, n - 2)]
           y == With(L, u)
           i == Top(L)
<1>1. ~L.err /\ t.ci # <<>> /\ Last(t.ci) = "lua"
  BY DEF InLua
<1>2. L \in CallStates /\ L.chain # <<>> /\ Active(L) /\ Resting(L) /\ t \in ThreadStates
      /\ Sound(Cis(L), i, t) /\ i \in Nat \ {0} /\ Cis(L)[i] = t.ci
      /\ IsCount(Cis(L), i, n, t.nC) /\ t.nC < MaxC + Extra /\ t.nC \in Int
  BY <1>1, Running
<1>3. t.ci[n] = "lua" /\ n \in Nat \ {0, 1} /\ t.ci[n - 1] = "meta"
  BY <1>1, <1>2, LuaTop
<1>4. n - 2 \in Nat \ {0} /\ n - 2 \in 0..n
  <2>1. t.ci[1] = "lua"
    BY <1>1, <1>2 DEF Sound, Framed
  <2>2. n # 2
    <3>1. n = 2 => n - 1 = 1
      BY <1>3
    <3>2. QED
      BY <1>3, <2>1, <3>1
  <2>3. \A a \in Nat \ {0, 1} : a # 2 => a - 2 \in Nat \ {0} /\ a - 2 \in 0..a
    OBVIOUS
  <2>4. QED
    BY <1>3, <2>2, <2>3
<1>5. SubSeq(t.ci, 1, n - 2) \in Seq(FrameKinds) /\ Len(SubSeq(t.ci, 1, n - 2)) = n - 2
      /\ t.nC - 1 \in Int
  BY <1>2, <1>4, ThreadFacts, Prefix
<1> HIDE DEF t
<1>6. u \in ThreadStates /\ u.ci = SubSeq(t.ci, 1, n - 2) /\ u.nC = t.nC - 1
      /\ u.jmp = t.jmp /\ u.ef = t.ef /\ u.baseC = t.baseC /\ u.status = t.status
  BY <1>2, <1>5 DEF ThreadStates
<1> HIDE DEF u
<1>7. TopIs(L, y, u) /\ y \in CallStates
  BY <1>2, <1>6, WithIs DEF TopIs
<1> HIDE DEF y
<1>8. /\ \A k \in 1..(i - 1) : Cis(y)[k] = Cis(L)[k]
      /\ Cis(y)[i] = u.ci
  BY <1>2, <1>6, <1>7, TopFrames
<1>9. Sound(Cis(y), i, u) /\ IsCount(Cis(y), i, Len(u.ci), u.nC)
  BY <1>2, <1>3, <1>6, <1>8, PoppedTwice
<1>10. u.ci # <<>> /\ u.nC < MaxC + Extra
  <2>1. Len(u.ci) # 0
    BY <1>4, <1>5, <1>6
  <2>2. \A a \in Int, b \in Int : a < b => a - 1 < b
    OBVIOUS
  <2>3. MaxC + Extra \in Int
    BY CallConstants
  <2>4. t.nC - 1 < MaxC + Extra
    BY <1>2, <2>2, <2>3
  <2>5. QED
    BY <1>6, <2>1, <2>4, EmptySeq
<1>11. CallInv(y)
  BY <1>2, <1>6, <1>7, <1>9, <1>10, StepKeeps
<1>12. QED
  BY <1>11 DEF y, u, t

\* OP_RETURN to a Lua function.
LEMMA ReturnLuaKeeps ==
  ASSUME CallInv(L), InLua, Len(Cur(L).ci) # 1
  PROVE  CallInv(With(L, [Cur(L) EXCEPT !.ci = Front(@)]))
<1> DEFINE t == Cur(L)
           u == [t EXCEPT !.ci = Front(@)]
           y == With(L, u)
           i == Top(L)
<1>1. ~L.err /\ t.ci # <<>> /\ Last(t.ci) = "lua"
  BY DEF InLua
<1>2. L \in CallStates /\ L.chain # <<>> /\ Active(L) /\ Resting(L) /\ t \in ThreadStates
      /\ Sound(Cis(L), i, t) /\ i \in Nat \ {0} /\ Cis(L)[i] = t.ci
      /\ IsCount(Cis(L), i, Len(t.ci), t.nC) /\ t.nC < MaxC + Extra /\ t.nC \in Int
  BY <1>1, Running
<1>3. Len(t.ci) \in Nat \ {0, 1} /\ t.ci[Len(t.ci)] \notin Protected
      /\ t.ci[Len(t.ci)] \notin CFrames
  BY <1>1, <1>2, LuaTop
<1>4. Front(t.ci) # <<>>
  BY <1>2, <1>3, ThreadFacts, FrontTwice
<1> HIDE DEF t
<1>5. /\ u \in ThreadStates /\ u.ci = Front(t.ci)
      /\ u.jmp = t.jmp /\ u.ef = t.ef /\ u.nC = t.nC /\ u.baseC = t.baseC
      /\ u.status = t.status
  BY <1>1, <1>2, Unlua
<1> HIDE DEF u
<1>6. TopIs(L, y, u) /\ y \in CallStates
  BY <1>2, <1>5, WithIs DEF TopIs
<1> HIDE DEF y
<1>7. /\ \A k \in 1..(i - 1) : Cis(y)[k] = Cis(L)[k]
      /\ Cis(y)[i] = u.ci
  BY <1>2, <1>5, <1>6, TopFrames
<1>8. PopTo(Cis(L), Cis(y), i, t, u)
  BY <1>1, <1>2, <1>3, <1>5, <1>7 DEF PopTo
<1>9. Sound(Cis(y), i, u) /\ IsCount(Cis(y), i, Len(u.ci), u.nC)
  BY <1>2, <1>3, <1>5, <1>8, PoppedFrame
<1>10. CallInv(y)
  BY <1>2, <1>4, <1>5, <1>6, <1>9, StepKeeps
<1>11. QED
  BY <1>10 DEF y, u, t

\* OP_RETURN, by what it returns to.
LEMMA ReturnKeeps ==
  ASSUME CallInv(L), Return
  PROVE  CallInv(L')
<1> DEFINE t == Cur(L)
           n == Len(t.ci)
           below == IF n = 1 THEN "base" ELSE t.ci[n - 1]
           returned == [t EXCEPT !.nC = @ - 1, !.ci = SubSeq(@, 1, n - 2)]
<1>1. InLua
  BY DEF Return
<1>2. \/ /\ below = "base"
         /\ L' = IF Run(L) = Main THEN With(L, NewState)
                 ELSE Back(Left(L, [t EXCEPT !.ci = <<>>]))
      \/ /\ below \in Protected
         /\ L' = With(L, [returned EXCEPT !.ef = t.jmp[Len(t.jmp)].ef, !.jmp = Front(@)])
      \/ /\ below = "meta"
         /\ L' = With(L, returned)
      \/ /\ below = "lua"
         /\ L' = With(L, [t EXCEPT !.ci = Front(@)])
      \/ /\ below = "raise"
         /\ L' = Throw(L)
  BY DEF Return
<1>3. L \in CallStates /\ Active(L) /\ Resting(L) /\ t \in ThreadStates /\ t.ci # <<>>
      /\ n \in Nat \ {0} /\ L.chain # <<>>
  BY <1>1, Running, LuaTop DEF InLua
<1>4. n = 1 \/ (n - 1 \in 1..n /\ t.ci[n - 1] \in FrameKinds)
  <2>1. \A a \in Nat \ {0} : a = 1 \/ a - 1 \in 1..a
    OBVIOUS
  <2>2. \A p \in 1..n : t.ci[p] \in FrameKinds
    BY <1>3, ThreadFacts
  <2>3. QED
    BY <1>3, <2>1, <2>2
<1>5. CASE /\ below = "base"
           /\ L' = IF Run(L) = Main THEN With(L, NewState)
                   ELSE Back(Left(L, [t EXCEPT !.ci = <<>>]))
  <2>1. n = 1
    BY <1>4, <1>5 DEF FrameKinds, CFrames, Callers, Protected, Resumers
  <2>2. QED
    BY <1>1, <1>5, <2>1, ReturnBaseKeeps
<1>6. CASE /\ below \in Protected
           /\ L' = With(L, [returned EXCEPT !.ef = t.jmp[Len(t.jmp)].ef, !.jmp = Front(@)])
  <2>1. n # 1 /\ t.ci[n - 1] \in Protected
    BY <1>6 DEF Protected
  <2>2. QED
    BY <1>1, <1>6, <2>1, ReturnProtectedKeeps
<1>7. CASE below = "meta" /\ L' = With(L, returned)
  <2>1. n # 1 /\ t.ci[n - 1] = "meta"
    BY <1>7
  <2>2. QED
    BY <1>1, <1>7, <2>1, ReturnMetaKeeps
<1>8. CASE below = "lua" /\ L' = With(L, [t EXCEPT !.ci = Front(@)])
  <2>1. n # 1
    BY <1>8
  <2>2. QED
    BY <1>1, <1>8, <2>1, ReturnLuaKeeps
<1>9. CASE below = "raise" /\ L' = Throw(L)
  BY <1>3, <1>9, ThrowKeeps
<1>10. QED
  BY <1>2, <1>5, <1>6, <1>7, <1>8, <1>9
-----------------------------------------------------------------------------
\* A C function that raises an error without calling anything.
LEMMA PushErrKeeps ==
  ASSUME NEW x, CallInv(x), Cur(x).ci # <<>>, Last(Cur(x).ci) = "lua",
         NEW f \in Resumers \cup {"yield"}
  PROVE  CallInv([With(x, Push(Cur(x), f)) EXCEPT !.err = TRUE])
<1> DEFINE u == Push(Cur(x), f)
           w == With(x, u)
           y == [w EXCEPT !.err = TRUE]
<1>1. x \in CallStates /\ x.chain # <<>> /\ Active(x) /\ Resting(x) /\ Cur(x) \in ThreadStates
      /\ Cur(x).nC < MaxC + Extra
  BY Running
<1>2. f \in FrameKinds /\ f \notin Protected /\ f \notin CFrames
  BY DEF Resumers, FrameKinds, Protected, CFrames, Callers
<1>3. u \in ThreadStates
  BY <1>1, <1>2, PushIs
<1>4. TopIs(x, w, u)
  BY <1>1, <1>3, WithIs
<1> HIDE DEF w
<1>5. TopIs(x, y, u) /\ y.err
  BY <1>4, ErrIs DEF TopIs
<1> HIDE DEF y
<1>6. /\ y \in CallStates
      /\ u.ci = Append(Cur(x).ci, f) /\ u.nC = Cur(x).nC
      /\ Sound(Cis(y), Top(x), u)
      /\ IsCount(Cis(y), Top(x), Len(u.ci), u.nC)
  BY <1>1, <1>2, <1>5, LuaTop, PushStep
<1> HIDE DEF u
<1>7. CallInv(y)
  BY <1>1, <1>3, <1>5, <1>6, StepKeeps
<1>8. QED
  BY <1>7 DEF y, w, u

\* A coroutine that is not in the chain changes.
LEMMA OutsideKeeps ==
  ASSUME NEW x, CallInv(x), NEW co \in Cos, \A i \in 1..Len(x.chain) : x.chain[i] # co,
         NEW t \in ThreadStates, Rests(t)
  PROVE  LET y == [x EXCEPT !.th = [@ EXCEPT ![co] = t]]
         IN  CallInv(y) /\ Cur(y) = Cur(x)
<1> DEFINE th == [x.th EXCEPT ![co] = t]
           y == [x EXCEPT !.th = th]
<1>1. x \in CallStates /\ Resting(x) /\ x.th \in [Threads -> ThreadStates]
  BY DEF CallInv, CallStates
<1>2. th \in [Threads -> ThreadStates] /\ th[co] = t
      /\ \A u \in Threads \ {co} : th[u] = x.th[u]
  BY <1>1 DEF Threads
<1> HIDE DEF th
<1>3. y \in CallStates /\ y.chain = x.chain /\ y.th = th /\ y.err = x.err
  BY <1>1, <1>2 DEF CallStates
<1> HIDE DEF y
<1>4. x.chain # <<>>
  <2>1. IdleMain(x) => x.chain # <<>>
    BY DEF IdleMain
  <2>2. Active(x) => x.chain # <<>>
    BY DEF Active
  <2>3. QED
    BY <2>1, <2>2 DEF CallInv
<1>5. \A i \in 1..Len(x.chain) : y.th[y.chain[i]] = x.th[x.chain[i]]
  <2>1. \A i \in 1..Len(x.chain) : x.chain[i] \in Threads
    BY <1>1, <1>4, ChainFacts
  <2>2. QED
    BY <1>2, <1>3, <2>1
<1>6. Cur(y) = Cur(x) /\ Top(y) = Top(x)
  <2>1. Len(x.chain) \in 1..Len(x.chain)
    BY <1>1, <1>4, ChainFacts
  <2>2. QED
    BY <1>3, <1>5, <2>1 DEF Cur, Run, Top
<1>7. Cis(y) = Cis(x)
  BY <1>3, <1>5 DEF Cis
<1>8. Resting(y)
  <2>1. \A c \in Cos : c = co \/ y.th[c] = x.th[c]
    BY <1>2, <1>3 DEF Threads
  <2>2. y.th[co] = t
    BY <1>2, <1>3
  <2>3. QED
    BY <1>1, <1>3, <2>1, <2>2 DEF Resting
<1>9. IdleMain(x) => IdleMain(y)
  <2>1. y.th[Main] = x.th[Main]
    BY <1>2, <1>3, CallConstants DEF Threads
  <2>2. QED
    BY <1>3, <2>1 DEF IdleMain
<1>10. Active(x) => Active(y)
  <2>1. \A i \in 1..(Len(x.chain) - 1) : i \in 1..Len(x.chain)
    <3>1. Len(x.chain) \in Nat
      BY <1>1, <1>4, ChainFacts
    <3>2. QED
      BY <3>1
  <2>2. QED
    BY <1>3, <1>5, <1>7, <2>1 DEF Active
<1>11. CallInv(y)
  BY <1>3, <1>6, <1>7, <1>8, <1>9, <1>10 DEF CallInv
<1>12. QED
  BY <1>6, <1>11 DEF y, th

\* The threads of the chain have frames, and none has yielded or is dead.
LEMMA ChainBusy ==
  ASSUME CallInv(L), InLua, NEW i \in 1..Len(L.chain)
  PROVE  L.th[L.chain[i]].ci # <<>> /\ L.th[L.chain[i]].status = "ok"
<1>1. Active(L) /\ Top(L) \in Nat \ {0} /\ Cur(L).ci # <<>>
  BY Running DEF InLua
<1>2. L.th[L.chain[i]].status = "ok"
  BY <1>1 DEF Active, Sound
<1>3. i \in 1..(Len(L.chain) - 1) \/ i = Len(L.chain)
  BY <1>1 DEF Top
<1>4. QED
  BY <1>1, <1>2, <1>3 DEF Active, Waits, Cur, Run

\* luaB_cocreate.
LEMMA CreateKeeps ==
  ASSUME CallInv(L), NEW co \in Cos, Create(co)
  PROVE  CallInv(L')
<1> DEFINE t == [NewState EXCEPT !.func = TRUE]
<1>1. InLua /\ (L.th[co].ci = <<>> \/ L.th[co].status = "dead")
      /\ L' = [L EXCEPT !.th = [@ EXCEPT ![co] = t]]
  BY DEF Create
<1>2. \A i \in 1..Len(L.chain) : L.chain[i] # co
  BY <1>1, ChainBusy
<1>3. t \in ThreadStates /\ t.ci = <<>> /\ t.status = "ok" /\ ~t.ef
  BY NewStateIs DEF ThreadStates
<1>4. Rests(t)
  BY <1>3 DEF Rests
<1> HIDE DEF t
<1>5. QED
  BY <1>1, <1>2, <1>3, <1>4, OutsideKeeps

\* What auxresume finds in a coroutine that it can resume.
LEMMA SuspendedIs ==
  ASSUME CallInv(L), InLua, NEW co \in Cos, CoStatus(co) = "suspended"
  PROVE  LET c == L.th[co]
         IN  /\ c \in ThreadStates
             /\ \A i \in 1..Len(L.chain) : L.chain[i] # co
             /\ co # Run(L)
             /\ Rests(c)
             /\ c.status = "yield" \/ (c.status = "ok" /\ c.ci = <<>>)
             /\ ~c.ef
<1> DEFINE c == L.th[co]
<1>1. L \in CallStates /\ Resting(L) /\ c \in ThreadStates
  BY DEF CallInv, CallStates, Threads
<1>2. co # Run(L)
  BY DEF CoStatus
<1>3. c.status = "yield" \/ (c.status # "dead" /\ c.ci = <<>>)
  BY <1>2 DEF CoStatus
<1>4. c.status = "yield" \/ (c.status = "ok" /\ c.ci = <<>>)
  BY <1>1, <1>3, ThreadFacts
<1>5. \A i \in 1..Len(L.chain) : L.chain[i] # co
  BY <1>3, ChainBusy
<1>6. Rests(c)
  BY <1>1, <1>5 DEF Resting
<1>7. QED
  BY <1>1, <1>2, <1>4, <1>5, <1>6 DEF Rests

\* A coroutine is entered; what runs in it are Lua functions.
EnterIs(w, y, co, c) ==
  /\ y \in CallStates
  /\ y.chain = Append(w.chain, co)
  /\ y.th[co] = c
  /\ \A u \in Threads \ {co} : y.th[u] = w.th[u]
  /\ \A i \in 1..Len(w.chain) : w.chain[i] # co
  /\ c.status = "ok" /\ ~c.ef /\ c.ci # <<>> /\ c.jmp = <<Handler(NewState)>>
  /\ \A p \in 1..Len(c.ci) : c.ci[p] = "lua"
  /\ c.nC = Cur(w).nC + 1 /\ c.baseC = c.nC /\ c.nC < MaxC + Extra
LEMMA EnterKeeps ==
  ASSUME NEW w \in CallStates, NEW y \in CallStates, NEW co \in Cos, NEW c \in ThreadStates,
         Active(w), Resting(w), Waits(Cis(w), Top(w), Cur(w)),
         EnterIs(w, y, co, c)
  PROVE  CallInv(y)
<1> DEFINE n == Top(w)
<1>0. /\ y.chain = Append(w.chain, co)
      /\ y.th[co] = c
      /\ \A u \in Threads \ {co} : y.th[u] = w.th[u]
      /\ \A i \in 1..Len(w.chain) : w.chain[i] # co
      /\ c.status = "ok" /\ ~c.ef /\ c.ci # <<>> /\ c.jmp = <<Handler(NewState)>>
      /\ \A p \in 1..Len(c.ci) : c.ci[p] = "lua"
      /\ c.nC = Cur(w).nC + 1 /\ c.baseC = c.nC /\ c.nC < MaxC + Extra
  BY DEF EnterIs
<1>1. w.chain # <<>> /\ w.chain \in Seq(Threads) /\ co \in Threads
  BY DEF Active, CallStates, Threads
<1>2. n \in Nat \ {0} /\ Len(w.chain) = n /\ n \in 1..n
      /\ \A i \in 1..n : w.chain[i] \in Threads /\ w.th[w.chain[i]] \in ThreadStates
                         /\ Cis(w)[i] = w.th[w.chain[i]].ci
  BY <1>1, ChainFacts DEF Top
<1> HIDE DEF n
<1>3. /\ Len(y.chain) = n + 1 /\ y.chain[n + 1] = co /\ Top(y) = n + 1 /\ y.chain # <<>>
      /\ \A i \in 1..n : y.chain[i] = w.chain[i]
  BY <1>0, <1>1, <1>2, AppendProperties DEF Top
<1>4. \A i \in 1..(n + 1) : i \in 1..n \/ i = n + 1
  BY <1>2
<1>5. \A i \in 1..n : i \in 1..(n + 1) /\ i \in Nat \ {0} /\ \A l \in 1..i : l \in 1..n
  BY <1>2
<1>6. Run(y) = co /\ Cur(y) = c
  BY <1>0, <1>3 DEF Run, Cur
<1>7. \A i \in 1..n : y.th[y.chain[i]] = w.th[w.chain[i]]
  BY <1>0, <1>2, <1>3
<1>8. (\A i \in 1..n : Cis(y)[i] = Cis(w)[i]) /\ Cis(y)[n + 1] = c.ci
  <2>1. \A i \in 1..(n + 1) : Cis(y)[i] = y.th[y.chain[i]].ci
    BY <1>3, ChainFacts
  <2>2. n + 1 \in 1..(n + 1)
    BY <1>2
  <2>3. QED
    BY <1>0, <1>2, <1>3, <1>5, <1>7, <2>1, <2>2
<1>9. \A i \in 1..n : Waits(Cis(w), i, w.th[w.chain[i]]) /\ Sound(Cis(w), i, w.th[w.chain[i]])
  <2>1. \A i \in 1..n : i \in 1..(n - 1) \/ i = n
    BY <1>2
  <2>2. Waits(Cis(w), n, w.th[w.chain[n]])
    BY <1>2 DEF Cur, Run, n
  <2>3. QED
    BY <1>2, <2>1, <2>2 DEF Active
<1>10. ASSUME NEW i \in 1..n
       PROVE  Waits(Cis(y), i, y.th[y.chain[i]]) /\ Sound(Cis(y), i, y.th[y.chain[i]])
  <2>1. i \in Nat \ {0} /\ \A l \in 1..i : Cis(y)[l] = Cis(w)[l]
    BY <1>5, <1>8
  <2>2. w.th[w.chain[i]] \in ThreadStates /\ Cis(w)[i] = w.th[w.chain[i]].ci
    BY <1>2
  <2>3. Waits(Cis(w), i, w.th[w.chain[i]]) /\ Sound(Cis(w), i, w.th[w.chain[i]])
    BY <1>9
  <2>4. Waits(Cis(y), i, w.th[w.chain[i]]) /\ Sound(Cis(y), i, w.th[w.chain[i]])
    BY <2>1, <2>2, <2>3, SoundSame
  <2>5. QED
    BY <1>7, <2>4
<1>11. c.nC \in Int /\ Cur(w).nC \in Int /\ Len(c.ci) \in Nat
  BY <1>1, ChainFacts, ThreadFacts
<1>12. IsCount(Cis(y), n + 1, 0, c.nC)
  <2>1. IsCount(Cis(y), n, Len(Cis(y)[n]), Cur(w).nC)
    <3>1. Waits(Cis(y), n, w.th[w.chain[n]])
      BY <1>2, <1>7, <1>10
    <3>2. w.th[w.chain[n]] = Cur(w)
      BY DEF Cur, Run, n, Top
    <3>3. QED
      BY <3>1, <3>2 DEF Waits, Counted
  <2>2. Len(Cis(y)[n]) \in Nat
    <3>1. Cis(y)[n] = w.th[w.chain[n]].ci /\ w.th[w.chain[n]] \in ThreadStates
      BY <1>2, <1>8
    <3>2. QED
      BY <3>1, ThreadFacts
  <2>3. IsCount(Cis(y), n + 1, 0, Cur(w).nC + 1)
    BY <1>2, <1>11, <2>1, <2>2, CountEnter
  <2>4. QED
    BY <1>0, <2>3
<1>13. IsCount(Cis(y), n + 1, Len(c.ci), c.nC)
  <2>1. \A p \in 1..Len(c.ci) : Cis(y)[n + 1][p] \notin CFrames
    BY <1>0, <1>8 DEF CFrames, Callers, Protected
  <2>2. n + 1 \in Nat \ {0}
    BY <1>2
  <2>3. QED
    BY <1>11, <1>12, <2>1, <2>2, CountLua
<1>14. Sound(Cis(y), n + 1, c)
  <2>1. Len(c.jmp) = 1 /\ c.jmp[1] = Handler(NewState) /\ c.jmp # <<>>
    BY <1>0
  <2>2. 1 \in 1..Len(c.ci)
    <3>1. Len(c.ci) # 0
      BY <1>0, ThreadFacts, EmptySeq
    <3>2. QED
      BY <1>11, <3>1
  <2>3. Framed(c)
    <3>1. c.ci[1] = "lua" /\ \A k \in 2..Len(c.jmp) : FALSE
      BY <1>0, <2>1, <2>2
    <3>2. \A p \in 1..Len(c.ci) : c.ci[p] \notin Protected
      BY <1>0 DEF Protected
    <3>3. \A p \in 1..(Len(c.ci) - 1) : c.ci[p] \notin Resumers \cup {"yield"}
      <4>1. \A p \in 1..(Len(c.ci) - 1) : p \in 1..Len(c.ci)
        BY <1>11
      <4>2. QED
        BY <1>0, <4>1 DEF Resumers
    <3>4. ~(IF Len(c.jmp) = 1 THEN c.ef ELSE c.jmp[2].ef)
      BY <1>0, <2>1
    <3>5. QED
      BY <2>1, <3>1, <3>2, <3>3, <3>4 DEF Framed
  <2>4. HandlersCount(Cis(y), n + 1, c)
    BY <2>1 DEF HandlersCount
  <2>5. n + 1 # 1
    BY <1>2
  <2>6. QED
    BY <1>0, <1>12, <2>3, <2>4, <2>5 DEF Sound
<1>15. Active(y)
  <2>1. y.chain[1] = Main
    <3>1. 1 \in 1..n
      BY <1>2
    <3>2. QED
      BY <1>3, <3>1 DEF Active
  <2>2. \A i, j \in 1..(n + 1) : y.chain[i] = y.chain[j] => i = j
    <3>1. \A i, j \in 1..n : w.chain[i] = w.chain[j] => i = j
      BY <1>2 DEF Active
    <3>2. \A i \in 1..n : y.chain[i] # y.chain[n + 1]
      BY <1>0, <1>2, <1>3
    <3>3. QED
      BY <1>3, <1>4, <3>1, <3>2
  <2>3. \A i \in 1..(n + 1) : Sound(Cis(y), i, y.th[y.chain[i]])
    BY <1>0, <1>3, <1>4, <1>10, <1>14
  <2>4. \A i \in 1..((n + 1) - 1) : Waits(Cis(y), i, y.th[y.chain[i]])
    <3>1. (n + 1) - 1 = n
      BY <1>2
    <3>2. QED
      BY <1>10, <3>1
  <2>5. QED
    BY <1>3, <2>1, <2>2, <2>3, <2>4 DEF Active
<1>16. Resting(y)
  <2>1. SUFFICES ASSUME NEW d \in Cos, \A i \in 1..Len(y.chain) : y.chain[i] # d
                 PROVE  Rests(y.th[d])
    BY DEF Resting
  <2>2. n + 1 \in 1..(n + 1)
    BY <1>2
  <2>3. d # co
    BY <1>3, <2>1, <2>2
  <2>4. y.th[d] = w.th[d]
    BY <1>0, <2>3 DEF Threads
  <2>5. \A i \in 1..Len(w.chain) : w.chain[i] # d
    BY <1>2, <1>3, <1>5, <2>1
  <2>6. QED
    BY <2>4, <2>5 DEF Resting
<1>17. Counted(Cis(y), Top(y), Cur(y))
  BY <1>0, <1>3, <1>6, <1>8, <1>13 DEF Counted
<1>18. QED
  BY <1>0, <1>6, <1>15, <1>16, <1>17 DEF CallInv

\* lua_resume of a coroutine that is new or has yielded.
LEMMA StartedIs ==
  ASSUME NEW c \in ThreadStates, NEW nC \in Int, Rests(c), ~c.ef,
         c.status = "yield" \/ (c.status = "ok" /\ c.ci = <<>>)
  PROVE  LET d == Started(c, nC)
         IN  /\ d \in ThreadStates
             /\ d.status = "ok" /\ ~d.ef /\ d.ci # <<>> /\ d.jmp = <<Handler(NewState)>>
             /\ \A p \in 1..Len(d.ci) : d.ci[p] = "lua"
             /\ d.nC = nC + 1 /\ d.baseC = d.nC
<1> DEFINE ci == IF c.status = "yield" THEN Front(c.ci) ELSE <<"lua">>
           d == Started(c, nC)
<1>1. ci \in Seq(FrameKinds) /\ ci # <<>> /\ \A p \in 1..Len(ci) : ci[p] = "lua"
  <2>1. CASE c.status = "yield"
    <3>1. c.ci \in Seq(FrameKinds) /\ c.ci # <<>> /\ Len(c.ci) \in Nat \ {0, 1}
      BY <2>1, ThreadFacts, EmptySeq DEF Rests
    <3>2. Front(c.ci) \in Seq(FrameKinds) /\ Front(c.ci) # <<>> /\ Len(Front(c.ci)) = Len(c.ci) - 1
      BY <3>1, FrontTwice
    <3>3. \A p \in 1..(Len(c.ci) - 1) : Front(c.ci)[p] = c.ci[p]
      BY <3>1, <3>2, FrontIs
    <3>4. \A p \in 1..(Len(c.ci) - 1) : c.ci[p] = "lua"
      BY <2>1 DEF Rests
    <3>5. QED
      BY <2>1, <3>2, <3>3, <3>4
  <2>2. CASE c.status # "yield"
    <3>1. <<"lua">> \in Seq(FrameKinds) /\ <<"lua">> # <<>> /\ Len(<<"lua">>) = 1
      BY DEF FrameKinds
    <3>2. \A p \in 1..1 : <<"lua">>[p] = "lua"
      OBVIOUS
    <3>3. QED
      BY <2>2, <3>1, <3>2
  <2>3. QED
    BY <2>1, <2>2
<1>2. <<Handler(NewState)>> \in Seq(HandlerStates)
  <2>1. Handler(NewState) \in HandlerStates
    <3>1. Len(NewState.ci) \in Nat /\ NewState.nC \in Int /\ NewState.ef \in BOOLEAN
      BY NewStateIs, ThreadFacts
    <3>2. QED
      BY <3>1 DEF Handler, HandlerStates
  <2>2. QED
    BY <2>1
<1>3. d = [c EXCEPT !.nC = nC + 1, !.baseC = nC + 1, !.func = FALSE, !.status = "ok",
                    !.jmp = <<Handler(NewState)>>, !.ci = ci]
  BY DEF Started
<1> HIDE DEF ci, d
<1>4. nC + 1 \in Int
  OBVIOUS
<1>5. /\ d \in ThreadStates
      /\ d.status = "ok" /\ d.ef = c.ef /\ d.ci = ci /\ d.jmp = <<Handler(NewState)>>
      /\ d.nC = nC + 1 /\ d.baseC = nC + 1
  BY <1>2, <1>1, <1>3, <1>4 DEF ThreadStates
<1>6. QED
  BY <1>1, <1>5 DEF d

\* auxresume: an error, a refusal of lua_resume, or a coroutine that is entered.
LEMMA ResumeKeeps ==
  ASSUME CallInv(L), NEW co \in Cos, NEW kind \in Resumers, Resume(co, kind)
  PROVE  CallInv(L')
<1> DEFINE t == Cur(L)
           c == L.th[co]
           full == [c EXCEPT !.func = FALSE, !.nC = t.nC]
           over == [L EXCEPT !.th = [@ EXCEPT ![co] = full]]
           u == Push(t, kind)
           w == With(L, u)
           d == Started(c, t.nC)
           y == Entered(L, co, kind, t.nC)
<1>1. InLua /\ ~L.err /\ t.ci # <<>> /\ Last(t.ci) = "lua"
      /\ L' = IF CoStatus(co) # "suspended" THEN Fails(L, kind)
              ELSE IF Refused(c, t.nC) THEN Fails(over, kind) ELSE y
  BY DEF Resume, InLua
<1>2. L \in CallStates /\ L.chain # <<>> /\ Active(L) /\ Resting(L) /\ t \in ThreadStates
      /\ Top(L) \in Nat \ {0} /\ t.nC \in Int
  BY <1>1, Running
<1>3. ASSUME NEW x, CallInv(x), Cur(x) = t
      PROVE  CallInv(Fails(x, kind))
  <2>1. CASE kind = "resume"
    BY <1>3, <2>1 DEF Fails
  <2>2. CASE kind # "resume"
    <3>1. Fails(x, kind) = [With(x, Push(Cur(x), kind)) EXCEPT !.err = TRUE]
      BY <2>2 DEF Fails
    <3>2. kind \in Resumers \cup {"yield"}
      OBVIOUS
    <3>3. QED
      BY <1>1, <1>3, <3>1, <3>2, PushErrKeeps
  <2>3. QED
    BY <2>1, <2>2
<1>4. CASE CoStatus(co) # "suspended"
  BY <1>1, <1>3, <1>4
<1>5. ASSUME CoStatus(co) = "suspended"
      PROVE  /\ c \in ThreadStates
             /\ \A i \in 1..Len(L.chain) : L.chain[i] # co
             /\ co # Run(L)
             /\ Rests(c)
             /\ c.status = "yield" \/ (c.status = "ok" /\ c.ci = <<>>)
             /\ ~c.ef
  BY <1>1, <1>5, SuspendedIs
<1> HIDE DEF c
<1>6. CASE CoStatus(co) = "suspended" /\ Refused(c, t.nC)
  <2>1. full \in ThreadStates /\ full.ci = c.ci /\ full.status = c.status /\ full.ef = c.ef
    BY <1>2, <1>5, <1>6 DEF ThreadStates
  <2>2. Rests(full)
    BY <1>5, <1>6, <2>1 DEF Rests
  <2> HIDE DEF full
  <2>3. CallInv(over) /\ Cur(over) = t
    BY <1>5, <1>6, <2>1, <2>2, OutsideKeeps
  <2>4. QED
    BY <1>1, <1>3, <1>6, <2>3
<1>7. CASE CoStatus(co) = "suspended" /\ ~Refused(c, t.nC)
  <2>1. kind \in FrameKinds /\ kind \notin Protected /\ kind \notin CFrames
    BY DEF Resumers, FrameKinds, Protected, CFrames, Callers
  <2>2. u \in ThreadStates
    BY <1>2, <2>1, PushIs
  <2>3. TopIs(L, w, u)
    BY <1>2, <2>2, WithIs
  <2>4. /\ w \in CallStates /\ Active(w) /\ Resting(w)
        /\ Cur(w) = u /\ Top(w) = Top(L)
        /\ u.ci = Append(t.ci, kind) /\ u.nC = t.nC
        /\ IsCount(Cis(w), Top(L), Len(u.ci), u.nC)
    BY <1>1, <1>2, <2>1, <2>3, LuaTop, PushStep
  <2>5. Cis(w)[Top(w)] = u.ci
    BY <1>2, <2>2, <2>3, <2>4, TopFrames
  <2>6. u.ci # <<>> /\ u.ci[Len(u.ci)] = kind
    <3>1. t.ci \in Seq(FrameKinds)
      BY <1>2, ThreadFacts
    <3>2. Len(u.ci) = Len(t.ci) + 1 /\ u.ci[Len(t.ci) + 1] = kind /\ u.ci # <<>>
      BY <2>1, <2>4, <3>1, AppendProperties
    <3>3. QED
      BY <3>2
  <2>7. MaxC \in Int /\ Extra \in Int /\ Extra > 0
    BY CallConstants
  <2>8. u.nC < MaxC + Extra /\ t.nC + 1 < MaxC + Extra
    BY <1>2, <1>7, <2>4, <2>7 DEF Refused
  <2>9. Waits(Cis(w), Top(w), Cur(w))
    BY <2>4, <2>5, <2>6, <2>8 DEF Waits, Counted
  <2> HIDE DEF u, t
  <2>10. w.chain = L.chain /\ w.th \in [Threads -> ThreadStates] /\ co \in Threads
         /\ w.chain \in Seq(Threads) /\ w.th[co] = c
    <3>1. co \in Threads
      BY DEF Threads
    <3>2. w.th[co] = L.th[co]
      BY <1>5, <1>7, <2>3, <3>1 DEF TopIs
    <3>3. QED
      BY <2>3, <2>4, <3>1, <3>2 DEF TopIs, CallStates, c
  <2>11. y = [th |-> [w.th EXCEPT ![co] = Started(w.th[co], t.nC)],
              chain |-> Append(L.chain, co), err |-> FALSE]
    BY DEF Entered, u, t
  <2> HIDE DEF w
  <2>12. /\ d \in ThreadStates
         /\ d.status = "ok" /\ ~d.ef /\ d.ci # <<>> /\ d.jmp = <<Handler(NewState)>>
         /\ \A p \in 1..Len(d.ci) : d.ci[p] = "lua"
         /\ d.nC = t.nC + 1 /\ d.baseC = d.nC
    BY <1>2, <1>5, <1>7, StartedIs
  <2> DEFINE th == [w.th EXCEPT ![co] = d]
  <2>13. y = [th |-> th, chain |-> Append(L.chain, co), err |-> FALSE]
    BY <2>10, <2>11
  <2> HIDE DEF d, y
  <2>14. th \in [Threads -> ThreadStates] /\ th[co] = d
         /\ \A v \in Threads \ {co} : th[v] = w.th[v]
    BY <2>10, <2>12
  <2> HIDE DEF th
  <2>15. Append(L.chain, co) \in Seq(Threads)
    BY <2>10, AppendProperties
  <2>16. y \in CallStates /\ y.chain = Append(w.chain, co) /\ y.th = th
    BY <2>10, <2>13, <2>14, <2>15 DEF CallStates
  <2>17. EnterIs(w, y, co, d)
    BY <1>5, <1>7, <2>4, <2>8, <2>10, <2>12, <2>14, <2>16 DEF EnterIs
  <2>18. CallInv(y)
    BY <2>4, <2>9, <2>12, <2>16, <2>17, EnterKeeps
  <2>19. QED
    BY <1>1, <1>7, <2>18
<1>8. QED
  BY <1>4, <1>6, <1>7

\* lua_yield: without a C call in the coroutine all its frames are Lua functions.
LEMMA YieldKeeps ==
  ASSUME CallInv(L), Yield
  PROVE  CallInv(L')
<1> DEFINE c == Cur(L)
           t == Push(c, "yield")
           n == Len(c.ci)
           i == Top(L)
           u == [t EXCEPT !.status = "yield"]
           y == Left(L, u)
<1>1. ~L.err /\ c.ci # <<>> /\ Last(c.ci) = "lua"
      /\ L' = IF t.nC > t.baseC THEN [With(L, t) EXCEPT !.err = TRUE] ELSE Back(y)
  BY DEF Yield, InLua
<1>2. L \in CallStates /\ L.chain # <<>> /\ Active(L) /\ Resting(L) /\ c \in ThreadStates
      /\ Sound(Cis(L), i, c) /\ i \in Nat \ {0} /\ Cis(L)[i] = c.ci
      /\ IsCount(Cis(L), i, n, c.nC) /\ c.nC \in Int
  BY <1>1, Running
<1>3. c.ci[n] = "lua" /\ n \in Nat \ {0}
  BY <1>1, <1>2, LuaTop
<1>4. "yield" \in FrameKinds /\ "yield" \in Resumers \cup {"yield"}
  BY DEF FrameKinds
<1>5. /\ t \in ThreadStates /\ t.ci = Append(c.ci, "yield")
      /\ t.ef = c.ef /\ t.nC = c.nC /\ t.baseC = c.baseC
  BY <1>2, <1>4, PushIs
<1>6. CASE t.nC > t.baseC
  <2>1. CallInv([With(L, t) EXCEPT !.err = TRUE])
    BY <1>1, <1>4, PushErrKeeps
  <2>2. QED
    BY <1>1, <1>6, <2>1
<1> HIDE DEF t
<1>7. CASE ~(t.nC > t.baseC)
  <2>1. c.baseC \in Int
    BY <1>2, ThreadFacts
  <2>2. i # 1
    <3>1. SUFFICES ASSUME i = 1
                   PROVE  FALSE
      OBVIOUS
    <3>2. IsCount(Cis(L), 1, n, c.nC) /\ c.baseC = 0
      BY <1>2, <3>1 DEF Sound
    <3>3. c.nC > 0
      BY <1>2, <1>3, <3>2, CountPositive
    <3>4. QED
      BY <1>2, <1>5, <1>7, <3>2, <3>3
  <2>3. i > 1
    BY <1>2, <2>2
  <2>4. IsCount(Cis(L), i, 0, c.baseC)
    BY <1>2, <2>3 DEF Sound
  <2>5. c.baseC <= c.nC
    BY <1>2, <1>3, <2>1, <2>4, CountMono
  <2>6. c.baseC = c.nC
    BY <1>2, <1>5, <1>7, <2>1, <2>5
  <2>7. \A p \in 1..n : c.ci[p] \notin CFrames
    <3>1. IsCount(Cis(L), i, 0, c.nC)
      BY <2>4, <2>6
    <3>2. QED
      BY <1>2, <1>3, <3>1, CountNone
  <2>8. \A p \in 1..n : c.ci[p] = "lua"
    <3>1. SUFFICES ASSUME NEW p \in 1..n, c.ci[p] # "lua"
                   PROVE  FALSE
      OBVIOUS
    <3>2. c.ci[p] \in FrameKinds
      BY <1>2, ThreadFacts
    <3>3. c.ci[p] \in Resumers \cup {"yield"}
      BY <2>7, <3>1, <3>2 DEF FrameKinds
    <3>4. p \in 1..(n - 1) /\ p + 1 \in 1..n
      BY <1>3, <3>1
    <3>5. c.ci[p + 1] = "raise"
      BY <1>2, <3>3, <3>4 DEF Sound, Framed
    <3>6. c.ci[p + 1] \in CFrames
      BY <3>5 DEF CFrames
    <3>7. QED
      BY <2>7, <3>4, <3>6
  <2>9. ~c.ef
    <3>1. \A p \in 1..n : c.ci[p] \notin Protected
      BY <2>8 DEF Protected
    <3>2. QED
      BY <1>2, <3>1, NoErrfunc DEF Sound
  <2>10. u \in ThreadStates /\ u.ci = t.ci /\ u.status = "yield" /\ u.ef = t.ef
    BY <1>5 DEF ThreadStates
  <2>11. Len(t.ci) = n + 1 /\ t.ci[n + 1] = "yield" /\ \A p \in 1..n : t.ci[p] = c.ci[p]
    <3>1. c.ci \in Seq(FrameKinds)
      BY <1>2, ThreadFacts
    <3>2. QED
      BY <1>4, <1>5, <3>1, AppendProperties
  <2>12. Rests(u)
    <3>1. Len(u.ci) = n + 1 /\ Len(u.ci) > 1 /\ u.ci[n + 1] = "yield"
      BY <1>3, <2>10, <2>11
    <3>2. \A p \in 1..((n + 1) - 1) : u.ci[p] = "lua"
      <4>1. (n + 1) - 1 = n
        BY <1>3
      <4>2. QED
        BY <2>8, <2>10, <2>11, <4>1
    <3>3. ~u.ef
      BY <1>5, <2>9, <2>10
    <3>4. QED
      BY <2>10, <3>1, <3>2, <3>3 DEF Rests
  <2> HIDE DEF u
  <2>13. /\ y \in CallStates /\ Active(y) /\ Resting(y)
         /\ Counted(Cis(y), Top(y), Cur(y))
         /\ Cur(y).ci # <<>>
         /\ Cur(y).ci[Len(Cur(y).ci)] \in Resumers
    BY <1>2, <2>3, <2>10, <2>12, LeftIs
  <2> HIDE DEF y
  <2>14. CallInv(Back(y))
    BY <2>13, BackKeeps
  <2>15. QED
    BY <1>1, <1>7, <2>14
<1>8. QED
  BY <1>6, <1>7
-----------------------------------------------------------------------------
\* preinit_state and the operations of ldo.c keep the invariant.
LEMMA CallInitInv ==
  CallInit => CallInv(L)
<1> SUFFICES ASSUME CallInit PROVE CallInv(L)
  OBVIOUS
<1> DEFINE th == [t \in Threads |-> NewState]
<1>1. L = [th |-> th, chain |-> <<Main>>, err |-> FALSE]
  BY DEF CallInit
<1>2. th \in [Threads -> ThreadStates] /\ \A t \in Threads : th[t] = NewState
  BY NewStateIs
<1> HIDE DEF th
<1>3. <<Main>> \in Seq(Threads)
  BY DEF Threads
<1>4. L \in CallStates /\ L.chain = <<Main>> /\ L.th = th /\ ~L.err
  BY <1>1, <1>2, <1>3 DEF CallStates
<1>5. L.th[Main] = NewState /\ \A co \in Cos : L.th[co] = NewState
  BY <1>2, <1>4 DEF Threads
<1>6. IdleMain(L)
  BY <1>4, <1>5, NewStateIs DEF IdleMain
<1>7. Resting(L)
  BY <1>5, NewStateIs DEF Resting, Rests
<1>8. QED
  BY <1>4, <1>6, <1>7 DEF CallInv

\* Every operation keeps the invariant.
LEMMA CallNextInv ==
  CallInv(L) /\ [CallNext]_L => CallInv(L')
<1> SUFFICES ASSUME CallInv(L), [CallNext]_L
             PROVE  CallInv(L')
  OBVIOUS
<1>1. CASE HostCall
  BY <1>1, HostCallKeeps
<1>2. CASE CallLua
  BY <1>2, CallLuaKeeps
<1>3. CASE Fail
  BY <1>3, FailKeeps
<1>4. CASE Raise
  BY <1>4, RaiseKeeps
<1>5. CASE Return
  BY <1>5, ReturnKeeps
<1>6. CASE Yield
  BY <1>6, YieldKeeps
<1>7. CASE \E f \in Callers : CallC(f)
  BY <1>7, CallCKeeps
<1>8. ASSUME NEW co \in Cos, Create(co)
      PROVE  CallInv(L')
  BY <1>8, CreateKeeps
<1>9. ASSUME NEW co \in Cos, Resume(co, "resume") \/ Resume(co, "wrap")
      PROVE  CallInv(L')
  BY <1>9, ResumeKeeps DEF Resumers
<1>10. CASE UNCHANGED L
  BY <1>10
<1>11. QED
  BY <1>1, <1>2, <1>3, <1>4, <1>5, <1>6, <1>7, <1>8, <1>9, <1>10 DEF CallNext

\* The calls of the C stack are those below the frame that runs.
LEMMA CallsAre ==
  ASSUME NEW x \in CallStates, x.chain # <<>>
  PROVE  CCalls(x) = Below(Cis(x), Top(x), Len(Cur(x).ci))
<1> DEFINE n == Top(x)
           b == Below(Cis(x), n, Len(Cur(x).ci))
<1>1. n \in Nat \ {0} /\ DOMAIN x.chain = 1..n /\ Cur(x) = x.th[x.chain[n]]
  BY ChainFacts DEF Top, CallStates, Cur, Run
<1>2. \A i \in 1..n : /\ Cis(x)[i] = x.th[x.chain[i]].ci
                      /\ x.th[x.chain[i]].ci \in Seq(FrameKinds)
  BY ChainFacts DEF Top
<1>3. \A i \in 1..n : /\ Len(Cis(x)[i]) \in Nat
                      /\ DOMAIN x.th[x.chain[i]].ci = 1..Len(Cis(x)[i])
  BY <1>2
<1>4. Len(Cur(x).ci) = Len(Cis(x)[n]) /\ Len(Cur(x).ci) \in Nat
  <2>1. n \in 1..n
    BY <1>1
  <2>2. QED
    BY <1>1, <1>2, <1>3, <2>1
<1>5. ASSUME NEW c
      PROVE  c \in CCalls(x) <=>
               \E i \in 1..n : \E j \in {0} \cup {k \in 1..Len(Cis(x)[i]) : Cis(x)[i][k] \in CFrames} :
                 c = <<i, j>>
  <2>1. c \in CCalls(x) <=>
          \E i \in DOMAIN x.chain :
            c \in {<<i, j>> : j \in {0} \cup {k \in DOMAIN x.th[x.chain[i]].ci :
                                                x.th[x.chain[i]].ci[k] \in CFrames}}
    BY DEF CCalls
  <2>2. c \in CCalls(x) <=>
          \E i \in DOMAIN x.chain :
            \E j \in {0} \cup {k \in DOMAIN x.th[x.chain[i]].ci :
                                  x.th[x.chain[i]].ci[k] \in CFrames} : c = <<i, j>>
    BY <2>1
  <2>3. ASSUME NEW i \in 1..n
        PROVE  {k \in DOMAIN x.th[x.chain[i]].ci : x.th[x.chain[i]].ci[k] \in CFrames}
               = {k \in 1..Len(Cis(x)[i]) : Cis(x)[i][k] \in CFrames}
    BY <1>2, <1>3
  <2>4. QED
    BY <1>1, <2>2, <2>3
<1>6. \A i \in Nat, j \in Nat : <<i, j>> \in b <=>
        /\ i \in 1..n
        /\ j = 0 \/ (j \in 1..Len(Cis(x)[i]) /\ Cis(x)[i][j] \in CFrames)
  <2>1. SUFFICES ASSUME NEW i \in Nat, NEW j \in Nat
                 PROVE  <<i, j>> \in b <=>
                          /\ i \in 1..n
                          /\ j = 0 \/ (j \in 1..Len(Cis(x)[i]) /\ Cis(x)[i][j] \in CFrames)
    OBVIOUS
  <2>2. <<i, j>> \in b <=>
          /\ 1 <= i /\ i <= n
          /\ j <= (IF i = n THEN Len(Cur(x).ci) ELSE Len(Cis(x)[i]))
          /\ j = 0 \/ Cis(x)[i][j] \in CFrames
    BY <1>1, <1>4, BelowIs
  <2>3. (1 <= i /\ i <= n) <=> i \in 1..n
    BY <1>1
  <2>4. (IF i = n THEN Len(Cur(x).ci) ELSE Len(Cis(x)[i])) = Len(Cis(x)[i])
    BY <1>4
  <2>5. i \in 1..n => Len(Cis(x)[i]) \in Nat
    BY <1>3
  <2>6. i \in 1..n => ((j <= Len(Cis(x)[i]) /\ (j = 0 \/ Cis(x)[i][j] \in CFrames)) <=>
                       (j = 0 \/ (j \in 1..Len(Cis(x)[i]) /\ Cis(x)[i][j] \in CFrames)))
    BY <2>5
  <2>7. QED
    BY <2>2, <2>3, <2>4, <2>6
<1> HIDE DEF n
<1>7. ASSUME NEW c \in CCalls(x)
      PROVE  c \in b
  <2>0. PICK i \in 1..n :
          \E j \in {0} \cup {k \in 1..Len(Cis(x)[i]) : Cis(x)[i][k] \in CFrames} : c = <<i, j>>
    BY <1>5, <1>7
  <2>1. PICK j \in {0} \cup {k \in 1..Len(Cis(x)[i]) : Cis(x)[i][k] \in CFrames} : c = <<i, j>>
    BY <2>0
  <2>2. i \in Nat /\ j \in Nat
    BY <1>1, <1>3
  <2>3. QED
    BY <1>6, <2>1, <2>2
<1>8. ASSUME NEW c \in b
      PROVE  c \in CCalls(x)
  <2>1. PICK i \in Nat, j \in Nat : c = <<i, j>>
    BY <1>1, <1>4, BelowPairs DEF n
  <2>2. i \in 1..n /\ j \in {0} \cup {k \in 1..Len(Cis(x)[i]) : Cis(x)[i][k] \in CFrames}
    BY <1>6, <1>8, <2>1
  <2>3. QED
    BY <1>5, <2>1, <2>2
<1>9. CCalls(x) = b
  BY <1>7, <1>8
<1>10. QED
  BY <1>9 DEF n

\* What the invariant says of nCcalls.
LEMMA CallInvDepth ==
  CallInv(L) => DepthCounted
<1> SUFFICES ASSUME CallInv(L), InLua
             PROVE  Cur(L).nC = Depth /\ Depth < MaxC + Extra
  BY DEF DepthCounted
<1>1. L \in CallStates /\ L.chain # <<>> /\ Cur(L).nC < MaxC + Extra
      /\ IsCount(Cis(L), Top(L), Len(Cur(L).ci), Cur(L).nC)
  BY Running DEF InLua
<1>2. CCalls(L) = Below(Cis(L), Top(L), Len(Cur(L).ci))
  BY <1>1, CallsAre
<1>3. Cur(L).nC = Depth
  BY <1>1, <1>2 DEF IsCount, Depth
<1>4. QED
  BY <1>1, <1>3

\* What the invariant says of the coroutines.
LEMMA CallInvCoroutines ==
  CallInv(L) => CoroutinesSound
<1> SUFFICES ASSUME CallInv(L)
             PROVE  CoroutinesSound
  OBVIOUS
<1>1. L \in CallStates /\ Resting(L) /\ (IdleMain(L) \/ Active(L))
  BY DEF CallInv
<1>2. L.chain # <<>>
  <2>1. IdleMain(L) => L.chain # <<>>
    BY DEF IdleMain
  <2>2. QED
    BY <1>1, <2>1 DEF Active
<1>3. Len(L.chain) \in Nat \ {0} /\ DOMAIN L.chain = 1..Len(L.chain)
      /\ \A i \in 1..Len(L.chain) : L.th[L.chain[i]] \in ThreadStates
  BY <1>1, <1>2, ChainFacts DEF CallStates
<1>4. IdleMain(L) => Len(L.chain) = 1 /\ L.chain[1] = Main
  BY DEF IdleMain
<1>5. IsInjective(L.chain)
  <2>1. \A i, j \in 1..Len(L.chain) : L.chain[i] = L.chain[j] => i = j
    BY <1>1, <1>4 DEF Active
  <2>2. QED
    BY <1>3, <2>1 DEF IsInjective
<1>6. ASSUME NEW i \in 1..(Len(L.chain) - 1)
      PROVE  /\ L.th[L.chain[i]].ci # <<>>
             /\ Last(L.th[L.chain[i]].ci) \in {"resume", "wrap"}
             /\ L.th[L.chain[i]].status = "ok"
  <2>1. i \in 1..Len(L.chain) /\ Len(L.chain) # 1
    BY <1>3
  <2>2. Active(L)
    BY <1>1, <1>4, <2>1
  <2>3. Waits(Cis(L), i, L.th[L.chain[i]]) /\ Sound(Cis(L), i, L.th[L.chain[i]])
    BY <2>1, <2>2 DEF Active
  <2>4. QED
    BY <2>3 DEF Waits, Sound, Last, Resumers
<1>7. \A i \in 1..Len(L.chain) : i \in 1..(Len(L.chain) - 1) \/ i = Len(L.chain)
  BY <1>3
<1>8. \A i \in 1..Len(L.chain) : L.th[L.chain[i]].status = "ok"
  <2>1. IdleMain(L) => \A i \in 1..Len(L.chain) : L.th[L.chain[i]].status = "ok"
    BY <1>4 DEF IdleMain
  <2>2. QED
    BY <1>1, <2>1 DEF Active, Sound
<1>9. ASSUME NEW co \in Cos, L.th[co].status = "yield"
      PROVE  /\ Last(L.th[co].ci) = "yield"
             /\ Range(Front(L.th[co].ci)) \subseteq {"lua"}
             /\ \A i \in DOMAIN L.chain : L.chain[i] # co
  <2> DEFINE q == L.th[co].ci
  <2>1. \A i \in 1..Len(L.chain) : L.chain[i] # co
    BY <1>8, <1>9
  <2>2. Rests(L.th[co])
    BY <1>1, <2>1 DEF Resting
  <2>3. Len(q) > 1 /\ q[Len(q)] = "yield" /\ \A p \in 1..(Len(q) - 1) : q[p] = "lua"
    BY <1>9, <2>2 DEF Rests
  <2>4. q \in Seq(FrameKinds) /\ Len(q) \in Nat
    <3>1. L.th[co] \in ThreadStates
      BY <1>1 DEF CallStates, Threads
    <3>2. QED
      BY <3>1, ThreadFacts
  <2> HIDE DEF q
  <2>5. q # <<>>
    BY <2>3, <2>4, EmptySeq
  <2>6. Len(Front(q)) = Len(q) - 1 /\ Front(q) \in Seq(FrameKinds)
        /\ \A p \in 1..Len(Front(q)) : Front(q)[p] = q[p]
    BY <2>4, <2>5, FrontIs
  <2>7. DOMAIN Front(q) = 1..(Len(q) - 1)
    BY <2>6
  <2>8. Range(Front(q)) \subseteq {"lua"}
    BY <2>3, <2>6, <2>7 DEF Range
  <2>9. Last(q) = "yield"
    BY <2>3 DEF Last
  <2>10. QED
    BY <1>3, <2>1, <2>8, <2>9 DEF q
<1>10. ASSUME NEW co \in Cos, CoStatus(co) = "suspended"
       PROVE  ~L.th[co].ef
  <2>1. co # Run(L)
    BY <1>10 DEF CoStatus
  <2>2. L.th[co].status = "yield" \/ (L.th[co].status # "dead" /\ L.th[co].ci = <<>>)
    BY <1>10, <2>1 DEF CoStatus
  <2>3. \A i \in 1..Len(L.chain) : L.chain[i] # co
    BY <1>6, <1>7, <1>8, <2>1, <2>2 DEF Run
  <2>4. Rests(L.th[co])
    BY <1>1, <2>3 DEF Resting
  <2>5. QED
    BY <2>2, <2>4 DEF Rests
<1>11. QED
  BY <1>5, <1>6, <1>9, <1>10 DEF CoroutinesSound

\* Every state of the calls, errors and coroutines of ldo.c has the inductive
\* invariant: the handlers of luaD_rawrunprotected match the pcalls and xpcalls
\* among the frames, and hold the nCcalls to go back to.
THEOREM CallInvariant ==
  CallSpec => []CallInv(L)
<1>1. CallInit => CallInv(L)
  BY CallInitInv
<1>2. CallInv(L) /\ [CallNext]_L => CallInv(L)'
  BY CallNextInv
<1>3. QED
  BY <1>1, <1>2, PTL DEF CallSpec

\* nCcalls of the thread that runs is the depth of the C stack, across errors
\* caught by luaD_pcall, error functions, resumes and yields, so that luaD_call
\* bounds that depth by LUAI_MAXCCALLS and the room for handling its overflow.
THEOREM DepthIsCounted ==
  CallSpec => []DepthCounted
<1>1. CallInv(L) => DepthCounted
  BY CallInvDepth
<1>2. QED
  BY <1>1, CallInvariant, PTL

\* lua_yield leaves only Lua functions suspended, auxresume resumes no coroutine
\* that is in the chain of resumes, and none that it resumes has an error function.
THEOREM CoroutinesAreSound ==
  CallSpec => []CoroutinesSound
<1>1. CallInv(L) => CoroutinesSound
  BY CallInvCoroutines
<1>2. QED
  BY <1>1, CallInvariant, PTL

-----------------------------------------------------------------------------
(* Tables: first, numbers and iterations.                                   *)
LEMMA LeastNat ==
  ASSUME NEW T, T \subseteq Nat, T # {}
  PROVE  \E n \in T : \A m \in T : ~(m < n)
<1>1. PICK n \in T : \A m \in T : <<m, n>> \notin OpToRel(<, Nat)
  BY NatLessThanWellFounded, WFMin, Zenon
<1>2. \A m \in T : m < n => <<m, n>> \in OpToRel(<, Nat)
  BY Zenon DEF OpToRel
<1> QED BY <1>1, <1>2

\* What holds at 0 and after every step holds always, for a set of numbers.
LEMMA NatsAll ==
  ASSUME NEW T, 0 \in T, \A n \in Nat : n \in T => n + 1 \in T
  PROVE  Nat \subseteq T
<1> SUFFICES ASSUME Nat \ T # {} PROVE FALSE
  OBVIOUS
<1>1. PICK n \in Nat \ T : \A m \in Nat \ T : ~(m < n)
  <2> DEFINE U == Nat \ T
  <2>1. U \subseteq Nat /\ U # {} OBVIOUS
  <2> HIDE DEF U
  <2>2. \E n \in U : \A m \in U : ~(m < n) BY <2>1, LeastNat
  <2> QED BY <2>2 DEF U
<1>2. n # 0 BY <1>1
<1>3. n - 1 \in Nat /\ n - 1 < n /\ (n - 1) + 1 = n BY <1>1, <1>2
<1> QED BY <1>1, <1>3

\* h is an iteration of step up to n, and f one without end.
Iterates(h, x0, step, n) ==
  /\ h[0] = x0
  /\ \A i \in 0..(n - 1) : h[i + 1] = step[h[i]]
IsIteration(f, x0, step, U) ==
  /\ f \in [Nat -> U]
  /\ f[0] = x0
  /\ \A n \in Nat : f[n + 1] = step[f[n]]
LEMMA IterationExists ==
  ASSUME NEW U, NEW step \in [U -> U], NEW x0 \in U
  PROVE  \E f : IsIteration(f, x0, step, U)
<1> DEFINE T == {n \in Nat : \E h \in [0..n -> U] : Iterates(h, x0, step, n)}
<1>1. 0 \in T
  <2> DEFINE h == [i \in 0..0 |-> x0]
  <2>1. h \in [0..0 -> U] /\ Iterates(h, x0, step, 0) BY DEF Iterates
  <2> QED BY <2>1
<1>2. ASSUME NEW n \in Nat, n \in T PROVE n + 1 \in T
  <2>1. PICK h \in [0..n -> U] : Iterates(h, x0, step, n) BY <1>2
  <2> DEFINE k == [i \in 0..(n + 1) |-> IF i = n + 1 THEN step[h[n]] ELSE h[i]]
  <2>2. k \in [0..(n + 1) -> U]
    <3>1. \A i \in 0..(n + 1) : i # n + 1 => i \in 0..n OBVIOUS
    <3>2. step[h[n]] \in U OBVIOUS
    <3> QED BY <3>1, <3>2
  <2>3. k[0] = x0 BY <2>1 DEF Iterates
  <2>4. ASSUME NEW i \in 0..n PROVE k[i + 1] = step[k[i]]
    <3>1. CASE i = n
      <4>1. k[n + 1] = step[h[n]] /\ k[n] = h[n] OBVIOUS
      <4> QED BY <3>1, <4>1
    <3>2. CASE i # n
      <4>1. i \in 0..(n - 1) /\ i + 1 \in 0..n BY <3>2
      <4>2. k[i + 1] = h[i + 1] /\ k[i] = h[i] BY <4>1
      <4> QED BY <2>1, <4>1, <4>2 DEF Iterates
    <3> QED BY <3>1, <3>2
  <2>5. (n + 1) - 1 = n OBVIOUS
  <2> HIDE DEF k
  <2>6. Iterates(k, x0, step, n + 1) BY <2>3, <2>4, <2>5 DEF Iterates
  <2> QED BY <2>2, <2>6
<1>3. \A n \in Nat : n \in T
  <2> HIDE DEF T
  <2> QED BY <1>1, <1>2, NatsAll
<1> DEFINE of(n) == CHOOSE h \in [0..n -> U] : Iterates(h, x0, step, n)
           f == [n \in Nat |-> of(n)[n]]
<1>4. \A n \in Nat : of(n) \in [0..n -> U] /\ Iterates(of(n), x0, step, n)
  BY <1>3
<1>5. ASSUME NEW n \in Nat PROVE of(n + 1)[n] = of(n)[n]
  <2> DEFINE S == {i \in Nat : i \in 0..n => of(n + 1)[i] = of(n)[i]}
  <2>0. of(n)[0] = x0 /\ of(n + 1)[0] = x0
    <3>1. Iterates(of(n), x0, step, n) /\ Iterates(of(n + 1), x0, step, n + 1) BY <1>4
    <3> HIDE DEF of
    <3> QED BY <3>1 DEF Iterates
  <2>1. 0 \in S BY <2>0
  <2>2. ASSUME NEW i \in Nat, i \in S PROVE i + 1 \in S
    <3> SUFFICES ASSUME i + 1 \in 0..n PROVE of(n + 1)[i + 1] = of(n)[i + 1]
      OBVIOUS
    <3>1. i \in 0..(n - 1) /\ i \in 0..n /\ i \in 0..((n + 1) - 1) OBVIOUS
    <3>2. of(n + 1)[i] = of(n)[i] BY <2>2, <3>1
    <3>3. of(n)[i + 1] = step[of(n)[i]] BY <1>4, <3>1 DEF Iterates
    <3>4. Iterates(of(n + 1), x0, step, n + 1) BY <1>4
    <3>5. of(n + 1)[i + 1] = step[of(n + 1)[i]] BY <3>4, <3>1 DEF Iterates
    <3> QED BY <3>2, <3>3, <3>5
  <2>3. Nat \subseteq S
    <3> HIDE DEF S
    <3> QED BY <2>1, <2>2, NatsAll
  <2> QED
    <3>1. n \in S BY <2>3
    <3>2. n \in 0..n OBVIOUS
    <3> HIDE DEF of
    <3> QED BY <3>1, <3>2
<1>6. f \in [Nat -> U]
  <2> HIDE DEF of
  <2> QED BY <1>4
<1>7. f[0] = x0
  <2>1. of(0)[0] = x0 BY <1>4 DEF Iterates
  <2> QED BY <2>1
<1>8. ASSUME NEW n \in Nat PROVE f[n + 1] = step[f[n]]
  <2>1. Iterates(of(n + 1), x0, step, n + 1) BY <1>4
  <2>2. n \in 0..((n + 1) - 1) OBVIOUS
  <2>3. of(n + 1)[n + 1] = step[of(n + 1)[n]] BY <2>1, <2>2 DEF Iterates
  <2>4. f[n + 1] = of(n + 1)[n + 1] /\ f[n] = of(n)[n]
    <3> HIDE DEF of
    <3> QED OBVIOUS
  <2> HIDE DEF of, f
  <2> QED BY <2>3, <2>4, <1>5
<1>9. \A n \in Nat : f[n + 1] = step[f[n]] BY <1>8
<1> HIDE DEF of, f
<1>10. IsIteration(f, x0, step, U) BY <1>6, <1>7, <1>9 DEF IsIteration
<1> QED BY <1>10

-----------------------------------------------------------------------------
(* Numbers: powers of two, and the largest and the least of a set.         *)

LEMMA Pow2Is ==
  /\ Pow2[0] = 1
  /\ \A n \in Nat : Pow2[n] \in Nat /\ Pow2[n] > n
<1> DEFINE P(k) == k = [n \in Nat |-> IF n = 0 THEN 1 ELSE 2 * k[n - 1]]
           step == [x \in Nat |-> 2 * x]
<1>1. step \in [Nat -> Nat] OBVIOUS
<1>2. PICK f : IsIteration(f, 1, step, Nat)
  <2> HIDE DEF step, P
  <2> QED BY ONLY <1>1, IterationExists
<1>3. P(f)
  <2>1. \A n \in Nat : n # 0 => n - 1 \in Nat /\ (n - 1) + 1 = n OBVIOUS
  <2> QED BY <2>1, <1>2 DEF IsIteration
<1>4. P(Pow2)
  <2> DEFINE c == CHOOSE k : P(k)
  <2>1. P(c) BY <1>3
  <2>2. Pow2 = c BY DEF Pow2
  <2> QED BY <2>1, <2>2
<1> DEFINE T == {n \in Nat : Pow2[n] \in Nat /\ Pow2[n] > n}
<1>5. Nat \subseteq T
  <2>1. 0 \in T BY <1>4
  <2>2. ASSUME NEW n \in Nat, n \in T PROVE n + 1 \in T
    <3>1. (n + 1) - 1 = n /\ n + 1 # 0 /\ n + 1 \in Nat OBVIOUS
    <3>2. Pow2[n + 1] = 2 * Pow2[n] BY <1>4, <3>1
    <3> QED BY <3>2, <2>2
  <2> HIDE DEF T
  <2> QED BY <2>1, <2>2, NatsAll
<1> QED BY <1>4, <1>5

LEMMA CeilLog2Is ==
  ASSUME NEW n \in Nat
  PROVE  CeilLog2(n) \in Nat /\ Pow2[CeilLog2(n)] \in Nat /\ Pow2[CeilLog2(n)] >= n
<1> DEFINE T == {i \in Nat : Pow2[i] >= n}
<1>1. n \in T BY Pow2Is
<1>2. PICK i \in T : \A j \in T : ~(j < i)
  <2>1. T \subseteq Nat /\ T # {} BY <1>1
  <2> HIDE DEF T
  <2> QED BY <2>1, LeastNat
<1>3. i \in 0..n BY <1>1, <1>2
<1>4. \A j \in 0..(i - 1) : Pow2[j] < n BY <1>2, Pow2Is
<1>5. Pow2[i] >= n BY <1>2
<1> HIDE DEF T
<1>6. CeilLog2(n) \in 0..n /\ Pow2[CeilLog2(n)] >= n BY <1>3, <1>4, <1>5 DEF CeilLog2
<1> QED BY <1>6, Pow2Is

LEMMA MinIs ==
  ASSUME NEW S, S \subseteq Nat, S # {}
  PROVE  Min(S) \in S /\ \A x \in S : Min(S) <= x
<1>1. PICK n \in S : \A m \in S : ~(m < n) BY LeastNat
<1>2. \A m \in S : n <= m BY <1>1
<1> QED BY <1>2 DEF Min

LEMMA MaxIs ==
  ASSUME NEW m \in Nat, NEW S, S \subseteq 0..m, S # {}
  PROVE  Max(S) \in S /\ \A x \in S : x <= Max(S)
<1> DEFINE T == {m - x : x \in S}
<1>1. PICK n \in T : \A y \in T : ~(y < n)
  <2>1. \A x \in S : x \in 0..m OBVIOUS
  <2>2. \A x \in S : m - x \in Nat BY <2>1
  <2>3. T \subseteq Nat /\ T # {} BY <2>2
  <2> HIDE DEF T
  <2> QED BY <2>3, LeastNat
<1>2. PICK z \in S : n = m - z BY <1>1
<1>3. ASSUME NEW x \in S PROVE z >= x
  <2>1. m - x \in T /\ ~(m - x < m - z) BY <1>1, <1>2
  <2> QED BY <2>1
<1> HIDE DEF T
<1> QED BY <1>3 DEF Max
-----------------------------------------------------------------------------
(* The chains of a table.                                                  *)

Nodes(t) == 0..(t.sizenode - 1)
Linked(t) ==
  /\ t.sizenode \in Nat \ {0}
  /\ \A j \in Nodes(t) : t.node[j].next = -1 \/ t.node[j].next \in Nodes(t)
\* S has the successors of its nodes, and On the nodes from i on.
Ahead(t, S) == \A j \in S : t.node[j].next # -1 => t.node[j].next \in S
On(t, i) == {j \in Nodes(t) : \A S \in SUBSET Nodes(t) : i \in S /\ Ahead(t, S) => j \in S}
Acyclic(t) == \A i \in Nodes(t) : t.node[i].next # -1 => i \notin On(t, t.node[i].next)
LinkOnce(t) ==
  \A i, j \in Nodes(t) : t.node[i].next # -1 /\ t.node[i].next = t.node[j].next => i = j

LEMMA OnIs ==
  ASSUME NEW t, Linked(t), NEW i \in Nodes(t)
  PROVE  /\ i \in On(t, i) /\ On(t, i) \subseteq Nodes(t) /\ Ahead(t, On(t, i))
         /\ \A S \in SUBSET Nodes(t) : i \in S /\ Ahead(t, S) => On(t, i) \subseteq S
<1>1. i \in On(t, i) BY DEF On
<1>2. On(t, i) \subseteq Nodes(t) BY DEF On
<1>3. ASSUME NEW j \in On(t, i), t.node[j].next # -1 PROVE t.node[j].next \in On(t, i)
  <2>1. j \in Nodes(t) /\ t.node[j].next \in Nodes(t) BY <1>2, <1>3 DEF Linked
  <2>2. ASSUME NEW S \in SUBSET Nodes(t), i \in S, Ahead(t, S) PROVE t.node[j].next \in S
    <3>1. j \in S BY <2>2 DEF On
    <3> QED BY <3>1, <2>2, <1>3 DEF Ahead
  <2> QED BY <2>1, <2>2 DEF On
<1>4. \A S \in SUBSET Nodes(t) : i \in S /\ Ahead(t, S) => On(t, i) \subseteq S BY DEF On
<1> QED BY <1>1, <1>2, <1>3, <1>4 DEF Ahead

LEMMA OnIn ==
  ASSUME NEW t, Linked(t), NEW i \in Nodes(t), NEW j \in On(t, i)
  PROVE  j \in Nodes(t) /\ On(t, j) \subseteq On(t, i)
<1>1. /\ On(t, i) \subseteq Nodes(t) /\ Ahead(t, On(t, i)) BY OnIs
<1>2. j \in Nodes(t) /\ On(t, i) \in SUBSET Nodes(t) BY <1>1
<1> QED BY <1>1, <1>2, OnIs

LEMMA OnStep ==
  ASSUME NEW t, Linked(t), NEW i \in Nodes(t)
  PROVE  On(t, i) = {i} \cup (IF t.node[i].next = -1 THEN {} ELSE On(t, t.node[i].next))
<1> DEFINE n == t.node[i].next
           S == {i} \cup (IF n = -1 THEN {} ELSE On(t, n))
<1>0. /\ i \in On(t, i) /\ On(t, i) \subseteq Nodes(t) /\ Ahead(t, On(t, i)) BY OnIs
<1>1. n # -1 => n \in Nodes(t) /\ n \in On(t, i) BY <1>0 DEF Linked, Ahead
<1>2. n # -1 => On(t, n) \subseteq On(t, i) BY <1>1, OnIn
<1>3. S \subseteq On(t, i) BY <1>0, <1>2
<1>4. n # -1 => n \in On(t, n) /\ On(t, n) \subseteq Nodes(t) /\ Ahead(t, On(t, n))
  BY <1>1, OnIs
<1>5. S \in SUBSET Nodes(t) BY <1>4
<1>6. Ahead(t, S) BY <1>4 DEF Ahead
<1>7. i \in S OBVIOUS
<1> HIDE DEF S
<1>8. On(t, i) \subseteq S BY <1>5, <1>6, <1>7, OnIs
<1>9. On(t, i) = S BY <1>3, <1>8
<1> QED BY <1>9 DEF S

\* A node that is not the first one has one in front of it.
LEMMA OnBefore ==
  ASSUME NEW t, Linked(t), NEW i \in Nodes(t), NEW j \in On(t, i), j # i
  PROVE  \E p \in On(t, i) : t.node[p].next = j
<1> SUFFICES ASSUME \A p \in On(t, i) : t.node[p].next # j PROVE FALSE
  OBVIOUS
<1> DEFINE S == On(t, i) \ {j}
<1>1. /\ i \in On(t, i) /\ On(t, i) \subseteq Nodes(t) /\ Ahead(t, On(t, i)) BY OnIs
<1>2. S \in SUBSET Nodes(t) /\ i \in S BY <1>1
<1>3. Ahead(t, S) BY <1>1 DEF Ahead
<1> HIDE DEF S
<1>4. On(t, i) \subseteq S BY <1>2, <1>3, OnIs
<1> QED BY <1>4 DEF S

LEMMA OnOrder ==
  ASSUME NEW t, Linked(t), Acyclic(t), NEW i \in Nodes(t), NEW j \in On(t, i), i \in On(t, j)
  PROVE  i = j
<1> SUFFICES ASSUME i # j PROVE FALSE
  OBVIOUS
<1> DEFINE n == t.node[i].next
<1>1. n # -1 /\ j \in On(t, n) BY OnStep
<1>2. n \in Nodes(t) BY <1>1 DEF Linked
<1>3. On(t, j) \subseteq On(t, n) BY <1>1, <1>2, OnIn
<1> QED BY <1>1, <1>3 DEF Acyclic

LEMMA OnFinite ==
  ASSUME NEW t, Linked(t), NEW i \in Nodes(t)
  PROVE  IsFiniteSet(On(t, i)) /\ Cardinality(On(t, i)) \in Nat
<1>1. IsFiniteSet(Nodes(t)) BY FS_Interval DEF Nodes, Linked
<1>2. On(t, i) \subseteq Nodes(t) BY OnIs
<1>3. IsFiniteSet(On(t, i)) BY <1>1, <1>2, FS_Subset
<1> QED BY <1>3, FS_CardinalityType

\* The recursive definition gives these sets.
LEMMA ChainIs ==
  ASSUME NEW t, Linked(t), Acyclic(t), NEW i \in Nodes(t)
  PROVE  Chain(t, i) = On(t, i)
<1> DEFINE P(k) == k = [j \in 0..(t.sizenode - 1) |->
                          {j} \cup (IF t.node[j].next = -1 THEN {} ELSE k[t.node[j].next])]
           w == [j \in 0..(t.sizenode - 1) |-> On(t, j)]
           c == CHOOSE k : P(k)
<1>1. P(w)
  <2>1. ASSUME NEW j \in 0..(t.sizenode - 1)
        PROVE  w[j] = {j} \cup (IF t.node[j].next = -1 THEN {} ELSE w[t.node[j].next])
    <3>1. j \in Nodes(t) BY DEF Nodes
    <3>2. t.node[j].next # -1 => t.node[j].next \in 0..(t.sizenode - 1) BY <3>1 DEF Linked, Nodes
    <3> QED BY <3>1, <3>2, OnStep
  <2> QED BY <2>1
<1>2. P(c) BY <1>1
<1>3. Chain(t, i) = c[i] BY DEF Chain
<1>4. \A j \in Nodes(t) :
        c[j] = {j} \cup (IF t.node[j].next = -1 THEN {} ELSE c[t.node[j].next])
  BY <1>2 DEF Nodes
<1> HIDE DEF c
<1> DEFINE B == {j \in Nodes(t) : c[j] # On(t, j)}
           T == {Cardinality(On(t, j)) : j \in B}
<1>5. B = {}
  <2> SUFFICES ASSUME B # {} PROVE FALSE
    OBVIOUS
  <2>1. T \subseteq Nat /\ T # {} BY OnFinite
  <2>2. PICK n \in T : \A m \in T : ~(m < n)
    <3> HIDE DEF T
    <3> QED BY <2>1, LeastNat
  <2>3. PICK j \in B : n = Cardinality(On(t, j)) BY <2>2
  <2> DEFINE q == t.node[j].next
  <2>4. j \in Nodes(t) /\ c[j] # On(t, j) BY <2>3
  <2>5. On(t, j) = {j} \cup (IF q = -1 THEN {} ELSE On(t, q)) BY <2>4, OnStep
  <2>6. q # -1 /\ q \in Nodes(t) /\ c[q] # On(t, q) BY <2>4, <2>5, <1>4 DEF Linked
  <2>7. q \in B /\ On(t, q) \subseteq On(t, j) /\ j \in On(t, j) /\ j \notin On(t, q)
    BY <2>4, <2>5, <2>6 DEF Acyclic
  <2>8. IsFiniteSet(On(t, j)) BY <2>4, OnFinite
  <2> HIDE DEF B
  <2>9. Cardinality(On(t, q)) < Cardinality(On(t, j))
    <3>1. On(t, q) # On(t, j) BY <2>7
    <3>2. Cardinality(On(t, q)) \in Nat /\ Cardinality(On(t, j)) \in Nat
      BY <2>4, <2>6, OnFinite
    <3>3. Cardinality(On(t, q)) <= Cardinality(On(t, j))
          /\ Cardinality(On(t, j)) # Cardinality(On(t, q))
      BY <3>1, <2>7, <2>8, FS_Subset
    <3> HIDE DEF q
    <3> QED BY <3>2, <3>3
  <2>10. Cardinality(On(t, q)) \in T BY <2>7
  <2> HIDE DEF T, q
  <2> QED BY <2>2, <2>3, <2>9, <2>10
<1> QED BY <1>3, <1>5
-----------------------------------------------------------------------------
(* What newkey makes of the chains.  u is t with other links.              *)

LEMMA OnSame ==
  ASSUME NEW t, NEW u, u.sizenode = t.sizenode,
         \A j \in Nodes(t) : u.node[j].next = t.node[j].next,
         NEW i
  PROVE  On(u, i) = On(t, i)
<1>1. Nodes(u) = Nodes(t) BY DEF Nodes
<1>2. \A S \in SUBSET Nodes(t) : Ahead(u, S) <=> Ahead(t, S) BY DEF Ahead
<1> QED BY <1>1, <1>2 DEF On

LEMMA LinksSame ==
  ASSUME NEW t, NEW u, u.sizenode = t.sizenode,
         \A j \in Nodes(t) : u.node[j].next = t.node[j].next
  PROVE  /\ Linked(t) => Linked(u)
         /\ LinkOnce(t) => LinkOnce(u)
         /\ Acyclic(t) => Acyclic(u)
<1>1. Nodes(u) = Nodes(t) BY DEF Nodes
<1>2. \A i : On(u, i) = On(t, i) BY OnSame
<1> QED BY <1>1, <1>2 DEF Linked, LinkOnce, Acyclic

\* Node n, which was free, follows mp.
Chains(t, u, mp, n) ==
  /\ u.sizenode = t.sizenode
  /\ \A j \in Nodes(t) : u.node[j].next = IF j = mp THEN n
                                          ELSE IF j = n THEN t.node[mp].next
                                          ELSE t.node[j].next

\* n has taken the place of mp, behind p.
Moves(t, u, p, mp, n) ==
  /\ u.sizenode = t.sizenode
  /\ \A j \in Nodes(t) : u.node[j].next = IF j = p THEN n
                                          ELSE IF j = n THEN t.node[mp].next
                                          ELSE IF j = mp THEN -1
                                          ELSE t.node[j].next

\* n is in no chain.
Unlinked(t, n) ==
  /\ n \in Nodes(t)
  /\ t.node[n].next = -1
  /\ \A j \in Nodes(t) : t.node[j].next # n

LEMMA OffChain ==
  ASSUME NEW t, Linked(t), NEW n, Unlinked(t, n), NEW i \in Nodes(t), i # n
  PROVE  n \notin On(t, i)
<1> SUFFICES ASSUME n \in On(t, i) PROVE FALSE
  OBVIOUS
<1>1. PICK p \in On(t, i) : t.node[p].next = n BY OnBefore
<1>2. p \in Nodes(t) BY OnIs
<1> QED BY <1>1, <1>2 DEF Unlinked

LEMMA ChainsOn ==
  ASSUME NEW t, Linked(t), Acyclic(t), NEW n, Unlinked(t, n), NEW mp \in Nodes(t), mp # n,
         NEW u, Chains(t, u, mp, n)
  PROVE  /\ Linked(u)
         /\ \A i \in Nodes(t) \ {n} :
              /\ On(t, i) \subseteq On(u, i)
              /\ On(u, i) \subseteq On(t, i) \cup {n}
              /\ mp \notin On(t, i) => On(u, i) \subseteq On(t, i)
         /\ n \in On(u, mp)
         /\ On(t, mp) \subseteq On(u, n) \cup {mp}
<1> DEFINE q == t.node[mp].next
<1>0. Nodes(u) = Nodes(t) /\ n \in Nodes(t) BY DEF Nodes, Chains, Unlinked
<1>1. Linked(u) BY <1>0 DEF Linked, Chains
<1>2. /\ u.node[mp].next = n /\ u.node[n].next = q
      /\ \A j \in Nodes(t) \ {mp, n} : u.node[j].next = t.node[j].next
  BY <1>0 DEF Chains
<1>n. n # -1 BY <1>0 DEF Nodes, Linked
<1>3. q # n /\ \A j \in Nodes(t) : t.node[j].next # n BY DEF Unlinked
<1>4. ASSUME NEW i \in Nodes(t) \ {n} PROVE On(t, i) \subseteq On(u, i)
  <2> DEFINE S == On(u, i) \ {n}
  <2>1. /\ i \in On(u, i) /\ On(u, i) \subseteq Nodes(u) /\ Ahead(u, On(u, i))
    BY <1>0, <1>1, OnIs
  <2>2. S \in SUBSET Nodes(t) /\ i \in S BY <2>1, <1>0
  <2>3. ASSUME NEW j \in S, t.node[j].next # -1 PROVE t.node[j].next \in S
    <3>1. CASE j = mp
      <4>1. n \in On(u, i) BY <3>1, <2>1, <1>2, <1>n DEF Ahead
      <4>2. q \in On(u, i) BY <4>1, <2>1, <1>2, <2>3, <3>1 DEF Ahead
      <4> QED BY <4>2, <1>3, <3>1
    <3>2. CASE j # mp
      <4>1. u.node[j].next = t.node[j].next BY <3>2, <2>2, <1>2
      <4> QED BY <4>1, <2>1, <2>2, <2>3, <1>3 DEF Ahead
    <3> QED BY <3>1, <3>2
  <2>4. Ahead(t, S) BY <2>3 DEF Ahead
  <2> HIDE DEF S
  <2>5. On(t, i) \subseteq S BY <2>2, <2>4, OnIs
  <2> QED BY <2>5 DEF S
<1>5. ASSUME NEW i \in Nodes(t) \ {n} PROVE On(u, i) \subseteq On(t, i) \cup {n}
  <2> DEFINE S == On(t, i) \cup {n}
  <2>1. /\ i \in On(t, i) /\ On(t, i) \subseteq Nodes(t) /\ Ahead(t, On(t, i)) BY OnIs
  <2>2. CASE mp \in On(t, i)
    <3>1. S \in SUBSET Nodes(u) /\ i \in S BY <2>1, <1>0
    <3>2. Ahead(u, S) BY <2>1, <2>2, <1>2, <1>0 DEF Ahead
    <3> HIDE DEF S
    <3>3. On(u, i) \subseteq S BY <3>1, <3>2, <1>0, <1>1, OnIs
    <3> QED BY <3>3 DEF S
  <2>3. CASE mp \notin On(t, i)
    <3>1. n \notin On(t, i) BY OffChain
    <3>2. On(t, i) \in SUBSET Nodes(u) BY <2>1, <1>0
    <3>3. Ahead(u, On(t, i)) BY <2>1, <2>3, <3>1, <1>2 DEF Ahead
    <3> QED BY <3>2, <3>3, <2>1, <1>0, <1>1, OnIs
  <2> QED BY <2>2, <2>3
<1>6. ASSUME NEW i \in Nodes(t) \ {n}, mp \notin On(t, i) PROVE On(u, i) \subseteq On(t, i)
  <2>1. /\ i \in On(t, i) /\ On(t, i) \subseteq Nodes(t) /\ Ahead(t, On(t, i)) BY OnIs
  <2>2. n \notin On(t, i) BY OffChain
  <2>3. On(t, i) \in SUBSET Nodes(u) BY <2>1, <1>0
  <2>4. Ahead(u, On(t, i)) BY <2>1, <2>2, <1>6, <1>2 DEF Ahead
  <2> QED BY <2>3, <2>4, <2>1, <1>0, <1>1, OnIs
<1>7. n \in On(u, mp)
  <2>1. mp \in On(u, mp) /\ Ahead(u, On(u, mp)) BY <1>0, <1>1, OnIs
  <2> QED BY <2>1, <1>2, <1>n DEF Ahead
<1>8. On(t, mp) \subseteq On(u, n) \cup {mp}
  <2> DEFINE S == (On(u, n) \ {n}) \cup {mp}
  <2>1. /\ n \in On(u, n) /\ On(u, n) \subseteq Nodes(u) /\ Ahead(u, On(u, n))
    BY <1>0, <1>1, OnIs
  <2>2. S \in SUBSET Nodes(t) /\ mp \in S BY <2>1, <1>0
  <2>3. ASSUME NEW j \in S, t.node[j].next # -1 PROVE t.node[j].next \in S
    <3>1. CASE j = mp
      <4>1. q \in On(u, n) BY <2>1, <1>2, <2>3, <3>1 DEF Ahead
      <4> QED BY <4>1, <1>3, <3>1
    <3>2. CASE j # mp
      <4>1. j \in On(u, n) /\ j # n /\ u.node[j].next = t.node[j].next BY <3>2, <2>2, <1>2
      <4> QED BY <4>1, <2>1, <2>2, <2>3, <1>3 DEF Ahead
    <3> QED BY <3>1, <3>2
  <2>4. Ahead(t, S) BY <2>3 DEF Ahead
  <2> HIDE DEF S
  <2>5. On(t, mp) \subseteq S BY <2>2, <2>4, OnIs
  <2> QED BY <2>5 DEF S
<1> QED BY <1>1, <1>4, <1>5, <1>6, <1>7, <1>8

LEMMA ChainsKeep ==
  ASSUME NEW t, Linked(t), Acyclic(t), LinkOnce(t), NEW n, Unlinked(t, n),
         NEW mp \in Nodes(t), mp # n, NEW u, Chains(t, u, mp, n)
  PROVE  Linked(u) /\ Acyclic(u) /\ LinkOnce(u)
<1> DEFINE q == t.node[mp].next
<1>0. Nodes(u) = Nodes(t) /\ n \in Nodes(t) /\ n # -1 BY DEF Nodes, Chains, Unlinked, Linked
<1>1. Linked(u) BY ChainsOn
<1>2. /\ u.node[mp].next = n /\ u.node[n].next = q
      /\ \A j \in Nodes(t) \ {mp, n} : u.node[j].next = t.node[j].next
  BY <1>0 DEF Chains
<1>3. /\ \A j \in Nodes(t) : t.node[j].next # n
      /\ \A i \in Nodes(t) : t.node[i].next = -1 \/ t.node[i].next \in Nodes(t) \ {n}
  BY DEF Unlinked, Linked
<1>4. LinkOnce(u) BY <1>0, <1>2, <1>3 DEF LinkOnce
<1>5. ASSUME NEW i \in Nodes(t), u.node[i].next # -1 PROVE i \notin On(u, u.node[i].next)
  <2>1. CASE i = n
    <3>1. q \in Nodes(t) \ {n} BY <2>1, <1>5, <1>2, <1>3
    <3>2. mp \notin On(t, q) BY <3>1, <1>3, <1>0, <1>2, <1>5, <2>1 DEF Acyclic
    <3>3. On(u, q) \subseteq On(t, q) BY <3>1, <3>2, ChainsOn
    <3>4. n \notin On(t, q) BY <3>1, OffChain
    <3> QED BY <3>3, <3>4, <1>2, <2>1
  <2>2. CASE i = mp
    <3>1. On(u, n) = {n} \cup (IF q = -1 THEN {} ELSE On(u, q))
      BY <1>0, <1>1, <1>2, OnStep
    <3>2. q # -1 => q \in Nodes(t) \ {n} /\ mp \notin On(t, q) BY <1>3 DEF Acyclic
    <3>3. q # -1 => On(u, q) \subseteq On(t, q) BY <3>2, ChainsOn
    <3> QED BY <3>1, <3>2, <3>3, <1>2, <2>2
  <2>3. CASE i # n /\ i # mp
    <3>1. u.node[i].next = t.node[i].next BY <2>3, <1>2
    <3>2. t.node[i].next \in Nodes(t) \ {n} BY <3>1, <1>5, <1>3
    <3>3. On(u, t.node[i].next) \subseteq On(t, t.node[i].next) \cup {n} BY <3>2, ChainsOn
    <3> QED BY <3>1, <3>2, <3>3, <2>3, <1>5 DEF Acyclic
  <2> QED BY <2>1, <2>2, <2>3
<1>6. Acyclic(u) BY <1>0, <1>5 DEF Acyclic
<1> QED BY <1>1, <1>4, <1>6

LEMMA MovesOn ==
  ASSUME NEW t, Linked(t), Acyclic(t), LinkOnce(t), NEW n, Unlinked(t, n),
         NEW mp \in Nodes(t), mp # n, NEW p \in Nodes(t), t.node[p].next = mp,
         NEW u, Moves(t, u, p, mp, n)
  PROVE  /\ Linked(u)
         /\ \A i \in Nodes(t) \ {n, mp} :
              /\ On(t, i) \ {mp} \subseteq On(u, i)
              /\ mp \in On(t, i) => n \in On(u, i)
              /\ On(u, i) \subseteq On(t, i) \cup {n}
              /\ mp \notin On(t, i) => On(u, i) \subseteq On(t, i)
         /\ On(t, mp) \subseteq On(u, n) \cup {mp}
<1> DEFINE q == t.node[mp].next
<1>0. Nodes(u) = Nodes(t) /\ n \in Nodes(t) /\ n # -1 /\ mp # -1
  BY DEF Nodes, Moves, Unlinked, Linked
<1>1. Linked(u) BY <1>0 DEF Linked, Moves
<1>2. p # n /\ p # mp
  <2>1. p # n BY <1>0 DEF Unlinked
  <2>2. mp \in On(t, mp) BY OnIs
  <2>3. p # mp BY <2>2, <1>0 DEF Acyclic
  <2> QED BY <2>1, <2>3
<1>3. /\ u.node[p].next = n /\ u.node[n].next = q /\ u.node[mp].next = -1
      /\ \A j \in Nodes(t) \ {mp, n, p} : u.node[j].next = t.node[j].next
  BY <1>0, <1>2 DEF Moves
<1>4. /\ \A j \in Nodes(t) : t.node[j].next # n
      /\ \A j \in Nodes(t) \ {p} : t.node[j].next # mp
      /\ q # mp
  <2>1. \A j \in Nodes(t) \ {p} : t.node[j].next # mp BY <1>0 DEF LinkOnce
  <2> QED BY <2>1, <1>2 DEF Unlinked
<1>5. ASSUME NEW i \in Nodes(t) \ {n, mp}
      PROVE  On(t, i) \ {mp} \subseteq On(u, i) /\ (mp \in On(t, i) => n \in On(u, i))
  <2> DEFINE S == (On(u, i) \ {n, mp}) \cup (IF n \in On(u, i) THEN {mp} ELSE {})
  <2>1. /\ i \in On(u, i) /\ On(u, i) \subseteq Nodes(u) /\ Ahead(u, On(u, i))
    BY <1>0, <1>1, OnIs
  <2>2. S \in SUBSET Nodes(t) /\ i \in S BY <2>1, <1>0
  <2>3. ASSUME NEW j \in S, t.node[j].next # -1 PROVE t.node[j].next \in S
    <3>1. CASE j = mp
      <4>1. n \in On(u, i) BY <3>1, <2>2
      <4>2. q \in On(u, i) BY <4>1, <2>1, <1>3, <2>3, <3>1 DEF Ahead
      <4> QED BY <4>2, <1>4, <3>1
    <3>2. CASE j = p
      <4>1. n \in On(u, i) BY <3>2, <2>1, <1>2, <1>3, <1>0 DEF Ahead
      <4> QED BY <4>1, <3>2
    <3>3. CASE j # mp /\ j # p
      <4>1. j # n /\ j \in On(u, i) BY <3>3
      <4>2. u.node[j].next = t.node[j].next BY <3>3, <4>1, <2>2, <1>3
      <4>3. t.node[j].next \in On(u, i) BY <4>1, <4>2, <2>1, <2>3 DEF Ahead
      <4>4. t.node[j].next # n /\ t.node[j].next # mp BY <2>2, <3>3, <1>4
      <4> QED BY <4>3, <4>4
    <3> QED BY <3>1, <3>2, <3>3
  <2>4. Ahead(t, S) BY <2>3 DEF Ahead
  <2> HIDE DEF S
  <2>5. On(t, i) \subseteq S BY <2>2, <2>4, OnIs
  <2> QED BY <2>5 DEF S
<1>6. ASSUME NEW i \in Nodes(t) \ {n, mp}, mp \notin On(t, i) PROVE On(u, i) \subseteq On(t, i)
  <2>1. /\ i \in On(t, i) /\ On(t, i) \subseteq Nodes(t) /\ Ahead(t, On(t, i)) BY OnIs
  <2>2. n \notin On(t, i) BY OffChain
  <2>3. p \notin On(t, i) BY <2>1, <1>6, <1>0 DEF Ahead
  <2>4. Ahead(u, On(t, i)) BY <2>1, <2>2, <2>3, <1>6, <1>3 DEF Ahead
  <2>5. On(t, i) \in SUBSET Nodes(u) BY <2>1, <1>0
  <2> QED BY <2>4, <2>5, <2>1, <1>0, <1>1, OnIs
<1>7. ASSUME NEW i \in Nodes(t) \ {n, mp} PROVE On(u, i) \subseteq On(t, i) \cup {n}
  <2> DEFINE S == On(t, i) \cup {n}
  <2>1. /\ i \in On(t, i) /\ On(t, i) \subseteq Nodes(t) /\ Ahead(t, On(t, i)) BY OnIs
  <2>2. CASE mp \in On(t, i)
    <3>1. S \in SUBSET Nodes(u) /\ i \in S BY <2>1, <1>0
    <3>2. q # -1 => q \in On(t, i) BY <2>1, <2>2 DEF Ahead
    <3>3. Ahead(u, S) BY <2>1, <3>2, <1>3, <1>0 DEF Ahead
    <3> HIDE DEF S
    <3>4. On(u, i) \subseteq S BY <3>1, <3>3, <1>0, <1>1, OnIs
    <3> QED BY <3>4 DEF S
  <2>3. CASE mp \notin On(t, i) BY <2>3, <1>6
  <2> QED BY <2>2, <2>3
<1>8. On(t, mp) \subseteq On(u, n) \cup {mp}
  <2>1. On(t, mp) = {mp} \cup (IF q = -1 THEN {} ELSE On(t, q)) BY OnStep
  <2>2. On(u, n) = {n} \cup (IF q = -1 THEN {} ELSE On(u, q)) BY <1>0, <1>1, <1>3, OnStep
  <2>3. q # -1 => q \in Nodes(t) \ {n, mp} BY <1>4 DEF Linked
  <2>4. q # -1 => On(t, q) \ {mp} \subseteq On(u, q) BY <2>3, <1>5
  <2> QED BY <2>1, <2>2, <2>4
<1> QED BY <1>1, <1>5, <1>6, <1>7, <1>8

LEMMA MovesKeep ==
  ASSUME NEW t, Linked(t), Acyclic(t), LinkOnce(t), NEW n, Unlinked(t, n),
         NEW mp \in Nodes(t), mp # n, NEW p \in Nodes(t), t.node[p].next = mp,
         NEW u, Moves(t, u, p, mp, n)
  PROVE  Linked(u) /\ Acyclic(u) /\ LinkOnce(u)
<1> DEFINE q == t.node[mp].next
<1>0. Nodes(u) = Nodes(t) /\ n \in Nodes(t) /\ n # -1 /\ mp # -1
  BY DEF Nodes, Moves, Unlinked, Linked
<1>1. Linked(u) BY MovesOn
<1>2. p # n /\ p # mp
  <2>1. p # n BY <1>0 DEF Unlinked
  <2>2. mp \in On(t, mp) BY OnIs
  <2>3. p # mp BY <2>2, <1>0 DEF Acyclic
  <2> QED BY <2>1, <2>3
<1>3. /\ u.node[p].next = n /\ u.node[n].next = q /\ u.node[mp].next = -1
      /\ \A j \in Nodes(t) \ {mp, n, p} : u.node[j].next = t.node[j].next
  BY <1>0, <1>2 DEF Moves
<1>4. /\ \A j \in Nodes(t) : t.node[j].next # n
      /\ \A j \in Nodes(t) \ {p} : t.node[j].next # mp
      /\ q # mp
      /\ \A i \in Nodes(t) : t.node[i].next = -1 \/ t.node[i].next \in Nodes(t) \ {n}
  <2>1. \A j \in Nodes(t) \ {p} : t.node[j].next # mp BY <1>0 DEF LinkOnce
  <2> QED BY <2>1, <1>2 DEF Unlinked, Linked
<1>5. LinkOnce(u) BY <1>0, <1>2, <1>3, <1>4 DEF LinkOnce
<1>6. q # -1 => q \in Nodes(t) \ {n, mp} /\ mp \notin On(t, q) BY <1>4 DEF Acyclic
<1>7. q # -1 => On(u, q) \subseteq On(t, q) BY <1>6, MovesOn
<1>8. ASSUME NEW i \in Nodes(t), u.node[i].next # -1 PROVE i \notin On(u, u.node[i].next)
  <2>1. CASE i = n
    <3>1. q # -1 BY <2>1, <1>8, <1>3
    <3>2. n \notin On(t, q) BY <3>1, <1>6, OffChain
    <3> QED BY <3>1, <3>2, <1>7, <1>3, <2>1
  <2>2. CASE i = p
    <3>1. On(u, n) = {n} \cup (IF q = -1 THEN {} ELSE On(u, q))
      BY <1>0, <1>1, <1>3, OnStep
    <3>2. ASSUME q # -1, p \in On(t, q) PROVE FALSE
      <4>1. Ahead(t, On(t, q)) BY <3>2, <1>6, OnIs
      <4> QED BY <4>1, <3>2, <1>6, <1>0 DEF Ahead
    <3> QED BY <3>1, <3>2, <1>7, <1>2, <1>3, <2>2
  <2>3. CASE i # n /\ i # p
    <3>1. i # mp BY <1>8, <1>3
    <3>2. u.node[i].next = t.node[i].next BY <2>3, <3>1, <1>3
    <3>3. t.node[i].next \in Nodes(t) \ {n, mp} BY <3>2, <1>8, <1>4, <2>3
    <3>4. On(u, t.node[i].next) \subseteq On(t, t.node[i].next) \cup {n} BY <3>3, MovesOn
    <3> QED BY <3>2, <3>3, <3>4, <2>3, <1>8 DEF Acyclic
  <2> QED BY <2>1, <2>2, <2>3
<1>9. Acyclic(u) BY <1>0, <1>8 DEF Acyclic
<1> QED BY <1>1, <1>5, <1>9
-----------------------------------------------------------------------------
(* The invariant of a table, and what is found in it.                      *)

NodeType(t) == [key : Keys \cup {0}, val : Keys \cup {0}, next : {-1} \cup Nodes(t), dead : BOOLEAN]
IsTable(t) ==
  t = [arr |-> t.arr, sizearray |-> t.sizearray, node |-> t.node, sizenode |-> t.sizenode,
       dummy |-> t.dummy, lastfree |-> t.lastfree]
TType(t) ==
  /\ IsTable(t)
  /\ t.sizearray \in Nat
  /\ t.arr = [i \in 1..t.sizearray |-> t.arr[i]]
  /\ t.sizenode \in Nat \ {0}
  /\ t.node \in [Nodes(t) -> NodeType(t)]
  /\ t.dummy \in BOOLEAN
ArrOk(t) ==
  \A i \in 1..t.sizearray : t.arr[i] \in {0, i} /\ (t.arr[i] = i => i \in Keys)
NodeOk(t) ==
  \A i \in Nodes(t) :
    /\ t.node[i].val \in {0, t.node[i].key}
    /\ t.node[i].dead => t.node[i].val = 0
    /\ t.node[i].key = 0 => t.node[i].next = -1 /\ ~t.node[i].dead
    /\ t.node[i].key \notin 1..t.sizearray
    /\ t.node[i].next # -1 => t.node[t.node[i].next].key # 0
\* A key is in the chain of its main position, which a key has that belongs there.
Homed(t) ==
  \A i \in Nodes(t) : t.node[i].key # 0 =>
    LET h == MainPosition(t, t.node[i].key)
    IN  /\ t.node[h].key # 0 /\ MainPosition(t, t.node[h].key) = h
        /\ i \in On(t, h)
\* No key is twice in the table but for dead ones, which come later in its chain.
KeyOnce(t) ==
  \A i, j \in Nodes(t) :
    /\ t.node[i].key # 0 /\ t.node[i].key = t.node[j].key
    /\ ~t.node[i].dead
    => IF t.node[j].dead THEN j \in On(t, i) ELSE i = j
FreeOk(t) ==
  IF t.dummy THEN t.lastfree = 0 /\ t.sizenode = 1 /\ t.node[0].key = 0
  ELSE t.lastfree \in 0..t.sizenode /\ \A i \in Nodes(t) : i >= t.lastfree => t.node[i].key # 0
Good(t) ==
  /\ TType(t) /\ ArrOk(t) /\ NodeOk(t) /\ LinkOnce(t) /\ Acyclic(t) /\ Homed(t)
  /\ KeyOnce(t) /\ FreeOk(t)

\* k is in the table.
Holds(t, k) ==
  \/ k \in 1..t.sizearray /\ t.arr[k] = k
  \/ \E i \in Nodes(t) : t.node[i].val = k

LEMMA KeysIs == /\ Keys \subseteq Int /\ 0 \notin Keys /\ IsFiniteSet(Keys) /\ -1 \in Int
                /\ IsFiniteSet(Ints) /\ Ints \subseteq Nat
                /\ \A k \in Keys : k > 0 => k \in Ints
<1>1. IsFiniteSet(Keys) BY TableConstants, FS_Union, Zenon DEF Keys
<1>2. (\A k \in Ints : k \in Nat /\ k > 0) /\ (\A k \in Others : k \in Int /\ k < 0)
  BY TableConstants
<1>3. IsFiniteSet(Ints) BY TableConstants
<1> QED BY <1>1, <1>2, <1>3 DEF Keys

LEMMA TypeIs ==
  ASSUME NEW t, TType(t)
  PROVE  /\ Linked(t) /\ 0 \in Nodes(t) /\ -1 \notin Nodes(t) /\ Nodes(t) \subseteq Int
         /\ \A i \in Nodes(t) :
              /\ t.node[i] = [key |-> t.node[i].key, val |-> t.node[i].val,
                              next |-> t.node[i].next, dead |-> t.node[i].dead]
              /\ t.node[i].key \in Keys \cup {0} /\ t.node[i].val \in Keys \cup {0}
              /\ t.node[i].dead \in BOOLEAN
              /\ t.node[i].next \in {-1} \cup Nodes(t)
<1>1. \A i \in Nodes(t) : t.node[i] \in NodeType(t) BY DEF TType
<1>2. \A i \in Nodes(t) :
        /\ t.node[i] = [key |-> t.node[i].key, val |-> t.node[i].val,
                        next |-> t.node[i].next, dead |-> t.node[i].dead]
        /\ t.node[i].key \in Keys \cup {0} /\ t.node[i].val \in Keys \cup {0}
        /\ t.node[i].dead \in BOOLEAN
        /\ t.node[i].next \in {-1} \cup Nodes(t)
  BY <1>1 DEF NodeType
<1>3. t.sizenode \in Nat \ {0} BY DEF TType
<1>4. 0 \in Nodes(t) /\ -1 \notin Nodes(t) /\ Nodes(t) \subseteq Int BY <1>3 DEF Nodes
<1> QED BY <1>2, <1>3, <1>4 DEF Linked

LEMMA MainIs ==
  ASSUME NEW t, t.sizenode \in Nat \ {0}, NEW k \in Keys
  PROVE  MainPosition(t, k) \in Nodes(t)
<1> DEFINE n == t.sizenode
<1>1. KeyHash[k] \in Nat BY TableConstants
<1>2. \A a \in Nat, b \in Nat \ {0} : a % b \in 0..(b - 1) OBVIOUS
<1>3. Odd(n - 1) \in 1..n
  <2>0. n - 1 \in Nat /\ 2 \in Nat \ {0} OBVIOUS
  <2>1. (n - 1) % 2 \in 0..(2 - 1) BY <2>0, <1>2
  <2>2. n = 1 => (n - 1) % 2 = 0 OBVIOUS
  <2> QED BY <2>1, <2>2 DEF Odd
<1>4. Odd(n - 1) \in Nat \ {0} /\ Odd(n - 1) <= n BY <1>3
<1>5. KeyHash[k] % n \in 0..(n - 1) BY <1>1, <1>2
<1>6. KeyHash[k] % Odd(n - 1) \in 0..(Odd(n - 1) - 1) BY <1>1, <1>2, <1>4
<1>7. KeyHash[k] % Odd(n - 1) \in 0..(n - 1) BY <1>6, <1>4
<1> QED BY <1>5, <1>7 DEF MainPosition, Nodes

LEMMA MainSame ==
  ASSUME NEW t, NEW u, u.sizenode = t.sizenode
  PROVE  \A k : MainPosition(u, k) = MainPosition(t, k)
  BY DEF MainPosition

\* A key that is not dead is the first of its name in its chain.
LEMMA FirstIs ==
  ASSUME NEW t, Good(t), NEW i \in Nodes(t), NEW k \in Keys, t.node[i].key = k,
         ~t.node[i].dead, NEW dead \in SUBSET BOOLEAN, FALSE \in dead
  PROVE  First(t, k, dead) = i
<1> DEFINE h == MainPosition(t, k)
           found == {j \in Chain(t, h) : t.node[j].key = k /\ t.node[j].dead \in dead}
<1>1. Linked(t) /\ Acyclic(t) /\ h \in Nodes(t) /\ -1 \notin Nodes(t)
  BY TypeIs, MainIs DEF Good, TType
<1>2. Chain(t, h) = On(t, h) /\ Chain(t, i) = On(t, i) /\ On(t, h) \subseteq Nodes(t)
  BY <1>1, ChainIs, OnIs
<1>3. i \in On(t, h) BY KeysIs DEF Good, Homed
<1>4. i \in found BY <1>2, <1>3, TypeIs DEF Good
<1>5. ASSUME NEW j \in found PROVE j \in Chain(t, i)
  <2>1. j \in Nodes(t) /\ t.node[j].key = k BY <1>2
  <2>2. IF t.node[j].dead THEN j \in On(t, i) ELSE i = j BY <2>1, KeysIs DEF Good, KeyOnce
  <2>3. i \in On(t, i) BY <1>1, OnIs
  <2> QED BY <2>2, <2>3, <1>2
<1>6. ASSUME NEW j \in found, found \subseteq Chain(t, j) PROVE j = i
  <2>1. j \in Nodes(t) /\ j \in On(t, i) BY <1>2, <1>5
  <2>2. i \in On(t, j) BY <2>1, <1>4, <1>6, <1>1, ChainIs
  <2> QED BY <2>1, <2>2, <1>1, OnOrder
<1>7. First(t, k, dead) = IF found = {} THEN -1
                          ELSE CHOOSE j \in found : found \subseteq Chain(t, j)
  BY DEF First
<1> HIDE DEF found, h
<1>8. found \subseteq Chain(t, i) BY <1>5
<1> QED BY <1>4, <1>6, <1>7, <1>8

LEMMA FindIs ==
  ASSUME NEW t, Good(t), NEW k \in Keys
  PROVE  \/ FindNode(t, k) = -1 /\ \A i \in Nodes(t) : t.node[i].key = k => t.node[i].dead
         \/ /\ FindNode(t, k) \in Nodes(t) /\ t.node[FindNode(t, k)].key = k
            /\ ~t.node[FindNode(t, k)].dead
            /\ FindNode(t, k) # -1
<1>1. CASE \E i \in Nodes(t) : t.node[i].key = k /\ ~t.node[i].dead
  <2>1. PICK i \in Nodes(t) : t.node[i].key = k /\ ~t.node[i].dead BY <1>1
  <2>2. FindNode(t, k) = i BY <2>1, FirstIs DEF FindNode
  <2> QED BY <2>1, <2>2, TypeIs DEF Good
<1>2. CASE ~\E i \in Nodes(t) : t.node[i].key = k /\ ~t.node[i].dead
  <2> DEFINE h == MainPosition(t, k)
             found == {j \in Chain(t, h) : t.node[j].key = k /\ t.node[j].dead \in {FALSE}}
  <2>1. h \in Nodes(t) /\ Linked(t) /\ Acyclic(t) BY TypeIs, MainIs DEF Good, TType
  <2>2. Chain(t, h) = On(t, h) /\ On(t, h) \subseteq Nodes(t) BY <2>1, ChainIs, OnIs
  <2>3. found = {} BY <2>2, <1>2
  <2>4. FindNode(t, k) = -1 BY <2>3 DEF FindNode, First
  <2> QED BY <2>4, <1>2
<1> QED BY <1>1, <1>2

LEMMA GetIs ==
  ASSUME NEW t, Good(t), NEW k \in Int, k # 0
  PROVE  Get(t, k) = (IF Holds(t, k) THEN k ELSE 0) /\ (Holds(t, k) => k \in Keys)
<1>1. CASE InArray(t, k)
  <2>1. t.arr[k] \in {0, k} /\ (t.arr[k] = k => k \in Keys) BY <1>1 DEF Good, ArrOk, InArray
  <2>2. \A i \in Nodes(t) : t.node[i].val # k BY <1>1 DEF Good, NodeOk, InArray
  <2> QED BY <2>1, <2>2, <1>1 DEF Get, Holds, InArray
<1>2. CASE ~InArray(t, k) /\ k \notin Keys
  <2>1. \A i \in Nodes(t) : t.node[i].val # k BY <1>2, TypeIs DEF Good
  <2> QED BY <1>2, <2>1 DEF Get, Holds, InArray
<1>3. CASE ~InArray(t, k) /\ k \in Keys
  <2> DEFINE f == FindNode(t, k)
  <2>1. Get(t, k) = IF f = -1 THEN 0 ELSE t.node[f].val BY <1>3 DEF Get
  <2>2. Holds(t, k) <=> \E i \in Nodes(t) : t.node[i].val = k BY <1>3 DEF Holds, InArray
  <2>3. CASE f = -1 /\ \A i \in Nodes(t) : t.node[i].key = k => t.node[i].dead
    <3>1. \A i \in Nodes(t) : t.node[i].val # k BY <2>3 DEF Good, NodeOk
    <3> QED BY <3>1, <2>1, <2>2, <2>3, <1>3
  <2>4. CASE f \in Nodes(t) /\ t.node[f].key = k /\ ~t.node[f].dead /\ f # -1
    <3>1. t.node[f].val \in {0, k} BY <2>4 DEF Good, NodeOk
    <3>2. ASSUME NEW i \in Nodes(t), t.node[i].val = k PROVE i = f
      <4>1. t.node[i].key = k /\ ~t.node[i].dead BY <3>2 DEF Good, NodeOk
      <4> QED BY <4>1, <2>4 DEF Good, KeyOnce
    <3> QED BY <3>1, <3>2, <2>1, <2>2, <2>4, <1>3
  <2> QED BY <2>3, <2>4, <1>3, FindIs
<1> QED BY <1>1, <1>2, <1>3
-----------------------------------------------------------------------------
(* luaH_set where there is a node for the key.                             *)

\* u is t with v as the value of k.
Fresh(t) == \A i \in Nodes(t) : t.node[i].val = t.node[i].key
SameSizes(t, u) ==
  /\ u.sizearray = t.sizearray /\ u.sizenode = t.sizenode /\ u.dummy = t.dummy
Stored(t, u, k, v) ==
  /\ Good(u) /\ SameSizes(t, u)
  /\ \A x \in Int \ {0} : Holds(u, x) <=> IF x = k THEN v = k ELSE Holds(t, x)
  /\ Fresh(t) /\ v = k => Fresh(u)
\* u is t but for its nodes; node i of u is w[i].
WithNodes(t, u, w, n) ==
  u = [arr |-> t.arr, sizearray |-> t.sizearray, node |-> w, sizenode |-> t.sizenode,
       dummy |-> t.dummy, lastfree |-> n]

LEMMA WithNodesType ==
  ASSUME NEW t, TType(t), ArrOk(t), NEW w \in [Nodes(t) -> NodeType(t)], NEW n,
         NEW u, WithNodes(t, u, w, n)
  PROVE  /\ TType(u) /\ ArrOk(u) /\ SameSizes(t, u) /\ Nodes(u) = Nodes(t)
         /\ u.node = w /\ u.lastfree = n /\ u.arr = t.arr
         /\ \A k : MainPosition(u, k) = MainPosition(t, k)
<1>1. /\ u.arr = t.arr /\ u.sizearray = t.sizearray /\ u.node = w /\ u.sizenode = t.sizenode
      /\ u.dummy = t.dummy /\ u.lastfree = n
  BY DEF WithNodes
<1>2. IsTable(u) BY <1>1 DEF WithNodes, IsTable
<1>3. Nodes(u) = Nodes(t) /\ NodeType(u) = NodeType(t) BY <1>1 DEF Nodes, NodeType
<1>4. TType(u) BY <1>1, <1>2, <1>3 DEF TType
<1> QED BY <1>1, <1>3, <1>4, MainSame DEF ArrOk, SameSizes

LEMMA StoreInArray ==
  ASSUME NEW t, Good(t), NEW k \in Keys, InArray(t, k), NEW v \in {0, k}
  PROVE  Stored(t, [t EXCEPT !.arr[k] = v], k, v)
<1> DEFINE a == [t.arr EXCEPT ![k] = v]
           u == [t EXCEPT !.arr[k] = v]
<1>0. TType(t) /\ IsTable(t) BY DEF Good, TType
<1>1. u = [arr |-> a, sizearray |-> t.sizearray, node |-> t.node, sizenode |-> t.sizenode,
           dummy |-> t.dummy, lastfree |-> t.lastfree]
  BY <1>0 DEF IsTable
<1>2. /\ a = [i \in 1..t.sizearray |-> a[i]]
      /\ \A i \in 1..t.sizearray : a[i] = IF i = k THEN v ELSE t.arr[i]
  BY <1>0 DEF TType
<1> HIDE DEF a, u
<1>3. /\ u.arr = a /\ u.sizearray = t.sizearray /\ u.node = t.node /\ u.sizenode = t.sizenode
      /\ u.dummy = t.dummy /\ u.lastfree = t.lastfree
  BY <1>1
<1>4. Nodes(u) = Nodes(t) /\ NodeType(u) = NodeType(t) BY <1>3 DEF Nodes, NodeType
<1>5. TType(u)
  <2>1. IsTable(u) BY <1>1, <1>3 DEF IsTable
  <2> QED BY <2>1, <1>0, <1>2, <1>3, <1>4 DEF TType
<1>6. ArrOk(u) BY <1>2, <1>3 DEF ArrOk, Good, InArray
<1>7. /\ NodeOk(u) /\ LinkOnce(u) /\ Acyclic(u) /\ Homed(u) /\ KeyOnce(u) /\ FreeOk(u)
  <2>1. \A i : On(u, i) = On(t, i) BY <1>3, OnSame
  <2>2. \A x : MainPosition(u, x) = MainPosition(t, x) BY <1>3, MainSame
  <2> QED BY <2>1, <2>2, <1>3, <1>4
          DEF Good, NodeOk, LinkOnce, Acyclic, Homed, KeyOnce, FreeOk
<1>8. ASSUME NEW x \in Int \ {0}
      PROVE  Holds(u, x) <=> IF x = k THEN v = k ELSE Holds(t, x)
  <2>1. k # 0 /\ \A i \in Nodes(t) : t.node[i].val # k
    BY KeysIs DEF Good, NodeOk, InArray
  <2> QED BY <2>1, <1>2, <1>3, <1>4 DEF Holds, InArray
<1>9. Fresh(t) => Fresh(u) BY <1>3, <1>4 DEF Fresh
<1>10. Stored(t, u, k, v) BY <1>3, <1>5, <1>6, <1>7, <1>8, <1>9 DEF Stored, Good, SameSizes
<1> QED BY <1>10 DEF u

LEMMA StoreInNode ==
  ASSUME NEW t, Good(t), NEW k \in Keys, ~InArray(t, k), NEW v \in {0, k},
         NEW f \in Nodes(t), t.node[f].key = k, ~t.node[f].dead
  PROVE  Stored(t, [t EXCEPT !.node[f].val = v], k, v)
<1> DEFINE w == [t.node EXCEPT ![f].val = v]
           u == [t EXCEPT !.node[f].val = v]
<1>0. TType(t) /\ ArrOk(t) /\ k # 0 BY KeysIs DEF Good
<1>0t. IsTable(t) BY <1>0 DEF TType
<1>1. WithNodes(t, u, w, t.lastfree) BY <1>0t DEF IsTable, WithNodes
<1>2. /\ w \in [Nodes(t) -> NodeType(t)]
      /\ \A i \in Nodes(t) : /\ w[i].key = t.node[i].key /\ w[i].next = t.node[i].next
                             /\ w[i].dead = t.node[i].dead
                             /\ w[i].val = IF i = f THEN v ELSE t.node[i].val
  BY <1>0 DEF TType, NodeType
<1> HIDE DEF w, u
<1>3. /\ TType(u) /\ ArrOk(u) /\ SameSizes(t, u) /\ Nodes(u) = Nodes(t)
      /\ u.node = w /\ u.lastfree = t.lastfree /\ u.arr = t.arr
      /\ \A x : MainPosition(u, x) = MainPosition(t, x)
  BY <1>0, <1>1, <1>2, WithNodesType
<1>4. \A i : On(u, i) = On(t, i) BY <1>2, <1>3, OnSame DEF SameSizes
<1>5. NodeOk(u)
  <2>1. \A i \in Nodes(t) : t.node[i].next # -1 => t.node[i].next \in Nodes(t) BY <1>0, TypeIs
  <2> QED BY <1>2, <1>3, <2>1 DEF Good, NodeOk, SameSizes
<1>6. LinkOnce(u) /\ Acyclic(u) BY <1>2, <1>3, <1>4 DEF Good, LinkOnce, Acyclic
<1>7. Homed(u)
  <2>1. \A i \in Nodes(t) : t.node[i].key # 0 => MainPosition(t, t.node[i].key) \in Nodes(t)
    BY <1>0, MainIs, TypeIs DEF TType
  <2> QED BY <1>2, <1>3, <1>4, <2>1 DEF Good, Homed
<1>8. KeyOnce(u) BY <1>2, <1>3, <1>4 DEF Good, KeyOnce
<1>9. FreeOk(u) BY <1>2, <1>3, <1>0, TypeIs DEF Good, FreeOk, SameSizes
<1>10. ASSUME NEW x \in Int \ {0}
       PROVE  Holds(u, x) <=> IF x = k THEN v = k ELSE Holds(t, x)
  <2>1. ASSUME NEW i \in Nodes(t), t.node[i].val = k PROVE i = f
    <3>1. t.node[i].key = k /\ ~t.node[i].dead BY <2>1, <1>0 DEF Good, NodeOk
    <3> QED BY <3>1, <1>0 DEF Good, KeyOnce
  <2>2. t.node[f].val \in {0, k} BY DEF Good, NodeOk
  <2>3. Holds(u, x) <=> (x \in 1..t.sizearray /\ t.arr[x] = x) \/ \E i \in Nodes(t) : w[i].val = x
    BY <1>3 DEF Holds, SameSizes
  <2>4. CASE x = k
    <3>1. Holds(u, x) <=> \E i \in Nodes(t) : w[i].val = k BY <2>3, <2>4 DEF InArray
    <3>2. \A i \in Nodes(t) : w[i].val = k => i = f BY <2>1, <1>2
    <3> QED BY <3>1, <3>2, <2>4, <1>2
  <2>5. CASE x # k
    <3>1. \A i \in Nodes(t) : w[i].val = x <=> t.node[i].val = x BY <1>2, <2>2, <2>5
    <3> QED BY <3>1, <2>3, <2>5 DEF Holds
  <2> QED BY <2>4, <2>5
<1>11. Fresh(t) /\ v = k => Fresh(u) BY <1>2, <1>3 DEF Fresh
<1>12. Stored(t, u, k, v)
  BY <1>3, <1>5, <1>6, <1>7, <1>8, <1>9, <1>10, <1>11 DEF Stored, Good
<1> QED BY <1>12 DEF u

LEMMA StoreAtMain ==
  ASSUME NEW t, Good(t), NEW k \in Keys, ~InArray(t, k), NEW v \in {0, k},
         \A i \in Nodes(t) : t.node[i].key = k => t.node[i].dead,
         ~Live(t.node[MainPosition(t, k)].val), ~t.dummy
  PROVE  Stored(t, Put(t, MainPosition(t, k), k, v), k, v)
<1> DEFINE mp == MainPosition(t, k)
           w == [t.node EXCEPT ![mp] = [key |-> k, val |-> v, next |-> @.next, dead |-> FALSE]]
           u == Put(t, mp, k, v)
<1>0. TType(t) /\ ArrOk(t) /\ k # 0 /\ mp \in Nodes(t) BY KeysIs, MainIs DEF Good, TType
<1>0t. IsTable(t) BY <1>0 DEF TType
<1>0a. /\ Linked(t) /\ LinkOnce(t) /\ Acyclic(t)
       /\ \A i \in Nodes(t) : t.node[i].key # 0 => MainPosition(t, t.node[i].key) \in Nodes(t)
  BY <1>0, MainIs, TypeIs DEF TType, Good
<1>0b. t.node[mp].val = 0 BY DEF Live
<1> HIDE DEF mp
<1>1. WithNodes(t, u, w, t.lastfree)
  <2> DEFINE r == [key |-> k, val |-> v, next |-> t.node[mp].next, dead |-> FALSE]
  <2>1. u = [t EXCEPT !.node[mp] = r] /\ w = [t.node EXCEPT ![mp] = r] BY DEF Put
  <2> HIDE DEF u, w, r
  <2> QED BY <2>1, <1>0t DEF IsTable, WithNodes
<1>2. /\ w \in [Nodes(t) -> NodeType(t)]
      /\ \A i \in Nodes(t) : /\ w[i].key = IF i = mp THEN k ELSE t.node[i].key
                             /\ w[i].next = t.node[i].next
                             /\ IF i = mp THEN ~w[i].dead ELSE w[i].dead = t.node[i].dead
                             /\ w[i].val = IF i = mp THEN v ELSE t.node[i].val
  <2>1. t.node \in [Nodes(t) -> NodeType(t)] /\ t.node[mp].next \in {-1} \cup Nodes(t)
    BY <1>0, TypeIs DEF TType
  <2>2. [key |-> k, val |-> v, next |-> t.node[mp].next, dead |-> FALSE] \in NodeType(t)
    BY <2>1 DEF NodeType
  <2> QED BY <2>1, <2>2, <1>0
<1> HIDE DEF w, u
<1>3. /\ TType(u) /\ ArrOk(u) /\ SameSizes(t, u) /\ Nodes(u) = Nodes(t)
      /\ u.node = w /\ u.lastfree = t.lastfree /\ u.arr = t.arr
      /\ \A x : MainPosition(u, x) = MainPosition(t, x)
  BY <1>0, <1>1, <1>2, WithNodesType
<1>4. \A i : On(u, i) = On(t, i) BY <1>2, <1>3, OnSame DEF SameSizes
<1>5. NodeOk(u)
  <2>1. \A i \in Nodes(t) : t.node[i].next # -1 => t.node[i].next \in Nodes(t) BY <1>0, TypeIs
  <2> QED BY <1>0, <1>2, <1>3, <2>1 DEF Good, NodeOk, SameSizes, InArray
<1>6. LinkOnce(u) /\ Acyclic(u) BY <1>0a, <1>2, <1>3, <1>4 DEF LinkOnce, Acyclic
<1>7. Homed(u)
  <2>1. ASSUME NEW i \in Nodes(t), i # mp, t.node[i].key # 0
        PROVE  LET h == MainPosition(t, t.node[i].key)
               IN  w[h].key # 0 /\ MainPosition(t, w[h].key) = h /\ i \in On(t, h)
    <3> DEFINE h == MainPosition(t, t.node[i].key)
    <3>1. /\ t.node[h].key # 0 /\ MainPosition(t, t.node[h].key) = h /\ i \in On(t, h)
          /\ h \in Nodes(t)
      BY <2>1, <1>0a DEF Good, Homed
    <3> HIDE DEF h
    <3>2. w[h].key # 0 /\ MainPosition(t, w[h].key) = h BY <3>1, <1>0, <1>2 DEF mp
    <3> QED BY <3>1, <3>2 DEF h
  <2>2. w[mp].key = k /\ mp \in On(t, mp) BY <1>0, <1>0a, <1>2, OnIs
  <2>3. MainPosition(t, k) = mp BY DEF mp
  <2>4. ASSUME NEW i \in Nodes(t), w[i].key # 0
        PROVE  LET h == MainPosition(t, w[i].key)
               IN  w[h].key # 0 /\ MainPosition(t, w[h].key) = h /\ i \in On(t, h)
    <3>1. CASE i = mp BY <3>1, <2>2, <2>3, <1>0
    <3>2. CASE i # mp
      <4>1. w[i].key = t.node[i].key BY <3>2, <1>2
      <4> QED BY <4>1, <3>2, <2>1, <2>4
    <3> QED BY <3>1, <3>2
  <2> QED BY <2>4, <1>3, <1>4 DEF Homed
<1>8. KeyOnce(u)
  <2>1. ASSUME NEW j \in Nodes(t), t.node[j].key = k PROVE j \in On(t, mp)
    BY <2>1, <1>0 DEF Good, Homed, mp
  <2> QED BY <2>1, <1>0, <1>2, <1>3, <1>4 DEF Good, KeyOnce
<1>9. FreeOk(u) BY <1>0, <1>2, <1>3 DEF Good, FreeOk, SameSizes
<1>10. ASSUME NEW x \in Int \ {0}
       PROVE  Holds(u, x) <=> IF x = k THEN v = k ELSE Holds(t, x)
  <2>1. \A i \in Nodes(t) : t.node[i].val # k BY <1>0 DEF Good, NodeOk
  <2>2. Holds(u, x) <=> (x \in 1..t.sizearray /\ t.arr[x] = x) \/ \E i \in Nodes(t) : w[i].val = x
    BY <1>3 DEF Holds, SameSizes
  <2>3. CASE x = k
    <3>1. Holds(u, x) <=> \E i \in Nodes(t) : w[i].val = k BY <2>2, <2>3 DEF InArray
    <3>2. \A i \in Nodes(t) : w[i].val = k => i = mp BY <2>1, <1>2
    <3> QED BY <3>1, <3>2, <2>3, <1>0, <1>2
  <2>4. CASE x # k
    <3>1. \A i \in Nodes(t) : w[i].val = x <=> t.node[i].val = x BY <1>2, <1>0b, <2>4
    <3> QED BY <3>1, <2>2, <2>4 DEF Holds
  <2> QED BY <2>3, <2>4
<1>11. Fresh(t) /\ v = k => Fresh(u) BY <1>2, <1>3 DEF Fresh
<1>12. Stored(t, u, k, v)
  BY <1>3, <1>5, <1>6, <1>7, <1>8, <1>9, <1>10, <1>11 DEF Stored, Good
<1> QED BY <1>12 DEF u, mp
-----------------------------------------------------------------------------
(* newkey, where the main position of the key is taken.                    *)

LEMMA FreeIs ==
  ASSUME NEW t, Good(t), FreePositions(t) # {}
  PROVE  LET n == Max(FreePositions(t))
         IN  /\ ~t.dummy /\ n \in Nodes(t) /\ t.node[n].key = 0 /\ Unlinked(t, n)
             /\ n \in 0..t.sizenode
             /\ \A i \in Nodes(t) : i > n => t.node[i].key # 0
<1> DEFINE F == FreePositions(t)
           n == Max(F)
<1>1. TType(t) /\ t.sizenode \in Nat BY DEF Good, TType
<1>2. ~t.dummy BY DEF Good, FreeOk, FreePositions
<1>3. t.lastfree \in 0..t.sizenode /\ \A i \in Nodes(t) : i >= t.lastfree => t.node[i].key # 0
  BY <1>2 DEF Good, FreeOk
<1>4. F \subseteq 0..t.sizenode BY <1>1, <1>3 DEF FreePositions
<1>5. n \in F /\ \A x \in F : x <= n BY <1>1, <1>4, MaxIs
<1>6. n \in 0..(t.lastfree - 1) /\ t.node[n].key = 0
  <2> HIDE DEF n
  <2> QED BY <1>5 DEF FreePositions
<1>7. n \in Nodes(t) BY <1>6, <1>3, <1>1 DEF Nodes
<1>8. ASSUME NEW i \in Nodes(t), i > n PROVE t.node[i].key # 0
  <2> SUFFICES ASSUME t.node[i].key = 0 PROVE FALSE
    OBVIOUS
  <2> HIDE DEF n
  <2>1. i \in Int /\ i >= 0 /\ ~(i >= t.lastfree) BY <1>3, <1>1 DEF Nodes
  <2>2. i \in F BY <2>1, <1>3 DEF FreePositions
  <2>3. i <= n BY <2>2, <1>5
  <2> QED BY <2>1, <2>3, <1>8, <1>6, <1>3
<1>9. Unlinked(t, n)
  <2> HIDE DEF n
  <2>1. t.node[n].next = -1 BY <1>6, <1>7 DEF Good, NodeOk
  <2>2. \A j \in Nodes(t) : t.node[j].next # n
    <3>1. -1 \notin Nodes(t) BY <1>1, TypeIs
    <3> QED BY <3>1, <1>6, <1>7 DEF Good, NodeOk
  <2> QED BY <2>1, <2>2, <1>7 DEF Unlinked
<1> HIDE DEF n, F
<1>10. n \in 0..t.sizenode BY <1>7, <1>1 DEF Nodes
<1> QED BY <1>2, <1>6, <1>7, <1>8, <1>9, <1>10 DEF n, F

LEMMA StoreChained ==
  ASSUME NEW t, Good(t), NEW k \in Keys, ~InArray(t, k), NEW v \in {0, k},
         \A i \in Nodes(t) : t.node[i].key = k => t.node[i].dead,
         Live(t.node[MainPosition(t, k)].val), FreePositions(t) # {},
         MainPosition(t, t.node[MainPosition(t, k)].key) = MainPosition(t, k)
  PROVE  Stored(t, NewKey(t, k, v), k, v)
<1> DEFINE mp == MainPosition(t, k)
           n == Max(FreePositions(t))
           q == t.node[mp].next
           r == [key |-> k, val |-> v, next |-> q, dead |-> FALSE]
           m == [t.node[mp] EXCEPT !.next = n]
           w == [i \in Nodes(t) |-> IF i = n THEN r ELSE IF i = mp THEN m ELSE t.node[i]]
           u == NewKey(t, k, v)
<1>0. TType(t) /\ ArrOk(t) /\ k # 0 /\ mp \in Nodes(t) BY KeysIs, MainIs DEF Good, TType
<1>1. /\ Linked(t) /\ LinkOnce(t) /\ Acyclic(t)
      /\ \A i \in Nodes(t) : t.node[i].key # 0 => MainPosition(t, t.node[i].key) \in Nodes(t)
  BY <1>0, MainIs, TypeIs DEF TType, Good
<1>2. /\ ~t.dummy /\ n \in Nodes(t) /\ t.node[n].key = 0 /\ Unlinked(t, n)
      /\ n \in 0..t.sizenode /\ \A i \in Nodes(t) : i > n => t.node[i].key # 0
  BY FreeIs
<1>3. t.node[mp].val # 0 /\ t.node[mp].key # 0 /\ ~t.node[mp].dead /\ mp # n
      /\ t.node[n].val = 0
  BY <1>0, <1>2 DEF Good, NodeOk, Live
<1>4. u = LET chained == [t EXCEPT !.lastfree = n, !.node[n].next = q, !.node[mp].next = n]
          IN  Put(chained, n, k, v)
  BY <1>3 DEF NewKey, Live
<1>m. MainPosition(t, t.node[mp].key) = mp /\ MainPosition(t, k) = mp OBVIOUS
<1> HIDE DEF mp, n, u
<1>5. WithNodes(t, u, w, n)
  <2> DEFINE chained == [t EXCEPT !.lastfree = n, !.node[n].next = q, !.node[mp].next = n]
             w1 == [[t.node EXCEPT ![n].next = q] EXCEPT ![mp].next = n]
             w2 == [w1 EXCEPT ![n] = r]
  <2>1. IsTable(t) BY <1>0 DEF TType
  <2>2. WithNodes(t, chained, w1, n)
    <3> DEFINE a == [t EXCEPT !.lastfree = n]
               b == [a EXCEPT !.node[n].next = q]
    <3> HIDE DEF q, w, r, m
    <3>1. WithNodes(t, a, t.node, n) BY <2>1 DEF IsTable, WithNodes
    <3>2. WithNodes(t, b, [t.node EXCEPT ![n].next = q], n)
      <4> HIDE DEF a
      <4> QED BY <3>1 DEF WithNodes
    <3>3. chained = [b EXCEPT !.node[mp].next = n] OBVIOUS
    <3> HIDE DEF a, b, chained
    <3> QED BY <3>2, <3>3 DEF WithNodes
  <2>3. t.node \in [Nodes(t) -> NodeType(t)] BY <1>0 DEF TType
  <2>4. /\ t.node[n] = [key |-> t.node[n].key, val |-> t.node[n].val,
                        next |-> t.node[n].next, dead |-> t.node[n].dead]
        /\ n \in Nodes(t)
    BY <1>0, <1>2, TypeIs
  <2>5. w1[n].next = q BY <2>3, <2>4, <1>0, <1>3
  <2>6. u = [chained EXCEPT !.node[n] = r]
    <3>1. chained.node = w1
      <4> HIDE DEF chained, w1
      <4> QED BY <2>2 DEF WithNodes
    <3>2. u = Put(chained, n, k, v) BY <1>4
    <3>3. chained.node[n].next = q BY <3>1, <2>5
    <3>4. Put(chained, n, k, v)
            = [chained EXCEPT !.node[n] = [key |-> k, val |-> v,
                                           next |-> chained.node[n].next, dead |-> FALSE]]
      <4> HIDE DEF chained
      <4> QED BY DEF Put
    <3> HIDE DEF chained
    <3> QED BY <3>2, <3>3, <3>4
  <2>7. w2 = w
    <3> HIDE DEF r
    <3>1. w1 = [i \in Nodes(t) |-> IF i = mp THEN m
                                   ELSE IF i = n THEN [t.node[n] EXCEPT !.next = q]
                                   ELSE t.node[i]]
      <4> HIDE DEF q
      <4> QED BY <2>3, <1>0, <1>2, <1>3
    <3> HIDE DEF w1, m
    <3> QED BY <3>1, <1>0, <1>2, <1>3
  <2>8. WithNodes(t, [chained EXCEPT !.node[n] = r], w2, n)
    <3> HIDE DEF chained, w1, r
    <3> QED BY <2>2 DEF WithNodes
  <2> HIDE DEF chained, w1, w2, w, r
  <2> QED BY <2>6, <2>7, <2>8
<1>6. /\ w \in [Nodes(t) -> NodeType(t)]
      /\ \A i \in Nodes(t) : /\ w[i].key = IF i = n THEN k ELSE t.node[i].key
                             /\ w[i].next = IF i = mp THEN n ELSE IF i = n THEN q
                                            ELSE t.node[i].next
                             /\ IF i = n THEN ~w[i].dead ELSE w[i].dead = t.node[i].dead
                             /\ w[i].val = IF i = n THEN v ELSE t.node[i].val
  <2>1. /\ t.node \in [Nodes(t) -> NodeType(t)]
        /\ t.node[mp] = [key |-> t.node[mp].key, val |-> t.node[mp].val,
                         next |-> t.node[mp].next, dead |-> t.node[mp].dead]
        /\ q \in {-1} \cup Nodes(t)
    BY <1>0, TypeIs DEF TType
  <2>2. r \in NodeType(t) BY <2>1 DEF NodeType
  <2>3. /\ m \in NodeType(t) /\ m.key = t.node[mp].key /\ m.val = t.node[mp].val
        /\ m.next = n /\ m.dead = t.node[mp].dead
    <3>1. m = [key |-> t.node[mp].key, val |-> t.node[mp].val, next |-> n,
               dead |-> t.node[mp].dead]
      BY <2>1
    <3>2. t.node[mp] \in NodeType(t) BY <2>1, <1>0
    <3> HIDE DEF m
    <3> QED BY <3>1, <3>2, <1>2 DEF NodeType
  <2>4. r.key = k /\ r.val = v /\ r.next = q /\ ~r.dead OBVIOUS
  <2> HIDE DEF r, m
  <2>5. w \in [Nodes(t) -> NodeType(t)] BY <2>1, <2>2, <2>3
  <2>6. \A i \in Nodes(t) : w[i] = IF i = n THEN r ELSE IF i = mp THEN m ELSE t.node[i] OBVIOUS
  <2> HIDE DEF w
  <2> QED BY <2>3, <2>4, <2>5, <2>6, <1>3
<1> HIDE DEF w, r, m
<1>7. /\ TType(u) /\ ArrOk(u) /\ SameSizes(t, u) /\ Nodes(u) = Nodes(t)
      /\ u.node = w /\ u.lastfree = n /\ u.arr = t.arr
      /\ \A x : MainPosition(u, x) = MainPosition(t, x)
  BY <1>0, <1>5, <1>6, WithNodesType
<1>8. Chains(t, u, mp, n) BY <1>6, <1>7 DEF Chains, SameSizes
<1>9. LinkOnce(u) /\ Acyclic(u) BY <1>0, <1>1, <1>2, <1>3, <1>8, ChainsKeep
<1>10. /\ \A i \in Nodes(t) \ {n} : On(t, i) \subseteq On(u, i)
       /\ n \in On(u, mp) /\ On(t, mp) \subseteq On(u, n) \cup {mp}
  BY <1>0, <1>1, <1>2, <1>3, <1>8, ChainsOn
<1>11. NodeOk(u)
  <2>1. \A i \in Nodes(t) : t.node[i].next # -1 => t.node[i].next \in Nodes(t) \ {n}
    BY <1>1, <1>2 DEF Linked, Unlinked
  <2>2. \A i \in Nodes(t) : t.node[i].next # -1 => t.node[t.node[i].next].key # 0
    BY DEF Good, NodeOk
  <2>3. ASSUME NEW i \in Nodes(t), w[i].next # -1 PROVE w[w[i].next].key # 0
    <3>1. CASE i = mp BY <3>1, <1>0, <1>2, <1>6
    <3>2. CASE i # mp
      <4>1. \E j \in Nodes(t) : w[i].next = t.node[j].next
        BY <3>2, <1>0, <1>6
      <4> QED BY <4>1, <2>1, <2>2, <2>3, <1>6
    <3> QED BY <3>1, <3>2
  <2>4. ASSUME NEW i \in Nodes(t)
        PROVE  /\ w[i].val \in {0, w[i].key}
               /\ w[i].dead => w[i].val = 0
               /\ w[i].key = 0 => w[i].next = -1 /\ ~w[i].dead
               /\ w[i].key \notin 1..t.sizearray
    <3>1. CASE i = n BY <3>1, <1>0, <1>6 DEF InArray
    <3>2. CASE i # n
      <4>1. w[i].key = t.node[i].key /\ w[i].val = t.node[i].val /\ w[i].dead = t.node[i].dead
        BY <3>2, <1>6
      <4>2. i # mp => w[i].next = t.node[i].next BY <3>2, <1>6
      <4> QED BY <4>1, <4>2, <1>3 DEF Good, NodeOk
    <3> QED BY <3>1, <3>2
  <2> QED BY <2>3, <2>4, <1>7 DEF NodeOk, SameSizes
<1>12. Homed(u)
  <2>1. ASSUME NEW i \in Nodes(t), w[i].key # 0
        PROVE  LET h == MainPosition(t, w[i].key)
               IN  w[h].key # 0 /\ MainPosition(t, w[h].key) = h /\ i \in On(u, h)
    <3>1. CASE i = n BY <3>1, <1>0, <1>3, <1>6, <1>10, <1>m
    <3>2. CASE i # n
      <4> DEFINE h == MainPosition(t, t.node[i].key)
      <4>1. w[i].key = t.node[i].key BY <3>2, <1>6
      <4>2. /\ t.node[h].key # 0 /\ MainPosition(t, t.node[h].key) = h /\ i \in On(t, h)
            /\ h \in Nodes(t)
        BY <4>1, <2>1, <1>1 DEF Good, Homed
      <4>3. MainPosition(t, w[i].key) = h BY <4>1
      <4> HIDE DEF h
      <4>4. h # n /\ w[h].key = t.node[h].key BY <4>2, <1>2, <1>6
      <4> QED BY <4>2, <4>3, <4>4, <1>10
    <3> QED BY <3>1, <3>2
  <2> QED BY <2>1, <1>7 DEF Homed
<1>13. KeyOnce(u)
  <2>1. ASSUME NEW i \in Nodes(t), NEW j \in Nodes(t), w[i].key # 0, w[i].key = w[j].key,
               ~w[i].dead
        PROVE  IF w[j].dead THEN j \in On(u, i) ELSE i = j
    <3>1. CASE i = n /\ j # n
      <4>1. w[i].key = k /\ t.node[j].key = k /\ w[j].dead = t.node[j].dead BY <3>1, <2>1, <1>6
      <4>2. t.node[j].dead BY <4>1
      <4>3. j \in On(t, mp) BY <4>1, <1>0, <1>m DEF Good, Homed
      <4>4. j # mp BY <4>2, <1>3
      <4> QED BY <4>1, <4>2, <4>3, <4>4, <3>1, <1>10
    <3>2. CASE j = n /\ i # n BY <3>2, <2>1, <1>6
    <3>3. CASE i # n /\ j # n
      <4>1. /\ w[i].key = t.node[i].key /\ w[j].key = t.node[j].key
            /\ w[i].dead = t.node[i].dead /\ w[j].dead = t.node[j].dead
        BY <3>3, <1>6
      <4>2. IF t.node[j].dead THEN j \in On(t, i) ELSE i = j
        BY <4>1, <2>1 DEF Good, KeyOnce
      <4> QED BY <4>1, <4>2, <3>3, <1>10
    <3>4. CASE i = n /\ j = n BY <3>4, <1>6
    <3> QED BY <3>1, <3>2, <3>3, <3>4
  <2> QED BY <2>1, <1>7 DEF KeyOnce
<1>14. FreeOk(u)
  <2>1. \A i \in Nodes(t) : i >= n => i > n \/ i = n BY <1>2 DEF Nodes
  <2> QED BY <2>1, <1>0, <1>2, <1>6, <1>7 DEF FreeOk, SameSizes
<1>15. ASSUME NEW x \in Int \ {0}
       PROVE  Holds(u, x) <=> IF x = k THEN v = k ELSE Holds(t, x)
  <2>1. \A i \in Nodes(t) : t.node[i].val # k BY <1>0 DEF Good, NodeOk
  <2>2. Holds(u, x) <=> (x \in 1..t.sizearray /\ t.arr[x] = x) \/ \E i \in Nodes(t) : w[i].val = x
    BY <1>7 DEF Holds, SameSizes
  <2>3. CASE x = k
    <3>1. Holds(u, x) <=> \E i \in Nodes(t) : w[i].val = k BY <2>2, <2>3 DEF InArray
    <3>2. \A i \in Nodes(t) : w[i].val = k => i = n BY <2>1, <1>6
    <3> QED BY <3>1, <3>2, <2>3, <1>2, <1>6
  <2>4. CASE x # k
    <3>1. \A i \in Nodes(t) : w[i].val = x <=> t.node[i].val = x BY <1>6, <1>3, <2>4
    <3> QED BY <3>1, <2>2, <2>4 DEF Holds
  <2> QED BY <2>3, <2>4
<1>16. Fresh(t) /\ v = k => Fresh(u) BY <1>6, <1>7 DEF Fresh
<1>17. Stored(t, u, k, v)
  BY <1>7, <1>9, <1>11, <1>12, <1>13, <1>14, <1>15, <1>16 DEF Stored, Good
<1> QED BY <1>17 DEF u

LEMMA PreviousIs ==
  ASSUME NEW t, Linked(t), Acyclic(t), NEW i \in Nodes(t), NEW j \in On(t, i), j # i
  PROVE  Previous(t, i, j) \in Nodes(t) /\ t.node[Previous(t, i, j)].next = j
<1>1. \E p \in On(t, i) : t.node[p].next = j BY OnBefore
<1>2. Chain(t, i) = On(t, i) /\ On(t, i) \subseteq Nodes(t) BY ChainIs, OnIs
<1> QED BY <1>1, <1>2 DEF Previous

\* Three stores of newkey at once.
MovedNode(t, p, mp, n, r, i) ==
  IF i = mp THEN r ELSE IF i = n THEN t.node[mp]
  ELSE IF i = p THEN [t.node[p] EXCEPT !.next = n] ELSE t.node[i]

LEMMA MovedIs ==
  ASSUME NEW t, TType(t), NEW k \in Keys, NEW v, NEW n \in Nodes(t), NEW mp \in Nodes(t),
         NEW p \in Nodes(t), p # n, p # mp, mp # n,
         NEW u, u = Put([t EXCEPT !.lastfree = n, !.node[p].next = n,
                                  !.node[n] = t.node[mp], !.node[mp] = FreeNode], mp, k, v)
  PROVE  WithNodes(t, u, [i \in Nodes(t) |->
                            MovedNode(t, p, mp, n, [key |-> k, val |-> v, next |-> -1,
                                                    dead |-> FALSE], i)], n)
<1> DEFINE r == [key |-> k, val |-> v, next |-> -1, dead |-> FALSE]
           a == [t EXCEPT !.lastfree = n]
           b == [a EXCEPT !.node[p].next = n]
           c == [b EXCEPT !.node[n] = t.node[mp]]
           d == [c EXCEPT !.node[mp] = FreeNode]
           wb == [t.node EXCEPT ![p].next = n]
           wc == [wb EXCEPT ![n] = t.node[mp]]
           wd == [wc EXCEPT ![mp] = FreeNode]
           we == [wd EXCEPT ![mp] = r]
           w == [i \in Nodes(t) |-> MovedNode(t, p, mp, n, r, i)]
<1>1. IsTable(t) /\ t.node \in [Nodes(t) -> NodeType(t)] BY DEF TType
<1>2. u = Put(d, mp, k, v) OBVIOUS
<1>3. WithNodes(t, a, t.node, n) BY <1>1 DEF IsTable, WithNodes
<1>4. WithNodes(t, b, wb, n)
  <2> HIDE DEF a
  <2> QED BY <1>3 DEF WithNodes
<1>5. WithNodes(t, c, wc, n)
  <2> HIDE DEF b, wb
  <2> QED BY <1>4 DEF WithNodes
<1>6. WithNodes(t, d, wd, n)
  <2> HIDE DEF c, wc
  <2> QED BY <1>5 DEF WithNodes
<1>7. d.node = wd
  <2> HIDE DEF d, wd
  <2> QED BY <1>6 DEF WithNodes
<1>8. /\ DOMAIN t.node = Nodes(t) /\ DOMAIN wb = Nodes(t) /\ DOMAIN wc = Nodes(t)
      /\ DOMAIN wd = Nodes(t) /\ DOMAIN we = Nodes(t)
  BY <1>1
<1>9. wd[mp].next = -1
  <2>1. wd[mp] = FreeNode
    <3> HIDE DEF wc
    <3> QED BY <1>8
  <2> QED BY <2>1 DEF FreeNode
<1>10. u = [d EXCEPT !.node[mp] = r]
  <2>1. d.node[mp].next = -1 BY <1>7, <1>9
  <2>2. Put(d, mp, k, v) = [d EXCEPT !.node[mp] = [key |-> k, val |-> v,
                              next |-> d.node[mp].next, dead |-> FALSE]]
    <3> HIDE DEF d
    <3> QED BY DEF Put
  <2> HIDE DEF d
  <2> QED BY <1>2, <2>1, <2>2
<1>11. WithNodes(t, [d EXCEPT !.node[mp] = r], we, n)
  <2> HIDE DEF d, wd, r
  <2> QED BY <1>6 DEF WithNodes
<1>12. we = w
  <2>1. ASSUME NEW i \in Nodes(t)
        PROVE  we[i] = IF i = mp THEN r ELSE IF i = n THEN t.node[mp]
                       ELSE IF i = p THEN wb[p] ELSE t.node[i]
    <3>1. we[i] = IF i = mp THEN r ELSE wd[i]
      <4> HIDE DEF wd, r
      <4> QED BY <1>8
    <3>2. i # mp => wd[i] = wc[i]
      <4> HIDE DEF wc
      <4> QED BY <1>8
    <3>3. wc[i] = IF i = n THEN t.node[mp] ELSE wb[i]
      <4> HIDE DEF wb
      <4> QED BY <1>8
    <3>4. i # p => wb[i] = t.node[i] BY <1>8
    <3> HIDE DEF we, wd, wc, wb, r
    <3> QED BY <3>1, <3>2, <3>3, <3>4
  <2>2. wb[p] = [t.node[p] EXCEPT !.next = n] BY <1>8
  <2>3. we = [i \in Nodes(t) |-> we[i]] BY <1>8
  <2> HIDE DEF we, wb, r
  <2> QED BY <2>1, <2>2, <2>3 DEF MovedNode
<1> HIDE DEF d, we, w
<1>13. WithNodes(t, u, w, n) BY <1>10, <1>11, <1>12
<1> QED BY <1>13 DEF w

LEMMA StoreMoved ==
  ASSUME NEW t, Good(t), NEW k \in Keys, ~InArray(t, k), NEW v \in {0, k},
         \A i \in Nodes(t) : t.node[i].key = k => t.node[i].dead,
         Live(t.node[MainPosition(t, k)].val), FreePositions(t) # {},
         MainPosition(t, t.node[MainPosition(t, k)].key) # MainPosition(t, k)
  PROVE  Stored(t, NewKey(t, k, v), k, v)
<1> DEFINE mp == MainPosition(t, k)
           n == Max(FreePositions(t))
           e == t.node[mp].key
           other == MainPosition(t, e)
           p == Previous(t, other, mp)
           q == t.node[mp].next
           r == [key |-> k, val |-> v, next |-> -1, dead |-> FALSE]
           w == [i \in Nodes(t) |-> MovedNode(t, p, mp, n, r, i)]
           u == NewKey(t, k, v)
<1>0. TType(t) /\ ArrOk(t) /\ k # 0 /\ mp \in Nodes(t) BY KeysIs, MainIs DEF Good, TType
<1>1. /\ Linked(t) /\ LinkOnce(t) /\ Acyclic(t)
      /\ \A i \in Nodes(t) : t.node[i].key # 0 => MainPosition(t, t.node[i].key) \in Nodes(t)
  BY <1>0, MainIs, TypeIs DEF TType, Good
<1>2. /\ ~t.dummy /\ n \in Nodes(t) /\ t.node[n].key = 0 /\ Unlinked(t, n)
      /\ n \in 0..t.sizenode /\ \A i \in Nodes(t) : i > n => t.node[i].key # 0
  BY FreeIs
<1>3. t.node[mp].val # 0 /\ e # 0 /\ ~t.node[mp].dead /\ mp # n
      /\ t.node[n].val = 0
  BY <1>0, <1>2 DEF Good, NodeOk, Live
<1>m. other # mp /\ MainPosition(t, k) = mp OBVIOUS
<1>o. /\ other \in Nodes(t) /\ mp \in On(t, other)
      /\ t.node[other].key # 0 /\ MainPosition(t, t.node[other].key) = other
  BY <1>0, <1>1, <1>3 DEF Good, Homed
<1>h. \A i \in Nodes(t) : t.node[i].key # 0 => MainPosition(t, t.node[i].key) # mp
  BY <1>0, <1>m DEF Good, Homed
<1>p. p \in Nodes(t) /\ t.node[p].next = mp
  <2> HIDE DEF mp, other
  <2> QED BY <1>1, <1>o, <1>m, PreviousIs
<1>4. u = Put([t EXCEPT !.lastfree = n, !.node[p].next = n,
                        !.node[n] = t.node[mp], !.node[mp] = FreeNode], mp, k, v)
  BY <1>3, <1>m DEF NewKey, Live
<1> HIDE DEF mp, n, u, p, other, e
<1>d. p # n /\ p # mp
  <2>1. -1 \notin Nodes(t) BY <1>0, TypeIs
  <2>2. p # n BY <2>1, <1>p, <1>0, <1>2 DEF Unlinked
  <2>3. mp \in On(t, mp) BY <1>0, <1>1, OnIs
  <2>4. p # mp BY <2>1, <2>3, <1>p, <1>0, <1>1 DEF Acyclic
  <2> QED BY <2>2, <2>4
<1>5. WithNodes(t, u, w, n) BY <1>0, <1>2, <1>3, <1>p, <1>d, <1>4, MovedIs
<1>6. /\ w \in [Nodes(t) -> NodeType(t)]
      /\ \A i \in Nodes(t) : i # n /\ i # mp =>
           /\ w[i].key = t.node[i].key /\ w[i].val = t.node[i].val
           /\ w[i].dead = t.node[i].dead
           /\ w[i].next = IF i = p THEN n ELSE t.node[i].next
      /\ w[mp].key = k /\ w[mp].val = v /\ w[mp].next = -1 /\ ~w[mp].dead
      /\ w[n].key = e /\ w[n].val = t.node[mp].val /\ w[n].next = q /\ ~w[n].dead
  <2>1. /\ t.node \in [Nodes(t) -> NodeType(t)]
        /\ t.node[p] = [key |-> t.node[p].key, val |-> t.node[p].val,
                        next |-> t.node[p].next, dead |-> t.node[p].dead]
    BY <1>0, <1>p, TypeIs DEF TType
  <2>2. r \in NodeType(t) BY DEF NodeType
  <2> DEFINE m == [t.node[p] EXCEPT !.next = n]
  <2>3. /\ m \in NodeType(t) /\ m.key = t.node[p].key /\ m.val = t.node[p].val
        /\ m.next = n /\ m.dead = t.node[p].dead
    <3>1. m = [key |-> t.node[p].key, val |-> t.node[p].val, next |-> n,
               dead |-> t.node[p].dead]
      BY <2>1
    <3>2. t.node[p] \in NodeType(t) BY <2>1, <1>p
    <3> HIDE DEF m
    <3> QED BY <3>1, <3>2, <1>2 DEF NodeType
  <2>4. r.key = k /\ r.val = v /\ r.next = -1 /\ ~r.dead OBVIOUS
  <2>6. \A i \in Nodes(t) : w[i] = IF i = mp THEN r ELSE IF i = n THEN t.node[mp]
                                   ELSE IF i = p THEN m ELSE t.node[i]
    BY DEF MovedNode
  <2>5. w \in [Nodes(t) -> NodeType(t)]
    <3>1. w = [i \in Nodes(t) |-> w[i]] OBVIOUS
    <3> HIDE DEF w, r, m
    <3> QED BY <3>1, <2>1, <2>2, <2>3, <2>6, <1>0
  <2> HIDE DEF r, m, w
  <2> QED BY <2>3, <2>4, <2>5, <2>6, <1>0, <1>2, <1>3, <1>p, <1>d DEF e
<1> HIDE DEF w, r
<1>7. /\ TType(u) /\ ArrOk(u) /\ SameSizes(t, u) /\ Nodes(u) = Nodes(t)
      /\ u.node = w /\ u.lastfree = n /\ u.arr = t.arr
      /\ \A x : MainPosition(u, x) = MainPosition(t, x)
  BY <1>0, <1>5, <1>6, WithNodesType
<1>8. Moves(t, u, p, mp, n)
  <2>1. \A j \in Nodes(t) : w[j].next = IF j = p THEN n ELSE IF j = n THEN q
                                        ELSE IF j = mp THEN -1 ELSE t.node[j].next
    BY <1>6, <1>3, <1>d
  <2> QED BY <2>1, <1>7 DEF Moves, SameSizes
<1>9. LinkOnce(u) /\ Acyclic(u) BY <1>0, <1>1, <1>2, <1>3, <1>p, <1>8, MovesKeep
<1>10. /\ \A i \in Nodes(t) \ {n, mp} : /\ On(t, i) \ {mp} \subseteq On(u, i)
                                        /\ mp \in On(t, i) => n \in On(u, i)
       /\ On(t, mp) \subseteq On(u, n) \cup {mp}
       /\ Linked(u)
  BY <1>0, <1>1, <1>2, <1>3, <1>p, <1>8, MovesOn
<1>e. e \in Keys /\ t.node[mp].val = e /\ e # k
  <2>1. e \in Keys \cup {0} BY <1>0, TypeIs DEF e
  <2>2. t.node[mp].val \in {0, e} BY <1>0 DEF Good, NodeOk, e
  <2>3. e # k BY <1>0, <1>3 DEF e
  <2> QED BY <2>1, <2>2, <2>3, <1>3
<1>11. NodeOk(u)
  <2>1. \A i \in Nodes(t) : t.node[i].next # -1 =>
                              t.node[i].next \in Nodes(t) \ {n} /\ t.node[t.node[i].next].key # 0
    BY <1>1, <1>2 DEF Linked, Unlinked, Good, NodeOk
  <2>2. \A j \in Nodes(t) \ {n} : t.node[j].key # 0 => w[j].key # 0
    BY <1>0, <1>6
  <2>3. ASSUME NEW i \in Nodes(t), w[i].next # -1 PROVE w[w[i].next].key # 0
    <3>1. CASE i = p BY <3>1, <1>3, <1>6, <1>d, <1>2
    <3>2. CASE i = n BY <3>2, <2>1, <2>2, <2>3, <1>0, <1>6
    <3>3. CASE i # n /\ i # p
      <4>1. i # mp BY <2>3, <1>6
      <4>2. w[i].next = t.node[i].next BY <3>3, <4>1, <1>6
      <4> QED BY <4>2, <2>1, <2>2, <2>3
    <3> QED BY <3>1, <3>2, <3>3
  <2>4. ASSUME NEW i \in Nodes(t)
        PROVE  /\ w[i].val \in {0, w[i].key}
               /\ w[i].dead => w[i].val = 0
               /\ w[i].key = 0 => w[i].next = -1 /\ ~w[i].dead
               /\ w[i].key \notin 1..t.sizearray
    <3>1. CASE i = n
      <4>1. e \notin 1..t.sizearray BY <1>0 DEF Good, NodeOk, e
      <4> QED BY <4>1, <3>1, <1>3, <1>e, <1>6
    <3>2. CASE i = mp BY <3>2, <1>0, <1>6 DEF InArray
    <3>3. CASE i # n /\ i # mp
      <4>1. w[i].key = t.node[i].key /\ w[i].val = t.node[i].val /\ w[i].dead = t.node[i].dead
        BY <3>3, <1>6
      <4>2. i # p => w[i].next = t.node[i].next BY <3>3, <1>6
      <4>3. t.node[p].key # 0
        <5>1. -1 \notin Nodes(t) BY <1>0, TypeIs
        <5> QED BY <5>1, <1>p, <1>0 DEF Good, NodeOk
      <4> QED BY <4>1, <4>2, <4>3 DEF Good, NodeOk
    <3> QED BY <3>1, <3>2, <3>3
  <2> QED BY <2>3, <2>4, <1>7 DEF NodeOk, SameSizes
<1>12. Homed(u)
  <2>0. other # n BY <1>o, <1>2
  <2>1. ASSUME NEW i \in Nodes(t), w[i].key # 0
        PROVE  LET h == MainPosition(t, w[i].key)
               IN  w[h].key # 0 /\ MainPosition(t, w[h].key) = h /\ i \in On(u, h)
    <3>1. CASE i = mp
      <4>1. mp \in On(u, mp) BY <1>0, <1>7, <1>10, OnIs
      <4> QED BY <4>1, <3>1, <1>0, <1>6, <1>m
    <3>2. CASE i = n
      <4>1. MainPosition(t, w[n].key) = other BY <1>6 DEF other
      <4>2. w[other].key = t.node[other].key BY <2>0, <1>o, <1>m, <1>6
      <4> QED BY <4>1, <4>2, <3>2, <2>0, <1>o, <1>m, <1>10
    <3>3. CASE i # n /\ i # mp
      <4> DEFINE h == MainPosition(t, t.node[i].key)
      <4>1. w[i].key = t.node[i].key BY <3>3, <1>6
      <4>2. /\ t.node[h].key # 0 /\ MainPosition(t, t.node[h].key) = h /\ i \in On(t, h)
            /\ h \in Nodes(t)
        BY <4>1, <2>1, <1>1 DEF Good, Homed
      <4>3. MainPosition(t, w[i].key) = h BY <4>1
      <4>4. h # mp BY <4>1, <2>1, <1>h
      <4> HIDE DEF h
      <4>5. h # n /\ w[h].key = t.node[h].key BY <4>2, <4>4, <1>2, <1>6
      <4> QED BY <4>2, <4>3, <4>4, <4>5, <3>3, <1>10
    <3> QED BY <3>1, <3>2, <3>3
  <2> QED BY <2>1, <1>7 DEF Homed
<1>13. KeyOnce(u)
  <2>0. \A j \in Nodes(t) : t.node[j].key # k
    BY <1>0, <1>h, <1>m
  <2>1. ASSUME NEW i \in Nodes(t), NEW j \in Nodes(t), w[i].key # 0, w[i].key = w[j].key,
               ~w[i].dead
        PROVE  IF w[j].dead THEN j \in On(u, i) ELSE i = j
    <3>1. CASE i = mp \/ j = mp
      <4>1. \A x \in Nodes(t) : w[x].key = k => x = mp BY <2>0, <1>6, <1>e
      <4> QED BY <4>1, <3>1, <2>1, <1>0, <1>6
    <3>2. CASE i = n /\ j = n BY <3>2, <1>6
    <3>3. CASE i = n /\ j # n /\ j # mp
      <4>1. t.node[j].key = e /\ w[j].dead = t.node[j].dead BY <3>3, <2>1, <1>6
      <4>2. IF t.node[j].dead THEN j \in On(t, mp) ELSE mp = j
        BY <4>1, <1>0, <1>3 DEF Good, KeyOnce, e
      <4> QED BY <4>1, <4>2, <3>3, <1>10
    <3>4. CASE j = n /\ i # n /\ i # mp
      <4>1. t.node[i].key = e /\ w[i].dead = t.node[i].dead BY <3>4, <2>1, <1>6
      <4>2. i = mp BY <4>1, <2>1, <1>0, <1>3 DEF Good, KeyOnce, e
      <4> QED BY <4>2, <3>4
    <3>5. CASE i # n /\ j # n /\ i # mp /\ j # mp
      <4>1. /\ w[i].key = t.node[i].key /\ w[j].key = t.node[j].key
            /\ w[i].dead = t.node[i].dead /\ w[j].dead = t.node[j].dead
        BY <3>5, <1>6
      <4>2. IF t.node[j].dead THEN j \in On(t, i) ELSE i = j
        BY <4>1, <2>1 DEF Good, KeyOnce
      <4> QED BY <4>1, <4>2, <3>5, <1>10
    <3> QED BY <3>1, <3>2, <3>3, <3>4, <3>5
  <2> QED BY <2>1, <1>7 DEF KeyOnce
<1>14. FreeOk(u)
  <2>1. \A i \in Nodes(t) : i >= n => i > n \/ i = n BY <1>2 DEF Nodes
  <2>2. \A i \in Nodes(t) : i > n => w[i].key # 0
    <3>1. \A i \in Nodes(t) : i > n /\ i # mp => i # n BY <1>2 DEF Nodes
    <3> QED BY <3>1, <1>0, <1>2, <1>6
  <2>3. w[n].key # 0 BY <1>3, <1>6
  <2>4. \A i \in Nodes(t) : i >= n => w[i].key # 0 BY <2>1, <2>2, <2>3
  <2>5. u.dummy = t.dummy /\ u.sizenode = t.sizenode BY <1>7 DEF SameSizes
  <2> QED BY <2>4, <2>5, <1>2, <1>7 DEF FreeOk
<1>15. ASSUME NEW x \in Int \ {0}
       PROVE  Holds(u, x) <=> IF x = k THEN v = k ELSE Holds(t, x)
  <2>1. \A i \in Nodes(t) : t.node[i].val # k BY <1>0 DEF Good, NodeOk
  <2>2. Holds(u, x) <=> (x \in 1..t.sizearray /\ t.arr[x] = x) \/ \E i \in Nodes(t) : w[i].val = x
    BY <1>7 DEF Holds, SameSizes
  <2>3. CASE x = k
    <3>1. Holds(u, x) <=> \E i \in Nodes(t) : w[i].val = k BY <2>2, <2>3 DEF InArray
    <3>2. \A i \in Nodes(t) : w[i].val = k => i = mp BY <2>1, <1>6, <1>e
    <3> QED BY <3>1, <3>2, <2>3, <1>0, <1>6
  <2>4. CASE x # k
    <3>1. ASSUME NEW i \in Nodes(t), w[i].val = x PROVE \E j \in Nodes(t) : t.node[j].val = x
      BY <3>1, <2>4, <1>0, <1>6
    <3>2. ASSUME NEW i \in Nodes(t), t.node[i].val = x PROVE \E j \in Nodes(t) : w[j].val = x
      BY <3>2, <2>4, <1>2, <1>3, <1>6
    <3> QED BY <3>1, <3>2, <2>2, <2>4 DEF Holds
  <2> QED BY <2>3, <2>4
<1>16. Fresh(t) /\ v = k => Fresh(u) BY <1>6, <1>7, <1>e DEF Fresh
<1>17. Stored(t, u, k, v)
  BY <1>7, <1>9, <1>11, <1>12, <1>13, <1>14, <1>15, <1>16 DEF Stored, Good
<1> QED BY <1>17 DEF u

\* luaH_set, wherever there is a node for the key.
LEMMA StoreIs ==
  ASSUME NEW t, Good(t), NEW k \in Keys, NEW v \in {0, k}, Fits(t, k)
  PROVE  Stored(t, Store(t, k, v), k, v)
<1> DEFINE f == FindNode(t, k)
           mp == MainPosition(t, k)
<1>1. CASE InArray(t, k) BY <1>1, StoreInArray DEF Store
<1>2. CASE ~InArray(t, k) /\ f # -1
  <2>1. f \in Nodes(t) /\ t.node[f].key = k /\ ~t.node[f].dead BY <1>2, FindIs
  <2>2. Store(t, k, v) = [t EXCEPT !.node[f].val = v] BY <1>2 DEF Store
  <2> HIDE DEF f
  <2> QED BY <1>2, <2>1, <2>2, StoreInNode
<1>3. CASE ~InArray(t, k) /\ f = -1
  <2>1. \A i \in Nodes(t) : t.node[i].key = k => t.node[i].dead
    BY <1>3, FindIs, TypeIs DEF Good
  <2>2. Store(t, k, v) = NewKey(t, k, v) BY <1>3 DEF Store
  <2>3. CASE ~Live(t.node[mp].val) /\ ~t.dummy
    <3>1. NewKey(t, k, v) = Put(t, mp, k, v) BY <2>3 DEF NewKey
    <3> QED BY <3>1, <2>1, <2>2, <2>3, <1>3, StoreAtMain
  <2>4. CASE ~(~Live(t.node[mp].val) /\ ~t.dummy)
    <3>1. FreePositions(t) # {} BY <2>4, <1>3 DEF Fits
    <3>2. ~t.dummy BY <3>1, FreeIs
    <3>3. CASE MainPosition(t, t.node[mp].key) = mp
      BY <3>1, <3>2, <3>3, <2>1, <2>2, <2>4, <1>3, StoreChained
    <3>4. CASE MainPosition(t, t.node[mp].key) # mp
      BY <3>1, <3>2, <3>4, <2>1, <2>2, <2>4, <1>3, StoreMoved
    <3> QED BY <3>3, <3>4
  <2> QED BY <2>3, <2>4
<1> QED BY <1>1, <1>2, <1>3
-----------------------------------------------------------------------------
(* resize: all that was in the table is put into a new one.                *)

LEMMA EmptyIs ==
  ASSUME NEW u, IsTable(u), u.sizearray \in Nat, ArrOk(u),
         u.arr = [i \in 1..u.sizearray |-> u.arr[i]],
         NEW nh \in Nat, NEW n \in Nat \ {0}, nh = 0 => n = 1, u.sizenode = n,
         u.node = [i \in 0..(n - 1) |-> FreeNode], u.dummy \in BOOLEAN,
         u.dummy <=> nh = 0,
         u.lastfree = IF nh = 0 THEN 0 ELSE n
  PROVE  /\ Good(u) /\ Fresh(u)
         /\ \A x \in Int \ {0} : Holds(u, x) <=> x \in 1..u.sizearray /\ u.arr[x] = x
<1>3. Nodes(u) = 0..(n - 1) BY DEF Nodes
<1>4. \A i \in Nodes(u) : u.node[i] = FreeNode BY <1>3
<1>5. FreeNode.key = 0 /\ FreeNode.val = 0 /\ FreeNode.next = -1 /\ ~FreeNode.dead
  BY DEF FreeNode
<1>6. FreeNode \in NodeType(u) BY DEF FreeNode, NodeType
<1>7. u.node \in [Nodes(u) -> NodeType(u)] BY <1>3, <1>6
<1>8. TType(u) BY <1>7 DEF TType
<1>10. NodeOk(u)
  <2>1. \A i \in Nodes(u) : /\ u.node[i].key = 0 /\ u.node[i].val = 0 /\ u.node[i].next = -1
                             /\ ~u.node[i].dead
    BY <1>4, <1>5
  <2>2. 0 \notin 1..u.sizearray OBVIOUS
  <2> QED BY <2>1, <2>2 DEF NodeOk
<1>11. LinkOnce(u) /\ Acyclic(u) BY <1>4, <1>5 DEF LinkOnce, Acyclic
<1>12. Homed(u) /\ KeyOnce(u) BY <1>4, <1>5 DEF Homed, KeyOnce
<1>13. FreeOk(u)
  <2>1. CASE nh = 0
    <3>1. n = 1 BY <2>1
    <3>2. 0 \in Nodes(u) BY <3>1, <1>3
    <3>3. u.node[0].key = 0 BY <3>2, <1>4, <1>5
    <3>4. u.lastfree = 0 BY <2>1
    <3>6. u.sizenode = 1 BY <3>1
    <3>5. u.dummy BY <2>1
    <3> QED BY <3>3, <3>4, <3>5, <3>6 DEF FreeOk
  <2>2. CASE nh # 0
    <3>1. u.lastfree = n /\ u.sizenode = n BY <2>2
    <3>2. ~u.dummy BY <2>2
    <3>3. \A i \in Nodes(u) : ~(i >= n) BY <1>3
    <3> QED BY <3>1, <3>2, <3>3 DEF FreeOk
  <2> QED BY <2>1, <2>2
<1>14. Fresh(u) BY <1>4, <1>5 DEF Fresh
<1>15. \A x \in Int \ {0} : Holds(u, x) <=> x \in 1..u.sizearray /\ u.arr[x] = x
  BY <1>4, <1>5 DEF Holds
<1> QED BY <1>8, <1>10, <1>11, <1>12, <1>13, <1>14, <1>15 DEF Good

LEMMA SetNodeVectorIs ==
  ASSUME NEW t, IsTable(t), NEW nh \in Nat, t.sizearray \in Nat,
         t.arr = [i \in 1..t.sizearray |-> t.arr[i]], ArrOk(t)
  PROVE  LET u == SetNodeVector(t, nh)
         IN  /\ Good(u) /\ Fresh(u) /\ u.sizearray = t.sizearray
             /\ u.sizenode >= nh /\ (u.dummy <=> nh = 0)
             /\ \A x \in Int \ {0} : Holds(u, x) <=> x \in 1..t.sizearray /\ t.arr[x] = x
<1> DEFINE u == SetNodeVector(t, nh)
           n == IF nh = 0 THEN 1 ELSE Pow2[CeilLog2(nh)]
           f == IF nh = 0 THEN 0 ELSE n
           w == [i \in 0..(n - 1) |-> FreeNode]
<1>1. n \in Nat \ {0} /\ n >= nh /\ (nh = 0 => n = 1)
  <2> DEFINE p == Pow2[CeilLog2(nh)]
  <2>1. p \in Nat /\ p >= nh BY CeilLog2Is
  <2> HIDE DEF p
  <2>2. n = IF nh = 0 THEN 1 ELSE p BY DEF p
  <2> HIDE DEF n
  <2> QED BY <2>1, <2>2
<1>2. u = [t EXCEPT !.node = w, !.sizenode = n, !.dummy = nh = 0, !.lastfree = f]
  BY DEF SetNodeVector
<1>3. f = IF nh = 0 THEN 0 ELSE n OBVIOUS
<1> HIDE DEF u, n, f
<1>4. u = [arr |-> t.arr, sizearray |-> t.sizearray, node |-> w, sizenode |-> n,
           dummy |-> nh = 0, lastfree |-> f]
  <2> HIDE DEF w
  <2> QED BY <1>2 DEF IsTable
<1>5. /\ u.arr = t.arr /\ u.sizearray = t.sizearray /\ u.node = w /\ u.sizenode = n
      /\ u.dummy \in BOOLEAN /\ (u.dummy <=> nh = 0) /\ u.lastfree = IF nh = 0 THEN 0 ELSE n
  BY <1>3, <1>4
<1>5a. IsTable(u) BY <1>4, <1>5 DEF IsTable
<1>5b. ArrOk(u) BY <1>5 DEF ArrOk
<1>6. /\ Good(u) /\ Fresh(u) /\ u.sizearray = t.sizearray /\ u.sizenode = n
      /\ (u.dummy <=> nh = 0)
      /\ \A x \in Int \ {0} : Holds(u, x) <=> x \in 1..t.sizearray /\ t.arr[x] = x
  <2>1. u.sizearray \in Nat /\ u.arr = [i \in 1..u.sizearray |-> u.arr[i]] BY <1>5
  <2>2. u.node = [i \in 0..(n - 1) |-> FreeNode] /\ u.sizenode = n BY <1>5
  <2>3. /\ u.dummy \in BOOLEAN /\ (u.dummy <=> nh = 0)
        /\ u.lastfree = IF nh = 0 THEN 0 ELSE n
    BY <1>5
  <2> HIDE DEF w
  <2>4. /\ Good(u) /\ Fresh(u)
        /\ \A x \in Int \ {0} : Holds(u, x) <=> x \in 1..u.sizearray /\ u.arr[x] = x
    BY <1>1, <1>5a, <1>5b, <2>1, <2>2, <2>3, EmptyIs
  <2>5. u.sizearray = t.sizearray /\ u.arr = t.arr BY <1>5
  <2> QED BY <2>2, <2>3, <2>4, <2>5
<1> QED BY <1>1, <1>6 DEF u

LEMMA NewTableIs ==
  ASSUME NEW na \in Nat, NEW nh \in Nat
  PROVE  Good(NewTable(na, nh)) /\ \A x \in Int \ {0} : ~Holds(NewTable(na, nh), x)
<1> DEFINE t == [arr |-> [i \in 1..na |-> 0], sizearray |-> na, node |-> <<>>,
                 sizenode |-> 0, dummy |-> TRUE, lastfree |-> 0]
<1>1. NewTable(na, nh) = SetNodeVector(t, nh) BY DEF NewTable
<1>2. IsTable(t) BY DEF IsTable
<1>3. /\ t.sizearray = na /\ t.arr = [i \in 1..na |-> 0]
      /\ t.arr = [i \in 1..t.sizearray |-> t.arr[i]]
  OBVIOUS
<1>4. ArrOk(t) BY <1>3 DEF ArrOk
<1> HIDE DEF t
<1>5. LET u == SetNodeVector(t, nh)
      IN  Good(u) /\ \A x \in Int \ {0} : Holds(u, x) <=> x \in 1..t.sizearray /\ t.arr[x] = x
  BY <1>2, <1>3, <1>4, SetNodeVectorIs
<1>6. ASSUME NEW x \in Int \ {0} PROVE ~Holds(NewTable(na, nh), x)
  <2>1. Holds(NewTable(na, nh), x) <=> x \in 1..na /\ t.arr[x] = x BY <1>1, <1>3, <1>5
  <2> QED BY <2>1, <1>3
<1> QED BY <1>1, <1>5, <1>6

\* A table made for the keys of S has a node for each of them.
LEMMA NodeLeft ==
  ASSUME NEW t, Good(t), Fresh(t), NEW nh \in Nat, t.sizenode >= nh, t.dummy <=> nh = 0,
         NEW S, IsFiniteSet(S), Cardinality(S) <= nh, NEW k \in S, k \in Keys,
         \A i \in Nodes(t) : t.node[i].key # 0 => t.node[i].key \in S
  PROVE  Fits(t, k)
<1> SUFFICES ASSUME ~Fits(t, k) PROVE FALSE
  OBVIOUS
<1>0. /\ TType(t) /\ t.sizenode \in Nat \ {0} /\ Cardinality(S) \in Nat
  BY FS_CardinalityType DEF Good, TType
<1>1. Cardinality(S \ {k}) = Cardinality(S) - 1 /\ IsFiniteSet(S \ {k})
  BY FS_RemoveElement
<1>2. Cardinality(S \ {k}) \in Nat BY <1>1, FS_CardinalityType
<1>3. nh # 0 /\ ~t.dummy BY <1>0, <1>1, <1>2
<1>4. \A i \in Nodes(t) : t.node[i].key # 0
  <2>1. t.lastfree \in 0..t.sizenode /\ \A i \in Nodes(t) : i >= t.lastfree => t.node[i].key # 0
    BY <1>3 DEF Good, FreeOk
  <2>2. \A i \in 0..(t.lastfree - 1) : t.node[i].key # 0 BY DEF Fits, FreePositions
  <2> QED BY <2>1, <2>2, <1>0 DEF Nodes
<1>5. \A i \in Nodes(t) : ~t.node[i].dead
  BY <1>4 DEF Good, NodeOk, Fresh
<1>6. \A i \in Nodes(t) : t.node[i].key # k
  <2>1. FindNode(t, k) = -1 BY DEF Fits
  <2>2. -1 \notin Nodes(t) BY <1>0, TypeIs
  <2> QED BY <2>1, <2>2, <1>5, FindIs
<1> DEFINE f == [i \in Nodes(t) |-> t.node[i].key]
<1>7. f \in Injection(Nodes(t), S \ {k})
  <2>1. f \in [Nodes(t) -> S \ {k}] BY <1>4, <1>6
  <2>2. ASSUME NEW i \in Nodes(t), NEW j \in Nodes(t), f[i] = f[j] PROVE i = j
    BY <2>2, <1>4, <1>5 DEF Good, KeyOnce
  <2> HIDE DEF f
  <2> QED BY <2>1, <2>2 DEF Injection, IsInjective
<1>8. Cardinality(Nodes(t)) <= Cardinality(S \ {k})
  <2> HIDE DEF f
  <2> QED BY <1>1, <1>7, FS_Injection
<1>9. Cardinality(Nodes(t)) = t.sizenode
  <2>1. 0 \in Int /\ t.sizenode - 1 \in Int BY <1>0
  <2>2. Cardinality(0..(t.sizenode - 1))
          = IF 0 > t.sizenode - 1 THEN 0 ELSE (t.sizenode - 1) - 0 + 1
    BY <2>1, FS_Interval
  <2> QED BY <2>2, <1>0 DEF Nodes
<1> QED BY <1>0, <1>1, <1>8, <1>9

LEMMA ReinsertIs ==
  ASSUME NEW t, Good(t), Fresh(t), NEW nh \in Nat, t.sizenode >= nh, t.dummy <=> nh = 0,
         NEW S, IsFiniteSet(S), Cardinality(S) <= nh,
         NEW n \in Nat, NEW vals,
         \A i \in 1..n : vals[i] # 0 => /\ vals[i] \in Keys
                                        /\ vals[i] \in 1..t.sizearray \/ vals[i] \in S,
         \A i \in Nodes(t) : t.node[i].key = 0
  PROVE  LET u == Reinsert(t, vals, n)
         IN  /\ Good(u) /\ Fresh(u) /\ SameSizes(t, u)
             /\ \A x \in Int \ {0} : Holds(u, x) <=> Holds(t, x) \/ \E i \in 1..n : vals[i] = x
<1> DEFINE P(k, m) ==
             k = [i \in 0..m |-> IF i = 0 THEN t
                                 ELSE IF Live(vals[i]) THEN Store(k[i - 1], vals[i], vals[i])
                                 ELSE k[i - 1]]
           T == {m \in Nat : \E k : P(k, m)}
           c == CHOOSE k : P(k, n)
<1>1. Nat \subseteq T
  <2>1. 0 \in T
    <3> DEFINE k == [i \in 0..0 |-> t]
    <3>1. P(k, 0) OBVIOUS
    <3> QED BY <3>1
  <2>2. ASSUME NEW m \in Nat, m \in T PROVE m + 1 \in T
    <3>1. PICK h : P(h, m) BY <2>2
    <3> DEFINE next == IF Live(vals[m + 1]) THEN Store(h[m], vals[m + 1], vals[m + 1]) ELSE h[m]
               k == [i \in 0..(m + 1) |-> IF i = m + 1 THEN next ELSE h[i]]
    <3>2. ASSUME NEW i \in 0..(m + 1)
          PROVE  k[i] = IF i = 0 THEN t
                        ELSE IF Live(vals[i]) THEN Store(k[i - 1], vals[i], vals[i])
                        ELSE k[i - 1]
      <4>1. CASE i = m + 1
        <5>1. m \in 0..(m + 1) /\ m # m + 1 /\ (m + 1) - 1 = m /\ m + 1 # 0
              /\ m + 1 \in 0..(m + 1)
          OBVIOUS
        <5>2. k[m + 1] = next /\ k[m] = h[m]
          <6> HIDE DEF next, P
          <6> QED BY <5>1
        <5> HIDE DEF k, P
        <5> QED BY <4>1, <5>1, <5>2
      <4>2. CASE i # m + 1
        <5>1. i \in 0..m /\ (i # 0 => i - 1 \in 0..(m + 1) /\ i - 1 # m + 1) BY <4>2
        <5>2. k[i] = h[i] /\ (i # 0 => k[i - 1] = h[i - 1])
          <6> HIDE DEF next, P
          <6> QED BY <5>1, <4>2
        <5>3. h[i] = IF i = 0 THEN t
                     ELSE IF Live(vals[i]) THEN Store(h[i - 1], vals[i], vals[i])
                     ELSE h[i - 1]
          BY <3>1, <5>1
        <5> HIDE DEF k, P
        <5> QED BY <5>2, <5>3
      <4> QED BY <4>1, <4>2
    <3>3. P(k, m + 1)
      <4>1. k = [i \in 0..(m + 1) |-> k[i]] OBVIOUS
      <4> HIDE DEF k
      <4> QED BY <3>2, <4>1
    <3> HIDE DEF P, k
    <3> QED BY <3>3
  <2> HIDE DEF T
  <2> QED BY <2>1, <2>2, NatsAll
<1>2. P(c, n)
  <2>1. n \in T BY <1>1
  <2> QED BY <2>1
<1>3. Reinsert(t, vals, n) = c[n] BY DEF Reinsert
<1>4. c[0] = t
  <2>1. 0 \in 0..n OBVIOUS
  <2> QED BY <2>1, <1>2
<1>5. ASSUME NEW i \in 0..(n - 1)
      PROVE  c[i + 1] = IF Live(vals[i + 1]) THEN Store(c[i], vals[i + 1], vals[i + 1]) ELSE c[i]
  <2>1. i + 1 \in 0..n /\ i + 1 # 0 /\ (i + 1) - 1 = i OBVIOUS
  <2> HIDE DEF c
  <2> QED BY <2>1, <1>2
<1> HIDE DEF P, T, c
<1> DEFINE Ok(u, m) ==
             /\ Good(u) /\ Fresh(u) /\ SameSizes(t, u)
             /\ \A x \in Int \ {0} : Holds(u, x) <=> Holds(t, x) \/ \E i \in 1..m : vals[i] = x
           G == {m \in Nat : m <= n => Ok(c[m], m)}
<1>6. Ok(t, 0)
  <2>1. ~\E i \in 1..0 : TRUE OBVIOUS
  <2> QED BY <2>1 DEF SameSizes
<1>7. ASSUME NEW m \in 0..(n - 1), Ok(c[m], m) PROVE Ok(c[m + 1], m + 1)
  <2> DEFINE u == c[m]
             k == vals[m + 1]
  <2>0. m \in Nat /\ m + 1 \in 1..n /\ 1..(m + 1) = 1..m \cup {m + 1} OBVIOUS
  <2>1. Good(u) /\ Fresh(u) /\ SameSizes(t, u) BY <1>7
  <2>1a. \A x \in Int \ {0} : Holds(u, x) => Holds(t, x) \/ \E i \in 1..m : vals[i] = x BY <1>7
  <2>2. CASE k = 0
    <3>1. c[m + 1] = u BY <1>5, <2>2 DEF Live
    <3>2. \A x \in Int \ {0} : (\E i \in 1..(m + 1) : vals[i] = x) <=> \E i \in 1..m : vals[i] = x
      BY <2>0, <2>2
    <3> HIDE DEF u, k
    <3> QED BY <1>7, <3>1, <3>2 DEF u
  <2>3. CASE k # 0
    <3>1. k \in Keys /\ (k \in 1..t.sizearray \/ k \in S) BY <2>0, <2>3
    <3>2. c[m + 1] = Store(u, k, k) BY <1>5, <2>3 DEF Live
    <3>3. Fits(u, k)
      <4>1. CASE k \in 1..t.sizearray
        <5>1. k \in 1..u.sizearray BY <4>1, <2>1 DEF SameSizes
        <5> QED BY <5>1 DEF Fits, InArray
      <4>2. CASE k \in S
        <5>1. ASSUME NEW i \in Nodes(u), u.node[i].key # 0 PROVE u.node[i].key \in S
          <6> DEFINE y == u.node[i].key
          <6> HIDE DEF u
          <6>0. TType(u) /\ NodeOk(u) BY <2>1 DEF Good
          <6>1a. u.node[i].key \in Keys \cup {0} BY <6>0, TypeIs
          <6>1b. u.node[i].val = u.node[i].key BY <2>1 DEF Fresh
          <6>1. u.node[i].val = y /\ y \in Keys /\ y \notin 1..u.sizearray
            BY <5>1, <6>0, <6>1a, <6>1b DEF NodeOk
          <6>2. y \in Int \ {0} /\ y \notin 1..t.sizearray
            BY <6>1, KeysIs, <2>1 DEF SameSizes
          <6>3. Holds(u, y) BY <6>1 DEF Holds
          <6>4. \A j \in Nodes(t) : t.node[j].val = 0 BY DEF Fresh
          <6>5. ~Holds(t, y) BY <6>2, <6>4 DEF Holds
          <6>6. \E j \in 1..m : vals[j] = y BY <2>1a, <6>2, <6>3, <6>5
          <6>7. \A j \in 1..m : j \in 1..n OBVIOUS
          <6> HIDE DEF y
          <6> QED BY <6>2, <6>6, <6>7 DEF y
        <5>2. u.sizenode >= nh /\ (u.dummy <=> nh = 0) BY <2>1 DEF SameSizes
        <5> HIDE DEF u, k
        <5> QED BY <5>1, <5>2, <2>1, <3>1, <4>2, NodeLeft
      <4> QED BY <3>1, <4>1, <4>2
    <3>4. Stored(u, Store(u, k, k), k, k)
      <4> HIDE DEF u, k
      <4> QED BY <2>1, <3>1, <3>3, StoreIs
    <3>5. /\ Good(c[m + 1]) /\ Fresh(c[m + 1]) /\ SameSizes(t, c[m + 1])
          /\ \A x \in Int \ {0} : Holds(c[m + 1], x) <=> x = k \/ Holds(u, x)
      <4> HIDE DEF u, k
      <4> QED BY <2>1, <3>2, <3>4 DEF Stored, SameSizes
    <3>6. ASSUME NEW x \in Int \ {0}
          PROVE  Holds(c[m + 1], x) <=> Holds(t, x) \/ \E i \in 1..(m + 1) : vals[i] = x
      <4>1. Holds(u, x) <=> Holds(t, x) \/ \E i \in 1..m : vals[i] = x BY <1>7
      <4> QED BY <4>1, <3>5, <2>0
    <3> QED BY <3>5, <3>6
  <2> QED BY <2>2, <2>3
<1>8. Nat \subseteq G
  <2>1. 0 \in G BY <1>4, <1>6
  <2>2. ASSUME NEW m \in Nat, m \in G PROVE m + 1 \in G
    <3> SUFFICES ASSUME m + 1 <= n PROVE Ok(c[m + 1], m + 1)
      OBVIOUS
    <3>1. m \in 0..(n - 1) /\ m <= n OBVIOUS
    <3>2. Ok(c[m], m) BY <2>2, <3>1
    <3> HIDE DEF Ok
    <3> QED BY <3>1, <3>2, <1>7
  <2> HIDE DEF G
  <2> QED BY <2>1, <2>2, NatsAll
<1>9. Ok(c[n], n)
  <2> HIDE DEF Ok
  <2> QED BY <1>8
<1> QED BY <1>3, <1>9

LEMMA ResizeIs ==
  ASSUME NEW t, Good(t), NEW na \in Nat, NEW nh \in Nat,
         NEW S, IsFiniteSet(S), Cardinality(S) <= nh,
         \A k \in Keys : Holds(t, k) => k \in 1..na \/ k \in S
  PROVE  LET u == Resize(t, na, nh)
         IN  /\ Good(u) /\ Fresh(u) /\ u.sizearray = na /\ u.sizenode >= nh
             /\ (u.dummy <=> nh = 0)
             /\ \A x \in Int \ {0} : Holds(u, x) <=> Holds(t, x)
<1> DEFINE kept == [i \in 1..na |-> IF InArray(t, i) THEN t.arr[i] ELSE 0]
           slice == IF t.sizearray > na THEN t.sizearray - na ELSE 0
           all == slice + t.sizenode
           vals == [i \in 1..all |-> IF i <= slice THEN t.arr[na + i]
                                     ELSE t.node[t.sizenode - (i - slice)].val]
           r == [t EXCEPT !.arr = kept, !.sizearray = na]
           fresh == SetNodeVector(r, nh)
           u == Reinsert(fresh, vals, all)
<1>1. Resize(t, na, nh) = u BY DEF Resize
<1>2. TType(t) /\ IsTable(t) /\ t.sizearray \in Nat /\ t.sizenode \in Nat \ {0} /\ ArrOk(t)
      /\ NodeOk(t)
  BY DEF Good, TType
<1>3. r = [arr |-> kept, sizearray |-> na, node |-> t.node, sizenode |-> t.sizenode,
           dummy |-> t.dummy, lastfree |-> t.lastfree]
  <2>1. r = [t EXCEPT !.arr = kept, !.sizearray = na] OBVIOUS
  <2> HIDE DEF kept, r
  <2> QED BY <1>2, <2>1 DEF IsTable
<1>4. \A i \in 1..na : kept[i] \in {0, i} /\ (kept[i] = i => i \in Keys /\ Holds(t, i))
  BY <1>2 DEF ArrOk, InArray, Holds
<1>5. kept = [i \in 1..na |-> kept[i]] OBVIOUS
<1>6. slice \in Nat /\ all \in Nat BY <1>2
<1>7. ASSUME NEW i \in 1..all
      PROVE  vals[i] # 0 => vals[i] \in Keys /\ Holds(t, vals[i])
  <2>1. CASE i <= slice
    <3>1. na + i \in 1..t.sizearray /\ vals[i] = t.arr[na + i] BY <2>1, <1>2
    <3> HIDE DEF vals
    <3> QED BY <3>1, <1>2 DEF ArrOk, Holds
  <2>2. CASE ~(i <= slice)
    <3> DEFINE j == t.sizenode - (i - slice)
    <3>1. j \in Nodes(t) /\ vals[i] = t.node[j].val BY <2>2, <1>2, <1>6 DEF Nodes
    <3> HIDE DEF vals, j
    <3> QED BY <3>1, <1>2, TypeIs DEF Holds
  <2> QED BY <2>1, <2>2
<1>8. ASSUME NEW x \in Int \ {0}, Holds(t, x), ~(x \in 1..na /\ kept[x] = x)
      PROVE  \E i \in 1..all : vals[i] = x
  <2>1. CASE x \in 1..t.sizearray /\ t.arr[x] = x
    <3>1. x \notin 1..na BY <1>8, <2>1 DEF InArray
    <3>2. x > na /\ x - na \in 1..slice /\ x - na \in 1..all /\ na + (x - na) = x
      BY <2>1, <3>1, <1>2
    <3>3. vals[x - na] = t.arr[x] BY <3>2
    <3> HIDE DEF vals
    <3> QED BY <2>1, <3>2, <3>3
  <2>2. CASE \E i \in Nodes(t) : t.node[i].val = x
    <3>1. PICK i \in Nodes(t) : t.node[i].val = x BY <2>2
    <3> DEFINE j == slice + t.sizenode - i
    <3>2. j \in 1..all /\ ~(j <= slice) /\ t.sizenode - (j - slice) = i
      BY <1>2, <1>6 DEF Nodes
    <3>3. vals[j] = t.node[i].val BY <3>2
    <3> HIDE DEF vals, j
    <3> QED BY <3>1, <3>2, <3>3
  <2> QED BY <2>1, <2>2, <1>8 DEF Holds
<1> HIDE DEF kept, slice, all, vals, r
<1>9. r.arr = kept /\ r.sizearray = na BY <1>3
<1>10. /\ Good(fresh) /\ Fresh(fresh) /\ fresh.sizearray = na
       /\ fresh.sizenode >= nh /\ (fresh.dummy <=> nh = 0)
       /\ \A x \in Int \ {0} : Holds(fresh, x) <=> x \in 1..na /\ kept[x] = x
       /\ \A i \in Nodes(fresh) : fresh.node[i].key = 0
  <2>1. IsTable(r) BY <1>3, <1>9 DEF IsTable
  <2>2. ArrOk(r) BY <1>4, <1>9 DEF ArrOk
  <2>3. r.arr = [i \in 1..r.sizearray |-> r.arr[i]] BY <1>5, <1>9
  <2>4. /\ Good(fresh) /\ Fresh(fresh) /\ fresh.sizearray = na
        /\ fresh.sizenode >= nh /\ (fresh.dummy <=> nh = 0)
        /\ \A x \in Int \ {0} : Holds(fresh, x) <=> x \in 1..na /\ kept[x] = x
    BY <1>9, <2>1, <2>2, <2>3, SetNodeVectorIs
  <2>5. ASSUME NEW i \in Nodes(fresh), fresh.node[i].key # 0 PROVE FALSE
    <3> DEFINE y == fresh.node[i].key
    <3>0. TType(fresh) /\ NodeOk(fresh) BY <2>4 DEF Good
    <3>1a. fresh.node[i].key \in Keys \cup {0} BY <3>0, TypeIs
    <3>1b. fresh.node[i].val = fresh.node[i].key BY <2>4 DEF Fresh
    <3>1. fresh.node[i].val = y /\ y \in Keys /\ y \notin 1..fresh.sizearray
      BY <2>5, <3>0, <3>1a, <3>1b DEF NodeOk
    <3>2. Holds(fresh, y) /\ y \in Int \ {0} BY <3>1, KeysIs DEF Holds
    <3> QED BY <3>1, <3>2, <2>4
  <2> QED BY <2>4, <2>5
<1> HIDE DEF fresh
<1>11. \A i \in 1..all : vals[i] # 0 => /\ vals[i] \in Keys
                                        /\ vals[i] \in 1..fresh.sizearray \/ vals[i] \in S
  BY <1>7, <1>10
<1>12. /\ Good(u) /\ Fresh(u) /\ SameSizes(fresh, u)
       /\ \A x \in Int \ {0} : Holds(u, x) <=> Holds(fresh, x) \/ \E i \in 1..all : vals[i] = x
  BY <1>6, <1>10, <1>11, ReinsertIs
<1> HIDE DEF u
<1>13. ASSUME NEW x \in Int \ {0} PROVE Holds(u, x) <=> Holds(t, x)
  <2>1. Holds(fresh, x) <=> x \in 1..na /\ kept[x] = x BY <1>10
  <2>2. Holds(fresh, x) => Holds(t, x) BY <2>1, <1>4
  <2>3. (\E i \in 1..all : vals[i] = x) => Holds(t, x) BY <1>7
  <2>4. Holds(t, x) => Holds(fresh, x) \/ \E i \in 1..all : vals[i] = x BY <2>1, <1>8
  <2> QED BY <2>2, <2>3, <2>4, <1>12
<1> QED BY <1>1, <1>10, <1>12, <1>13 DEF SameSizes

\* The key of a node in a table that no value has been cleared in.
LEMMA FreshKeys ==
  ASSUME NEW t, Good(t), Fresh(t), NEW i \in Nodes(t), t.node[i].key # 0
  PROVE  /\ t.node[i].key \in Keys /\ t.node[i].key \notin 1..t.sizearray
         /\ Holds(t, t.node[i].key)
<1>1. TType(t) /\ NodeOk(t) BY DEF Good
<1>2. t.node[i].key \in Keys \cup {0} BY <1>1, TypeIs
<1>3. t.node[i].val = t.node[i].key BY DEF Fresh
<1> QED BY <1>1, <1>2, <1>3 DEF NodeOk, Holds

LEMMA ComputeSizesIs ==
  ASSUME NEW K \in SUBSET Keys
  PROVE  ComputeSizes(K) \in Nat
<1> DEFINE total == Cardinality({k \in K : k > 0})
           fits == {i \in 0..total :
                      /\ Pow2[i] < 2 * total
                      /\ \E k \in K : 2 * k > Pow2[i] /\ k <= Pow2[i]
                      /\ 2 * UpTo(K, Pow2[i]) > Pow2[i]}
<1>1. ComputeSizes(K) = IF fits = {} THEN 0 ELSE Pow2[Max(fits)] BY DEF ComputeSizes
<1>2. total \in Nat
  <2>1. IsFiniteSet({k \in K : k > 0}) BY KeysIs, FS_Subset
  <2> QED BY <2>1, FS_CardinalityType
<1>3. fits \subseteq 0..total OBVIOUS
<1> HIDE DEF fits, total
<1>4. fits # {} => Max(fits) \in Nat
  <2> SUFFICES ASSUME fits # {} PROVE Max(fits) \in Nat
    OBVIOUS
  <2>1. Max(fits) \in fits BY <1>2, <1>3, MaxIs
  <2>2. fits \subseteq Nat BY <1>2, <1>3
  <2> QED BY <2>1, <2>2
<1> QED BY <1>1, <1>4, Pow2Is

LEMMA SetRawIs ==
  ASSUME NEW t, Good(t), NEW k \in Keys, NEW v \in {0, k}
  PROVE  LET u == SetRaw(t, k, v)
         IN  /\ Good(u)
             /\ \A x \in Int \ {0} : Holds(u, x) <=> IF x = k THEN v = k ELSE Holds(t, x)
<1>1. CASE Fits(t, k)
  <2>1. SetRaw(t, k, v) = Store(t, k, v) BY <1>1 DEF SetRaw
  <2> QED BY <1>1, <2>1, StoreIs DEF Stored
<1>2. CASE ~Fits(t, k)
  <2> DEFINE K == UsedKeys(t) \cup {k}
             na == ComputeSizes(K)
             S == K \ 1..na
             nh == Cardinality(K) - UpTo(K, na)
             r == Resize(t, na, nh)
  <2>1. SetRaw(t, k, v) = Store(r, k, v) BY <1>2 DEF SetRaw, Rehash
  <2>2. K \in SUBSET Keys /\ IsFiniteSet(K)
    <3>1. K \in SUBSET Keys BY DEF UsedKeys
    <3> HIDE DEF K
    <3> QED BY <3>1, KeysIs, FS_Subset
  <2>3. \A x \in Keys : Holds(t, x) => x \in K
    <3>1. \A x \in Keys : x \in Int /\ x # 0 BY KeysIs
    <3>2. \A x \in Keys : Holds(t, x) => Get(t, x) = x BY <3>1, GetIs
    <3> QED BY <3>1, <3>2 DEF UsedKeys, Live
  <2> HIDE DEF K
  <2>4. na \in Nat BY <2>2, ComputeSizesIs
  <2> HIDE DEF na
  <2>5. IsFiniteSet(S) /\ Cardinality(S) = nh /\ nh \in Nat
    <3>1. IsFiniteSet(S) /\ Cardinality(S) = Cardinality(K) - Cardinality(K \cap (1..na))
      BY <2>2, FS_Difference
    <3>2. K \cap (1..na) = {x \in K : x \in 1..na} OBVIOUS
    <3>3. Cardinality(S) = nh BY <3>1, <3>2 DEF UpTo
    <3> HIDE DEF nh, S
    <3> QED BY <3>1, <3>3, FS_CardinalityType
  <2>6. \A x \in Keys : Holds(t, x) => x \in 1..na \/ x \in S BY <2>3
  <2>7. nh <= nh BY <2>5
  <2> HIDE DEF S, nh
  <2>8. /\ Good(r) /\ Fresh(r) /\ r.sizearray = na /\ r.sizenode >= nh /\ (r.dummy <=> nh = 0)
        /\ \A x \in Int \ {0} : Holds(r, x) <=> Holds(t, x)
    BY <2>4, <2>5, <2>6, <2>7, ResizeIs
  <2> HIDE DEF r
  <2>9. Fits(r, k)
    <3>1. CASE k \in 1..na BY <3>1, <2>8 DEF Fits, InArray
    <3>2. CASE k \notin 1..na
      <4>1. k \in S BY <3>2 DEF S, K
      <4>2. ASSUME NEW i \in Nodes(r), r.node[i].key # 0 PROVE r.node[i].key \in S
        <5>1. /\ r.node[i].key \in Keys /\ r.node[i].key \notin 1..na
              /\ Holds(r, r.node[i].key)
          BY <4>2, <2>8, FreshKeys
        <5> QED BY <5>1, <2>6, <2>8, KeysIs
      <4> QED BY <4>1, <4>2, <2>5, <2>7, <2>8, NodeLeft
    <3> QED BY <3>1, <3>2
  <2>10. Stored(r, Store(r, k, v), k, v) BY <2>8, <2>9, StoreIs
  <2> QED BY <2>1, <2>8, <2>10 DEF Stored
<1> QED BY <1>1, <1>2

LEMMA SetListIs ==
  ASSUME NEW t, Good(t), NEW n \in Nat, n > t.sizearray
  PROVE  LET u == Resize(t, n, IF t.dummy THEN 0 ELSE t.sizenode)
         IN  Good(u) /\ \A x \in Int \ {0} : Holds(u, x) <=> Holds(t, x)
<1> DEFINE S == {k \in Keys : \E i \in Nodes(t) : t.node[i].val = k}
           nh == IF t.dummy THEN 0 ELSE t.sizenode
           at == [k \in S |-> CHOOSE i \in Nodes(t) : t.node[i].val = k]
<1>1. TType(t) /\ NodeOk(t) /\ FreeOk(t) /\ t.sizenode \in Nat \ {0} BY DEF Good, TType
<1>2. IsFiniteSet(S) /\ Cardinality(S) \in Nat BY KeysIs, FS_Subset, FS_CardinalityType
<1>3. \A k \in S : at[k] \in Nodes(t) /\ t.node[at[k]].val = k OBVIOUS
<1>4. Cardinality(Nodes(t)) = t.sizenode /\ IsFiniteSet(Nodes(t))
  <2>1. 0 \in Int /\ t.sizenode - 1 \in Int BY <1>1
  <2>2. IsFiniteSet(0..(t.sizenode - 1)) /\ Cardinality(0..(t.sizenode - 1))
          = IF 0 > t.sizenode - 1 THEN 0 ELSE (t.sizenode - 1) - 0 + 1
    BY <2>1, FS_Interval
  <2> QED BY <2>2, <1>1 DEF Nodes
<1>5. Cardinality(S) <= t.sizenode
  <2>1. at \in [S -> Nodes(t)] OBVIOUS
  <2> HIDE DEF at, S
  <2>2. at \in Injection(S, Nodes(t)) BY <1>3, <2>1 DEF Injection, IsInjective
  <2> QED BY <2>2, <1>4, FS_Injection
<1>6. t.dummy => Cardinality(S) = 0
  <2> SUFFICES ASSUME t.dummy PROVE Cardinality(S) = 0
    OBVIOUS
  <2>1. t.sizenode = 1 /\ t.node[0].key = 0 BY <1>1 DEF FreeOk
  <2>2. \A i \in Nodes(t) : t.node[i].val = 0 BY <1>1, <2>1 DEF NodeOk, Nodes
  <2>3. S = {} BY <2>2, KeysIs
  <2> HIDE DEF S
  <2> QED BY <2>3, FS_EmptySet
<1>7. nh \in Nat /\ Cardinality(S) <= nh BY <1>1, <1>2, <1>5, <1>6
<1>8. \A k \in Keys : Holds(t, k) => k \in 1..n \/ k \in S
  <2>1. \A k \in 1..t.sizearray : k \in 1..n BY DEF Good, TType
  <2> QED BY <2>1 DEF Holds
<1> HIDE DEF S
<1>9. Resize(t, n, IF t.dummy THEN 0 ELSE t.sizenode) = Resize(t, n, nh) OBVIOUS
<1> HIDE DEF nh
<1> QED BY <1>2, <1>7, <1>8, <1>9, ResizeIs
-----------------------------------------------------------------------------
(* findindex, and the collector that lets a key of an empty node go.       *)

Found(t, k) == {i \in On(t, MainPosition(t, k)) : t.node[i].key = k}

LEMMA FirstAny ==
  ASSUME NEW t, Good(t), NEW k \in Keys
  PROVE  \/ Found(t, k) = {} /\ First(t, k, BOOLEAN) = -1
         \/ /\ First(t, k, BOOLEAN) \in Found(t, k)
            /\ Found(t, k) \subseteq On(t, First(t, k, BOOLEAN))
<1> DEFINE mp == MainPosition(t, k)
           found == Found(t, k)
           R == {i \in Nodes(t) : found \subseteq On(t, i)}
           T == {Cardinality(On(t, i)) : i \in R}
<1>1. Linked(t) /\ Acyclic(t) /\ mp \in Nodes(t)
  BY TypeIs, MainIs DEF Good, TType
<1>2. Chain(t, mp) = On(t, mp) /\ On(t, mp) \subseteq Nodes(t) BY <1>1, ChainIs, OnIs
<1>3. found = {i \in Chain(t, mp) : t.node[i].key = k /\ t.node[i].dead \in BOOLEAN}
  BY <1>2, TypeIs DEF Good, Found
<1>4. First(t, k, BOOLEAN)
        = IF found = {} THEN -1 ELSE CHOOSE i \in found : found \subseteq Chain(t, i)
  BY <1>3 DEF First
<1>5. found \subseteq Nodes(t) /\ found \subseteq On(t, mp) BY <1>2 DEF Found
<1>6. CASE found = {} BY <1>4, <1>6
<1>7. CASE found # {}
  <2>1. T \subseteq Nat /\ T # {}
    <3>1. mp \in R BY <1>1, <1>5
    <3> HIDE DEF found, mp
    <3> QED BY <3>1, <1>1, OnFinite
  <2>2. PICK n \in T : \A m \in T : ~(m < n)
    <3> HIDE DEF T
    <3> QED BY <2>1, LeastNat
  <2>3. PICK i \in R : n = Cardinality(On(t, i)) BY <2>2
  <2>4. i \in Nodes(t) /\ found \subseteq On(t, i) BY <2>3
  <2>5. i \in found
    <3> SUFFICES ASSUME i \notin found PROVE FALSE
      OBVIOUS
    <3> DEFINE q == t.node[i].next
    <3>1. On(t, i) = {i} \cup (IF q = -1 THEN {} ELSE On(t, q)) BY <1>1, <2>4, OnStep
    <3>2. q # -1 /\ q \in Nodes(t) /\ found \subseteq On(t, q)
      BY <1>1, <1>7, <2>4, <3>1 DEF Linked
    <3>3. On(t, q) \subseteq On(t, i) /\ i \in On(t, i) /\ i \notin On(t, q)
      BY <1>1, <2>4, <3>1, <3>2 DEF Acyclic
    <3>4. IsFiniteSet(On(t, i)) BY <1>1, <2>4, OnFinite
    <3>5. Cardinality(On(t, q)) < Cardinality(On(t, i))
      <4>1. On(t, q) # On(t, i) BY <3>3
      <4>2. Cardinality(On(t, q)) \in Nat /\ Cardinality(On(t, i)) \in Nat
        BY <1>1, <2>4, <3>2, OnFinite
      <4>3. Cardinality(On(t, q)) <= Cardinality(On(t, i))
            /\ Cardinality(On(t, i)) # Cardinality(On(t, q))
        BY <4>1, <3>3, <3>4, FS_Subset
      <4> HIDE DEF q
      <4> QED BY <4>2, <4>3
    <3>6. Cardinality(On(t, q)) \in T BY <3>2
    <3> HIDE DEF T, q
    <3> QED BY <2>2, <2>3, <3>5, <3>6
  <2>6. found \subseteq Chain(t, i) BY <1>1, <2>4, ChainIs
  <2> DEFINE c == CHOOSE j \in found : found \subseteq Chain(t, j)
  <2>7. c \in found /\ found \subseteq Chain(t, c)
    <3> HIDE DEF found
    <3> QED BY <2>5, <2>6
  <2>8. First(t, k, BOOLEAN) = c BY <1>4, <1>7
  <2> HIDE DEF c, found
  <2>9. found \subseteq On(t, c) BY <1>1, <1>5, <2>7, ChainIs
  <2> QED BY <2>7, <2>8, <2>9 DEF found
<1> QED BY <1>6, <1>7

\* Where a key stands depends on the keys and on the chains only.
LEMMA FindIndexSame ==
  ASSUME NEW t, Good(t), NEW u, Good(u), SameSizes(t, u),
         \A i \in Nodes(t) : u.node[i].key = t.node[i].key /\ u.node[i].next = t.node[i].next,
         NEW k \in Keys \cup {0}
  PROVE  FindIndex(u, k) = FindIndex(t, k)
<1>1. Nodes(u) = Nodes(t) /\ u.sizenode = t.sizenode /\ u.sizearray = t.sizearray
  BY DEF SameSizes, Nodes
<1>2. CASE k = 0 \/ InArray(t, k) BY <1>1, <1>2 DEF FindIndex, InArray
<1>3. CASE k \in Keys
  <2> DEFINE f == First(t, k, BOOLEAN)
             g == First(u, k, BOOLEAN)
             found == Found(t, k)
  <2>1. \A i : On(u, i) = On(t, i) BY <1>1, OnSame
  <2>2. MainPosition(u, k) = MainPosition(t, k) BY <1>1, MainSame
  <2>3. Linked(t) /\ Acyclic(t) /\ MainPosition(t, k) \in Nodes(t)
    BY <1>3, TypeIs, MainIs DEF Good, TType
  <2>4. On(t, MainPosition(t, k)) \subseteq Nodes(t) BY <2>3, OnIs
  <2>5. Found(u, k) = found BY <2>1, <2>2, <2>4 DEF Found
  <2>6. found \subseteq Nodes(t) BY <2>4 DEF Found
  <2>7. \/ found = {} /\ f = -1
        \/ f \in found /\ found \subseteq On(t, f)
    BY <1>3, FirstAny
  <2>8. \/ found = {} /\ g = -1
        \/ g \in found /\ found \subseteq On(t, g)
    BY <1>3, <2>1, <2>5, FirstAny
  <2> HIDE DEF f, g, found
  <2>9. f = g
    <3>1. CASE found = {} BY <3>1, <2>7, <2>8
    <3>2. CASE found # {} BY <3>2, <2>3, <2>6, <2>7, <2>8, OnOrder
    <3> QED BY <3>1, <3>2
  <2> QED BY <1>1, <2>9 DEF FindIndex, f, g, InArray
<1> QED BY <1>2, <1>3

\* A key of the table stands where next finds it, in the array part or in a node.
LEMMA IndexIs ==
  ASSUME NEW t, Good(t)
  PROVE  /\ \A k \in Keys : Holds(t, k) =>
              /\ FindIndex(t, k) \in 1..(t.sizearray + t.sizenode)
              /\ At(t, FindIndex(t, k)) = k
         /\ \A i \in 1..(t.sizearray + t.sizenode) : At(t, i) # 0 =>
              At(t, i) \in Keys /\ Holds(t, At(t, i)) /\ FindIndex(t, At(t, i)) = i
         /\ \A k \in Keys \cup {0} : FindIndex(t, k) \in -1..(t.sizearray + t.sizenode)
<1> DEFINE n == t.sizearray
           m == t.sizenode
<1>1. TType(t) /\ ArrOk(t) /\ NodeOk(t) /\ n \in Nat /\ m \in Nat \ {0} BY DEF Good, TType
<1>2. ASSUME NEW i \in Nodes(t), t.node[i].val # 0
      PROVE  /\ t.node[i].val \in Keys /\ ~InArray(t, t.node[i].val)
             /\ FindIndex(t, t.node[i].val) = n + 1 + i
             /\ n + 1 + i \in 1..(n + m)
             /\ At(t, n + 1 + i) = t.node[i].val
  <2> DEFINE k == t.node[i].val
  <2>1. t.node[i].key = k /\ ~t.node[i].dead /\ k \notin 1..n BY <1>1, <1>2 DEF NodeOk
  <2>2. k \in Keys /\ k # 0 BY <1>1, <1>2, TypeIs
  <2> HIDE DEF k
  <2>3. First(t, k, BOOLEAN) = i
    <3>1. BOOLEAN \in SUBSET BOOLEAN /\ FALSE \in BOOLEAN OBVIOUS
    <3> QED BY <2>1, <2>2, <3>1, FirstIs
  <2>4. i \in Nat /\ i < m BY <1>1 DEF Nodes
  <2>5. i # -1 /\ n + 1 + i \in 1..(n + m) /\ ~(n + 1 + i <= n) /\ n + 1 + i - n - 1 = i
    BY <1>1, <2>4
  <2>6. FindIndex(t, k) = n + 1 + i BY <2>1, <2>2, <2>3, <2>5 DEF FindIndex, InArray
  <2>7. At(t, n + 1 + i) = t.node[i].val
    <3> DEFINE j == n + 1 + i
    <3>1. ~(j <= n) /\ j - n - 1 = i BY <1>1, <2>4, <2>5
    <3> HIDE DEF j
    <3>2. At(t, j) = t.node[i].val BY <3>1 DEF At
    <3> QED BY <3>2 DEF j
  <2> QED BY <2>1, <2>2, <2>5, <2>6, <2>7 DEF k, InArray
<1>3. ASSUME NEW i \in 1..n, t.arr[i] # 0
      PROVE  /\ t.arr[i] = i /\ i \in Keys /\ FindIndex(t, i) = i
             /\ i \in 1..(n + m) /\ At(t, i) = i
  <2>1. t.arr[i] = i /\ i \in Keys /\ i # 0 /\ i <= n BY <1>1, <1>3 DEF ArrOk
  <2> QED BY <2>1, <1>1 DEF FindIndex, InArray, At
<1>4. ASSUME NEW k \in Keys, Holds(t, k)
      PROVE  FindIndex(t, k) \in 1..(n + m) /\ At(t, FindIndex(t, k)) = k
  <2>0. k # 0 BY KeysIs
  <2>1. CASE k \in 1..n /\ t.arr[k] = k BY <2>0, <2>1, <1>3
  <2>2. CASE \E i \in Nodes(t) : t.node[i].val = k BY <2>0, <2>2, <1>2
  <2> QED BY <1>4, <2>1, <2>2 DEF Holds
<1>5. ASSUME NEW i \in 1..(n + m), At(t, i) # 0
      PROVE  At(t, i) \in Keys /\ Holds(t, At(t, i)) /\ FindIndex(t, At(t, i)) = i
  <2>1. CASE i <= n
    <3>1. i \in 1..n /\ At(t, i) = t.arr[i] BY <2>1, <1>1 DEF At
    <3>2. t.arr[i] = i /\ i \in Keys /\ FindIndex(t, i) = i BY <3>1, <1>3, <1>5
    <3> QED BY <3>1, <3>2 DEF Holds
  <2>2. CASE ~(i <= n)
    <3> DEFINE j == i - n - 1
    <3>1. j \in Nodes(t) /\ n + 1 + j = i BY <2>2, <1>1 DEF Nodes
    <3>2. At(t, i) = t.node[j].val BY <2>2 DEF At
    <3> HIDE DEF j
    <3>3. t.node[j].val \in Keys /\ FindIndex(t, t.node[j].val) = n + 1 + j
      BY <3>1, <3>2, <1>2, <1>5
    <3> QED BY <3>1, <3>2, <3>3 DEF Holds
  <2> QED BY <2>1, <2>2
<1>6. ASSUME NEW k \in Keys \cup {0} PROVE FindIndex(t, k) \in -1..(n + m)
  <2>1. CASE k = 0 \/ InArray(t, k) BY <2>1, <1>1 DEF FindIndex, InArray
  <2>2. CASE k \in Keys /\ k # 0 /\ ~InArray(t, k)
    <3> DEFINE f == First(t, k, BOOLEAN)
    <3>1. FindIndex(t, k) = IF f = -1 THEN -1 ELSE n + 1 + f BY <2>2 DEF FindIndex
    <3>2. f = -1 \/ f \in Nodes(t)
      <4>1. Linked(t) /\ MainPosition(t, k) \in Nodes(t)
        BY <2>2, TypeIs, MainIs DEF Good, TType
      <4>2. Found(t, k) \subseteq Nodes(t) BY <4>1, OnIs DEF Found
      <4> QED BY <2>2, <4>2, FirstAny
    <3> HIDE DEF f
    <3> QED BY <3>1, <3>2, <1>1 DEF Nodes
  <2> QED BY <2>1, <2>2
<1> QED BY <1>4, <1>5, <1>6

LEMMA KillIs ==
  ASSUME NEW t, Good(t), NEW gone,
         \A i \in gone : i \in Nodes(t) /\ t.node[i].key # 0 /\ t.node[i].val = 0
  PROVE  LET u == Killed(t, gone)
         IN  /\ Good(u)
             /\ \A x \in Int \ {0} : Holds(u, x) <=> Holds(t, x)
             /\ \A k \in Keys \cup {0} : FindIndex(u, k) = FindIndex(t, k)
<1> DEFINE u == Killed(t, gone)
           w == [i \in Nodes(t) |-> IF i \in gone THEN [t.node[i] EXCEPT !.dead = TRUE]
                                    ELSE t.node[i]]
<1>0. TType(t) /\ ArrOk(t) /\ IsTable(t) /\ DOMAIN t.node = Nodes(t) BY DEF Good, TType
<1>1. WithNodes(t, u, w, t.lastfree)
  <2>1. u = [t EXCEPT !.node = w] BY <1>0 DEF Killed
  <2> HIDE DEF w, u
  <2> QED BY <2>1, <1>0 DEF IsTable, WithNodes
<1>2. /\ w \in [Nodes(t) -> NodeType(t)]
      /\ \A i \in Nodes(t) : /\ w[i].key = t.node[i].key /\ w[i].next = t.node[i].next
                             /\ w[i].val = t.node[i].val
                             /\ i \notin gone => w[i] = t.node[i]
                             /\ i \in gone => w[i].dead
  BY <1>0 DEF TType, NodeType
<1> HIDE DEF w, u
<1>3. /\ TType(u) /\ ArrOk(u) /\ SameSizes(t, u) /\ Nodes(u) = Nodes(t)
      /\ u.node = w /\ u.lastfree = t.lastfree /\ u.arr = t.arr
      /\ \A k : MainPosition(u, k) = MainPosition(t, k)
  BY <1>0, <1>1, <1>2, WithNodesType
<1>4. \A i : On(u, i) = On(t, i) BY <1>2, <1>3, OnSame DEF SameSizes
<1>5. NodeOk(u)
  <2>1. \A i \in Nodes(t) : t.node[i].next # -1 => t.node[i].next \in Nodes(t) BY <1>0, TypeIs
  <2>2. ASSUME NEW i \in Nodes(t)
        PROVE  /\ w[i].val \in {0, w[i].key}
               /\ w[i].dead => w[i].val = 0
               /\ w[i].key = 0 => w[i].next = -1 /\ ~w[i].dead
               /\ w[i].key \notin 1..t.sizearray
               /\ w[i].next # -1 => w[w[i].next].key # 0
    <3>1. /\ t.node[i].val \in {0, t.node[i].key}
          /\ t.node[i].dead => t.node[i].val = 0
          /\ t.node[i].key = 0 => t.node[i].next = -1 /\ ~t.node[i].dead
          /\ t.node[i].key \notin 1..t.sizearray
          /\ t.node[i].next # -1 => t.node[t.node[i].next].key # 0
      BY DEF Good, NodeOk
    <3>2. CASE i \in gone BY <3>1, <3>2, <2>1, <1>2
    <3>3. CASE i \notin gone BY <3>1, <3>3, <2>1, <1>2
    <3> QED BY <3>2, <3>3
  <2> QED BY <2>2, <1>3 DEF NodeOk, SameSizes
<1>6. LinkOnce(u) /\ Acyclic(u) BY <1>2, <1>3, <1>4 DEF Good, LinkOnce, Acyclic
<1>7. Homed(u)
  <2>1. \A i \in Nodes(t) : t.node[i].key # 0 => MainPosition(t, t.node[i].key) \in Nodes(t)
    BY <1>0, MainIs, TypeIs DEF TType
  <2> QED BY <1>2, <1>3, <1>4, <2>1 DEF Good, Homed
<1>8. KeyOnce(u)
  <2> SUFFICES ASSUME NEW i \in Nodes(t), NEW j \in Nodes(t), t.node[i].key # 0,
                      t.node[i].key = t.node[j].key, ~w[i].dead
               PROVE  IF w[j].dead THEN j \in On(t, i) ELSE i = j
    BY <1>2, <1>3, <1>4 DEF KeyOnce
  <2>1. i \notin gone /\ ~t.node[i].dead BY <1>2
  <2>2. IF t.node[j].dead THEN j \in On(t, i) ELSE i = j BY <2>1 DEF Good, KeyOnce
  <2>3. CASE j \in gone
    <3>1. w[j].dead /\ i # j BY <2>1, <2>3, <1>2
    <3> QED BY <3>1, <2>2
  <2>4. CASE j \notin gone
    <3>1. w[j] = t.node[j] BY <2>4, <1>2
    <3> QED BY <3>1, <2>2
  <2> QED BY <2>3, <2>4
<1>9. FreeOk(u) BY <1>2, <1>3, <1>0, TypeIs DEF Good, FreeOk, SameSizes
<1>10. Good(u) BY <1>3, <1>5, <1>6, <1>7, <1>8, <1>9 DEF Good
<1>11. \A x \in Int \ {0} : Holds(u, x) <=> Holds(t, x) BY <1>2, <1>3 DEF Holds, SameSizes
<1>12. \A k \in Keys \cup {0} : FindIndex(u, k) = FindIndex(t, k)
  BY <1>2, <1>3, <1>10, FindIndexSame
<1> QED BY <1>10, <1>11, <1>12 DEF u

\* A field that is there is assigned where it is.
LEMMA AssignIs ==
  ASSUME NEW t, Good(t), NEW k \in Keys, Holds(t, k), NEW v \in {0, k}
  PROVE  \A x \in Keys \cup {0} : FindIndex(SetRaw(t, k, v), x) = FindIndex(t, x)
<1> DEFINE u == SetRaw(t, k, v)
           f == FindNode(t, k)
<1>0. TType(t) /\ IsTable(t) BY DEF Good, TType
<1>1. Good(u) BY SetRawIs
<1>2. SameSizes(t, u) /\ \A i \in Nodes(t) : u.node[i].key = t.node[i].key
                                             /\ u.node[i].next = t.node[i].next
  <2>1. CASE InArray(t, k)
    <3>1. u = [t EXCEPT !.arr[k] = v] BY <2>1 DEF SetRaw, Fits, Store
    <3> HIDE DEF u
    <3>2. u.node = t.node /\ u.sizearray = t.sizearray /\ u.sizenode = t.sizenode
          /\ u.dummy = t.dummy
      BY <3>1, <1>0 DEF IsTable
    <3> QED BY <3>2 DEF SameSizes
  <2>2. CASE ~InArray(t, k)
    <3>1. PICK i \in Nodes(t) : t.node[i].val = k BY <2>2 DEF Holds, InArray
    <3>2. t.node[i].key = k /\ ~t.node[i].dead
      BY <3>1, KeysIs DEF Good, NodeOk
    <3>3. f = i
      <4>1. {FALSE} \in SUBSET BOOLEAN /\ FALSE \in {FALSE} OBVIOUS
      <4> HIDE DEF u
      <4> QED BY <3>2, <4>1, FirstIs DEF FindNode
    <3>4. i # -1 BY <3>1, <1>0, TypeIs
    <3>5. u = [t EXCEPT !.node[i].val = v] BY <2>2, <3>3, <3>4 DEF SetRaw, Fits, Store
    <3> DEFINE w == [t.node EXCEPT ![i].val = v]
    <3>6. \A j \in Nodes(t) : w[j].key = t.node[j].key /\ w[j].next = t.node[j].next
      BY <1>0 DEF TType, NodeType
    <3>7. u = [t EXCEPT !.node = w] BY <3>5
    <3> HIDE DEF u, w
    <3>8. u.node = w /\ u.sizearray = t.sizearray /\ u.sizenode = t.sizenode
          /\ u.dummy = t.dummy
      BY <3>7, <1>0 DEF IsTable
    <3> QED BY <3>6, <3>8 DEF SameSizes
  <2> QED BY <2>1, <2>2
<1> QED BY <1>1, <1>2, FindIndexSame
-----------------------------------------------------------------------------
(* What luaH_next and luaH_getn return.                                    *)

LEMMA NextKeyIs ==
  ASSUME NEW t, Good(t), NEW k \in Keys \cup {0}, FindIndex(t, k) # -1
  PROVE  LET x == NextKey(t, k)
         IN  IF x = 0 THEN \A y \in Keys : Holds(t, y) => FindIndex(t, y) <= FindIndex(t, k)
             ELSE /\ x \in Keys /\ Holds(t, x) /\ FindIndex(t, x) > FindIndex(t, k)
                  /\ \A y \in Keys : Holds(t, y) =>
                       (FindIndex(t, y) <= FindIndex(t, x)
                          <=> FindIndex(t, y) <= FindIndex(t, k) \/ y = x)
<1> DEFINE a == FindIndex(t, k)
           n == t.sizearray + t.sizenode
           later == {i \in (a + 1)..n : Live(At(t, i))}
           x == NextKey(t, k)
<1>1. n \in Nat /\ a \in 0..n
  <2>1. n \in Nat BY DEF Good, TType
  <2>2. a \in -1..n BY IndexIs
  <2> HIDE DEF n, a
  <2> QED BY <2>1, <2>2 DEF a
<1>2. x = IF later = {} THEN 0 ELSE At(t, Min(later)) BY DEF NextKey
<1>3. ASSUME NEW i \in 1..n, At(t, i) # 0
      PROVE  At(t, i) \in Keys /\ Holds(t, At(t, i)) /\ FindIndex(t, At(t, i)) = i
  BY <1>3, IndexIs
<1>4. ASSUME NEW y \in Keys, Holds(t, y)
      PROVE  FindIndex(t, y) \in 1..n /\ At(t, FindIndex(t, y)) = y /\ y # 0
  BY <1>4, IndexIs, KeysIs
<1> HIDE DEF a, n, x
<1>5. ASSUME NEW y \in Keys, Holds(t, y)
      PROVE  FindIndex(t, y) <= a \/ FindIndex(t, y) \in later
  BY <1>1, <1>4, <1>5 DEF Live
<1>6. CASE later = {}
  <2>1. x = 0 BY <1>2, <1>6
  <2> QED BY <2>1, <1>5, <1>6 DEF x, a
<1>7. CASE later # {}
  <2> DEFINE m == Min(later)
  <2>1. later \subseteq Nat /\ later \subseteq 1..n BY <1>1
  <2>2. m \in later /\ \A i \in later : m <= i
    <3> HIDE DEF later
    <3> QED BY <2>1, <1>7, MinIs
  <2>3. m \in 1..n /\ m > a /\ At(t, m) # 0
    <3> HIDE DEF m
    <3> QED BY <2>1, <2>2, <1>1 DEF Live
  <2>4. x = At(t, m) BY <1>2, <1>7
  <2> HIDE DEF m, later
  <2>5. x \in Keys /\ Holds(t, x) /\ FindIndex(t, x) = m /\ x # 0 BY <1>3, <2>3, <2>4
  <2>6. ASSUME NEW y \in Keys, Holds(t, y)
        PROVE  FindIndex(t, y) <= m <=> FindIndex(t, y) <= a \/ y = x
    <3>1. FindIndex(t, y) \in 1..n /\ At(t, FindIndex(t, y)) = y BY <1>4, <2>6
    <3>2. FindIndex(t, y) <= a \/ FindIndex(t, y) \in later BY <1>5, <2>6
    <3>3. FindIndex(t, y) = m => y = x BY <3>1, <2>4
    <3>4. FindIndex(t, y) <= a \/ FindIndex(t, y) >= m BY <3>2, <2>2
    <3> QED BY <3>1, <3>3, <3>4, <2>3, <2>5, <1>1
  <2> QED BY <2>3, <2>5, <2>6 DEF x, a
<1> QED BY <1>6, <1>7

LEMMA LiveIs ==
  ASSUME NEW t, Good(t), NEW k \in Nat, k # 0
  PROVE  Live(Get(t, k)) <=> Holds(t, k)
<1>1. k \in Int OBVIOUS
<1>2. Get(t, k) = IF Holds(t, k) THEN k ELSE 0 BY <1>1, GetIs
<1> QED BY <1>2 DEF Live

\* n is a border of t.
Border(t, n) == n \in Nat /\ (n = 0 \/ Holds(t, n)) /\ ~Holds(t, n + 1)
\* A border is between i and j.
Between(t, x) ==
  /\ x = <<x[1], x[2]>> /\ x[1] \in Nat /\ x[2] \in Nat /\ x[1] < x[2]
  /\ x[1] = 0 \/ Holds(t, x[1])

LEMMA BisectIs ==
  ASSUME NEW t, Good(t), NEW i \in Nat, NEW j \in Nat, i < j,
         i = 0 \/ Holds(t, i), ~Holds(t, j)
  PROVE  Border(t, Bisect(t, i, j))
<1> DEFINE mid(x) == (x[1] + x[2]) \div 2
           next(x) == IF x[2] - x[1] <= 1 THEN x
                      ELSE IF Live(Get(t, mid(x))) THEN <<mid(x), x[2]>> ELSE <<x[1], mid(x)>>
           U == {x \in Nat \X Nat : Between(t, x) /\ ~Holds(t, x[2])}
           step == [x \in U |-> next(x)]
           P(k) == k = [n \in Nat |-> IF n = 0 THEN <<i, j>> ELSE next(k[n - 1])]
           c == CHOOSE k : P(k)
<1>1. ASSUME NEW x \in U
      PROVE  /\ next(x) \in U
             /\ next(x)[2] - next(x)[1] <= 1
                \/ next(x)[2] - next(x)[1] < x[2] - x[1]
  <2>1. /\ x = <<x[1], x[2]>> /\ x[1] \in Nat /\ x[2] \in Nat /\ x[1] < x[2]
        /\ (x[1] = 0 \/ Holds(t, x[1])) /\ ~Holds(t, x[2])
    BY DEF Between
  <2>2. CASE x[2] - x[1] <= 1
    <3>1. next(x) = x BY <2>2
    <3> HIDE DEF next, U
    <3> QED BY <3>1, <2>2
  <2>3. CASE ~(x[2] - x[1] <= 1)
    <3> DEFINE m == mid(x)
    <3>1. m \in Nat /\ x[1] < m /\ m < x[2] /\ m # 0 BY <2>1, <2>3
    <3> HIDE DEF m
    <3>2. Live(Get(t, m)) <=> Holds(t, m) BY <3>1, LiveIs
    <3>3. next(x) = IF Live(Get(t, m)) THEN <<m, x[2]>> ELSE <<x[1], m>> BY <2>3 DEF m
    <3> HIDE DEF next
    <3>4. CASE Holds(t, m)
      <4>1. next(x) = <<m, x[2]>> BY <3>2, <3>3, <3>4
      <4>2. next(x)[1] = m /\ next(x)[2] = x[2] BY <4>1
      <4>3. next(x) \in U BY <4>1, <4>2, <2>1, <3>1, <3>4 DEF Between
      <4> HIDE DEF U
      <4> QED BY <4>2, <4>3, <2>1, <3>1
    <3>5. CASE ~Holds(t, m)
      <4>1. next(x) = <<x[1], m>> BY <3>2, <3>3, <3>5
      <4>2. next(x)[1] = x[1] /\ next(x)[2] = m BY <4>1
      <4>3. next(x) \in U BY <4>1, <4>2, <2>1, <3>1, <3>5 DEF Between
      <4> HIDE DEF U
      <4> QED BY <4>2, <4>3, <2>1, <3>1
    <3> QED BY <3>4, <3>5
  <2> QED BY <2>2, <2>3
<1>2. <<i, j>> \in U BY DEF Between
<1>3. step \in [U -> U]
  <2> HIDE DEF next, U
  <2> QED BY <1>1
<1>4. \A x \in U : step[x] = next(x)
  <2> HIDE DEF next, U
  <2> QED OBVIOUS
<1>5. PICK f : IsIteration(f, <<i, j>>, step, U)
  <2> HIDE DEF step, U, next, P
  <2> QED BY ONLY <1>2, <1>3, IterationExists
<1> HIDE DEF step, U, next
<1>6. P(f)
  <2>1. \A n \in Nat : n # 0 => n - 1 \in Nat /\ (n - 1) + 1 = n OBVIOUS
  <2>2. ASSUME NEW n \in Nat PROVE f[n] = IF n = 0 THEN <<i, j>> ELSE next(f[n - 1])
    <3>1. CASE n = 0 BY <3>1, <1>5 DEF IsIteration
    <3>2. CASE n # 0
      <4>1. n - 1 \in Nat /\ (n - 1) + 1 = n BY <2>1, <3>2
      <4>2. f[(n - 1) + 1] = step[f[n - 1]] /\ f[n - 1] \in U BY <1>5, <4>1 DEF IsIteration
      <4> QED BY <4>1, <4>2, <1>4, <3>2
    <3> QED BY <3>1, <3>2
  <2>3. f = [n \in Nat |-> f[n]] BY <1>5 DEF IsIteration
  <2> QED BY <2>2, <2>3
<1>7. P(c) BY <1>6
<1>8. Bisect(t, i, j) = c[j - i][1] BY DEF Bisect, next
<1>9. c[0] = <<i, j>> /\ \A n \in Nat : c[n + 1] = next(c[n])
  <2>1. \A n \in Nat : n + 1 \in Nat /\ n + 1 # 0 /\ (n + 1) - 1 = n OBVIOUS
  <2> HIDE DEF c
  <2> QED BY <1>7, <2>1
<1> HIDE DEF P, c
<1> DEFINE T == {n \in Nat : /\ c[n] \in U
                             /\ c[n][2] - c[n][1] <= 1 \/ c[n][2] - c[n][1] <= (j - i) - n}
<1>10. \A x \in U : x[1] \in Nat /\ x[2] \in Nat /\ x[1] < x[2] BY DEF U, Between
<1>11. Nat \subseteq T
  <2>1. 0 \in T
    <3>1. c[0][1] = i /\ c[0][2] = j BY <1>9
    <3> QED BY <3>1, <1>2, <1>9
  <2>2. ASSUME NEW n \in Nat, n \in T PROVE n + 1 \in T
    <3> DEFINE x == c[n]
               y == c[n + 1]
    <3>1. x \in U /\ (x[2] - x[1] <= 1 \/ x[2] - x[1] <= (j - i) - n) BY <2>2
    <3>2. y = next(x) BY <1>9
    <3> HIDE DEF x, y
    <3>3. y \in U /\ (y[2] - y[1] <= 1 \/ y[2] - y[1] < x[2] - x[1]) BY <3>1, <3>2, <1>1
    <3>4. /\ x[1] \in Nat /\ x[2] \in Nat /\ x[1] < x[2]
          /\ y[1] \in Nat /\ y[2] \in Nat /\ y[1] < y[2]
      BY <3>1, <3>3, <1>10
    <3>5. y[2] - y[1] <= 1 \/ y[2] - y[1] <= (j - i) - (n + 1) BY <3>1, <3>3, <3>4
    <3> QED BY <3>3, <3>5 DEF y
  <2> HIDE DEF T
  <2> QED BY <2>1, <2>2, NatsAll
<1> DEFINE z == c[j - i]
<1>12. z \in U /\ (z[2] - z[1] <= 1 \/ z[2] - z[1] <= (j - i) - (j - i))
  <2>1. j - i \in Nat OBVIOUS
  <2>2. j - i \in T
    <3> HIDE DEF T
    <3> QED BY <2>1, <1>11
  <2> QED BY <2>2
<1> HIDE DEF z, T
<1>13. z[2] = z[1] + 1
  <2>1. z[1] \in Nat /\ z[2] \in Nat /\ z[1] < z[2] BY <1>10, <1>12
  <2> QED BY <1>12, <2>1
<1>14. Border(t, z[1]) BY <1>12, <1>13 DEF U, Between, Border
<1> QED BY <1>8, <1>14 DEF z

LEMMA UnboundIs ==
  ASSUME NEW t, Good(t), NEW j \in Nat, j = 0 \/ Holds(t, j)
  PROVE  Between(t, Unbound(t, j)) /\ ~Holds(t, Unbound(t, j)[2])
<1> DEFINE next(x) == IF Live(Get(t, x[2])) THEN <<x[2], 2 * x[2]>> ELSE x
           U == {x \in Nat \X Nat : Between(t, x)}
           step == [x \in U |-> next(x)]
           P(k) == k = [n \in Nat |-> IF n = 0 THEN <<j, j + 1>> ELSE next(k[n - 1])]
           c == CHOOSE k : P(k)
           above(x) == Cardinality({k \in Ints : k >= x[2]})
           N == Cardinality(Ints)
<1>0. \A m : IsFiniteSet({k \in Ints : k >= m}) /\ Cardinality({k \in Ints : k >= m}) \in Nat
  BY KeysIs, FS_Subset, FS_CardinalityType
<1>1. ASSUME NEW x \in U
      PROVE  /\ next(x) \in U
             /\ Holds(t, next(x)[2]) => Holds(t, x[2]) /\ above(next(x)) < above(x)
  <2>1. /\ x = <<x[1], x[2]>> /\ x[1] \in Nat /\ x[2] \in Nat /\ x[1] < x[2] /\ x[2] # 0
        /\ (x[1] = 0 \/ Holds(t, x[1]))
    BY DEF Between
  <2>2. Live(Get(t, x[2])) <=> Holds(t, x[2]) BY <2>1, LiveIs
  <2>3. CASE ~Holds(t, x[2])
    <3>1. next(x) = x BY <2>2, <2>3
    <3> HIDE DEF next, U, above
    <3> QED BY <3>1, <2>3
  <2>4. CASE Holds(t, x[2])
    <3>1. next(x) = <<x[2], 2 * x[2]>> BY <2>2, <2>4
    <3> HIDE DEF next
    <3>2. next(x)[1] = x[2] /\ next(x)[2] = 2 * x[2] BY <3>1
    <3>3. next(x) \in U BY <3>1, <3>2, <2>1, <2>4 DEF Between
    <3>4. x[2] \in Ints
      <4>1. x[2] \in Keys BY <2>1, <2>4, GetIs
      <4> QED BY <4>1, <2>1, KeysIs
    <3> DEFINE A == {k \in Ints : k >= x[2]}
               B == {k \in Ints : k >= 2 * x[2]}
    <3>5. B \subseteq A \ {x[2]} /\ x[2] \in A
      <4>1. \A k \in Ints : k \in Nat BY KeysIs
      <4> QED BY <4>1, <3>4, <2>1
    <3>6. IsFiniteSet(A) /\ Cardinality(A) \in Nat /\ Cardinality(B) \in Nat BY <1>0
    <3> HIDE DEF A, B
    <3>7. IsFiniteSet(A \ {x[2]}) /\ Cardinality(A \ {x[2]}) = Cardinality(A) - 1
      BY <3>5, <3>6, FS_RemoveElement
    <3>8. Cardinality(B) <= Cardinality(A \ {x[2]}) BY <3>5, <3>7, FS_Subset
    <3>9. Cardinality(B) < Cardinality(A) BY <3>6, <3>7, <3>8
    <3>10. above(next(x)) < above(x) BY <3>2, <3>9 DEF A, B
    <3> HIDE DEF above, U
    <3> QED BY <3>3, <3>10, <2>4
  <2> QED BY <2>3, <2>4
<1>2. <<j, j + 1>> \in U BY DEF Between
<1>3. step \in [U -> U]
  <2> HIDE DEF next, U, above
  <2> QED BY <1>1
<1>4. \A x \in U : step[x] = next(x)
  <2> HIDE DEF next, U
  <2> QED OBVIOUS
<1>5. PICK f : IsIteration(f, <<j, j + 1>>, step, U)
  <2> HIDE DEF step, U, next, P
  <2> QED BY ONLY <1>2, <1>3, IterationExists
<1> HIDE DEF step, U, next, above
<1>6. P(f)
  <2>1. \A n \in Nat : n # 0 => n - 1 \in Nat /\ (n - 1) + 1 = n OBVIOUS
  <2>2. ASSUME NEW n \in Nat PROVE f[n] = IF n = 0 THEN <<j, j + 1>> ELSE next(f[n - 1])
    <3>1. CASE n = 0 BY <3>1, <1>5 DEF IsIteration
    <3>2. CASE n # 0
      <4>1. n - 1 \in Nat /\ (n - 1) + 1 = n BY <2>1, <3>2
      <4>2. f[(n - 1) + 1] = step[f[n - 1]] /\ f[n - 1] \in U BY <1>5, <4>1 DEF IsIteration
      <4> QED BY <4>1, <4>2, <1>4, <3>2
    <3> QED BY <3>1, <3>2
  <2>3. f = [n \in Nat |-> f[n]] BY <1>5 DEF IsIteration
  <2> QED BY <2>2, <2>3
<1>7. P(c) BY <1>6
<1>8. Unbound(t, j) = c[N] BY DEF Unbound, next
<1>9. c[0] = <<j, j + 1>> /\ \A n \in Nat : c[n + 1] = next(c[n])
  <2>1. \A n \in Nat : n + 1 \in Nat /\ n + 1 # 0 /\ (n + 1) - 1 = n OBVIOUS
  <2> HIDE DEF c
  <2> QED BY <1>7, <2>1
<1>10. N \in Nat /\ \A x : above(x) \in Nat /\ above(x) <= N
  <2>1. \A x : {k \in Ints : k >= x[2]} \in SUBSET Ints OBVIOUS
  <2> QED BY <2>1, <1>0, KeysIs, FS_Subset, FS_CardinalityType DEF above
<1> HIDE DEF P, c, N
<1> DEFINE T == {n \in Nat : c[n] \in U /\ (Holds(t, c[n][2]) => above(c[n]) <= N - n)}
<1>11. Nat \subseteq T
  <2>1. 0 \in T BY <1>2, <1>9, <1>10
  <2>2. ASSUME NEW n \in Nat, n \in T PROVE n + 1 \in T
    <3> DEFINE x == c[n]
               y == c[n + 1]
    <3>1. x \in U /\ (Holds(t, x[2]) => above(x) <= N - n) BY <2>2
    <3>2. y = next(x) BY <1>9
    <3> HIDE DEF x, y
    <3>3. y \in U /\ (Holds(t, y[2]) => Holds(t, x[2]) /\ above(y) < above(x))
      BY <3>1, <3>2, <1>1
    <3>4. above(x) \in Nat /\ above(y) \in Nat BY <1>10
    <3>5. Holds(t, y[2]) => above(y) <= N - (n + 1) BY <3>1, <3>3, <3>4, <1>10
    <3> QED BY <3>3, <3>5 DEF y
  <2> HIDE DEF T
  <2> QED BY <2>1, <2>2, NatsAll
<1>12. c[N] \in U /\ (Holds(t, c[N][2]) => above(c[N]) <= N - N)
  <2>1. N \in T
    <3> HIDE DEF T
    <3> QED BY <1>10, <1>11
  <2> QED BY <2>1
<1> DEFINE z == c[N]
<1> HIDE DEF z, T
<1>13. z \in U /\ (Holds(t, z[2]) => above(z) = 0)
  <2>1. above(z) \in Nat /\ N \in Nat BY <1>10
  <2> QED BY <1>12, <2>1 DEF z
<1>14. ~Holds(t, z[2])
  <2> SUFFICES ASSUME Holds(t, z[2]) PROVE FALSE
    OBVIOUS
  <2>1. z[2] \in Nat /\ z[2] # 0 BY <1>13 DEF U, Between
  <2>2. z[2] \in Keys BY <2>1, GetIs
  <2>3. z[2] \in Ints BY <2>1, <2>2, KeysIs
  <2>4. {k \in Ints : k >= z[2]} # {} BY <2>1, <2>3
  <2>5. Cardinality({k \in Ints : k >= z[2]}) = 0 BY <1>13 DEF above
  <2>6. IsFiniteSet({k \in Ints : k >= z[2]}) BY <1>0
  <2> QED BY <2>4, <2>5, <2>6, FS_EmptySet
<1>15. Between(t, z) BY <1>13 DEF U
<1> QED BY <1>8, <1>14, <1>15 DEF z

LEMMA GetNIs ==
  ASSUME NEW t, Good(t)
  PROVE  Border(t, GetN(t))
<1> DEFINE j == t.sizearray
           ends == Unbound(t, j)
<1>1. j \in Nat /\ ArrOk(t) /\ NodeOk(t) /\ FreeOk(t) /\ TType(t) BY DEF Good, TType
<1>2. GetN(t) = IF j > 0 /\ ~Live(t.arr[j]) THEN Bisect(t, 0, j)
                ELSE IF t.dummy THEN j ELSE Bisect(t, ends[1], ends[2])
  BY DEF GetN
<1>3. CASE j > 0 /\ ~Live(t.arr[j])
  <2>1. j \in 1..t.sizearray /\ t.arr[j] = 0 BY <1>1, <1>3 DEF Live
  <2>2. \A i \in Nodes(t) : t.node[i].val # j BY <1>1, <2>1 DEF NodeOk
  <2>3. ~Holds(t, j) BY <2>1, <2>2 DEF Holds
  <2>4. 0 \in Nat /\ 0 < j BY <1>1, <1>3
  <2> HIDE DEF j
  <2> QED BY <1>1, <1>2, <1>3, <2>3, <2>4, BisectIs
<1>4. CASE ~(j > 0 /\ ~Live(t.arr[j]))
  <2>1. j = 0 \/ Holds(t, j)
    <3> SUFFICES ASSUME j # 0 PROVE Holds(t, j)
      OBVIOUS
    <3>1. j \in 1..t.sizearray /\ t.arr[j] # 0 BY <1>1, <1>4 DEF Live
    <3> QED BY <1>1, <3>1 DEF ArrOk, Holds
  <2>2. CASE t.dummy
    <3>1. t.sizenode = 1 /\ t.node[0].key = 0 BY <1>1, <2>2 DEF FreeOk
    <3>2. \A i \in Nodes(t) : t.node[i].val = 0 BY <1>1, <3>1 DEF NodeOk, Nodes
    <3>3. j + 1 \notin 1..t.sizearray /\ j + 1 # 0 BY <1>1
    <3>4. ~Holds(t, j + 1) BY <3>2, <3>3 DEF Holds
    <3> HIDE DEF j
    <3> QED BY <1>1, <1>2, <1>4, <2>1, <2>2, <3>4 DEF Border
  <2>3. CASE ~t.dummy
    <3> HIDE DEF j
    <3>1. Between(t, ends) /\ ~Holds(t, ends[2]) BY <1>1, <2>1, UnboundIs
    <3> HIDE DEF ends
    <3>2. Border(t, Bisect(t, ends[1], ends[2])) BY <3>1, BisectIs DEF Between
    <3> QED BY <1>2, <1>4, <2>3, <3>2
  <2> QED BY <2>2, <2>3
<1> QED BY <1>3, <1>4
-----------------------------------------------------------------------------
(* The invariant of the machine.                                           *)

\* The table is well formed and is the map that was assigned.
MapKept ==
  /\ tb = [t |-> tb.t, ref |-> tb.ref, key |-> tb.key, seen |-> tb.seen, on |-> tb.on]
  /\ Good(tb.t)
  /\ tb.ref = [k \in Keys |-> IF Holds(tb.t, k) THEN k ELSE 0]
  /\ tb.key \in Keys \cup {0} /\ tb.seen \subseteq Keys /\ tb.on \in BOOLEAN
\* A traversal has been at the fields up to the last key it returned.
Visited ==
  tb.on =>
    /\ FindIndex(tb.t, tb.key) # -1
    /\ \A x \in Keys : Holds(tb.t, x) =>
         (x \in tb.seen <=> FindIndex(tb.t, x) <= FindIndex(tb.t, tb.key))
TableInv == MapKept /\ Visited

LEMMA TableStarts == TableInit => TableInv
<1> SUFFICES ASSUME TableInit PROVE TableInv
  OBVIOUS
<1>1. PICK z \in Sizes :
        tb = [t |-> NewTable(z[1], z[2]), ref |-> [k \in Keys |-> 0],
              key |-> 0, seen |-> {}, on |-> FALSE]
  BY DEF TableInit
<1>2. z[1] \in Nat /\ z[2] \in Nat BY TableConstants
<1> DEFINE u == NewTable(z[1], z[2])
<1>3. Good(u) /\ \A x \in Int \ {0} : ~Holds(u, x) BY <1>2, NewTableIs
<1> HIDE DEF u
<1>4. /\ tb = [t |-> tb.t, ref |-> tb.ref, key |-> tb.key, seen |-> tb.seen, on |-> tb.on]
      /\ tb.t = u /\ tb.ref = [k \in Keys |-> 0] /\ tb.key = 0 /\ tb.seen = {} /\ tb.on = FALSE
  BY <1>1 DEF u
<1>5. tb.ref = [k \in Keys |-> IF Holds(tb.t, k) THEN k ELSE 0]
  BY <1>3, <1>4, KeysIs
<1>6. MapKept BY <1>3, <1>4, <1>5 DEF MapKept
<1>7. ~tb.on BY <1>4
<1> QED BY <1>6, <1>7 DEF TableInv, Visited

\* An assignment, in a traversal or not.
LEMMA FieldKeeps ==
  ASSUME MapKept, NEW k \in Keys, NEW v \in {0, k},
         tb' = [tb EXCEPT !.t = SetRaw(@, k, v), !.ref[k] = v]
  PROVE  /\ MapKept'
         /\ tb'.t = SetRaw(tb.t, k, v) /\ tb'.key = tb.key /\ tb'.seen = tb.seen
         /\ tb'.on = tb.on
<1> DEFINE u == SetRaw(tb.t, k, v)
           r == [tb.ref EXCEPT ![k] = v]
<1>1. tb' = [t |-> u, ref |-> r, key |-> tb.key, seen |-> tb.seen, on |-> tb.on]
  <2>1. tb' = [tb EXCEPT !.t = u, !.ref = r] OBVIOUS
  <2> HIDE DEF u, r
  <2> QED BY <2>1 DEF MapKept
<1>2. Good(u) /\ \A x \in Int \ {0} : Holds(u, x) <=> IF x = k THEN v = k ELSE Holds(tb.t, x)
  BY SetRawIs DEF MapKept
<1>3. r = [x \in Keys |-> IF Holds(u, x) THEN x ELSE 0]
  <2>1. r = [x \in Keys |-> IF x = k THEN v ELSE IF Holds(tb.t, x) THEN x ELSE 0]
    BY DEF MapKept
  <2>2. ASSUME NEW x \in Keys
        PROVE  (IF x = k THEN v ELSE IF Holds(tb.t, x) THEN x ELSE 0)
                 = IF Holds(u, x) THEN x ELSE 0
    <3>1. x \in Int \ {0} BY KeysIs
    <3>2. Holds(u, x) <=> IF x = k THEN v = k ELSE Holds(tb.t, x) BY <3>1, <1>2
    <3> HIDE DEF u
    <3> QED BY <3>2, <3>1
  <2> HIDE DEF r, u
  <2> QED BY <2>1, <2>2
<1> HIDE DEF u, r
<1>4. /\ tb'.t = u /\ tb'.ref = r /\ tb'.key = tb.key /\ tb'.seen = tb.seen /\ tb'.on = tb.on
  BY ONLY <1>1
<1>5. tb' = [t |-> tb'.t, ref |-> tb'.ref, key |-> tb'.key, seen |-> tb'.seen, on |-> tb'.on]
  BY <1>1, <1>4
<1>6. MapKept' BY <1>2, <1>3, <1>4, <1>5 DEF MapKept
<1> QED BY <1>4, <1>6 DEF u

\* Another table that holds what the old one holds.
LEMMA SameMapKeeps ==
  ASSUME MapKept, NEW u, Good(u), \A x \in Int \ {0} : Holds(u, x) <=> Holds(tb.t, x),
         tb' = [tb EXCEPT !.t = u]
  PROVE  /\ MapKept'
         /\ tb'.t = u /\ tb'.key = tb.key /\ tb'.seen = tb.seen /\ tb'.on = tb.on
<1>1. tb' = [t |-> u, ref |-> tb.ref, key |-> tb.key, seen |-> tb.seen, on |-> tb.on]
  BY DEF MapKept
<1>2. /\ tb'.t = u /\ tb'.ref = tb.ref /\ tb'.key = tb.key /\ tb'.seen = tb.seen
      /\ tb'.on = tb.on
  BY <1>1
<1>3. tb' = [t |-> tb'.t, ref |-> tb'.ref, key |-> tb'.key, seen |-> tb'.seen, on |-> tb'.on]
  BY <1>1, <1>2
<1>4. tb.ref = [x \in Keys |-> IF Holds(u, x) THEN x ELSE 0]
  BY KeysIs DEF MapKept
<1>5. MapKept' BY <1>2, <1>3, <1>4 DEF MapKept
<1> QED BY <1>2, <1>5

LEMMA TableStep == TableInv /\ [TableNext]_tb => TableInv'
<1> SUFFICES ASSUME TableInv, [TableNext]_tb PROVE TableInv'
  OBVIOUS
<1>0. MapKept /\ Visited /\ Good(tb.t) BY DEF TableInv, MapKept
<1>1. ASSUME NEW k \in Keys, NEW v \in {0, k}, AssignField(k, v) PROVE TableInv'
  <2>1. ~tb.on /\ tb' = [tb EXCEPT !.t = SetRaw(@, k, v), !.ref[k] = v]
    BY <1>1 DEF AssignField
  <2>2. MapKept' /\ tb'.on = tb.on BY <1>0, <2>1, FieldKeeps
  <2> QED BY <2>1, <2>2 DEF TableInv, Visited
<1>2. ASSUME NEW k \in Keys, AssignExisting(k, 0) PROVE TableInv'
  <2> DEFINE t == tb.t
             u == SetRaw(t, k, 0)
  <2>1. tb.on /\ Live(tb.ref[k]) /\ tb' = [tb EXCEPT !.t = SetRaw(@, k, 0), !.ref[k] = 0]
    BY <1>2 DEF AssignExisting
  <2>2. Holds(t, k) BY <1>0, <2>1, KeysIs DEF MapKept, Live
  <2>3. MapKept' /\ tb'.t = u /\ tb'.key = tb.key /\ tb'.seen = tb.seen /\ tb'.on = tb.on
    <3>1. 0 \in {0, k} OBVIOUS
    <3> QED BY <1>0, <2>1, <3>1, FieldKeeps
  <2>4. \A x \in Keys \cup {0} : FindIndex(u, x) = FindIndex(t, x)
    BY <1>0, <2>2, AssignIs
  <2>5. \A x \in Keys : Holds(u, x) => Holds(t, x)
    <3>1. \A x \in Int \ {0} : Holds(u, x) <=> IF x = k THEN 0 = k ELSE Holds(t, x)
      BY <1>0, SetRawIs
    <3> QED BY <3>1, <2>2, KeysIs
  <2>6. tb.key \in Keys \cup {0} BY <1>0 DEF MapKept
  <2> HIDE DEF u
  <2>7. Visited' BY <1>0, <2>1, <2>3, <2>4, <2>5, <2>6 DEF Visited
  <2> QED BY <2>3, <2>7 DEF TableInv
<1>3. ASSUME NEW n \in Ints, SetList(n) PROVE TableInv'
  <2> DEFINE u == Resize(tb.t, n, IF tb.t.dummy THEN 0 ELSE tb.t.sizenode)
  <2>1. ~tb.on /\ n > tb.t.sizearray /\ tb' = [tb EXCEPT !.t = u] BY <1>3 DEF SetList
  <2>2. n \in Nat BY KeysIs
  <2>3. Good(u) /\ \A x \in Int \ {0} : Holds(u, x) <=> Holds(tb.t, x)
    BY <1>0, <2>1, <2>2, SetListIs
  <2> HIDE DEF u
  <2>4. MapKept' /\ tb'.on = tb.on BY <1>0, <2>1, <2>3, SameMapKeeps
  <2> QED BY <2>1, <2>4 DEF TableInv, Visited
<1>4. ASSUME Begin PROVE TableInv'
  <2>1. tb' = [t |-> tb.t, ref |-> tb.ref, key |-> 0, seen |-> {}, on |-> TRUE]
    BY <1>0, <1>4 DEF Begin, MapKept
  <2>2. /\ tb'.t = tb.t /\ tb'.ref = tb.ref /\ tb'.key = 0 /\ tb'.seen = {} /\ tb'.on = TRUE
    BY <2>1
  <2>3. tb' = [t |-> tb'.t, ref |-> tb'.ref, key |-> tb'.key, seen |-> tb'.seen, on |-> tb'.on]
    BY <2>1, <2>2
  <2>4. MapKept' BY <1>0, <2>2, <2>3 DEF MapKept
  <2>5. FindIndex(tb.t, 0) = 0 BY DEF FindIndex
  <2>6. ASSUME NEW x \in Keys, Holds(tb.t, x) PROVE ~(FindIndex(tb.t, x) <= 0)
    <3>1. FindIndex(tb.t, x) \in 1..(tb.t.sizearray + tb.t.sizenode) BY <1>0, <2>6, IndexIs
    <3> QED BY <3>1
  <2>7. Visited' BY <2>2, <2>5, <2>6 DEF Visited
  <2> QED BY <2>4, <2>7 DEF TableInv
<1>5. ASSUME KillKeys PROVE TableInv'
  <2> DEFINE t == tb.t
             gone == {i \in DOMAIN t.node : t.node[i].key \in Others /\ ~Live(t.node[i].val)}
             u == Killed(t, gone)
  <2>1. tb' = [tb EXCEPT !.t = u] BY <1>5 DEF KillKeys
  <2>2. \A i \in gone : i \in Nodes(t) /\ t.node[i].key # 0 /\ t.node[i].val = 0
    BY <1>0, TableConstants DEF Good, TType, Live
  <2> HIDE DEF gone
  <2>3. /\ Good(u) /\ \A x \in Int \ {0} : Holds(u, x) <=> Holds(t, x)
        /\ \A x \in Keys \cup {0} : FindIndex(u, x) = FindIndex(t, x)
    BY <1>0, <2>2, KillIs
  <2> HIDE DEF u
  <2>4. MapKept' /\ tb'.t = u /\ tb'.key = tb.key /\ tb'.seen = tb.seen /\ tb'.on = tb.on
    BY <1>0, <2>1, <2>3, SameMapKeeps
  <2>5. tb.key \in Keys \cup {0} /\ \A x \in Keys : x \in Int \ {0}
    BY <1>0, KeysIs DEF MapKept
  <2>6. Visited' BY <1>0, <2>3, <2>4, <2>5 DEF Visited
  <2> QED BY <2>4, <2>6 DEF TableInv
<1>6. ASSUME NextField PROVE TableInv'
  <2> DEFINE t == tb.t
             k == NextKey(t, tb.key)
  <2>1. tb.on /\ tb' = [tb EXCEPT !.key = k, !.on = k # 0,
                                  !.seen = IF k = 0 THEN {} ELSE @ \cup {k}]
    BY <1>6 DEF NextField
  <2>2. tb.key \in Keys \cup {0} /\ FindIndex(t, tb.key) # -1 /\ tb.seen \subseteq Keys
    BY <1>0, <2>1 DEF MapKept, Visited
  <2>3. IF k = 0 THEN \A y \in Keys : Holds(t, y) => FindIndex(t, y) <= FindIndex(t, tb.key)
        ELSE /\ k \in Keys /\ Holds(t, k) /\ FindIndex(t, k) > FindIndex(t, tb.key)
             /\ \A y \in Keys : Holds(t, y) =>
                  (FindIndex(t, y) <= FindIndex(t, k)
                     <=> FindIndex(t, y) <= FindIndex(t, tb.key) \/ y = k)
    BY <1>0, <2>2, NextKeyIs
  <2> HIDE DEF k
  <2>4. CASE k = 0
    <3>1. tb' = [t |-> tb.t, ref |-> tb.ref, key |-> 0, seen |-> {}, on |-> FALSE]
      BY <1>0, <2>1, <2>4 DEF MapKept
    <3>2. /\ tb'.t = tb.t /\ tb'.ref = tb.ref /\ tb'.key = 0 /\ tb'.seen = {} /\ tb'.on = FALSE
      BY <3>1
    <3>3. tb' = [t |-> tb'.t, ref |-> tb'.ref, key |-> tb'.key, seen |-> tb'.seen, on |-> tb'.on]
      BY <3>1, <3>2
    <3>4. MapKept' BY <1>0, <3>2, <3>3 DEF MapKept
    <3>5. ~tb'.on BY <3>2
    <3> QED BY <3>4, <3>5 DEF TableInv, Visited
  <2>5. CASE k # 0
    <3> DEFINE seen == tb.seen \cup {k}
    <3>1. tb' = [t |-> tb.t, ref |-> tb.ref, key |-> k, seen |-> seen, on |-> TRUE]
      BY <1>0, <2>1, <2>5 DEF MapKept
    <3>2. /\ tb'.t = tb.t /\ tb'.ref = tb.ref /\ tb'.key = k /\ tb'.seen = seen /\ tb'.on = TRUE
      BY <3>1
    <3>3. tb' = [t |-> tb'.t, ref |-> tb'.ref, key |-> tb'.key, seen |-> tb'.seen, on |-> tb'.on]
      BY <3>1, <3>2
    <3>4. MapKept' BY <1>0, <2>2, <2>3, <2>5, <3>2, <3>3 DEF MapKept
    <3>5. FindIndex(t, k) # -1
      <4>1. FindIndex(t, k) \in 1..(t.sizearray + t.sizenode) BY <1>0, <2>3, <2>5, IndexIs
      <4> QED BY <4>1
    <3>6. ASSUME NEW x \in Keys, Holds(t, x)
          PROVE  x \in seen <=> FindIndex(t, x) <= FindIndex(t, k)
      <4>1. x \in tb.seen <=> FindIndex(t, x) <= FindIndex(t, tb.key)
        BY <1>0, <2>1, <3>6 DEF Visited
      <4>2. FindIndex(t, x) <= FindIndex(t, k)
              <=> FindIndex(t, x) <= FindIndex(t, tb.key) \/ x = k
        BY <2>3, <2>5, <3>6
      <4> QED BY <4>1, <4>2
    <3> HIDE DEF seen
    <3>7. Visited' BY <3>2, <3>5, <3>6 DEF Visited
    <3> QED BY <3>4, <3>7 DEF TableInv
  <2> QED BY <2>4, <2>5
<1>7. CASE UNCHANGED tb
  BY <1>0, <1>7 DEF TableInv, MapKept, Visited
<1>8. CASE TableNext
  <2>1. ASSUME NEW k \in Keys, AssignField(k, k) \/ AssignField(k, 0) \/ AssignExisting(k, 0)
        PROVE  TableInv'
    <3>1. k \in {0, k} /\ 0 \in {0, k} OBVIOUS
    <3> QED BY <2>1, <3>1, <1>1, <1>2
  <2> QED BY <1>8, <2>1, <1>3, <1>4, <1>5, <1>6 DEF TableNext
<1> QED BY <1>7, <1>8

\* The nodes of a table stay chained, each key in the chain of its main
\* position and the free nodes below lastfree, whatever is assigned, re-sized,
\* cleared or collected, and a traversal has been at the keys up to the last.
THEOREM TableInvariant == TableSpec => []TableInv
<1>1. TableInit => TableInv BY TableStarts
<1>2. TableInv /\ [TableNext]_tb => TableInv' BY TableStep
<1> QED BY <1>1, <1>2, PTL DEF TableSpec

\* Through all collisions, moves of colliding nodes and rehashes a table is the
\* map that the program assigned, and # returns a border of it.
THEOREM TablesAreMaps == TableSpec => []TableIsMap
<1>1. TableInv => TableIsMap
  <2> SUFFICES ASSUME TableInv PROVE TableIsMap
    OBVIOUS
  <2> DEFINE t == tb.t
             n == GetN(t)
  <2>1. Good(t) /\ tb.ref = [k \in Keys |-> IF Holds(t, k) THEN k ELSE 0]
    BY DEF TableInv, MapKept
  <2>2. ASSUME NEW k \in Keys PROVE Get(t, k) = tb.ref[k]
    <3>1. k \in Int /\ k # 0 BY KeysIs
    <3>2. Get(t, k) = IF Holds(t, k) THEN k ELSE 0 BY <2>1, <3>1, GetIs
    <3> QED BY <2>1, <3>2
  <2>3. Border(t, n) BY <2>1, GetNIs
  <2> HIDE DEF n
  <2>4. n = 0 \/ Live(Get(t, n)) BY <2>1, <2>3, LiveIs DEF Border
  <2>5. ~Live(Get(t, n + 1))
    <3>1. n + 1 \in Nat /\ n + 1 # 0 /\ ~Holds(t, n + 1) BY <2>3 DEF Border
    <3> QED BY <3>1, <2>1, LiveIs
  <2> QED BY <2>2, <2>4, <2>5 DEF TableIsMap, n
<1> QED BY <1>1, TableInvariant, PTL

\* next neither fails nor repeats a key, and has been at every field when it
\* ends, whatever existing fields were cleared and keys collected meanwhile.
THEOREM TraversalsAreComplete == TableSpec => []TraversalComplete
<1>1. TableInv => TraversalComplete
  <2> SUFFICES ASSUME TableInv, tb.on
               PROVE  LET k == NextKey(tb.t, tb.key)
                      IN  /\ FindIndex(tb.t, tb.key) # -1
                          /\ k # 0 => k \notin tb.seen /\ Live(tb.ref[k])
                          /\ k = 0 => {x \in Keys : Live(tb.ref[x])} \subseteq tb.seen
    BY DEF TraversalComplete
  <2> DEFINE t == tb.t
             k == NextKey(t, tb.key)
  <2>1. /\ Good(t) /\ tb.ref = [x \in Keys |-> IF Holds(t, x) THEN x ELSE 0]
        /\ tb.key \in Keys \cup {0} /\ FindIndex(t, tb.key) # -1
        /\ \A x \in Keys : Holds(t, x) =>
             (x \in tb.seen <=> FindIndex(t, x) <= FindIndex(t, tb.key))
    BY DEF TableInv, MapKept, Visited
  <2>2. IF k = 0 THEN \A y \in Keys : Holds(t, y) => FindIndex(t, y) <= FindIndex(t, tb.key)
        ELSE k \in Keys /\ Holds(t, k) /\ FindIndex(t, k) > FindIndex(t, tb.key)
    BY <2>1, NextKeyIs
  <2> HIDE DEF k
  <2>3. \A x \in Keys : Live(tb.ref[x]) <=> Holds(t, x) BY <2>1, KeysIs DEF Live
  <2>4. k # 0 => k \notin tb.seen /\ Live(tb.ref[k])
    <3> SUFFICES ASSUME k # 0 PROVE k \notin tb.seen /\ Live(tb.ref[k])
      OBVIOUS
    <3>1. FindIndex(t, k) \in Int /\ FindIndex(t, tb.key) \in Int
      <4>1. t.sizearray + t.sizenode \in Int BY <2>1 DEF Good, TType
      <4>2. FindIndex(t, k) \in -1..(t.sizearray + t.sizenode)
            /\ FindIndex(t, tb.key) \in -1..(t.sizearray + t.sizenode)
        BY <2>1, <2>2, IndexIs
      <4> QED BY <4>1, <4>2
    <3>2. ~(FindIndex(t, k) <= FindIndex(t, tb.key)) BY <2>2, <3>1
    <3> QED BY <2>1, <2>2, <2>3, <3>2
  <2>5. k = 0 => {x \in Keys : Live(tb.ref[x])} \subseteq tb.seen BY <2>1, <2>2, <2>3
  <2> QED BY <2>1, <2>4, <2>5 DEF k
<1> QED BY <1>1, TableInvariant, PTL
=============================================================================

---------------------------- MODULE LuaGCProofs ----------------------------
(***************************************************************************)
(* Proofs about the collector: nothing that the program can reach is freed *)
(* or about to be, the three colours mean what the barriers assume, and    *)
(* finalizers run once and in time.                                        *)
(***************************************************************************)
EXTENDS LuaGC, FiniteSetTheorems, WellFoundedInduction, TLAPS

-----------------------------------------------------------------------------
(* The inductive invariant.                                                *)

Colors == Whites \cup {"free", "gray", "black"}
Early == {"propagate", "upvals", "weak", "again"}
Closing == {"closing", "finalizer"}
States == {"pause", "propagate", "sweepstring", "sweep", "finalize"} \cup Atomic \cup Closing
GState ==
  [mark : [Obj -> Colors], ref : [Obj -> UNION {[Slots(t) -> OrNil(Obj)] : t \in Types}],
   meta : [Obj -> OrNil(Obj)], open : [Obj -> {<<>>} \cup (Obj \X {2, 3})],
   fin : SUBSET Obj, state : States, white : Whites, gray : SUBSET Obj,
   again : SUBSET Obj, weak : SUBSET Obj, tmu : SUBSET Objs("udata"), str : Nat,
   size : Nat \ {0}, sweep : SUBSET Obj, run : Objs("thread"),
   calls : [Objs("udata") -> Nat]]

Alive(s) == {o \in Obj : s.mark[o] # "free" /\ ~IsDead(s, o)}

\* References are of the right types.
Shaped(s) ==
  \A o \in Obj :
    /\ s.ref[o] \in [Slots(Tt[o]) -> OrNil(Obj)]
    /\ s.mark[o] # "free" => \A i \in Slots(Tt[o]) : s.ref[o][i] \in MayHold(Tt[o], i)
    /\ s.meta[o] \in IF Tt[o] \in {"table", "udata"} THEN OrNil(Objs("table")) ELSE {Nil}

\* An open upvalue is a slot of the stack of a thread that is there.
Opened(s) ==
  \A u \in Obj : IsOpen(s, u) =>
    /\ Tt[u] = "upval" /\ s.mark[u] \notin {"free", "black"} /\ s.ref[u][1] = Nil
    /\ s.open[u] \in Objs("thread") \X {2, 3}
    /\ s.mark[s.open[u][1]] # "free"
    /\ u \notin s.sweep

\* What is never gray, and what never black.
Painted(s) ==
  \A o \in Obj :
    /\ Tt[o] = "udata" => s.mark[o] # "gray"
    /\ Tt[o] = "thread" => s.mark[o] # "black"
    /\ Tt[o] = "upval" /\ ~IsOpen(s, o) => s.mark[o] # "gray"

Rooted(s) ==
  /\ {MainThread, s.run} \cup s.tmu \subseteq Alive(s)
  /\ s.sweep \cap s.tmu = {}
  /\ \A o \in s.sweep : s.mark[o] # "free" /\ Tt[o] # "string"
  /\ s.sweep # {} <=> s.state \in {"sweepstring", "sweep"}
  /\ s.state = "pause" => s.tmu = {}

Closed(s) == \A o \in Alive(s) : Below(s, o) \subseteq Alive(s)

\* What is not white is still to be swept; in lua_close all of it.
ToSweep(s) ==
  IF s.state \in Closing THEN Obj
  ELSE IF s.state = "pause" THEN {}
  ELSE IF s.state = "finalize" THEN s.tmu
  ELSE s.tmu \cup s.sweep
       \cup {u \in Obj : IsOpen(s, u) /\ s.open[u][1] \in s.sweep}
       \cup (IF s.state = "sweep" THEN {}
             ELSE {o \in Objs("string") : Hash[o] % s.size >= s.str})
SweepInv(s) ==
  s.state \notin Marking =>
    \A o \in Obj : s.mark[o] \notin {"free", s.white} => o \in ToSweep(s)

\* Whatever is gray is on one list, and nothing is dead while marking.
ListInv(s) ==
  /\ s.gray \cap s.again = {} /\ s.gray \cap s.weak = {} /\ s.again \cap s.weak = {}
  /\ s.again \subseteq Objs("table") \cup Objs("thread")
  /\ s.weak \subseteq Objs("table")
  /\ s.gray \cup s.again \cup s.weak = {o \in Obj : Tt[o] \in Chained /\ s.mark[o] = "gray"}
  /\ \A o \in Obj : s.mark[o] # OtherWhite(s)

\* No black object refers to a white one, but objects of E to such of W.
Excused(o, E, W) == IF o \in E THEN W ELSE {}
BlackInv(s, E, W) ==
  \A o \in Obj : s.mark[o] = "black" /\ ~(o \in s.tmu /\ s.state \in Early) =>
     WhiteOf(s, Below(s, o)) \subseteq Excused(o, E, W)
\* What atomic() has seen to so far: upvalues of stacks that nobody marks, the
\* running thread and weak tables, what was on grayagain, and tmudata.
AtomicInv(s, E, W) ==
  /\ \A u \in Obj : IsOpen(s, u) /\ s.mark[u] = "gray" =>
       WhiteOf(s, {UpvalValue(s, u)}) \subseteq Excused(u, E, W)
  /\ s.state # "upvals" =>
       /\ WhiteOf(s, {s.run}) \subseteq W
       /\ \A t \in s.weak :
            IsWeak(s, t) /\ WhiteOf(s, TableRefs(s, t)) \subseteq Excused(t, E, W)
  /\ s.state \in {"again", "tmu"} =>
       \A t \in s.again :
         Tt[t] = "thread" /\ WhiteOf(s, Below(s, t)) \subseteq Excused(t, E, W)
  /\ s.state = "tmu" => WhiteOf(s, s.tmu) \subseteq W
MarkInv(s, E, W) ==
  s.state \in Marking =>
    /\ ListInv(s)
    /\ BlackInv(s, E, W)
    /\ WhiteOf(s, {MainThread}) \subseteq W
    /\ s.state \in Atomic => AtomicInv(s, E, W)

HeapInv(s) ==
  /\ s \in GState
  /\ Shaped(s) /\ Opened(s) /\ Painted(s) /\ Rooted(s) /\ Closed(s)
GcInv(s, E, W) == HeapInv(s) /\ SweepInv(s) /\ MarkInv(s, E, W)
Sound(s) == GcInv(s, {}, {})
\* Nothing awaits its finalizer while the program runs and marking is under way.
Calm(s) == s.state \in Early => s.tmu = {}
\* What awaits its finalizer has not been finalized, nor anything twice; what the
\* atomic phase leaves white luaC_separateudata has looked at.
Counted(s) ==
  /\ s.tmu \subseteq s.fin
  /\ \A u \in Objs("udata") :
       s.calls[u] \in {0, 1} /\ (Waiting(s, u) => s.calls[u] = 0)
Judged(s) ==
  \A u \in Objs("udata") :
    \/ s.state = "tmu" /\ IsWhite(s, u)
    \/ s.state \notin Marking /\ IsDead(s, u)
    => u \in s.fin
FinInv(s) == Counted(s) /\ Judged(s)

IInv == g.state # "closed" => Sound(g) /\ Calm(g) /\ FinInv(g)
-----------------------------------------------------------------------------
(* What an object refers to depends on ref, meta and open.                 *)

SameHeap(s, x) == x.ref = s.ref /\ x.meta = s.meta /\ x.open = s.open
LEMMA HeapReads ==
  ASSUME NEW s, NEW x, SameHeap(s, x), NEW o
  PROVE  /\ Below(x, o) = Below(s, o)
         /\ Refs(x, o) = Refs(s, o)
         /\ TableRefs(x, o) = TableRefs(s, o)
         /\ IsWeak(x, o) = IsWeak(s, o)
         /\ UpvalValue(x, o) = UpvalValue(s, o)
         /\ IsOpen(x, o) = IsOpen(s, o)
         /\ EmptyNode(x, o) = EmptyNode(s, o)
  BY DEF SameHeap, Below, Refs, TableRefs, IsWeak, ModeOf, UpvalValue, IsOpen, EmptyNode

LEMMA TypesOf ==
  ASSUME NEW o \in Obj
  PROVE  /\ Tt[o] \in {"table", "string", "udata", "function", "proto", "thread", "upval"}
         /\ o # Nil
         /\ \A t : o \in Objs(t) <=> Tt[o] = t
  BY GcConstants DEF Types, Objs

LEMMA GStateIs ==
  ASSUME NEW s \in GState
  PROVE  /\ s.mark \in [Obj -> Colors] /\ s.meta \in [Obj -> OrNil(Obj)]
         /\ s.open \in [Obj -> {<<>>} \cup (Obj \X {2, 3})]
         /\ s.fin \subseteq Obj /\ s.state \in States /\ s.white \in Whites
         /\ s.gray \subseteq Obj /\ s.again \subseteq Obj /\ s.weak \subseteq Obj
         /\ s.tmu \subseteq Obj /\ \A u \in s.tmu : Tt[u] = "udata"
         /\ s.str \in Nat /\ s.size \in Nat \ {0} /\ s.sweep \subseteq Obj
         /\ s.run \in Obj /\ Tt[s.run] = "thread"
         /\ s.calls \in [Objs("udata") -> Nat]
         /\ DOMAIN s.ref = Obj
  BY DEF GState, Objs

\* UpvalValue and Below, in the heap that a Shaped state has.
LEMMA UpvalHolds ==
  ASSUME NEW s \in GState, Shaped(s), Opened(s), NEW u \in Obj, Tt[u] = "upval",
         s.mark[u] # "free"
  PROVE  UpvalValue(s, u) \in Values
<1>1. CASE IsOpen(s, u)
  <2>1. PICK th \in Objs("thread"), i \in {2, 3} : s.open[u] = <<th, i>>
    BY <1>1 DEF Opened
  <2>2. th \in Obj /\ Tt[th] = "thread" BY <2>1 DEF Objs
  <2>3. s.mark[th] # "free" BY <1>1, <2>1 DEF Opened
  <2>4. i \in Slots(Tt[th]) BY <2>1, <2>2 DEF Slots
  <2>5. s.ref[th][i] \in MayHold(Tt[th], i) BY <2>2, <2>3, <2>4 DEF Shaped
  <2> QED BY <1>1, <2>1, <2>2, <2>5 DEF UpvalValue, MayHold
<1>2. CASE ~IsOpen(s, u)
  <2>1. 1 \in Slots(Tt[u]) BY DEF Slots
  <2>2. s.ref[u][1] \in MayHold(Tt[u], 1) BY <2>1 DEF Shaped
  <2> QED BY <1>2, <2>2 DEF UpvalValue, MayHold
<1> QED BY <1>1, <1>2

LEMMA BelowIs ==
  ASSUME NEW s \in GState, Shaped(s), NEW o \in Obj, NEW x
  PROVE  x \in Below(s, o) <=>
           /\ x # Nil
           /\ \/ \E i \in Slots(Tt[o]) : ~(i = 2 /\ EmptyNode(s, o)) /\ x = s.ref[o][i]
              \/ x = s.meta[o]
              \/ Tt[o] = "upval" /\ x = UpvalValue(s, o)
  BY DEF Below
LEMMA BelowInObj ==
  ASSUME NEW s \in GState, Shaped(s), Opened(s), NEW o \in Obj, s.mark[o] # "free"
  PROVE  Below(s, o) \subseteq Obj
<1> SUFFICES ASSUME NEW x \in Below(s, o) PROVE x \in Obj
  OBVIOUS
<1>1. x # Nil BY BelowIs
<1>2. ASSUME NEW i \in Slots(Tt[o]), x = s.ref[o][i] PROVE x \in Obj
  BY <1>1, <1>2 DEF Shaped, OrNil
<1>3. ASSUME x = s.meta[o] PROVE x \in Obj
  BY <1>1, <1>3, GStateIs DEF OrNil
<1>4. ASSUME Tt[o] = "upval", x = UpvalValue(s, o) PROVE x \in Obj
  BY <1>1, <1>4, UpvalHolds DEF Values, OrNil
<1> QED BY <1>2, <1>3, <1>4, BelowIs

\* White is s.white while marking; what a live object refers to is live.
LEMMA WhiteIs ==
  ASSUME NEW s \in GState, ListInv(s), NEW o \in Obj, IsWhite(s, o)
  PROVE  s.mark[o] = s.white /\ o \in Alive(s)
  BY GStateIs DEF ListInv, IsWhite, Mark, Whites, OtherWhite, Alive, IsDead
-----------------------------------------------------------------------------
(* MarkAll.                                                                *)

\* A udata refers to tables.
LEMMA UdataRefs ==
  ASSUME NEW s \in GState, Shaped(s), NEW u \in Obj, Tt[u] = "udata", s.mark[u] # "free",
         NEW v \in {s.meta[u], s.ref[u][1]}
  PROVE  v = Nil \/ (v \in Obj /\ Tt[v] = "table")
<1>1. 1 \in Slots(Tt[u]) BY DEF Slots
<1>2. s.ref[u][1] \in MayHold(Tt[u], 1) BY <1>1 DEF Shaped
<1>3. s.ref[u][1] \in OrNil(Objs("table")) BY <1>2 DEF MayHold
<1>4. s.meta[u] \in OrNil(Objs("table")) BY DEF Shaped
<1> QED BY <1>3, <1>4 DEF OrNil, Objs

LEMMA MarkedIs ==
  ASSUME NEW s \in GState, Shaped(s), Opened(s), NEW S \in SUBSET OrNil(Obj)
  PROVE  /\ Marked(s, S) \subseteq {o \in Obj : IsWhite(s, o)}
         /\ WhiteOf(s, S) \subseteq Marked(s, S)
         /\ \A o \in Marked(s, S) :
              /\ Tt[o] = "upval" => WhiteOf(s, {UpvalValue(s, o)}) \subseteq Marked(s, S)
              /\ Tt[o] = "udata" => WhiteOf(s, {s.meta[o], s.ref[o][1]}) \subseteq Marked(s, S)
<1> DEFINE Y == WhiteOf(s, S)
           X == FromUpvals(s, Y)
           D == FromUdata(s, X)
           UP == {UpvalValue(s, u) : u \in {o \in Y : Tt[o] = "upval"}}
           UD == UNION {{s.meta[u], s.ref[u][1]} : u \in {o \in X : Tt[o] = "udata"}}
<1>0. Marked(s, S) = D BY DEF Marked
<1>1. \A o \in Y : o \in Obj /\ IsWhite(s, o)
  BY DEF WhiteOf, OrNil
<1>2. X = Y \cup WhiteOf(s, UP) BY DEF FromUpvals
<1>3. \A v \in UP : v \in Values
  <2>1. \A u \in Y : Tt[u] = "upval" => s.mark[u] # "free"
    BY <1>1 DEF IsWhite, Whites, Mark
  <2> QED BY <2>1, <1>1, UpvalHolds
<1>4. \A v \in WhiteOf(s, UP) : v \in Obj /\ IsWhite(s, v) /\ Tt[v] # "upval"
  BY <1>3 DEF WhiteOf, Values, OrNil
<1> HIDE DEF UP
<1>5. D = X \cup WhiteOf(s, UD) BY DEF FromUdata
<1> HIDE DEF Y
<1>6. \A o \in X : o \in Obj /\ IsWhite(s, o) BY <1>1, <1>2, <1>4
<1> HIDE DEF X
<1>7. \A v \in UD : v = Nil \/ (v \in Obj /\ Tt[v] = "table")
  <2>1. \A u \in X : Tt[u] = "udata" => s.mark[u] # "free"
    BY <1>6 DEF IsWhite, Whites, Mark
  <2> SUFFICES ASSUME NEW u \in X, Tt[u] = "udata", NEW v \in {s.meta[u], s.ref[u][1]}
               PROVE  v = Nil \/ (v \in Obj /\ Tt[v] = "table")
    OBVIOUS
  <2> QED BY <2>1, <1>6, UdataRefs
<1>8. \A v \in WhiteOf(s, UD) : v \in Obj /\ IsWhite(s, v) /\ Tt[v] = "table"
  <2> HIDE DEF UD
  <2> QED BY <1>7 DEF WhiteOf
<1>9. ASSUME NEW o \in D, Tt[o] = "upval" PROVE WhiteOf(s, {UpvalValue(s, o)}) \subseteq D
  <2>1. o \in Y
    <3> HIDE DEF D, UD
    <3> QED BY <1>2, <1>4, <1>5, <1>8, <1>9
  <2>2. UpvalValue(s, o) \in UP BY <2>1, <1>9 DEF UP
  <2>3. WhiteOf(s, {UpvalValue(s, o)}) \subseteq WhiteOf(s, UP) BY <2>2 DEF WhiteOf
  <2> HIDE DEF D, UD
  <2> QED BY <2>3, <1>2, <1>5
<1>10. ASSUME NEW o \in D, Tt[o] = "udata"
       PROVE  WhiteOf(s, {s.meta[o], s.ref[o][1]}) \subseteq D
  <2>1. o \in X
    <3> HIDE DEF D, UD
    <3> QED BY <1>5, <1>8, <1>10
  <2>2. {s.meta[o], s.ref[o][1]} \subseteq UD BY <2>1, <1>10
  <2> HIDE DEF UD
  <2>3. WhiteOf(s, {s.meta[o], s.ref[o][1]}) \subseteq WhiteOf(s, UD) BY <2>2 DEF WhiteOf
  <2> HIDE DEF D
  <2> QED BY <2>3, <1>5
<1>11. D \subseteq {o \in Obj : IsWhite(s, o)}
  <2> HIDE DEF D, UD
  <2> QED BY <1>5, <1>6, <1>8
<1>12. Y \subseteq D
  <2> HIDE DEF D, UD
  <2> QED BY <1>2, <1>5
<1> HIDE DEF D, UD
<1> QED BY <1>0, <1>9, <1>10, <1>11, <1>12 DEF Y

\* x is s but for the marks and the lists.
SameRest(s, x) ==
  /\ x.fin = s.fin /\ x.state = s.state /\ x.white = s.white /\ x.tmu = s.tmu
  /\ x.str = s.str /\ x.size = s.size /\ x.sweep = s.sweep /\ x.run = s.run
  /\ x.calls = s.calls
LEMMA MarkAllIs ==
  ASSUME NEW s \in GState, NEW S, Marked(s, S) \subseteq Obj
  PROVE  /\ MarkAll(s, S) \in GState
         /\ SameHeap(s, MarkAll(s, S)) /\ SameRest(s, MarkAll(s, S))
         /\ MarkAll(s, S).again = s.again /\ MarkAll(s, S).weak = s.weak
         /\ MarkAll(s, S).gray = s.gray \cup {o \in Marked(s, S) : Tt[o] \in Chained}
         /\ \A o \in Obj : MarkAll(s, S).mark[o] =
              IF o \notin Marked(s, S) THEN s.mark[o]
              ELSE IF Blackens(s, o) THEN "black" ELSE "gray"
<1> DEFINE D == Marked(s, S)
           m == [o \in Obj |-> IF o \notin D THEN s.mark[o]
                               ELSE IF Blackens(s, o) THEN "black" ELSE "gray"]
           q == s.gray \cup {o \in D : Tt[o] \in Chained}
           x == [s EXCEPT !.mark = m, !.gray = q]
<1>1. MarkAll(s, S) = x BY DEF MarkAll
<1>2. m \in [Obj -> Colors] BY GStateIs DEF Colors
<1>3. q \subseteq Obj BY GStateIs
<1>4. \A o \in Obj : m[o] = IF o \notin D THEN s.mark[o]
                            ELSE IF Blackens(s, o) THEN "black" ELSE "gray"
  OBVIOUS
<1> HIDE DEF m, q, D
<1>5. x \in GState BY <1>2, <1>3 DEF GState
<1>6. x.mark = m /\ x.gray = q BY DEF GState
<1>7. SameHeap(s, x) /\ SameRest(s, x) /\ x.again = s.again /\ x.weak = s.weak
  BY DEF GState, SameHeap, SameRest
<1> HIDE DEF x
<1> QED BY <1>1, <1>4, <1>5, <1>6, <1>7 DEF D, q
\* Marking what S holds keeps the invariant, and W need not excuse S any more.
LEMMA MarkAllKeeps ==
  ASSUME NEW s, HeapInv(s), NEW E, NEW W, MarkInv(s, E, W), s.state \in Marking,
         NEW S \in SUBSET OrNil(Obj)
  PROVE  /\ GcInv(MarkAll(s, S), E, W \ S)
         /\ SameHeap(s, MarkAll(s, S)) /\ SameRest(s, MarkAll(s, S))
         /\ MarkAll(s, S).again = s.again /\ MarkAll(s, S).weak = s.weak
         /\ \A T \in SUBSET OrNil(Obj) : WhiteOf(MarkAll(s, S), T) \subseteq WhiteOf(s, T) \ S
         /\ Alive(MarkAll(s, S)) = Alive(s)
<1> DEFINE D == Marked(s, S)
           x == MarkAll(s, S)
<1>0. s \in GState /\ Shaped(s) /\ Opened(s) /\ Painted(s) /\ Rooted(s) /\ Closed(s)
  BY DEF HeapInv
<1>1. /\ ListInv(s) /\ BlackInv(s, E, W) /\ WhiteOf(s, {MainThread}) \subseteq W
      /\ s.state \in Atomic => AtomicInv(s, E, W)
  BY DEF MarkInv
<1>2. /\ D \subseteq {o \in Obj : IsWhite(s, o)} /\ WhiteOf(s, S) \subseteq D
      /\ \A o \in D :
              /\ Tt[o] = "upval" => WhiteOf(s, {UpvalValue(s, o)}) \subseteq D
              /\ Tt[o] = "udata" => WhiteOf(s, {s.meta[o], s.ref[o][1]}) \subseteq D
  BY <1>0, MarkedIs
<1> HIDE DEF D
<1>3. D \subseteq Obj BY <1>2
<1>4. /\ x \in GState /\ SameHeap(s, x) /\ SameRest(s, x)
      /\ x.again = s.again /\ x.weak = s.weak
      /\ x.gray = s.gray \cup {o \in D : Tt[o] \in Chained}
  BY <1>0, <1>3, MarkAllIs DEF D
<1>5. \A o \in Obj : x.mark[o] = IF o \notin D THEN s.mark[o]
                                 ELSE IF Blackens(s, o) THEN "black" ELSE "gray"
  BY <1>0, <1>3, MarkAllIs DEF D
<1> HIDE DEF x
<1>6. /\ x.ref = s.ref /\ x.meta = s.meta /\ x.open = s.open BY <1>4 DEF SameHeap
<1>7. /\ x.state = s.state /\ x.white = s.white /\ x.tmu = s.tmu
      /\ x.sweep = s.sweep /\ x.run = s.run
  BY <1>4 DEF SameRest
<1>8. \A o : /\ Below(x, o) = Below(s, o) /\ TableRefs(x, o) = TableRefs(s, o)
             /\ IsWeak(x, o) = IsWeak(s, o) /\ UpvalValue(x, o) = UpvalValue(s, o)
             /\ IsOpen(x, o) = IsOpen(s, o)
  BY <1>4, HeapReads
<1>9. \A o \in D : /\ s.mark[o] = s.white /\ o \in Alive(s) /\ s.mark[o] \in Whites
                   /\ x.mark[o] \in {"black", "gray"}
  <2>1. \A o \in D : o \in Obj /\ IsWhite(s, o) BY <1>2
  <2> QED BY <2>1, <1>0, <1>1, <1>5, WhiteIs DEF IsWhite, Mark
<1>10. \A o \in Obj : /\ x.mark[o] = "free" <=> s.mark[o] = "free"
                      /\ IsDead(x, o) <=> IsDead(s, o)
                      /\ IsWhite(x, o) <=> IsWhite(s, o) /\ o \notin D
  BY <1>0, <1>5, <1>7, <1>9, GStateIs
     DEF IsDead, IsWhite, Mark, OtherWhite, Whites, Alive
<1>11. Alive(x) = Alive(s) BY <1>10 DEF Alive
<1>12. ASSUME NEW T \in SUBSET OrNil(Obj) PROVE WhiteOf(x, T) \subseteq WhiteOf(s, T) \ (D \cup S)
  <2>1. \A o \in T \ {Nil} : o \in Obj BY DEF OrNil
  <2> QED BY <2>1, <1>2, <1>10 DEF WhiteOf
<1>13. Shaped(x) BY <1>0, <1>6, <1>10 DEF Shaped
<1>14. Opened(x)
  <2> SUFFICES ASSUME NEW u \in Obj, IsOpen(x, u)
               PROVE  /\ Tt[u] = "upval" /\ x.mark[u] \notin {"free", "black"}
                      /\ x.ref[u][1] = Nil
                      /\ x.open[u] \in Objs("thread") \X {2, 3}
                      /\ x.mark[x.open[u][1]] # "free"
                      /\ u \notin x.sweep
    BY DEF Opened
  <2>1. IsOpen(s, u) BY <1>8
  <2>2. /\ Tt[u] = "upval" /\ s.mark[u] \notin {"free", "black"} /\ s.ref[u][1] = Nil
        /\ s.open[u] \in Objs("thread") \X {2, 3} /\ s.mark[s.open[u][1]] # "free"
        /\ u \notin s.sweep
    BY <2>1, <1>0 DEF Opened
  <2>3. s.open[u][1] \in Obj BY <2>2 DEF Objs
  <2>4. x.mark[u] # "black" BY <1>5, <2>1, <2>2 DEF Blackens
  <2> QED BY <2>2, <2>3, <2>4, <1>6, <1>7, <1>10
<1>15. Painted(x)
  <2> SUFFICES ASSUME NEW o \in Obj
               PROVE  /\ Tt[o] = "udata" => x.mark[o] # "gray"
                      /\ Tt[o] = "thread" => x.mark[o] # "black"
                      /\ Tt[o] = "upval" /\ ~IsOpen(x, o) => x.mark[o] # "gray"
    BY DEF Painted
  <2> QED BY <1>0, <1>5, <1>8 DEF Painted, Blackens
<1>16. Rooted(x) BY <1>0, <1>7, <1>10, <1>11, GStateIs DEF Rooted
<1>17. Closed(x) BY <1>0, <1>8, <1>11 DEF Closed
<1>18. HeapInv(x) BY <1>4, <1>13, <1>14, <1>15, <1>16, <1>17 DEF HeapInv
<1>19. SweepInv(x) BY <1>7 DEF SweepInv
<1>20. ListInv(x)
  <2>1. \A o \in D : o \notin s.gray \cup s.again \cup s.weak
    BY <1>1, <1>9 DEF ListInv, Whites
  <2>2. x.gray \cup x.again \cup x.weak = {o \in Obj : Tt[o] \in Chained /\ x.mark[o] = "gray"}
    <3>1. \A o \in Obj : Tt[o] \in Chained => ~Blackens(s, o)
      BY DEF Blackens, Chained
    <3>2. \A o \in Obj : Tt[o] \in Chained =>
             (x.mark[o] = "gray" <=> o \in D \/ s.mark[o] = "gray")
      BY <3>1, <1>5
    <3>3. s.gray \cup s.again \cup s.weak = {o \in Obj : Tt[o] \in Chained /\ s.mark[o] = "gray"}
      BY <1>1 DEF ListInv
    <3> QED BY <3>2, <3>3, <1>3, <1>4
  <2>3. \A o \in Obj : x.mark[o] # OtherWhite(x)
    BY <1>1, <1>10 DEF ListInv, IsDead, Mark
  <2> QED BY <2>1, <2>2, <2>3, <1>1, <1>4 DEF ListInv
<1>21. \A o \in Obj : s.mark[o] # "free" => Below(s, o) \in SUBSET OrNil(Obj)
  BY <1>0, BelowInObj DEF OrNil
<1>22. BlackInv(x, E, W \ S)
  <2> SUFFICES ASSUME NEW o \in Obj, x.mark[o] = "black",
                      ~(o \in x.tmu /\ x.state \in Early),
                      NEW v \in WhiteOf(x, Below(x, o))
               PROVE  v \in Excused(o, E, W \ S)
    BY DEF BlackInv
  <2>0. s.mark[o] # "free" BY <1>10
  <2>1. v \in WhiteOf(s, Below(s, o)) /\ v \notin D /\ v \notin S
    BY <2>0, <1>8, <1>12, <1>21
  <2>2. CASE o \notin D
    <3>1. s.mark[o] = "black" BY <2>2, <1>5
    <3>2. v \in Excused(o, E, W) BY <3>1, <2>1, <1>1, <1>7 DEF BlackInv
    <3> QED BY <3>2, <2>1 DEF Excused
  <2>3. CASE o \in D
    <3>1. Blackens(s, o) BY <2>3, <1>5
    <3>2. v # Nil /\ v \in Below(s, o) /\ IsWhite(s, v) BY <2>1 DEF WhiteOf
    <3>3. CASE Tt[o] = "udata"
      <4>1. Slots("udata") = {1} BY DEF Slots
      <4>2. v \in {s.meta[o], s.ref[o][1]} BY <4>1, <3>2, <3>3, <1>0, BelowIs
      <4>3. v \in WhiteOf(s, {s.meta[o], s.ref[o][1]}) BY <4>2, <3>2 DEF WhiteOf
      <4> QED BY <4>3, <3>3, <2>3, <1>2, <2>1
    <3>4. CASE Tt[o] = "upval" /\ ~IsOpen(s, o)
      <4>1. Slots("upval") = {1} BY DEF Slots
      <4>2. s.meta[o] = Nil BY <3>4, <1>0 DEF Shaped
      <4>3. v = UpvalValue(s, o) BY <4>1, <4>2, <3>2, <3>4, <1>0, BelowIs DEF UpvalValue
      <4>4. v \in WhiteOf(s, {UpvalValue(s, o)}) BY <4>3, <3>2 DEF WhiteOf
      <4> QED BY <4>4, <3>4, <2>3, <1>2, <2>1
    <3> QED BY <3>1, <3>3, <3>4 DEF Blackens
  <2> QED BY <2>2, <2>3
<1>23. MainThread \in Obj BY GcConstants DEF Objs
<1>24. WhiteOf(x, {MainThread}) \subseteq W \ S
  <2>1. {MainThread} \in SUBSET OrNil(Obj) BY <1>23 DEF OrNil
  <2> QED BY <2>1, <1>1, <1>12
<1>25. ASSUME s.state \in Atomic PROVE AtomicInv(x, E, W \ S)
  <2>1. AtomicInv(s, E, W) BY <1>1, <1>25
  <2>2. ASSUME NEW u \in Obj, IsOpen(x, u), x.mark[u] = "gray"
        PROVE  WhiteOf(x, {UpvalValue(x, u)}) \subseteq Excused(u, E, W \ S)
    <3>1. IsOpen(s, u) /\ UpvalValue(x, u) = UpvalValue(s, u) BY <2>2, <1>8
    <3>2. Tt[u] = "upval" /\ s.mark[u] # "free" BY <3>1, <1>0 DEF Opened
    <3>3. {UpvalValue(s, u)} \in SUBSET OrNil(Obj) BY <3>2, <1>0, UpvalHolds DEF Values, OrNil
    <3>4. WhiteOf(x, {UpvalValue(s, u)}) \subseteq WhiteOf(s, {UpvalValue(s, u)}) \ (D \cup S)
      BY <3>3, <1>12
    <3>5. CASE u \in D BY <3>1, <3>2, <3>4, <3>5, <1>2
    <3>6. CASE u \notin D
      <4>1. s.mark[u] = "gray" BY <3>6, <2>2, <1>5
      <4>2. WhiteOf(s, {UpvalValue(s, u)}) \subseteq Excused(u, E, W)
        BY <4>1, <3>1, <2>1 DEF AtomicInv
      <4> QED BY <4>2, <3>1, <3>4 DEF Excused
    <3> QED BY <3>5, <3>6
  <2>3. WhiteOf(x, {x.run}) \subseteq WhiteOf(s, {s.run}) \ S
    <3>1. {s.run} \in SUBSET OrNil(Obj) BY <1>0, GStateIs DEF OrNil
    <3> QED BY <3>1, <1>7, <1>12
  <2>4. ASSUME s.state # "upvals", NEW t \in x.weak
        PROVE  IsWeak(x, t) /\ WhiteOf(x, TableRefs(x, t)) \subseteq Excused(t, E, W \ S)
    <3>1. t \in s.weak /\ TableRefs(x, t) = TableRefs(s, t) BY <1>4, <1>8
    <3>2. IsWeak(s, t) /\ WhiteOf(s, TableRefs(s, t)) \subseteq Excused(t, E, W)
      BY <3>1, <2>1, <2>4 DEF AtomicInv
    <3>3. t \in Obj /\ Tt[t] = "table" BY <3>2, <3>1, <1>0, GStateIs DEF IsWeak
    <3>4. s.ref[t] \in [1..3 -> OrNil(Obj)] /\ s.meta[t] \in OrNil(Obj)
      BY <3>3, <1>0 DEF Shaped, Slots, OrNil, Objs
    <3>5. TableRefs(s, t) \in SUBSET OrNil(Obj)
      BY <3>4 DEF TableRefs
    <3>6. WhiteOf(x, TableRefs(s, t)) \subseteq WhiteOf(s, TableRefs(s, t)) \ S
      BY <3>5, <1>12
    <3> QED BY <3>1, <3>2, <3>6, <1>8 DEF Excused
  <2>5. ASSUME s.state \in {"again", "tmu"}, NEW t \in x.again
        PROVE  Tt[t] = "thread" /\ WhiteOf(x, Below(x, t)) \subseteq Excused(t, E, W \ S)
    <3>1. t \in s.again /\ Below(x, t) = Below(s, t) BY <1>4, <1>8
    <3>2. Tt[t] = "thread" /\ WhiteOf(s, Below(s, t)) \subseteq Excused(t, E, W)
      BY <3>1, <2>1, <2>5 DEF AtomicInv
    <3>3. t \in Obj /\ s.mark[t] = "gray" BY <3>1, <1>1 DEF ListInv
    <3>4. WhiteOf(x, Below(s, t)) \subseteq WhiteOf(s, Below(s, t)) \ S
      BY <3>3, <1>12, <1>21
    <3> QED BY <3>1, <3>2, <3>4 DEF Excused
  <2>6. s.state = "tmu" => WhiteOf(x, x.tmu) \subseteq W \ S
    <3>1. s.tmu \in SUBSET OrNil(Obj) BY <1>0, GStateIs DEF OrNil
    <3>2. s.state = "tmu" => WhiteOf(s, s.tmu) \subseteq W BY <2>1 DEF AtomicInv
    <3> QED BY <3>1, <3>2, <1>7, <1>12
  <2>7. s.state # "upvals" => WhiteOf(s, {s.run}) \subseteq W BY <2>1 DEF AtomicInv
  <2> QED BY <2>2, <2>3, <2>4, <2>5, <2>6, <2>7, <1>7 DEF AtomicInv
<1>26. MarkInv(x, E, W \ S) BY <1>7, <1>20, <1>22, <1>24, <1>25 DEF MarkInv
<1>27. GcInv(x, E, W \ S) BY <1>18, <1>19, <1>26 DEF GcInv
<1> QED BY <1>4, <1>11, <1>12, <1>27 DEF x

LEMMA NothingExcused ==
  ASSUME NEW s, NEW E, NEW W, W = {}, GcInv(s, E, W)
  PROVE  Sound(s)
<1>1. \A o : Excused(o, E, W) = {} /\ Excused(o, {}, {}) = {} BY DEF Excused
<1>2. BlackInv(s, E, W) => BlackInv(s, {}, {}) BY <1>1 DEF BlackInv
<1>3. AtomicInv(s, E, W) => AtomicInv(s, {}, {})
  <2> SUFFICES ASSUME AtomicInv(s, E, W) PROVE AtomicInv(s, {}, {})
    OBVIOUS
  <2>1. \A u \in Obj : IsOpen(s, u) /\ s.mark[u] = "gray" =>
          WhiteOf(s, {UpvalValue(s, u)}) \subseteq Excused(u, {}, {})
    BY <1>1 DEF AtomicInv
  <2>2. s.state # "upvals" =>
          /\ WhiteOf(s, {s.run}) \subseteq {}
          /\ \A t \in s.weak :
               IsWeak(s, t) /\ WhiteOf(s, TableRefs(s, t)) \subseteq Excused(t, {}, {})
    BY <1>1 DEF AtomicInv
  <2>3. s.state \in {"again", "tmu"} =>
          \A t \in s.again :
            Tt[t] = "thread" /\ WhiteOf(s, Below(s, t)) \subseteq Excused(t, {}, {})
    BY <1>1 DEF AtomicInv
  <2>4. s.state = "tmu" => WhiteOf(s, s.tmu) \subseteq {} BY DEF AtomicInv
  <2> QED BY <2>1, <2>2, <2>3, <2>4 DEF AtomicInv
<1> QED BY <1>2, <1>3 DEF GcInv, MarkInv, Sound
-----------------------------------------------------------------------------
(* PropagateMark.                                                          *)

\* What PropagateMark makes of s before it marks what o refers to.
Popped(s, o) ==
  LET popped == [s EXCEPT !.gray = @ \ {o}]
      listed == IF Tt[o] = "thread" THEN [popped EXCEPT !.again = @ \cup {o}]
                ELSE IF IsWeak(s, o) THEN [popped EXCEPT !.weak = @ \cup {o}]
                ELSE Paint(popped, o, "black")
  IN  RemoveEntry(listed, o)
IsBlackened(s, o) == Tt[o] # "thread" /\ ~IsWeak(s, o)

LEMMA PoppedIs ==
  ASSUME NEW s \in GState, NEW o \in Obj, Shaped(s)
  PROVE  LET y == Popped(s, o) IN
         /\ y \in GState
         /\ y.meta = s.meta /\ y.open = s.open /\ SameRest(s, y)
         /\ y.gray = s.gray \ {o}
         /\ y.again = IF Tt[o] = "thread" THEN s.again \cup {o} ELSE s.again
         /\ y.weak = IF Tt[o] # "thread" /\ IsWeak(s, o) THEN s.weak \cup {o} ELSE s.weak
         /\ \A p \in Obj : y.mark[p] = IF p = o /\ IsBlackened(s, o) THEN "black" ELSE s.mark[p]
         /\ \/ y.ref = s.ref
            \/ EmptyNode(s, o) /\ y.ref = [s.ref EXCEPT ![o] = [s.ref[o] EXCEPT ![2] = Nil]]
<1> DEFINE l == IF Tt[o] = "thread" THEN [s EXCEPT !.gray = @ \ {o}, !.again = @ \cup {o}]
                ELSE IF IsWeak(s, o) THEN [s EXCEPT !.gray = @ \ {o}, !.weak = @ \cup {o}]
                ELSE [s EXCEPT !.gray = @ \ {o}, !.mark = [s.mark EXCEPT ![o] = "black"]]
           y == RemoveEntry(l, o)
<1>1. Popped(s, o) = y
  <2> DEFINE q == [s EXCEPT !.gray = @ \ {o}]
  <2>1. Tt[o] = "thread" =>
          [q EXCEPT !.again = @ \cup {o}] = [s EXCEPT !.gray = @ \ {o}, !.again = @ \cup {o}]
    BY DEF GState
  <2>2. [q EXCEPT !.weak = @ \cup {o}] = [s EXCEPT !.gray = @ \ {o}, !.weak = @ \cup {o}]
    BY DEF GState
  <2>3. Paint(q, o, "black") = [s EXCEPT !.gray = @ \ {o}, !.mark = [s.mark EXCEPT ![o] = "black"]]
    BY DEF GState, Paint
  <2> QED BY <2>1, <2>2, <2>3 DEF Popped
<1>2. /\ l \in GState
      /\ l.meta = s.meta /\ l.open = s.open /\ l.ref = s.ref /\ SameRest(s, l)
      /\ l.gray = s.gray \ {o}
      /\ l.again = IF Tt[o] = "thread" THEN s.again \cup {o} ELSE s.again
      /\ l.weak = IF Tt[o] # "thread" /\ IsWeak(s, o) THEN s.weak \cup {o} ELSE s.weak
      /\ l.mark = IF IsBlackened(s, o) THEN [s.mark EXCEPT ![o] = "black"] ELSE s.mark
  <2>1. CASE Tt[o] = "thread"
    BY <2>1 DEF GState, SameRest, IsBlackened
  <2>2. CASE Tt[o] # "thread" /\ IsWeak(s, o)
    BY <2>2 DEF GState, SameRest, IsBlackened
  <2>3. CASE Tt[o] # "thread" /\ ~IsWeak(s, o)
    <3>1. [s.mark EXCEPT ![o] = "black"] \in [Obj -> Colors] BY GStateIs DEF Colors
    <3> QED BY <2>3, <3>1 DEF GState, SameRest, IsBlackened
  <2> QED BY <2>1, <2>2, <2>3
<1> HIDE DEF l
<1>3. EmptyNode(l, o) = EmptyNode(s, o) BY <1>2 DEF EmptyNode
<1>4. \A p \in Obj : l.mark[p] = IF p = o /\ IsBlackened(s, o) THEN "black" ELSE s.mark[p]
  BY <1>2, GStateIs
<1>5. CASE y = l BY <1>1, <1>2, <1>4, <1>5
<1>6. CASE y # l
  <2>1. EmptyNode(s, o) /\ y = [l EXCEPT !.ref[o][2] = Nil]
    BY <1>3, <1>6 DEF RemoveEntry
  <2>2. Tt[o] = "table" BY <2>1 DEF EmptyNode
  <2> DEFINE r == [s.ref EXCEPT ![o] = [s.ref[o] EXCEPT ![2] = Nil]]
  <2>3. r \in [Obj -> UNION {[Slots(t) -> OrNil(Obj)] : t \in Types}]
    <3>1. s.ref[o] \in [1..3 -> OrNil(Obj)] BY <2>2 DEF Shaped, Slots
    <3>2. [s.ref[o] EXCEPT ![2] = Nil] \in [1..3 -> OrNil(Obj)] BY <3>1 DEF OrNil
    <3>3. [1..3 -> OrNil(Obj)] \in {[Slots(t) -> OrNil(Obj)] : t \in Types}
      <4>1. Slots("table") = 1..3 /\ "table" \in Types BY DEF Slots, Types
      <4> QED BY <4>1
    <3>4. [s.ref[o] EXCEPT ![2] = Nil] \in UNION {[Slots(t) -> OrNil(Obj)] : t \in Types}
      BY <3>2, <3>3
    <3>5. s.ref \in [Obj -> UNION {[Slots(t) -> OrNil(Obj)] : t \in Types}] BY DEF GState
    <3> QED BY <3>4, <3>5
  <2>4. y = [l EXCEPT !.ref = r] BY <2>1, <1>2
  <2> HIDE DEF r, y
  <2>5. y \in GState BY <2>3, <2>4, <1>2 DEF GState
  <2>6. /\ y.ref = r /\ y.mark = l.mark /\ y.meta = l.meta /\ y.open = l.open
        /\ y.gray = l.gray /\ y.again = l.again /\ y.weak = l.weak /\ SameRest(l, y)
    BY <2>4, <1>2 DEF GState, SameRest
  <2>7. SameRest(s, y) BY <2>6, <1>2 DEF SameRest
  <2>8. y.ref = [s.ref EXCEPT ![o] = [s.ref[o] EXCEPT ![2] = Nil]] BY <2>6 DEF r
  <2> QED BY <1>1, <1>2, <1>4, <2>1, <2>5, <2>6, <2>7, <2>8
<1> QED BY <1>5, <1>6

\* The key of an empty node is not read.
LEMMA RemovedReads ==
  ASSUME NEW s, HeapInv(s), NEW y, NEW o \in Obj,
         y.meta = s.meta, y.open = s.open,
         \A p \in Obj : y.mark[p] = "free" <=> s.mark[p] = "free",
         \/ y.ref = s.ref
         \/ EmptyNode(s, o) /\ y.ref = [s.ref EXCEPT ![o] = [s.ref[o] EXCEPT ![2] = Nil]]
  PROVE  /\ \A p \in Obj : /\ Below(y, p) = Below(s, p)
                           /\ TableRefs(y, p) = TableRefs(s, p)
                           /\ IsWeak(y, p) = IsWeak(s, p)
                           /\ IsOpen(y, p) = IsOpen(s, p)
                           /\ Tt[p] = "upval" => UpvalValue(y, p) = UpvalValue(s, p)
                           /\ Tt[p] = "upval" => y.ref[p] = s.ref[p]
         /\ Shaped(y)
<1>0. s \in GState /\ Shaped(s) /\ Opened(s) BY DEF HeapInv
<1>1. CASE y.ref = s.ref
  <2>1. SameHeap(s, y) BY <1>1 DEF SameHeap
  <2>2. Shaped(y) BY <1>0, <1>1 DEF Shaped
  <2> QED BY <1>1, <2>1, <2>2, HeapReads
<1>2. CASE EmptyNode(s, o) /\ y.ref = [s.ref EXCEPT ![o] = [s.ref[o] EXCEPT ![2] = Nil]]
  <2>1. Tt[o] = "table" /\ s.ref[o] \in [1..3 -> OrNil(Obj)] /\ s.ref[o][3] = Nil
    BY <1>0, <1>2 DEF EmptyNode, Shaped, Slots
  <2>2. DOMAIN s.ref = Obj BY <1>0, GStateIs
  <2>3. \A p \in Obj : p # o => y.ref[p] = s.ref[p] BY <1>2, <2>2
  <2>4. /\ y.ref[o] \in [1..3 -> OrNil(Obj)]
        /\ y.ref[o][1] = s.ref[o][1] /\ y.ref[o][2] = Nil /\ y.ref[o][3] = s.ref[o][3]
    BY <1>2, <2>1, <2>2 DEF OrNil
  <2>5. \A p \in Obj : /\ EmptyNode(y, p) = EmptyNode(s, p)
                       /\ ModeOf(y, p) = ModeOf(s, p)
                       /\ IsWeak(y, p) = IsWeak(s, p)
                       /\ IsOpen(y, p) = IsOpen(s, p)
    BY <2>3, <2>4 DEF EmptyNode, ModeOf, IsWeak, IsOpen
  <2>6. EmptyNode(s, o) BY <1>2
  <2>7. \A p \in Obj : TableRefs(y, p) = TableRefs(s, p)
    BY <2>3, <2>4, <2>5, <2>6 DEF TableRefs
  <2>8. ASSUME NEW p \in Obj, Tt[p] = "upval"
        PROVE  UpvalValue(y, p) = UpvalValue(s, p) /\ y.ref[p] = s.ref[p]
    <3>1. p # o BY <2>1, <2>8
    <3>2. CASE IsOpen(s, p)
      <4>1. s.open[p] \in Objs("thread") \X {2, 3} BY <3>2, <1>0 DEF Opened
      <4>2. s.open[p][1] \in Obj /\ s.open[p][1] # o BY <4>1, <2>1 DEF Objs
      <4> QED BY <4>2, <3>1, <3>2, <2>3, <2>5 DEF UpvalValue
    <3>3. CASE ~IsOpen(s, p) BY <3>1, <3>3, <2>3, <2>5 DEF UpvalValue
    <3> QED BY <3>1, <3>2, <3>3, <2>3
  <2>9. Shaped(y)
    <3>1. \A p \in Obj : p # o =>
            /\ y.ref[p] \in [Slots(Tt[p]) -> OrNil(Obj)]
            /\ y.mark[p] # "free" => \A i \in Slots(Tt[p]) : y.ref[p][i] \in MayHold(Tt[p], i)
            /\ y.meta[p] \in IF Tt[p] \in {"table", "udata"} THEN OrNil(Objs("table")) ELSE {Nil}
      BY <2>3, <1>0 DEF Shaped
    <3>2. Slots("table") = {1, 2, 3} BY DEF Slots
    <3>3. Nil \in MayHold("table", 2) BY DEF MayHold, Values, OrNil
    <3>4. /\ y.ref[o] \in [Slots(Tt[o]) -> OrNil(Obj)]
          /\ y.mark[o] # "free" => \A i \in Slots(Tt[o]) : y.ref[o][i] \in MayHold(Tt[o], i)
      BY <2>1, <2>4, <3>2, <3>3, <1>0 DEF Shaped
    <3>5. y.meta[o] \in IF Tt[o] \in {"table", "udata"} THEN OrNil(Objs("table")) ELSE {Nil}
      BY <1>0 DEF Shaped
    <3> QED BY <3>1, <3>4, <3>5 DEF Shaped
  <2>10. ASSUME NEW p \in Obj PROVE Below(y, p) = Below(s, p)
    <3>1. CASE p # o
      BY <3>1, <2>3, <2>5, <2>8 DEF Below
    <3>2. CASE p = o
      <4>1. Slots(Tt[p]) \ {2} = {1, 3} BY <2>1, <3>2 DEF Slots
      <4>2. EmptyNode(y, p) /\ EmptyNode(s, p) /\ Tt[p] # "upval" BY <2>1, <2>5, <2>6, <3>2
      <4>3. Below(y, p) = ({y.ref[p][i] : i \in {1, 3}} \cup {y.meta[p]}) \ {Nil}
        BY <4>1, <4>2 DEF Below
      <4>4. Below(s, p) = ({s.ref[p][i] : i \in {1, 3}} \cup {s.meta[p]}) \ {Nil}
        BY <4>1, <4>2 DEF Below
      <4> QED BY <4>3, <4>4, <2>4, <3>2
    <3> QED BY <3>1, <3>2
  <2> QED BY <2>5, <2>7, <2>8, <2>9, <2>10
<1> QED BY <1>1, <1>2

LEMMA PropagateKeeps ==
  ASSUME NEW s, Sound(s), s.state \in Marking, s.gray # {}
  PROVE  Sound(PropagateMark(s)) /\ SameRest(s, PropagateMark(s))
<1>0. /\ s \in GState /\ Shaped(s) /\ Opened(s) /\ Painted(s) /\ Rooted(s) /\ Closed(s)
      /\ HeapInv(s) /\ MarkInv(s, {}, {})
  BY DEF Sound, GcInv, HeapInv
<1>1. /\ ListInv(s) /\ BlackInv(s, {}, {}) /\ WhiteOf(s, {MainThread}) = {}
      /\ s.state \in Atomic => AtomicInv(s, {}, {})
  BY <1>0 DEF MarkInv
<1> DEFINE o == CHOOSE p \in s.gray : TRUE
           y == Popped(s, o)
           R == Refs(s, o)
<1>2. PropagateMark(s) = MarkAll(y, R) BY DEF PropagateMark, Popped
<1>3. o \in s.gray OBVIOUS
<1> HIDE DEF o
<1>4. o \in Obj /\ s.mark[o] = "gray" /\ Tt[o] \in Chained /\ o \notin s.again \cup s.weak
  BY <1>1, <1>3 DEF ListInv
<1>5. /\ y \in GState
      /\ y.meta = s.meta /\ y.open = s.open /\ SameRest(s, y)
      /\ y.gray = s.gray \ {o}
      /\ y.again = IF Tt[o] = "thread" THEN s.again \cup {o} ELSE s.again
      /\ y.weak = IF Tt[o] # "thread" /\ IsWeak(s, o) THEN s.weak \cup {o} ELSE s.weak
      /\ \A p \in Obj : y.mark[p] = IF p = o /\ IsBlackened(s, o) THEN "black" ELSE s.mark[p]
      /\ \/ y.ref = s.ref
         \/ EmptyNode(s, o) /\ y.ref = [s.ref EXCEPT ![o] = [s.ref[o] EXCEPT ![2] = Nil]]
  BY <1>0, <1>4, PoppedIs
<1> HIDE DEF y
<1>6. \A p \in Obj : y.mark[p] = "free" <=> s.mark[p] = "free" BY <1>4, <1>5
<1>7. /\ \A p \in Obj : /\ Below(y, p) = Below(s, p)
                        /\ TableRefs(y, p) = TableRefs(s, p)
                        /\ IsWeak(y, p) = IsWeak(s, p)
                        /\ IsOpen(y, p) = IsOpen(s, p)
                        /\ Tt[p] = "upval" => UpvalValue(y, p) = UpvalValue(s, p)
                        /\ Tt[p] = "upval" => y.ref[p] = s.ref[p]
      /\ Shaped(y)
  BY <1>0, <1>4, <1>5, <1>6, RemovedReads
<1>8. /\ y.state = s.state /\ y.white = s.white /\ y.tmu = s.tmu
      /\ y.sweep = s.sweep /\ y.run = s.run
  BY <1>5 DEF SameRest
<1>9. \A p \in Obj : /\ IsDead(y, p) <=> IsDead(s, p)
                     /\ IsWhite(y, p) <=> IsWhite(s, p)
  BY <1>0, <1>4, <1>5, <1>8, GStateIs DEF IsDead, IsWhite, Mark, OtherWhite, Whites
<1>10. Alive(y) = Alive(s) BY <1>6, <1>9 DEF Alive
<1>11. \A T \in SUBSET OrNil(Obj) : WhiteOf(y, T) = WhiteOf(s, T)
  BY <1>9 DEF WhiteOf, OrNil
<1>12. HeapInv(y)
  <2>1. Opened(y)
    <3> SUFFICES ASSUME NEW u \in Obj, IsOpen(y, u)
                 PROVE  /\ Tt[u] = "upval" /\ y.mark[u] \notin {"free", "black"}
                        /\ y.ref[u][1] = Nil
                        /\ y.open[u] \in Objs("thread") \X {2, 3}
                        /\ y.mark[y.open[u][1]] # "free"
                        /\ u \notin y.sweep
      BY DEF Opened
    <3>1. IsOpen(s, u) BY <1>7
    <3>2. /\ Tt[u] = "upval" /\ s.mark[u] \notin {"free", "black"} /\ s.ref[u][1] = Nil
          /\ s.open[u] \in Objs("thread") \X {2, 3} /\ s.mark[s.open[u][1]] # "free"
          /\ u \notin s.sweep
      BY <3>1, <1>0 DEF Opened
    <3>3. s.open[u][1] \in Obj BY <3>2 DEF Objs
    <3>4. u # o BY <3>2, <1>4 DEF Chained
    <3> QED BY <3>2, <3>3, <3>4, <1>5, <1>6, <1>7, <1>8
  <2>2. Painted(y)
    <3>1. \A p \in Obj : p # o => y.mark[p] = s.mark[p] BY <1>5
    <3>2. /\ Tt[o] # "udata" /\ Tt[o] # "upval" /\ (Tt[o] = "thread" => y.mark[o] # "black")
      BY <1>4, <1>5 DEF Chained, IsBlackened
    <3> QED BY <3>1, <3>2, <1>0, <1>7 DEF Painted
  <2>3. Rooted(y) BY <1>0, <1>6, <1>8, <1>10, GStateIs DEF Rooted
  <2>4. Closed(y)
    <3>1. \A p \in Alive(s) : p \in Obj BY DEF Alive
    <3> QED BY <3>1, <1>0, <1>7, <1>10 DEF Closed
  <2> QED BY <2>1, <2>2, <2>3, <2>4, <1>5, <1>7 DEF HeapInv
<1>13. ListInv(y)
  <2>1. o \in s.gray /\ o \notin s.again /\ o \notin s.weak BY <1>3, <1>4
  <2>2. Tt[o] # "thread" /\ IsWeak(s, o) => Tt[o] = "table" BY DEF IsWeak
  <2>3. \A t \in {"table", "thread"} : o \in Objs(t) <=> Tt[o] = t BY <1>4 DEF Objs
  <2>4. y.gray \cup y.again \cup y.weak = {p \in Obj : Tt[p] \in Chained /\ y.mark[p] = "gray"}
    <3>1. s.gray \cup s.again \cup s.weak = {p \in Obj : Tt[p] \in Chained /\ s.mark[p] = "gray"}
      BY <1>1 DEF ListInv
    <3>2. CASE IsBlackened(s, o)
      <4>1. y.again = s.again /\ y.weak = s.weak /\ y.gray = s.gray \ {o}
        BY <3>2, <1>5 DEF IsBlackened
      <4>2. \A p \in Obj : y.mark[p] = "gray" <=> p # o /\ s.mark[p] = "gray" BY <3>2, <1>5
      <4> QED BY <4>1, <4>2, <3>1, <2>1
    <3>3. CASE ~IsBlackened(s, o)
      <4>1. y.gray \cup y.again \cup y.weak = s.gray \cup s.again \cup s.weak
        BY <3>3, <1>5, <2>1 DEF IsBlackened
      <4>2. \A p \in Obj : y.mark[p] = s.mark[p] BY <3>3, <1>5
      <4> QED BY <4>1, <4>2, <3>1
    <3> QED BY <3>2, <3>3
  <2>5. /\ y.gray \cap y.again = {} /\ y.gray \cap y.weak = {} /\ y.again \cap y.weak = {}
    BY <2>1, <1>1, <1>5 DEF ListInv
  <2>6. y.again \subseteq Objs("table") \cup Objs("thread") /\ y.weak \subseteq Objs("table")
    BY <2>2, <2>3, <1>1, <1>5 DEF ListInv
  <2>7. \A p \in Obj : y.mark[p] # OtherWhite(y)
    BY <1>1, <1>9 DEF ListInv, IsDead, Mark
  <2> QED BY <2>4, <2>5, <2>6, <2>7 DEF ListInv
<1>14. /\ R \in SUBSET OrNil(Obj)
       /\ \A p \in Obj : s.mark[p] # "free" => Below(s, p) \in SUBSET OrNil(Obj)
       /\ \A t \in Obj : Tt[t] = "table" => TableRefs(s, t) \in SUBSET OrNil(Obj)
  <2>1. ASSUME NEW t \in Obj, Tt[t] = "table" PROVE TableRefs(s, t) \in SUBSET OrNil(Obj)
    <3>1. s.ref[t] \in [1..3 -> OrNil(Obj)] /\ s.meta[t] \in OrNil(Obj)
      BY <2>1, <1>0 DEF Shaped, Slots, OrNil, Objs
    <3> QED BY <3>1 DEF TableRefs
  <2>2. R \in SUBSET OrNil(Obj)
    <3>1. s.ref[o] \in [Slots(Tt[o]) -> OrNil(Obj)] BY <1>0, <1>4 DEF Shaped
    <3> QED BY <3>1, <2>1, <1>4 DEF Refs
  <2> QED BY <2>1, <2>2, <1>0, BelowInObj DEF OrNil
<1>15. \A v \in Below(s, o) : IsBlackened(s, o) \/ Tt[o] = "thread" => v \in R
  <2> SUFFICES ASSUME NEW v \in Below(s, o), IsBlackened(s, o) \/ Tt[o] = "thread"
               PROVE  v \in R
    OBVIOUS
  <2>1. /\ v # Nil
        /\ \/ \E i \in Slots(Tt[o]) : ~(i = 2 /\ EmptyNode(s, o)) /\ v = s.ref[o][i]
           \/ v = s.meta[o]
    BY <1>0, <1>4, BelowIs DEF Chained
  <2>2. CASE Tt[o] # "table"
    <3>1. s.meta[o] = Nil BY <2>2, <1>0, <1>4 DEF Shaped, Chained
    <3> QED BY <2>1, <2>2, <3>1 DEF Refs
  <2>3. CASE Tt[o] = "table"
    <3>1. ModeOf(s, o) = {} BY <2>3 DEF IsBlackened, IsWeak
    <3>2. Slots(Tt[o]) = {1, 2, 3} BY <2>3 DEF Slots
    <3>3. R = {s.meta[o], s.ref[o][1]} \cup (IF EmptyNode(s, o) THEN {} ELSE {s.ref[o][2]})
              \cup (IF EmptyNode(s, o) THEN {} ELSE {s.ref[o][3]})
      BY <2>3, <3>1 DEF Refs, TableRefs
    <3>4. EmptyNode(s, o) => s.ref[o][3] = Nil BY DEF EmptyNode
    <3> QED BY <2>1, <3>2, <3>3, <3>4
  <2> QED BY <2>2, <2>3
<1>16. WhiteOf(s, R) \subseteq R BY DEF WhiteOf
<1> HIDE DEF R
<1>17. BlackInv(y, {o}, R)
  <2> SUFFICES ASSUME NEW p \in Obj, y.mark[p] = "black", ~(p \in y.tmu /\ y.state \in Early)
               PROVE  WhiteOf(y, Below(y, p)) \subseteq Excused(p, {o}, R)
    BY DEF BlackInv
  <2>1. WhiteOf(y, Below(y, p)) = WhiteOf(s, Below(s, p)) BY <1>6, <1>7, <1>11, <1>14
  <2>2. CASE p = o
    <3>1. IsBlackened(s, o) BY <2>2, <1>4, <1>5
    <3> QED BY <3>1, <2>1, <2>2, <1>15 DEF Excused, WhiteOf
  <2>3. CASE p # o
    <3>1. s.mark[p] = "black" BY <2>3, <1>5
    <3> QED BY <3>1, <2>1, <1>1, <1>8 DEF BlackInv, Excused
  <2> QED BY <2>2, <2>3
<1>18. MainThread \in Obj /\ {MainThread} \in SUBSET OrNil(Obj)
  BY GcConstants DEF Objs, OrNil
<1>19. ASSUME y.state \in Atomic PROVE AtomicInv(y, {o}, R)
  <2>1. AtomicInv(s, {}, {}) BY <1>1, <1>8, <1>19
  <2>2. ASSUME NEW u \in Obj, IsOpen(y, u), y.mark[u] = "gray"
        PROVE  WhiteOf(y, {UpvalValue(y, u)}) \subseteq Excused(u, {o}, R)
    <3>1. IsOpen(s, u) BY <2>2, <1>7
    <3>2. Tt[u] = "upval" /\ s.mark[u] # "free" BY <3>1, <1>0 DEF Opened
    <3>3. {UpvalValue(s, u)} \in SUBSET OrNil(Obj) BY <3>2, <1>0, UpvalHolds DEF Values, OrNil
    <3>4. s.mark[u] = "gray" BY <2>2, <1>5
    <3>5. WhiteOf(s, {UpvalValue(s, u)}) = {} BY <3>1, <3>4, <2>1 DEF AtomicInv, Excused
    <3> QED BY <3>2, <3>3, <3>5, <1>7, <1>11
  <2>3. y.state # "upvals" => WhiteOf(y, {y.run}) \subseteq R
    <3>1. {s.run} \in SUBSET OrNil(Obj) BY <1>0, GStateIs DEF OrNil
    <3> QED BY <3>1, <2>1, <1>8, <1>11 DEF AtomicInv
  <2>4. ASSUME y.state # "upvals", NEW t \in y.weak
        PROVE  IsWeak(y, t) /\ WhiteOf(y, TableRefs(y, t)) \subseteq Excused(t, {o}, R)
    <3>1. CASE t \in s.weak
      <4>1. IsWeak(s, t) /\ WhiteOf(s, TableRefs(s, t)) = {}
        BY <3>1, <2>1, <2>4, <1>8 DEF AtomicInv, Excused
      <4>2. t \in Obj /\ Tt[t] = "table" BY <3>1, <4>1, <1>0, GStateIs DEF IsWeak
      <4> QED BY <4>1, <4>2, <1>7, <1>11, <1>14
    <3>2. CASE t \notin s.weak
      <4>1. t = o /\ Tt[o] # "thread" /\ IsWeak(s, o) BY <3>2, <2>4, <1>5
      <4>2. Tt[o] = "table" BY <4>1 DEF IsWeak
      <4>3. TableRefs(y, o) = R BY <4>2, <1>4, <1>7 DEF R, Refs
      <4> QED BY <4>1, <4>3, <1>4, <1>7 DEF Excused, WhiteOf
    <3> QED BY <3>1, <3>2
  <2>5. ASSUME y.state \in {"again", "tmu"}, NEW t \in y.again
        PROVE  Tt[t] = "thread" /\ WhiteOf(y, Below(y, t)) \subseteq Excused(t, {o}, R)
    <3>1. CASE t \in s.again
      <4>1. Tt[t] = "thread" /\ WhiteOf(s, Below(s, t)) = {}
        BY <3>1, <2>1, <2>5, <1>8 DEF AtomicInv, Excused
      <4>2. t \in Obj /\ s.mark[t] = "gray" BY <3>1, <1>1 DEF ListInv
      <4> QED BY <4>1, <4>2, <1>7, <1>11, <1>14
    <3>2. CASE t \notin s.again
      <4>1. t = o /\ Tt[o] = "thread" BY <3>2, <2>5, <1>5
      <4> QED BY <4>1, <1>4, <1>7, <1>15 DEF Excused, WhiteOf
    <3> QED BY <3>1, <3>2
  <2>6. y.state = "tmu" => WhiteOf(y, y.tmu) \subseteq R
    <3>1. s.tmu \in SUBSET OrNil(Obj) BY <1>0, GStateIs DEF OrNil
    <3>2. s.state = "tmu" => WhiteOf(s, s.tmu) = {} BY <2>1 DEF AtomicInv
    <3> QED BY <3>1, <3>2, <1>8, <1>11
  <2> QED BY <2>2, <2>3, <2>4, <2>5, <2>6 DEF AtomicInv
<1>20. WhiteOf(y, {MainThread}) \subseteq R BY <1>1, <1>11, <1>18
<1>21. MarkInv(y, {o}, R) BY <1>13, <1>17, <1>19, <1>20 DEF MarkInv
<1>22. y.state \in Marking BY <1>8
<1>23. GcInv(MarkAll(y, R), {o}, R \ R) /\ SameRest(y, MarkAll(y, R))
  BY <1>12, <1>14, <1>21, <1>22, MarkAllKeeps
<1>24. Sound(MarkAll(y, R)) BY <1>23, NothingExcused
<1>25. SameRest(s, MarkAll(y, R)) BY <1>5, <1>23 DEF SameRest
<1> QED BY <1>2, <1>24, <1>25
-----------------------------------------------------------------------------
(* The other stages of marking.                                            *)

\* x is s but for the state and the lists.
SameObjects(s, x) ==
  /\ SameHeap(s, x) /\ x.mark = s.mark /\ x.white = s.white /\ x.tmu = s.tmu
  /\ x.sweep = s.sweep /\ x.run = s.run
LEMMA StageHeap ==
  ASSUME NEW s, HeapInv(s), s.state \notin {"sweepstring", "sweep"},
         NEW x \in GState, SameObjects(s, x), x.state \in Marking
  PROVE  /\ HeapInv(x)
         /\ Alive(x) = Alive(s)
         /\ \A T : WhiteOf(x, T) = WhiteOf(s, T)
<1>0. s \in GState /\ Shaped(s) /\ Opened(s) /\ Painted(s) /\ Rooted(s) /\ Closed(s)
  BY DEF HeapInv
<1>1. /\ SameHeap(s, x) /\ x.mark = s.mark /\ x.white = s.white /\ x.tmu = s.tmu
      /\ x.sweep = s.sweep /\ x.run = s.run /\ x.ref = s.ref /\ x.meta = s.meta
      /\ x.open = s.open
  BY DEF SameObjects, SameHeap
<1>2. \A o : Below(x, o) = Below(s, o) /\ IsOpen(x, o) = IsOpen(s, o) BY <1>1, HeapReads
<1>3. \A o : IsDead(x, o) = IsDead(s, o) /\ IsWhite(x, o) = IsWhite(s, o)
  BY <1>1 DEF IsDead, IsWhite, Mark, OtherWhite
<1>4. Alive(x) = Alive(s) BY <1>1, <1>3 DEF Alive
<1>5. Shaped(x) BY <1>0, <1>1 DEF Shaped
<1>6. Opened(x) BY <1>0, <1>1, <1>2 DEF Opened
<1>7. Painted(x) BY <1>0, <1>1, <1>2 DEF Painted
<1>8. Rooted(x) BY <1>0, <1>1, <1>4 DEF Rooted, Marking, Atomic
<1>9. Closed(x) BY <1>0, <1>2, <1>4 DEF Closed
<1> QED BY <1>3, <1>4, <1>5, <1>6, <1>7, <1>8, <1>9 DEF HeapInv, WhiteOf

LEMMA MainIs == MainThread \in Obj /\ Tt[MainThread] = "thread"
  BY GcConstants DEF Objs

LEMMA MarkRootKeeps ==
  ASSUME NEW s, Sound(s), s.state \in {"pause", "finalize"}
  PROVE  /\ Sound(MarkRoot(s))
         /\ MarkRoot(s).state = "propagate" /\ MarkRoot(s).tmu = s.tmu
<1>0. /\ s \in GState /\ Shaped(s) /\ Opened(s) /\ Painted(s) /\ Rooted(s) /\ Closed(s)
      /\ HeapInv(s) /\ SweepInv(s)
  BY DEF Sound, GcInv, HeapInv
<1> DEFINE y == [s EXCEPT !.gray = {}, !.again = {}, !.weak = {}, !.state = "propagate"]
           S == {MainThread, s.ref[MainThread][1]}
<1>1. MarkRoot(s) = MarkAll(y, S) BY DEF MarkRoot
<1>2. /\ y \in GState /\ SameObjects(s, y) /\ y.state = "propagate"
      /\ y.gray = {} /\ y.again = {} /\ y.weak = {}
  BY <1>0 DEF GState, SameObjects, SameHeap, States
<1> HIDE DEF y
<1>3. y.state \in Marking BY <1>2 DEF Marking
<1>4. HeapInv(y) BY <1>0, <1>2, <1>3, StageHeap
<1>5. ASSUME NEW o \in Obj, s.mark[o] \notin {"free", s.white}
      PROVE  o \in s.tmu
  BY <1>5, <1>0 DEF SweepInv, ToSweep, Marking, Atomic, Closing
<1>6. y.mark = s.mark /\ y.white = s.white /\ y.tmu = s.tmu BY <1>2 DEF SameObjects
<1>7. ListInv(y)
  <2>1. \A o \in Obj : Tt[o] \in Chained => s.mark[o] # "gray"
    BY <1>0, <1>5, GStateIs DEF Chained, Whites
  <2>2. \A o \in s.tmu : o \in Obj /\ s.mark[o] # OtherWhite(s)
    BY <1>0 DEF Rooted, Alive, IsDead, Mark
  <2>3. OtherWhite(s) \notin {"free", s.white}
    BY <1>0, GStateIs DEF OtherWhite, Whites
  <2>4. \A o \in Obj : y.mark[o] # OtherWhite(y)
    BY <2>2, <2>3, <1>5, <1>6 DEF OtherWhite
  <2> QED BY <2>1, <2>4, <1>2, <1>6 DEF ListInv
<1>8. BlackInv(y, {}, S)
  BY <1>0, <1>2, <1>5, <1>6, GStateIs DEF BlackInv, Early, Whites
<1>9. MarkInv(y, {}, S)
  <2>1. WhiteOf(y, {MainThread}) \subseteq S BY DEF WhiteOf
  <2>2. y.state \notin Atomic BY <1>2 DEF Atomic
  <2> QED BY <2>1, <2>2, <1>7, <1>8 DEF MarkInv
<1>10. S \in SUBSET OrNil(Obj)
  <2>1. 1 \in Slots("thread") BY DEF Slots
  <2>2. s.ref[MainThread] \in [Slots("thread") -> OrNil(Obj)] BY <1>0, MainIs DEF Shaped
  <2> QED BY <2>1, <2>2, MainIs DEF OrNil
<1>11. GcInv(MarkAll(y, S), {}, S \ S) /\ SameRest(y, MarkAll(y, S))
  BY <1>3, <1>4, <1>9, <1>10, MarkAllKeeps
<1>12. S \ S = {} OBVIOUS
<1>13. Sound(MarkAll(y, S)) BY <1>11, <1>12, NothingExcused
<1> QED BY <1>1, <1>2, <1>6, <1>11, <1>13 DEF SameRest

LEMMA RemarkUpvalsKeeps ==
  ASSUME NEW s, Sound(s), s.state = "propagate"
  PROVE  /\ Sound(RemarkUpvals(s))
         /\ RemarkUpvals(s).state = "upvals" /\ RemarkUpvals(s).tmu = s.tmu
<1>0. /\ s \in GState /\ Shaped(s) /\ Opened(s) /\ HeapInv(s) /\ MarkInv(s, {}, {})
  BY DEF Sound, GcInv, HeapInv
<1>1. ListInv(s) /\ BlackInv(s, {}, {}) /\ WhiteOf(s, {MainThread}) = {}
  BY <1>0 DEF MarkInv, Marking
<1> DEFINE y == [s EXCEPT !.state = "upvals"]
           M == {u \in Objs("upval") : IsOpen(s, u) /\ Mark(s, u) = "gray"}
           S == {UpvalValue(s, u) : u \in M}
<1>2. RemarkUpvals(s) = MarkAll(y, S) BY DEF RemarkUpvals
<1>3. /\ y \in GState /\ SameObjects(s, y) /\ y.state = "upvals"
      /\ y.gray = s.gray /\ y.again = s.again /\ y.weak = s.weak
  BY <1>0 DEF GState, SameObjects, SameHeap, States, Atomic
<1> HIDE DEF y
<1>4. y.state \in Marking BY <1>3 DEF Marking, Atomic
<1>5. HeapInv(y) /\ \A T : WhiteOf(y, T) = WhiteOf(s, T) BY <1>0, <1>3, <1>4, StageHeap
<1>6. y.mark = s.mark /\ y.white = s.white /\ y.tmu = s.tmu /\ SameHeap(s, y)
  BY <1>3 DEF SameObjects
<1>7. \A o : Below(y, o) = Below(s, o) /\ UpvalValue(y, o) = UpvalValue(s, o)
             /\ IsOpen(y, o) = IsOpen(s, o)
  BY <1>6, HeapReads
<1>8. ListInv(y) BY <1>1, <1>3, <1>6 DEF ListInv, OtherWhite
<1>9. BlackInv(y, Obj, S)
  BY <1>1, <1>3, <1>5, <1>6, <1>7 DEF BlackInv, Early, Excused
<1>10. AtomicInv(y, Obj, S)
  <2>1. ASSUME NEW u \in Obj, IsOpen(y, u), y.mark[u] = "gray"
        PROVE  WhiteOf(y, {UpvalValue(y, u)}) \subseteq Excused(u, Obj, S)
    <3>1. u \in M BY <2>1, <1>0, <1>6, <1>7 DEF Opened, Objs, Mark
    <3> QED BY <3>1, <1>7 DEF Excused, WhiteOf
  <2> QED BY <2>1, <1>3 DEF AtomicInv
<1>11. MarkInv(y, Obj, S) BY <1>1, <1>5, <1>8, <1>9, <1>10 DEF MarkInv
<1>12. S \in SUBSET OrNil(Obj)
  <2>1. \A u \in M : u \in Obj /\ Tt[u] = "upval" /\ s.mark[u] # "free" BY DEF Objs, Mark
  <2>2. \A u \in M : UpvalValue(s, u) \in Values
    <3> HIDE DEF M
    <3> QED BY <2>1, <1>0, UpvalHolds
  <2> QED BY <2>2 DEF Values, OrNil
<1> HIDE DEF S
<1>13. GcInv(MarkAll(y, S), Obj, S \ S) /\ SameRest(y, MarkAll(y, S))
  BY <1>4, <1>5, <1>11, <1>12, MarkAllKeeps
<1>14. S \ S = {} OBVIOUS
<1>15. Sound(MarkAll(y, S)) BY <1>13, <1>14, NothingExcused
<1> QED BY <1>2, <1>3, <1>6, <1>13, <1>15 DEF SameRest

LEMMA RemarkWeakKeeps ==
  ASSUME NEW s, Sound(s), s.state = "upvals", s.gray = {}
  PROVE  /\ Sound(RemarkWeak(s))
         /\ RemarkWeak(s).state = "weak" /\ RemarkWeak(s).tmu = s.tmu
<1>0. /\ s \in GState /\ HeapInv(s) /\ MarkInv(s, {}, {})
  BY DEF Sound, GcInv, HeapInv
<1>1. /\ ListInv(s) /\ BlackInv(s, {}, {}) /\ WhiteOf(s, {MainThread}) = {}
      /\ AtomicInv(s, {}, {})
  BY <1>0 DEF MarkInv, Marking, Atomic
<1> DEFINE y == [s EXCEPT !.state = "weak", !.gray = s.weak, !.weak = {}]
           S == {s.run}
<1>2. RemarkWeak(s) = MarkAll(y, S) BY DEF RemarkWeak
<1>3. /\ y \in GState /\ SameObjects(s, y) /\ y.state = "weak"
      /\ y.gray = s.weak /\ y.again = s.again /\ y.weak = {}
  BY <1>0 DEF GState, SameObjects, SameHeap, States, Atomic
<1> HIDE DEF y
<1>4. y.state \in Marking BY <1>3 DEF Marking, Atomic
<1>5. HeapInv(y) /\ \A T : WhiteOf(y, T) = WhiteOf(s, T) BY <1>0, <1>3, <1>4, StageHeap
<1>6. /\ y.mark = s.mark /\ y.white = s.white /\ y.tmu = s.tmu /\ SameHeap(s, y)
      /\ y.run = s.run
  BY <1>3 DEF SameObjects
<1>7. \A o : Below(y, o) = Below(s, o) /\ UpvalValue(y, o) = UpvalValue(s, o)
             /\ IsOpen(y, o) = IsOpen(s, o)
  BY <1>6, HeapReads
<1>8. ListInv(y)
  <2>1. s.gray \cup s.again \cup s.weak = y.gray \cup y.again \cup y.weak BY <1>3
  <2> QED BY <2>1, <1>1, <1>3, <1>6 DEF ListInv, OtherWhite
<1>9. BlackInv(y, {}, S)
  BY <1>1, <1>3, <1>5, <1>6, <1>7 DEF BlackInv, Early, Excused
<1>10. AtomicInv(y, {}, S)
  <2>1. ASSUME NEW u \in Obj, IsOpen(y, u), y.mark[u] = "gray"
        PROVE  WhiteOf(y, {UpvalValue(y, u)}) \subseteq Excused(u, {}, S)
    BY <2>1, <1>1, <1>5, <1>6, <1>7 DEF AtomicInv, Excused
  <2>2. WhiteOf(y, {y.run}) \subseteq S BY <1>6 DEF WhiteOf
  <2> QED BY <2>1, <2>2, <1>3 DEF AtomicInv
<1>11. MarkInv(y, {}, S) BY <1>1, <1>5, <1>8, <1>9, <1>10 DEF MarkInv
<1>12. S \in SUBSET OrNil(Obj) BY <1>0, GStateIs DEF OrNil
<1> HIDE DEF S
<1>13. GcInv(MarkAll(y, S), {}, S \ S) /\ SameRest(y, MarkAll(y, S))
  BY <1>4, <1>5, <1>11, <1>12, MarkAllKeeps
<1>14. S \ S = {} OBVIOUS
<1>15. Sound(MarkAll(y, S)) BY <1>13, <1>14, NothingExcused
<1> QED BY <1>2, <1>3, <1>6, <1>13, <1>15 DEF SameRest

LEMMA RemarkAgainKeeps ==
  ASSUME NEW s, Sound(s), s.state = "weak", s.gray = {}
  PROVE  /\ Sound(RemarkAgain(s))
         /\ RemarkAgain(s).state = "again" /\ RemarkAgain(s).tmu = s.tmu
<1>0. /\ s \in GState /\ HeapInv(s) /\ MarkInv(s, {}, {})
  BY DEF Sound, GcInv, HeapInv
<1>1. /\ ListInv(s) /\ BlackInv(s, {}, {}) /\ WhiteOf(s, {MainThread}) = {}
      /\ AtomicInv(s, {}, {})
  BY <1>0 DEF MarkInv, Marking, Atomic
<1> DEFINE y == RemarkAgain(s)
<1>3. /\ y \in GState /\ SameObjects(s, y) /\ y.state = "again"
      /\ y.gray = s.again /\ y.again = {} /\ y.weak = s.weak
  BY <1>0 DEF GState, SameObjects, SameHeap, States, Atomic, RemarkAgain
<1> HIDE DEF y
<1>4. y.state \in Marking BY <1>3 DEF Marking, Atomic
<1>5. HeapInv(y) /\ \A T : WhiteOf(y, T) = WhiteOf(s, T) BY <1>0, <1>3, <1>4, StageHeap
<1>6. /\ y.mark = s.mark /\ y.white = s.white /\ y.tmu = s.tmu /\ SameHeap(s, y)
      /\ y.run = s.run
  BY <1>3 DEF SameObjects
<1>7. \A o : Below(y, o) = Below(s, o) /\ UpvalValue(y, o) = UpvalValue(s, o)
             /\ IsOpen(y, o) = IsOpen(s, o) /\ IsWeak(y, o) = IsWeak(s, o)
             /\ TableRefs(y, o) = TableRefs(s, o)
  BY <1>6, HeapReads
<1>8. ListInv(y)
  <2>1. s.gray \cup s.again \cup s.weak = y.gray \cup y.again \cup y.weak BY <1>3
  <2> QED BY <2>1, <1>1, <1>3, <1>6 DEF ListInv, OtherWhite
<1>9. BlackInv(y, {}, {})
  BY <1>1, <1>3, <1>5, <1>6, <1>7 DEF BlackInv, Early, Excused
<1>10. AtomicInv(y, {}, {})
  <2>1. ASSUME NEW u \in Obj, IsOpen(y, u), y.mark[u] = "gray"
        PROVE  WhiteOf(y, {UpvalValue(y, u)}) \subseteq Excused(u, {}, {})
    BY <2>1, <1>1, <1>5, <1>6, <1>7 DEF AtomicInv
  <2>2. WhiteOf(y, {y.run}) \subseteq {} BY <1>1, <1>5, <1>6 DEF AtomicInv
  <2>3. \A t \in y.weak : IsWeak(y, t) /\ WhiteOf(y, TableRefs(y, t)) \subseteq Excused(t, {}, {})
    BY <1>1, <1>3, <1>5, <1>7 DEF AtomicInv
  <2> QED BY <2>1, <2>2, <2>3, <1>3 DEF AtomicInv
<1>11. MarkInv(y, {}, {}) BY <1>1, <1>5, <1>8, <1>9, <1>10 DEF MarkInv
<1>12. SweepInv(y) BY <1>4 DEF SweepInv
<1> QED BY <1>3, <1>5, <1>6, <1>11, <1>12 DEF y, Sound, GcInv
LEMMA SeparateUdataIs ==
  ASSUME NEW s \in GState, NEW all \in BOOLEAN
  PROVE  LET x == SeparateUdata(s, all)
             due == {u \in Objs("udata") : /\ Mark(s, u) # "free"
                                           /\ all \/ IsWhite(s, u)
                                           /\ u \notin s.fin}
         IN  /\ x = [s EXCEPT !.fin = s.fin \cup due,
                              !.tmu = s.tmu \cup {u \in due : HasGc(s, u)}]
             /\ x \in GState
             /\ x.tmu = s.tmu \cup {u \in due : HasGc(s, u)}
             /\ x.white = s.white
<1> DEFINE due == {u \in Objs("udata") : /\ Mark(s, u) # "free"
                                         /\ all \/ IsWhite(s, u)
                                         /\ u \notin s.fin}
           x == SeparateUdata(s, all)
           T == {u \in due : HasGc(s, u)}
<1>1. x = [s EXCEPT !.fin = s.fin \cup due, !.tmu = s.tmu \cup T]
  BY DEF GState, SeparateUdata
<1>2. due \subseteq Objs("udata") /\ due \subseteq Obj /\ T \subseteq Objs("udata")
  BY DEF Objs
<1> HIDE DEF due, T, x
<1>3. x \in GState BY <1>1, <1>2 DEF GState
<1>4. x.tmu = s.tmu \cup T /\ x.white = s.white BY <1>1 DEF GState
<1> QED BY <1>1, <1>3, <1>4 DEF x, T, due

LEMMA MarkTmuKeeps ==
  ASSUME NEW s, Sound(s), s.state = "again", s.gray = {}
  PROVE  Sound(MarkTmu(s)) /\ MarkTmu(s).state = "tmu"
<1>0. /\ s \in GState /\ HeapInv(s) /\ MarkInv(s, {}, {})
      /\ Shaped(s) /\ Opened(s) /\ Painted(s) /\ Rooted(s) /\ Closed(s)
  BY DEF Sound, GcInv, HeapInv
<1>1. /\ ListInv(s) /\ BlackInv(s, {}, {}) /\ WhiteOf(s, {MainThread}) = {}
      /\ AtomicInv(s, {}, {})
  BY <1>0 DEF MarkInv, Marking, Atomic
<1> DEFINE x == SeparateUdata(s, FALSE)
           y == [x EXCEPT !.state = "tmu",
                          !.mark = [o \in Obj |-> IF o \in x.tmu THEN x.white ELSE s.mark[o]]]
           S == x.tmu
           due == {u \in Objs("udata") : /\ Mark(s, u) # "free"
                                         /\ FALSE \/ IsWhite(s, u)
                                         /\ u \notin s.fin}
<1>2. MarkTmu(s) = MarkAll(y, S) BY DEF MarkTmu
<1>3. /\ x = [s EXCEPT !.fin = s.fin \cup due,
                       !.tmu = s.tmu \cup {u \in due : HasGc(s, u)}]
      /\ x \in GState
      /\ x.tmu = s.tmu \cup {u \in due : HasGc(s, u)}
      /\ x.white = s.white
  BY <1>0, SeparateUdataIs
<1>4. \A u \in x.tmu : u \in Obj /\ Tt[u] = "udata" /\ u \in Alive(s) /\ s.mark[u] # "free"
  <2>1. \A u \in s.tmu : u \in Obj /\ Tt[u] = "udata" /\ u \in Alive(s)
    BY <1>0, GStateIs DEF Rooted
  <2>2. \A u \in due : u \in Obj /\ Tt[u] = "udata" /\ u \in Alive(s)
    <3>1. \A u \in due : u \in Obj /\ Tt[u] = "udata" /\ IsWhite(s, u) BY DEF Objs
    <3> HIDE DEF due
    <3> QED BY <3>1, <1>0, <1>1, WhiteIs
  <2> HIDE DEF due, x
  <2> QED BY <2>1, <2>2, <1>3 DEF Alive
<1>5. /\ SameHeap(s, x) /\ x.run = s.run /\ x.sweep = s.sweep
      /\ x.gray = s.gray /\ x.again = s.again /\ x.weak = s.weak /\ x.state = s.state
  <2> HIDE DEF due
  <2> QED BY <1>0, <1>3 DEF GState, SameHeap
<1>6. s.tmu \subseteq x.tmu BY <1>3
<1> HIDE DEF x, due
<1> DEFINE m == [o \in Obj |-> IF o \in x.tmu THEN x.white ELSE s.mark[o]]
<1>7. m \in [Obj -> Colors] BY <1>0, <1>3, GStateIs DEF Colors
<1>8. /\ y \in GState /\ y.state = "tmu" /\ y.mark = m /\ y.white = s.white
      /\ y.tmu = x.tmu /\ y.run = s.run /\ y.sweep = s.sweep
      /\ y.gray = s.gray /\ y.again = s.again /\ y.weak = s.weak /\ SameHeap(s, y)
  <2> HIDE DEF m
  <2>1. y = [x EXCEPT !.state = "tmu", !.mark = m] BY DEF m
  <2> HIDE DEF y
  <2> QED BY <2>1, <1>3, <1>5, <1>7 DEF GState, States, Atomic, SameHeap
<1>9. \A o \in Obj : y.mark[o] = IF o \in x.tmu THEN s.white ELSE s.mark[o] BY <1>3, <1>8
<1> HIDE DEF y, m
<1>10. y.ref = s.ref /\ y.meta = s.meta /\ y.open = s.open BY <1>8 DEF SameHeap
<1>11. \A o : Below(y, o) = Below(s, o) /\ UpvalValue(y, o) = UpvalValue(s, o)
              /\ IsOpen(y, o) = IsOpen(s, o) /\ IsWeak(y, o) = IsWeak(s, o)
              /\ TableRefs(y, o) = TableRefs(s, o)
  BY <1>8, HeapReads
<1>12. y.state \in Marking /\ y.state \in Atomic /\ y.state \notin Early
  BY <1>8 DEF Marking, Atomic, Early
<1>13. s.white \in Whites /\ s.white # OtherWhite(s) /\ OtherWhite(y) = OtherWhite(s)
  BY <1>0, <1>8, GStateIs DEF Whites, OtherWhite
<1>14. \A o \in Obj : /\ y.mark[o] = "free" <=> s.mark[o] = "free"
                      /\ IsDead(y, o) <=> IsDead(s, o)
                      /\ IsWhite(y, o) => IsWhite(s, o) \/ o \in x.tmu
  BY <1>4, <1>9, <1>13 DEF IsDead, IsWhite, Mark, Alive, Whites
<1>15. Alive(y) = Alive(s) BY <1>14 DEF Alive
<1>16. \A T \in SUBSET OrNil(Obj) : WhiteOf(y, T) \subseteq WhiteOf(s, T) \cup S
  BY <1>14 DEF WhiteOf, OrNil
<1>17. HeapInv(y)
  <2>1. Shaped(y) BY <1>0, <1>10, <1>14 DEF Shaped
  <2>2. Opened(y)
    <3> SUFFICES ASSUME NEW u \in Obj, IsOpen(y, u)
                 PROVE  /\ Tt[u] = "upval" /\ y.mark[u] \notin {"free", "black"}
                        /\ y.ref[u][1] = Nil
                        /\ y.open[u] \in Objs("thread") \X {2, 3}
                        /\ y.mark[y.open[u][1]] # "free"
                        /\ u \notin y.sweep
      BY DEF Opened
    <3>1. IsOpen(s, u) BY <1>11
    <3>2. /\ Tt[u] = "upval" /\ s.mark[u] \notin {"free", "black"} /\ s.ref[u][1] = Nil
          /\ s.open[u] \in Objs("thread") \X {2, 3} /\ s.mark[s.open[u][1]] # "free"
          /\ u \notin s.sweep
      BY <3>1, <1>0 DEF Opened
    <3>3. s.open[u][1] \in Obj BY <3>2 DEF Objs
    <3>4. y.mark[u] = s.mark[u] BY <3>2, <1>4, <1>9
    <3> QED BY <3>2, <3>3, <3>4, <1>8, <1>10, <1>14
  <2>3. Painted(y) BY <1>0, <1>9, <1>11, <1>13 DEF Painted, Whites
  <2>4. Rooted(y)
    <3>1. s.sweep = {} BY <1>0 DEF Rooted
    <3> QED BY <3>1, <1>0, <1>4, <1>8, <1>15 DEF Rooted
  <2>5. Closed(y) BY <1>0, <1>11, <1>15 DEF Closed
  <2> QED BY <2>1, <2>2, <2>3, <2>4, <2>5, <1>8 DEF HeapInv
<1>18. ListInv(y)
  <2>1. \A o \in Obj : Tt[o] \in Chained => y.mark[o] = s.mark[o]
    BY <1>4, <1>9 DEF Chained
  <2>2. y.gray \cup y.again \cup y.weak = {o \in Obj : Tt[o] \in Chained /\ y.mark[o] = "gray"}
    BY <2>1, <1>1, <1>8 DEF ListInv
  <2>3. \A o \in Obj : y.mark[o] # OtherWhite(y)
    BY <1>1, <1>14 DEF ListInv, IsDead, Mark
  <2> QED BY <2>2, <2>3, <1>1, <1>8 DEF ListInv
<1>19. \A o \in Obj : s.mark[o] # "free" => Below(s, o) \in SUBSET OrNil(Obj)
  BY <1>0, BelowInObj DEF OrNil
<1>20. BlackInv(y, Obj, S)
  <2> SUFFICES ASSUME NEW o \in Obj, y.mark[o] = "black"
               PROVE  WhiteOf(y, Below(y, o)) \subseteq S
    BY DEF BlackInv, Excused
  <2>1. o \notin x.tmu /\ s.mark[o] = "black" BY <1>9, <1>13 DEF Whites
  <2>2. WhiteOf(s, Below(s, o)) = {} BY <2>1, <1>1, <1>6 DEF BlackInv, Excused
  <2>3. WhiteOf(y, Below(s, o)) \subseteq WhiteOf(s, Below(s, o)) \cup S
    BY <2>1, <1>16, <1>19
  <2> QED BY <2>2, <2>3, <1>11
<1>21. WhiteOf(y, {MainThread}) \subseteq S
  <2>1. {MainThread} \in SUBSET OrNil(Obj) BY MainIs DEF OrNil
  <2> QED BY <2>1, <1>1, <1>16
<1>22. AtomicInv(y, Obj, S)
  <2>2. ASSUME NEW u \in Obj, IsOpen(y, u), y.mark[u] = "gray"
        PROVE  WhiteOf(y, {UpvalValue(y, u)}) \subseteq Excused(u, Obj, S)
    <3>1. IsOpen(s, u) BY <2>2, <1>11
    <3>2. Tt[u] = "upval" /\ s.mark[u] # "free" BY <3>1, <1>0 DEF Opened
    <3>3. {UpvalValue(s, u)} \in SUBSET OrNil(Obj) BY <3>2, <1>0, UpvalHolds DEF Values, OrNil
    <3>4. s.mark[u] = "gray" BY <2>2, <3>2, <1>4, <1>9
    <3>5. WhiteOf(s, {UpvalValue(s, u)}) = {} BY <3>1, <3>4, <1>1 DEF AtomicInv, Excused
    <3> QED BY <3>3, <3>5, <1>11, <1>16 DEF Excused
  <2>3. WhiteOf(y, {y.run}) \subseteq S
    <3>1. {s.run} \in SUBSET OrNil(Obj) BY <1>0, GStateIs DEF OrNil
    <3>2. WhiteOf(s, {s.run}) = {} BY <1>1 DEF AtomicInv
    <3> QED BY <3>1, <3>2, <1>8, <1>16
  <2>4. ASSUME NEW t \in y.weak
        PROVE  IsWeak(y, t) /\ WhiteOf(y, TableRefs(y, t)) \subseteq Excused(t, Obj, S)
    <3>1. t \in s.weak /\ t \in Obj BY <1>0, <1>8, GStateIs
    <3>2. IsWeak(s, t) /\ WhiteOf(s, TableRefs(s, t)) = {}
      BY <3>1, <1>1 DEF AtomicInv, Excused
    <3>3. Tt[t] = "table" BY <3>2 DEF IsWeak
    <3>4. s.ref[t] \in [1..3 -> OrNil(Obj)] /\ s.meta[t] \in OrNil(Obj)
      BY <3>1, <3>3, <1>0 DEF Shaped, Slots, OrNil, Objs
    <3>5. TableRefs(s, t) \in SUBSET OrNil(Obj) BY <3>4 DEF TableRefs
    <3> QED BY <3>1, <3>2, <3>5, <1>11, <1>16 DEF Excused
  <2>5. ASSUME NEW t \in y.again
        PROVE  Tt[t] = "thread" /\ WhiteOf(y, Below(y, t)) \subseteq Excused(t, Obj, S)
    <3>1. t \in s.again BY <1>8
    <3>2. Tt[t] = "thread" /\ WhiteOf(s, Below(s, t)) = {}
      BY <3>1, <1>1 DEF AtomicInv, Excused
    <3>3. t \in Obj /\ s.mark[t] = "gray" BY <3>1, <1>1 DEF ListInv
    <3> QED BY <3>2, <3>3, <1>11, <1>16, <1>19 DEF Excused
  <2>6. WhiteOf(y, y.tmu) \subseteq S BY <1>8 DEF WhiteOf
  <2> QED BY <2>2, <2>3, <2>4, <2>5, <2>6 DEF AtomicInv
<1>23. MarkInv(y, Obj, S) BY <1>12, <1>18, <1>20, <1>21, <1>22 DEF MarkInv
<1>24. S \in SUBSET OrNil(Obj) BY <1>4 DEF OrNil
<1> HIDE DEF S
<1>25. GcInv(MarkAll(y, S), Obj, S \ S) /\ SameRest(y, MarkAll(y, S))
  BY <1>12, <1>17, <1>23, <1>24, MarkAllKeeps
<1>26. S \ S = {} OBVIOUS
<1>27. Sound(MarkAll(y, S)) BY <1>25, <1>26, NothingExcused
<1> QED BY <1>2, <1>8, <1>25, <1>27 DEF SameRest
-----------------------------------------------------------------------------
(* The end of atomic().                                                    *)

LEMMA RefType ==
  ASSUME NEW f, NEW s \in GState, DOMAIN f = Obj, f = [o \in Obj |-> f[o]],
         \A o \in Obj : f[o] \in [Slots(Tt[o]) -> OrNil(Obj)]
  PROVE  f \in [Obj -> UNION {[Slots(t) -> OrNil(Obj)] : t \in Types}]
<1>1. \A o \in Obj : Tt[o] \in Types BY GcConstants
<1>2. \A o \in Obj : f[o] \in UNION {[Slots(t) -> OrNil(Obj)] : t \in Types}
  BY <1>1
<1> DEFINE U == UNION {[Slots(t) -> OrNil(Obj)] : t \in Types}
<1>3. \A o \in Obj : f[o] \in U BY <1>2
<1> HIDE DEF U
<1>4. f \in [Obj -> U] BY <1>3
<1> QED BY <1>4 DEF U

LEMMA BeginSweepKeeps ==
  ASSUME NEW z, HeapInv(z), z.state \in Marking \cup {"pause"},
         NEW x \in GState, SameHeap(z, x), x.mark = z.mark, x.white = z.white,
         x.tmu = z.tmu, x.run = z.run, x.str = 0, x.sweep = RootList(z),
         x.state = "sweepstring"
  PROVE  Sound(x)
<1>0. z \in GState /\ Shaped(z) /\ Opened(z) /\ Painted(z) /\ Rooted(z) /\ Closed(z)
  BY DEF HeapInv
<1>1. x.ref = z.ref /\ x.meta = z.meta /\ x.open = z.open BY DEF SameHeap
<1>2. \A o : Below(x, o) = Below(z, o) /\ IsOpen(x, o) = IsOpen(z, o) BY HeapReads
<1>3. \A o : IsDead(x, o) = IsDead(z, o) /\ IsWhite(x, o) = IsWhite(z, o)
  BY DEF IsDead, IsWhite, Mark, OtherWhite
<1>4. Alive(x) = Alive(z) BY <1>3 DEF Alive
<1>5. Shaped(x) BY <1>0, <1>1 DEF Shaped
<1>6. \A o : o \in x.sweep <=> /\ o \in Obj /\ z.mark[o] # "free" /\ Tt[o] # "string"
                               /\ ~IsOpen(z, o) /\ o \notin z.tmu
  BY DEF RootList, Mark
<1>7. Opened(x) BY <1>0, <1>1, <1>2, <1>6 DEF Opened
<1>8. Painted(x) BY <1>0, <1>1, <1>2 DEF Painted
<1>9. Rooted(x)
  <2>1. MainThread \in x.sweep
    <3>1. z.mark[MainThread] # "free" BY <1>0 DEF Rooted, Alive
    <3>2. ~IsOpen(z, MainThread) BY <1>0, MainIs DEF Opened
    <3>3. MainThread \notin z.tmu BY <1>0, MainIs, GStateIs
    <3> QED BY <3>1, <3>2, <3>3, <1>6, MainIs
  <2> QED BY <2>1, <1>0, <1>4, <1>6 DEF Rooted
<1>10. Closed(x) BY <1>0, <1>2, <1>4 DEF Closed
<1>11. SweepInv(x)
  <2> SUFFICES ASSUME NEW o \in Obj, x.mark[o] \notin {"free", x.white} PROVE o \in ToSweep(x)
    BY DEF SweepInv
  <2>1. CASE Tt[o] = "string"
    <3>1. o \in Objs("string") BY <2>1 DEF Objs
    <3>2. Hash[o] \in Nat BY <3>1, GcConstants
    <3>3. x.size \in Nat \ {0} BY GStateIs
    <3>4. \A a \in Nat, b \in Nat \ {0} : a % b >= 0 OBVIOUS
    <3>5. Hash[o] % x.size >= x.str BY <3>2, <3>3, <3>4
    <3> QED BY <3>1, <3>5 DEF ToSweep
  <2>2. CASE Tt[o] # "string" /\ IsOpen(x, o)
    <3>1. IsOpen(z, o) BY <2>2, <1>2
    <3>2. z.open[o] \in Objs("thread") \X {2, 3} /\ z.mark[z.open[o][1]] # "free"
      BY <3>1, <1>0 DEF Opened
    <3>3. z.open[o][1] \in Obj /\ Tt[z.open[o][1]] = "thread" BY <3>2 DEF Objs
    <3>4. ~IsOpen(z, z.open[o][1]) BY <3>3, <1>0 DEF Opened
    <3>5. z.open[o][1] \notin z.tmu BY <3>3, <1>0, GStateIs
    <3>6. x.open[o][1] \in x.sweep BY <3>2, <3>3, <3>4, <3>5, <1>1, <1>6
    <3> QED BY <2>2, <3>6 DEF ToSweep
  <2>3. CASE Tt[o] # "string" /\ ~IsOpen(x, o)
    <3>1. o \in x.sweep \/ o \in x.tmu BY <2>3, <1>2, <1>6
    <3> QED BY <3>1 DEF ToSweep
  <2> QED BY <2>1, <2>2, <2>3
<1>12. MarkInv(x, {}, {}) BY DEF MarkInv, Marking, Atomic
<1> QED BY <1>5, <1>7, <1>8, <1>9, <1>10, <1>11, <1>12 DEF Sound, GcInv, HeapInv

LEMMA StringsMarked ==
  ASSUME NEW s \in GState, NEW S \in SUBSET Obj, \A v \in S : Tt[v] = "string"
  PROVE  Marked(s, S) = WhiteOf(s, S)
<1> DEFINE Y == WhiteOf(s, S)
<1>1. \A v \in Y : Tt[v] = "string" BY DEF WhiteOf
<1> HIDE DEF Y
<1>2. FromUpvals(s, Y) = Y BY <1>1 DEF FromUpvals, WhiteOf
<1>3. FromUdata(s, Y) = Y BY <1>1 DEF FromUdata, WhiteOf
<1> QED BY <1>2, <1>3 DEF Marked, Y

\* What is left in a cleared table was marked.
LEMMA ClearedLeaves ==
  ASSUME NEW s \in GState, Shaped(s), NEW t \in s.weak, Tt[t] = "table",
         NEW z, z.ref = ClearedRef(s), z.meta = s.meta, Shaped(z), z \in GState,
         NEW v \in Below(z, t)
  PROVE  /\ v \in Below(s, t)
         /\ v \in TableRefs(s, t) \/ ~IsWhite(s, v) \/ v \in SeenStrings(s)
<1>1. t \in Obj BY GStateIs
<1>2. Slots(Tt[t]) = {1, 2, 3} BY DEF Slots
<1>3. \A i \in {1, 2, 3} : z.ref[t][i] = IF Clears(s, t, i) THEN Nil ELSE s.ref[t][i]
  BY <1>1 DEF ClearedRef
<1>4. /\ v # Nil
      /\ \/ \E i \in {1, 2, 3} : ~(i = 2 /\ EmptyNode(z, t)) /\ v = z.ref[t][i]
         \/ v = s.meta[t]
  BY <1>1, <1>2, BelowIs
<1>5. CASE v = s.meta[t]
  BY <1>1, <1>4, <1>5, BelowIs DEF TableRefs
<1>6. ASSUME NEW i \in {1, 2, 3}, ~(i = 2 /\ EmptyNode(z, t)), v = z.ref[t][i]
      PROVE  /\ v \in Below(s, t)
             /\ v \in TableRefs(s, t) \/ ~IsWhite(s, v) \/ v \in SeenStrings(s)
  <2>1. v = s.ref[t][i] /\ ~Clears(s, t, i) BY <1>3, <1>4, <1>6
  <2>2. Examines(s, t, i) /\ Tt[v] = "string" => v \in SeenStrings(s)
    <3>1. s.ref[t][i] \in OrNil(Obj) BY <1>1, <1>2 DEF Shaped
    <3>2. Tt[v] = "string" => v \in Objs("string") BY <3>1, <1>4, <2>1 DEF OrNil, Objs
    <3> QED BY <3>2, <2>1 DEF SeenStrings
  <2>3. CASE i = 1
    <3>1. v \in Below(s, t) BY <1>1, <1>2, <1>4, <2>1, <2>3, BelowIs
    <3>2. CASE "v" \in ModeOf(s, t)
      <4>1. ~IsCleared(s, v, FALSE) BY <2>1, <2>3, <3>2 DEF Clears
      <4>2. Examines(s, t, i) BY <2>3, <3>2 DEF Examines
      <4> QED BY <3>1, <4>1, <4>2, <2>2, <1>4 DEF IsCleared
    <3>3. CASE "v" \notin ModeOf(s, t)
      BY <3>1, <3>3, <2>1, <2>3 DEF TableRefs
    <3> QED BY <3>2, <3>3
  <2>4. CASE i # 1
    <3>1. ~EmptyNode(s, t)
      <4> SUFFICES ASSUME EmptyNode(s, t) PROVE FALSE
        OBVIOUS
      <4>1. s.ref[t][3] = Nil BY DEF EmptyNode
      <4>2. z.ref[t][3] = Nil BY <4>1, <1>3
      <4>3. EmptyNode(z, t) BY <4>2 DEF EmptyNode
      <4> QED BY <4>1, <4>3, <2>1, <2>4, <1>4, <1>6
    <3>2. v \in Below(s, t) BY <3>1, <1>1, <1>2, <1>4, <2>1, BelowIs
    <3>3. ~IsCleared(s, s.ref[t][2], TRUE) /\ ~IsCleared(s, s.ref[t][3], FALSE)
      BY <3>1, <2>1, <2>4 DEF Clears
    <3>4. Examines(s, t, i) BY <3>1, <3>3, <2>4 DEF Examines
    <3>5. Tt[v] = "string" \/ ~IsWhite(s, v)
      BY <3>3, <2>1, <2>4, <1>4 DEF IsCleared
    <3> QED BY <3>2, <3>4, <3>5, <2>2
  <2> QED BY <2>3, <2>4
<1> QED BY <1>4, <1>5, <1>6

LEMMA FinishAtomicKeeps ==
  ASSUME NEW s, Sound(s), s.state = "tmu", s.gray = {}
  PROVE  Sound(FinishAtomic(s)) /\ FinishAtomic(s).state = "sweepstring"
<1>0. /\ s \in GState /\ HeapInv(s) /\ MarkInv(s, {}, {}) /\ Shaped(s)
      /\ s.state \in Marking /\ s.state \in Atomic
  BY DEF Sound, GcInv, HeapInv, Marking, Atomic
<1> DEFINE S == SeenStrings(s)
           x == MarkAll(s, S)
           r == ClearedRef(s)
           z == [x EXCEPT !.ref = r, !.white = OtherWhite(x)]
<1>1. \A t \in s.weak : t \in Obj /\ Tt[t] = "table" /\ s.ref[t] \in [1..3 -> OrNil(Obj)]
  <2>1. ListInv(s) BY <1>0 DEF MarkInv
  <2>2. \A t \in s.weak : t \in Obj /\ Tt[t] = "table" BY <2>1 DEF ListInv, Objs
  <2> QED BY <2>2, <1>0 DEF Shaped, Slots
<1>2. S \subseteq Obj /\ \A v \in S : Tt[v] = "string"
  BY DEF SeenStrings, Objs
<1>3. S \in SUBSET OrNil(Obj) BY <1>2 DEF OrNil
<1>4. FinishAtomic(s) = BeginSweep(z)
  <2>1. ClearTable(s) = [x EXCEPT !.ref = r] BY DEF ClearTable
  <2>2. Marked(s, S) \subseteq Obj BY <1>0, <1>2, StringsMarked DEF WhiteOf
  <2>3. x \in GState BY <2>2, <1>0, MarkAllIs
  <2> HIDE DEF x, r, S
  <2>4. OtherWhite([x EXCEPT !.ref = r]) = OtherWhite(x) BY <2>3 DEF GState, OtherWhite
  <2>5. [[x EXCEPT !.ref = r] EXCEPT !.white = OtherWhite([x EXCEPT !.ref = r])] = z
    BY <2>3, <2>4 DEF GState
  <2> QED BY <2>1, <2>5 DEF FinishAtomic
<1>5. /\ Marked(s, S) = WhiteOf(s, S) /\ Marked(s, S) \subseteq Obj
  BY <1>0, <1>2, StringsMarked DEF WhiteOf
<1>6. /\ GcInv(x, {}, {} \ S) /\ SameHeap(s, x) /\ SameRest(s, x)
      /\ x.again = s.again /\ x.weak = s.weak
      /\ \A T \in SUBSET OrNil(Obj) : WhiteOf(x, T) \subseteq WhiteOf(s, T) \ S
  BY <1>0, <1>3, MarkAllKeeps
<1>7. x.gray = {}
  <2>1. x.gray = s.gray \cup {o \in Marked(s, S) : Tt[o] \in Chained} BY <1>0, <1>5, MarkAllIs
  <2>2. \A o \in Marked(s, S) : Tt[o] = "string" BY <1>2, <1>5 DEF WhiteOf
  <2> HIDE DEF x, S
  <2> QED BY <2>1, <2>2 DEF Chained
<1> HIDE DEF S, x
<1>8. /\ x \in GState /\ Shaped(x) /\ Opened(x) /\ Painted(x) /\ Rooted(x) /\ Closed(x)
      /\ MarkInv(x, {}, {})
  <2>1. {} \ S = {} OBVIOUS
  <2>2. GcInv(x, {}, {}) BY <1>6, <2>1
  <2> QED BY <2>2 DEF GcInv, HeapInv
<1>9. x.state = "tmu" /\ x.state \in Marking /\ x.state \in Atomic /\ x.state \notin Early
  BY <1>0, <1>6 DEF SameRest, Early
<1>10. /\ ListInv(x) /\ BlackInv(x, {}, {}) /\ WhiteOf(x, {MainThread}) = {}
       /\ AtomicInv(x, {}, {})
  BY <1>8, <1>9 DEF MarkInv
<1>11. x.ref = s.ref /\ x.meta = s.meta /\ x.open = s.open /\ x.tmu = s.tmu /\ x.run = s.run
  BY <1>6 DEF SameHeap, SameRest
<1>12. /\ \A o \in Obj : r[o] \in [Slots(Tt[o]) -> OrNil(Obj)]
       /\ r = [o \in Obj |-> r[o]] /\ DOMAIN r = Obj
       /\ \A o \in Obj : o \notin s.weak => r[o] = s.ref[o]
       /\ \A o \in s.weak, i \in 1..3 : r[o][i] = IF Clears(s, o, i) THEN Nil ELSE s.ref[o][i]
  <2>1. \A o \in Obj : o \notin s.weak => r[o] = s.ref[o] /\ r[o] \in [Slots(Tt[o]) -> OrNil(Obj)]
    BY <1>0 DEF ClearedRef, Shaped
  <2>2. \A o \in s.weak : r[o] = [i \in 1..3 |-> IF Clears(s, o, i) THEN Nil ELSE s.ref[o][i]]
    BY <1>1 DEF ClearedRef
  <2>3. \A o \in s.weak : r[o] \in [1..3 -> OrNil(Obj)]
    <3>1. Nil \in OrNil(Obj) BY DEF OrNil
    <3>2. \A o \in s.weak, i \in 1..3 : s.ref[o][i] \in OrNil(Obj) BY <1>1
    <3> HIDE DEF r
    <3> SUFFICES ASSUME NEW o \in s.weak PROVE r[o] \in [1..3 -> OrNil(Obj)]
      OBVIOUS
    <3>3. r[o] = [i \in 1..3 |-> IF Clears(s, o, i) THEN Nil ELSE s.ref[o][i]] BY <2>2
    <3>4. \A i \in 1..3 : (IF Clears(s, o, i) THEN Nil ELSE s.ref[o][i]) \in OrNil(Obj)
      BY <3>1, <3>2
    <3> QED BY ONLY <3>3, <3>4
  <2>4. \A o \in s.weak : Slots(Tt[o]) = 1..3 BY <1>1 DEF Slots
  <2>5. r = [o \in Obj |-> r[o]] /\ DOMAIN r = Obj BY DEF ClearedRef
  <2> HIDE DEF r
  <2>6. \A o \in s.weak, i \in 1..3 : r[o][i] = IF Clears(s, o, i) THEN Nil ELSE s.ref[o][i]
    BY <2>2
  <2>7. \A o \in Obj : r[o] \in [Slots(Tt[o]) -> OrNil(Obj)] BY <2>1, <2>3, <2>4
  <2> QED BY <2>1, <2>5, <2>6, <2>7
<1>13. r \in [Obj -> UNION {[Slots(t) -> OrNil(Obj)] : t \in Types}]
  <2> HIDE DEF r
  <2> QED BY <1>0, <1>12, RefType
<1>14. /\ z \in GState /\ z.ref = r /\ z.white = OtherWhite(x) /\ z.mark = x.mark
       /\ z.meta = s.meta /\ z.open = s.open /\ z.tmu = s.tmu /\ z.run = s.run
       /\ z.sweep = x.sweep /\ z.state = x.state /\ z.size = x.size
  <2>1. OtherWhite(x) \in Whites BY DEF OtherWhite, Whites
  <2> HIDE DEF r
  <2> QED BY <2>1, <1>8, <1>11, <1>13 DEF GState
<1> HIDE DEF z
<1>15. OtherWhite(z) = x.white BY <1>8, <1>14, GStateIs DEF OtherWhite, Whites
<1>16. \A o \in Obj : o \in Alive(z) <=> o \in Alive(x) /\ ~IsWhite(x, o)
  <2>1. \A o \in Obj : x.mark[o] # OtherWhite(x) BY <1>10 DEF ListInv
  <2>2. x.white \in Whites /\ OtherWhite(x) \in Whites /\ \A c \in Whites : c \in {x.white, OtherWhite(x)}
    BY <1>8, GStateIs DEF Whites, OtherWhite
  <2> QED BY <2>1, <2>2, <1>14, <1>15 DEF Alive, IsDead, IsWhite, Mark
<1>17. \A o : IsOpen(z, o) = IsOpen(x, o) BY <1>11, <1>14 DEF IsOpen
<1>18. \A o \in Obj : Tt[o] # "table" => z.ref[o] = x.ref[o]
  BY <1>1, <1>11, <1>12, <1>14
<1>19. Shaped(z)
  <2> SUFFICES ASSUME NEW o \in Obj
               PROVE  /\ z.ref[o] \in [Slots(Tt[o]) -> OrNil(Obj)]
                      /\ z.mark[o] # "free" =>
                           \A i \in Slots(Tt[o]) : z.ref[o][i] \in MayHold(Tt[o], i)
                      /\ z.meta[o] \in IF Tt[o] \in {"table", "udata"}
                                       THEN OrNil(Objs("table")) ELSE {Nil}
    BY DEF Shaped
  <2>1. z.ref[o] \in [Slots(Tt[o]) -> OrNil(Obj)] BY <1>12, <1>14
  <2>2. z.meta[o] \in IF Tt[o] \in {"table", "udata"} THEN OrNil(Objs("table")) ELSE {Nil}
    BY <1>0, <1>14 DEF Shaped
  <2>3. ASSUME z.mark[o] # "free", NEW i \in Slots(Tt[o])
        PROVE  z.ref[o][i] \in MayHold(Tt[o], i)
    <3>1. x.ref[o][i] \in MayHold(Tt[o], i) BY <2>3, <1>8, <1>14 DEF Shaped
    <3>2. CASE o \in s.weak
      <4>1. Tt[o] = "table" /\ i \in 1..3 BY <3>2, <2>3, <1>1 DEF Slots
      <4>2. Nil \in MayHold(Tt[o], i) BY <4>1 DEF MayHold, Values, OrNil
      <4>3. z.ref[o][i] = IF Clears(s, o, i) THEN Nil ELSE x.ref[o][i]
        <5> HIDE DEF r
        <5>1. \A p \in s.weak, j \in 1..3 :
                r[p][j] = IF Clears(s, p, j) THEN Nil ELSE s.ref[p][j]
          BY ONLY <1>12
        <5>2. r[o][i] = IF Clears(s, o, i) THEN Nil ELSE s.ref[o][i]
          BY ONLY <5>1, <3>2, <4>1
        <5>3. z.ref = r /\ x.ref = s.ref BY ONLY <1>11, <1>14
        <5> QED BY ONLY <5>2, <5>3
      <4> QED BY <3>1, <4>2, <4>3
    <3>3. CASE o \notin s.weak
      <4> HIDE DEF r
      <4> QED BY <3>1, <3>3, <1>11, <1>12, <1>14
    <3> QED BY <3>2, <3>3
  <2> QED BY <2>1, <2>2, <2>3
<1>20. Opened(z)
  <2> SUFFICES ASSUME NEW u \in Obj, IsOpen(z, u)
               PROVE  /\ Tt[u] = "upval" /\ z.mark[u] \notin {"free", "black"}
                      /\ z.ref[u][1] = Nil
                      /\ z.open[u] \in Objs("thread") \X {2, 3}
                      /\ z.mark[z.open[u][1]] # "free"
                      /\ u \notin z.sweep
    BY DEF Opened
  <2> QED BY <1>8, <1>11, <1>14, <1>17, <1>18 DEF Opened
<1>21. Painted(z) BY <1>8, <1>14, <1>17 DEF Painted
<1>22. Rooted(z)
  <2>1. MainThread \in Obj /\ z.run \in Obj /\ z.tmu \subseteq Obj
    BY <1>14, GStateIs, MainIs
  <2>2. {MainThread, z.run} \cup z.tmu \subseteq Alive(x) BY <1>8, <1>11, <1>14 DEF Rooted
  <2>3. ~IsWhite(x, MainThread)
    BY <1>10, MainIs, TypesOf DEF WhiteOf
  <2>4. ~IsWhite(x, z.run)
    <3>1. WhiteOf(x, {x.run}) = {} BY <1>9, <1>10 DEF AtomicInv
    <3> QED BY <3>1, <2>1, <1>11, <1>14, TypesOf DEF WhiteOf
  <2>5. \A u \in z.tmu : ~IsWhite(x, u)
    <3>1. WhiteOf(x, x.tmu) = {} BY <1>9, <1>10 DEF AtomicInv
    <3> QED BY <3>1, <2>1, <1>11, <1>14, TypesOf DEF WhiteOf
  <2>6. {MainThread, z.run} \cup z.tmu \subseteq Alive(z)
    BY <2>1, <2>2, <2>3, <2>4, <2>5, <1>16
  <2> QED BY <2>6, <1>8, <1>9, <1>11, <1>14 DEF Rooted
<1>23. Closed(z)
  <2> SUFFICES ASSUME NEW o \in Alive(z), NEW v \in Below(z, o)
               PROVE  v \in Alive(z)
    BY DEF Closed
  <2>1. o \in Obj /\ o \in Alive(x) /\ ~IsWhite(x, o) BY <1>16 DEF Alive
  <2>2. x.mark[o] \in {"gray", "black"}
    <3>1. x.mark[o] # "free" BY <2>1 DEF Alive
    <3>2. x.mark[o] \in Colors BY <2>1, <1>8, GStateIs
    <3> QED BY <2>1, <3>1, <3>2 DEF IsWhite, Mark, Colors
  <2>3. \A w \in Below(x, o) : w \in Alive(x) /\ w \in Obj /\ w # Nil
    BY <2>1, <1>8, TypesOf DEF Closed, Alive
  <2>4. v \in Below(x, o) /\ ~IsWhite(x, v)
    <3>1. CASE Tt[o] # "table"
      <4>1. v \in Below(x, o)
        <5>1. z.ref[o] = x.ref[o] /\ EmptyNode(z, o) = EmptyNode(x, o)
          BY <3>1, <2>1, <1>18 DEF EmptyNode
        <5>2. Tt[o] = "upval" => UpvalValue(z, o) = UpvalValue(x, o)
          <6> SUFFICES ASSUME Tt[o] = "upval" PROVE UpvalValue(z, o) = UpvalValue(x, o)
            OBVIOUS
          <6>1. CASE IsOpen(x, o)
            <7>1. x.open[o] \in Objs("thread") \X {2, 3} BY <6>1, <2>1, <1>8 DEF Opened
            <7>2. x.open[o][1] \in Obj /\ Tt[x.open[o][1]] = "thread" BY <7>1 DEF Objs
            <7> QED BY <6>1, <7>2, <1>11, <1>14, <1>17, <1>18 DEF UpvalValue
          <6>2. CASE ~IsOpen(x, o) BY <6>2, <5>1, <1>17 DEF UpvalValue
          <6> QED BY <6>1, <6>2
        <5> QED BY <5>1, <5>2, <2>1, <1>8, <1>11, <1>14, <1>19, BelowIs
      <4>2. CASE x.mark[o] = "black"
        <5>1. WhiteOf(x, Below(x, o)) = {} BY <4>2, <2>1, <1>9, <1>10 DEF BlackInv, Excused
        <5> QED BY <4>1, <5>1, <2>3 DEF WhiteOf
      <4>3. CASE x.mark[o] = "gray" /\ Tt[o] = "thread"
        <5>1. o \in x.again \cup x.weak BY <4>3, <2>1, <1>7, <1>10 DEF ListInv, Chained
        <5>2. o \in x.again BY <5>1, <4>3, <1>1, <1>6
        <5>3. WhiteOf(x, Below(x, o)) = {} BY <5>2, <1>9, <1>10 DEF AtomicInv, Excused
        <5> QED BY <4>1, <5>3, <2>3 DEF WhiteOf
      <4>4. CASE x.mark[o] = "gray" /\ Tt[o] \in {"function", "proto"}
        <5>1. o \in x.again \cup x.weak BY <4>4, <2>1, <1>7, <1>10 DEF ListInv, Chained
        <5>2. o \in x.again BY <5>1, <4>4, <1>1, <1>6
        <5>3. Tt[o] = "thread" BY <5>2, <1>9, <1>10 DEF AtomicInv
        <5> QED BY <4>4, <5>3
      <4>5. CASE x.mark[o] = "gray" /\ Tt[o] = "upval"
        <5>1. IsOpen(x, o) BY <4>5, <2>1, <1>8 DEF Painted
        <5>2. x.ref[o][1] = Nil /\ x.meta[o] = Nil BY <4>5, <5>1, <2>1, <1>8 DEF Opened, Shaped
        <5>3. Slots("upval") = {1} BY DEF Slots
        <5>4. v = UpvalValue(x, o) /\ v # Nil
          BY <4>1, <4>5, <5>2, <5>3, <2>1, <1>8, BelowIs
        <5>5. WhiteOf(x, {UpvalValue(x, o)}) = {}
          BY <4>5, <5>1, <2>1, <1>10 DEF AtomicInv, Excused
        <5> QED BY <4>1, <5>4, <5>5 DEF WhiteOf
      <4>6. CASE Tt[o] = "string"
        <5>1. Slots("string") = {} /\ x.meta[o] = Nil BY <4>6, <2>1, <1>8 DEF Slots, Shaped
        <5> QED BY <4>1, <4>6, <5>1, <2>1, <1>8, BelowIs
      <4>7. CASE x.mark[o] = "gray" /\ Tt[o] = "udata"
        BY <4>7, <2>1, <1>8 DEF Painted
      <4> QED BY <3>1, <4>2, <4>3, <4>4, <4>5, <4>6, <4>7, <2>1, <2>2, TypesOf
    <3>2. CASE Tt[o] = "table" /\ o \notin s.weak
      <4>1. z.ref[o] = x.ref[o] /\ EmptyNode(z, o) = EmptyNode(x, o)
        BY <3>2, <2>1, <1>11, <1>12, <1>14 DEF EmptyNode
      <4>2. v \in Below(x, o)
        BY <4>1, <3>2, <2>1, <1>8, <1>11, <1>14, <1>19, BelowIs
      <4>3. x.mark[o] = "black"
        <5> SUFFICES ASSUME x.mark[o] = "gray" PROVE FALSE
          BY <2>2
        <5>1. o \in x.again \cup x.weak BY <3>2, <2>1, <1>7, <1>10 DEF ListInv, Chained
        <5>2. o \in x.again BY <5>1, <3>2, <1>6
        <5>3. Tt[o] = "thread" BY <5>2, <1>9, <1>10 DEF AtomicInv
        <5> QED BY <3>2, <5>3
      <4>4. WhiteOf(x, Below(x, o)) = {} BY <4>3, <2>1, <1>9, <1>10 DEF BlackInv, Excused
      <4> QED BY <4>2, <4>4, <2>3 DEF WhiteOf
    <3>3. CASE Tt[o] = "table" /\ o \in s.weak
      <4>1. /\ v \in Below(s, o)
            /\ v \in TableRefs(s, o) \/ ~IsWhite(s, v) \/ v \in S
        BY <3>3, <1>0, <1>14, <1>19, ClearedLeaves DEF S
      <4>2. Below(x, o) = Below(s, o) /\ TableRefs(x, o) = TableRefs(s, o)
        BY <1>6, HeapReads
      <4>3. v # Nil /\ v \in Obj BY <4>1, <4>2, <2>3
      <4>4. {v} \in SUBSET OrNil(Obj) BY <4>3 DEF OrNil
      <4>5. WhiteOf(x, {v}) \subseteq WhiteOf(s, {v}) \ S BY <4>4, <1>6
      <4>6. WhiteOf(x, TableRefs(x, o)) = {}
        BY <3>3, <1>6, <1>9, <1>10 DEF AtomicInv, Excused
      <4> QED BY <4>1, <4>2, <4>3, <4>5, <4>6 DEF WhiteOf
    <3> QED BY <3>1, <3>2, <3>3
  <2> QED BY <2>3, <2>4, <1>16
<1>24. HeapInv(z) BY <1>14, <1>19, <1>20, <1>21, <1>22, <1>23 DEF HeapInv
<1> DEFINE b == BeginSweep(z)
<1>25. /\ b \in GState /\ SameHeap(z, b) /\ b.mark = z.mark /\ b.white = z.white
       /\ b.tmu = z.tmu /\ b.run = z.run /\ b.str = 0 /\ b.sweep = RootList(z)
       /\ b.state = "sweepstring"
  <2>1. RootList(z) \subseteq Obj BY DEF RootList
  <2> QED BY <2>1, <1>14 DEF BeginSweep, GState, SameHeap, States
<1> HIDE DEF b
<1>26. Sound(b) BY <1>9, <1>14, <1>24, <1>25, BeginSweepKeeps
<1> QED BY <1>4, <1>25, <1>26 DEF b
-----------------------------------------------------------------------------
(* Sweeping.                                                               *)

LEMMA BlankType ==
  ASSUME NEW o \in Obj
  PROVE  Blank(o) \in [Slots(Tt[o]) -> OrNil(Obj)]
  BY DEF Blank, OrNil

\* x is s but for the objects and the set fin.
SameButObjects(s, x) ==
  /\ x.state = s.state /\ x.white = s.white /\ x.tmu = s.tmu
  /\ x.str = s.str /\ x.size = s.size /\ x.sweep = s.sweep /\ x.run = s.run
  /\ x.calls = s.calls /\ x.gray = s.gray /\ x.again = s.again /\ x.weak = s.weak
LEMMA FreeIs ==
  ASSUME NEW s \in GState, Shaped(s), NEW S
  PROVE  /\ Free(s, S) \in GState
         /\ SameButObjects(s, Free(s, S))
         /\ \A o \in Obj :
              /\ Free(s, S).mark[o] = IF o \in S THEN "free" ELSE s.mark[o]
              /\ Free(s, S).ref[o] = IF o \in S THEN Blank(o) ELSE s.ref[o]
              /\ Free(s, S).meta[o] = IF o \in S THEN Nil ELSE s.meta[o]
              /\ Free(s, S).open[o] = IF o \in S THEN <<>> ELSE s.open[o]
<1> DEFINE m == [o \in Obj |-> IF o \in S THEN "free" ELSE s.mark[o]]
           r == [o \in Obj |-> IF o \in S THEN Blank(o) ELSE s.ref[o]]
           t == [o \in Obj |-> IF o \in S THEN Nil ELSE s.meta[o]]
           p == [o \in Obj |-> IF o \in S THEN <<>> ELSE s.open[o]]
           x == Free(s, S)
<1>1. x = [s EXCEPT !.mark = m, !.ref = r, !.meta = t, !.open = p, !.fin = s.fin \ S]
  BY DEF Free, GState
<1>2. m \in [Obj -> Colors] BY GStateIs DEF Colors
<1>3. \A o \in Obj : r[o] \in [Slots(Tt[o]) -> OrNil(Obj)] BY BlankType DEF Shaped
<1>4. r \in [Obj -> UNION {[Slots(q) -> OrNil(Obj)] : q \in Types}]
  <2>1. r = [o \in Obj |-> r[o]] /\ DOMAIN r = Obj OBVIOUS
  <2> HIDE DEF r
  <2> QED BY <1>3, <2>1, RefType
<1>5. t \in [Obj -> OrNil(Obj)] BY GStateIs DEF OrNil
<1>6. p \in [Obj -> {<<>>} \cup (Obj \X {2, 3})]
  <2>1. s.open \in [Obj -> {<<>>} \cup (Obj \X {2, 3})] BY GStateIs
  <2> QED BY <2>1
<1>7. s.fin \ S \subseteq Obj BY GStateIs
<1>8. \A o \in Obj : /\ m[o] = IF o \in S THEN "free" ELSE s.mark[o]
                     /\ r[o] = IF o \in S THEN Blank(o) ELSE s.ref[o]
                     /\ t[o] = IF o \in S THEN Nil ELSE s.meta[o]
                     /\ p[o] = IF o \in S THEN <<>> ELSE s.open[o]
  OBVIOUS
<1> HIDE DEF m, r, t, p, x
<1>9. x \in GState BY <1>1, <1>2, <1>4, <1>5, <1>6, <1>7 DEF GState
<1>10. x.mark = m /\ x.ref = r /\ x.meta = t /\ x.open = p BY <1>1 DEF GState
<1>11. SameButObjects(s, x) BY <1>1 DEF GState, SameButObjects
<1> QED BY <1>8, <1>9, <1>10, <1>11 DEF x

\* The objects of x are those of s, less what is dead in S, which is free, and
\* with what is live in S white.
Swept(s, S, x) ==
  \A o \in Obj :
    /\ x.mark[o] = IF o \notin S THEN s.mark[o]
                   ELSE IF IsDead(s, o) THEN "free" ELSE s.white
    /\ ~(o \in S /\ IsDead(s, o)) =>
         x.ref[o] = s.ref[o] /\ x.meta[o] = s.meta[o] /\ x.open[o] = s.open[o]
    /\ o \in S /\ IsDead(s, o) =>
         x.ref[o] = Blank(o) /\ x.meta[o] = Nil /\ x.open[o] = <<>>
LEMMA SweepAllIs ==
  ASSUME NEW s \in GState, Shaped(s), NEW S
  PROVE  /\ SweepAll(s, S) \in GState
         /\ SameButObjects(s, SweepAll(s, S))
         /\ Swept(s, S, SweepAll(s, S))
<1> DEFINE dead == {o \in S : IsDead(s, o)}
           f == Free(s, dead)
           m == [o \in Obj |-> IF o \in S \ dead THEN s.white ELSE f.mark[o]]
           x == [f EXCEPT !.mark = m]
<1>1. SweepAll(s, S) = x BY DEF SweepAll
<1>2. /\ f \in GState /\ SameButObjects(s, f)
      /\ \A o \in Obj :
              /\ f.mark[o] = IF o \in dead THEN "free" ELSE s.mark[o]
              /\ f.ref[o] = IF o \in dead THEN Blank(o) ELSE s.ref[o]
              /\ f.meta[o] = IF o \in dead THEN Nil ELSE s.meta[o]
              /\ f.open[o] = IF o \in dead THEN <<>> ELSE s.open[o]
  <2> HIDE DEF dead
  <2> QED BY FreeIs
<1> HIDE DEF f
<1>3. m \in [Obj -> Colors] BY <1>2, GStateIs DEF Colors
<1>4. \A o \in Obj : m[o] = IF o \notin S THEN s.mark[o]
                            ELSE IF IsDead(s, o) THEN "free" ELSE s.white
  BY <1>2
<1> HIDE DEF m
<1>5. /\ x \in GState /\ x.mark = m /\ x.ref = f.ref /\ x.meta = f.meta /\ x.open = f.open
      /\ SameButObjects(f, x)
  BY <1>2, <1>3 DEF GState, SameButObjects
<1> HIDE DEF x
<1>6. SameButObjects(s, x) BY <1>2, <1>5 DEF SameButObjects
<1>7. Swept(s, S, x) BY <1>2, <1>4, <1>5 DEF Swept
<1> QED BY <1>1, <1>5, <1>6, <1>7

LEMMA SweptKeeps ==
  ASSUME NEW s, HeapInv(s), NEW S, NEW x \in GState, Swept(s, S, x),
         \A o \in S : /\ o \in Obj /\ s.mark[o] # "free"
                      /\ IsDead(s, o) => OpenOn(s, o) = {},
         x.white = s.white, x.tmu = s.tmu, x.run = s.run,
         x.sweep \subseteq s.sweep, \A o \in x.sweep : ~(o \in S /\ IsDead(s, o)),
         x.sweep # {} <=> x.state \in {"sweepstring", "sweep"},
         x.state # "pause"
  PROVE  HeapInv(x) /\ Alive(x) = Alive(s)
<1>0. s \in GState /\ Shaped(s) /\ Opened(s) /\ Painted(s) /\ Rooted(s) /\ Closed(s)
  BY DEF HeapInv
<1> DEFINE Gone(o) == o \in S /\ IsDead(s, o)
<1>1. \A o \in Obj :
        /\ x.mark[o] = IF o \notin S THEN s.mark[o]
                       ELSE IF IsDead(s, o) THEN "free" ELSE s.white
        /\ ~Gone(o) => x.ref[o] = s.ref[o] /\ x.meta[o] = s.meta[o] /\ x.open[o] = s.open[o]
        /\ Gone(o) => x.ref[o] = Blank(o) /\ x.meta[o] = Nil /\ x.open[o] = <<>>
  BY DEF Swept
<1>2. s.white \in Whites /\ OtherWhite(s) \in Whites /\ OtherWhite(s) # s.white
      /\ OtherWhite(x) = OtherWhite(s)
  BY <1>0, GStateIs DEF Whites, OtherWhite
<1>3. ASSUME NEW o \in Obj
      PROVE  o \in Alive(x) <=> o \in Alive(s)
  BY <1>1, <1>2 DEF Alive, IsDead, Mark, Whites
<1>4. Alive(x) = Alive(s) BY <1>3 DEF Alive
<1>5. \A o \in Alive(s) : o \in Obj /\ ~Gone(o) BY DEF Alive
<1>6. \A u \in Obj : IsOpen(x, u) <=> IsOpen(s, u) /\ ~Gone(u) BY <1>1 DEF IsOpen
<1>7. ASSUME NEW u \in Obj, IsOpen(s, u)
      PROVE  /\ Tt[u] = "upval" /\ s.open[u] \in Objs("thread") \X {2, 3}
             /\ s.open[u][1] \in Obj /\ ~Gone(s.open[u][1])
  <2>1. Tt[u] = "upval" /\ s.open[u] \in Objs("thread") \X {2, 3} BY <1>7, <1>0 DEF Opened
  <2>2. s.open[u][1] \in Obj BY <2>1 DEF Objs
  <2>3. u \in OpenOn(s, s.open[u][1]) BY <2>1, <1>7 DEF OpenOn, Objs
  <2> QED BY <2>1, <2>2, <2>3
<1> HIDE DEF Gone
<1>8. Shaped(x)
  <2> SUFFICES ASSUME NEW o \in Obj
               PROVE  /\ x.ref[o] \in [Slots(Tt[o]) -> OrNil(Obj)]
                      /\ x.mark[o] # "free" =>
                           \A i \in Slots(Tt[o]) : x.ref[o][i] \in MayHold(Tt[o], i)
                      /\ x.meta[o] \in IF Tt[o] \in {"table", "udata"}
                                       THEN OrNil(Objs("table")) ELSE {Nil}
    BY DEF Shaped
  <2>1. CASE Gone(o)
    <3>1. x.mark[o] = "free" BY <2>1, <1>1 DEF Gone
    <3> QED BY <2>1, <3>1, <1>1, BlankType DEF OrNil
  <2>2. CASE ~Gone(o)
    <3>1. x.mark[o] # "free" => s.mark[o] # "free" BY <2>2, <1>1, <1>2 DEF Gone
    <3> QED BY <2>2, <3>1, <1>0, <1>1 DEF Shaped
  <2> QED BY <2>1, <2>2
<1>9. Opened(x)
  <2> SUFFICES ASSUME NEW u \in Obj, IsOpen(x, u)
               PROVE  /\ Tt[u] = "upval" /\ x.mark[u] \notin {"free", "black"}
                      /\ x.ref[u][1] = Nil
                      /\ x.open[u] \in Objs("thread") \X {2, 3}
                      /\ x.mark[x.open[u][1]] # "free"
                      /\ u \notin x.sweep
    BY DEF Opened
  <2>1. IsOpen(s, u) /\ ~Gone(u) BY <1>6
  <2>2. /\ s.mark[u] \notin {"free", "black"} /\ s.ref[u][1] = Nil
        /\ s.mark[s.open[u][1]] # "free" /\ u \notin s.sweep
    BY <2>1, <1>0 DEF Opened
  <2>3. x.mark[u] \notin {"free", "black"} BY <2>1, <2>2, <1>1, <1>2 DEF Gone, Whites
  <2>4. x.mark[s.open[u][1]] # "free" BY <2>1, <2>2, <1>1, <1>2, <1>7 DEF Gone, Whites
  <2> QED BY <2>1, <2>2, <2>3, <2>4, <1>1, <1>7
<1>10. Painted(x)
  <2> SUFFICES ASSUME NEW o \in Obj
               PROVE  /\ Tt[o] = "udata" => x.mark[o] # "gray"
                      /\ Tt[o] = "thread" => x.mark[o] # "black"
                      /\ Tt[o] = "upval" /\ ~IsOpen(x, o) => x.mark[o] # "gray"
    BY DEF Painted
  <2>1. CASE o \in S BY <2>1, <1>1, <1>2 DEF Whites
  <2>2. CASE o \notin S
    <3>1. ~Gone(o) BY <2>2 DEF Gone
    <3> QED BY <2>2, <3>1, <1>0, <1>1, <1>6 DEF Painted
  <2> QED BY <2>1, <2>2
<1>11. Rooted(x)
  <2>1. \A o \in x.sweep : x.mark[o] # "free" /\ Tt[o] # "string"
    <3>1. \A o \in x.sweep : o \in Obj /\ ~Gone(o) /\ s.mark[o] # "free" /\ Tt[o] # "string"
      BY <1>0, GStateIs DEF Rooted, Gone
    <3> QED BY <3>1, <1>1, <1>2 DEF Gone, Whites
  <2> QED BY <2>1, <1>0, <1>4 DEF Rooted
<1>12. Closed(x)
  <2> SUFFICES ASSUME NEW o \in Alive(s), NEW v \in Below(x, o) PROVE v \in Alive(s)
    BY <1>4 DEF Closed
  <2>1. o \in Obj /\ ~Gone(o) BY <1>5
  <2>2. x.ref[o] = s.ref[o] /\ x.meta[o] = s.meta[o] /\ IsOpen(x, o) = IsOpen(s, o)
        /\ x.open[o] = s.open[o] /\ EmptyNode(x, o) = EmptyNode(s, o)
    <3>1. x.ref[o] = s.ref[o] /\ x.meta[o] = s.meta[o] /\ x.open[o] = s.open[o]
      BY <2>1, <1>1
    <3> QED BY <3>1 DEF EmptyNode, IsOpen
  <2>3. ASSUME Tt[o] = "upval" PROVE UpvalValue(x, o) = UpvalValue(s, o)
    <3>1. CASE IsOpen(s, o)
      <4>1. x.ref[s.open[o][1]] = s.ref[s.open[o][1]] BY <3>1, <2>1, <1>1, <1>7
      <4> QED BY <4>1, <2>2, <3>1 DEF UpvalValue
    <3>2. CASE ~IsOpen(s, o) BY <3>2, <2>2 DEF UpvalValue
    <3> QED BY <3>1, <3>2
  <2>4. v \in Below(s, o) BY <2>1, <2>2, <2>3, <1>0, <1>8, BelowIs
  <2> QED BY <2>4, <1>0 DEF Closed
<1> QED BY <1>4, <1>8, <1>9, <1>10, <1>11, <1>12 DEF HeapInv

LEMMA SweepStringKeeps ==
  ASSUME NEW s, Sound(s), s.state = "sweepstring"
  PROVE  Sound(SweepString(s)) /\ SweepString(s).state \in {"sweepstring", "sweep"}
<1>0. /\ s \in GState /\ HeapInv(s) /\ SweepInv(s) /\ Shaped(s) /\ Opened(s) /\ Rooted(s)
  BY DEF Sound, GcInv, HeapInv
<1> DEFINE S == Bucket(s, s.str)
           w == SweepAll(s, S)
           q == IF s.str + 1 >= s.size THEN "sweep" ELSE "sweepstring"
           x == [w EXCEPT !.str = s.str + 1, !.state = q]
<1>1. SweepString(s) = x BY DEF SweepString
<1>2. w \in GState /\ SameButObjects(s, w) /\ Swept(s, S, w) BY <1>0, SweepAllIs
<1>3. \A o \in S : o \in Obj /\ Tt[o] = "string" /\ s.mark[o] # "free"
  BY DEF Bucket, Strings, Objs, Mark
<1>4. \A o \in Obj : Tt[o] = "string" /\ s.mark[o] # "free" /\ Hash[o] % s.size = s.str
         => o \in S
  BY DEF Bucket, Strings, Objs, Mark
<1> HIDE DEF S, w
<1>5. s.str + 1 \in Nat /\ q \in {"sweepstring", "sweep"} BY <1>0, GStateIs
<1>6. /\ x \in GState /\ x.mark = w.mark /\ x.ref = w.ref /\ x.meta = w.meta
      /\ x.open = w.open /\ x.white = w.white /\ x.tmu = w.tmu /\ x.run = w.run
      /\ x.sweep = w.sweep /\ x.size = w.size /\ x.str = s.str + 1 /\ x.state = q
  <2> HIDE DEF q
  <2> QED BY <1>2, <1>5 DEF GState, States
<1> HIDE DEF x
<1>7. Swept(s, S, x) BY <1>2, <1>6 DEF Swept
<1>8. x.white = s.white /\ x.tmu = s.tmu /\ x.run = s.run /\ x.sweep = s.sweep /\ x.size = s.size
  BY <1>2, <1>6 DEF SameButObjects
<1>9. ASSUME NEW o \in S PROVE OpenOn(s, o) = {}
  <2> SUFFICES ASSUME NEW u \in OpenOn(s, o) PROVE FALSE
    OBVIOUS
  <2>1. u \in Obj /\ IsOpen(s, u) /\ s.open[u][1] = o BY DEF OpenOn, Objs
  <2>2. s.open[u] \in Objs("thread") \X {2, 3} BY <2>1, <1>0 DEF Opened
  <2>3. Tt[o] = "thread" BY <2>1, <2>2 DEF Objs
  <2> QED BY <2>3, <1>3
<1>10. s.sweep # {} /\ x.state \in {"sweepstring", "sweep"} BY <1>0, <1>5, <1>6 DEF Rooted
<1>11. \A o \in x.sweep : o \notin S BY <1>0, <1>3, <1>8 DEF Rooted
<1>12. HeapInv(x) BY <1>0, <1>3, <1>6, <1>7, <1>8, <1>9, <1>10, <1>11, SweptKeeps
<1>13. SweepInv(x)
  <2> SUFFICES ASSUME NEW o \in Obj, x.mark[o] \notin {"free", x.white} PROVE o \in ToSweep(x)
    BY DEF SweepInv
  <2>1. o \notin S /\ s.mark[o] \notin {"free", s.white} BY <1>7, <1>8 DEF Swept
  <2>2. o \in ToSweep(s) BY <2>1, <1>0 DEF SweepInv, Marking, Atomic
  <2>3. CASE o \in s.tmu \cup s.sweep
    BY <2>3, <1>8, <1>10 DEF ToSweep
  <2>4. CASE IsOpen(s, o) /\ s.open[o][1] \in s.sweep
    <3>1. x.open[o] = s.open[o] BY <2>1, <1>7 DEF Swept
    <3>2. IsOpen(x, o) /\ x.open[o][1] \in x.sweep BY <3>1, <2>4, <1>8 DEF IsOpen
    <3> QED BY <3>2, <1>10 DEF ToSweep
  <2>5. CASE o \in Objs("string") /\ Hash[o] % s.size >= s.str
    <3>1. Tt[o] = "string" BY <2>5 DEF Objs
    <3>2. Hash[o] % s.size # s.str BY <2>1, <3>1, <1>4
    <3>3. \A a \in Nat, b \in Nat \ {0} : a % b \in Nat /\ a % b < b OBVIOUS
    <3>4. Hash[o] \in Nat /\ s.size \in Nat \ {0} /\ s.str \in Nat
      BY <2>5, <1>0, GcConstants, GStateIs
    <3> DEFINE h == Hash[o] % s.size
    <3>5. h \in Nat /\ h < s.size BY <3>3, <3>4
    <3>6. h >= s.str /\ h # s.str BY <2>5, <3>2
    <3> HIDE DEF h
    <3>7. h >= s.str + 1 /\ s.str + 1 < s.size BY <3>4, <3>5, <3>6
    <3>8. x.state = "sweepstring" BY <3>4, <3>7, <1>6
    <3>9. Hash[o] % x.size >= x.str BY <3>7, <1>6, <1>8 DEF h
    <3> QED BY <2>5, <3>8, <3>9 DEF ToSweep
  <2> QED BY <2>2, <2>3, <2>4, <2>5, <1>0 DEF ToSweep, Closing
<1>14. MarkInv(x, {}, {}) BY <1>10 DEF MarkInv, Marking, Atomic
<1> QED BY <1>1, <1>10, <1>12, <1>13, <1>14 DEF Sound, GcInv
-----------------------------------------------------------------------------
(* luaF_close.                                                             *)

\* CloseUpvals before it marks the values.
ClosedOf(s, th) ==
  LET dead == {u \in OpenOn(s, th) : IsDead(s, u)}
      kept == OpenOn(s, th) \ dead
      gray == {u \in kept : Mark(s, u) = "gray"}
      x == Free(s, dead)
      linked == IF s.state = "propagate" THEN "black" ELSE s.white
  IN  [x EXCEPT
         !.mark = [o \in Obj |-> IF o \in gray THEN linked ELSE x.mark[o]],
         !.ref = [o \in Obj |-> IF o \in kept THEN [i \in {1} |-> UpvalValue(s, o)]
                                ELSE x.ref[o]],
         !.open = [o \in Obj |-> IF o \in kept THEN <<>> ELSE x.open[o]]]
GrayOn(s, th) == {u \in OpenOn(s, th) : ~IsDead(s, u) /\ Mark(s, u) = "gray"}
Linked(s) == IF s.state = "propagate" THEN "black" ELSE s.white

LEMMA CloseUpvalsIs ==
  ASSUME NEW s, NEW th
  PROVE  CloseUpvals(s, th) =
           IF s.state = "propagate"
           THEN MarkAll(ClosedOf(s, th), {UpvalValue(s, u) : u \in GrayOn(s, th)})
           ELSE ClosedOf(s, th)
<1>1. GrayOn(s, th) = {u \in OpenOn(s, th) \ {v \in OpenOn(s, th) : IsDead(s, v)} :
                         Mark(s, u) = "gray"}
  BY DEF GrayOn
<1> QED BY <1>1 DEF CloseUpvals, ClosedOf

LEMMA OpenOnIs ==
  ASSUME NEW s, HeapInv(s), NEW th \in Obj, NEW u
  PROVE  /\ u \in OpenOn(s, th) <=> u \in Obj /\ IsOpen(s, u) /\ s.open[u][1] = th
         /\ u \in OpenOn(s, th) =>
              /\ Tt[u] = "upval" /\ s.mark[u] \notin {"free", "black"} /\ s.ref[u][1] = Nil
              /\ u \notin s.sweep /\ UpvalValue(s, u) \in Values /\ s.meta[u] = Nil
<1>0. s \in GState /\ Shaped(s) /\ Opened(s) BY DEF HeapInv
<1>1. u \in OpenOn(s, th) <=> u \in Obj /\ IsOpen(s, u) /\ s.open[u][1] = th
  BY <1>0 DEF OpenOn, Objs, Opened
<1>2. ASSUME u \in OpenOn(s, th)
      PROVE  /\ Tt[u] = "upval" /\ s.mark[u] \notin {"free", "black"} /\ s.ref[u][1] = Nil
             /\ u \notin s.sweep /\ UpvalValue(s, u) \in Values /\ s.meta[u] = Nil
  <2>1. /\ Tt[u] = "upval" /\ s.mark[u] \notin {"free", "black"} /\ s.ref[u][1] = Nil
        /\ u \notin s.sweep
    BY <1>0, <1>1, <1>2 DEF Opened
  <2>2. UpvalValue(s, u) \in Values BY <1>0, <1>1, <1>2, <2>1, UpvalHolds
  <2>3. s.meta[u] = Nil BY <1>0, <1>1, <1>2, <2>1 DEF Shaped
  <2> QED BY <2>1, <2>2, <2>3
<1> QED BY <1>1, <1>2

\* What luaF_close leaves of each object.
ClosedObjs(s, th, c) ==
  \A o \in Obj :
    /\ o \notin OpenOn(s, th) =>
         /\ c.mark[o] = s.mark[o] /\ c.ref[o] = s.ref[o]
         /\ c.meta[o] = s.meta[o] /\ c.open[o] = s.open[o]
    /\ o \in OpenOn(s, th) /\ IsDead(s, o) =>
         /\ c.mark[o] = "free" /\ c.ref[o] = Blank(o)
         /\ c.meta[o] = Nil /\ c.open[o] = <<>>
    /\ o \in OpenOn(s, th) /\ ~IsDead(s, o) =>
         /\ c.mark[o] = IF s.mark[o] = "gray" THEN Linked(s) ELSE s.mark[o]
         /\ c.ref[o] = [i \in {1} |-> UpvalValue(s, o)]
         /\ c.meta[o] = Nil /\ c.open[o] = <<>>
LEMMA ClosedOfIs ==
  ASSUME NEW s, HeapInv(s), NEW th \in Obj
  PROVE  LET c == ClosedOf(s, th) IN
         /\ c \in GState
         /\ SameButObjects(s, c)
         /\ ClosedObjs(s, th, c)
<1>0. s \in GState /\ Shaped(s) /\ Opened(s) BY DEF HeapInv
<1> DEFINE dead == {u \in OpenOn(s, th) : IsDead(s, u)}
           kept == OpenOn(s, th) \ dead
           gray == {u \in kept : Mark(s, u) = "gray"}
           x == Free(s, dead)
           linked == IF s.state = "propagate" THEN "black" ELSE s.white
           m == [o \in Obj |-> IF o \in gray THEN linked ELSE x.mark[o]]
           r == [o \in Obj |-> IF o \in kept THEN [i \in {1} |-> UpvalValue(s, o)]
                               ELSE x.ref[o]]
           p == [o \in Obj |-> IF o \in kept THEN <<>> ELSE x.open[o]]
           c == [x EXCEPT !.mark = m, !.ref = r, !.open = p]
<1>1. ClosedOf(s, th) = c BY DEF ClosedOf
<1>2. /\ x \in GState /\ SameButObjects(s, x)
      /\ \A o \in Obj :
              /\ x.mark[o] = IF o \in dead THEN "free" ELSE s.mark[o]
              /\ x.ref[o] = IF o \in dead THEN Blank(o) ELSE s.ref[o]
              /\ x.meta[o] = IF o \in dead THEN Nil ELSE s.meta[o]
              /\ x.open[o] = IF o \in dead THEN <<>> ELSE s.open[o]
  <2> HIDE DEF dead
  <2> QED BY <1>0, FreeIs
<1>3. \A u \in OpenOn(s, th) : /\ u \in Obj /\ Tt[u] = "upval"
                               /\ UpvalValue(s, u) \in OrNil(Obj) /\ s.meta[u] = Nil
  BY OpenOnIs DEF Values, OrNil
<1> HIDE DEF x
<1>4. m \in [Obj -> Colors]
  <2>1. linked \in Colors BY <1>0, GStateIs DEF Colors
  <2>2. x.mark \in [Obj -> Colors] BY <1>2, GStateIs
  <2> HIDE DEF gray, linked
  <2> QED BY <2>1, <2>2
<1>5. \A o \in Obj : r[o] \in [Slots(Tt[o]) -> OrNil(Obj)]
  <2> SUFFICES ASSUME NEW o \in Obj PROVE r[o] \in [Slots(Tt[o]) -> OrNil(Obj)]
    OBVIOUS
  <2>1. CASE o \in kept
    <3>1. Slots(Tt[o]) = {1} /\ UpvalValue(s, o) \in OrNil(Obj) BY <2>1, <1>3 DEF Slots
    <3>2. r[o] = [i \in {1} |-> UpvalValue(s, o)] BY <2>1
    <3> QED BY <3>1, <3>2
  <2>2. CASE o \notin kept
    <3>1. r[o] = x.ref[o] BY <2>2
    <3>2. x.ref[o] \in [Slots(Tt[o]) -> OrNil(Obj)] BY <1>0, <1>2, BlankType DEF Shaped
    <3> QED BY <3>1, <3>2
  <2> QED BY <2>1, <2>2
<1>6. r \in [Obj -> UNION {[Slots(q) -> OrNil(Obj)] : q \in Types}]
  <2>1. r = [o \in Obj |-> r[o]] /\ DOMAIN r = Obj OBVIOUS
  <2> HIDE DEF r
  <2> QED BY <1>0, <1>5, <2>1, RefType
<1>7. p \in [Obj -> {<<>>} \cup (Obj \X {2, 3})]
  <2>1. x.open \in [Obj -> {<<>>} \cup (Obj \X {2, 3})] BY <1>2, GStateIs
  <2> HIDE DEF kept
  <2> QED BY <2>1
<1>8. \A o \in Obj : /\ m[o] = IF o \in gray THEN linked ELSE x.mark[o]
                     /\ r[o] = IF o \in kept THEN [i \in {1} |-> UpvalValue(s, o)] ELSE x.ref[o]
                     /\ p[o] = IF o \in kept THEN <<>> ELSE x.open[o]
  OBVIOUS
<1> HIDE DEF m, r, p
<1>9. /\ c \in GState /\ c.mark = m /\ c.ref = r /\ c.open = p /\ c.meta = x.meta
      /\ SameButObjects(x, c)
  BY <1>2, <1>4, <1>6, <1>7 DEF GState, SameButObjects
<1> HIDE DEF c
<1>10. SameButObjects(s, c) BY <1>2, <1>9 DEF SameButObjects
<1>11. ASSUME NEW o \in Obj
       PROVE  /\ o \notin OpenOn(s, th) =>
                   /\ c.mark[o] = s.mark[o] /\ c.ref[o] = s.ref[o]
                   /\ c.meta[o] = s.meta[o] /\ c.open[o] = s.open[o]
              /\ o \in OpenOn(s, th) /\ IsDead(s, o) =>
                   /\ c.mark[o] = "free" /\ c.ref[o] = Blank(o)
                   /\ c.meta[o] = Nil /\ c.open[o] = <<>>
              /\ o \in OpenOn(s, th) /\ ~IsDead(s, o) =>
                   /\ c.mark[o] = IF s.mark[o] = "gray" THEN Linked(s) ELSE s.mark[o]
                   /\ c.ref[o] = [i \in {1} |-> UpvalValue(s, o)]
                   /\ c.meta[o] = Nil /\ c.open[o] = <<>>
  <2>1. CASE o \notin OpenOn(s, th) BY <2>1, <1>2, <1>8, <1>9
  <2>2. CASE o \in OpenOn(s, th) /\ IsDead(s, o)
    <3>1. o \in dead /\ o \notin kept /\ o \notin gray BY <2>2
    <3> HIDE DEF dead, kept, gray
    <3> QED BY <2>2, <3>1, <1>2, <1>8, <1>9
  <2>3. CASE o \in OpenOn(s, th) /\ ~IsDead(s, o)
    <3>1. o \notin dead /\ o \in kept /\ (o \in gray <=> s.mark[o] = "gray") BY <2>3 DEF Mark
    <3>2. linked = Linked(s) BY DEF Linked
    <3> HIDE DEF dead, kept, gray, linked
    <3> QED BY <2>3, <3>1, <3>2, <1>2, <1>3, <1>8, <1>9
  <2> QED BY <2>1, <2>2, <2>3
<1>12. ClosedObjs(s, th, c) BY <1>11 DEF ClosedObjs
<1> QED BY <1>1, <1>9, <1>10, <1>12

LEMMA ClosedHeap ==
  ASSUME NEW s, HeapInv(s), NEW th \in Obj, Tt[th] = "thread"
  PROVE  LET c == ClosedOf(s, th) IN
         /\ HeapInv(c) /\ Alive(c) = Alive(s) /\ SameButObjects(s, c)
         /\ \A o \in Alive(s) : Below(c, o) = Below(s, o)
         /\ \A o \in Obj : /\ s.state = "propagate" => (IsWhite(c, o) => IsWhite(s, o))
                           /\ IsOpen(c, o) <=> IsOpen(s, o) /\ o \notin OpenOn(s, th)
<1>0. s \in GState /\ Shaped(s) /\ Opened(s) /\ Painted(s) /\ Rooted(s) /\ Closed(s)
  BY DEF HeapInv
<1> DEFINE c == ClosedOf(s, th)
           On == OpenOn(s, th)
<1>1. /\ c \in GState
      /\ SameButObjects(s, c)
      /\ \A o \in Obj :
              /\ o \notin On =>
                   /\ c.mark[o] = s.mark[o] /\ c.ref[o] = s.ref[o]
                   /\ c.meta[o] = s.meta[o] /\ c.open[o] = s.open[o]
              /\ o \in On /\ IsDead(s, o) =>
                   /\ c.mark[o] = "free" /\ c.ref[o] = Blank(o)
                   /\ c.meta[o] = Nil /\ c.open[o] = <<>>
              /\ o \in On /\ ~IsDead(s, o) =>
                   /\ c.mark[o] = IF s.mark[o] = "gray" THEN Linked(s) ELSE s.mark[o]
                   /\ c.ref[o] = [i \in {1} |-> UpvalValue(s, o)]
                   /\ c.meta[o] = Nil /\ c.open[o] = <<>>
  BY ClosedOfIs DEF ClosedObjs
<1>2. \A u \in On : /\ u \in Obj /\ Tt[u] = "upval" /\ s.mark[u] \notin {"free", "black"}
                    /\ s.ref[u][1] = Nil /\ u \notin s.sweep /\ UpvalValue(s, u) \in Values
                    /\ s.meta[u] = Nil /\ IsOpen(s, u)
  BY OpenOnIs
<1>3. \A u \in Obj : u \in On <=> IsOpen(s, u) /\ s.open[u][1] = th BY OpenOnIs
<1> HIDE DEF c, On
<1>4. /\ c.state = s.state /\ c.white = s.white /\ c.tmu = s.tmu
      /\ c.sweep = s.sweep /\ c.run = s.run
  BY <1>1 DEF SameButObjects
<1>5. s.white \in Whites /\ OtherWhite(s) \in Whites /\ OtherWhite(s) # s.white
      /\ OtherWhite(c) = OtherWhite(s) /\ Linked(s) \in {"black", s.white}
  BY <1>0, <1>4, GStateIs DEF Whites, OtherWhite, Linked
<1>6. \A o \in Obj : o \in Alive(c) <=> o \in Alive(s)
  <2> SUFFICES ASSUME NEW o \in Obj PROVE o \in Alive(c) <=> o \in Alive(s)
    OBVIOUS
  <2>1. CASE o \notin On BY <2>1, <1>1, <1>5 DEF Alive, IsDead, Mark
  <2>2. CASE o \in On /\ IsDead(s, o) BY <2>2, <1>1 DEF Alive
  <2>3. CASE o \in On /\ ~IsDead(s, o) BY <2>3, <1>1, <1>2, <1>5 DEF Alive, IsDead, Mark, Whites
  <2> QED BY <2>1, <2>2, <2>3
<1>7. Alive(c) = Alive(s) BY <1>6 DEF Alive
<1>8. \A o \in Obj : IsOpen(c, o) <=> IsOpen(s, o) /\ o \notin On
  BY <1>1 DEF IsOpen
<1>9. ASSUME s.state = "propagate", NEW o \in Obj, IsWhite(c, o) PROVE IsWhite(s, o)
  <2>1. Linked(s) = "black" BY <1>9 DEF Linked
  <2> QED BY <2>1, <1>1, <1>9 DEF IsWhite, Mark, Whites
<1>10. Shaped(c)
  <2> SUFFICES ASSUME NEW o \in Obj
               PROVE  /\ c.ref[o] \in [Slots(Tt[o]) -> OrNil(Obj)]
                      /\ c.mark[o] # "free" =>
                           \A i \in Slots(Tt[o]) : c.ref[o][i] \in MayHold(Tt[o], i)
                      /\ c.meta[o] \in IF Tt[o] \in {"table", "udata"}
                                       THEN OrNil(Objs("table")) ELSE {Nil}
    BY DEF Shaped
  <2>1. CASE o \notin On BY <2>1, <1>0, <1>1 DEF Shaped
  <2>2. CASE o \in On /\ IsDead(s, o) BY <2>2, <1>1, <1>2, BlankType
  <2>3. CASE o \in On /\ ~IsDead(s, o)
    <3>1. Slots(Tt[o]) = {1} /\ Tt[o] = "upval" BY <2>3, <1>2 DEF Slots
    <3>2. UpvalValue(s, o) \in OrNil(Obj) BY <2>3, <1>2 DEF Values, OrNil
    <3>3. MayHold(Tt[o], 1) = Values BY <3>1 DEF MayHold
    <3>4. c.ref[o] = [i \in {1} |-> UpvalValue(s, o)] BY <2>3, <1>1
    <3>5. c.ref[o] \in [{1} -> OrNil(Obj)] /\ c.ref[o][1] = UpvalValue(s, o)
      BY <3>2, <3>4
    <3>6. UpvalValue(s, o) \in Values /\ c.meta[o] = Nil BY <2>3, <1>1, <1>2
    <3> QED BY <3>1, <3>3, <3>5, <3>6
  <2> QED BY <2>1, <2>2, <2>3
<1>11. Opened(c)
  <2> SUFFICES ASSUME NEW u \in Obj, IsOpen(c, u)
               PROVE  /\ Tt[u] = "upval" /\ c.mark[u] \notin {"free", "black"}
                      /\ c.ref[u][1] = Nil
                      /\ c.open[u] \in Objs("thread") \X {2, 3}
                      /\ c.mark[c.open[u][1]] # "free"
                      /\ u \notin c.sweep
    BY DEF Opened
  <2>1. IsOpen(s, u) /\ u \notin On BY <1>8
  <2>2. /\ Tt[u] = "upval" /\ s.mark[u] \notin {"free", "black"} /\ s.ref[u][1] = Nil
        /\ s.open[u] \in Objs("thread") \X {2, 3} /\ s.mark[s.open[u][1]] # "free"
        /\ u \notin s.sweep
    BY <2>1, <1>0 DEF Opened
  <2>3. s.open[u][1] \in Obj /\ Tt[s.open[u][1]] = "thread" BY <2>2 DEF Objs
  <2>4. s.open[u][1] \notin On BY <2>3, <1>2
  <2> QED BY <2>1, <2>2, <2>3, <2>4, <1>1, <1>4
<1>12. Painted(c)
  <2> SUFFICES ASSUME NEW o \in Obj
               PROVE  /\ Tt[o] = "udata" => c.mark[o] # "gray"
                      /\ Tt[o] = "thread" => c.mark[o] # "black"
                      /\ Tt[o] = "upval" /\ ~IsOpen(c, o) => c.mark[o] # "gray"
    BY DEF Painted
  <2>1. CASE o \notin On BY <2>1, <1>0, <1>1, <1>8 DEF Painted
  <2>2. CASE o \in On BY <2>2, <1>1, <1>2, <1>5 DEF Whites
  <2> QED BY <2>1, <2>2
<1>13. Rooted(c)
  <2>1. \A o \in c.sweep : o \in Obj /\ o \notin On BY <1>0, <1>2, <1>4, GStateIs
  <2>2. \A o \in c.sweep : c.mark[o] # "free" /\ Tt[o] # "string"
    BY <2>1, <1>0, <1>1, <1>4 DEF Rooted
  <2> QED BY <2>2, <1>0, <1>4, <1>7 DEF Rooted
<1>14. ASSUME NEW o \in Alive(s) PROVE Below(c, o) = Below(s, o)
  <2>1. o \in Obj /\ ~IsDead(s, o) BY DEF Alive
  <2>2. CASE o \in On
    <3>1. Slots(Tt[o]) = {1} /\ Tt[o] = "upval" BY <2>2, <1>2 DEF Slots
    <3>2. c.ref[o] = [i \in {1} |-> UpvalValue(s, o)] /\ c.meta[o] = Nil
      BY <2>1, <2>2, <1>1
    <3>3. c.ref[o][1] = UpvalValue(s, o) BY <3>2
    <3>4. ~IsOpen(c, o) BY <2>1, <2>2, <1>8
    <3>5. UpvalValue(c, o) = UpvalValue(s, o) BY <3>3, <3>4 DEF UpvalValue
    <3>6. ~EmptyNode(c, o) /\ ~EmptyNode(s, o) BY <3>1 DEF EmptyNode
    <3>7. Below(c, o) = {UpvalValue(s, o)} \ {Nil}
      BY <3>1, <3>2, <3>3, <3>5, <3>6 DEF Below
    <3>8. Below(s, o) = {UpvalValue(s, o)} \ {Nil}
      BY <3>1, <3>6, <2>2, <1>2 DEF Below
    <3> QED BY <3>7, <3>8
  <2>3. CASE o \notin On
    <3>1. /\ c.ref[o] = s.ref[o] /\ c.meta[o] = s.meta[o] /\ c.open[o] = s.open[o]
      BY <2>1, <2>3, <1>1
    <3>2. IsOpen(c, o) = IsOpen(s, o) /\ EmptyNode(c, o) = EmptyNode(s, o)
      BY <3>1 DEF IsOpen, EmptyNode
    <3>3. UpvalValue(c, o) = UpvalValue(s, o)
      <4>1. CASE IsOpen(s, o)
        <5>1. s.open[o] \in Objs("thread") \X {2, 3} BY <4>1, <2>1, <1>0 DEF Opened
        <5>2. s.open[o][1] \in Obj /\ Tt[s.open[o][1]] = "thread" BY <5>1 DEF Objs
        <5>3. s.open[o][1] \notin On BY <5>2, <1>2
        <5> QED BY <4>1, <5>2, <5>3, <3>1, <3>2, <1>1 DEF UpvalValue
      <4>2. CASE ~IsOpen(s, o) BY <4>2, <3>1, <3>2 DEF UpvalValue
      <4> QED BY <4>1, <4>2
    <3> QED BY <3>1, <3>2, <3>3 DEF Below
  <2> QED BY <2>2, <2>3
<1>15. Closed(c) BY <1>0, <1>7, <1>14 DEF Closed
<1>16. HeapInv(c) BY <1>1, <1>10, <1>11, <1>12, <1>13, <1>15 DEF HeapInv
<1>17. SameButObjects(s, c) BY <1>1
<1> QED BY <1>7, <1>8, <1>9, <1>14, <1>16, <1>17 DEF c, On

LEMMA CloseKeeps ==
  ASSUME NEW s, Sound(s), s.state \notin Atomic, NEW th \in Obj, Tt[th] = "thread"
  PROVE  /\ Sound(CloseUpvals(s, th))
         /\ CloseUpvals(s, th).state = s.state /\ CloseUpvals(s, th).tmu = s.tmu
<1>0. /\ s \in GState /\ Shaped(s) /\ Opened(s) /\ Painted(s) /\ Rooted(s) /\ Closed(s)
      /\ HeapInv(s) /\ SweepInv(s) /\ MarkInv(s, {}, {})
  BY DEF Sound, GcInv, HeapInv
<1> DEFINE c == ClosedOf(s, th)
           On == OpenOn(s, th)
           G == GrayOn(s, th)
           W == {UpvalValue(s, u) : u \in G}
<1>1. /\ c \in GState
      /\ SameButObjects(s, c)
      /\ \A o \in Obj :
              /\ o \notin On =>
                   /\ c.mark[o] = s.mark[o] /\ c.ref[o] = s.ref[o]
                   /\ c.meta[o] = s.meta[o] /\ c.open[o] = s.open[o]
              /\ o \in On /\ IsDead(s, o) =>
                   /\ c.mark[o] = "free" /\ c.ref[o] = Blank(o)
                   /\ c.meta[o] = Nil /\ c.open[o] = <<>>
              /\ o \in On /\ ~IsDead(s, o) =>
                   /\ c.mark[o] = IF s.mark[o] = "gray" THEN Linked(s) ELSE s.mark[o]
                   /\ c.ref[o] = [i \in {1} |-> UpvalValue(s, o)]
                   /\ c.meta[o] = Nil /\ c.open[o] = <<>>
  BY <1>0, ClosedOfIs DEF ClosedObjs
<1>2. \A u \in On : /\ u \in Obj /\ Tt[u] = "upval" /\ s.mark[u] \notin {"free", "black"}
                    /\ s.ref[u][1] = Nil /\ u \notin s.sweep /\ UpvalValue(s, u) \in Values
                    /\ s.meta[u] = Nil /\ IsOpen(s, u)
  BY <1>0, OpenOnIs
<1>3. /\ HeapInv(c) /\ Alive(c) = Alive(s)
      /\ \A o \in Alive(s) : Below(c, o) = Below(s, o)
      /\ \A o \in Obj : /\ s.state = "propagate" => (IsWhite(c, o) => IsWhite(s, o))
                        /\ IsOpen(c, o) <=> IsOpen(s, o) /\ o \notin On
  BY <1>0, ClosedHeap
<1>4. G = {u \in On : ~IsDead(s, u) /\ s.mark[u] = "gray"} BY DEF GrayOn, Mark
<1>5. CloseUpvals(s, th) = IF s.state = "propagate" THEN MarkAll(c, W) ELSE c
  BY CloseUpvalsIs
<1> HIDE DEF c, On, G
<1>6. /\ c.state = s.state /\ c.white = s.white /\ c.tmu = s.tmu /\ c.str = s.str
      /\ c.sweep = s.sweep /\ c.run = s.run /\ c.size = s.size
      /\ c.gray = s.gray /\ c.again = s.again /\ c.weak = s.weak
  BY <1>1 DEF SameButObjects
<1>7. s.white \in Whites /\ OtherWhite(s) \in Whites /\ OtherWhite(s) # s.white
      /\ OtherWhite(c) = OtherWhite(s)
      /\ \A w \in Whites : w = s.white \/ w = OtherWhite(s)
  BY <1>0, <1>6, GStateIs DEF Whites, OtherWhite
<1>8. CASE s.state # "propagate"
  <2>1. Linked(s) = s.white BY <1>8 DEF Linked
  <2>2. SweepInv(c)
    <3> SUFFICES ASSUME NEW o \in Obj, c.mark[o] \notin {"free", c.white}, s.state \notin Marking
                 PROVE  o \in ToSweep(c)
      BY <1>6 DEF SweepInv
    <3>1. o \notin On
      <4> SUFFICES ASSUME o \in On PROVE FALSE
        OBVIOUS
      <4>1. ~IsDead(s, o) BY <1>1
      <4>2. s.mark[o] \notin {"gray", "free", "black", s.white}
        BY <4>1, <2>1, <1>1, <1>2, <1>6
      <4>3. s.mark[o] \in Colors BY <1>0, GStateIs
      <4> QED BY <4>1, <4>2, <4>3, <1>7 DEF Colors, IsDead, Mark
    <3>2. s.mark[o] \notin {"free", s.white} /\ c.open[o] = s.open[o] BY <3>1, <1>1, <1>6
    <3>3. o \in ToSweep(s) BY <3>2, <1>0 DEF SweepInv
    <3> QED BY <3>2, <3>3, <1>6 DEF ToSweep, IsOpen
  <2>3. MarkInv(c, {}, {}) BY <1>8, <1>6 DEF MarkInv, Marking
  <2> QED BY <1>3, <1>5, <1>6, <1>8, <2>2, <2>3 DEF Sound, GcInv
<1>9. CASE s.state = "propagate"
  <2>1. Linked(s) = "black" /\ c.state \in Marking /\ c.state \notin Atomic
    BY <1>6, <1>9 DEF Linked, Marking, Atomic
  <2>2. ListInv(s) /\ BlackInv(s, {}, {}) /\ WhiteOf(s, {MainThread}) = {}
    BY <1>0, <1>6, <2>1 DEF MarkInv
  <2>3. \A T \in SUBSET OrNil(Obj) : WhiteOf(c, T) \subseteq WhiteOf(s, T)
    BY <1>3, <1>9 DEF WhiteOf, OrNil
  <2>4. ListInv(c)
    <3>1. \A o \in Obj : Tt[o] \in Chained => c.mark[o] = s.mark[o]
      BY <1>1, <1>2 DEF Chained
    <3>2. \A o \in Obj : c.mark[o] # OtherWhite(c)
      BY <2>1, <2>2, <1>1, <1>7 DEF ListInv, Whites
    <3>3. c.gray \cup c.again \cup c.weak = {o \in Obj : Tt[o] \in Chained /\ c.mark[o] = "gray"}
      BY <3>1, <2>2, <1>6 DEF ListInv
    <3> QED BY <3>2, <3>3, <2>2, <1>6 DEF ListInv
  <2>5. BlackInv(c, G, W)
    <3> SUFFICES ASSUME NEW o \in Obj, c.mark[o] = "black", ~(o \in c.tmu /\ c.state \in Early),
                        NEW v \in WhiteOf(c, Below(c, o))
                 PROVE  v \in Excused(o, G, W)
      BY DEF BlackInv
    <3>1. o \in Alive(s) BY <1>3, <1>7 DEF Alive, IsDead, Mark, Whites
    <3>2. Below(c, o) = Below(s, o) /\ s.mark[o] # "free" BY <3>1, <1>3 DEF Alive
    <3>3. Below(s, o) \in SUBSET OrNil(Obj) BY <3>2, <1>0, BelowInObj DEF OrNil
    <3>4. v \in WhiteOf(s, Below(s, o)) BY <3>2, <3>3, <2>3
    <3>5. CASE s.mark[o] = "black"
      BY <3>4, <3>5, <2>2, <1>6 DEF BlackInv, Excused
    <3>6. CASE s.mark[o] # "black"
      <4>1. o \in On /\ ~IsDead(s, o) /\ s.mark[o] = "gray" BY <3>6, <1>1
      <4>2. o \in G BY <4>1, <1>4
      <4>3. Slots("upval") = {1} BY DEF Slots
      <4>4. v \in Below(s, o) /\ v # Nil BY <3>4 DEF WhiteOf
      <4>5. v = UpvalValue(s, o) BY <4>1, <4>3, <4>4, <1>0, <1>2, BelowIs
      <4> QED BY <4>2, <4>5 DEF Excused
    <3> QED BY <3>5, <3>6
  <2>6. WhiteOf(c, {MainThread}) \subseteq W
    <3>1. {MainThread} \in SUBSET OrNil(Obj) BY MainIs DEF OrNil
    <3> QED BY <3>1, <2>2, <2>3
  <2>7. MarkInv(c, G, W) BY <2>1, <2>4, <2>5, <2>6 DEF MarkInv
  <2>8. W \in SUBSET OrNil(Obj) BY <1>2, <1>4 DEF Values, OrNil
  <2> HIDE DEF W
  <2>9. GcInv(MarkAll(c, W), G, W \ W) /\ SameRest(c, MarkAll(c, W))
    BY <2>1, <2>7, <2>8, <1>3, MarkAllKeeps
  <2>10. W \ W = {} OBVIOUS
  <2>11. Sound(MarkAll(c, W)) BY <2>9, <2>10, NothingExcused
  <2> QED BY <2>9, <2>11, <1>5, <1>6, <1>9 DEF SameRest
<1> QED BY <1>8, <1>9
LEMMA SweptLast ==
  ASSUME NEW z, HeapInv(z), z.state = "sweep", NEW o \in z.sweep,
         IsDead(z, o) => OpenOn(z, o) = {}
  PROVE  LET y == [SweepAll(z, {o}) EXCEPT
                     !.sweep = z.sweep \ {o},
                     !.state = IF z.sweep = {o} THEN "finalize" ELSE "sweep"]
         IN  /\ HeapInv(y) /\ Swept(z, {o}, y)
             /\ y.white = z.white /\ y.tmu = z.tmu /\ y.sweep = z.sweep \ {o}
             /\ y.state = IF z.sweep = {o} THEN "finalize" ELSE "sweep"
<1>0. z \in GState /\ Shaped(z) /\ Rooted(z) BY DEF HeapInv
<1> DEFINE w == SweepAll(z, {o})
           q == IF z.sweep = {o} THEN "finalize" ELSE "sweep"
           y == [w EXCEPT !.sweep = z.sweep \ {o}, !.state = q]
<1>1. w \in GState /\ SameButObjects(z, w) /\ Swept(z, {o}, w) BY <1>0, SweepAllIs
<1> HIDE DEF w
<1>2. z.sweep \ {o} \subseteq Obj /\ o \in Obj BY <1>0, GStateIs
<1>3. /\ y \in GState /\ y.mark = w.mark /\ y.ref = w.ref /\ y.meta = w.meta
      /\ y.open = w.open /\ y.white = w.white /\ y.tmu = w.tmu /\ y.run = w.run
      /\ y.sweep = z.sweep \ {o} /\ y.state = q
  BY <1>1, <1>2 DEF GState, States
<1> HIDE DEF y
<1>4. Swept(z, {o}, y) BY <1>1, <1>3 DEF Swept
<1>5. y.white = z.white /\ y.tmu = z.tmu /\ y.run = z.run BY <1>1, <1>3 DEF SameButObjects
<1>6. /\ y.sweep # {} <=> y.state \in {"sweepstring", "sweep"}
      /\ y.state # "pause"
  BY <1>3
<1>7. z.mark[o] # "free" BY <1>0 DEF Rooted
<1>8. HeapInv(y) BY <1>2, <1>3, <1>4, <1>5, <1>6, <1>7, SweptKeeps
<1> QED BY <1>3, <1>4, <1>5, <1>8 DEF y, w

LEMMA SweepStepKeeps ==
  ASSUME NEW s, Sound(s), s.state = "sweep"
  PROVE  Sound(SweepStep(s)) /\ SweepStep(s).state \in {"sweep", "finalize"}
<1>0. /\ s \in GState /\ HeapInv(s) /\ SweepInv(s) /\ Shaped(s) /\ Opened(s) /\ Rooted(s)
  BY DEF Sound, GcInv, HeapInv
<1> DEFINE o == CHOOSE x \in s.sweep : TRUE
           On == OpenOn(s, o)
           a == IF Tt[o] = "thread" THEN SweepAll(s, On) ELSE s
           z == IF Tt[o] = "thread" /\ IsDead(a, o) THEN CloseUpvals(a, o) ELSE a
           y == [SweepAll(z, {o}) EXCEPT
                   !.sweep = z.sweep \ {o},
                   !.state = IF z.sweep = {o} THEN "finalize" ELSE "sweep"]
<1>1. o \in s.sweep BY <1>0 DEF Rooted
<1>2. SweepStep(s) = [SweepAll(z, {o}) EXCEPT
                        !.sweep = s.sweep \ {o},
                        !.state = IF s.sweep = {o} THEN "finalize" ELSE "sweep"]
  BY DEF SweepStep, SweepObj
<1> HIDE DEF o
<1>3. o \in Obj /\ s.mark[o] # "free" BY <1>0, <1>1, GStateIs DEF Rooted
<1>4. /\ \A u : u \in On <=> u \in Obj /\ IsOpen(s, u) /\ s.open[u][1] = o
      /\ \A u \in On : Tt[u] = "upval" /\ u \in Obj /\ s.mark[u] # "free" /\ u \notin s.sweep
  BY <1>0, <1>3, OpenOnIs
<1>5. Tt[o] # "thread" => On = {}
  <2> SUFFICES ASSUME NEW u \in On PROVE Tt[o] = "thread"
    OBVIOUS
  <2>1. s.open[u] \in Objs("thread") \X {2, 3} BY <1>0, <1>4 DEF Opened
  <2> QED BY <2>1, <1>4 DEF Objs
<1>6. s.white \in Whites /\ OtherWhite(s) \in Whites /\ OtherWhite(s) # s.white
  BY <1>0, GStateIs DEF Whites, OtherWhite
\* The open upvalues of the thread are swept.
<1>7. /\ HeapInv(a) /\ Swept(s, On, a)
      /\ a.white = s.white /\ a.tmu = s.tmu /\ a.sweep = s.sweep /\ a.state = "sweep"
  <2>1. CASE Tt[o] = "thread"
    <3>1. a \in GState /\ SameButObjects(s, a) /\ Swept(s, On, a) BY <2>1, <1>0, SweepAllIs
    <3> HIDE DEF a
    <3>2. /\ a.white = s.white /\ a.tmu = s.tmu /\ a.run = s.run /\ a.sweep = s.sweep
          /\ a.state = "sweep"
      BY <3>1 DEF SameButObjects
    <3>3. ASSUME NEW u \in On PROVE OpenOn(s, u) = {}
      <4> SUFFICES ASSUME NEW w \in OpenOn(s, u) PROVE FALSE
        OBVIOUS
      <4>1. w \in Obj /\ IsOpen(s, w) /\ s.open[w][1] = u BY <1>0, <1>4, OpenOnIs
      <4>2. s.open[w] \in Objs("thread") \X {2, 3} BY <4>1, <1>0 DEF Opened
      <4> QED BY <4>1, <4>2, <1>4 DEF Objs
    <3>4. a.sweep # {} BY <3>2, <1>1
    <3>5. \A p \in a.sweep : p \notin On BY <3>2, <1>4
    <3> HIDE DEF On
    <3>6. HeapInv(a) BY <3>1, <3>2, <3>3, <3>4, <3>5, <1>0, <1>4, SweptKeeps
    <3> QED BY <3>1, <3>2, <3>6
  <2>2. CASE Tt[o] # "thread" BY <2>2, <1>0, <1>5 DEF Swept
  <2> QED BY <2>1, <2>2
<1> HIDE DEF a
<1>8. \A p \in Obj : /\ p \notin On => a.mark[p] = s.mark[p] /\ a.open[p] = s.open[p]
                     /\ p \in On => a.mark[p] \in {"free", s.white}
                     /\ p \in On => a.open[p] \in {s.open[p], <<>>}
  BY <1>7 DEF Swept
<1>9. \A p \in Obj : p \in OpenOn(a, o) => p \in On
  <2>1. \A p : p \in OpenOn(a, o) => p \in Obj /\ IsOpen(a, p) /\ a.open[p][1] = o
    BY <1>3, <1>7, OpenOnIs
  <2> QED BY <2>1, <1>4, <1>8 DEF IsOpen
\* If it is dead they are closed.
<1>10. /\ HeapInv(z) /\ z.white = s.white /\ z.tmu = s.tmu /\ z.sweep = s.sweep
       /\ z.state = "sweep"
       /\ IsDead(z, o) => OpenOn(z, o) = {}
       /\ \A p \in Obj : /\ p \notin On => z.mark[p] = s.mark[p] /\ z.open[p] = s.open[p]
                         /\ p \in On => z.mark[p] \in {"free", s.white}
  <2>1. CASE Tt[o] = "thread" /\ IsDead(a, o)
    <3>1. z = ClosedOf(a, o) BY <2>1, <1>7, CloseUpvalsIs
    <3> HIDE DEF z, On
    <3>2. /\ HeapInv(z) /\ SameButObjects(a, z)
          /\ \A p \in Obj : IsOpen(z, p) <=> IsOpen(a, p) /\ p \notin OpenOn(a, o)
      BY <3>1, <2>1, <1>3, <1>7, ClosedHeap
    <3>3. ClosedObjs(a, o, z)
      <4>1. HeapInv(a) /\ o \in Obj BY <1>3, <1>7
      <4> QED BY ONLY <3>1, <4>1, ClosedOfIs
    <3>4. z.white = s.white /\ z.tmu = s.tmu /\ z.sweep = s.sweep /\ z.state = "sweep"
      BY <3>2, <1>7 DEF SameButObjects
    <3>5. OpenOn(z, o) = {}
      <4> SUFFICES ASSUME NEW u \in OpenOn(z, o) PROVE FALSE
        OBVIOUS
      <4>1. u \in Obj /\ IsOpen(z, u) /\ z.open[u][1] = o BY <3>2, <1>3, OpenOnIs
      <4>2. u \notin OpenOn(a, o) /\ IsOpen(a, u) BY <4>1, <3>2
      <4>3. a.open[u][1] = o BY <4>1, <4>2, <3>3 DEF ClosedObjs
      <4> QED BY <4>1, <4>2, <4>3, <1>3, <1>7, OpenOnIs
    <3>6. ASSUME NEW p \in Obj
          PROVE  /\ p \notin On => z.mark[p] = s.mark[p] /\ z.open[p] = s.open[p]
                 /\ p \in On => z.mark[p] \in {"free", s.white}
      <4>1. p \notin On => z.mark[p] = s.mark[p] /\ z.open[p] = s.open[p]
        BY <3>3, <1>8, <1>9 DEF ClosedObjs
      <4>2. ASSUME p \in On PROVE z.mark[p] \in {"free", s.white}
        <5>1. a.mark[p] \in {"free", s.white} /\ a.mark[p] # "gray" BY <4>2, <1>6, <1>8 DEF Whites
        <5> QED BY <5>1, <3>3 DEF ClosedObjs
      <4> QED BY <4>1, <4>2
    <3> QED BY <3>2, <3>4, <3>5, <3>6
  <2>2. CASE ~(Tt[o] = "thread" /\ IsDead(a, o))
    <3>1. z = a BY <2>2
    <3>2. IsDead(z, o) => OpenOn(z, o) = {}
      <4> SUFFICES ASSUME Tt[o] # "thread", NEW u \in OpenOn(a, o) PROVE FALSE
        BY <2>2, <3>1
      <4>1. u \in Obj /\ IsOpen(a, u) BY <1>3, <1>7, OpenOnIs
      <4> QED BY <4>1, <1>5, <1>9
    <3> HIDE DEF z, On
    <3> QED BY <3>1, <3>2, <1>7, <1>8
  <2> QED BY <2>1, <2>2
<1> HIDE DEF z
<1>11. /\ HeapInv(y) /\ Swept(z, {o}, y)
       /\ y.white = z.white /\ y.tmu = z.tmu /\ y.sweep = z.sweep \ {o}
       /\ y.state = IF z.sweep = {o} THEN "finalize" ELSE "sweep"
  <2>1. /\ HeapInv(z) /\ z.state = "sweep" /\ o \in z.sweep
        /\ IsDead(z, o) => OpenOn(z, o) = {}
    BY <1>1, <1>10
  <2> HIDE DEF On
  <2> QED BY ONLY <2>1, SweptLast DEF y
<1>12. SweepStep(s) = y BY <1>2, <1>10
<1> HIDE DEF y, On
<1>13. SweepInv(y)
  <2> SUFFICES ASSUME NEW p \in Obj, y.mark[p] \notin {"free", s.white} PROVE p \in ToSweep(y)
    BY <1>10, <1>11 DEF SweepInv
  <2>1. p # o /\ z.mark[p] = y.mark[p] /\ y.open[p] = z.open[p]
    BY <1>3, <1>10, <1>11 DEF Swept
  <2>2. p \notin On BY <2>1, <1>10
  <2>3. s.mark[p] \notin {"free", s.white} /\ y.open[p] = s.open[p] BY <2>1, <2>2, <1>10
  <2>4. p \in ToSweep(s) BY <2>3, <1>0 DEF SweepInv, Marking, Atomic
  <2>5. CASE p \in s.tmu BY <2>5, <1>10, <1>11 DEF ToSweep
  <2>6. CASE p \in s.sweep
    <3>1. p \in y.sweep /\ y.state = "sweep" BY <2>1, <2>6, <1>10, <1>11
    <3> QED BY <3>1 DEF ToSweep
  <2>7. CASE IsOpen(s, p) /\ s.open[p][1] \in s.sweep
    <3>1. s.open[p][1] # o BY <2>2, <2>7, <1>4 DEF On
    <3>2. s.open[p][1] \in y.sweep /\ y.state = "sweep" BY <3>1, <2>7, <1>10, <1>11
    <3>3. IsOpen(y, p) BY <2>3, <2>7 DEF IsOpen
    <3> QED BY <3>2, <3>3, <2>3 DEF ToSweep
  <2> QED BY <2>4, <2>5, <2>6, <2>7, <1>0 DEF ToSweep, Closing
<1>14. MarkInv(y, {}, {}) BY <1>11 DEF MarkInv, Marking, Atomic
<1> QED BY <1>11, <1>12, <1>13, <1>14 DEF Sound, GcInv

-----------------------------------------------------------------------------
(* Finalizing.                                                             *)

LEMMA FirstTmuIs ==
  ASSUME NEW s, HeapInv(s), s.tmu # {}
  PROVE  /\ FirstTmu(s) \in s.tmu /\ FirstTmu(s) \in Obj /\ Tt[FirstTmu(s)] = "udata"
         /\ FirstTmu(s) \in Alive(s)
<1>1. FirstTmu(s) \in s.tmu BY DEF FirstTmu
<1>2. s \in GState /\ Rooted(s) BY DEF HeapInv
<1> QED BY <1>1, <1>2, GStateIs DEF Rooted

LEMMA GCTMIs ==
  ASSUME NEW s, HeapInv(s), s.tmu # {}
  PROVE  LET x == GCTM(s, FALSE)
             u == FirstTmu(s)
         IN  /\ x \in GState /\ SameHeap(s, x)
             /\ x.mark = [s.mark EXCEPT ![u] = s.white] /\ x.tmu = s.tmu \ {u}
             /\ x.white = s.white /\ x.state = s.state /\ x.run = s.run /\ x.sweep = s.sweep
<1>0. s \in GState BY DEF HeapInv
<1> DEFINE u == FirstTmu(s)
           m == [s.mark EXCEPT ![u] = s.white]
           k == [s.calls EXCEPT ![u] = IF CallsTm(s) THEN @ + 1 ELSE @]
           x == [s EXCEPT !.mark = m, !.tmu = s.tmu \ {u}, !.calls = k]
<1>1. u \in Objs("udata") BY FirstTmuIs DEF Objs
<1>2. m \in [Obj -> Colors] /\ k \in [Objs("udata") -> Nat]
  <2>1. s.mark \in [Obj -> Colors] /\ s.white \in Colors BY <1>0, GStateIs DEF Colors
  <2>2. s.calls \in [Objs("udata") -> Nat] BY <1>0, GStateIs
  <2> HIDE DEF u
  <2>3. m \in [Obj -> Colors] BY <2>1
  <2>4. k \in [Objs("udata") -> Nat] BY <2>2, <1>1
  <2> QED BY <2>3, <2>4
<1>3. GCTM(s, FALSE) = x
  <2>1. s.mark \in [Obj -> Colors] /\ s.calls \in [Objs("udata") -> Nat] BY <1>0, GStateIs
  <2> HIDE DEF u
  <2>2. GCTM(s, FALSE) = [[s EXCEPT !.mark[u] = s.white] EXCEPT
                            !.tmu = @ \ {u}, !.calls[u] = IF CallsTm(s) THEN @ + 1 ELSE @]
    BY DEF GCTM, Paint, u
  <2> QED BY <2>2, <1>0 DEF GState
<1> HIDE DEF m, k
<1>4. /\ x \in GState /\ SameHeap(s, x) /\ x.mark = m /\ x.tmu = s.tmu \ {u}
      /\ x.white = s.white /\ x.state = s.state /\ x.run = s.run /\ x.sweep = s.sweep
  BY <1>0, <1>2 DEF GState, SameHeap
<1> HIDE DEF x
<1> QED BY <1>3, <1>4 DEF m

LEMMA GCTMKeeps ==
  ASSUME NEW s, Sound(s), s.state \in {"finalize"} \cup Closing, s.tmu # {}
  PROVE  Sound(GCTM(s, FALSE)) /\ GCTM(s, FALSE).state = s.state
         /\ FirstTmu(s) \in Alive(GCTM(s, FALSE))
         /\ Alive(GCTM(s, FALSE)) = Alive(s)
<1>0. /\ s \in GState /\ HeapInv(s) /\ SweepInv(s)
      /\ Shaped(s) /\ Opened(s) /\ Painted(s) /\ Rooted(s) /\ Closed(s)
  BY DEF Sound, GcInv, HeapInv
<1> DEFINE x == GCTM(s, FALSE)
           u == FirstTmu(s)
<1>1. /\ x \in GState /\ SameHeap(s, x)
      /\ x.mark = [s.mark EXCEPT ![u] = s.white] /\ x.tmu = s.tmu \ {u}
      /\ x.white = s.white /\ x.state = s.state /\ x.run = s.run /\ x.sweep = s.sweep
  BY <1>0, GCTMIs
<1>2. u \in s.tmu /\ u \in Obj /\ Tt[u] = "udata" /\ u \in Alive(s) BY <1>0, FirstTmuIs
<1> HIDE DEF x, u
<1>3. \A o \in Obj : x.mark[o] = IF o = u THEN s.white ELSE s.mark[o]
  BY <1>0, <1>1, <1>2, GStateIs
<1>4. s.white \in Whites /\ OtherWhite(s) # s.white /\ OtherWhite(x) = OtherWhite(s)
  BY <1>0, <1>1, GStateIs DEF Whites, OtherWhite
<1>5. \A o \in Obj : o \in Alive(x) <=> o \in Alive(s)
  BY <1>2, <1>3, <1>4 DEF Alive, IsDead, Mark, Whites
<1>6. Alive(x) = Alive(s) BY <1>5 DEF Alive
<1>7. x.ref = s.ref /\ x.meta = s.meta /\ x.open = s.open BY <1>1 DEF SameHeap
<1>8. \A o : Below(x, o) = Below(s, o) /\ IsOpen(x, o) = IsOpen(s, o) BY <1>1, HeapReads
<1>9. \A o \in Obj : x.mark[o] = "free" <=> s.mark[o] = "free"
  BY <1>2, <1>3, <1>4 DEF Alive, Whites
<1>10. Shaped(x) BY <1>0, <1>7, <1>9 DEF Shaped
<1>11. Opened(x)
  <2> SUFFICES ASSUME NEW v \in Obj, IsOpen(x, v)
               PROVE  /\ Tt[v] = "upval" /\ x.mark[v] \notin {"free", "black"}
                      /\ x.ref[v][1] = Nil
                      /\ x.open[v] \in Objs("thread") \X {2, 3}
                      /\ x.mark[x.open[v][1]] # "free"
                      /\ v \notin x.sweep
    BY DEF Opened
  <2>1. /\ Tt[v] = "upval" /\ s.mark[v] \notin {"free", "black"} /\ s.ref[v][1] = Nil
        /\ s.open[v] \in Objs("thread") \X {2, 3} /\ s.mark[s.open[v][1]] # "free"
        /\ v \notin s.sweep
    BY <1>0, <1>8 DEF Opened
  <2>2. s.open[v][1] \in Obj BY <2>1 DEF Objs
  <2>3. v # u BY <2>1, <1>2
  <2> QED BY <2>1, <2>2, <2>3, <1>1, <1>3, <1>7, <1>9
<1>12. Painted(x) BY <1>0, <1>3, <1>4, <1>8 DEF Painted, Whites
<1>13. Rooted(x) BY <1>0, <1>1, <1>6, <1>9, GStateIs DEF Rooted
<1>14. Closed(x) BY <1>0, <1>6, <1>8 DEF Closed
<1>15. SweepInv(x)
  <2>1. \A o \in Obj : x.mark[o] \notin {"free", x.white} =>
           o # u /\ s.mark[o] \notin {"free", s.white}
    BY <1>1, <1>3
  <2>2. s.state \notin Marking BY DEF Marking, Atomic, Closing
  <2> QED BY <2>1, <2>2, <1>0, <1>1 DEF SweepInv, ToSweep, Closing
<1>16. MarkInv(x, {}, {}) BY <1>1 DEF MarkInv, Marking, Atomic, Closing
<1> QED BY <1>1, <1>2, <1>6, <1>10, <1>11, <1>12, <1>13, <1>14, <1>15, <1>16
        DEF x, u, Sound, GcInv, HeapInv

LEMMA PauseKeeps ==
  ASSUME NEW s, Sound(s), s.state = "finalize", s.tmu = {}
  PROVE  Sound([s EXCEPT !.state = "pause"])
<1>0. /\ s \in GState /\ HeapInv(s) /\ SweepInv(s)
      /\ Shaped(s) /\ Opened(s) /\ Painted(s) /\ Rooted(s) /\ Closed(s)
  BY DEF Sound, GcInv, HeapInv
<1> DEFINE x == [s EXCEPT !.state = "pause"]
<1>1. /\ x \in GState /\ SameObjects(s, x) /\ x.state = "pause"
  BY <1>0 DEF GState, SameObjects, SameHeap, States
<1> HIDE DEF x
<1>2. /\ SameHeap(s, x) /\ x.mark = s.mark /\ x.white = s.white /\ x.tmu = s.tmu
      /\ x.sweep = s.sweep /\ x.run = s.run /\ x.ref = s.ref /\ x.meta = s.meta
      /\ x.open = s.open
  BY <1>1 DEF SameObjects, SameHeap
<1>3. \A o : Below(x, o) = Below(s, o) /\ IsOpen(x, o) = IsOpen(s, o) BY <1>2, HeapReads
<1>4. \A o : IsDead(x, o) = IsDead(s, o) BY <1>2 DEF IsDead, Mark, OtherWhite
<1>5. Alive(x) = Alive(s) BY <1>2, <1>4 DEF Alive
<1>6. Shaped(x) BY <1>0, <1>2 DEF Shaped
<1>7. Opened(x) BY <1>0, <1>2, <1>3 DEF Opened
<1>8. Painted(x) BY <1>0, <1>2, <1>3 DEF Painted
<1>9. Rooted(x) BY <1>0, <1>1, <1>2, <1>5 DEF Rooted
<1>10. Closed(x) BY <1>0, <1>3, <1>5 DEF Closed
<1>11. SweepInv(x) BY <1>0, <1>1, <1>2 DEF SweepInv, ToSweep, Marking, Atomic, Closing
<1>12. MarkInv(x, {}, {}) BY <1>1 DEF MarkInv, Marking, Atomic
<1> QED BY <1>1, <1>6, <1>7, <1>8, <1>9, <1>10, <1>11, <1>12 DEF x, Sound, GcInv, HeapInv
-----------------------------------------------------------------------------
(* What a bounded iteration preserves.  The library's induction theorems   *)
(* quantify over operators; over sets the same argument goes through from  *)
(* the well-foundedness of < alone.                                        *)

LEMMA LeastNat ==
  ASSUME NEW T, T \subseteq Nat, T # {}
  PROVE  \E n \in T : \A m \in T : ~(m < n)
<1>1. PICK n \in T : \A m \in T : <<m, n>> \notin OpToRel(<, Nat)
  BY NatLessThanWellFounded, WFMin, Zenon
<1>2. \A m \in T : m < n => <<m, n>> \in OpToRel(<, Nat)
  BY Zenon DEF OpToRel
<1> QED BY <1>1, <1>2

\* What holds at 0 and after every step holds always, for a set of numbers.
LEMMA NatsAll ==
  ASSUME NEW T, 0 \in T, \A n \in Nat : n \in T => n + 1 \in T
  PROVE  Nat \subseteq T
<1> SUFFICES ASSUME Nat \ T # {} PROVE FALSE
  OBVIOUS
<1>1. PICK n \in Nat \ T : \A m \in Nat \ T : ~(m < n)
  <2> DEFINE U == Nat \ T
  <2>1. U \subseteq Nat /\ U # {} OBVIOUS
  <2> HIDE DEF U
  <2>2. \E n \in U : \A m \in U : ~(m < n) BY <2>1, LeastNat
  <2> QED BY <2>2 DEF U
<1>2. n # 0 BY <1>1
<1>3. n - 1 \in Nat /\ n - 1 < n /\ (n - 1) + 1 = n BY <1>1, <1>2
<1> QED BY <1>1, <1>3

\* h is an iteration of step up to n, and f one without end.
Iterates(h, s, step, n) ==
  /\ h[0] = s
  /\ \A i \in 0..(n - 1) : h[i + 1] = step[h[i]]
IsIteration(f, s, step, U) ==
  /\ f \in [Nat -> U]
  /\ f[0] = s
  /\ \A n \in Nat : f[n + 1] = step[f[n]]
LEMMA IterationExists ==
  ASSUME NEW U, NEW step \in [U -> U], NEW s \in U
  PROVE  \E f : IsIteration(f, s, step, U)
<1> DEFINE T == {n \in Nat : \E h \in [0..n -> U] : Iterates(h, s, step, n)}
<1>1. 0 \in T
  <2> DEFINE h == [i \in 0..0 |-> s]
  <2>1. h \in [0..0 -> U] /\ Iterates(h, s, step, 0) BY DEF Iterates
  <2> QED BY <2>1
<1>2. ASSUME NEW n \in Nat, n \in T PROVE n + 1 \in T
  <2>1. PICK h \in [0..n -> U] : Iterates(h, s, step, n) BY <1>2
  <2> DEFINE k == [i \in 0..(n + 1) |-> IF i = n + 1 THEN step[h[n]] ELSE h[i]]
  <2>2. k \in [0..(n + 1) -> U]
    <3>1. \A i \in 0..(n + 1) : i # n + 1 => i \in 0..n OBVIOUS
    <3>2. step[h[n]] \in U OBVIOUS
    <3> QED BY <3>1, <3>2
  <2>3. k[0] = s BY <2>1 DEF Iterates
  <2>4. ASSUME NEW i \in 0..n PROVE k[i + 1] = step[k[i]]
    <3>1. CASE i = n
      <4>1. k[n + 1] = step[h[n]] /\ k[n] = h[n] OBVIOUS
      <4> QED BY <3>1, <4>1
    <3>2. CASE i # n
      <4>1. i \in 0..(n - 1) /\ i + 1 \in 0..n BY <3>2
      <4>2. k[i + 1] = h[i + 1] /\ k[i] = h[i] BY <4>1
      <4> QED BY <2>1, <4>1, <4>2 DEF Iterates
    <3> QED BY <3>1, <3>2
  <2>5. (n + 1) - 1 = n OBVIOUS
  <2> HIDE DEF k
  <2>6. Iterates(k, s, step, n + 1) BY <2>3, <2>4, <2>5 DEF Iterates
  <2> QED BY <2>2, <2>6
<1>3. \A n \in Nat : n \in T
  <2> HIDE DEF T
  <2> QED BY <1>1, <1>2, NatsAll
<1> DEFINE of(n) == CHOOSE h \in [0..n -> U] : Iterates(h, s, step, n)
           f == [n \in Nat |-> of(n)[n]]
<1>4. \A n \in Nat : of(n) \in [0..n -> U] /\ Iterates(of(n), s, step, n)
  BY <1>3
<1>5. ASSUME NEW n \in Nat PROVE of(n + 1)[n] = of(n)[n]
  <2> DEFINE S == {i \in Nat : i \in 0..n => of(n + 1)[i] = of(n)[i]}
  <2>0. of(n)[0] = s /\ of(n + 1)[0] = s
    <3>1. Iterates(of(n), s, step, n) /\ Iterates(of(n + 1), s, step, n + 1) BY <1>4
    <3> HIDE DEF of
    <3> QED BY <3>1 DEF Iterates
  <2>1. 0 \in S BY <2>0
  <2>2. ASSUME NEW i \in Nat, i \in S PROVE i + 1 \in S
    <3> SUFFICES ASSUME i + 1 \in 0..n PROVE of(n + 1)[i + 1] = of(n)[i + 1]
      OBVIOUS
    <3>1. i \in 0..(n - 1) /\ i \in 0..n /\ i \in 0..((n + 1) - 1) OBVIOUS
    <3>2. of(n + 1)[i] = of(n)[i] BY <2>2, <3>1
    <3>3. of(n)[i + 1] = step[of(n)[i]] BY <1>4, <3>1 DEF Iterates
    <3>4. Iterates(of(n + 1), s, step, n + 1) BY <1>4
    <3>5. of(n + 1)[i + 1] = step[of(n + 1)[i]] BY <3>4, <3>1 DEF Iterates
    <3> QED BY <3>2, <3>3, <3>5
  <2>3. Nat \subseteq S
    <3> HIDE DEF S
    <3> QED BY <2>1, <2>2, NatsAll
  <2> QED
    <3>1. n \in S BY <2>3
    <3>2. n \in 0..n OBVIOUS
    <3> HIDE DEF of
    <3> QED BY <3>1, <3>2
<1>6. f \in [Nat -> U]
  <2> HIDE DEF of
  <2> QED BY <1>4
<1>7. f[0] = s
  <2>1. of(0)[0] = s BY <1>4 DEF Iterates
  <2> QED BY <2>1
<1>8. ASSUME NEW n \in Nat PROVE f[n + 1] = step[f[n]]
  <2>1. Iterates(of(n + 1), s, step, n + 1) BY <1>4
  <2>2. n \in 0..((n + 1) - 1) OBVIOUS
  <2>3. of(n + 1)[n + 1] = step[of(n + 1)[n]] BY <2>1, <2>2 DEF Iterates
  <2>4. f[n + 1] = of(n + 1)[n + 1] /\ f[n] = of(n)[n]
    <3> HIDE DEF of
    <3> QED OBVIOUS
  <2> HIDE DEF of, f
  <2> QED BY <2>3, <2>4, <1>5
<1>9. \A n \in Nat : f[n + 1] = step[f[n]] BY <1>8
<1> HIDE DEF of, f
<1>10. IsIteration(f, s, step, U) BY <1>6, <1>7, <1>9 DEF IsIteration
<1> QED BY <1>10

LEMMA StepsStay ==
  ASSUME NEW U, \A x \in U : SingleStep(x) \in U, NEW s \in U, NEW end, MaxSteps \in Nat
  PROVE  StepsTo(s, end) \in U
<1> DEFINE step == [x \in U |-> IF x.state = end THEN x ELSE SingleStep(x)]
           P(k) == k = [n \in Nat |-> IF n = 0 THEN s
                        ELSE IF k[n - 1].state = end THEN k[n - 1] ELSE SingleStep(k[n - 1])]
<1>1. step \in [U -> U] OBVIOUS
<1>2. PICK f : IsIteration(f, s, step, U)
  <2> HIDE DEF step, P
  <2>1. s \in U OBVIOUS
  <2> QED BY ONLY <1>1, <2>1, IterationExists
<1>3. P(f)
  <2>1. \A n \in Nat : n # 0 => n - 1 \in Nat /\ (n - 1) + 1 = n OBVIOUS
  <2> QED BY <2>1, <1>2 DEF IsIteration
<1> DEFINE c == CHOOSE k : P(k)
<1>4. P(c) BY <1>3
<1>5. StepsTo(s, end) = c[MaxSteps] BY DEF StepsTo
<1> DEFINE T == {n \in Nat : c[n] \in U}
<1>6. Nat \subseteq T
  <2>1. 0 \in T BY <1>4
  <2>2. ASSUME NEW n \in Nat, n \in T PROVE n + 1 \in T
    <3>1. (n + 1) - 1 = n /\ n + 1 # 0 /\ n + 1 \in Nat OBVIOUS
    <3> HIDE DEF c
    <3> QED BY <1>4, <3>1, <2>2
  <2> HIDE DEF T
  <2> QED BY <2>1, <2>2, NatsAll
<1> QED BY <1>5, <1>6
-----------------------------------------------------------------------------
(* singlestep and luaC_fullgc.                                             *)

LEMMA SingleStepKeeps ==
  ASSUME NEW s, Sound(s), s.state \notin Ending
  PROVE  /\ Sound(SingleStep(s)) /\ SingleStep(s).state \notin Ending
         /\ Calm(s) => Calm(SingleStep(s))
<1>0. s \in GState /\ Rooted(s) BY DEF Sound, GcInv, HeapInv
<1>1. s.state \in States BY <1>0, GStateIs
<1>2. CASE s.state = "pause"
  <2>1. SingleStep(s) = MarkRoot(s) BY <1>2 DEF SingleStep
  <2>2. s.tmu = {} BY <1>0, <1>2 DEF Rooted
  <2> QED BY <2>1, <2>2, <1>2, MarkRootKeeps DEF Calm, Ending
<1>3. CASE s.state \in Marking /\ s.gray # {}
  <2>1. SingleStep(s) = PropagateMark(s) BY <1>3 DEF SingleStep, Marking, Atomic
  <2>2. Sound(PropagateMark(s)) /\ SameRest(s, PropagateMark(s)) BY <1>3, PropagateKeeps
  <2> QED BY <2>1, <2>2 DEF Calm, SameRest
<1>4. CASE s.state = "propagate" /\ s.gray = {}
  <2>1. SingleStep(s) = RemarkUpvals(s) BY <1>4 DEF SingleStep, Marking
  <2> QED BY <2>1, <1>4, RemarkUpvalsKeeps DEF Calm, Early, Ending
<1>5. CASE s.state = "upvals" /\ s.gray = {}
  <2>1. SingleStep(s) = RemarkWeak(s) BY <1>5 DEF SingleStep, Marking
  <2> QED BY <2>1, <1>5, RemarkWeakKeeps DEF Calm, Early, Ending
<1>6. CASE s.state = "weak" /\ s.gray = {}
  <2>1. SingleStep(s) = RemarkAgain(s) BY <1>6 DEF SingleStep, Marking
  <2> QED BY <2>1, <1>6, RemarkAgainKeeps DEF Calm, Early, Ending
<1>7. CASE s.state = "again" /\ s.gray = {}
  <2>1. SingleStep(s) = MarkTmu(s) BY <1>7 DEF SingleStep, Marking
  <2> QED BY <2>1, <1>7, MarkTmuKeeps DEF Calm, Early, Ending
<1>8. CASE s.state = "tmu" /\ s.gray = {}
  <2>1. SingleStep(s) = FinishAtomic(s) BY <1>8 DEF SingleStep, Marking
  <2> QED BY <2>1, <1>8, FinishAtomicKeeps DEF Calm, Early, Ending
<1>9. CASE s.state = "sweepstring"
  <2>1. SingleStep(s) = SweepString(s) BY <1>9 DEF SingleStep, Marking, Atomic
  <2> QED BY <2>1, <1>9, SweepStringKeeps DEF Calm, Early, Ending
<1>10. CASE s.state = "sweep"
  <2>1. SingleStep(s) = SweepStep(s) BY <1>10 DEF SingleStep, Marking, Atomic
  <2> QED BY <2>1, <1>10, SweepStepKeeps DEF Calm, Early, Ending
<1>11. CASE s.state = "finalize" /\ s.tmu # {}
  <2>1. SingleStep(s) = GCTM(s, FALSE) BY <1>11 DEF SingleStep, Marking, Atomic
  <2> QED BY <2>1, <1>11, GCTMKeeps DEF Calm, Early, Ending
<1>12. CASE s.state = "finalize" /\ s.tmu = {}
  <2>1. SingleStep(s) = [s EXCEPT !.state = "pause"]
    BY <1>12 DEF SingleStep, Marking, Atomic
  <2>2. SingleStep(s).state = "pause" BY <2>1, <1>0 DEF GState
  <2> QED BY <2>1, <2>2, <1>12, PauseKeeps DEF Calm, Early, Ending
<1> QED BY <1>1, <1>2, <1>3, <1>4, <1>5, <1>6, <1>7, <1>8, <1>9, <1>10, <1>11, <1>12
        DEF States, Closing, Ending, Marking, Atomic

LEMMA FullGcKeeps ==
  ASSUME NEW s, Sound(s), s.state \notin Atomic \cup Ending
  PROVE  Sound(FullGc(s))
<1>0. s \in GState /\ HeapInv(s) BY DEF Sound, GcInv, HeapInv
<1> DEFINE U == {x \in GState : Sound(x) /\ x.state \notin Ending}
           reset == [BeginSweep(s) EXCEPT !.gray = {}, !.again = {}, !.weak = {}]
           from == IF s.state \in {"pause", "propagate"} THEN reset ELSE s
           swept == StepsTo(from, "finalize")
<1>1. \A x \in U : SingleStep(x) \in U
  BY SingleStepKeeps DEF Sound, GcInv, HeapInv
<1>2. from \in U
  <2>1. CASE s.state \in {"pause", "propagate"}
    <3>1. RootList(s) \subseteq Obj BY DEF RootList
    <3>2. reset = [s EXCEPT !.str = 0, !.sweep = RootList(s), !.state = "sweepstring",
                            !.gray = {}, !.again = {}, !.weak = {}]
      BY DEF BeginSweep
    <3> HIDE DEF reset
    <3>3. /\ reset \in GState /\ SameHeap(s, reset) /\ reset.mark = s.mark
          /\ reset.white = s.white /\ reset.tmu = s.tmu /\ reset.run = s.run
          /\ reset.str = 0 /\ reset.sweep = RootList(s) /\ reset.state = "sweepstring"
      BY <3>1, <3>2, <1>0 DEF GState, SameHeap, States
    <3>4. s.state \in Marking \cup {"pause"} BY <2>1 DEF Marking
    <3>5. Sound(reset) BY <3>3, <3>4, <1>0, BeginSweepKeeps
    <3> QED BY <2>1, <3>3, <3>5 DEF Ending
  <2>2. CASE s.state \notin {"pause", "propagate"}
    <3> HIDE DEF reset
    <3> QED BY <2>2, <1>0
  <2> QED BY <2>1, <2>2
<1>3. MaxSteps \in Nat BY GcConstants
<1> HIDE DEF from, reset
<1>4. swept \in U
  <2> HIDE DEF U
  <2> QED BY <1>1, <1>2, <1>3, StepsStay
<1>5. FullGc(s) = IF swept.state = "finalize" THEN StepsTo(MarkRoot(swept), "pause") ELSE swept
  BY DEF FullGc, from, reset
<1> HIDE DEF swept
<1>6. CASE swept.state = "finalize"
  <2>1. MarkRoot(swept) \in U BY <1>4, <1>6, MarkRootKeeps DEF Sound, GcInv, HeapInv, Ending
  <2>2. StepsTo(MarkRoot(swept), "pause") \in U
    <3> HIDE DEF U
    <3> QED BY <2>1, <1>1, <1>3, StepsStay
  <2> QED BY <2>2, <1>5, <1>6
<1>7. CASE swept.state # "finalize" BY <1>4, <1>5, <1>7
<1> QED BY <1>6, <1>7

-----------------------------------------------------------------------------
(* What the program can reach is alive.                                    *)

LEMMA ReachStays ==
  ASSUME NEW s, NEW A, \A o \in A : Below(s, o) \subseteq A, NEW S \in SUBSET A
  PROVE  Reach(s, S) \subseteq A
<1> DEFINE more(x) == UNION {Below(s, o) : o \in x.new} \ x.all
           next(x) == [all |-> x.all \cup more(x), new |-> more(x)]
           first == [all |-> S, new |-> S]
           P(k) == k = [n \in Nat |-> IF n = 0 THEN first ELSE next(k[n - 1])]
           U == [all : SUBSET A, new : SUBSET A]
           step == [x \in U |-> next(x)]
<1>1. /\ first \in U
      /\ \A x \in U : next(x) \in U
  <2>1. first \in U OBVIOUS
  <2>2. ASSUME NEW x \in U PROVE next(x) \in U
    <3>1. x.all \subseteq A /\ x.new \subseteq A OBVIOUS
    <3>2. more(x) \subseteq A BY <3>1
    <3> HIDE DEF more
    <3> QED BY <3>1, <3>2
  <2> QED BY <2>1, <2>2
<1> HIDE DEF first, more
<1>2. step \in [U -> U] BY <1>1
<1>3. PICK f : IsIteration(f, first, step, U)
  <2> HIDE DEF step, P, U, next
  <2> QED BY ONLY <1>1, <1>2, IterationExists
<1>4. P(f)
  <2>1. \A n \in Nat : n # 0 => n - 1 \in Nat /\ (n - 1) + 1 = n OBVIOUS
  <2> HIDE DEF next, U
  <2> QED BY <2>1, <1>3 DEF IsIteration
<1> DEFINE c == CHOOSE k : P(k)
<1>5. P(c) BY <1>4
<1>6. Reach(s, S) = c[Cardinality(Obj)].all BY DEF Reach, first, more
<1>7. Cardinality(Obj) \in Nat BY GcConstants, FS_CardinalityType
<1> DEFINE T == {n \in Nat : c[n] \in U}
<1>8. Nat \subseteq T
  <2> HIDE DEF next, U
  <2>1. 0 \in T BY <1>1, <1>5
  <2>2. ASSUME NEW n \in Nat, n \in T PROVE n + 1 \in T
    <3>1. (n + 1) - 1 = n /\ n + 1 # 0 /\ n + 1 \in Nat OBVIOUS
    <3> HIDE DEF c
    <3>2. c[n + 1] = next(c[n]) BY <1>5, <3>1
    <3> QED BY <3>1, <3>2, <2>2, <1>1
  <2> HIDE DEF T
  <2> QED BY <2>1, <2>2, NatsAll
<1> QED BY <1>6, <1>7, <1>8

LEMMA UsableIs ==
  ASSUME NEW s, HeapInv(s)
  PROVE  /\ Usable(s) \subseteq Alive(s) /\ Reachable(s) \subseteq Alive(s)
         /\ \A v \in UsableValues(s) : v = Nil \/ (v \in Alive(s) /\ v \in Values)
<1>1. \A o \in Alive(s) : Below(s, o) \subseteq Alive(s) BY DEF HeapInv, Closed
<1>2. {MainThread, s.run} \cup s.tmu \subseteq Alive(s) BY DEF HeapInv, Rooted
<1>3. Usable(s) \subseteq Alive(s)
  <2> DEFINE A == Alive(s)
  <2>1. {MainThread, s.run} \in SUBSET A BY <1>2
  <2> HIDE DEF A
  <2> QED BY <1>1, <2>1, ReachStays DEF Usable, A
<1>4. Reachable(s) \subseteq Alive(s)
  <2> DEFINE A == Alive(s)
  <2>1. ({MainThread, s.run} \cup s.tmu) \in SUBSET A BY <1>2
  <2> HIDE DEF A
  <2> QED BY <1>1, <2>1, ReachStays DEF Reachable, A
<1> QED BY <1>3, <1>4 DEF UsableValues, OrNil
-----------------------------------------------------------------------------
(* Stores and their barriers.                                              *)

\* Sound but for what objects of E may hold of W, while the program runs.
Nearly(s, E, W) ==
  /\ HeapInv(s) /\ SweepInv(s)
  /\ s.state \notin Atomic
  /\ s.state = "propagate" => ListInv(s) /\ BlackInv(s, E, W) /\ ~IsWhite(s, MainThread)

LEMMA SoundIsNearly ==
  ASSUME NEW s, Sound(s), s.state \notin Atomic
  PROVE  \A E, W : Nearly(s, E, W)
<1>1. HeapInv(s) /\ SweepInv(s) BY DEF Sound, GcInv
<1>2. ASSUME s.state = "propagate"
      PROVE  ListInv(s) /\ BlackInv(s, {}, {}) /\ WhiteOf(s, {MainThread}) = {}
  BY <1>2 DEF Sound, GcInv, MarkInv, Marking
<1>3. ASSUME s.state = "propagate" PROVE ~IsWhite(s, MainThread)
  <2>1. MainThread \in {MainThread} \ {Nil} BY MainIs, GcConstants
  <2> QED BY <2>1, <1>2, <1>3 DEF WhiteOf
<1>4. ASSUME s.state = "propagate", NEW E, NEW W PROVE BlackInv(s, E, W)
  BY <1>2, <1>4 DEF BlackInv, Excused
<1> QED BY <1>1, <1>2, <1>3, <1>4 DEF Nearly

LEMMA NearlyIsSound ==
  ASSUME NEW s, NEW E, NEW W, Nearly(s, E, W), E = {} \/ W = {}
  PROVE  Sound(s)
<1>1. HeapInv(s) /\ SweepInv(s) BY DEF Nearly
<1>2. ASSUME s.state \in Marking PROVE s.state = "propagate"
  BY <1>2 DEF Nearly, Marking
<1>3. ASSUME s.state \in Marking PROVE WhiteOf(s, {MainThread}) = {}
  BY <1>2, <1>3 DEF WhiteOf, Nearly
<1>4. ASSUME s.state \in Marking PROVE BlackInv(s, {}, {})
  BY <1>2, <1>4 DEF BlackInv, Excused, Nearly
<1>5. MarkInv(s, {}, {}) BY <1>2, <1>3, <1>4 DEF MarkInv, Nearly, Atomic
<1> QED BY <1>1, <1>5 DEF Sound, GcInv

\* x is s but for what objects refer to.
SameButRefs(s, x) ==
  /\ x.mark = s.mark /\ x.open = s.open /\ x.fin = s.fin
  /\ x.state = s.state /\ x.white = s.white /\ x.tmu = s.tmu
  /\ x.str = s.str /\ x.size = s.size /\ x.sweep = s.sweep /\ x.run = s.run
  /\ x.calls = s.calls /\ x.gray = s.gray /\ x.again = s.again /\ x.weak = s.weak

LEMMA StoreKeeps ==
  ASSUME NEW s, NEW E, NEW W, Nearly(s, E, W), W \subseteq OrNil(Alive(s)),
         NEW y \in GState, SameButRefs(s, y), Shaped(y),
         \A u \in Obj : IsOpen(s, u) => y.ref[u][1] = Nil,
         \A p \in Alive(s) : Below(y, p) \subseteq Below(s, p) \cup W,
         \A p \in Alive(s) \ E : s.mark[p] = "black" => Below(y, p) \subseteq Below(s, p)
  PROVE  Nearly(y, E, W) /\ Alive(y) = Alive(s)
<1>0. /\ s \in GState /\ HeapInv(s) /\ SweepInv(s)
      /\ Opened(s) /\ Painted(s) /\ Rooted(s) /\ Closed(s)
  BY DEF Nearly, HeapInv
<1>1. \A o : IsOpen(y, o) = IsOpen(s, o) /\ IsDead(y, o) = IsDead(s, o) /\ IsWhite(y, o) = IsWhite(s, o)
  BY DEF SameButRefs, IsOpen, IsDead, IsWhite, Mark, OtherWhite
<1>2. Alive(y) = Alive(s) BY <1>1 DEF Alive, SameButRefs
<1>3. Opened(y) BY <1>0, <1>1 DEF Opened, SameButRefs
<1>4. Painted(y) BY <1>0, <1>1 DEF Painted, SameButRefs
<1>5. Rooted(y) BY <1>0, <1>2 DEF Rooted, SameButRefs
<1>6. Closed(y)
  <2> SUFFICES ASSUME NEW o \in Alive(s), NEW v \in Below(y, o) PROVE v \in Alive(s)
    BY <1>2 DEF Closed
  <2>1. v # Nil BY DEF Below
  <2>2. v \in Below(s, o) \cup W OBVIOUS
  <2>3. Below(s, o) \subseteq Alive(s) BY <1>0 DEF Closed
  <2> QED BY <2>1, <2>2, <2>3 DEF OrNil
<1>7. SweepInv(y) BY <1>0, <1>1 DEF SweepInv, ToSweep, SameButRefs
<1>8. ASSUME s.state = "propagate"
      PROVE  ListInv(y) /\ BlackInv(y, E, W) /\ ~IsWhite(y, MainThread)
  <2>1. ListInv(s) /\ BlackInv(s, E, W) /\ ~IsWhite(s, MainThread) BY <1>8 DEF Nearly
  <2>2. ListInv(y) BY <2>1 DEF ListInv, SameButRefs, OtherWhite
  <2>3. BlackInv(y, E, W)
    <3> SUFFICES ASSUME NEW o \in Obj, y.mark[o] = "black",
                        ~(o \in y.tmu /\ y.state \in Early),
                        NEW v \in WhiteOf(y, Below(y, o))
                 PROVE  v \in Excused(o, E, W)
      BY DEF BlackInv
    <3>1. s.mark[o] = "black" /\ ~(o \in s.tmu /\ s.state \in Early) BY DEF SameButRefs
    <3>2. WhiteOf(s, Below(s, o)) \subseteq Excused(o, E, W) BY <2>1, <3>1 DEF BlackInv
    <3>3. o \in Alive(s)
      <4>1. s.white \in Whites /\ OtherWhite(s) \in Whites
        BY <1>0, GStateIs DEF OtherWhite, Whites
      <4> QED BY <3>1, <4>1 DEF Alive, IsDead, Mark, Whites
    <3>4. v \in Below(y, o) /\ v # Nil /\ IsWhite(s, v) BY <1>1 DEF WhiteOf
    <3>5. v \in Below(s, o) => v \in Excused(o, E, W) BY <3>2, <3>4 DEF WhiteOf
    <3>6. CASE o \in E BY <3>3, <3>4, <3>5, <3>6 DEF Excused
    <3>7. CASE o \notin E BY <3>1, <3>3, <3>4, <3>5, <3>7
    <3> QED BY <3>6, <3>7
  <2> QED BY <1>1, <2>1, <2>2, <2>3
<1> QED BY <1>0, <1>2, <1>3, <1>4, <1>5, <1>6, <1>7, <1>8 DEF Nearly, HeapInv, SameButRefs

\* luaC_barrierback.
LEMMA BarrierTKeeps ==
  ASSUME NEW s, NEW t \in Obj, Tt[t] = "table", NEW W, Nearly(s, {t}, W), NEW v
  PROVE  /\ Nearly(BarrierT(s, t, v), {t}, W \ {v})
         /\ BarrierT(s, t, v).state = s.state /\ BarrierT(s, t, v).tmu = s.tmu
<1>0. /\ s \in GState /\ HeapInv(s) /\ SweepInv(s)
      /\ Shaped(s) /\ Opened(s) /\ Painted(s) /\ Rooted(s) /\ Closed(s)
  BY DEF Nearly, HeapInv
<1>1. CASE s.mark[t] # "black" \/ WhiteOf(s, {v}) = {}
  <2>1. BarrierT(s, t, v) = s BY <1>1 DEF BarrierT, Mark
  <2>2. ASSUME s.state = "propagate" PROVE BlackInv(s, {t}, W \ {v})
    <3>1. BlackInv(s, {t}, W) BY <2>2 DEF Nearly
    <3> SUFFICES ASSUME NEW o \in Obj, s.mark[o] = "black",
                        ~(o \in s.tmu /\ s.state \in Early),
                        NEW w \in WhiteOf(s, Below(s, o))
                 PROVE  w \in Excused(o, {t}, W \ {v})
      BY DEF BlackInv
    <3>2. w \in Excused(o, {t}, W) BY <3>1 DEF BlackInv
    <3>3. o = t /\ w \in W BY <3>2 DEF Excused
    <3>4. w # v BY <1>1, <3>3 DEF WhiteOf
    <3> QED BY <3>3, <3>4 DEF Excused
  <2> QED BY <2>1, <2>2 DEF Nearly
<1>2. CASE s.mark[t] = "black" /\ WhiteOf(s, {v}) # {}
  <2> DEFINE m == [s.mark EXCEPT ![t] = "gray"]
             x == [s EXCEPT !.mark = m, !.again = s.again \cup {t}]
  <2>1. BarrierT(s, t, v) = x
    BY <1>0, <1>2 DEF BarrierT, Mark, Paint, GState
  <2>2. m \in [Obj -> Colors] BY <1>0, GStateIs DEF Colors
  <2>3. \A o \in Obj : m[o] = IF o = t THEN "gray" ELSE s.mark[o] BY <1>0, GStateIs
  <2>4. s.again \cup {t} \subseteq Obj BY <1>0, GStateIs
  <2> HIDE DEF m
  <2>5. /\ x \in GState /\ SameHeap(s, x) /\ x.mark = m
        /\ x.state = s.state /\ x.white = s.white /\ x.tmu = s.tmu
        /\ x.str = s.str /\ x.size = s.size /\ x.sweep = s.sweep /\ x.run = s.run
        /\ x.gray = s.gray /\ x.again = s.again \cup {t} /\ x.weak = s.weak
    BY <1>0, <2>2, <2>4 DEF GState, SameHeap
  <2> HIDE DEF x
  <2>6. x.ref = s.ref /\ x.meta = s.meta /\ x.open = s.open BY <2>5 DEF SameHeap
  <2>7. \A o : Below(x, o) = Below(s, o) /\ IsOpen(x, o) = IsOpen(s, o) BY <2>5, HeapReads
  <2>8. s.white \in Whites /\ OtherWhite(s) \in Whites /\ OtherWhite(x) = OtherWhite(s)
    BY <1>0, <2>5, GStateIs DEF Whites, OtherWhite
  <2>9. \A o \in Obj : /\ x.mark[o] = IF o = t THEN "gray" ELSE s.mark[o]
                       /\ IsWhite(x, o) <=> IsWhite(s, o)
                       /\ o \in Alive(x) <=> o \in Alive(s)
    BY <1>2, <2>3, <2>5, <2>8 DEF IsWhite, Mark, Whites, Alive, IsDead
  <2>10. Alive(x) = Alive(s) BY <2>9 DEF Alive
  <2>11. \A o \in Obj : x.mark[o] = "free" <=> s.mark[o] = "free" BY <1>2, <2>9
  <2>12. Shaped(x) BY <1>0, <2>6, <2>11 DEF Shaped
  <2>13. Opened(x)
    <3> SUFFICES ASSUME NEW u \in Obj, IsOpen(x, u)
                 PROVE  /\ Tt[u] = "upval" /\ x.mark[u] \notin {"free", "black"}
                        /\ x.ref[u][1] = Nil
                        /\ x.open[u] \in Objs("thread") \X {2, 3}
                        /\ x.mark[x.open[u][1]] # "free"
                        /\ u \notin x.sweep
      BY DEF Opened
    <3>1. /\ Tt[u] = "upval" /\ s.mark[u] \notin {"free", "black"} /\ s.ref[u][1] = Nil
          /\ s.open[u] \in Objs("thread") \X {2, 3} /\ s.mark[s.open[u][1]] # "free"
          /\ u \notin s.sweep
      BY <1>0, <2>7 DEF Opened
    <3>2. s.open[u][1] \in Obj BY <3>1 DEF Objs
    <3> QED BY <3>1, <3>2, <2>5, <2>6, <2>9, <2>11
  <2>14. Painted(x) BY <1>0, <2>7, <2>9 DEF Painted
  <2>15. Rooted(x) BY <1>0, <2>5, <2>10, <2>11, GStateIs DEF Rooted
  <2>16. Closed(x) BY <1>0, <2>7, <2>10 DEF Closed
  <2>17. SweepInv(x)
    <3>1. \A o \in Obj : x.mark[o] \notin {"free", x.white} => s.mark[o] \notin {"free", s.white}
      BY <1>2, <2>5, <2>8, <2>9 DEF Whites
    <3>2. ToSweep(x) = ToSweep(s) BY <2>5, <2>6, <2>7 DEF ToSweep
    <3> QED BY <3>1, <3>2, <1>0, <2>5 DEF SweepInv
  <2>18. ASSUME s.state = "propagate"
         PROVE  ListInv(x) /\ BlackInv(x, {t}, W \ {v}) /\ ~IsWhite(x, MainThread)
    <3>1. ListInv(s) /\ BlackInv(s, {t}, W) /\ ~IsWhite(s, MainThread) BY <2>18 DEF Nearly
    <3>2. ~IsWhite(x, MainThread) BY <3>1, <2>9, MainIs
    <3>3. BlackInv(x, {t}, W \ {v})
      <4> SUFFICES ASSUME NEW o \in Obj, x.mark[o] = "black",
                          ~(o \in x.tmu /\ x.state \in Early)
                   PROVE  WhiteOf(x, Below(x, o)) \subseteq Excused(o, {t}, W \ {v})
        BY DEF BlackInv
      <4>1. o # t /\ s.mark[o] = "black" BY <2>9
      <4>2. WhiteOf(s, Below(s, o)) = {} BY <3>1, <4>1, <2>5 DEF BlackInv, Excused
      <4>3. Below(s, o) \subseteq Obj BY <4>1, <1>0, BelowInObj
      <4>4. WhiteOf(x, Below(x, o)) = WhiteOf(s, Below(s, o))
        BY <4>3, <2>7, <2>9 DEF WhiteOf
      <4> QED BY <4>2, <4>4
    <3>4. ListInv(x)
      <4>1. t \notin s.gray \cup s.again \cup s.weak BY <3>1, <1>2 DEF ListInv
      <4>2. s.gray \cap s.again = {} /\ s.gray \cap s.weak = {} /\ s.again \cap s.weak = {}
        BY <3>1 DEF ListInv
      <4>3. s.again \cup {t} \subseteq Objs("table") \cup Objs("thread")
        BY <3>1, <1>2 DEF ListInv, Objs
      <4>4. \A o \in Obj : o \in s.gray \cup s.again \cup s.weak
                             <=> Tt[o] \in Chained /\ s.mark[o] = "gray"
        BY <3>1 DEF ListInv
      <4>5. x.gray \cup x.again \cup x.weak = {o \in Obj : Tt[o] \in Chained /\ x.mark[o] = "gray"}
        <5>1. \A o \in Obj : o \in x.gray \cup x.again \cup x.weak
                               <=> Tt[o] \in Chained /\ x.mark[o] = "gray"
          BY <4>4, <2>5, <2>9 DEF Chained
        <5>2. x.gray \cup x.again \cup x.weak \subseteq Obj BY <2>5, GStateIs
        <5> QED BY <5>1, <5>2
      <4>6. \A o \in Obj : x.mark[o] # OtherWhite(x)
        BY <3>1, <2>8, <2>9 DEF ListInv, Whites
      <4>7. s.weak \subseteq Objs("table") BY <3>1 DEF ListInv
      <4> QED BY <4>1, <4>2, <4>3, <4>5, <4>6, <4>7, <2>5 DEF ListInv
    <3> QED BY <3>2, <3>3, <3>4
  <2>19. Nearly(x, {t}, W \ {v})
    BY <2>5, <2>12, <2>13, <2>14, <2>15, <2>16, <2>17, <2>18 DEF Nearly, HeapInv
  <2> QED BY <2>1, <2>5, <2>19
<1> QED BY <1>1, <1>2

\* luaC_barrierf.
LEMMA BarrierFKeeps ==
  ASSUME NEW s, NEW o \in Obj, NEW W, Nearly(s, {o}, W), NEW v \in OrNil(Obj),
         Tt[o] # "thread"
  PROVE  /\ Nearly(BarrierF(s, o, v), {o}, W \ {v})
         /\ BarrierF(s, o, v).state = s.state /\ BarrierF(s, o, v).tmu = s.tmu
<1>0. /\ s \in GState /\ HeapInv(s) /\ SweepInv(s)
      /\ Shaped(s) /\ Opened(s) /\ Painted(s) /\ Rooted(s) /\ Closed(s)
  BY DEF Nearly, HeapInv
<1>1. CASE s.mark[o] # "black" \/ WhiteOf(s, {v}) = {}
  <2>1. BarrierF(s, o, v) = s BY <1>1 DEF BarrierF, Mark
  <2>2. ASSUME s.state = "propagate" PROVE BlackInv(s, {o}, W \ {v})
    <3>1. BlackInv(s, {o}, W) BY <2>2 DEF Nearly
    <3> SUFFICES ASSUME NEW p \in Obj, s.mark[p] = "black",
                        ~(p \in s.tmu /\ s.state \in Early),
                        NEW w \in WhiteOf(s, Below(s, p))
                 PROVE  w \in Excused(p, {o}, W \ {v})
      BY DEF BlackInv
    <3>2. w \in Excused(p, {o}, W) BY <3>1 DEF BlackInv
    <3>3. p = o /\ w \in W BY <3>2 DEF Excused
    <3>4. w # v BY <1>1, <3>3 DEF WhiteOf
    <3> QED BY <3>3, <3>4 DEF Excused
  <2> QED BY <2>1, <2>2 DEF Nearly
<1>2. CASE s.mark[o] = "black" /\ WhiteOf(s, {v}) # {} /\ s.state = "propagate"
  <2> DEFINE x == MarkAll(s, {v})
  <2>1. BarrierF(s, o, v) = x BY <1>2 DEF BarrierF, Mark
  <2>2. ListInv(s) /\ BlackInv(s, {o}, W) /\ ~IsWhite(s, MainThread) BY <1>2 DEF Nearly
  <2>3. MarkInv(s, {o}, W) BY <2>2, <1>2 DEF MarkInv, Marking, Atomic, WhiteOf
  <2>4. s.state \in Marking /\ {v} \in SUBSET OrNil(Obj) BY <1>2 DEF Marking
  <2>5. /\ GcInv(x, {o}, W \ {v}) /\ SameRest(s, x)
        /\ \A T \in SUBSET OrNil(Obj) : WhiteOf(x, T) \subseteq WhiteOf(s, T) \ {v}
    BY <1>0, <2>3, <2>4, MarkAllKeeps
  <2> HIDE DEF x
  <2>6. ~IsWhite(x, MainThread)
    <3>1. {MainThread} \in SUBSET OrNil(Obj) /\ MainThread # Nil
      BY MainIs, GcConstants DEF OrNil
    <3>2. WhiteOf(s, {MainThread}) = {} BY <2>2 DEF WhiteOf
    <3>3. WhiteOf(x, {MainThread}) = {} BY <3>1, <3>2, <2>5
    <3> QED BY <3>1, <3>3 DEF WhiteOf
  <2>7. x.state = s.state /\ x.tmu = s.tmu BY <2>5 DEF SameRest
  <2>8. Nearly(x, {o}, W \ {v})
    BY <1>2, <2>5, <2>6, <2>7 DEF Nearly, GcInv, MarkInv, Marking, Atomic
  <2> QED BY <2>1, <2>7, <2>8
<1>3. CASE s.mark[o] = "black" /\ WhiteOf(s, {v}) # {} /\ s.state # "propagate"
  <2> DEFINE m == [s.mark EXCEPT ![o] = s.white]
             x == [s EXCEPT !.mark = m]
  <2>1. BarrierF(s, o, v) = x BY <1>0, <1>3 DEF BarrierF, Mark, Paint, GState
  <2>2. m \in [Obj -> Colors] BY <1>0, GStateIs DEF Colors
  <2>3. \A p \in Obj : m[p] = IF p = o THEN s.white ELSE s.mark[p] BY <1>0, GStateIs
  <2> HIDE DEF m
  <2>5. /\ x \in GState /\ SameHeap(s, x) /\ x.mark = m
        /\ x.state = s.state /\ x.white = s.white /\ x.tmu = s.tmu
        /\ x.str = s.str /\ x.size = s.size /\ x.sweep = s.sweep /\ x.run = s.run
    BY <1>0, <2>2 DEF GState, SameHeap
  <2> HIDE DEF x
  <2>6. x.ref = s.ref /\ x.meta = s.meta /\ x.open = s.open BY <2>5 DEF SameHeap
  <2>7. \A p : Below(x, p) = Below(s, p) /\ IsOpen(x, p) = IsOpen(s, p) BY <2>5, HeapReads
  <2>8. s.white \in Whites /\ OtherWhite(s) \in Whites /\ OtherWhite(x) = OtherWhite(s)
        /\ OtherWhite(s) # s.white
    BY <1>0, <2>5, GStateIs DEF Whites, OtherWhite
  <2>9. \A p \in Obj : /\ x.mark[p] = IF p = o THEN s.white ELSE s.mark[p]
                       /\ p \in Alive(x) <=> p \in Alive(s)
    BY <1>3, <2>3, <2>5, <2>8 DEF Mark, Whites, Alive, IsDead
  <2>10. Alive(x) = Alive(s) BY <2>9 DEF Alive
  <2>11. \A p \in Obj : x.mark[p] = "free" <=> s.mark[p] = "free"
    BY <1>3, <2>8, <2>9 DEF Whites
  <2>12. Shaped(x) BY <1>0, <2>6, <2>11 DEF Shaped
  <2>13. Opened(x)
    <3> SUFFICES ASSUME NEW u \in Obj, IsOpen(x, u)
                 PROVE  /\ Tt[u] = "upval" /\ x.mark[u] \notin {"free", "black"}
                        /\ x.ref[u][1] = Nil
                        /\ x.open[u] \in Objs("thread") \X {2, 3}
                        /\ x.mark[x.open[u][1]] # "free"
                        /\ u \notin x.sweep
      BY DEF Opened
    <3>1. /\ Tt[u] = "upval" /\ s.mark[u] \notin {"free", "black"} /\ s.ref[u][1] = Nil
          /\ s.open[u] \in Objs("thread") \X {2, 3} /\ s.mark[s.open[u][1]] # "free"
          /\ u \notin s.sweep
      BY <1>0, <2>7 DEF Opened
    <3>2. s.open[u][1] \in Obj BY <3>1 DEF Objs
    <3> QED BY <1>3, <3>1, <3>2, <2>5, <2>6, <2>9, <2>11
  <2>14. Painted(x) BY <1>0, <2>7, <2>8, <2>9 DEF Painted, Whites
  <2>15. Rooted(x) BY <1>0, <2>5, <2>10, <2>11, GStateIs DEF Rooted
  <2>16. Closed(x) BY <1>0, <2>7, <2>10 DEF Closed
  <2>17. SweepInv(x)
    <3>1. \A p \in Obj : x.mark[p] \notin {"free", x.white} => s.mark[p] \notin {"free", s.white}
      BY <2>5, <2>9
    <3>2. ToSweep(x) = ToSweep(s) BY <2>5, <2>6, <2>7 DEF ToSweep
    <3> QED BY <3>1, <3>2, <1>0, <2>5 DEF SweepInv
  <2>18. Nearly(x, {o}, W \ {v})
    <3>1. s.state \notin Atomic BY DEF Nearly
    <3> QED BY <1>3, <2>5, <2>12, <2>13, <2>14, <2>15, <2>16, <2>17, <3>1 DEF Nearly, HeapInv
  <2> QED BY <2>1, <2>5, <2>18
<1> QED BY <1>1, <1>2, <1>3

-----------------------------------------------------------------------------
(* Allocation.                                                             *)

\* A dead object that is found again before the sweep comes to it.
LEMMA ReviveKeeps ==
  ASSUME NEW s, Sound(s), s.state \notin Atomic, NEW o \in Obj, IsDead(s, o),
         Below(s, o) \subseteq Alive(s)
  PROVE  LET x == Paint(s, o, s.white)
         IN  /\ Sound(x) /\ SameHeap(s, x) /\ x.state = s.state /\ x.tmu = s.tmu
             /\ x.run = s.run /\ Alive(x) = Alive(s) \cup {o}
             /\ \A p \in Obj : p # o => x.mark[p] = s.mark[p]
<1>0. /\ s \in GState /\ HeapInv(s) /\ SweepInv(s)
      /\ Shaped(s) /\ Opened(s) /\ Painted(s) /\ Rooted(s) /\ Closed(s)
  BY DEF Sound, GcInv, HeapInv
<1> DEFINE m == [s.mark EXCEPT ![o] = s.white]
           x == [s EXCEPT !.mark = m]
<1>1. Paint(s, o, s.white) = x BY <1>0 DEF Paint, GState
<1>2. m \in [Obj -> Colors] BY <1>0, GStateIs DEF Colors
<1>3. \A p \in Obj : m[p] = IF p = o THEN s.white ELSE s.mark[p] BY <1>0, GStateIs
<1> HIDE DEF m
<1>4. /\ x \in GState /\ SameHeap(s, x) /\ x.mark = m
      /\ x.state = s.state /\ x.white = s.white /\ x.tmu = s.tmu
      /\ x.str = s.str /\ x.size = s.size /\ x.sweep = s.sweep /\ x.run = s.run
      /\ x.gray = s.gray /\ x.again = s.again /\ x.weak = s.weak
  BY <1>0, <1>2 DEF GState, SameHeap
<1> HIDE DEF x
<1>5. x.ref = s.ref /\ x.meta = s.meta /\ x.open = s.open BY <1>4 DEF SameHeap
<1>6. \A p : Below(x, p) = Below(s, p) /\ IsOpen(x, p) = IsOpen(s, p) BY <1>4, HeapReads
<1>7. s.white \in Whites /\ OtherWhite(s) \in Whites /\ OtherWhite(x) = OtherWhite(s)
      /\ OtherWhite(s) # s.white
  BY <1>0, <1>4, GStateIs DEF Whites, OtherWhite
<1>8. s.mark[o] = OtherWhite(s) BY DEF IsDead, Mark
<1>9. \A p \in Obj : /\ x.mark[p] = IF p = o THEN s.white ELSE s.mark[p]
                     /\ p \in Alive(x) <=> p \in Alive(s) \/ p = o
  BY <1>3, <1>4, <1>7 DEF Mark, Whites, Alive, IsDead
<1>10. Alive(x) = Alive(s) \cup {o} BY <1>9 DEF Alive
<1>11. \A p \in Obj : x.mark[p] = "free" <=> s.mark[p] = "free"
  BY <1>7, <1>8, <1>9 DEF Whites
<1>12. Shaped(x) BY <1>0, <1>5, <1>11 DEF Shaped
<1>13. Opened(x)
  <2> SUFFICES ASSUME NEW u \in Obj, IsOpen(x, u)
               PROVE  /\ Tt[u] = "upval" /\ x.mark[u] \notin {"free", "black"}
                      /\ x.ref[u][1] = Nil
                      /\ x.open[u] \in Objs("thread") \X {2, 3}
                      /\ x.mark[x.open[u][1]] # "free"
                      /\ u \notin x.sweep
    BY DEF Opened
  <2>1. /\ Tt[u] = "upval" /\ s.mark[u] \notin {"free", "black"} /\ s.ref[u][1] = Nil
        /\ s.open[u] \in Objs("thread") \X {2, 3} /\ s.mark[s.open[u][1]] # "free"
        /\ u \notin s.sweep
    BY <1>0, <1>6 DEF Opened
  <2>2. s.open[u][1] \in Obj BY <2>1 DEF Objs
  <2>3. x.mark[u] \notin {"free", "black"} BY <2>1, <1>7, <1>9 DEF Whites
  <2> QED BY <2>1, <2>2, <2>3, <1>4, <1>5, <1>11
<1>14. Painted(x) BY <1>0, <1>6, <1>7, <1>9 DEF Painted, Whites
<1>15. Rooted(x) BY <1>0, <1>4, <1>10, <1>11, GStateIs DEF Rooted
<1>16. Closed(x) BY <1>0, <1>6, <1>10 DEF Closed
<1>17. SweepInv(x)
  <2>1. \A p \in Obj : x.mark[p] \notin {"free", x.white} => s.mark[p] \notin {"free", s.white}
    BY <1>4, <1>9
  <2>2. ToSweep(x) = ToSweep(s) BY <1>4, <1>5, <1>6 DEF ToSweep
  <2> QED BY <2>1, <2>2, <1>0, <1>4 DEF SweepInv
\* While marking nothing is dead.
<1>18. s.state \notin Marking BY <1>8 DEF Sound, GcInv, MarkInv, ListInv
<1>19. MarkInv(x, {}, {}) BY <1>4, <1>18 DEF MarkInv
<1>20. Sound(x)
  BY <1>4, <1>12, <1>13, <1>14, <1>15, <1>16, <1>17, <1>19 DEF Sound, GcInv, HeapInv
<1> QED BY <1>1, <1>4, <1>9, <1>10, <1>20

LEMMA FreshIs ==
  ASSUME NEW s \in GState, Shaped(s), NEW o \in Obj,
         NEW ref \in [Slots(Tt[o]) -> OrNil(Obj)]
  PROVE  LET x == Fresh(s, o, ref)
         IN  /\ x \in GState
             /\ x.state = s.state /\ x.white = s.white /\ x.tmu = s.tmu
             /\ x.str = s.str /\ x.size = s.size /\ x.sweep = s.sweep /\ x.run = s.run
             /\ x.gray = s.gray /\ x.again = s.again /\ x.weak = s.weak
             /\ \A p \in Obj : /\ x.mark[p] = IF p = o THEN s.white ELSE s.mark[p]
                               /\ x.ref[p] = IF p = o THEN ref ELSE s.ref[p]
                               /\ x.meta[p] = IF p = o THEN Nil ELSE s.meta[p]
                               /\ x.open[p] = IF p = o THEN <<>> ELSE s.open[p]
<1> DEFINE m == [s.mark EXCEPT ![o] = s.white]
           r == [s.ref EXCEPT ![o] = ref]
           a == [s.meta EXCEPT ![o] = Nil]
           n == [s.open EXCEPT ![o] = <<>>]
           k == IF Tt[o] = "udata" THEN [s.calls EXCEPT ![o] = 0] ELSE s.calls
           x == [s EXCEPT !.mark = m, !.fin = s.fin \ {o}, !.meta = a, !.ref = r,
                          !.open = n, !.calls = k]
<1>1. Fresh(s, o, ref) = x BY DEF Fresh, GState
<1>2. m \in [Obj -> Colors] /\ \A p \in Obj : m[p] = IF p = o THEN s.white ELSE s.mark[p]
  BY GStateIs DEF Colors
<1>3. a \in [Obj -> OrNil(Obj)] /\ \A p \in Obj : a[p] = IF p = o THEN Nil ELSE s.meta[p]
  BY GStateIs DEF OrNil
<1>4. /\ n \in [Obj -> {<<>>} \cup (Obj \X {2, 3})]
      /\ \A p \in Obj : n[p] = IF p = o THEN <<>> ELSE s.open[p]
  BY GStateIs
<1>5. k \in [Objs("udata") -> Nat]
  <2>1. s.calls \in [Objs("udata") -> Nat] BY GStateIs
  <2> QED BY <2>1
<1>6. DOMAIN r = Obj /\ \A p \in Obj : r[p] = IF p = o THEN ref ELSE s.ref[p] BY GStateIs
<1>7. r = [p \in Obj |-> r[p]] BY GStateIs
<1> HIDE DEF r
<1>8. \A p \in Obj : r[p] \in [Slots(Tt[p]) -> OrNil(Obj)]
  <2> SUFFICES ASSUME NEW p \in Obj PROVE r[p] \in [Slots(Tt[p]) -> OrNil(Obj)]
    OBVIOUS
  <2>1. CASE p = o BY <2>1, <1>6
  <2>2. CASE p # o BY <2>2, <1>6 DEF Shaped
  <2> QED BY <2>1, <2>2
<1>9. r \in [Obj -> UNION {[Slots(t) -> OrNil(Obj)] : t \in Types}] BY <1>6, <1>7, <1>8, RefType
<1>10. s.fin \ {o} \subseteq Obj BY GStateIs
<1> HIDE DEF m, a, n, k
<1>11. /\ x \in GState
       /\ x.state = s.state /\ x.white = s.white /\ x.tmu = s.tmu
       /\ x.str = s.str /\ x.size = s.size /\ x.sweep = s.sweep /\ x.run = s.run
       /\ x.gray = s.gray /\ x.again = s.again /\ x.weak = s.weak
       /\ x.mark = m /\ x.ref = r /\ x.meta = a /\ x.open = n
  BY <1>2, <1>3, <1>4, <1>5, <1>9, <1>10 DEF GState
<1> HIDE DEF x
<1> QED BY <1>1, <1>2, <1>3, <1>4, <1>6, <1>11

LEMMA FreshKeeps ==
  ASSUME NEW s, Sound(s), s.state \notin Atomic, NEW o \in Obj, s.mark[o] = "free",
         NEW ref \in [Slots(Tt[o]) -> OrNil(Obj)],
         \A i \in Slots(Tt[o]) : ref[i] \in MayHold(Tt[o], i) /\ ref[i] \in OrNil(Alive(s))
  PROVE  LET x == Fresh(s, o, ref)
         IN  /\ Sound(x) /\ x.state = s.state /\ x.tmu = s.tmu /\ x.run = s.run
             /\ Alive(x) = Alive(s) \cup {o} /\ ~IsOpen(x, o) /\ x.mark[o] = x.white
             /\ \A p \in Obj : p # o => x.mark[p] = s.mark[p] /\ x.ref[p] = s.ref[p]
             /\ Tt[o] = "upval" => x.ref[o][1] = ref[1] /\ o \notin x.sweep
<1>0. /\ s \in GState /\ HeapInv(s) /\ SweepInv(s)
      /\ Shaped(s) /\ Opened(s) /\ Painted(s) /\ Rooted(s) /\ Closed(s)
  BY DEF Sound, GcInv, HeapInv
<1> DEFINE x == Fresh(s, o, ref)
<1>1. /\ x \in GState
      /\ x.state = s.state /\ x.white = s.white /\ x.tmu = s.tmu
      /\ x.str = s.str /\ x.size = s.size /\ x.sweep = s.sweep /\ x.run = s.run
      /\ x.gray = s.gray /\ x.again = s.again /\ x.weak = s.weak
      /\ \A p \in Obj : /\ x.mark[p] = IF p = o THEN s.white ELSE s.mark[p]
                        /\ x.ref[p] = IF p = o THEN ref ELSE s.ref[p]
                        /\ x.meta[p] = IF p = o THEN Nil ELSE s.meta[p]
                        /\ x.open[p] = IF p = o THEN <<>> ELSE s.open[p]
  BY <1>0, FreshIs
<1> HIDE DEF x
<1>2. s.white \in Whites /\ OtherWhite(s) \in Whites /\ OtherWhite(x) = OtherWhite(s)
      /\ OtherWhite(s) # s.white
  BY <1>0, <1>1, GStateIs DEF Whites, OtherWhite
<1>3. \A p \in Obj : p \in Alive(x) <=> p \in Alive(s) \/ p = o
  BY <1>1, <1>2 DEF Mark, Whites, Alive, IsDead
<1>4. Alive(x) = Alive(s) \cup {o} BY <1>3 DEF Alive
<1>5. o \notin Alive(s) BY DEF Alive
<1>6. ~IsOpen(x, o) /\ ~IsOpen(s, o) BY <1>0, <1>1 DEF Opened, IsOpen
<1>7. \A p \in Obj : p # o => IsOpen(x, p) = IsOpen(s, p) BY <1>1 DEF IsOpen
<1>8. \A u \in Obj : IsOpen(s, u) => s.open[u][1] \in Obj /\ s.open[u][1] # o
  BY <1>0 DEF Opened, Objs
<1>9. ASSUME NEW p \in Obj, p # o PROVE Below(x, p) = Below(s, p)
  <2>1. x.ref[p] = s.ref[p] /\ x.meta[p] = s.meta[p] /\ x.open[p] = s.open[p]
    BY <1>1, <1>9
  <2>2. UpvalValue(x, p) = UpvalValue(s, p)
    BY <2>1, <1>1, <1>7, <1>8, <1>9 DEF UpvalValue
  <2>3. EmptyNode(x, p) = EmptyNode(s, p) BY <2>1 DEF EmptyNode
  <2> QED BY <2>1, <2>2, <2>3 DEF Below
<1>10. ASSUME NEW v \in Below(x, o) PROVE v \in Alive(s)
  <2>1. v # Nil /\ (v \in {x.ref[o][i] : i \in Slots(Tt[o])} \/ v = x.meta[o]
                    \/ (Tt[o] = "upval" /\ v = UpvalValue(x, o)))
    BY <1>10 DEF Below
  <2>2. Tt[o] = "upval" => UpvalValue(x, o) = ref[1] /\ 1 \in Slots(Tt[o])
    BY <1>1, <1>6 DEF UpvalValue, Slots
  <2>3. v \in {ref[i] : i \in Slots(Tt[o])} BY <2>1, <2>2, <1>1
  <2> QED BY <2>1, <2>3 DEF OrNil
<1>11. Shaped(x)
  <2> SUFFICES ASSUME NEW p \in Obj
               PROVE  /\ x.ref[p] \in [Slots(Tt[p]) -> OrNil(Obj)]
                      /\ x.mark[p] # "free" =>
                           \A i \in Slots(Tt[p]) : x.ref[p][i] \in MayHold(Tt[p], i)
                      /\ x.meta[p] \in IF Tt[p] \in {"table", "udata"}
                                       THEN OrNil(Objs("table")) ELSE {Nil}
    BY DEF Shaped
  <2>1. CASE p = o BY <2>1, <1>1 DEF OrNil
  <2>2. CASE p # o BY <2>2, <1>0, <1>1 DEF Shaped
  <2> QED BY <2>1, <2>2
<1>12. Opened(x)
  <2> SUFFICES ASSUME NEW u \in Obj, IsOpen(x, u)
               PROVE  /\ Tt[u] = "upval" /\ x.mark[u] \notin {"free", "black"}
                      /\ x.ref[u][1] = Nil
                      /\ x.open[u] \in Objs("thread") \X {2, 3}
                      /\ x.mark[x.open[u][1]] # "free"
                      /\ u \notin x.sweep
    BY DEF Opened
  <2>1. u # o /\ IsOpen(s, u) BY <1>6, <1>7
  <2>2. /\ Tt[u] = "upval" /\ s.mark[u] \notin {"free", "black"} /\ s.ref[u][1] = Nil
        /\ s.open[u] \in Objs("thread") \X {2, 3} /\ s.mark[s.open[u][1]] # "free"
        /\ u \notin s.sweep
    BY <2>1, <1>0 DEF Opened
  <2> QED BY <2>1, <2>2, <1>1, <1>8
<1>13. Painted(x)
  <2> SUFFICES ASSUME NEW p \in Obj
               PROVE  /\ Tt[p] = "udata" => x.mark[p] # "gray"
                      /\ Tt[p] = "thread" => x.mark[p] # "black"
                      /\ Tt[p] = "upval" /\ ~IsOpen(x, p) => x.mark[p] # "gray"
    BY DEF Painted
  <2>1. CASE p = o BY <2>1, <1>1, <1>2 DEF Whites
  <2>2. CASE p # o BY <2>2, <1>0, <1>1, <1>7 DEF Painted
  <2> QED BY <2>1, <2>2
<1>14. o \notin s.sweep BY <1>0 DEF Rooted
<1>15. Rooted(x)
  <2>1. \A p \in x.sweep : x.mark[p] # "free" /\ Tt[p] # "string"
    BY <1>0, <1>1, <1>14, GStateIs DEF Rooted
  <2> QED BY <2>1, <1>0, <1>1, <1>4 DEF Rooted
<1>16. Closed(x)
  <2> SUFFICES ASSUME NEW p \in Alive(x), NEW v \in Below(x, p) PROVE v \in Alive(s)
    BY <1>4 DEF Closed
  <2>1. CASE p = o BY <2>1, <1>10
  <2>2. CASE p # o
    <3>1. p \in Alive(s) /\ p \in Obj BY <2>2, <1>4 DEF Alive
    <3>2. Below(x, p) = Below(s, p) BY <3>1, <2>2, <1>9
    <3> QED BY <3>1, <3>2, <1>0 DEF Closed
  <2> QED BY <2>1, <2>2
<1>17. SweepInv(x)
  <2> SUFFICES ASSUME s.state \notin Marking,
                      NEW p \in Obj, x.mark[p] \notin {"free", x.white}
               PROVE  p \in ToSweep(x)
    BY <1>1 DEF SweepInv
  <2>1. p # o /\ s.mark[p] \notin {"free", s.white} BY <1>1
  <2>2. p \in ToSweep(s) BY <2>1, <1>0 DEF SweepInv
  <2>3. IsOpen(x, p) = IsOpen(s, p) /\ x.open[p] = s.open[p] BY <2>1, <1>1, <1>7
  <2> QED BY <2>2, <2>3, <1>1 DEF ToSweep
<1>18. MarkInv(x, {}, {})
  <2> SUFFICES ASSUME s.state \in Marking
               PROVE  /\ ListInv(x) /\ BlackInv(x, {}, {}) /\ WhiteOf(x, {MainThread}) = {}
    BY <1>1 DEF MarkInv
  <2>1. ListInv(s) /\ BlackInv(s, {}, {}) /\ WhiteOf(s, {MainThread}) = {}
    BY DEF Sound, GcInv, MarkInv
  <2>2. \A p \in Obj : p # o => IsWhite(x, p) = IsWhite(s, p)
    BY <1>1 DEF IsWhite, Mark
  <2>3. ListInv(x)
    <3>1. \A p \in Obj : p \in s.gray \cup s.again \cup s.weak
                           <=> Tt[p] \in Chained /\ s.mark[p] = "gray"
      BY <2>1 DEF ListInv
    <3>2. \A p \in Obj : p \in x.gray \cup x.again \cup x.weak
                           <=> Tt[p] \in Chained /\ x.mark[p] = "gray"
      BY <3>1, <1>1, <1>2 DEF Whites
    <3>3. x.gray \cup x.again \cup x.weak = {p \in Obj : Tt[p] \in Chained /\ x.mark[p] = "gray"}
      <4>1. x.gray \cup x.again \cup x.weak \subseteq Obj BY <1>1, GStateIs
      <4> QED BY <3>2, <4>1
    <3>4. \A p \in Obj : x.mark[p] # OtherWhite(x) BY <2>1, <1>1, <1>2 DEF ListInv
    <3> QED BY <2>1, <3>3, <3>4, <1>1 DEF ListInv
  <2>4. BlackInv(x, {}, {})
    <3> SUFFICES ASSUME NEW p \in Obj, x.mark[p] = "black",
                        ~(p \in x.tmu /\ x.state \in Early)
                 PROVE  WhiteOf(x, Below(x, p)) \subseteq {}
      BY DEF BlackInv, Excused
    <3>1. p # o /\ s.mark[p] = "black" BY <1>1, <1>2 DEF Whites
    <3>2. WhiteOf(s, Below(s, p)) = {} BY <2>1, <3>1, <1>1 DEF BlackInv, Excused
    <3>3. p \in Alive(s) BY <3>1, <1>2 DEF Alive, IsDead, Mark, Whites
    <3>4. Below(s, p) \subseteq Alive(s) BY <3>3, <1>0 DEF Closed
    <3>5. Below(s, p) \subseteq Obj /\ o \notin Below(s, p) BY <3>4, <1>5 DEF Alive
    <3>6. Below(x, p) = Below(s, p) BY <3>1, <1>9
    <3>7. WhiteOf(x, Below(x, p)) = WhiteOf(s, Below(s, p)) BY <3>5, <3>6, <2>2 DEF WhiteOf
    <3> QED BY <3>2, <3>7
  <2>5. WhiteOf(x, {MainThread}) = {}
    <3>1. MainThread # o BY <1>0, <1>5 DEF Rooted
    <3> QED BY <2>1, <2>2, <3>1, MainIs DEF WhiteOf
  <2> QED BY <2>3, <2>4, <2>5
<1>19. Sound(x)
  BY <1>1, <1>11, <1>12, <1>13, <1>15, <1>16, <1>17, <1>18 DEF Sound, GcInv, HeapInv
<1> QED BY <1>1, <1>4, <1>6, <1>14, <1>19 DEF x

\* luaF_findupval: a fresh upvalue becomes a slot of a stack.
Opening(s, u, at) == [s EXCEPT !.open[u] = at]
LEMMA OpenKeeps ==
  ASSUME NEW s, Sound(s), s.state \notin Atomic, NEW u \in Obj, Tt[u] = "upval",
         ~IsOpen(s, u), s.mark[u] = s.white, s.ref[u][1] = Nil, u \notin s.sweep,
         NEW th \in Alive(s), Tt[th] = "thread", NEW j \in {2, 3}
  PROVE  LET x == Opening(s, u, <<th, j>>)
         IN  /\ Sound(x) /\ x.state = s.state /\ x.tmu = s.tmu /\ x.run = s.run
             /\ x.mark = s.mark /\ x.ref = s.ref /\ Alive(x) = Alive(s)
<1>0. /\ s \in GState /\ HeapInv(s) /\ SweepInv(s)
      /\ Shaped(s) /\ Opened(s) /\ Painted(s) /\ Rooted(s) /\ Closed(s)
  BY DEF Sound, GcInv, HeapInv
<1> DEFINE n == [s.open EXCEPT ![u] = <<th, j>>]
           x == [s EXCEPT !.open = n]
<1>1. Opening(s, u, <<th, j>>) = x BY <1>0 DEF GState, Opening
<1>2. th \in Obj /\ s.mark[th] # "free" BY DEF Alive
<1>3. /\ n \in [Obj -> {<<>>} \cup (Obj \X {2, 3})]
      /\ \A p \in Obj : n[p] = IF p = u THEN <<th, j>> ELSE s.open[p]
  <2>1. s.open \in [Obj -> {<<>>} \cup (Obj \X {2, 3})] BY <1>0, GStateIs
  <2>2. <<th, j>> \in Obj \X {2, 3} BY <1>2
  <2> QED BY <2>1, <2>2
<1> HIDE DEF n
<1>4. /\ x \in GState /\ x.open = n /\ x.ref = s.ref /\ x.meta = s.meta /\ x.mark = s.mark
      /\ x.state = s.state /\ x.white = s.white /\ x.tmu = s.tmu
      /\ x.str = s.str /\ x.size = s.size /\ x.sweep = s.sweep /\ x.run = s.run
      /\ x.gray = s.gray /\ x.again = s.again /\ x.weak = s.weak
  BY <1>0, <1>3 DEF GState
<1> HIDE DEF x
<1>5. /\ IsOpen(x, u) /\ x.open[u] = <<th, j>>
      /\ \A p \in Obj : p # u => IsOpen(x, p) = IsOpen(s, p) /\ x.open[p] = s.open[p]
  <2>1. x.open[u] = <<th, j>> BY <1>3, <1>4
  <2>2. <<th, j>> # <<>> OBVIOUS
  <2>3. IsOpen(x, u) BY <2>1, <2>2 DEF IsOpen
  <2>4. \A p \in Obj : p # u => x.open[p] = s.open[p] BY <1>3, <1>4
  <2> QED BY <2>1, <2>3, <2>4 DEF IsOpen
<1>6. \A p : IsDead(x, p) = IsDead(s, p) /\ IsWhite(x, p) = IsWhite(s, p)
  BY <1>4 DEF IsDead, IsWhite, Mark, OtherWhite
<1>7. Alive(x) = Alive(s) BY <1>4, <1>6 DEF Alive
<1>8. \A p \in Obj : p # u => Below(x, p) = Below(s, p)
  BY <1>4, <1>5 DEF Below, EmptyNode, UpvalValue
<1>9. Below(x, u) \subseteq Alive(s)
  <2>1. Slots(Tt[u]) = {1} BY DEF Slots
  <2>2. s.meta[u] = Nil BY <1>0 DEF Shaped
  <2>3. UpvalValue(x, u) = s.ref[th][j] BY <1>4, <1>5 DEF UpvalValue
  <2>4. Below(x, u) \subseteq {s.ref[th][j]} \ {Nil}
    BY <2>1, <2>2, <2>3, <1>4 DEF Below
  <2>5. {s.ref[th][j]} \ {Nil} \subseteq Below(s, th)
    <3>1. j \in Slots(Tt[th]) /\ ~EmptyNode(s, th) BY DEF Slots, EmptyNode
    <3> QED BY <3>1 DEF Below
  <2> QED BY <2>4, <2>5, <1>0 DEF Closed
<1>10. Shaped(x) BY <1>0, <1>4 DEF Shaped
<1>11. Opened(x)
  <2>1. s.mark[u] \notin {"free", "black"} BY <1>0, GStateIs DEF Whites
  <2>2. <<th, j>> \in Objs("thread") \X {2, 3} BY <1>2 DEF Objs
  <2> QED BY <2>1, <2>2, <1>0, <1>2, <1>4, <1>5 DEF Opened
<1>12. Painted(x) BY <1>0, <1>4, <1>5 DEF Painted
<1>13. Rooted(x) BY <1>0, <1>4, <1>7 DEF Rooted
<1>14. Closed(x)
  <2> SUFFICES ASSUME NEW p \in Alive(s) PROVE Below(x, p) \subseteq Alive(s)
    BY <1>7 DEF Closed
  <2>1. p \in Obj BY DEF Alive
  <2> QED BY <2>1, <1>0, <1>8, <1>9 DEF Closed
<1>15. SweepInv(x)
  <2> SUFFICES ASSUME s.state \notin Marking, NEW p \in Obj, s.mark[p] \notin {"free", s.white}
               PROVE  p \in ToSweep(x)
    BY <1>4 DEF SweepInv
  <2>1. p # u /\ p \in ToSweep(s) BY <1>0 DEF SweepInv
  <2> QED BY <2>1, <1>4, <1>5 DEF ToSweep
<1>16. MarkInv(x, {}, {})
  <2> SUFFICES ASSUME s.state \in Marking
               PROVE  /\ ListInv(x) /\ BlackInv(x, {}, {}) /\ WhiteOf(x, {MainThread}) = {}
    BY <1>4 DEF MarkInv
  <2>1. ListInv(s) /\ BlackInv(s, {}, {}) /\ WhiteOf(s, {MainThread}) = {}
    BY DEF Sound, GcInv, MarkInv
  <2>2. ListInv(x) BY <2>1, <1>4 DEF ListInv, OtherWhite
  <2>3. s.mark[u] # "black" BY <1>0, GStateIs DEF Whites
  <2>4. BlackInv(x, {}, {}) BY <2>1, <2>3, <1>4, <1>6, <1>8 DEF BlackInv, WhiteOf
  <2>5. WhiteOf(x, {MainThread}) = {} BY <2>1, <1>6 DEF WhiteOf
  <2> QED BY <2>2, <2>4, <2>5
<1>17. Sound(x)
  BY <1>4, <1>10, <1>11, <1>12, <1>13, <1>14, <1>15, <1>16 DEF Sound, GcInv, HeapInv
<1> QED BY <1>1, <1>4, <1>7, <1>17

-----------------------------------------------------------------------------
(* What a store changes.                                                   *)

LEMMA SlotKeeps ==
  ASSUME NEW s, NEW o \in Obj, NEW W, Nearly(s, {o}, W), W \subseteq OrNil(Alive(s)),
         NEW i \in Slots(Tt[o]), ~(Tt[o] = "table" /\ i = 3), ~IsOpen(s, o),
         NEW v \in W, v \in MayHold(Tt[o], i)
  PROVE  LET y == [s EXCEPT !.ref[o][i] = v]
         IN  Nearly(y, {o}, W) /\ SameButRefs(s, y) /\ Alive(y) = Alive(s)
<1>0. /\ s \in GState /\ HeapInv(s) /\ Shaped(s) /\ Opened(s)
  BY DEF Nearly, HeapInv
<1> DEFINE r == [s.ref EXCEPT ![o] = [s.ref[o] EXCEPT ![i] = v]]
           y == [s EXCEPT !.ref = r]
<1>1. [s EXCEPT !.ref[o][i] = v] = y BY <1>0 DEF GState
<1>2. o \in Obj /\ v \in OrNil(Obj) BY DEF Alive, OrNil
<1>3. DOMAIN r = Obj /\ \A p \in Obj : r[p] = IF p = o THEN [s.ref[o] EXCEPT ![i] = v] ELSE s.ref[p]
  BY <1>0, <1>2, GStateIs
<1>4. r = [p \in Obj |-> r[p]] BY <1>0, GStateIs
<1> HIDE DEF r
<1>5. s.ref[o] \in [Slots(Tt[o]) -> OrNil(Obj)] BY <1>0, <1>2 DEF Shaped
<1>6. /\ r[o] \in [Slots(Tt[o]) -> OrNil(Obj)]
      /\ \A k \in Slots(Tt[o]) : r[o][k] = IF k = i THEN v ELSE s.ref[o][k]
  BY <1>2, <1>3, <1>5
<1>7. \A p \in Obj : r[p] \in [Slots(Tt[p]) -> OrNil(Obj)]
  <2> SUFFICES ASSUME NEW p \in Obj PROVE r[p] \in [Slots(Tt[p]) -> OrNil(Obj)]
    OBVIOUS
  <2>1. CASE p = o BY <2>1, <1>6
  <2>2. CASE p # o BY <2>2, <1>0, <1>3 DEF Shaped
  <2> QED BY <2>1, <2>2
<1>8. r \in [Obj -> UNION {[Slots(t) -> OrNil(Obj)] : t \in Types}]
  BY <1>0, <1>3, <1>4, <1>7, RefType
<1>9. y \in GState /\ SameButRefs(s, y) /\ y.ref = r /\ y.meta = s.meta
  BY <1>0, <1>8 DEF GState, SameButRefs
<1> HIDE DEF y
<1>10. y.open = s.open /\ y.mark = s.mark BY <1>9 DEF SameButRefs
<1>11. Shaped(y)
  <2> SUFFICES ASSUME NEW p \in Obj
               PROVE  /\ r[p] \in [Slots(Tt[p]) -> OrNil(Obj)]
                      /\ s.mark[p] # "free" =>
                           \A k \in Slots(Tt[p]) : r[p][k] \in MayHold(Tt[p], k)
                      /\ s.meta[p] \in IF Tt[p] \in {"table", "udata"}
                                       THEN OrNil(Objs("table")) ELSE {Nil}
    BY <1>9, <1>10 DEF Shaped
  <2>1. r[p] \in [Slots(Tt[p]) -> OrNil(Obj)] BY <1>7
  <2>2. ASSUME s.mark[p] # "free", NEW k \in Slots(Tt[p]) PROVE r[p][k] \in MayHold(Tt[p], k)
    <3>1. s.ref[p][k] \in MayHold(Tt[p], k) BY <2>2, <1>0 DEF Shaped
    <3>2. CASE p = o BY <3>1, <3>2, <1>6
    <3>3. CASE p # o BY <3>1, <3>3, <1>3
    <3> QED BY <3>2, <3>3
  <2>3. s.meta[p] \in IF Tt[p] \in {"table", "udata"} THEN OrNil(Objs("table")) ELSE {Nil}
    BY <1>0 DEF Shaped
  <2> QED BY <2>1, <2>2, <2>3
<1>12. \A u \in Obj : IsOpen(s, u) => y.ref[u][1] = Nil
  BY <1>0, <1>3, <1>9 DEF Opened
<1>13. \A p : IsOpen(y, p) = IsOpen(s, p) BY <1>10 DEF IsOpen
<1>14. ASSUME NEW p \in Obj PROVE EmptyNode(y, p) = EmptyNode(s, p)
  <2>1. CASE p = o /\ Tt[p] = "table"
    <3>1. 3 \in Slots(Tt[o]) /\ i # 3 BY <2>1 DEF Slots
    <3> QED BY <2>1, <3>1, <1>6, <1>9 DEF EmptyNode
  <2>2. CASE p # o BY <2>2, <1>3, <1>9 DEF EmptyNode
  <2>3. CASE Tt[p] # "table" BY <2>3 DEF EmptyNode
  <2> QED BY <2>1, <2>2, <2>3
<1>15. ASSUME NEW p \in Obj, Tt[p] = "upval", s.mark[p] # "free"
       PROVE  /\ UpvalValue(y, p) \in {UpvalValue(s, p), v}
              /\ p # o /\ ~IsOpen(s, p) => UpvalValue(y, p) = UpvalValue(s, p)
  <2>1. CASE IsOpen(s, p)
    <3>1. s.open[p] \in Objs("thread") \X {2, 3} BY <2>1, <1>0, <1>15 DEF Opened
    <3>2. s.open[p][1] \in Obj /\ s.open[p][2] \in Slots(Tt[s.open[p][1]])
      BY <3>1 DEF Objs, Slots
    <3>3. r[s.open[p][1]][s.open[p][2]] \in {s.ref[s.open[p][1]][s.open[p][2]], v}
      BY <3>2, <1>3, <1>6
    <3> QED BY <2>1, <3>3, <1>9, <1>10, <1>13 DEF UpvalValue
  <2>2. CASE ~IsOpen(s, p)
    <3>1. 1 \in Slots(Tt[p]) BY <1>15 DEF Slots
    <3>2. CASE p = o BY <2>2, <3>1, <3>2, <1>6, <1>9, <1>13 DEF UpvalValue
    <3>3. CASE p # o BY <2>2, <3>3, <1>3, <1>9, <1>13, <1>15 DEF UpvalValue
    <3> QED BY <3>2, <3>3
  <2> QED BY <2>1, <2>2
<1>16. ASSUME NEW p \in Alive(s), NEW w \in Below(y, p) PROVE w \in Below(s, p) \cup {v}
  <2>1. p \in Obj /\ s.mark[p] # "free" BY DEF Alive
  <2>2. w # Nil /\ \/ \E k \in Slots(Tt[p]) : ~(k = 2 /\ EmptyNode(y, p)) /\ w = y.ref[p][k]
                   \/ w = y.meta[p]
                   \/ Tt[p] = "upval" /\ w = UpvalValue(y, p)
    BY <2>1, <1>9, <1>11, <1>16, BelowIs
  <2>3. ASSUME NEW k \in Slots(Tt[p]), ~(k = 2 /\ EmptyNode(y, p)), w = y.ref[p][k]
        PROVE  w \in Below(s, p) \cup {v}
    <3>1. w = s.ref[p][k] \/ w = v BY <2>1, <2>3, <1>3, <1>6, <1>9
    <3>2. ~(k = 2 /\ EmptyNode(s, p)) BY <2>1, <2>3, <1>14
    <3> QED BY <2>1, <2>2, <3>1, <3>2, <1>0, BelowIs
  <2>4. ASSUME w = y.meta[p] PROVE w \in Below(s, p) BY <2>1, <2>2, <2>4, <1>0, <1>9, BelowIs
  <2>5. ASSUME Tt[p] = "upval", w = UpvalValue(y, p) PROVE w \in Below(s, p) \cup {v}
    BY <2>1, <2>2, <2>5, <1>0, <1>15, BelowIs
  <2> QED BY <2>2, <2>3, <2>4, <2>5
<1>17. ASSUME NEW p \in Alive(s) \ {o}, s.mark[p] = "black", NEW w \in Below(y, p)
       PROVE  w \in Below(s, p)
  <2>1. p \in Obj /\ s.mark[p] # "free" /\ p # o BY DEF Alive
  <2>2. y.ref[p] = s.ref[p] /\ y.meta[p] = s.meta[p] /\ EmptyNode(y, p) = EmptyNode(s, p)
    BY <2>1, <1>3, <1>9, <1>14
  <2>3. ~IsOpen(s, p) BY <2>1, <1>0, <1>17 DEF Opened
  <2>4. Tt[p] = "upval" => UpvalValue(y, p) = UpvalValue(s, p) BY <2>1, <2>3, <1>15
  <2> QED BY <2>2, <2>4, <1>17 DEF Below
<1>18. \A p \in Alive(s) : Below(y, p) \subseteq Below(s, p) \cup W BY <1>16
<1>19. \A p \in Alive(s) \ {o} : s.mark[p] = "black" => Below(y, p) \subseteq Below(s, p)
  BY <1>17
<1>20. Nearly(y, {o}, W) /\ Alive(y) = Alive(s)
  BY <1>9, <1>11, <1>12, <1>18, <1>19, StoreKeeps
<1> QED BY <1>1, <1>9, <1>20

\* A register has no barrier: no thread is black.
LEMMA RegisterKeeps ==
  ASSUME NEW s, Sound(s), s.state \notin Atomic, NEW th \in Obj, Tt[th] = "thread",
         NEW i \in 1..3, NEW v \in OrNil(Alive(s)), v \in MayHold("thread", i)
  PROVE  LET y == [s EXCEPT !.ref[th][i] = v]
         IN  Sound(y) /\ SameButRefs(s, y) /\ Alive(y) = Alive(s)
<1> DEFINE y == [s EXCEPT !.ref[th][i] = v]
           W == {v}
<1>1. Nearly(s, {th}, W) BY SoundIsNearly
<1>2. Opened(s) /\ th \in Obj /\ i \in Slots(Tt[th]) /\ W \subseteq OrNil(Alive(s)) /\ v \in W
  BY DEF Sound, GcInv, HeapInv, Alive, Slots
<1>3. ~IsOpen(s, th) BY <1>2 DEF Opened
<1>4. Nearly(y, {th}, W) /\ SameButRefs(s, y) /\ Alive(y) = Alive(s)
  <2>1. ~(Tt[th] = "table" /\ i = 3) /\ v \in MayHold(Tt[th], i) OBVIOUS
  <2> HIDE DEF W
  <2> QED BY <2>1, <1>1, <1>2, <1>3, SlotKeeps
<1> HIDE DEF y, W
<1>5. y.mark[th] # "black" BY <1>2, <1>4 DEF Nearly, HeapInv, Painted
<1>6. BlackInv(y, {th}, W) => BlackInv(y, {}, W) BY <1>5 DEF BlackInv, Excused
<1>7. Nearly(y, {}, W) BY <1>4, <1>6 DEF Nearly
<1>8. Sound(y) BY <1>7, NearlyIsSound
<1> QED BY <1>4, <1>8 DEF y

LEMMA MetaKeeps ==
  ASSUME NEW s, Sound(s), s.state \notin Atomic, NEW o \in Alive(s),
         Tt[o] \in {"table", "udata"},
         NEW m \in OrNil(Alive(s)), m \in OrNil(Objs("table"))
  PROVE  LET y == [s EXCEPT !.meta[o] = m]
         IN  Nearly(y, {o}, {m}) /\ SameButRefs(s, y) /\ Alive(y) = Alive(s)
<1>0. /\ s \in GState /\ HeapInv(s) /\ Shaped(s) /\ Opened(s)
  BY DEF Sound, GcInv, HeapInv
<1> DEFINE a == [s.meta EXCEPT ![o] = m]
           y == [s EXCEPT !.meta = a]
<1>1. [s EXCEPT !.meta[o] = m] = y BY <1>0 DEF GState
<1>2. o \in Obj /\ m \in OrNil(Obj) BY DEF Alive, OrNil
<1>3. /\ a \in [Obj -> OrNil(Obj)]
      /\ \A p \in Obj : a[p] = IF p = o THEN m ELSE s.meta[p]
  BY <1>0, <1>2, GStateIs
<1> HIDE DEF a
<1>4. y \in GState /\ SameButRefs(s, y) /\ y.meta = a /\ y.ref = s.ref
  BY <1>0, <1>3 DEF GState, SameButRefs
<1> HIDE DEF y
<1>5. y.open = s.open /\ y.mark = s.mark BY <1>4 DEF SameButRefs
<1>6. Shaped(y)
  <2> SUFFICES ASSUME NEW p \in Obj
               PROVE  a[p] \in IF Tt[p] \in {"table", "udata"}
                               THEN OrNil(Objs("table")) ELSE {Nil}
    BY <1>0, <1>4, <1>5 DEF Shaped
  <2>1. CASE p = o BY <2>1, <1>3
  <2>2. CASE p # o BY <2>2, <1>0, <1>3 DEF Shaped
  <2> QED BY <2>1, <2>2
<1>7. \A u \in Obj : IsOpen(s, u) => y.ref[u][1] = Nil BY <1>0, <1>4 DEF Opened
<1>8. ASSUME NEW p \in Obj
      PROVE  /\ Below(y, p) \subseteq Below(s, p) \cup {m}
             /\ p # o => Below(y, p) = Below(s, p)
  <2>1. EmptyNode(y, p) = EmptyNode(s, p) /\ UpvalValue(y, p) = UpvalValue(s, p)
    BY <1>4, <1>5 DEF EmptyNode, UpvalValue, IsOpen
  <2>2. y.meta[p] = IF p = o THEN m ELSE s.meta[p] BY <1>3, <1>4
  <2> QED BY <2>1, <2>2, <1>4 DEF Below
<1>9. \A p \in Alive(s) : Below(y, p) \subseteq Below(s, p) \cup {m} BY <1>8 DEF Alive
<1>10. \A p \in Alive(s) \ {o} : s.mark[p] = "black" => Below(y, p) \subseteq Below(s, p)
  BY <1>8 DEF Alive
<1>11. {m} \subseteq OrNil(Alive(s)) /\ Nearly(s, {o}, {m}) BY SoundIsNearly
<1>12. Nearly(y, {o}, {m}) /\ Alive(y) = Alive(s)
  <2> DEFINE E == {o}
             W == {m}
  <2>1. /\ W \subseteq OrNil(Alive(s)) /\ Nearly(s, E, W)
        /\ \A p \in Alive(s) : Below(y, p) \subseteq Below(s, p) \cup W
        /\ \A p \in Alive(s) \ E : s.mark[p] = "black" => Below(y, p) \subseteq Below(s, p)
    BY <1>9, <1>10, <1>11
  <2> HIDE DEF E, W
  <2>2. Nearly(y, E, W) /\ Alive(y) = Alive(s) BY <2>1, <1>4, <1>6, <1>7, StoreKeeps
  <2> QED BY <2>2 DEF E, W
<1> QED BY <1>1, <1>4, <1>12

\* luaH_set: a key and its value.
LEMMA NodeKeeps ==
  ASSUME NEW s, Sound(s), s.state \notin Atomic, NEW t \in Alive(s), Tt[t] = "table",
         NEW k \in Alive(s), k \in Values, NEW v \in OrNil(Alive(s)), v \in Values
  PROVE  LET y == [s EXCEPT !.ref[t][2] = k, !.ref[t][3] = v]
         IN  Nearly(y, {t}, {k, v}) /\ SameButRefs(s, y) /\ Alive(y) = Alive(s)
<1>0. /\ s \in GState /\ HeapInv(s) /\ Shaped(s) /\ Opened(s)
  BY DEF Sound, GcInv, HeapInv
<1> DEFINE e == [[s.ref[t] EXCEPT ![2] = k] EXCEPT ![3] = v]
           r == [s.ref EXCEPT ![t] = e]
           y == [s EXCEPT !.ref = r]
<1>2. t \in Obj /\ k \in OrNil(Obj) /\ v \in OrNil(Obj) BY DEF Alive, OrNil
<1>1. [s EXCEPT !.ref[t][2] = k, !.ref[t][3] = v] = y
  <2> DEFINE q == [s.ref EXCEPT ![t] = [s.ref[t] EXCEPT ![2] = k]]
             z == [s EXCEPT !.ref = q]
  <2>1. DOMAIN s.ref = Obj BY <1>0, GStateIs
  <2>2. [q EXCEPT ![t] = [q[t] EXCEPT ![3] = v]] = r BY <2>1, <1>2
  <2> HIDE DEF r
  <2>3. z.ref = q /\ [z EXCEPT !.ref = r] = y BY <1>0 DEF GState
  <2>4. [s EXCEPT !.ref[t][2] = k, !.ref[t][3] = v]
          = [z EXCEPT !.ref = [z.ref EXCEPT ![t] = [z.ref[t] EXCEPT ![3] = v]]]
    OBVIOUS
  <2> HIDE DEF z, q
  <2> QED BY <2>2, <2>3, <2>4
<1>3. Slots(Tt[t]) = 1..3 BY DEF Slots
<1>4. s.ref[t] \in [1..3 -> OrNil(Obj)] BY <1>0, <1>2, <1>3 DEF Shaped
<1>5. /\ e \in [1..3 -> OrNil(Obj)]
      /\ e[1] = s.ref[t][1] /\ e[2] = k /\ e[3] = v
  BY <1>2, <1>4
<1> HIDE DEF e
<1>6. DOMAIN r = Obj /\ \A p \in Obj : r[p] = IF p = t THEN e ELSE s.ref[p]
  BY <1>0, <1>2, GStateIs
<1>7. r = [p \in Obj |-> r[p]] BY <1>0, GStateIs
<1> HIDE DEF r
<1>8. \A p \in Obj : r[p] \in [Slots(Tt[p]) -> OrNil(Obj)]
  <2> SUFFICES ASSUME NEW p \in Obj PROVE r[p] \in [Slots(Tt[p]) -> OrNil(Obj)]
    OBVIOUS
  <2>1. CASE p = t BY <2>1, <1>3, <1>5, <1>6
  <2>2. CASE p # t BY <2>2, <1>0, <1>6 DEF Shaped
  <2> QED BY <2>1, <2>2
<1>9. r \in [Obj -> UNION {[Slots(q) -> OrNil(Obj)] : q \in Types}]
  BY <1>0, <1>6, <1>7, <1>8, RefType
<1>10. y \in GState /\ SameButRefs(s, y) /\ y.ref = r /\ y.meta = s.meta
  BY <1>0, <1>9 DEF GState, SameButRefs
<1> HIDE DEF y
<1>11. y.open = s.open /\ y.mark = s.mark BY <1>10 DEF SameButRefs
<1>12. Shaped(y)
  <2> SUFFICES ASSUME NEW p \in Obj
               PROVE  s.mark[p] # "free" =>
                        \A i \in Slots(Tt[p]) : r[p][i] \in MayHold(Tt[p], i)
    BY <1>0, <1>8, <1>10, <1>11 DEF Shaped
  <2>1. CASE p = t
    <3>1. \A i \in 1..3 : MayHold("table", i) = Values BY DEF MayHold
    <3>2. s.mark[p] # "free" => s.ref[t][1] \in Values
      BY <2>1, <3>1, <1>0, <1>2, <1>3 DEF Shaped
    <3>3. \A i \in 1..3 : i = 1 \/ i = 2 \/ i = 3 OBVIOUS
    <3>4. s.mark[p] # "free" => \A i \in 1..3 : r[p][i] \in Values
      BY <2>1, <3>2, <3>3, <1>5, <1>6
    <3> QED BY <2>1, <3>1, <3>4, <1>3
  <2>2. CASE p # t BY <2>2, <1>0, <1>6 DEF Shaped
  <2> QED BY <2>1, <2>2
<1>13. \A u \in Obj : IsOpen(s, u) => u # t BY <1>0 DEF Opened
<1>14. \A u \in Obj : IsOpen(s, u) => y.ref[u][1] = Nil
  BY <1>0, <1>6, <1>10, <1>13 DEF Opened
<1>15. ASSUME NEW p \in Obj, p # t PROVE Below(y, p) = Below(s, p)
  <2>1. y.ref[p] = s.ref[p] BY <1>6, <1>10, <1>15
  <2>2. EmptyNode(y, p) = EmptyNode(s, p) BY <2>1 DEF EmptyNode
  <2>3. IsOpen(s, p) => s.open[p][1] \in Obj /\ s.open[p][1] # t
    BY <1>0 DEF Opened, Objs
  <2>4. UpvalValue(y, p) = UpvalValue(s, p)
    BY <2>1, <2>3, <1>6, <1>10, <1>11 DEF UpvalValue, IsOpen
  <2> QED BY <2>1, <2>2, <2>4, <1>10 DEF Below
<1>16. Below(y, t) \subseteq Below(s, t) \cup {k, v}
  <2> SUFFICES ASSUME NEW w \in Below(y, t) PROVE w \in Below(s, t) \cup {k, v}
    OBVIOUS
  <2>1. w # Nil /\ (w \in {e[i] : i \in 1..3} \/ w = s.meta[t])
    BY <1>2, <1>3, <1>6, <1>10 DEF Below
  <2>2. w \in {s.ref[t][1], k, v} \/ w = s.meta[t]
    <3>1. \A i \in 1..3 : i = 1 \/ i = 2 \/ i = 3 OBVIOUS
    <3> QED BY <2>1, <3>1, <1>5
  <2>3. ASSUME w = s.ref[t][1] \/ w = s.meta[t] PROVE w \in Below(s, t)
    <3>1. 1 \in Slots(Tt[t]) BY <1>3
    <3> QED BY <2>1, <2>3, <3>1 DEF Below
  <2> QED BY <2>2, <2>3
<1>17. t \in Obj /\ Alive(s) \subseteq Obj BY DEF Alive
<1>18. Nearly(y, {t}, {k, v}) /\ Alive(y) = Alive(s)
  <2> DEFINE E == {t}
             W == {k, v}
  <2>1. Nearly(s, E, W) BY SoundIsNearly
  <2>2. W \subseteq OrNil(Alive(s)) BY DEF OrNil
  <2>3. \A p \in Alive(s) : Below(y, p) \subseteq Below(s, p) \cup W BY <1>15, <1>16, <1>17
  <2>4. \A p \in Alive(s) \ E : s.mark[p] = "black" => Below(y, p) \subseteq Below(s, p)
    BY <1>15, <1>17
  <2> HIDE DEF E, W
  <2>5. Nearly(y, E, W) /\ Alive(y) = Alive(s)
    BY <2>1, <2>2, <2>3, <2>4, <1>10, <1>12, <1>14, StoreKeeps
  <2> QED BY <2>5 DEF E, W
<1> QED BY <1>1, <1>10, <1>18

-----------------------------------------------------------------------------
(* The program's operations, one by one.                                   *)

LEMMA SetElementKeeps ==
  ASSUME Sound(g), Calm(g), SetElement
  PROVE  Sound(g') /\ Calm(g')
<1>0. HeapInv(g) /\ g.state \notin Atomic BY DEF Sound, GcInv, SetElement, Op
<1>1. PICK t \in Written \cap Usable(g) \cap Objs("table"), v \in UsableValues(g) :
         g' = BarrierT([g EXCEPT !.ref[t][1] = v], t, v)
  BY DEF SetElement
<1>2. t \in Alive(g) /\ t \in Obj /\ Tt[t] = "table" BY <1>0, UsableIs DEF Objs
<1>3. v \in OrNil(Alive(g)) /\ v \in Values BY <1>0, UsableIs DEF OrNil, Values
<1> DEFINE y == [g EXCEPT !.ref[t][1] = v]
           W == {v}
<1>4. Nearly(y, {t}, W) /\ SameButRefs(g, y)
  <2>1. Nearly(g, {t}, W) BY <1>0, SoundIsNearly
  <2>2. ~IsOpen(g, t) BY <1>0, <1>2 DEF HeapInv, Opened
  <2>3. 1 \in Slots(Tt[t]) /\ ~(Tt[t] = "table" /\ 1 = 3) /\ v \in MayHold(Tt[t], 1)
    BY <1>2, <1>3 DEF Slots, MayHold
  <2>4. W \subseteq OrNil(Alive(g)) /\ v \in W BY <1>3
  <2> HIDE DEF W
  <2> QED BY <2>1, <2>2, <2>3, <2>4, <1>2, SlotKeeps
<1> HIDE DEF y, W
<1>5. g' = BarrierT(y, t, v) BY <1>1 DEF y
<1>6. Nearly(g', {t}, W \ {v}) /\ g'.state = y.state /\ g'.tmu = y.tmu
  BY <1>2, <1>4, <1>5, BarrierTKeeps
<1>7. W \ {v} = {} BY DEF W
<1>8. Sound(g') BY <1>6, <1>7, NearlyIsSound
<1> QED BY <1>4, <1>6, <1>8 DEF Calm, SameButRefs

LEMMA SetNodeKeeps ==
  ASSUME Sound(g), Calm(g), SetNode
  PROVE  Sound(g') /\ Calm(g')
<1>0. HeapInv(g) /\ g.state \notin Atomic BY DEF Sound, GcInv, SetNode, Op
<1>1. PICK t \in Written \cap Usable(g) \cap Objs("table"),
           k \in NodeKeys \cap Usable(g) \cap Values, v \in UsableValues(g) :
         g' = BarrierT(BarrierT([g EXCEPT !.ref[t][2] = k, !.ref[t][3] = v], t, k), t, v)
  BY DEF SetNode
<1>2. t \in Alive(g) /\ t \in Obj /\ Tt[t] = "table" BY <1>0, UsableIs DEF Objs
<1>3. k \in Alive(g) /\ k \in Values BY <1>0, UsableIs
<1>4. v \in OrNil(Alive(g)) /\ v \in Values BY <1>0, UsableIs DEF OrNil, Values
<1> DEFINE y == [g EXCEPT !.ref[t][2] = k, !.ref[t][3] = v]
           W == {k, v}
           x == BarrierT(y, t, k)
<1>5. Nearly(y, {t}, W) /\ SameButRefs(g, y) BY <1>0, <1>2, <1>3, <1>4, NodeKeeps
<1>6. g' = BarrierT(x, t, v) BY <1>1
<1>7. (W \ {k}) \ {v} = {} OBVIOUS
<1> HIDE DEF y, W
<1>8. Nearly(x, {t}, W \ {k}) /\ x.state = y.state /\ x.tmu = y.tmu
  BY <1>2, <1>5, BarrierTKeeps
<1> HIDE DEF x
<1> DEFINE V == W \ {k}
<1>9. Nearly(g', {t}, V \ {v}) /\ g'.state = x.state /\ g'.tmu = x.tmu
  <2>1. Nearly(x, {t}, V) BY <1>8
  <2> HIDE DEF V
  <2> QED BY <2>1, <1>2, <1>6, BarrierTKeeps
<1>10. Sound(g')
  <2>1. V \ {v} = {} BY <1>7
  <2> HIDE DEF V
  <2> QED BY <2>1, <1>9, NearlyIsSound
<1> QED BY <1>5, <1>8, <1>9, <1>10 DEF Calm, SameButRefs

LEMMA SetMetatableKeeps ==
  ASSUME Sound(g), Calm(g), SetMetatable
  PROVE  Sound(g') /\ Calm(g')
<1>0. HeapInv(g) /\ g.state \notin Atomic BY DEF Sound, GcInv, SetMetatable, Op
<1>1. PICK o \in Usable(g) \cap (Written \cup Objs("udata")),
           m \in OrNil(Usable(g) \cap Objs("table")) :
         \/ Tt[o] = "table" /\ g' = BarrierT([g EXCEPT !.meta[o] = m], o, m)
         \/ Tt[o] = "udata" /\ g' = BarrierF([g EXCEPT !.meta[o] = m], o, m)
  BY DEF SetMetatable
<1>2. o \in Alive(g) /\ o \in Obj /\ Tt[o] \in {"table", "udata"} BY <1>0, <1>1, UsableIs DEF Alive
<1>3. m \in OrNil(Alive(g)) /\ m \in OrNil(Objs("table")) /\ m \in OrNil(Obj)
  BY <1>0, UsableIs DEF OrNil, Objs
<1> DEFINE y == [g EXCEPT !.meta[o] = m]
           W == {m}
<1>4. Nearly(y, {o}, W) /\ SameButRefs(g, y) BY <1>0, <1>2, <1>3, MetaKeeps
<1>5. W \ {m} = {} OBVIOUS
<1> HIDE DEF y, W
<1>6. Nearly(g', {o}, W \ {m}) /\ g'.state = y.state /\ g'.tmu = y.tmu
  <2>1. CASE Tt[o] = "table"
    <3>1. g' = BarrierT(y, o, m) BY <2>1, <1>1 DEF y
    <3> QED BY <2>1, <3>1, <1>2, <1>4, BarrierTKeeps
  <2>2. CASE Tt[o] = "udata"
    <3>1. g' = BarrierF(y, o, m) BY <2>2, <1>1 DEF y
    <3> QED BY <2>2, <3>1, <1>2, <1>3, <1>4, BarrierFKeeps
  <2> QED BY <2>1, <2>2, <1>2
<1>7. Sound(g') BY <1>5, <1>6, NearlyIsSound
<1> QED BY <1>4, <1>6, <1>7 DEF Calm, SameButRefs

LEMMA SetLocalKeeps ==
  ASSUME Sound(g), Calm(g), SetLocal
  PROVE  Sound(g') /\ Calm(g')
<1>0. HeapInv(g) /\ g.state \notin Atomic BY DEF Sound, GcInv, SetLocal, Op
<1>1. PICK i \in 2..3, v \in UsableValues(g) : g' = [g EXCEPT !.ref[g.run][i] = v]
  BY DEF SetLocal
<1>2. g.run \in Obj /\ Tt[g.run] = "thread" BY <1>0, GStateIs DEF HeapInv
<1>3. v \in OrNil(Alive(g)) /\ v \in Values BY <1>0, UsableIs DEF OrNil, Values
<1>4. i \in 1..3 /\ v \in MayHold("thread", i) BY <1>3 DEF MayHold
<1>5. Sound(g') /\ SameButRefs(g, g') BY <1>0, <1>1, <1>2, <1>3, <1>4, RegisterKeeps
<1> QED BY <1>5 DEF Calm, SameButRefs

LEMMA SetUpvalKeeps ==
  ASSUME Sound(g), Calm(g), SetUpval
  PROVE  Sound(g') /\ Calm(g')
<1>0. /\ HeapInv(g) /\ g.state \notin Atomic
      /\ g \in GState /\ Shaped(g) /\ Opened(g) /\ Closed(g)
  BY DEF Sound, GcInv, HeapInv, SetUpval, Op
<1>1. PICK f \in Usable(g) \cap Objs("function"), v \in UsableValues(g) :
         LET u == g.ref[f][3]
             at == IF IsOpen(g, u) THEN g.open[u] ELSE <<u, 1>>
         IN  g' = BarrierF([g EXCEPT !.ref[at[1]][at[2]] = v], u, v)
  BY DEF SetUpval
<1> DEFINE u == g.ref[f][3]
           at == IF IsOpen(g, u) THEN g.open[u] ELSE <<u, 1>>
           y == [g EXCEPT !.ref[at[1]][at[2]] = v]
           W == {v}
<1>2. f \in Alive(g) /\ f \in Obj /\ g.mark[f] # "free" /\ Tt[f] = "function"
  BY <1>0, UsableIs DEF Objs, Alive
<1>3. v \in OrNil(Alive(g)) /\ v \in Values /\ v \in OrNil(Obj)
  BY <1>0, UsableIs DEF OrNil, Values
<1>4. u \in Alive(g) /\ u \in Obj /\ Tt[u] = "upval"
  <2>1. 3 \in Slots(Tt[f]) /\ ~EmptyNode(g, f) BY <1>2 DEF Slots, EmptyNode
  <2>2. u \in MayHold(Tt[f], 3) BY <2>1, <1>0, <1>2 DEF Shaped
  <2>3. u \in Objs("upval") BY <2>2, <1>2 DEF MayHold
  <2>4. u # Nil BY <2>3, GcConstants DEF Objs
  <2>5. u \in Below(g, f) BY <2>1, <2>4 DEF Below
  <2> QED BY <2>3, <2>5, <1>0, <1>2 DEF Closed, Objs
<1>5. g' = BarrierF(y, u, v) BY <1>1
<1> HIDE DEF u
<1>6. Nearly(y, {u}, W) /\ SameButRefs(g, y)
  <2>1. CASE IsOpen(g, u)
    <3>1. PICK th \in Objs("thread"), j \in {2, 3} : g.open[u] = <<th, j>>
      BY <2>1, <1>0, <1>4 DEF Opened
    <3>2. at[1] = th /\ at[2] = j BY <2>1, <3>1
    <3>3. th \in Obj /\ Tt[th] = "thread" BY <3>1 DEF Objs
    <3>4. y = [g EXCEPT !.ref[th][j] = v] BY <3>2
    <3> HIDE DEF y, at
    <3>5. j \in 1..3 /\ v \in MayHold("thread", j) BY <1>3 DEF MayHold
    <3>6. Sound(y) /\ SameButRefs(g, y) BY <3>3, <3>4, <3>5, <1>0, <1>3, RegisterKeeps
    <3>7. Nearly(y, {u}, W) BY <3>6, <1>0, SoundIsNearly DEF SameButRefs
    <3> QED BY <3>6, <3>7
  <2>2. CASE ~IsOpen(g, u)
    <3>1. at[1] = u /\ at[2] = 1 BY <2>2
    <3>2. y = [g EXCEPT !.ref[u][1] = v] BY <3>1
    <3> HIDE DEF y, at
    <3>3. Nearly(g, {u}, W) BY <1>0, SoundIsNearly
    <3>4. 1 \in Slots(Tt[u]) /\ ~(Tt[u] = "table" /\ 1 = 3) /\ v \in MayHold(Tt[u], 1)
      BY <1>3, <1>4 DEF Slots, MayHold
    <3>5. W \subseteq OrNil(Alive(g)) /\ v \in W BY <1>3
    <3> HIDE DEF W
    <3> QED BY <2>2, <3>2, <3>3, <3>4, <3>5, <1>4, SlotKeeps
  <2> QED BY <2>1, <2>2
<1>7. W \ {v} = {} OBVIOUS
<1> HIDE DEF y, W, at
<1>8. Nearly(g', {u}, W \ {v}) /\ g'.state = y.state /\ g'.tmu = y.tmu
  BY <1>3, <1>4, <1>5, <1>6, BarrierFKeeps
<1>9. Sound(g') BY <1>7, <1>8, NearlyIsSound
<1> QED BY <1>6, <1>8, <1>9 DEF Calm, SameButRefs

LEMMA SetFenvKeeps ==
  ASSUME Sound(g), Calm(g), SetFenv
  PROVE  Sound(g') /\ Calm(g')
<1>0. /\ HeapInv(g) /\ g.state \notin Atomic
      /\ g \in GState /\ Opened(g) /\ Painted(g)
  BY DEF Sound, GcInv, HeapInv, SetFenv, Op
<1>1. PICK o \in {x \in Usable(g) : Tt[x] \in {"function", "udata", "thread"}},
           e \in Usable(g) \cap Objs("table") :
         g' = BarrierF([g EXCEPT !.ref[o][1] = e], o, e)
  BY DEF SetFenv
<1> DEFINE y == [g EXCEPT !.ref[o][1] = e]
           W == {e}
<1>2. o \in Alive(g) /\ o \in Obj /\ Tt[o] \in {"function", "udata", "thread"}
  BY <1>0, UsableIs DEF Alive
<1>3. e \in OrNil(Alive(g)) /\ e \in OrNil(Obj) /\ e \in OrNil(Objs("table"))
  BY <1>0, UsableIs DEF OrNil, Objs
<1>4. 1 \in Slots(Tt[o]) /\ e \in MayHold(Tt[o], 1) BY <1>2, <1>3 DEF Slots, MayHold
<1>5. Nearly(y, {o}, W) /\ SameButRefs(g, y)
  <2>1. Nearly(g, {o}, W) BY <1>0, SoundIsNearly
  <2>2. ~IsOpen(g, o) /\ ~(Tt[o] = "table" /\ 1 = 3) BY <1>0, <1>2 DEF Opened
  <2>3. W \subseteq OrNil(Alive(g)) /\ e \in W BY <1>3
  <2> HIDE DEF W
  <2> QED BY <2>1, <2>2, <2>3, <1>2, <1>4, SlotKeeps
<1>6. g' = BarrierF(y, o, e) BY <1>1
<1>7. W \ {e} = {} OBVIOUS
<1> HIDE DEF y, W
<1>8. CASE Tt[o] # "thread"
  <2>1. Nearly(g', {o}, W \ {e}) /\ g'.state = y.state /\ g'.tmu = y.tmu
    BY <1>2, <1>3, <1>5, <1>6, <1>8, BarrierFKeeps
  <2>2. Sound(g') BY <1>7, <2>1, NearlyIsSound
  <2> QED BY <1>5, <2>1, <2>2 DEF Calm, SameButRefs
\* No thread is black.
<1>9. CASE Tt[o] = "thread"
  <2>1. y.mark[o] # "black" BY <1>0, <1>2, <1>5, <1>9 DEF Painted, SameButRefs
  <2>2. g' = y BY <2>1, <1>6 DEF BarrierF, Mark
  <2>3. BlackInv(y, {o}, W) => BlackInv(y, {}, W) BY <2>1 DEF BlackInv, Excused
  <2>4. Nearly(y, {}, W) BY <2>3, <1>5 DEF Nearly
  <2>5. Sound(y) BY <2>4, NearlyIsSound
  <2> QED BY <2>2, <2>5, <1>5 DEF Calm, SameButRefs
<1> QED BY <1>8, <1>9

LEMMA CloseOpKeeps ==
  ASSUME Sound(g), Calm(g), Close
  PROVE  Sound(g') /\ Calm(g')
<1>1. g.state \notin Atomic /\ g' = CloseUpvals(g, g.run) BY DEF Close, Op
<1>2. g.run \in Obj /\ Tt[g.run] = "thread" BY GStateIs DEF Sound, GcInv, HeapInv
<1> QED BY <1>1, <1>2, CloseKeeps DEF Calm

LEMMA RunKeeps ==
  ASSUME NEW s, Sound(s), s.state \notin Atomic, NEW th \in Alive(s), th \in Objs("thread")
  PROVE  LET x == [s EXCEPT !.run = th] IN
         Sound(x) /\ x.state = s.state /\ x.tmu = s.tmu
<1>0. /\ HeapInv(s) /\ SweepInv(s) /\ MarkInv(s, {}, {})
      /\ s \in GState /\ Shaped(s) /\ Opened(s) /\ Painted(s) /\ Rooted(s) /\ Closed(s)
  BY DEF Sound, GcInv, HeapInv
<1> DEFINE x == [s EXCEPT !.run = th]
<1>3. /\ x \in GState /\ x.ref = s.ref /\ x.meta = s.meta /\ x.mark = s.mark /\ x.open = s.open
      /\ x.state = s.state /\ x.white = s.white /\ x.tmu = s.tmu
      /\ x.str = s.str /\ x.size = s.size /\ x.sweep = s.sweep /\ x.run = th
      /\ x.gray = s.gray /\ x.again = s.again /\ x.weak = s.weak
  BY <1>0 DEF GState
<1> HIDE DEF x
<1>5. \A o : Below(x, o) = Below(s, o) /\ IsOpen(x, o) = IsOpen(s, o)
  BY <1>3, HeapReads DEF SameHeap
<1>6. \A o : IsDead(x, o) = IsDead(s, o) /\ IsWhite(x, o) = IsWhite(s, o)
  BY <1>3 DEF IsDead, IsWhite, Mark, OtherWhite
<1>7. Alive(x) = Alive(s) BY <1>3, <1>6 DEF Alive
<1>8. Shaped(x) BY <1>0, <1>3 DEF Shaped
<1>9. Opened(x) BY <1>0, <1>3, <1>5 DEF Opened
<1>10. Painted(x) BY <1>0, <1>3, <1>5 DEF Painted
<1>11. Rooted(x) BY <1>0, <1>3, <1>7 DEF Rooted
<1>12. Closed(x) BY <1>0, <1>5, <1>7 DEF Closed
<1>13. SweepInv(x) BY <1>0, <1>3, <1>5 DEF SweepInv, ToSweep
<1>14. MarkInv(x, {}, {})
  <2> SUFFICES ASSUME x.state \in Marking
               PROVE  /\ ListInv(x) /\ BlackInv(x, {}, {}) /\ WhiteOf(x, {MainThread}) \subseteq {}
    BY <1>0, <1>3 DEF MarkInv
  <2>1. ListInv(s) /\ BlackInv(s, {}, {}) /\ WhiteOf(s, {MainThread}) \subseteq {}
    BY <1>0, <1>3 DEF MarkInv
  <2>2. ListInv(x) BY <2>1, <1>3 DEF ListInv, OtherWhite
  <2>3. BlackInv(x, {}, {}) BY <2>1, <1>3, <1>5, <1>6 DEF BlackInv, WhiteOf
  <2>4. WhiteOf(x, {MainThread}) \subseteq {} BY <2>1, <1>6 DEF WhiteOf
  <2> QED BY <2>2, <2>3, <2>4
<1>15. Sound(x)
  BY <1>3, <1>8, <1>9, <1>10, <1>11, <1>12, <1>13, <1>14 DEF Sound, GcInv, HeapInv
<1> QED BY <1>3, <1>15 DEF x

LEMMA SwitchKeeps ==
  ASSUME Sound(g), Calm(g), Switch
  PROVE  Sound(g') /\ Calm(g')
<1>1. PICK th \in (Usable(g) \cap Objs("thread")) \ {g.run} : g' = [g EXCEPT !.run = th]
  BY DEF Switch
<1>2. g.state \notin Atomic /\ HeapInv(g) BY DEF Switch, Op, Sound, GcInv
<1>3. th \in Alive(g) /\ th \in Objs("thread") BY <1>2, UsableIs
<1> QED BY <1>1, <1>2, <1>3, RunKeeps DEF Calm

\* A thread's environment is a live table.
LEMMA GlobalsIs ==
  ASSUME NEW s, HeapInv(s)
  PROVE  s.ref[s.run][1] \in OrNil(Alive(s)) /\ s.ref[s.run][1] \in OrNil(Objs("table"))
<1>0. s \in GState /\ Shaped(s) /\ Rooted(s) /\ Closed(s) BY DEF HeapInv
<1>1. s.run \in Obj /\ s.run \in Alive(s) /\ Tt[s.run] = "thread" /\ s.mark[s.run] # "free"
  BY <1>0, GStateIs DEF Rooted, Alive
<1>2. 1 \in Slots(Tt[s.run]) /\ ~EmptyNode(s, s.run) BY <1>1 DEF Slots, EmptyNode
<1>3. s.ref[s.run][1] \in MayHold(Tt[s.run], 1) BY <1>0, <1>1, <1>2 DEF Shaped
<1>4. s.ref[s.run][1] # Nil => s.ref[s.run][1] \in Below(s, s.run) BY <1>2 DEF Below
<1> QED BY <1>0, <1>1, <1>3, <1>4 DEF MayHold, OrNil, Closed

LEMMA NewKeeps ==
  ASSUME Sound(g), Calm(g), New
  PROVE  Sound(g') /\ Calm(g')
<1>0. /\ HeapInv(g) /\ g.state \notin Atomic /\ g \in GState
  BY DEF Sound, GcInv, HeapInv, New, Op
<1>1. PICK o \in Objs("table") \cup Objs("udata") \cup Objs("thread") :
         LET ref == IF Tt[o] = "table" THEN Blank(o)
                    ELSE [Blank(o) EXCEPT ![1] = g.ref[g.run][1]]
         IN  /\ Mark(g, o) = "free"
             /\ g' = [Fresh(g, o, ref) EXCEPT !.ref[g.run][2] = o]
  BY DEF New
<1> DEFINE ref == IF Tt[o] = "table" THEN Blank(o)
                  ELSE [Blank(o) EXCEPT ![1] = g.ref[g.run][1]]
           x == Fresh(g, o, ref)
<1>2. o \in Obj /\ g.mark[o] = "free" /\ Tt[o] \in {"table", "udata", "thread"}
  BY <1>1 DEF Objs, Mark
<1>3. g' = [x EXCEPT !.ref[g.run][2] = o] BY <1>1
<1>4. /\ g.ref[g.run][1] \in OrNil(Alive(g)) /\ g.ref[g.run][1] \in OrNil(Objs("table"))
      /\ g.ref[g.run][1] \in OrNil(Obj)
  BY <1>0, GlobalsIs DEF OrNil, Objs
<1>5. /\ ref \in [Slots(Tt[o]) -> OrNil(Obj)]
      /\ \A i \in Slots(Tt[o]) : ref[i] = Nil \/ (i = 1 /\ Tt[o] # "table" /\ ref[i] = g.ref[g.run][1])
  BY <1>2, <1>4 DEF Blank, OrNil
<1>6. \A i \in Slots(Tt[o]) : ref[i] \in MayHold(Tt[o], i) /\ ref[i] \in OrNil(Alive(g))
  BY <1>2, <1>4, <1>5 DEF MayHold, OrNil, Values
<1> HIDE DEF ref
<1>7. /\ Sound(x) /\ x.state = g.state /\ x.tmu = g.tmu /\ x.run = g.run
      /\ Alive(x) = Alive(g) \cup {o}
  BY <1>0, <1>2, <1>5, <1>6, FreshKeeps
<1> HIDE DEF x
<1>8. g.run \in Obj /\ Tt[g.run] = "thread" BY <1>0, GStateIs
<1>9. o \in OrNil(Alive(x)) /\ o \in MayHold("thread", 2)
  BY <1>2, <1>7 DEF OrNil, MayHold, Values
<1>10. Sound(g') /\ SameButRefs(x, g')
  <2>1. 2 \in 1..3 /\ x.state \notin Atomic BY <1>0, <1>7
  <2> QED BY ONLY <2>1, <1>3, <1>7, <1>8, <1>9, RegisterKeeps
<1> QED BY <1>7, <1>10 DEF Calm, SameButRefs

LEMMA GrowKeeps ==
  ASSUME NEW s, Sound(s), s.state \notin Atomic \cup {"sweepstring"}
  PROVE  LET x == [s EXCEPT !.size = 2 * @]
         IN  Sound(x) /\ x.state = s.state /\ x.tmu = s.tmu /\ x.run = s.run /\ Alive(x) = Alive(s)
<1>0. /\ HeapInv(s) /\ SweepInv(s) /\ MarkInv(s, {}, {})
      /\ s \in GState /\ Shaped(s) /\ Opened(s) /\ Painted(s) /\ Rooted(s) /\ Closed(s)
  BY DEF Sound, GcInv, HeapInv
<1> DEFINE x == [s EXCEPT !.size = 2 * @]
<1>1. 2 * s.size \in Nat \ {0} BY <1>0, GStateIs
<1>2. /\ x \in GState /\ SameHeap(s, x) /\ x.mark = s.mark
      /\ x.state = s.state /\ x.white = s.white /\ x.tmu = s.tmu
      /\ x.str = s.str /\ x.sweep = s.sweep /\ x.run = s.run
      /\ x.gray = s.gray /\ x.again = s.again /\ x.weak = s.weak
  BY <1>0, <1>1 DEF GState, SameHeap
<1> HIDE DEF x
<1>3. x.ref = s.ref /\ x.meta = s.meta /\ x.open = s.open BY <1>2 DEF SameHeap
<1>4. \A o : Below(x, o) = Below(s, o) /\ IsOpen(x, o) = IsOpen(s, o) BY <1>2, HeapReads
<1>5. \A o : IsDead(x, o) = IsDead(s, o) /\ IsWhite(x, o) = IsWhite(s, o)
  BY <1>2 DEF IsDead, IsWhite, Mark, OtherWhite
<1>6. Alive(x) = Alive(s) BY <1>2, <1>5 DEF Alive
<1>7. Shaped(x) BY <1>0, <1>2, <1>3 DEF Shaped
<1>8. Opened(x) BY <1>0, <1>2, <1>3, <1>4 DEF Opened
<1>9. Painted(x) BY <1>0, <1>2, <1>4 DEF Painted
<1>10. Rooted(x) BY <1>0, <1>2, <1>6 DEF Rooted
<1>11. Closed(x) BY <1>0, <1>4, <1>6 DEF Closed
<1>12. SweepInv(x)
  <2> SUFFICES ASSUME s.state \notin Marking, NEW o \in Obj, s.mark[o] \notin {"free", s.white}
               PROVE  o \in ToSweep(x)
    BY <1>2 DEF SweepInv
  <2>1. o \in ToSweep(s) BY <1>0 DEF SweepInv
  <2>2. s.state \in {"pause", "finalize", "sweep"} \cup Closing
    BY <1>0, GStateIs DEF States, Marking, Atomic
  <2> QED BY <2>1, <2>2, <1>2, <1>3, <1>4 DEF ToSweep, Closing
<1>13. MarkInv(x, {}, {})
  <2> SUFFICES ASSUME x.state \in Marking
               PROVE  /\ ListInv(x) /\ BlackInv(x, {}, {}) /\ WhiteOf(x, {MainThread}) \subseteq {}
    BY <1>2 DEF MarkInv
  <2>1. ListInv(s) /\ BlackInv(s, {}, {}) /\ WhiteOf(s, {MainThread}) \subseteq {}
    BY <1>0, <1>2 DEF MarkInv
  <2>2. ListInv(x) BY <2>1, <1>2 DEF ListInv, OtherWhite
  <2>3. BlackInv(x, {}, {}) BY <2>1, <1>2, <1>4, <1>5 DEF BlackInv, WhiteOf
  <2>4. WhiteOf(x, {MainThread}) \subseteq {} BY <2>1, <1>5 DEF WhiteOf
  <2> QED BY <2>2, <2>3, <2>4
<1>14. Sound(x)
  BY <1>2, <1>7, <1>8, <1>9, <1>10, <1>11, <1>12, <1>13 DEF Sound, GcInv, HeapInv
<1> QED BY <1>2, <1>6, <1>14 DEF x

LEMMA NewStringKeeps ==
  ASSUME Sound(g), Calm(g), NewString
  PROVE  Sound(g') /\ Calm(g')
<1>0. /\ HeapInv(g) /\ g.state \notin Atomic /\ g \in GState /\ Shaped(g)
  BY DEF Sound, GcInv, HeapInv, NewString, Op
<1>1. PICK o \in Objs("string") :
       LET found == IF IsDead(g, o) THEN Paint(g, o, g.white) ELSE g
           added == Fresh(g, o, Blank(o))
           grown == IF /\ Cardinality(Strings(added)) > g.size
                       /\ g.state # "sweepstring"
                    THEN [added EXCEPT !.size = 2 * @] ELSE added
           x == IF Mark(g, o) = "free" THEN grown ELSE found
       IN  g' = [x EXCEPT !.ref[g.run][2] = o]
  BY DEF NewString
<1> DEFINE found == IF IsDead(g, o) THEN Paint(g, o, g.white) ELSE g
           added == Fresh(g, o, Blank(o))
           more == Cardinality(Strings(added)) > g.size /\ g.state # "sweepstring"
           grown == IF more THEN [added EXCEPT !.size = 2 * @] ELSE added
           x == IF Mark(g, o) = "free" THEN grown ELSE found
<1>2. o \in Obj /\ Tt[o] = "string" BY DEF Objs
<1>3. g' = [x EXCEPT !.ref[g.run][2] = o] BY <1>1
<1>4. /\ Sound(x) /\ x.state = g.state /\ x.tmu = g.tmu /\ x.run = g.run /\ o \in Alive(x)
  <2>1. CASE g.mark[o] = "free"
    <3>1. x = grown BY <2>1 DEF Mark
    <3>2. Blank(o) \in [Slots(Tt[o]) -> OrNil(Obj)] /\ Slots(Tt[o]) = {}
      BY <1>2, BlankType DEF Slots
    <3> DEFINE b == Blank(o)
    <3>3. \A i \in Slots(Tt[o]) : b[i] \in MayHold(Tt[o], i) /\ b[i] \in OrNil(Alive(g))
      BY <3>2
    <3> HIDE DEF b, more
    <3>4. /\ Sound(added) /\ added.state = g.state /\ added.tmu = g.tmu /\ added.run = g.run
          /\ Alive(added) = Alive(g) \cup {o}
      <4>1. added = Fresh(g, o, b) BY DEF b
      <4>2. Sound(g) /\ g.state \notin Atomic /\ o \in Obj BY <1>0, <1>2
      <4>3. b \in [Slots(Tt[o]) -> OrNil(Obj)] BY <3>2 DEF b
      <4> HIDE DEF added
      <4> QED BY ONLY <2>1, <3>3, <4>1, <4>2, <4>3, FreshKeeps
    <3> HIDE DEF added
    <3>5. CASE more
      <4>1. added.state \notin Atomic \cup {"sweepstring"} BY <3>4, <3>5, <1>0 DEF more
      <4>2. grown = [added EXCEPT !.size = 2 * @] BY <3>5
      <4> QED BY <3>1, <3>4, <4>1, <4>2, GrowKeeps
    <3>6. CASE ~more BY <3>1, <3>4, <3>6
    <3> QED BY <3>5, <3>6
  <2>2. CASE g.mark[o] # "free" /\ IsDead(g, o)
    <3>1. x = Paint(g, o, g.white) BY <2>2 DEF Mark
    <3>2. Below(g, o) \subseteq Alive(g)
      <4>1. g.meta[o] = Nil /\ Slots(Tt[o]) = {} BY <1>0, <1>2 DEF Shaped, Slots
      <4> QED BY <4>1, <1>2 DEF Below
    <3> HIDE DEF x
    <3> QED BY <2>2, <3>1, <3>2, <1>0, <1>2, ReviveKeeps
  <2>3. CASE g.mark[o] # "free" /\ ~IsDead(g, o)
    <3>1. x = g BY <2>3 DEF Mark
    <3> QED BY <2>3, <3>1, <1>2 DEF Alive
  <2> QED BY <2>1, <2>2, <2>3
<1> HIDE DEF x
<1>5. g.run \in Obj /\ Tt[g.run] = "thread" BY <1>0, GStateIs
<1>6. o \in OrNil(Alive(x)) /\ o \in MayHold("thread", 2)
  BY <1>2, <1>4 DEF OrNil, MayHold, Values
<1>7. Sound(g') /\ SameButRefs(x, g')
  <2>1. 2 \in 1..3 /\ x.state \notin Atomic BY <1>0, <1>4
  <2> QED BY ONLY <2>1, <1>3, <1>4, <1>5, <1>6, RegisterKeeps
<1> QED BY <1>4, <1>7 DEF Calm, SameButRefs

\* luaF_findupval gives an upvalue of the running thread's slot.
LEMMA FindUpvalKeeps ==
  ASSUME NEW s, Sound(s), s.state \notin Atomic, NEW u \in Obj, Tt[u] = "upval",
         NEW j \in {2, 3}, MayFind(s, <<s.run, j>>, u)
  PROVE  LET x == FindUpval(s, <<s.run, j>>, u)
         IN  /\ Sound(x) /\ x.state = s.state /\ x.tmu = s.tmu /\ x.run = s.run
             /\ u \in Alive(x) /\ Alive(s) \subseteq Alive(x)
             /\ \A p \in Obj : p # u => x.mark[p] = s.mark[p] /\ x.ref[p] = s.ref[p]
<1>0. /\ HeapInv(s) /\ s \in GState /\ Shaped(s) /\ Opened(s) /\ Rooted(s) /\ Closed(s)
  BY DEF Sound, GcInv, HeapInv
<1> DEFINE at == <<s.run, j>>
           x == FindUpval(s, at, u)
<1>1. s.run \in Obj /\ Tt[s.run] = "thread" /\ s.run \in Alive(s) /\ at[1] = s.run
  BY <1>0, GStateIs DEF Rooted
<1>2. CASE OpenAt(s, at) = {}
  <2> DEFINE b == Blank(u)
             z == Fresh(s, u, b)
  <2>1. s.mark[u] = "free" BY <1>2 DEF MayFind, Mark
  <2>2. b \in [Slots(Tt[u]) -> OrNil(Obj)] BY BlankType
  <2>3. Slots(Tt[u]) = {1} /\ \A i \in Slots(Tt[u]) : b[i] = Nil BY DEF Slots, Blank
  <2>4. \A i \in Slots(Tt[u]) : b[i] \in MayHold(Tt[u], i) /\ b[i] \in OrNil(Alive(s))
    BY <2>3 DEF MayHold, Values, OrNil
  <2>5. x = [z EXCEPT !.open[u] = at] BY <1>2 DEF FindUpval
  <2> HIDE DEF b
  <2>6. /\ Sound(z) /\ z.state = s.state /\ z.tmu = s.tmu /\ z.run = s.run
        /\ Alive(z) = Alive(s) \cup {u} /\ ~IsOpen(z, u) /\ z.mark[u] = z.white
        /\ \A p \in Obj : p # u => z.mark[p] = s.mark[p] /\ z.ref[p] = s.ref[p]
        /\ z.ref[u][1] = b[1] /\ u \notin z.sweep
    BY <2>1, <2>2, <2>4, FreshKeeps
  <2>7. z.ref[u][1] = Nil BY <2>3, <2>6
  <2> HIDE DEF z, x
  <2>8. /\ Sound(x) /\ x.state = z.state /\ x.tmu = z.tmu /\ x.run = z.run
        /\ x.mark = z.mark /\ x.ref = z.ref /\ Alive(x) = Alive(z)
    <3> DEFINE th == s.run
    <3>1. z.state \notin Atomic /\ th \in Alive(z) /\ Tt[th] = "thread" BY <2>6, <1>1
    <3>2. x = Opening(z, u, <<th, j>>) BY <2>5 DEF Opening
    <3>3. /\ Sound(z) /\ ~IsOpen(z, u) /\ z.mark[u] = z.white
          /\ z.ref[u][1] = Nil /\ u \notin z.sweep
      BY <2>6, <2>7
    <3>4. u \in Obj /\ Tt[u] = "upval" /\ j \in {2, 3} OBVIOUS
    <3> HIDE DEF th
    <3> QED BY ONLY <3>1, <3>2, <3>3, <3>4, OpenKeeps
  <2> QED BY <2>6, <2>8 DEF x
<1>3. CASE OpenAt(s, at) # {}
  <2>1. u \in OpenOn(s, s.run) BY <1>1, <1>3 DEF MayFind, OpenAt
  <2>2. IsOpen(s, u) /\ s.open[u] = at BY <2>1, <1>1, <1>3 DEF MayFind, OpenAt, OpenOn
  <2>3. s.mark[u] # "free" BY <2>2, <1>0 DEF Opened
  <2>4. CASE IsDead(s, u)
    <3>1. x = Paint(s, u, s.white) BY <2>4, <1>3 DEF FindUpval
    <3>2. Below(s, u) \subseteq Alive(s)
      <4>1. s.meta[u] = Nil /\ s.ref[u][1] = Nil /\ Slots(Tt[u]) = {1}
        BY <2>2, <1>0 DEF Shaped, Opened, Slots
      <4>2. UpvalValue(s, u) = s.ref[s.run][j] BY <2>2 DEF UpvalValue
      <4>3. Below(s, u) \subseteq {s.ref[s.run][j]} \ {Nil} BY <4>1, <4>2 DEF Below
      <4>4. j \in Slots(Tt[s.run]) /\ ~EmptyNode(s, s.run) BY <1>1 DEF Slots, EmptyNode
      <4>5. {s.ref[s.run][j]} \ {Nil} \subseteq Below(s, s.run) BY <4>4 DEF Below
      <4> QED BY <4>3, <4>5, <1>0, <1>1 DEF Closed
    <3>3. /\ Sound(x) /\ SameHeap(s, x) /\ x.state = s.state /\ x.tmu = s.tmu
          /\ x.run = s.run /\ Alive(x) = Alive(s) \cup {u}
          /\ \A p \in Obj : p # u => x.mark[p] = s.mark[p]
      <4> HIDE DEF x
      <4> QED BY <2>4, <3>1, <3>2, ReviveKeeps
    <3> QED BY <3>3 DEF SameHeap
  <2>5. CASE ~IsDead(s, u)
    <3>1. x = s BY <2>5, <1>3 DEF FindUpval
    <3> QED BY <2>3, <2>5, <3>1 DEF Alive
  <2> QED BY <2>4, <2>5
<1> QED BY <1>2, <1>3

LEMMA NewClosureKeeps ==
  ASSUME Sound(g), Calm(g), NewClosure
  PROVE  Sound(g') /\ Calm(g')
<1>0. /\ HeapInv(g) /\ g.state \notin Atomic /\ g \in GState
  BY DEF Sound, GcInv, HeapInv, NewClosure, Op
<1>1. PICK f \in Objs("function"), p \in Usable(g) \cap Objs("proto"), u \in Objs("upval") :
       LET at == <<g.run, 3>>
           ref == [i \in 1..3 |-> IF i = 1 THEN g.ref[g.run][1] ELSE IF i = 2 THEN p ELSE u]
       IN  /\ Mark(g, f) = "free"
           /\ MayFind(g, at, u)
           /\ g' = [Fresh(FindUpval(g, at, u), f, ref) EXCEPT !.ref[g.run][2] = f]
  BY DEF NewClosure
<1> DEFINE at == <<g.run, 3>>
           ref == [i \in 1..3 |-> IF i = 1 THEN g.ref[g.run][1] ELSE IF i = 2 THEN p ELSE u]
           z == FindUpval(g, at, u)
           x == Fresh(z, f, ref)
<1>2. /\ f \in Obj /\ Tt[f] = "function" /\ g.mark[f] = "free"
      /\ p \in Obj /\ Tt[p] = "proto" /\ p \in Alive(g) /\ p \in Objs("proto")
      /\ u \in Obj /\ Tt[u] = "upval" /\ u \in Objs("upval")
  BY <1>0, <1>1, UsableIs DEF Objs, Mark
<1>3. MayFind(g, at, u) /\ g' = [x EXCEPT !.ref[g.run][2] = f] BY <1>1
<1>4. /\ Sound(z) /\ z.state = g.state /\ z.tmu = g.tmu /\ z.run = g.run
      /\ u \in Alive(z) /\ Alive(g) \subseteq Alive(z)
      /\ \A q \in Obj : q # u => z.mark[q] = g.mark[q] /\ z.ref[q] = g.ref[q]
  <2>1. 3 \in {2, 3} /\ MayFind(g, <<g.run, 3>>, u) BY <1>3
  <2> HIDE DEF at
  <2> QED BY <2>1, <1>0, <1>2, FindUpvalKeeps DEF at
<1> HIDE DEF z
<1>5. g.ref[g.run][1] \in OrNil(Alive(z)) /\ g.ref[g.run][1] \in OrNil(Objs("table"))
  BY <1>0, <1>4, GlobalsIs DEF OrNil
<1>6. z.mark[f] = "free" /\ z.state \notin Atomic BY <1>0, <1>2, <1>4
<1>7. Slots(Tt[f]) = 1..3 BY <1>2 DEF Slots
<1>8. /\ ref[1] = g.ref[g.run][1] /\ ref[2] = p /\ ref[3] = u
      /\ ref \in [Slots(Tt[f]) -> OrNil(Obj)]
  <2>1. g.ref[g.run][1] \in OrNil(Obj) /\ p \in OrNil(Obj) /\ u \in OrNil(Obj)
    BY <1>2, <1>5 DEF OrNil, Objs
  <2> QED BY <2>1, <1>7
<1> HIDE DEF ref
<1>9. \A i \in Slots(Tt[f]) : ref[i] \in MayHold(Tt[f], i) /\ ref[i] \in OrNil(Alive(z))
  <2>1. /\ MayHold(Tt[f], 1) = OrNil(Objs("table")) /\ MayHold(Tt[f], 2) = Objs("proto")
        /\ MayHold(Tt[f], 3) = Objs("upval")
    BY <1>2 DEF MayHold
  <2>2. p \in OrNil(Alive(z)) /\ u \in OrNil(Alive(z)) BY <1>2, <1>4 DEF OrNil
  <2>3. \A i \in 1..3 : i = 1 \/ i = 2 \/ i = 3 OBVIOUS
  <2> QED BY <2>1, <2>2, <2>3, <1>2, <1>5, <1>7, <1>8
<1>10. /\ Sound(x) /\ x.state = z.state /\ x.tmu = z.tmu /\ x.run = z.run
       /\ Alive(x) = Alive(z) \cup {f}
  BY <1>2, <1>4, <1>6, <1>8, <1>9, FreshKeeps
<1> HIDE DEF x
<1>11. g.run \in Obj /\ Tt[g.run] = "thread" BY <1>0, GStateIs
<1>12. f \in OrNil(Alive(x)) /\ f \in MayHold("thread", 2)
  BY <1>2, <1>10 DEF OrNil, MayHold, Values
<1>13. Sound(g') /\ SameButRefs(x, g')
  <2>1. 2 \in 1..3 /\ x.state \notin Atomic BY <1>6, <1>10
  <2> QED BY ONLY <2>1, <1>3, <1>10, <1>11, <1>12, RegisterKeeps
<1> QED BY <1>4, <1>10, <1>13 DEF Calm, SameButRefs

LEMMA GCTMCalls ==
  ASSUME NEW s, Sound(s), s.state \in {"finalize"} \cup Closing, s.tmu # {}, NEW keep \in BOOLEAN
  PROVE  Sound(GCTM(s, keep)) /\ GCTM(s, keep).state = s.state
<1> DEFINE x == GCTM(s, FALSE)
           y == GCTM(s, TRUE)
           u == FirstTmu(s)
<1>1. y = [x EXCEPT !.ref[s.run][2] = u] BY DEF GCTM
<1>2. Sound(x) /\ x.state = s.state /\ u \in Alive(x) BY GCTMKeeps
<1>3. Tt[u] = "udata" /\ u \in Obj BY FirstTmuIs DEF Sound, GcInv
<1>4. s.run \in Obj /\ Tt[s.run] = "thread" BY GStateIs DEF Sound, GcInv, HeapInv
<1> HIDE DEF x, y, u
<1>5. u \in OrNil(Alive(x)) /\ u \in MayHold("thread", 2)
  BY <1>2, <1>3 DEF OrNil, MayHold, Values
<1>6. Sound(y) /\ SameButRefs(x, y)
  <2>1. 2 \in 1..3 /\ x.state \notin Atomic BY <1>2 DEF Atomic, Closing
  <2> QED BY ONLY <2>1, <1>1, <1>2, <1>4, <1>5, RegisterKeeps
<1> QED BY <1>2, <1>6 DEF x, y, SameButRefs

LEMMA StepKeepsKeeps ==
  ASSUME Sound(g), StepKeeps
  PROVE  Sound(g') /\ Calm(g')
<1>1. g.state = "finalize" /\ g.tmu # {} /\ g' = GCTM(g, TRUE) BY DEF StepKeeps
<1> QED BY <1>1, GCTMCalls DEF Calm, Early

-----------------------------------------------------------------------------
(* The invariant, and what it is for.                                      *)

\* A heap that the program can have built, when no cycle has begun.
LEMMA InitKeeps ==
  ASSUME GcInit
  PROVE  Sound(g) /\ Calm(g)
<1>1. PICK h \in Heaps :
       g = [mark |-> [o \in Obj |-> IF o \in DOMAIN h THEN "w0" ELSE "free"],
            ref |-> [o \in Obj |-> IF o \in DOMAIN h THEN h[o].ref ELSE Blank(o)],
            meta |-> [o \in Obj |-> IF o \in DOMAIN h THEN h[o].meta ELSE Nil],
            open |-> [o \in Obj |-> IF o \in DOMAIN h THEN h[o].open ELSE <<>>],
            fin |-> {}, state |-> "pause", white |-> "w0", gray |-> {},
            again |-> {}, weak |-> {}, tmu |-> {}, str |-> 0, size |-> 1,
            sweep |-> {}, run |-> MainThread,
            calls |-> [u \in Objs("udata") |-> 0]]
  BY DEF GcInit
<1>2. /\ DOMAIN h \subseteq Obj /\ MainThread \in DOMAIN h
      /\ \A o \in DOMAIN h : WellBuilt(h, o)
  BY GcConstants
<1> DEFINE m == [o \in Obj |-> IF o \in DOMAIN h THEN "w0" ELSE "free"]
           r == [o \in Obj |-> IF o \in DOMAIN h THEN h[o].ref ELSE Blank(o)]
           a == [o \in Obj |-> IF o \in DOMAIN h THEN h[o].meta ELSE Nil]
           n == [o \in Obj |-> IF o \in DOMAIN h THEN h[o].open ELSE <<>>]
           k == [u \in Objs("udata") |-> 0]
<1>3. /\ \A o \in Obj : /\ m[o] = IF o \in DOMAIN h THEN "w0" ELSE "free"
                        /\ r[o] = IF o \in DOMAIN h THEN h[o].ref ELSE Blank(o)
                        /\ a[o] = IF o \in DOMAIN h THEN h[o].meta ELSE Nil
                        /\ n[o] = IF o \in DOMAIN h THEN h[o].open ELSE <<>>
      /\ m \in [Obj -> Colors] /\ k \in [Objs("udata") -> Nat]
      /\ DOMAIN r = Obj /\ r = [o \in Obj |-> r[o]]
      /\ DOMAIN a = Obj /\ a = [o \in Obj |-> a[o]]
      /\ DOMAIN n = Obj /\ n = [o \in Obj |-> n[o]]
  BY DEF Colors, Whites
<1>4. /\ g.mark = m /\ g.ref = r /\ g.meta = a /\ g.open = n /\ g.calls = k /\ g.fin = {}
      /\ g.state = "pause" /\ g.white = "w0" /\ g.gray = {} /\ g.again = {} /\ g.weak = {}
      /\ g.tmu = {} /\ g.str = 0 /\ g.size = 1 /\ g.sweep = {} /\ g.run = MainThread
  BY <1>1
<1>5. g = [mark |-> m, ref |-> r, meta |-> a, open |-> n, fin |-> {}, state |-> "pause",
           white |-> "w0", gray |-> {}, again |-> {}, weak |-> {}, tmu |-> {}, str |-> 0,
           size |-> 1, sweep |-> {}, run |-> MainThread, calls |-> k]
  BY <1>1
<1> HIDE DEF m, r, a, n, k
\* What the heap holds.
<1>6. ASSUME NEW o \in DOMAIN h
      PROVE  /\ h[o].ref \in [Slots(Tt[o]) -> OrNil(Obj \cap DOMAIN h)]
             /\ \A i \in Slots(Tt[o]) : h[o].ref[i] \in MayHold(Tt[o], i)
             /\ h[o].meta \in IF Tt[o] \in {"table", "udata"}
                              THEN OrNil(Objs("table") \cap DOMAIN h) ELSE {Nil}
             /\ h[o].open # <<>> =>
                  /\ Tt[o] = "upval"
                  /\ h[o].open \in (Objs("thread") \cap DOMAIN h) \X {2, 3}
                  /\ h[o].ref[1] = Nil
  <2>1. WellBuilt(h, o) BY <1>2
  <2> QED BY <2>1 DEF WellBuilt
<1>7. \A o \in Obj : r[o] \in [Slots(Tt[o]) -> OrNil(Obj)]
  <2> SUFFICES ASSUME NEW o \in Obj PROVE r[o] \in [Slots(Tt[o]) -> OrNil(Obj)]
    OBVIOUS
  <2>1. CASE o \in DOMAIN h
    <3>1. h[o].ref \in [Slots(Tt[o]) -> OrNil(Obj \cap DOMAIN h)] BY <2>1, <1>6
    <3>2. OrNil(Obj \cap DOMAIN h) \subseteq OrNil(Obj) BY DEF OrNil
    <3> QED BY <2>1, <3>1, <3>2, <1>3
  <2>2. CASE o \notin DOMAIN h BY <2>2, <1>3, BlankType
  <2> QED BY <2>1, <2>2
<1>8. r \in [Obj -> UNION {[Slots(t) -> OrNil(Obj)] : t \in Types}]
  <2>1. \A o \in Obj : Tt[o] \in Types BY GcConstants
  <2>2. \A o \in Obj : r[o] \in UNION {[Slots(t) -> OrNil(Obj)] : t \in Types}
    BY <2>1, <1>7
  <2> QED BY ONLY <2>2, <1>3
<1>9. ASSUME NEW o \in Obj
      PROVE  a[o] \in IF Tt[o] \in {"table", "udata"} THEN OrNil(Objs("table")) ELSE {Nil}
  <2>1. CASE o \in DOMAIN h BY <2>1, <1>3, <1>6 DEF OrNil
  <2>2. CASE o \notin DOMAIN h BY <2>2, <1>3 DEF OrNil
  <2> QED BY <2>1, <2>2
<1>10. a \in [Obj -> OrNil(Obj)]
  <2>1. \A o \in Obj : a[o] \in OrNil(Obj) BY <1>9 DEF OrNil, Objs
  <2> QED BY ONLY <2>1, <1>3
<1>11. n \in [Obj -> {<<>>} \cup (Obj \X {2, 3})]
  <2>1. ASSUME NEW o \in Obj PROVE n[o] \in {<<>>} \cup (Obj \X {2, 3})
    <3>1. CASE o \in DOMAIN h
      <4>1. n[o] = h[o].open BY <3>1, <1>3
      <4>2. h[o].open # <<>> => h[o].open \in (Objs("thread") \cap DOMAIN h) \X {2, 3}
        BY <3>1, <1>6
      <4> QED BY <4>1, <4>2 DEF Objs
    <3>2. CASE o \notin DOMAIN h BY <3>2, <1>3
    <3> QED BY <3>1, <3>2
  <2>2. \A o \in Obj : n[o] \in {<<>>} \cup (Obj \X {2, 3}) BY <2>1
  <2> QED BY ONLY <2>2, <1>3
<1>12. g \in GState
  <2>1. MainThread \in Objs("thread") BY GcConstants
  <2> QED BY <2>1, <1>3, <1>5, <1>8, <1>10, <1>11 DEF GState, States, Whites
<1>13. OtherWhite(g) = "w1" BY <1>4 DEF OtherWhite
<1>14. \A o \in Obj : /\ g.mark[o] = IF o \in DOMAIN h THEN "w0" ELSE "free"
                      /\ o \in Alive(g) <=> o \in DOMAIN h
  BY <1>3, <1>4, <1>13 DEF Alive, IsDead, Mark
<1>15. Alive(g) = DOMAIN h BY <1>2, <1>14 DEF Alive
<1>16. Shaped(g)
  <2> SUFFICES ASSUME NEW o \in Obj, o \in DOMAIN h, NEW i \in Slots(Tt[o])
               PROVE  r[o][i] \in MayHold(Tt[o], i)
    BY <1>4, <1>7, <1>9, <1>14 DEF Shaped
  <2> QED BY <1>3, <1>6
<1>17. ASSUME NEW u \in Obj, IsOpen(g, u)
       PROVE  /\ u \in DOMAIN h /\ Tt[u] = "upval" /\ g.ref[u][1] = Nil
              /\ g.open[u] \in (Objs("thread") \cap DOMAIN h) \X {2, 3}
  <2>1. n[u] # <<>> BY <1>4, <1>17 DEF IsOpen
  <2>2. u \in DOMAIN h BY <2>1, <1>3
  <2>3. n[u] = h[u].open /\ r[u] = h[u].ref BY <2>2, <1>3
  <2>4. /\ Tt[u] = "upval" /\ h[u].open \in (Objs("thread") \cap DOMAIN h) \X {2, 3}
        /\ h[u].ref[1] = Nil
    BY <2>1, <2>2, <2>3, <1>6
  <2> QED BY <2>2, <2>3, <2>4, <1>4
<1>18. Opened(g)
  <2> SUFFICES ASSUME NEW u \in Obj, IsOpen(g, u)
               PROVE  /\ Tt[u] = "upval" /\ g.mark[u] \notin {"free", "black"}
                      /\ g.ref[u][1] = Nil
                      /\ g.open[u] \in Objs("thread") \X {2, 3}
                      /\ g.mark[g.open[u][1]] # "free"
                      /\ u \notin g.sweep
    BY DEF Opened
  <2>1. /\ u \in DOMAIN h /\ Tt[u] = "upval" /\ g.ref[u][1] = Nil
        /\ g.open[u] \in (Objs("thread") \cap DOMAIN h) \X {2, 3}
    BY <1>17
  <2>2. g.open[u][1] \in DOMAIN h /\ g.open[u][1] \in Obj BY <2>1 DEF Objs
  <2> QED BY <2>1, <2>2, <1>4, <1>14
<1>19. Painted(g) BY <1>14 DEF Painted
<1>20. Rooted(g) BY <1>2, <1>4, <1>15 DEF Rooted
<1>21. Closed(g)
  <2> SUFFICES ASSUME NEW o \in Obj, o \in DOMAIN h, NEW v \in Below(g, o) PROVE v \in DOMAIN h
    BY <1>15 DEF Closed, Alive
  <2>1. v # Nil /\ \/ \E i \in Slots(Tt[o]) : v = g.ref[o][i]
                   \/ v = g.meta[o]
                   \/ Tt[o] = "upval" /\ v = UpvalValue(g, o)
    BY <1>12, <1>16, BelowIs
  <2>2. ASSUME NEW p \in Obj, p \in DOMAIN h, NEW i \in Slots(Tt[p]), v = g.ref[p][i]
        PROVE  v \in DOMAIN h
    <3>1. g.ref[p] = h[p].ref BY <2>2, <1>3, <1>4
    <3>2. h[p].ref[i] \in OrNil(Obj \cap DOMAIN h) BY <2>2, <1>6
    <3> QED BY <2>1, <2>2, <3>1, <3>2 DEF OrNil
  <2>3. ASSUME v = g.meta[o] PROVE v \in DOMAIN h
    <3>1. v = h[o].meta BY <2>3, <1>3, <1>4
    <3>2. h[o].meta \in OrNil(DOMAIN h) BY <1>6 DEF OrNil
    <3> QED BY <2>1, <3>1, <3>2 DEF OrNil
  <2>4. ASSUME Tt[o] = "upval", v = UpvalValue(g, o) PROVE v \in DOMAIN h
    <3>1. CASE IsOpen(g, o)
      <4>1. g.open[o] \in (Objs("thread") \cap DOMAIN h) \X {2, 3} BY <3>1, <1>17
      <4>2. /\ g.open[o][1] \in DOMAIN h /\ g.open[o][1] \in Obj
            /\ g.open[o][2] \in Slots(Tt[g.open[o][1]])
        BY <4>1 DEF Objs, Slots
      <4>3. v = g.ref[g.open[o][1]][g.open[o][2]] BY <2>4, <3>1 DEF UpvalValue
      <4> QED BY <4>2, <4>3, <2>2
    <3>2. CASE ~IsOpen(g, o)
      <4>1. 1 \in Slots(Tt[o]) /\ v = g.ref[o][1] BY <2>4, <3>2 DEF Slots, UpvalValue
      <4> QED BY <4>1, <2>2
    <3> QED BY <3>1, <3>2
  <2> QED BY <2>1, <2>2, <2>3, <2>4
<1>22. SweepInv(g) BY <1>4, <1>14 DEF SweepInv
<1>23. MarkInv(g, {}, {}) BY <1>4 DEF MarkInv, Marking, Atomic
<1>24. Calm(g) BY <1>4 DEF Calm
<1> QED BY <1>12, <1>16, <1>18, <1>19, <1>20, <1>21, <1>22, <1>23, <1>24
        DEF Sound, GcInv, HeapInv

\* lua_close leaves no state to speak of.
-----------------------------------------------------------------------------
(* Finalizers.  What this needs of the structure of a state is that its     *)
(* fields are there; what happens to udata can then be read off the code.   *)

Fields == {"mark", "ref", "meta", "open", "fin", "state", "white", "gray", "again",
           "weak", "tmu", "str", "size", "sweep", "run", "calls"}
IsG(s) == DOMAIN s = Fields /\ DOMAIN s.mark = Obj /\ DOMAIN s.calls = Objs("udata")

\* Nothing happens to the udata but that they get other colours; those of N are new.
KeepsUdata(s, x, N) ==
  /\ IsG(x) /\ x.tmu = s.tmu /\ x.white = s.white
  /\ x.state \in Ending <=> s.state \in Ending
  /\ \A u \in Objs("udata") :
       IF u \in N
       THEN s.mark[u] = "free" /\ u \notin x.fin /\ x.calls[u] = 0 /\ ~IsDead(x, u)
       ELSE /\ x.calls[u] = s.calls[u]
            /\ u \in x.fin <=> u \in s.fin
            /\ \/ x.mark[u] = s.mark[u]
               \/ s.mark[u] # "free" /\ x.mark[u] # "free" /\ ~IsDead(x, u)
SameMeta(s, x) == \A u \in Objs("udata") : x.meta[u] = s.meta[u]

\* x is what some steps of the collector make of s: what waited with a __gc still
\* does, or has been finalized.
Follows(s, x) ==
  \A u \in Objs("udata") :
    /\ s.calls[u] = 1 => x.calls[u] = 1
    /\ Waiting(s, u) /\ HasGc(s, u) =>
         x.calls[u] = 1 \/ (Waiting(x, u) /\ HasGc(x, u))

LEMMA FieldsOf ==
  ASSUME NEW s \in GState
  PROVE  IsG(s)
  BY DEF GState, IsG, Fields

LEMMA KeepsTwice ==
  ASSUME NEW s, NEW x, NEW y, NEW N, KeepsUdata(s, x, {}), KeepsUdata(x, y, N)
  PROVE  KeepsUdata(s, y, N)
<1>1. IsG(y) /\ y.tmu = s.tmu /\ y.white = s.white BY DEF KeepsUdata
<1>2. ASSUME NEW u \in Objs("udata"), u \in N
      PROVE  s.mark[u] = "free" /\ u \notin y.fin /\ y.calls[u] = 0 /\ ~IsDead(y, u)
  BY <1>2 DEF KeepsUdata
<1>3. ASSUME NEW u \in Objs("udata"), u \notin N
      PROVE  /\ y.calls[u] = s.calls[u]
             /\ u \in y.fin <=> u \in s.fin
             /\ \/ y.mark[u] = s.mark[u]
                \/ s.mark[u] # "free" /\ y.mark[u] # "free" /\ ~IsDead(y, u)
  BY <1>3 DEF KeepsUdata, IsDead, Mark, OtherWhite
<1> QED BY <1>1, <1>2, <1>3 DEF KeepsUdata

LEMMA FollowsTwice ==
  ASSUME NEW s, NEW x, NEW y, Follows(s, x), Follows(x, y)
  PROVE  Follows(s, y)
  BY DEF Follows

LEMMA KeptCounts ==
  ASSUME NEW s, NEW x, NEW N, Counted(s), KeepsUdata(s, x, N), Rooted(s), s.tmu \subseteq Obj,
         s.tmu \subseteq Objs("udata")
  PROVE  /\ Counted(x)
         /\ \A u \in Objs("udata") : Waiting(s, u) => Waiting(x, u)
<1>1. \A u \in s.tmu : s.mark[u] # "free" BY DEF Rooted, Alive
<1>2. x.tmu \subseteq x.fin
  BY <1>1 DEF Counted, KeepsUdata
<1>3. ASSUME NEW u \in Objs("udata")
      PROVE  x.calls[u] \in {0, 1} /\ (Waiting(x, u) => x.calls[u] = 0)
  BY <1>1 DEF Counted, KeepsUdata, Waiting, Mark
<1>4. ASSUME NEW u \in Objs("udata"), Waiting(s, u) PROVE Waiting(x, u)
  BY <1>4 DEF KeepsUdata, Waiting, Mark
<1> QED BY <1>2, <1>3, <1>4 DEF Counted

LEMMA KeptFollows ==
  ASSUME NEW s, HeapInv(s), Counted(s), NEW x, KeepsUdata(s, x, {}), SameMeta(s, x)
  PROVE  Counted(x) /\ Follows(s, x)
<1>0. Rooted(s) /\ s.tmu \subseteq Obj /\ s.tmu \subseteq Objs("udata")
  BY GStateIs DEF HeapInv, Objs
<1>1. Counted(x) /\ \A u \in Objs("udata") : Waiting(s, u) => Waiting(x, u)
  BY <1>0, KeptCounts
<1>2. \A u \in Objs("udata") : x.calls[u] = s.calls[u] /\ (HasGc(s, u) => HasGc(x, u))
  BY DEF KeepsUdata, SameMeta, HasGc
<1> QED BY <1>1, <1>2 DEF Follows
-----------------------------------------------------------------------------
(* The functions of the collector.                                         *)

LEMMA MarkedWhite ==
  ASSUME NEW s, NEW S, NEW o \in Marked(s, S)
  PROVE  IsWhite(s, o)
  BY DEF Marked, FromUdata, FromUpvals, WhiteOf

LEMMA MarkAllUdata ==
  ASSUME NEW s, IsG(s), NEW S
  PROVE  LET x == MarkAll(s, S) IN
         /\ KeepsUdata(s, x, {}) /\ SameMeta(s, x) /\ x.state = s.state
         /\ \A o \in Obj : IsWhite(x, o) => IsWhite(s, o)
<1> DEFINE D == Marked(s, S)
           m == [o \in Obj |-> IF o \notin D THEN s.mark[o]
                               ELSE IF Blackens(s, o) THEN "black" ELSE "gray"]
           q == s.gray \cup {o \in D : Tt[o] \in Chained}
           x == [s EXCEPT !.mark = m, !.gray = q]
<1>1. MarkAll(s, S) = x BY DEF MarkAll
<1>2. \A o \in Obj : m[o] = s.mark[o] \/ (IsWhite(s, o) /\ m[o] \in {"gray", "black"})
  BY MarkedWhite
<1>3. DOMAIN m = Obj OBVIOUS
<1> HIDE DEF m, q, D
<1>4. /\ IsG(x) /\ x.tmu = s.tmu /\ x.state = s.state /\ x.calls = s.calls
      /\ x.fin = s.fin /\ x.meta = s.meta /\ x.white = s.white /\ x.mark = m
  BY <1>3 DEF IsG, Fields
<1> HIDE DEF x
<1>5. \A u \in Objs("udata") : u \in Obj BY DEF Objs
<1>6. KeepsUdata(s, x, {})
  BY <1>2, <1>4, <1>5 DEF KeepsUdata, IsDead, IsWhite, Mark, OtherWhite, Whites
<1>7. SameMeta(s, x) BY <1>4 DEF SameMeta
<1>8. \A o \in Obj : IsWhite(x, o) => IsWhite(s, o)
  BY <1>2, <1>4 DEF IsWhite, Mark, Whites
<1> QED BY <1>1, <1>4, <1>6, <1>7, <1>8

LEMMA FreeUdata ==
  ASSUME NEW s, IsG(s), NEW S, \A o \in S : Tt[o] # "udata"
  PROVE  LET x == Free(s, S) IN
         KeepsUdata(s, x, {}) /\ SameMeta(s, x) /\ x.state = s.state
<1> DEFINE m == [o \in Obj |-> IF o \in S THEN "free" ELSE s.mark[o]]
           r == [o \in Obj |-> IF o \in S THEN Blank(o) ELSE s.ref[o]]
           t == [o \in Obj |-> IF o \in S THEN Nil ELSE s.meta[o]]
           p == [o \in Obj |-> IF o \in S THEN <<>> ELSE s.open[o]]
           x == Free(s, S)
<1>1. x = [s EXCEPT !.mark = m, !.ref = r, !.meta = t, !.open = p, !.fin = s.fin \ S]
  BY DEF Free, IsG, Fields
<1>2. \A u \in Objs("udata") : u \notin S /\ m[u] = s.mark[u] /\ t[u] = s.meta[u]
  BY DEF Objs
<1>3. DOMAIN m = Obj OBVIOUS
<1> HIDE DEF m, r, t, p, x
<1>4. /\ IsG(x) /\ x.tmu = s.tmu /\ x.state = s.state /\ x.calls = s.calls
      /\ x.fin = s.fin \ S /\ x.meta = t /\ x.white = s.white /\ x.mark = m
  BY <1>1, <1>3 DEF IsG, Fields
<1>5. KeepsUdata(s, x, {}) BY <1>2, <1>4 DEF KeepsUdata
<1>6. SameMeta(s, x) BY <1>2, <1>4 DEF SameMeta
<1> QED BY <1>4, <1>5, <1>6 DEF x

LEMMA SweepAllUdata ==
  ASSUME NEW s, IsG(s), NEW S, \A o \in S : Tt[o] # "udata"
  PROVE  LET x == SweepAll(s, S) IN
         KeepsUdata(s, x, {}) /\ SameMeta(s, x) /\ x.state = s.state
<1> DEFINE dead == {o \in S : IsDead(s, o)}
           f == Free(s, dead)
           m == [o \in Obj |-> IF o \in S \ dead THEN s.white ELSE f.mark[o]]
           x == [f EXCEPT !.mark = m]
<1>1. SweepAll(s, S) = x BY DEF SweepAll
<1>2. KeepsUdata(s, f, {}) /\ SameMeta(s, f) /\ f.state = s.state
  <2>1. \A o \in dead : Tt[o] # "udata" OBVIOUS
  <2> HIDE DEF dead
  <2> QED BY <2>1, FreeUdata
<1>3. \A u \in Objs("udata") : m[u] = f.mark[u] BY DEF Objs
<1>4. DOMAIN m = Obj OBVIOUS
<1> HIDE DEF f, m
<1>5. IsG(f) BY <1>2 DEF KeepsUdata
<1>6. /\ IsG(x) /\ x.tmu = f.tmu /\ x.state = f.state /\ x.calls = f.calls
      /\ x.fin = f.fin /\ x.meta = f.meta /\ x.white = f.white /\ x.mark = m
  BY <1>4, <1>5 DEF IsG, Fields
<1> HIDE DEF x
<1>7. KeepsUdata(f, x, {}) BY <1>3, <1>6 DEF KeepsUdata
<1>8. KeepsUdata(s, x, {}) BY <1>2, <1>7, KeepsTwice
<1>9. SameMeta(s, x) BY <1>2, <1>6 DEF SameMeta
<1> QED BY <1>1, <1>2, <1>6, <1>8, <1>9

LEMMA CloseUdata ==
  ASSUME NEW s, IsG(s), NEW th
  PROVE  LET x == CloseUpvals(s, th) IN
         KeepsUdata(s, x, {}) /\ SameMeta(s, x) /\ x.state = s.state
<1> DEFINE dead == {u \in OpenOn(s, th) : IsDead(s, u)}
           kept == OpenOn(s, th) \ dead
           gray == {u \in kept : Mark(s, u) = "gray"}
           f == Free(s, dead)
           linked == IF s.state = "propagate" THEN "black" ELSE s.white
           m == [o \in Obj |-> IF o \in gray THEN linked ELSE f.mark[o]]
           r == [o \in Obj |-> IF o \in kept THEN [i \in {1} |-> UpvalValue(s, o)]
                               ELSE f.ref[o]]
           p == [o \in Obj |-> IF o \in kept THEN <<>> ELSE f.open[o]]
           c == [f EXCEPT !.mark = m, !.ref = r, !.open = p]
           W == {UpvalValue(s, u) : u \in GrayOn(s, th)}
<1>1. ClosedOf(s, th) = c BY DEF ClosedOf
<1>2. KeepsUdata(s, f, {}) /\ SameMeta(s, f) /\ f.state = s.state
  <2>1. \A o \in dead : Tt[o] # "udata" BY DEF OpenOn, Objs
  <2> HIDE DEF dead
  <2> QED BY <2>1, FreeUdata
<1>3. \A u \in Objs("udata") : m[u] = f.mark[u] BY DEF OpenOn, Objs
<1>4. DOMAIN m = Obj OBVIOUS
<1> HIDE DEF f, m, r, p
<1>5. IsG(f) BY <1>2 DEF KeepsUdata
<1>6. /\ IsG(c) /\ c.tmu = f.tmu /\ c.state = f.state /\ c.calls = f.calls
      /\ c.fin = f.fin /\ c.meta = f.meta /\ c.white = f.white /\ c.mark = m
  BY <1>4, <1>5 DEF IsG, Fields
<1> HIDE DEF c
<1>7. KeepsUdata(f, c, {}) BY <1>3, <1>6 DEF KeepsUdata
<1>8. KeepsUdata(s, c, {}) /\ SameMeta(s, c) /\ c.state = s.state
  BY <1>2, <1>6, <1>7, KeepsTwice DEF SameMeta
<1>9. LET x == MarkAll(c, W) IN
      KeepsUdata(c, x, {}) /\ SameMeta(c, x) /\ x.state = c.state
  <2> HIDE DEF W
  <2> QED BY <1>6, MarkAllUdata
<1>10. LET x == MarkAll(c, W) IN
       KeepsUdata(s, x, {}) /\ SameMeta(s, x) /\ x.state = s.state
  <2> HIDE DEF W
  <2> QED BY <1>8, <1>9, KeepsTwice DEF SameMeta
<1> HIDE DEF W
<1> QED BY <1>1, <1>8, <1>10, CloseUpvalsIs DEF W
-----------------------------------------------------------------------------
(* singlestep.                                                             *)

LEMMA SoundGives ==
  ASSUME NEW s, Sound(s)
  PROVE  /\ HeapInv(s) /\ s \in GState /\ IsG(s) /\ Rooted(s)
         /\ s.tmu \subseteq Obj /\ s.tmu \subseteq Objs("udata")
         /\ \A u \in s.tmu : s.mark[u] # "free" /\ ~IsDead(s, u)
<1>1. HeapInv(s) /\ s \in GState /\ Rooted(s) BY DEF Sound, GcInv, HeapInv
<1>2. IsG(s) BY <1>1, FieldsOf
<1>3. s.tmu \subseteq Objs("udata") BY <1>1 DEF GState
<1> QED BY <1>1, <1>2, <1>3 DEF Rooted, Alive, Objs

\* The steps that only mark, and lead to a state in which Judged says nothing.
LEMMA MarkStepFollows ==
  ASSUME NEW s, Sound(s), FinInv(s), NEW y, NEW S,
         IsG(y), y.mark = s.mark, y.meta = s.meta, y.fin = s.fin, y.tmu = s.tmu,
         y.calls = s.calls, y.white = s.white, y.state \in Early, s.state \notin Ending
  PROVE  LET x == MarkAll(y, S) IN FinInv(x) /\ Follows(s, x)
<1> DEFINE x == MarkAll(y, S)
<1>1. KeepsUdata(s, y, {}) /\ SameMeta(s, y) BY DEF KeepsUdata, SameMeta, Early, Ending
<1>2. KeepsUdata(y, x, {}) /\ SameMeta(y, x) /\ x.state = y.state BY MarkAllUdata
<1> HIDE DEF x
<1>3. KeepsUdata(s, x, {}) /\ SameMeta(s, x) BY <1>1, <1>2, KeepsTwice DEF SameMeta
<1>4. Counted(x) /\ Follows(s, x) BY <1>3, SoundGives, KeptFollows DEF FinInv
<1>5. Judged(x) BY <1>2 DEF Judged, Early, Marking, Atomic
<1> QED BY <1>4, <1>5 DEF FinInv, x

LEMMA MarkRootFollows ==
  ASSUME NEW s, Sound(s), FinInv(s), s.state \notin Ending
  PROVE  FinInv(MarkRoot(s)) /\ Follows(s, MarkRoot(s))
<1> DEFINE y == [s EXCEPT !.gray = {}, !.again = {}, !.weak = {}, !.state = "propagate"]
<1>1. /\ IsG(y) /\ y.mark = s.mark /\ y.meta = s.meta /\ y.fin = s.fin /\ y.tmu = s.tmu
      /\ y.calls = s.calls /\ y.white = s.white /\ y.state = "propagate"
  BY SoundGives DEF IsG, Fields
<1>2. MarkRoot(s) = MarkAll(y, {MainThread, s.ref[MainThread][1]}) BY DEF MarkRoot
<1> HIDE DEF y
<1> QED BY <1>1, <1>2, MarkStepFollows DEF Early

LEMMA RemarkFollows ==
  ASSUME NEW s, Sound(s), FinInv(s), s.state \notin Ending
  PROVE  /\ FinInv(RemarkUpvals(s)) /\ Follows(s, RemarkUpvals(s))
         /\ FinInv(RemarkWeak(s)) /\ Follows(s, RemarkWeak(s))
         /\ FinInv(RemarkAgain(s)) /\ Follows(s, RemarkAgain(s))
<1>0. IsG(s) BY SoundGives
<1>1. FinInv(RemarkUpvals(s)) /\ Follows(s, RemarkUpvals(s))
  <2> DEFINE y == [s EXCEPT !.state = "upvals"]
             S == {UpvalValue(s, u) : u \in {v \in Objs("upval") : IsOpen(s, v) /\ Mark(s, v) = "gray"}}
  <2>1. /\ IsG(y) /\ y.mark = s.mark /\ y.meta = s.meta /\ y.fin = s.fin /\ y.tmu = s.tmu
        /\ y.calls = s.calls /\ y.white = s.white /\ y.state = "upvals"
    BY <1>0 DEF IsG, Fields
  <2>2. RemarkUpvals(s) = MarkAll(y, S) BY DEF RemarkUpvals
  <2> HIDE DEF y, S
  <2> QED BY <2>1, <2>2, MarkStepFollows DEF Early
<1>2. FinInv(RemarkWeak(s)) /\ Follows(s, RemarkWeak(s))
  <2> DEFINE y == [s EXCEPT !.state = "weak", !.gray = s.weak, !.weak = {}]
  <2>1. /\ IsG(y) /\ y.mark = s.mark /\ y.meta = s.meta /\ y.fin = s.fin /\ y.tmu = s.tmu
        /\ y.calls = s.calls /\ y.white = s.white /\ y.state = "weak"
    BY <1>0 DEF IsG, Fields
  <2>2. RemarkWeak(s) = MarkAll(y, {s.run}) BY DEF RemarkWeak
  <2> HIDE DEF y
  <2> QED BY <2>1, <2>2, MarkStepFollows DEF Early
<1>3. FinInv(RemarkAgain(s)) /\ Follows(s, RemarkAgain(s))
  <2> DEFINE y == RemarkAgain(s)
  <2>1. /\ IsG(y) /\ y.mark = s.mark /\ y.meta = s.meta /\ y.fin = s.fin /\ y.tmu = s.tmu
        /\ y.calls = s.calls /\ y.white = s.white /\ y.state = "again"
    BY <1>0 DEF IsG, Fields, RemarkAgain
  <2> HIDE DEF y
  <2>2. KeepsUdata(s, y, {}) /\ SameMeta(s, y) BY <2>1 DEF KeepsUdata, SameMeta, Ending
  <2>3. Counted(y) /\ Follows(s, y) BY <2>2, SoundGives, KeptFollows DEF FinInv
  <2>4. Judged(y) BY <2>1 DEF Judged, Marking, Atomic
  <2> QED BY <2>3, <2>4 DEF y, FinInv
<1> QED BY <1>1, <1>2, <1>3

LEMMA PropagateFollows ==
  ASSUME NEW s, Sound(s), FinInv(s), s.state \in Marking, s.gray # {}
  PROVE  FinInv(PropagateMark(s)) /\ Follows(s, PropagateMark(s))
<1> DEFINE o == CHOOSE z \in s.gray : TRUE
           y == Popped(s, o)
           x == MarkAll(y, Refs(s, o))
<1>0. /\ s \in GState /\ Shaped(s) /\ ListInv(s) /\ Counted(s) /\ Judged(s) /\ HeapInv(s)
  BY DEF Sound, GcInv, HeapInv, MarkInv, FinInv
<1>1. o \in s.gray OBVIOUS
<1>2. PropagateMark(s) = x BY DEF PropagateMark, Popped
<1> HIDE DEF o
<1>3. o \in Obj /\ s.mark[o] = "gray" BY <1>0, <1>1 DEF ListInv
<1>4. /\ y \in GState
      /\ y.meta = s.meta /\ SameRest(s, y)
      /\ \A p \in Obj : y.mark[p] = IF p = o /\ IsBlackened(s, o) THEN "black" ELSE s.mark[p]
  BY <1>0, <1>3, PoppedIs
<1> HIDE DEF y
<1>5. IsG(y) BY <1>4, FieldsOf
<1>6. KeepsUdata(s, y, {}) /\ SameMeta(s, y)
  <2>1. "black" # OtherWhite(y) BY DEF OtherWhite
  <2>2. \A u \in Objs("udata") : u \in Obj BY DEF Objs
  <2> QED BY <1>3, <1>4, <1>5, <2>1, <2>2 DEF KeepsUdata, SameMeta, SameRest, IsDead, Mark
<1>7. /\ KeepsUdata(y, x, {}) /\ SameMeta(y, x) /\ x.state = y.state
      /\ \A p \in Obj : IsWhite(x, p) => IsWhite(y, p)
  BY <1>5, MarkAllUdata
<1> HIDE DEF x
<1>8. KeepsUdata(s, x, {}) /\ SameMeta(s, x) BY <1>6, <1>7, KeepsTwice DEF SameMeta
<1>9. Counted(x) /\ Follows(s, x) BY <1>0, <1>8, KeptFollows
<1>10. Judged(x)
  <2> SUFFICES ASSUME NEW u \in Objs("udata"), x.state = "tmu", IsWhite(x, u) PROVE u \in x.fin
    BY <1>4, <1>7 DEF Judged, SameRest
  <2>1. u \in Obj BY DEF Objs
  <2>2. IsWhite(s, u) BY <2>1, <1>4, <1>7 DEF IsWhite, Mark, Whites
  <2>3. s.state = "tmu" BY <1>4, <1>7 DEF SameRest
  <2> QED BY <2>2, <2>3, <1>0, <1>8 DEF Judged, KeepsUdata
<1> QED BY <1>2, <1>9, <1>10 DEF FinInv

\* What luaC_separateudata leaves: whatever it looks at is marked as finalized, and
\* awaits its finalizer if it has one.
Due(s, all) == {u \in Objs("udata") : /\ Mark(s, u) # "free"
                                      /\ all \/ IsWhite(s, u)
                                      /\ u \notin s.fin}
LEMMA SeparateUdataFields ==
  ASSUME NEW s, IsG(s), NEW all \in BOOLEAN
  PROVE  LET x == SeparateUdata(s, all) IN
         /\ IsG(x) /\ x.mark = s.mark /\ x.meta = s.meta /\ x.white = s.white
         /\ x.calls = s.calls /\ x.state = s.state
         /\ x.fin = s.fin \cup Due(s, all)
         /\ x.tmu = s.tmu \cup {u \in Due(s, all) : HasGc(s, u)}
<1> DEFINE T == {u \in Due(s, all) : HasGc(s, u)}
           x == SeparateUdata(s, all)
<1>1. x = [s EXCEPT !.fin = s.fin \cup Due(s, all), !.tmu = s.tmu \cup T]
  BY DEF IsG, Fields, SeparateUdata, Due
<1> HIDE DEF T, x
<1>2. /\ IsG(x) /\ x.mark = s.mark /\ x.meta = s.meta /\ x.white = s.white
      /\ x.calls = s.calls /\ x.state = s.state
      /\ x.fin = s.fin \cup Due(s, all) /\ x.tmu = s.tmu \cup T
  BY <1>1 DEF IsG, Fields
<1> QED BY <1>2 DEF x, T

LEMMA MarkTmuFollows ==
  ASSUME NEW s, Sound(s), FinInv(s), s.state \notin Ending
  PROVE  FinInv(MarkTmu(s)) /\ Follows(s, MarkTmu(s))
<1> DEFINE z == SeparateUdata(s, FALSE)
           m == [o \in Obj |-> IF o \in z.tmu THEN z.white ELSE s.mark[o]]
           y == [z EXCEPT !.state = "tmu", !.mark = m]
           x == MarkAll(y, z.tmu)
           due == Due(s, FALSE)
<1>0. /\ IsG(s) /\ Counted(s) /\ \A u \in s.tmu : s.mark[u] # "free" BY SoundGives DEF FinInv
<1>1. MarkTmu(s) = x BY DEF MarkTmu
<1>2. /\ IsG(z) /\ z.meta = s.meta /\ z.white = s.white /\ z.calls = s.calls
      /\ z.fin = s.fin \cup due /\ z.tmu = s.tmu \cup {u \in due : HasGc(s, u)}
  BY <1>0, SeparateUdataFields
<1> HIDE DEF z
<1>3. DOMAIN m = Obj /\ \A u \in Objs("udata") : m[u] = IF u \in z.tmu THEN s.white ELSE s.mark[u]
  BY <1>2 DEF Objs
<1> HIDE DEF m
<1>4. /\ IsG(y) /\ y.meta = s.meta /\ y.white = s.white /\ y.calls = s.calls
      /\ y.fin = z.fin /\ y.tmu = z.tmu /\ y.state = "tmu" /\ y.mark = m
  BY <1>2, <1>3 DEF IsG, Fields
<1> HIDE DEF y
<1>5. s.white # "free"
  <2>1. s \in GState BY SoundGives
  <2> QED BY <2>1, GStateIs DEF Whites
<1>6. \A u \in due : /\ u \notin s.fin /\ s.mark[u] # "free" /\ u \in Objs("udata")
  BY DEF Due, Mark
<1>7. \A u \in Objs("udata") : IsWhite(s, u) => u \in s.fin \cup due
  BY DEF Due, IsWhite, Mark, Whites
<1> HIDE DEF due
<1>8. \A u \in Objs("udata") : y.mark[u] = "free" <=> s.mark[u] = "free"
  BY <1>0, <1>2, <1>3, <1>4, <1>5, <1>6
<1>9. \A u \in Objs("udata") : Waiting(y, u) => Waiting(s, u)
  BY <1>2, <1>4, <1>6, <1>8 DEF Waiting, Mark, Ending
<1>10. Counted(y) BY <1>0, <1>2, <1>4, <1>9 DEF Counted
<1>11. Follows(s, y)
  <2> SUFFICES ASSUME NEW u \in Objs("udata"), Waiting(s, u), HasGc(s, u)
               PROVE  Waiting(y, u) /\ HasGc(y, u)
    BY <1>4 DEF Follows
  <2> QED BY <1>2, <1>4, <1>8 DEF Waiting, Mark, HasGc, Ending
<1>12. \A u \in Objs("udata") : IsWhite(y, u) => u \in y.fin
  BY <1>0, <1>2, <1>3, <1>4, <1>7 DEF IsWhite, Mark, Counted
<1>13. /\ KeepsUdata(y, x, {}) /\ SameMeta(y, x) /\ x.state = y.state
       /\ \A o \in Obj : IsWhite(x, o) => IsWhite(y, o)
  BY <1>4, MarkAllUdata
<1> HIDE DEF x
<1>14. \A u \in y.tmu : y.mark[u] # "free" /\ u \in Objs("udata")
  <2>1. s.tmu \subseteq Objs("udata") BY SoundGives
  <2> QED BY <2>1, <1>0, <1>2, <1>4, <1>6, <1>8
<1>15. Counted(x) /\ Follows(y, x)
  <2>1. x.tmu \subseteq x.fin BY <1>10, <1>13, <1>14 DEF Counted, KeepsUdata
  <2>2. \A u \in Objs("udata") : /\ x.calls[u] = y.calls[u]
                                 /\ Waiting(x, u) <=> Waiting(y, u)
                                 /\ HasGc(x, u) <=> HasGc(y, u)
    BY <1>13 DEF KeepsUdata, SameMeta, Waiting, Mark, HasGc
  <2> QED BY <2>1, <2>2, <1>10 DEF Counted, Follows
<1>16. Judged(x)
  <2>1. \A u \in Objs("udata") : u \in Obj BY DEF Objs
  <2> QED BY <2>1, <1>4, <1>12, <1>13 DEF Judged, KeepsUdata, Marking, Atomic
<1>17. Follows(s, x) BY <1>11, <1>15, FollowsTwice
<1> QED BY <1>1, <1>15, <1>16, <1>17 DEF FinInv

LEMMA FinishFollows ==
  ASSUME NEW s, Sound(s), FinInv(s), s.state = "tmu"
  PROVE  FinInv(FinishAtomic(s)) /\ Follows(s, FinishAtomic(s))
<1> DEFINE z == MarkAll(s, SeenStrings(s))
           r == ClearedRef(s)
           y == [z EXCEPT !.ref = r, !.white = OtherWhite(z)]
           l == RootList(y)
           x == [y EXCEPT !.str = 0, !.sweep = l, !.state = "sweepstring"]
<1>0. IsG(s) /\ HeapInv(s) /\ Counted(s) /\ Judged(s) BY SoundGives DEF FinInv
<1>1. /\ KeepsUdata(s, z, {}) /\ SameMeta(s, z) /\ z.state = s.state
      /\ \A o \in Obj : IsWhite(z, o) => IsWhite(s, o)
  BY <1>0, MarkAllUdata
<1>2. FinishAtomic(s) = x
  <2>1. ClearTable(s) = [z EXCEPT !.ref = r] BY DEF ClearTable
  <2>2. IsG(z) BY <1>1 DEF KeepsUdata
  <2> HIDE DEF z, r
  <2>3. OtherWhite([z EXCEPT !.ref = r]) = OtherWhite(z) BY <2>2 DEF IsG, Fields, OtherWhite
  <2>4. [[z EXCEPT !.ref = r] EXCEPT !.white = OtherWhite([z EXCEPT !.ref = r])] = y
    BY <2>2, <2>3 DEF IsG, Fields
  <2>5. BeginSweep(y) = x BY DEF BeginSweep
  <2> HIDE DEF x, y
  <2> QED BY <2>1, <2>4, <2>5 DEF FinishAtomic
<1>3. IsG(z) BY <1>1 DEF KeepsUdata
<1>4. Counted(z) /\ Follows(s, z) BY <1>0, <1>1, KeptFollows
<1> HIDE DEF z, r, l
<1>5. /\ IsG(x) /\ x.mark = z.mark /\ x.meta = z.meta /\ x.fin = z.fin /\ x.tmu = z.tmu
      /\ x.calls = z.calls /\ x.white = OtherWhite(z) /\ x.state = "sweepstring"
  BY <1>3 DEF IsG, Fields
<1> HIDE DEF y, x
<1>6. Counted(x) BY <1>1, <1>4, <1>5 DEF Counted, Waiting, Mark, Ending
<1>7. Follows(s, x) BY <1>1, <1>4, <1>5 DEF Follows, Waiting, HasGc, Mark, Ending
<1>8. ASSUME NEW u \in Objs("udata"), IsDead(x, u) PROVE u \in x.fin
  <2>1. u \in Obj BY DEF Objs
  <2>2. IsWhite(z, u) BY <1>5, <1>8 DEF IsDead, IsWhite, Mark, OtherWhite, Whites
  <2>3. u \in s.fin BY <2>1, <2>2, <1>0, <1>1 DEF Judged
  <2> QED BY <2>3, <1>1, <1>5 DEF KeepsUdata
<1>9. Judged(x) BY <1>5, <1>8 DEF Judged
<1> QED BY <1>2, <1>6, <1>7, <1>9 DEF FinInv

\* What no one calls dead that was not does no harm outside the marking.
LEMMA KeptJudged ==
  ASSUME NEW s, NEW x, NEW N, Judged(s), KeepsUdata(s, x, N),
         s.state \notin Marking, x.state # "tmu"
  PROVE  Judged(x)
<1> SUFFICES ASSUME NEW u \in Objs("udata"), IsDead(x, u) PROVE u \in x.fin
  BY DEF Judged
<1>1. u \notin N /\ x.mark[u] = s.mark[u] BY DEF KeepsUdata
<1>2. IsDead(s, u) BY <1>1 DEF KeepsUdata, IsDead, Mark, OtherWhite
<1> QED BY <1>1, <1>2 DEF Judged, KeepsUdata

LEMMA SweepStringFollows ==
  ASSUME NEW s, Sound(s), FinInv(s), s.state = "sweepstring"
  PROVE  FinInv(SweepString(s)) /\ Follows(s, SweepString(s))
<1> DEFINE z == SweepAll(s, Bucket(s, s.str))
           q == IF s.str + 1 >= s.size THEN "sweep" ELSE "sweepstring"
           x == [z EXCEPT !.str = s.str + 1, !.state = q]
<1>0. IsG(s) /\ HeapInv(s) /\ Counted(s) /\ Judged(s) BY SoundGives DEF FinInv
<1>1. SweepString(s) = x BY DEF SweepString
<1>2. \A o \in Bucket(s, s.str) : Tt[o] # "udata" BY DEF Bucket, Strings, Objs
<1>3. KeepsUdata(s, z, {}) /\ SameMeta(s, z) /\ z.state = s.state
  BY <1>0, <1>2, SweepAllUdata
<1> HIDE DEF z
<1>4. IsG(z) BY <1>3 DEF KeepsUdata, Ending
<1>5. /\ IsG(x) /\ x.mark = z.mark /\ x.meta = z.meta /\ x.fin = z.fin /\ x.tmu = z.tmu
      /\ x.calls = z.calls /\ x.white = z.white /\ x.state = q
  BY <1>4 DEF IsG, Fields
<1>6. q # "tmu" /\ q \notin Ending BY DEF Ending
<1> HIDE DEF x, q
<1>7. KeepsUdata(s, x, {}) /\ SameMeta(s, x)
  <2>1. KeepsUdata(z, x, {}) BY <1>3, <1>5, <1>6 DEF KeepsUdata, Ending
  <2> QED BY <2>1, <1>3, <1>5, KeepsTwice DEF SameMeta
<1>8. Counted(x) /\ Follows(s, x) BY <1>0, <1>7, KeptFollows
<1>9. s.state \notin Marking BY DEF Marking, Atomic
<1>10. Judged(x) BY <1>0, <1>5, <1>6, <1>7, <1>9, KeptJudged
<1> QED BY <1>1, <1>8, <1>10 DEF FinInv

\* A udata that the sweep frees has been looked at, and is not due any more.
LEMMA SweepStepFollows ==
  ASSUME NEW s, Sound(s), FinInv(s), s.state = "sweep"
  PROVE  FinInv(SweepStep(s)) /\ Follows(s, SweepStep(s))
<1> DEFINE o == CHOOSE x \in s.sweep : TRUE
           a == IF Tt[o] = "thread" THEN SweepAll(s, OpenOn(s, o)) ELSE s
           z == IF Tt[o] = "thread" /\ IsDead(a, o) THEN CloseUpvals(a, o) ELSE a
           y == SweepAll(z, {o})
           q == IF s.sweep = {o} THEN "finalize" ELSE "sweep"
           x == [y EXCEPT !.sweep = s.sweep \ {o}, !.state = q]
<1>0. /\ IsG(s) /\ HeapInv(s) /\ Rooted(s) /\ Counted(s) /\ Judged(s)
      /\ \A u \in s.tmu : s.mark[u] # "free" /\ ~IsDead(s, u)
  BY SoundGives DEF FinInv
<1>1. SweepStep(s) = x BY DEF SweepStep, SweepObj
<1>2. o \in s.sweep BY <1>0 DEF Rooted
<1> HIDE DEF o
<1>3. s.mark[o] # "free" /\ o \notin s.tmu BY <1>0, <1>2 DEF Rooted
<1>4. KeepsUdata(s, s, {}) /\ SameMeta(s, s) BY <1>0 DEF KeepsUdata, SameMeta
<1>5. KeepsUdata(s, a, {}) /\ SameMeta(s, a)
  <2>1. \A u \in OpenOn(s, o) : Tt[u] # "udata" BY DEF OpenOn, Objs
  <2>2. KeepsUdata(s, SweepAll(s, OpenOn(s, o)), {}) /\ SameMeta(s, SweepAll(s, OpenOn(s, o)))
    BY <1>0, <2>1, SweepAllUdata
  <2> QED BY <1>4, <2>2
<1> HIDE DEF a
<1>6. KeepsUdata(s, z, {}) /\ SameMeta(s, z)
  <2>1. IsG(a) BY <1>5 DEF KeepsUdata, Ending
  <2>2. KeepsUdata(a, CloseUpvals(a, o), {}) /\ SameMeta(a, CloseUpvals(a, o))
    BY <2>1, CloseUdata
  <2>3. KeepsUdata(s, CloseUpvals(a, o), {}) /\ SameMeta(s, CloseUpvals(a, o))
    BY <1>5, <2>2, KeepsTwice DEF SameMeta
  <2> QED BY <1>5, <2>3
<1> HIDE DEF z
<1>7. IsG(z) BY <1>6 DEF KeepsUdata, Ending
<1>8. s.state \notin Marking BY DEF Marking, Atomic
<1>9. q # "tmu" /\ q \notin Ending BY DEF Ending
<1>10. CASE Tt[o] # "udata"
  <2>1. KeepsUdata(z, y, {}) /\ SameMeta(z, y) BY <1>7, <1>10, SweepAllUdata
  <2> HIDE DEF y, q
  <2>2. KeepsUdata(s, y, {}) /\ SameMeta(s, y) BY <2>1, <1>6, KeepsTwice DEF SameMeta
  <2>3. IsG(y) BY <2>2 DEF KeepsUdata, Ending
  <2>4. /\ IsG(x) /\ x.mark = y.mark /\ x.meta = y.meta /\ x.fin = y.fin /\ x.tmu = y.tmu
        /\ x.calls = y.calls /\ x.white = y.white /\ x.state = q
    BY <2>3 DEF IsG, Fields
  <2> HIDE DEF x
  <2>5. KeepsUdata(s, x, {}) /\ SameMeta(s, x)
    <3>1. KeepsUdata(y, x, {}) BY <2>2, <2>4, <1>9 DEF KeepsUdata, Ending
    <3> QED BY <3>1, <2>2, <2>4, KeepsTwice DEF SameMeta
  <2>6. Counted(x) /\ Follows(s, x) BY <1>0, <2>5, KeptFollows
  <2>7. Judged(x) BY <1>0, <1>8, <1>9, <2>4, <2>5, KeptJudged
  <2> QED BY <1>1, <2>6, <2>7 DEF FinInv
<1>11. CASE Tt[o] = "udata"
  <2>1. z = s BY <1>11 DEF z, a
  <2> DEFINE dead == {p \in {o} : IsDead(s, p)}
             m == [p \in Obj |-> IF p \in dead THEN "free"
                                 ELSE IF p = o THEN s.white ELSE s.mark[p]]
             t == [p \in Obj |-> IF p \in dead THEN Nil ELSE s.meta[p]]
  <2>2. /\ IsG(y) /\ y.mark = m /\ y.meta = t /\ y.fin = s.fin \ dead /\ y.tmu = s.tmu
        /\ y.calls = s.calls /\ y.white = s.white
    <3> DEFINE fm == [p \in Obj |-> IF p \in dead THEN "free" ELSE s.mark[p]]
               fr == [p \in Obj |-> IF p \in dead THEN Blank(p) ELSE s.ref[p]]
               fp == [p \in Obj |-> IF p \in dead THEN <<>> ELSE s.open[p]]
               f == [s EXCEPT !.mark = fm, !.ref = fr, !.meta = t, !.open = fp,
                              !.fin = s.fin \ dead]
               ym == [p \in Obj |-> IF p \in {o} \ dead THEN s.white ELSE f.mark[p]]
    <3>1. Free(s, dead) = f BY <1>0 DEF Free, IsG, Fields
    <3>2. y = [f EXCEPT !.mark = ym] BY <2>1, <3>1 DEF SweepAll
    <3>3. DOMAIN fm = Obj /\ DOMAIN ym = Obj OBVIOUS
    <3> HIDE DEF fm, fr, fp, t, dead, y
    <3>4. /\ IsG(f) /\ f.mark = fm /\ f.meta = t /\ f.fin = s.fin \ dead /\ f.tmu = s.tmu
          /\ f.calls = s.calls /\ f.white = s.white
      BY <1>0, <3>3 DEF IsG, Fields
    <3>5. ym = m BY <3>4 DEF fm
    <3> HIDE DEF f, ym, m
    <3> QED BY <3>2, <3>3, <3>4, <3>5 DEF IsG, Fields
  <2>3. \A p \in Objs("udata") :
          /\ m[p] = IF p \in dead THEN "free" ELSE IF p = o THEN s.white ELSE s.mark[p]
          /\ t[p] = IF p \in dead THEN Nil ELSE s.meta[p]
    BY DEF Objs
  <2> HIDE DEF m, t, y, q
  <2>4. /\ IsG(x) /\ x.mark = m /\ x.meta = t /\ x.fin = s.fin \ dead /\ x.tmu = s.tmu
        /\ x.calls = s.calls /\ x.white = s.white /\ x.state = q
    BY <2>2 DEF IsG, Fields
  <2> HIDE DEF x
  <2>5. \A p \in dead : p = o /\ p \in s.fin /\ p \notin s.tmu
    <3>1. s.state \notin Marking BY <1>8
    <3>2. \A p \in dead : p = o /\ IsDead(s, p) OBVIOUS
    <3>3. o \in Objs("udata")
      <4>1. o \in Obj BY <1>2, GStateIs, <1>0 DEF HeapInv
      <4> QED BY <4>1, <1>11 DEF Objs
    <3> QED BY <3>1, <3>2, <3>3, <1>0, <1>3 DEF Judged
  <2> HIDE DEF dead
  <2>6. s.white # "free" /\ s.white # OtherWhite(s)
    BY <1>0, GStateIs DEF HeapInv, Whites, OtherWhite
  <2>7. \A p \in Objs("udata") : Waiting(x, p) <=> Waiting(s, p)
    BY <2>3, <2>4, <2>5, <2>6, <1>3, <1>9 DEF Waiting, Mark, Ending
  <2>8. Counted(x) BY <2>4, <2>5, <2>7, <1>0 DEF Counted
  <2>9. ASSUME NEW p \in Objs("udata"), Waiting(s, p), HasGc(s, p) PROVE HasGc(x, p)
    <3>1. p \notin dead BY <2>5, <2>9 DEF Waiting
    <3> QED BY <3>1, <2>3, <2>4, <2>9 DEF HasGc
  <2>10. Follows(s, x) BY <2>4, <2>7, <2>9 DEF Follows
  <2>11. ASSUME NEW p \in Objs("udata"), IsDead(x, p) PROVE p \in x.fin
    <3>1. p \notin dead /\ p # o
      BY <2>3, <2>4, <2>6, <2>11 DEF IsDead, Mark, OtherWhite
    <3>2. IsDead(s, p) BY <3>1, <2>3, <2>4, <2>11 DEF IsDead, Mark, OtherWhite
    <3> QED BY <3>1, <3>2, <2>4, <1>0, <1>8 DEF Judged
  <2>12. Judged(x) BY <1>9, <2>4, <2>11 DEF Judged
  <2> QED BY <1>1, <2>8, <2>10, <2>12 DEF FinInv
<1> QED BY <1>10, <1>11

LEMMA GCTMFollows ==
  ASSUME NEW s, Sound(s), FinInv(s), s.tmu # {}, s.state \in {"finalize"} \cup Closing, NEW keep \in BOOLEAN
  PROVE  FinInv(GCTM(s, keep)) /\ Follows(s, GCTM(s, keep))
<1> DEFINE u == FirstTmu(s)
           m == [s.mark EXCEPT ![u] = s.white]
           k == [s.calls EXCEPT ![u] = IF CallsTm(s) THEN @ + 1 ELSE @]
           y == [s EXCEPT !.mark = m, !.tmu = s.tmu \ {u}, !.calls = k]
           x == GCTM(s, keep)
<1>0. /\ IsG(s) /\ HeapInv(s) /\ Counted(s) /\ Judged(s) /\ s.tmu \subseteq Objs("udata")
      /\ \A v \in s.tmu : s.mark[v] # "free"
  BY SoundGives DEF FinInv
<1>1. u \in s.tmu /\ u \in Objs("udata") BY <1>0 DEF FirstTmu
<1>2. GCTM(s, FALSE) = y
  BY <1>0 DEF GCTM, Paint, IsG, Fields
<1>3. GCTM(s, TRUE) = [y EXCEPT !.ref[s.run][2] = u]
  BY <1>2 DEF GCTM
<1>4. /\ DOMAIN m = Obj /\ DOMAIN k = Objs("udata")
      /\ \A v \in Objs("udata") :
           /\ m[v] = IF v = u THEN s.white ELSE s.mark[v]
           /\ k[v] = IF v = u /\ HasGc(s, u) THEN s.calls[v] + 1 ELSE s.calls[v]
  BY <1>0, <1>1 DEF IsG, CallsTm, Objs
<1> HIDE DEF m, k, u
<1>5. /\ IsG(y) /\ y.mark = m /\ y.meta = s.meta /\ y.fin = s.fin /\ y.tmu = s.tmu \ {u}
      /\ y.calls = k /\ y.white = s.white /\ y.state = s.state
  BY <1>0, <1>4 DEF IsG, Fields
<1> HIDE DEF y
<1>6. /\ x.mark = m /\ x.meta = s.meta /\ x.fin = s.fin /\ x.tmu = s.tmu \ {u}
      /\ x.calls = k /\ x.white = s.white /\ x.state = s.state
  BY <1>2, <1>3, <1>5 DEF IsG, Fields
<1> HIDE DEF x
<1>7. s.white # "free" /\ s.white # OtherWhite(s)
  BY <1>0, GStateIs DEF HeapInv, Whites, OtherWhite
<1>8. Waiting(s, u) /\ s.calls[u] = 0 /\ u \in s.fin
  BY <1>0, <1>1 DEF Waiting, Mark, Counted
<1>9. \A v \in Objs("udata") : Waiting(x, v) <=> Waiting(s, v) /\ v # u
  BY <1>4, <1>6, <1>7, <1>8 DEF Waiting, Mark
<1>10. \A v \in Objs("udata") : HasGc(x, v) <=> HasGc(s, v) BY <1>6 DEF HasGc
<1>11. \A v \in Objs("udata") : /\ v # u => x.calls[v] = s.calls[v]
                                /\ x.calls[u] = IF HasGc(s, u) THEN 1 ELSE 0
  BY <1>1, <1>4, <1>6, <1>8
<1>12. Counted(x) BY <1>0, <1>6, <1>9, <1>11 DEF Counted
<1>13. Follows(s, x) BY <1>8, <1>9, <1>10, <1>11 DEF Follows
<1>14. ASSUME NEW v \in Objs("udata"), IsDead(x, v) PROVE v \in x.fin
  <2>1. v # u BY <1>1, <1>4, <1>6, <1>7, <1>14 DEF IsDead, Mark, OtherWhite
  <2>2. IsDead(s, v) BY <2>1, <1>4, <1>6, <1>14 DEF IsDead, Mark, OtherWhite
  <2> QED BY <2>2, <1>0, <1>6 DEF Judged, Marking, Atomic, Closing
<1>15. Judged(x) BY <1>6, <1>14 DEF Judged, Closing
<1> QED BY <1>12, <1>13, <1>15 DEF x, FinInv

LEMMA SingleStepFollows ==
  ASSUME NEW s, Sound(s), FinInv(s), s.state \notin Ending
  PROVE  FinInv(SingleStep(s)) /\ Follows(s, SingleStep(s))
<1>0. s \in GState /\ HeapInv(s) /\ Rooted(s) BY SoundGives
<1>1. s.state \in States BY <1>0, GStateIs
<1>2. CASE s.state = "pause"
  <2>1. SingleStep(s) = MarkRoot(s) BY <1>2 DEF SingleStep
  <2> QED BY <2>1, MarkRootFollows
<1>3. CASE s.state \in Marking /\ s.gray # {}
  <2>1. SingleStep(s) = PropagateMark(s) BY <1>3 DEF SingleStep, Marking, Atomic
  <2> QED BY <2>1, <1>3, PropagateFollows
<1>4. CASE s.state \in {"propagate", "upvals", "weak"} /\ s.gray = {}
  <2>1. SingleStep(s) \in {RemarkUpvals(s), RemarkWeak(s), RemarkAgain(s)}
    BY <1>4 DEF SingleStep, Marking
  <2> QED BY <2>1, RemarkFollows
<1>5. CASE s.state = "again" /\ s.gray = {}
  <2>1. SingleStep(s) = MarkTmu(s) BY <1>5 DEF SingleStep, Marking
  <2> QED BY <2>1, MarkTmuFollows
<1>6. CASE s.state = "tmu" /\ s.gray = {}
  <2>1. SingleStep(s) = FinishAtomic(s) BY <1>6 DEF SingleStep, Marking
  <2> QED BY <2>1, <1>6, FinishFollows
<1>7. CASE s.state = "sweepstring"
  <2>1. SingleStep(s) = SweepString(s) BY <1>7 DEF SingleStep, Marking, Atomic
  <2> QED BY <2>1, <1>7, SweepStringFollows
<1>8. CASE s.state = "sweep"
  <2>1. SingleStep(s) = SweepStep(s) BY <1>8 DEF SingleStep, Marking, Atomic
  <2> QED BY <2>1, <1>8, SweepStepFollows
<1>9. CASE s.state = "finalize" /\ s.tmu # {}
  <2>1. SingleStep(s) = GCTM(s, FALSE) BY <1>9 DEF SingleStep, Marking, Atomic
  <2> QED BY <2>1, <1>9, GCTMFollows
<1>10. CASE s.state = "finalize" /\ s.tmu = {}
  <2> DEFINE x == [s EXCEPT !.state = "pause"]
  <2>1. SingleStep(s) = x BY <1>10 DEF SingleStep, Marking, Atomic
  <2>2. /\ IsG(x) /\ x.mark = s.mark /\ x.meta = s.meta /\ x.fin = s.fin /\ x.tmu = s.tmu
        /\ x.calls = s.calls /\ x.white = s.white /\ x.state = "pause"
    BY <1>0, FieldsOf DEF IsG, Fields
  <2> HIDE DEF x
  <2>3. KeepsUdata(s, x, {}) /\ SameMeta(s, x) BY <2>2 DEF KeepsUdata, SameMeta, Ending
  <2>4. Counted(x) /\ Follows(s, x) BY <2>3, <1>0, KeptFollows DEF FinInv
  <2>5. Judged(x)
    <3>1. s.state \notin Marking BY <1>10 DEF Marking, Atomic
    <3> QED BY <2>2, <2>3, <3>1, KeptJudged DEF FinInv
  <2> QED BY <2>1, <2>4, <2>5 DEF FinInv
<1> QED BY <1>1, <1>2, <1>3, <1>4, <1>5, <1>6, <1>7, <1>8, <1>9, <1>10
        DEF States, Closing, Ending, Marking, Atomic

LEMMA FullGcFollows ==
  ASSUME NEW s, Sound(s), FinInv(s), s.state \notin Atomic \cup Ending
  PROVE  FinInv(FullGc(s)) /\ Follows(s, FullGc(s))
<1>0. /\ s \in GState /\ IsG(s) /\ HeapInv(s) /\ Counted(s) /\ Judged(s)
      /\ SweepInv(s) /\ MarkInv(s, {}, {})
  BY SoundGives DEF Sound, GcInv, FinInv
<1> DEFINE U == {x \in GState : Sound(x) /\ FinInv(x) /\ Follows(s, x) /\ x.state \notin Ending}
           reset == [BeginSweep(s) EXCEPT !.gray = {}, !.again = {}, !.weak = {}]
           from == IF s.state \in {"pause", "propagate"} THEN reset ELSE s
           swept == StepsTo(from, "finalize")
<1>1. \A x \in U : SingleStep(x) \in U
  <2> SUFFICES ASSUME NEW x \in U PROVE SingleStep(x) \in U
    OBVIOUS
  <2>1. Sound(x) /\ FinInv(x) /\ Follows(s, x) /\ x.state \notin Ending OBVIOUS
  <2>2. Sound(SingleStep(x)) /\ SingleStep(x).state \notin Ending BY <2>1, SingleStepKeeps
  <2>3. FinInv(SingleStep(x)) /\ Follows(x, SingleStep(x)) BY <2>1, SingleStepFollows
  <2>4. Follows(s, SingleStep(x)) BY <2>1, <2>3, FollowsTwice
  <2> QED BY <2>2, <2>3, <2>4, SoundGives
<1>2. from \in U
  <2>1. CASE s.state \in {"pause", "propagate"}
    <3>1. RootList(s) \subseteq Obj BY DEF RootList
    <3>2. reset = [s EXCEPT !.str = 0, !.sweep = RootList(s), !.state = "sweepstring",
                            !.gray = {}, !.again = {}, !.weak = {}]
      BY DEF BeginSweep
    <3> HIDE DEF reset
    <3>3. /\ reset \in GState /\ SameHeap(s, reset) /\ reset.mark = s.mark
          /\ reset.white = s.white /\ reset.tmu = s.tmu /\ reset.run = s.run
          /\ reset.str = 0 /\ reset.sweep = RootList(s) /\ reset.state = "sweepstring"
          /\ reset.fin = s.fin /\ reset.calls = s.calls /\ reset.meta = s.meta
      BY <3>1, <3>2, <1>0 DEF GState, SameHeap, States
    <3>4. s.state \in Marking \cup {"pause"} BY <2>1 DEF Marking
    <3>5. Sound(reset) BY <3>3, <3>4, <1>0, BeginSweepKeeps
    <3>6. KeepsUdata(s, reset, {}) /\ SameMeta(s, reset)
      BY <3>3, FieldsOf DEF KeepsUdata, SameMeta, Ending
    <3>7. Counted(reset) /\ Follows(s, reset) BY <3>6, <1>0, KeptFollows
    <3>8. \A u \in Objs("udata") : ~IsDead(s, u)
      <4>1. CASE s.state = "propagate"
        <5>1. ListInv(s) BY <4>1, <1>0 DEF MarkInv, Marking
        <5> QED BY <5>1 DEF ListInv, IsDead, Mark, Objs
      <4>2. CASE s.state = "pause"
        <5>1. \A o \in Obj : s.mark[o] \in {"free", s.white}
          BY <4>2, <1>0 DEF SweepInv, ToSweep, Marking, Atomic, Closing
        <5>2. OtherWhite(s) \notin {"free", s.white} BY <1>0, GStateIs DEF OtherWhite, Whites
        <5> QED BY <5>1, <5>2 DEF IsDead, Mark, Objs
      <4> QED BY <2>1, <4>1, <4>2
    <3>9. Judged(reset) BY <3>3, <3>8 DEF Judged, IsDead, Mark, OtherWhite
    <3> QED BY <2>1, <3>3, <3>5, <3>7, <3>9 DEF FinInv, Ending
  <2>2. CASE s.state \notin {"pause", "propagate"}
    <3>1. Follows(s, s) BY DEF Follows
    <3> HIDE DEF reset
    <3> QED BY <2>2, <3>1, <1>0
  <2> QED BY <2>1, <2>2
<1>3. MaxSteps \in Nat BY GcConstants
<1> HIDE DEF from, reset
<1>4. swept \in U
  <2> HIDE DEF U
  <2> QED BY <1>1, <1>2, <1>3, StepsStay
<1>5. FullGc(s) = IF swept.state = "finalize" THEN StepsTo(MarkRoot(swept), "pause") ELSE swept
  BY DEF FullGc, from, reset
<1> HIDE DEF swept
<1>6. CASE swept.state = "finalize"
  <2>1. MarkRoot(swept) \in U
    <3>1. Sound(swept) /\ FinInv(swept) /\ Follows(s, swept) /\ swept.state \notin Ending BY <1>4
    <3>2. Sound(MarkRoot(swept)) /\ MarkRoot(swept).state \notin Ending
      BY <3>1, <1>6, MarkRootKeeps DEF Ending
    <3>3. FinInv(MarkRoot(swept)) /\ Follows(s, MarkRoot(swept))
      BY <3>1, MarkRootFollows, FollowsTwice
    <3> QED BY <3>2, <3>3, SoundGives
  <2>2. StepsTo(MarkRoot(swept), "pause") \in U
    <3> HIDE DEF U
    <3> QED BY <2>1, <1>1, <1>3, StepsStay
  <2> QED BY <2>2, <1>5, <1>6
<1>7. CASE swept.state # "finalize" BY <1>4, <1>5, <1>7
<1> QED BY <1>6, <1>7
-----------------------------------------------------------------------------
(* The program, and lua_close.                                             *)

\* What FinalizesFirst says of a step.
Fine(s, x) ==
  \A u \in Objs("udata") :
    /\ x.calls[u] <= 1
    /\ Waiting(s, u) /\ HasGc(s, u) => Waiting(x, u) \/ x.calls[u] = 1

LEMMA FollowsFine ==
  ASSUME NEW s, NEW x, Counted(x), Follows(s, x)
  PROVE  Fine(s, x)
<1>1. \A u \in Objs("udata") : x.calls[u] \in {0, 1} BY DEF Counted
<1> QED BY <1>1 DEF Follows, Fine

LEMMA ProgramFine ==
  ASSUME NEW s, Sound(s), FinInv(s), s.state \notin Atomic,
         NEW x, NEW N, KeepsUdata(s, x, N), x.state = s.state
  PROVE  FinInv(x) /\ Fine(s, x)
<1>1. Counted(x) /\ \A u \in Objs("udata") : Waiting(s, u) => Waiting(x, u)
  BY SoundGives, KeptCounts DEF FinInv
<1>2. Judged(x)
  <2>1. CASE s.state \in Marking
    BY <2>1 DEF Judged, Marking, Atomic
  <2>2. CASE s.state \notin Marking
    <3>1. x.state # "tmu" BY <2>2 DEF Marking, Atomic
    <3> QED BY <3>1, <2>2, KeptJudged DEF FinInv
  <2> QED BY <2>1, <2>2
<1>3. Fine(s, x)
  <2>1. \A u \in Objs("udata") : x.calls[u] \in {0, 1} BY <1>1 DEF Counted
  <2> QED BY <1>1, <2>1 DEF Fine
<1> QED BY <1>1, <1>2, <1>3 DEF FinInv

\* Only ref, meta, open, run or the lists are changed.
Stored(s, x) ==
  /\ IsG(x) /\ x.mark = s.mark /\ x.fin = s.fin /\ x.tmu = s.tmu
  /\ x.calls = s.calls /\ x.white = s.white /\ x.state = s.state
LEMMA StoredKeeps ==
  ASSUME NEW s, NEW x, Stored(s, x)
  PROVE  KeepsUdata(s, x, {})
  BY DEF Stored, KeepsUdata

LEMMA PaintUdata ==
  ASSUME NEW s, IsG(s), NEW o \in Obj, NEW c, c \notin {"free", OtherWhite(s)},
         Tt[o] # "udata" \/ s.mark[o] # "free"
  PROVE  KeepsUdata(s, Paint(s, o, c), {}) /\ Paint(s, o, c).state = s.state
<1> DEFINE x == Paint(s, o, c)
<1>1. /\ IsG(x) /\ x.tmu = s.tmu /\ x.state = s.state /\ x.calls = s.calls
      /\ x.fin = s.fin /\ x.white = s.white
      /\ \A p \in Obj : x.mark[p] = IF p = o THEN c ELSE s.mark[p]
  BY DEF IsG, Fields, Paint
<1> HIDE DEF x
<1>2. \A u \in Objs("udata") : u \in Obj /\ Tt[u] = "udata" BY DEF Objs
<1>3. KeepsUdata(s, x, {})
  BY <1>1, <1>2 DEF KeepsUdata, IsDead, Mark, OtherWhite
<1> QED BY <1>1, <1>3 DEF x

LEMMA BarrierUdata ==
  ASSUME NEW s, IsG(s), s.white \in Whites, NEW o \in Obj, NEW v
  PROVE  /\ KeepsUdata(s, BarrierF(s, o, v), {}) /\ BarrierF(s, o, v).state = s.state
         /\ KeepsUdata(s, BarrierT(s, o, v), {}) /\ BarrierT(s, o, v).state = s.state
<1>1. KeepsUdata(s, s, {}) BY DEF KeepsUdata
<1>2. CASE Mark(s, o) # "black" \/ WhiteOf(s, {v}) = {}
  BY <1>1, <1>2 DEF BarrierF, BarrierT
<1>3. CASE ~(Mark(s, o) # "black" \/ WhiteOf(s, {v}) = {})
  <2>1. s.mark[o] # "free" BY <1>3 DEF Mark
  <2>2. s.white \notin {"free", OtherWhite(s)} /\ "gray" \notin {"free", OtherWhite(s)}
    BY DEF Whites, OtherWhite
  <2>3. /\ KeepsUdata(s, Paint(s, o, s.white), {}) /\ Paint(s, o, s.white).state = s.state
        /\ KeepsUdata(s, Paint(s, o, "gray"), {}) /\ Paint(s, o, "gray").state = s.state
    BY <2>1, <2>2, PaintUdata
  <2>4. KeepsUdata(s, MarkAll(s, {v}), {}) /\ MarkAll(s, {v}).state = s.state
    BY MarkAllUdata
  <2>5. BarrierF(s, o, v) \in {MarkAll(s, {v}), Paint(s, o, s.white)}
    BY <1>3 DEF BarrierF
  <2> DEFINE y == Paint(s, o, "gray")
             x == [y EXCEPT !.again = @ \cup {o}]
  <2>6. BarrierT(s, o, v) = x BY <1>3 DEF BarrierT
  <2> HIDE DEF y
  <2>7. IsG(y) BY <2>3 DEF KeepsUdata, y
  <2>8. Stored(y, x) BY <2>7 DEF Stored, IsG, Fields
  <2> HIDE DEF x
  <2>9. KeepsUdata(s, x, {}) /\ x.state = s.state
    BY <2>3, <2>8, StoredKeeps, KeepsTwice DEF y, Stored
  <2> QED BY <2>3, <2>4, <2>5, <2>6, <2>9
<1> QED BY <1>2, <1>3

\* What the program does between two steps of the collector.
LEMMA SoundWhite ==
  ASSUME NEW s, Sound(s)
  PROVE  IsG(s) /\ s.white \in Whites /\ Usable(s) \subseteq Obj
<1>1. HeapInv(s) /\ s \in GState /\ IsG(s) BY SoundGives
<1>2. s.white \in Whites BY <1>1, GStateIs
<1>3. Usable(s) \subseteq Obj BY <1>1, UsableIs DEF Alive
<1> QED BY <1>1, <1>2, <1>3

LEMMA StoredBarrier ==
  ASSUME NEW s, Sound(s), NEW y, Stored(s, y), NEW o \in Obj, NEW v
  PROVE  /\ KeepsUdata(s, BarrierF(y, o, v), {}) /\ BarrierF(y, o, v).state = s.state
         /\ KeepsUdata(s, BarrierT(y, o, v), {}) /\ BarrierT(y, o, v).state = s.state
<1>1. KeepsUdata(s, y, {}) /\ y.state = s.state BY StoredKeeps DEF Stored
<1>2. IsG(y) /\ y.white \in Whites BY SoundWhite DEF Stored
<1>3. /\ KeepsUdata(y, BarrierF(y, o, v), {}) /\ BarrierF(y, o, v).state = y.state
      /\ KeepsUdata(y, BarrierT(y, o, v), {}) /\ BarrierT(y, o, v).state = y.state
  BY <1>2, BarrierUdata
<1> QED BY <1>1, <1>3, KeepsTwice

\* One of the actions that store something, or do not even that.
LEMMA StoresKeep ==
  ASSUME Sound(g),
         SetElement \/ SetNode \/ SetMetatable \/ SetLocal \/ SetUpval \/ SetFenv \/ Switch
  PROVE  KeepsUdata(g, g', {}) /\ g'.state = g.state
<1>0. IsG(g) /\ g.white \in Whites /\ Usable(g) \subseteq Obj BY SoundWhite
<1>1. CASE SetElement
  <2>1. PICK t \in Written \cap Usable(g) \cap Objs("table"), v \in UsableValues(g) :
          g' = BarrierT([g EXCEPT !.ref[t][1] = v], t, v)
    BY <1>1 DEF SetElement
  <2>2. Stored(g, [g EXCEPT !.ref[t][1] = v]) BY <1>0 DEF Stored, IsG, Fields
  <2>3. t \in Obj BY <1>0
  <2> QED BY <2>1, <2>2, <2>3, StoredBarrier
<1>2. CASE SetNode
  <2>1. PICK t \in Written \cap Usable(g) \cap Objs("table"),
             k \in NodeKeys \cap Usable(g) \cap Values, v \in UsableValues(g) :
          g' = BarrierT(BarrierT([g EXCEPT !.ref[t][2] = k, !.ref[t][3] = v], t, k), t, v)
    BY <1>2 DEF SetNode
  <2> DEFINE y == [g EXCEPT !.ref[t][2] = k, !.ref[t][3] = v]
             z == BarrierT(y, t, k)
  <2>2. Stored(g, y) BY <1>0 DEF Stored, IsG, Fields
  <2>3. t \in Obj BY <1>0
  <2> HIDE DEF y
  <2>4. KeepsUdata(g, z, {}) /\ z.state = g.state BY <2>2, <2>3, StoredBarrier
  <2>5. g' = BarrierT(z, t, v) BY <2>1 DEF y
  <2> HIDE DEF z
  <2>6. IsG(z) /\ z.white \in Whites BY <1>0, <2>4 DEF KeepsUdata
  <2>7. KeepsUdata(z, BarrierT(z, t, v), {}) /\ BarrierT(z, t, v).state = z.state
    BY <2>3, <2>6, BarrierUdata
  <2> QED BY <2>4, <2>5, <2>7, KeepsTwice
<1>3. CASE SetMetatable
  <2>1. PICK o \in Usable(g) \cap (Written \cup Objs("udata")),
             m \in OrNil(Usable(g) \cap Objs("table")) :
          g' \in {BarrierT([g EXCEPT !.meta[o] = m], o, m),
                  BarrierF([g EXCEPT !.meta[o] = m], o, m)}
    BY <1>3 DEF SetMetatable
  <2>2. Stored(g, [g EXCEPT !.meta[o] = m]) BY <1>0 DEF Stored, IsG, Fields
  <2>3. o \in Obj BY <1>0
  <2> QED BY <2>1, <2>2, <2>3, StoredBarrier
<1>4. CASE SetLocal
  <2>1. PICK i \in 2..3, v \in UsableValues(g) : g' = [g EXCEPT !.ref[g.run][i] = v]
    BY <1>4 DEF SetLocal
  <2>2. Stored(g, g') BY <2>1, <1>0 DEF Stored, IsG, Fields
  <2> QED BY <2>2, StoredKeeps DEF Stored
<1>5. CASE SetUpval
  <2>1. PICK f \in Usable(g) \cap Objs("function"), v \in UsableValues(g) :
          LET u == g.ref[f][3]
              at == IF IsOpen(g, u) THEN g.open[u] ELSE <<u, 1>>
          IN  g' = BarrierF([g EXCEPT !.ref[at[1]][at[2]] = v], u, v)
    BY <1>5 DEF SetUpval
  <2> DEFINE u == g.ref[f][3]
             at == IF IsOpen(g, u) THEN g.open[u] ELSE <<u, 1>>
             y == [g EXCEPT !.ref[at[1]][at[2]] = v]
  <2>2. g' = BarrierF(y, u, v) BY <2>1
  <2>3. u \in Obj
    <3>1. Shaped(g) /\ f \in Alive(g) /\ Tt[f] = "function"
      BY SoundGives, UsableIs DEF HeapInv, Objs
    <3>2. g.ref[f][3] \in MayHold("function", 3)
      BY <3>1 DEF Shaped, Alive, Slots
    <3> QED BY <3>2 DEF MayHold, Objs
  <2>4. Stored(g, y)
    <3> HIDE DEF at, u
    <3> QED BY <1>0 DEF Stored, IsG, Fields
  <2> HIDE DEF y, u, at
  <2> QED BY <2>2, <2>3, <2>4, StoredBarrier
<1>6. CASE SetFenv
  <2>1. PICK o \in {x \in Usable(g) : Tt[x] \in {"function", "udata", "thread"}},
             e \in Usable(g) \cap Objs("table") :
          g' = BarrierF([g EXCEPT !.ref[o][1] = e], o, e)
    BY <1>6 DEF SetFenv
  <2>2. Stored(g, [g EXCEPT !.ref[o][1] = e]) BY <1>0 DEF Stored, IsG, Fields
  <2>3. o \in Obj BY <1>0
  <2> QED BY <2>1, <2>2, <2>3, StoredBarrier
<1>7. CASE Switch
  <2>1. PICK th : g' = [g EXCEPT !.run = th] BY <1>7 DEF Switch
  <2>2. Stored(g, g') BY <2>1, <1>0 DEF Stored, IsG, Fields
  <2> QED BY <2>2, StoredKeeps DEF Stored
<1> QED BY <1>1, <1>2, <1>3, <1>4, <1>5, <1>6, <1>7

LEMMA CloseOpKept ==
  ASSUME Sound(g), Close
  PROVE  KeepsUdata(g, g', {}) /\ g'.state = g.state
  BY SoundGives, CloseUdata DEF Close

\* A new object is of the current white, not finalized, and no finalizer has run for it.
LEMMA FreshUdata ==
  ASSUME NEW s, IsG(s), s.white \in Whites, NEW o \in Obj, s.mark[o] = "free", NEW ref
  PROVE  LET x == Fresh(s, o, ref) IN
         KeepsUdata(s, x, {o} \cap Objs("udata")) /\ x.state = s.state
<1> DEFINE k == IF Tt[o] = "udata" THEN [s.calls EXCEPT ![o] = 0] ELSE s.calls
           m == [s.mark EXCEPT ![o] = s.white]
           x == [s EXCEPT !.mark = m, !.fin = s.fin \ {o}, !.meta[o] = Nil, !.ref[o] = ref,
                          !.open[o] = <<>>, !.calls = k]
<1>1. Fresh(s, o, ref) = x
  BY DEF Fresh, IsG, Fields
<1>2. /\ DOMAIN m = Obj /\ DOMAIN k = Objs("udata")
      /\ \A u \in Objs("udata") : k[u] = IF u = o THEN 0 ELSE s.calls[u]
      /\ \A p \in Obj : m[p] = IF p = o THEN s.white ELSE s.mark[p]
  BY DEF IsG, Objs
<1> HIDE DEF k, m
<1>3. /\ IsG(x) /\ x.tmu = s.tmu /\ x.state = s.state /\ x.calls = k
      /\ x.fin = s.fin \ {o} /\ x.white = s.white /\ x.mark = m
  BY <1>2 DEF IsG, Fields
<1> HIDE DEF x
<1>4. \A u \in Objs("udata") : u \in Obj BY DEF Objs
<1>5. ~IsDead(x, o) BY <1>2, <1>3 DEF IsDead, Mark, OtherWhite, Whites
<1>6. KeepsUdata(s, x, {o} \cap Objs("udata"))
  BY <1>2, <1>3, <1>4, <1>5 DEF KeepsUdata
<1> QED BY <1>1, <1>3, <1>6

LEMMA ThenStored ==
  ASSUME NEW s, NEW x, NEW N, KeepsUdata(s, x, N), x.state = s.state, NEW y, Stored(x, y)
  PROVE  KeepsUdata(s, y, N) /\ y.state = s.state
  BY DEF Stored, KeepsUdata, IsDead, Mark, OtherWhite

LEMMA NewKept ==
  ASSUME Sound(g), New
  PROVE  \E N : KeepsUdata(g, g', N) /\ g'.state = g.state
<1>1. PICK o \in Objs("table") \cup Objs("udata") \cup Objs("thread") :
        LET ref == IF Tt[o] = "table" THEN Blank(o)
                   ELSE [Blank(o) EXCEPT ![1] = g.ref[g.run][1]]
        IN  /\ Mark(g, o) = "free"
            /\ g' = [Fresh(g, o, ref) EXCEPT !.ref[g.run][2] = o]
  BY DEF New
<1> DEFINE ref == IF Tt[o] = "table" THEN Blank(o)
                  ELSE [Blank(o) EXCEPT ![1] = g.ref[g.run][1]]
<1>0. Mark(g, o) = "free" /\ g' = [Fresh(g, o, ref) EXCEPT !.ref[g.run][2] = o] BY <1>1
<1> HIDE DEF ref
<1> DEFINE x == Fresh(g, o, ref)
<1>2. o \in Obj BY DEF Objs
<1>3. KeepsUdata(g, x, {o} \cap Objs("udata")) /\ x.state = g.state
  BY <1>0, <1>2, SoundWhite, FreshUdata DEF Mark
<1> HIDE DEF x
<1>4. g' = [x EXCEPT !.ref[g.run][2] = o] BY <1>0 DEF x
<1> DEFINE N == {o} \cap Objs("udata")
<1>5. Stored(x, g')
  <2>1. IsG(x) BY <1>3 DEF KeepsUdata
  <2> QED BY <2>1, <1>4 DEF Stored, IsG, Fields
<1>6. KeepsUdata(g, g', N) /\ g'.state = g.state BY <1>3, <1>5, ThenStored
<1> QED BY <1>6

LEMMA NewStringKept ==
  ASSUME Sound(g), NewString
  PROVE  KeepsUdata(g, g', {}) /\ g'.state = g.state
<1>0. IsG(g) /\ g.white \in Whites BY SoundWhite
<1>1. PICK o \in Objs("string") :
        LET found == IF IsDead(g, o) THEN Paint(g, o, g.white) ELSE g
            added == Fresh(g, o, Blank(o))
            grown == IF /\ Cardinality(Strings(added)) > g.size
                        /\ g.state # "sweepstring"
                     THEN [added EXCEPT !.size = 2 * @] ELSE added
            x == IF Mark(g, o) = "free" THEN grown ELSE found
        IN  g' = [x EXCEPT !.ref[g.run][2] = o]
  BY DEF NewString
<1> DEFINE found == IF IsDead(g, o) THEN Paint(g, o, g.white) ELSE g
           added == Fresh(g, o, Blank(o))
           grown == IF /\ Cardinality(Strings(added)) > g.size
                       /\ g.state # "sweepstring"
                    THEN [added EXCEPT !.size = 2 * @] ELSE added
           x == IF Mark(g, o) = "free" THEN grown ELSE found
<1>2. g' = [x EXCEPT !.ref[g.run][2] = o] BY <1>1
<1>3. o \in Obj /\ Tt[o] = "string" BY DEF Objs
<1>4. KeepsUdata(g, found, {}) /\ found.state = g.state
  <2>1. KeepsUdata(g, g, {}) BY <1>0 DEF KeepsUdata
  <2>2. g.white \notin {"free", OtherWhite(g)} BY <1>0 DEF Whites, OtherWhite
  <2>3. KeepsUdata(g, Paint(g, o, g.white), {}) /\ Paint(g, o, g.white).state = g.state
    BY <1>0, <1>3, <2>2, PaintUdata
  <2> QED BY <2>1, <2>3
<1>5. ASSUME Mark(g, o) = "free"
      PROVE  KeepsUdata(g, grown, {}) /\ grown.state = g.state
  <2>1. {o} \cap Objs("udata") = {} BY <1>3 DEF Objs
  <2>2. KeepsUdata(g, added, {}) /\ added.state = g.state
    <3>1. KeepsUdata(g, added, {o} \cap Objs("udata")) /\ added.state = g.state
      BY <1>0, <1>3, <1>5, FreshUdata DEF Mark
    <3> HIDE DEF added
    <3> QED BY <2>1, <3>1
  <2> HIDE DEF added
  <2> DEFINE y == [added EXCEPT !.size = 2 * @]
  <2>3. IsG(added) BY <2>2 DEF KeepsUdata
  <2>4. Stored(added, y) BY <2>3 DEF Stored, IsG, Fields
  <2>5. grown \in {added, y} OBVIOUS
  <2> HIDE DEF y, grown
  <2> QED BY <2>2, <2>4, <2>5, StoredKeeps, KeepsTwice DEF Stored
<1> HIDE DEF found, grown
<1>6. KeepsUdata(g, x, {}) /\ x.state = g.state BY <1>4, <1>5
<1> HIDE DEF x
<1>7. Stored(x, g')
  <2>1. IsG(x) BY <1>6 DEF KeepsUdata
  <2> QED BY <2>1, <1>2 DEF Stored, IsG, Fields
<1> QED BY <1>6, <1>7, ThenStored

LEMMA NewClosureKept ==
  ASSUME Sound(g), NewClosure
  PROVE  KeepsUdata(g, g', {}) /\ g'.state = g.state
<1>0. IsG(g) /\ g.white \in Whites BY SoundWhite
<1>1. PICK f \in Objs("function"), p \in Usable(g) \cap Objs("proto"), u \in Objs("upval") :
        LET at == <<g.run, 3>>
            ref == [i \in 1..3 |-> IF i = 1 THEN g.ref[g.run][1] ELSE IF i = 2 THEN p ELSE u]
        IN  /\ Mark(g, f) = "free"
            /\ MayFind(g, at, u)
            /\ g' = [Fresh(FindUpval(g, at, u), f, ref) EXCEPT !.ref[g.run][2] = f]
  BY DEF NewClosure
<1> DEFINE at == <<g.run, 3>>
           ref == [i \in 1..3 |-> IF i = 1 THEN g.ref[g.run][1] ELSE IF i = 2 THEN p ELSE u]
           z == FindUpval(g, at, u)
           x == Fresh(z, f, ref)
<1>2. /\ Mark(g, f) = "free" /\ MayFind(g, at, u)
      /\ g' = [x EXCEPT !.ref[g.run][2] = f]
  BY <1>1
<1> HIDE DEF at, ref
<1>3. /\ f \in Obj /\ Tt[f] = "function" /\ u \in Obj /\ Tt[u] = "upval" /\ f # u
  BY DEF Objs
<1>4. {f} \cap Objs("udata") = {} /\ {u} \cap Objs("udata") = {} BY <1>3 DEF Objs
<1>5. KeepsUdata(g, z, {}) /\ z.state = g.state /\ z.mark[f] = g.mark[f]
  <2>1. CASE OpenAt(g, at) = {}
    <3> DEFINE y == Fresh(g, u, Blank(u))
    <3>1. g.mark[u] = "free" BY <2>1, <1>2 DEF MayFind, Mark
    <3>2. KeepsUdata(g, y, {}) /\ y.state = g.state
      <4>1. KeepsUdata(g, y, {u} \cap Objs("udata")) /\ y.state = g.state
        BY <1>0, <1>3, <3>1, FreshUdata
      <4> HIDE DEF y
      <4> QED BY <1>4, <4>1
    <3>3. y.mark[f] = g.mark[f] BY <1>0, <1>3 DEF Fresh, IsG, Fields
    <3>4. z = [y EXCEPT !.open[u] = at] BY <2>1 DEF FindUpval
    <3> HIDE DEF y, z
    <3>5. IsG(y) BY <3>2 DEF KeepsUdata
    <3>6. Stored(y, z) BY <3>4, <3>5 DEF Stored, IsG, Fields
    <3> QED BY <3>2, <3>3, <3>6, StoredKeeps, KeepsTwice DEF Stored
  <2>2. CASE OpenAt(g, at) # {}
    <3>1. z \in {g, Paint(g, u, g.white)} BY <2>2 DEF FindUpval
    <3>2. KeepsUdata(g, g, {}) BY <1>0 DEF KeepsUdata
    <3>3. g.white \notin {"free", OtherWhite(g)} BY <1>0 DEF Whites, OtherWhite
    <3>4. KeepsUdata(g, Paint(g, u, g.white), {}) /\ Paint(g, u, g.white).state = g.state
      BY <1>0, <1>3, <3>3, PaintUdata
    <3>5. Paint(g, u, g.white).mark[f] = g.mark[f] BY <1>0, <1>3 DEF Paint, IsG, Fields
    <3> QED BY <3>1, <3>2, <3>4, <3>5
  <2> QED BY <2>1, <2>2
<1> HIDE DEF z
<1>6. IsG(z) /\ z.white \in Whites /\ z.mark[f] = "free"
  BY <1>0, <1>2, <1>5 DEF KeepsUdata, Mark
<1>7. KeepsUdata(z, x, {}) /\ x.state = z.state
  <2>1. KeepsUdata(z, x, {f} \cap Objs("udata")) /\ x.state = z.state
    BY <1>3, <1>6, FreshUdata
  <2> HIDE DEF x
  <2> QED BY <1>4, <2>1
<1> HIDE DEF x
<1>8. KeepsUdata(g, x, {}) /\ x.state = g.state BY <1>5, <1>7, KeepsTwice
<1>9. Stored(x, g')
  <2>1. IsG(x) BY <1>8 DEF KeepsUdata
  <2> QED BY <2>1, <1>2 DEF Stored, IsG, Fields
<1> QED BY <1>8, <1>9, ThenStored

\* In lua_close only the heap matters, and that what awaits a finalizer is alive.
LEMMA ClosingSound ==
  ASSUME NEW s, HeapInv(s), NEW x \in GState, SameHeap(s, x), x.mark = s.mark,
         x.white = s.white, x.run = s.run, x.sweep = {}, x.tmu \subseteq Alive(s),
         x.state \in Closing
  PROVE  Sound(x) /\ Calm(x)
<1>0. /\ s \in GState /\ Shaped(s) /\ Opened(s) /\ Painted(s) /\ Rooted(s) /\ Closed(s)
  BY DEF HeapInv
<1>1. x.ref = s.ref /\ x.meta = s.meta /\ x.open = s.open BY DEF SameHeap
<1>2. \A o : Below(x, o) = Below(s, o) /\ IsOpen(x, o) = IsOpen(s, o) BY HeapReads
<1>3. \A o : IsDead(x, o) = IsDead(s, o) BY DEF IsDead, Mark, OtherWhite
<1>4. Alive(x) = Alive(s) BY <1>3 DEF Alive
<1>5. Shaped(x) BY <1>0, <1>1 DEF Shaped
<1>6. Opened(x) BY <1>0, <1>1, <1>2 DEF Opened
<1>7. Painted(x) BY <1>0, <1>2 DEF Painted
<1>8. Rooted(x) BY <1>0, <1>4 DEF Rooted, Closing
<1>9. Closed(x) BY <1>0, <1>2, <1>4 DEF Closed
<1>10. SweepInv(x) BY DEF SweepInv, ToSweep
<1>11. MarkInv(x, {}, {}) /\ Calm(x) BY DEF MarkInv, Marking, Atomic, Closing, Calm, Early
<1> QED BY <1>5, <1>6, <1>7, <1>8, <1>9, <1>10, <1>11 DEF Sound, GcInv, HeapInv

LEMMA EmptyStackKeeps ==
  ASSUME NEW s, Sound(s), s.state \notin Atomic
  PROVE  LET x == EmptyStack(s) IN
         /\ Sound(x) /\ x.state = s.state /\ x.tmu = s.tmu
         /\ KeepsUdata(s, x, {}) /\ SameMeta(s, x)
<1> DEFINE c == CloseUpvals(s, MainThread)
           a == [c EXCEPT !.ref[MainThread][2] = Nil]
           b == [a EXCEPT !.ref[MainThread][3] = Nil]
           x == [b EXCEPT !.run = MainThread]
<1>1. EmptyStack(s) = x BY DEF EmptyStack
<1>2. Sound(c) /\ c.state = s.state /\ c.tmu = s.tmu BY MainIs, CloseKeeps
<1>3. KeepsUdata(s, c, {}) /\ SameMeta(s, c) BY SoundGives, CloseUdata
<1> HIDE DEF c
<1>4. \A h : Nil \in OrNil(Alive(h)) /\ \A i \in 2..3 : Nil \in MayHold("thread", i)
  BY DEF OrNil, MayHold, Values
<1>5. Sound(a) /\ SameButRefs(c, a)
  <2>1. 2 \in 1..3 /\ 2 \in 2..3 OBVIOUS
  <2> QED BY <2>1, <1>2, <1>4, MainIs, RegisterKeeps
<1>6. a.meta = c.meta BY <1>2, SoundGives DEF IsG, Fields
<1> HIDE DEF a
<1>7. Sound(b) /\ SameButRefs(a, b)
  <2>1. 3 \in 1..3 /\ 3 \in 2..3 /\ a.state \notin Atomic BY <1>2, <1>5 DEF SameButRefs
  <2> QED BY <2>1, <1>4, <1>5, MainIs, RegisterKeeps
<1>8. b.meta = a.meta BY <1>5, SoundGives DEF IsG, Fields
<1> HIDE DEF b
<1>9. Sound(x) /\ x.state = b.state /\ x.tmu = b.tmu
  <2>1. MainThread \in Alive(b) /\ MainThread \in Objs("thread")
    BY <1>7, MainIs DEF Sound, GcInv, HeapInv, Rooted, Objs
  <2>2. b.state \notin Atomic BY <1>2, <1>5, <1>7 DEF SameButRefs
  <2> QED BY <2>1, <2>2, <1>7, RunKeeps
<1>10. /\ IsG(x) /\ x.meta = b.meta /\ x.mark = b.mark /\ x.fin = b.fin
       /\ x.calls = b.calls /\ x.white = b.white
  BY <1>7, SoundGives DEF IsG, Fields
<1> HIDE DEF x
<1>11. Stored(c, x) BY <1>5, <1>7, <1>9, <1>10 DEF Stored, SameButRefs
<1>12. KeepsUdata(s, x, {}) BY <1>3, <1>11, StoredKeeps, KeepsTwice
<1>13. SameMeta(s, x) BY <1>3, <1>6, <1>8, <1>10 DEF SameMeta
<1> QED BY <1>1, <1>2, <1>9, <1>11, <1>12, <1>13 DEF Stored

\* What the atomic phase has passed over is the only dead udata there is.
LEMMA DeadJudged ==
  ASSUME NEW s, Sound(s), FinInv(s), s.state \notin Atomic
  PROVE  \A u \in Objs("udata") : IsDead(s, u) => u \in s.fin
<1>1. CASE s.state = "propagate"
  <2>1. ListInv(s) BY <1>1 DEF Sound, GcInv, MarkInv, Marking
  <2> QED BY <2>1 DEF ListInv, IsDead, Mark, Objs
<1>2. CASE s.state # "propagate"
  BY <1>2 DEF FinInv, Judged, Marking
<1> QED BY <1>1, <1>2

\* A step that keeps the udata, from a state in which the program may run.
LEMMA KeptFin ==
  ASSUME NEW s, Sound(s), FinInv(s), s.state \notin Atomic,
         NEW x, KeepsUdata(s, x, {}), SameMeta(s, x), x.state = s.state
  PROVE  FinInv(x) /\ Follows(s, x)
<1>1. FinInv(x) BY ProgramFine
<1>2. Follows(s, x) BY SoundGives, KeptFollows DEF FinInv
<1> QED BY <1>1, <1>2

\* lua_close looks for all that needs a finalizer.
LEMMA CloseStateKeeps ==
  ASSUME Sound(g), FinInv(g), CloseState
  PROVE  Sound(g') /\ Calm(g') /\ FinInv(g') /\ Fine(g, g')
<1> DEFINE s == EmptyStack(g)
           z == SeparateUdata(s, TRUE)
           x == [z EXCEPT !.state = "closing", !.gray = {}, !.again = {}, !.weak = {},
                          !.sweep = {}]
           due == Due(s, TRUE)
<1>1. g.state \notin Atomic \cup Ending /\ g' = x BY DEF CloseState
<1>2. /\ Sound(s) /\ s.state = g.state /\ s.tmu = g.tmu
      /\ KeepsUdata(g, s, {}) /\ SameMeta(g, s)
  BY <1>1, EmptyStackKeeps
<1>3. FinInv(s) /\ Follows(g, s) BY <1>1, <1>2, KeptFin
<1> HIDE DEF s
<1>4. /\ s \in GState /\ HeapInv(s) /\ Rooted(s) /\ IsG(s) /\ Counted(s)
      /\ s.tmu \subseteq Objs("udata") /\ \A u \in s.tmu : s.mark[u] # "free"
  BY <1>2, <1>3, SoundGives DEF FinInv
<1>5. /\ z \in GState
      /\ z = [s EXCEPT !.fin = s.fin \cup due, !.tmu = s.tmu \cup {u \in due : HasGc(s, u)}]
  BY <1>4, SeparateUdataIs DEF Due
<1> HIDE DEF z
<1>6. /\ x \in GState /\ SameHeap(s, x) /\ x.mark = s.mark /\ x.white = s.white
      /\ x.run = s.run /\ x.sweep = {} /\ x.state = "closing" /\ x.calls = s.calls
      /\ x.fin = s.fin \cup due /\ x.tmu = s.tmu \cup {u \in due : HasGc(s, u)}
  <2>1. /\ z.ref = s.ref /\ z.meta = s.meta /\ z.open = s.open /\ z.mark = s.mark
        /\ z.white = s.white /\ z.run = s.run /\ z.calls = s.calls
        /\ z.fin = s.fin \cup due /\ z.tmu = s.tmu \cup {u \in due : HasGc(s, u)}
    <3> HIDE DEF due
    <3> QED BY <1>4, <1>5 DEF GState
  <2> HIDE DEF due
  <2> QED BY <2>1, <1>5 DEF GState, SameHeap, States, Closing
<1> HIDE DEF x
<1>7. \A u \in due : u \in Objs("udata") /\ s.mark[u] # "free" /\ u \notin s.fin
  BY DEF Due, Mark
<1>8. \A u \in Objs("udata") : s.mark[u] # "free" => u \in s.fin \cup due
  BY DEF Due, Mark
<1> HIDE DEF due
<1>9. x.tmu \subseteq Alive(s)
  <2>1. \A u \in due : ~IsDead(s, u) BY <1>1, <1>2, <1>3, <1>7, DeadJudged
  <2> QED BY <2>1, <1>4, <1>6, <1>7 DEF Rooted, Alive, Objs
<1>10. Sound(x) /\ Calm(x) BY <1>4, <1>6, <1>9, ClosingSound DEF Closing
<1>11. \A u \in Objs("udata") : Waiting(x, u) <=> s.mark[u] # "free" /\ u \in x.tmu
  BY <1>6 DEF Waiting, Mark, Ending
<1>12. \A u \in Objs("udata") : Waiting(s, u) <=> s.mark[u] # "free" /\ (u \in s.tmu \/ u \notin s.fin)
  BY <1>1, <1>2 DEF Waiting, Mark
<1>13. Counted(x)
  BY <1>4, <1>6, <1>7, <1>11, <1>12 DEF Counted
<1>14. Judged(x)
  <2>1. s.white \in Whites BY <1>4, GStateIs
  <2>2. \A u \in Objs("udata") : IsDead(x, u) => s.mark[u] # "free"
    BY <2>1, <1>6 DEF IsDead, Mark, OtherWhite
  <2> QED BY <2>2, <1>6, <1>8 DEF Judged
<1>15. Follows(s, x)
  <2>1. \A u \in Objs("udata") : HasGc(x, u) <=> HasGc(s, u) BY <1>6 DEF HasGc, SameHeap
  <2> QED BY <2>1, <1>6, <1>8, <1>11, <1>12 DEF Follows
<1> QED BY <1>1, <1>3, <1>10, <1>13, <1>14, <1>15, FollowsTwice, FollowsFine DEF FinInv

\* The next finalizer.
LEMMA CloseFinalizesKeeps ==
  ASSUME Sound(g), FinInv(g), CloseFinalizes
  PROVE  Sound(g') /\ Calm(g') /\ FinInv(g') /\ Fine(g, g')
<1>1. PICK s \in {EmptyStack(g), [g EXCEPT !.run = MainThread]} :
        g' = [GCTM(s, CallsTm(s)) EXCEPT !.state = IF CallsTm(s) THEN "finalizer" ELSE "closing"]
  BY DEF CloseFinalizes
<1>2. g.state \in Closing /\ g.tmu # {} BY DEF CloseFinalizes, Closing
<1>3. g.state \notin Atomic BY <1>2 DEF Closing, Atomic
<1>4. /\ Sound(s) /\ s.state = g.state /\ s.tmu = g.tmu
      /\ KeepsUdata(g, s, {}) /\ SameMeta(g, s)
  <2>1. CASE s = EmptyStack(g) BY <2>1, <1>3, EmptyStackKeeps
  <2>2. CASE s = [g EXCEPT !.run = MainThread]
    <3>1. MainThread \in Alive(g) /\ MainThread \in Objs("thread")
      BY MainIs DEF Sound, GcInv, HeapInv, Rooted, Objs
    <3>2. Sound(s) /\ s.state = g.state /\ s.tmu = g.tmu BY <2>2, <3>1, <1>3, RunKeeps
    <3>3. Stored(g, s) /\ s.meta = g.meta BY <2>2, SoundGives DEF Stored, IsG, Fields
    <3> QED BY <3>2, <3>3, StoredKeeps DEF SameMeta
  <2> QED BY <1>1, <2>1, <2>2
<1>5. FinInv(s) /\ Follows(g, s) BY <1>3, <1>4, KeptFin
<1> DEFINE keep == CallsTm(s)
           y == GCTM(s, keep)
           e == IF keep THEN "finalizer" ELSE "closing"
           x == [y EXCEPT !.state = e]
<1>6. g' = x BY <1>1
<1>7. keep \in BOOLEAN BY DEF CallsTm, HasGc
<1>8. e \in Closing BY DEF Closing
<1> HIDE DEF keep, e
<1>9. Sound(y) /\ y.state \in Closing /\ FinInv(y) /\ Follows(s, y)
  BY <1>2, <1>4, <1>5, <1>7, GCTMCalls, GCTMFollows
<1> HIDE DEF y
<1>10. y \in GState /\ HeapInv(y) /\ IsG(y) BY <1>9, SoundGives
<1>11. /\ x \in GState /\ SameHeap(y, x) /\ x.mark = y.mark /\ x.white = y.white
       /\ x.run = y.run /\ x.sweep = y.sweep /\ x.tmu = y.tmu /\ x.state = e
       /\ x.fin = y.fin /\ x.calls = y.calls
  BY <1>8, <1>10 DEF GState, SameHeap, States
<1> HIDE DEF x
<1>12. y.sweep = {} /\ y.tmu \subseteq Alive(y)
  BY <1>9, <1>10 DEF HeapInv, Rooted, Closing
<1>13. Sound(x) /\ Calm(x) BY <1>8, <1>10, <1>11, <1>12, ClosingSound
<1>14. \A u \in Objs("udata") : /\ Waiting(x, u) <=> Waiting(y, u)
                                /\ HasGc(x, u) <=> HasGc(y, u)
  BY <1>8, <1>9, <1>11 DEF Waiting, Mark, Ending, Closing, HasGc, SameHeap
<1>15. Counted(x) BY <1>9, <1>11, <1>14 DEF FinInv, Counted
<1>16. Judged(x)
  BY <1>8, <1>9, <1>11 DEF FinInv, Judged, IsDead, Mark, OtherWhite, Closing, Marking, Atomic
<1>17. Follows(y, x) BY <1>11, <1>14 DEF Follows
<1>18. Follows(g, x) BY <1>5, <1>9, <1>17, FollowsTwice
<1> QED BY <1>6, <1>13, <1>15, <1>16, <1>18, FollowsFine DEF FinInv

\* luaC_freeall comes when nothing awaits its finalizer.
LEMMA FreeAllFine ==
  ASSUME Sound(g), FinInv(g), FreeAll
  PROVE  g'.state = "closed" /\ Fine(g, g')
<1> DEFINE f == Free(g, Obj)
<1>1. g.state \in Ending /\ g.tmu = {} /\ g' = [f EXCEPT !.state = "closed", !.again = {}]
  BY DEF FreeAll, Ending
<1>2. f \in GState /\ f.calls = g.calls
  BY FreeIs DEF Sound, GcInv, HeapInv, SameButObjects
<1> HIDE DEF f
<1>3. g'.state = "closed" /\ g'.calls = g.calls BY <1>1, <1>2 DEF GState
<1>4. \A u \in Objs("udata") : ~Waiting(g, u) /\ g.calls[u] \in {0, 1}
  BY <1>1 DEF Waiting, FinInv, Counted
<1> QED BY <1>3, <1>4 DEF Fine
-----------------------------------------------------------------------------
(* The invariant, and what it is for.                                      *)

LEMMA GcNextKeeps ==
  ASSUME IInv, GcNext
  PROVE  IInv' /\ FinalizesFirst
<1>1. ASSUME Sound(g'), Calm(g'), FinInv(g'), Fine(g, g') PROVE IInv' /\ FinalizesFirst
  BY <1>1 DEF IInv, Fine, FinalizesFirst
<1>2. ASSUME g.state # "closed" PROVE Sound(g) /\ Calm(g) /\ FinInv(g) BY <1>2 DEF IInv
<1>3. ASSUME FinInv(g'), Follows(g, g') PROVE Fine(g, g') BY <1>3, FollowsFine DEF FinInv
<1>4. CASE Step
  <2>1. g.state \notin Ending /\ g.state # "closed" /\ g' = SingleStep(g)
    BY <1>4 DEF Step, Ending
  <2> QED BY <2>1, <1>1, <1>2, <1>3, SingleStepKeeps, SingleStepFollows
<1>5. CASE StepKeeps
  <2>1. g.state = "finalize" /\ g.state # "closed" /\ g.tmu # {} /\ g' = GCTM(g, TRUE)
    BY <1>5 DEF StepKeeps
  <2> QED BY <2>1, <1>1, <1>2, <1>3, <1>5, StepKeepsKeeps, GCTMFollows
<1>6. CASE CollectGarbage
  <2>1. /\ g.state \notin Atomic \cup Ending /\ g.state # "closed"
        /\ g' = FullGc(g) /\ g'.state = "pause"
    BY <1>6 DEF CollectGarbage, Ending
  <2>2. Sound(g') BY <2>1, <1>2, FullGcKeeps
  <2>3. Calm(g') BY <2>1 DEF Calm, Early
  <2> QED BY <2>1, <2>2, <2>3, <1>1, <1>2, <1>3, FullGcFollows
<1>7. CASE CloseState
  <2>1. g.state # "closed" BY <1>7 DEF CloseState, Ending
  <2> QED BY <2>1, <1>1, <1>2, <1>7, CloseStateKeeps
<1>8. CASE CloseFinalizes
  <2>1. g.state # "closed" BY <1>8 DEF CloseFinalizes
  <2> QED BY <2>1, <1>1, <1>2, <1>8, CloseFinalizesKeeps
<1>9. CASE FreeAll
  <2>1. g.state # "closed" BY <1>9 DEF FreeAll
  <2>2. g'.state = "closed" /\ Fine(g, g') BY <2>1, <1>2, <1>9, FreeAllFine
  <2> QED BY <2>2 DEF IInv, Fine, FinalizesFirst
\* The rest is the program, which runs only while the state is not closed.
<1>10. ASSUME NEW N, KeepsUdata(g, g', N), g'.state = g.state, Op
       PROVE  FinInv(g') /\ Fine(g, g')
  BY <1>2, <1>10, ProgramFine DEF Op
<1>11. ASSUME Op PROVE Sound(g) /\ Calm(g) BY <1>2, <1>11 DEF Op
<1>12. CASE SetElement \/ SetNode \/ SetMetatable \/ SetLocal \/ SetUpval \/ SetFenv \/ Switch
  <2>1. Op BY <1>12 DEF SetElement, SetNode, SetMetatable, SetLocal, SetUpval, SetFenv, Switch
  <2>2. FinInv(g') /\ Fine(g, g') BY <2>1, <1>10, <1>11, <1>12, StoresKeep
  <2>3. Sound(g') /\ Calm(g')
    BY <2>1, <1>11, <1>12, SetElementKeeps, SetNodeKeeps, SetMetatableKeeps, SetLocalKeeps,
       SetUpvalKeeps, SetFenvKeeps, SwitchKeeps
  <2> QED BY <2>2, <2>3, <1>1
<1>13. CASE Close \/ NewString \/ NewClosure
  <2>1. Op BY <1>13 DEF Close, NewString, NewClosure
  <2>2. FinInv(g') /\ Fine(g, g')
    BY <2>1, <1>10, <1>11, <1>13, CloseOpKept, NewStringKept, NewClosureKept
  <2>3. Sound(g') /\ Calm(g')
    BY <2>1, <1>11, <1>13, CloseOpKeeps, NewStringKeeps, NewClosureKeeps
  <2> QED BY <2>2, <2>3, <1>1
<1>14. CASE New
  <2>1. Op BY <1>14 DEF New
  <2>2. FinInv(g') /\ Fine(g, g') BY <2>1, <1>10, <1>11, <1>14, NewKept
  <2>3. Sound(g') /\ Calm(g') BY <2>1, <1>11, <1>14, NewKeeps
  <2> QED BY <2>2, <2>3, <1>1
<1> QED BY <1>4, <1>5, <1>6, <1>7, <1>8, <1>9, <1>12, <1>13, <1>14 DEF GcNext

LEMMA InitFin ==
  ASSUME GcInit
  PROVE  FinInv(g)
<1>1. /\ g.fin = {} /\ g.tmu = {} /\ g.state = "pause"
      /\ \A u \in Objs("udata") : g.calls[u] = 0
      /\ \A o \in Obj : g.mark[o] \in {"w0", "free"} /\ g.white = "w0"
  BY DEF GcInit
<1>2. Counted(g) BY <1>1 DEF Counted
<1>3. Judged(g) BY <1>1 DEF Judged, IsDead, Mark, OtherWhite, Objs
<1> QED BY <1>2, <1>3 DEF FinInv

\* The collector's invariant: whatever is alive refers only to what is alive; what
\* is not white while sweeping is still to be swept; while marking, nothing is dead,
\* no black object refers to a white one, and what is gray is on one list.
THEOREM CollectorInvariant == GcSpec => []IInv
<1>1. GcInit => IInv BY InitKeeps, InitFin DEF IInv
<1>2. IInv /\ [GcNext]_gcvars => IInv'
  <2> SUFFICES ASSUME IInv, [GcNext]_gcvars PROVE IInv'
    OBVIOUS
  <2>1. CASE GcNext BY <2>1, GcNextKeeps
  <2>2. CASE UNCHANGED gcvars BY <2>2 DEF gcvars, IInv
  <2> QED BY <2>1, <2>2
<1> QED BY <1>1, <1>2, PTL DEF GcSpec

\* lgc.c, lfunc.c, lstring.c: whatever the program or a due finalizer can reach is
\* neither freed nor white of the cycle that is being swept.
THEOREM NothingDangles == GcSpec => []NoDangling
<1>1. IInv => NoDangling
  <2> SUFFICES ASSUME IInv, g.state # "closed", NEW o \in Reachable(g)
               PROVE  Mark(g, o) # "free" /\ ~IsDead(g, o)
    BY DEF NoDangling
  <2>1. HeapInv(g) BY DEF IInv, Sound, GcInv
  <2>2. o \in Alive(g) BY <2>1, UsableIs
  <2> QED BY <2>2 DEF Alive, Mark
<1> QED BY <1>1, CollectorInvariant, PTL

\* lgc.h's barriers: while marking no black object refers to a white one, and gray
\* objects are on exactly one of the lists that share the field gclist.
THEOREM ColorsHold == GcSpec => []TriColor
<1>1. IInv => TriColor
  <2> SUFFICES ASSUME IInv, g.state = "propagate" PROVE
         /\ \A o \in Obj : Mark(g, o) = "black" => WhiteOf(g, Refs(g, o)) = {}
         /\ \A o \in Obj : Tt[o] \in Chained =>
              (Mark(g, o) = "gray" <=> o \in g.gray \cup g.again \cup g.weak)
         /\ g.gray \cap g.again = {} /\ g.gray \cap g.weak = {} /\ g.again \cap g.weak = {}
    BY DEF TriColor
  <2>1. Sound(g) /\ g.tmu = {} BY DEF IInv, Calm, Early
  <2>2. ListInv(g) /\ BlackInv(g, {}, {})
    BY <2>1 DEF Sound, GcInv, MarkInv, Marking
  <2>3. ASSUME NEW o \in Obj, Mark(g, o) = "black" PROVE WhiteOf(g, Refs(g, o)) = {}
    <3>1. WhiteOf(g, Below(g, o)) = {} BY <2>1, <2>2, <2>3 DEF BlackInv, Excused, Mark
    <3>2. Refs(g, o) \ {Nil} \subseteq Below(g, o)
      <4>1. CASE Tt[o] = "table"
        <5>1. /\ {1, 3} \subseteq Slots(Tt[o]) \ (IF EmptyNode(g, o) THEN {2} ELSE {})
              /\ ~EmptyNode(g, o) =>
                   2 \in Slots(Tt[o]) \ (IF EmptyNode(g, o) THEN {2} ELSE {})
          BY <4>1 DEF Slots
        <5>2. Refs(g, o) \subseteq {g.meta[o], g.ref[o][1], g.ref[o][3]}
                                  \cup (IF EmptyNode(g, o) THEN {} ELSE {g.ref[o][2]})
          BY <4>1 DEF Refs, TableRefs
        <5> QED BY <5>1, <5>2 DEF Below
      <4>2. CASE Tt[o] # "table"
        <5>1. ~EmptyNode(g, o) BY <4>2 DEF EmptyNode
        <5> QED BY <4>2, <5>1 DEF Refs, Below
      <4> QED BY <4>1, <4>2
    <3> QED BY <3>1, <3>2 DEF WhiteOf
  <2>4. \A o \in Obj : Tt[o] \in Chained =>
          (Mark(g, o) = "gray" <=> o \in g.gray \cup g.again \cup g.weak)
    BY <2>2 DEF ListInv, Mark
  <2>5. g.gray \cap g.again = {} /\ g.gray \cap g.weak = {} /\ g.again \cap g.weak = {}
    BY <2>2 DEF ListInv
  <2> QED BY <2>3, <2>4, <2>5
<1> QED BY <1>1, CollectorInvariant, PTL

\* A udata with __gc is finalized once, and before it is freed or passed over,
\* whatever the program and the collector do, a full collection and lua_close
\* included; what a finalizer of lua_close makes is not promised anything.
THEOREM FinalizersRun == GcSpec => FinalizedOnce
<1>1. IInv /\ [GcNext]_gcvars => [FinalizesFirst]_gcvars
  BY GcNextKeeps
<1> QED BY <1>1, CollectorInvariant, PTL DEF GcSpec, FinalizedOnce
=============================================================================

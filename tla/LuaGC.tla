-------------------------------- MODULE LuaGC --------------------------------
(***************************************************************************)
(* The incremental garbage collector of the embedded Lua (lgc.c) with the  *)
(* mutator operations that take part in its protocol: allocation, interned *)
(* strings (lstring.c), upvalues (lfunc.c), the stores that have a write   *)
(* barrier, and lua_close (lstate.c).                                      *)
(*                                                                         *)
(* An object is a slot of Obj whose type never changes; "free" is memory   *)
(* that is not allocated.  Its references are the sequence ref:            *)
(*    table <<array element, key, value>>     udata <<environment>>        *)
(*    function <<environment, proto, upvalue>>   proto <<constant>>        *)
(*    thread <<globals, stack ...>>           upval <<closed value>>       *)
(* and, of tables and udata, meta.  All of g is one state record; the      *)
(* operators that take and return a g are the C functions that mutate it.  *)
(* The lists are sets: in which order an object is taken from one is left  *)
(* open.  Left out: byte counts (when a step is due is nondeterministic),  *)
(* stack sizes, the shrinking of the string table (checkSizes), the        *)
(* metatables of basic types, and a collection by a finalizer that         *)
(* lua_close runs (GCTM puts the steps off until the heap has doubled).    *)
(***************************************************************************)
EXTENDS Integers, Sequences, FiniteSets

CONSTANTS
  Obj,        \* the slots
  Tt,         \* Obj -> Types
  Nil,        \* no reference
  MainThread, \* g->mainthread, the one thread that is never freed
  Mode,       \* what __mode holds in a table that serves as a metatable
  GcMeta,     \* the tables that have a __gc field
  Hash,       \* the hash of a string slot
  Heaps,      \* the objects the program may have built when a cycle starts
  Written,    \* bound: the tables that the program stores into
  NodeKeys,   \* bound: the keys of the nodes it sets
  MaxOps,     \* bound: mutator operations
  MaxSteps    \* bound: the steps of each half of a full collection

Types == {"table", "string", "udata", "function", "proto", "thread", "upval"}
Objs(t) == {o \in Obj : Tt[o] = t}
OrNil(S) == S \cup {Nil}
Slots(t) == IF t \in {"table", "function", "thread"} THEN 1..3
            ELSE IF t = "string" THEN {} ELSE {1}
Blank(o) == [i \in Slots(Tt[o]) |-> Nil]
\* What a Lua value can be, and what slot i of an object of type t can hold.
Values == OrNil({v \in Obj : Tt[v] \notin {"upval", "proto"}})
MayHold(t, i) ==
  IF t = "udata" \/ (i = 1 /\ t \in {"function", "thread"}) THEN OrNil(Objs("table"))
  ELSE IF t = "function" THEN Objs(IF i = 2 THEN "proto" ELSE "upval")
  ELSE Values

\* A heap that a program can have built: objects with ref, meta and, of an upvalue
\* that is still a slot of a stack, the thread and the slot.
WellBuilt(h, o) ==
  LET there(S) == OrNil(S \cap DOMAIN h)
  IN  /\ h[o].ref \in [Slots(Tt[o]) -> there(Obj)]
      /\ \A i \in Slots(Tt[o]) : h[o].ref[i] \in MayHold(Tt[o], i)
      /\ h[o].meta \in IF Tt[o] \in {"table", "udata"} THEN there(Objs("table")) ELSE {Nil}
      /\ h[o].open # <<>> =>
           /\ Tt[o] = "upval"
           /\ h[o].open \in (Objs("thread") \cap DOMAIN h) \X {2, 3}
           /\ h[o].ref[1] = Nil

ASSUME GcConstants ==
  /\ IsFiniteSet(Obj)
  /\ Nil \notin Obj
  /\ Tt \in [Obj -> Types]
  /\ MainThread \in Objs("thread")
  /\ Mode \in [Objs("table") -> SUBSET {"k", "v"}]
  /\ GcMeta \subseteq Objs("table")
  /\ Hash \in [Objs("string") -> Nat]
  /\ MaxOps \in Nat /\ MaxSteps \in Nat
  /\ \A h \in Heaps :
       /\ DOMAIN h \subseteq Obj
       /\ MainThread \in DOMAIN h
       /\ \A o \in DOMAIN h : WellBuilt(h, o)

VARIABLES
  g,     \* global_State and the heap; calls is a history: how often __gc ran
         \* for the object in a udata's slot
  ops,   \* how many mutator operations there were
  whole  \* history: the latest step was a full collection

gcvars == <<g, ops, whole>>

\* lua_newstate, and then a program that has built one of Heaps.
GcInit ==
  /\ \E h \in Heaps :
       g = [mark |-> [o \in Obj |-> IF o \in DOMAIN h THEN "w0" ELSE "free"],
            ref |-> [o \in Obj |-> IF o \in DOMAIN h THEN h[o].ref ELSE Blank(o)],
            meta |-> [o \in Obj |-> IF o \in DOMAIN h THEN h[o].meta ELSE Nil],
            open |-> [o \in Obj |-> IF o \in DOMAIN h THEN h[o].open ELSE <<>>],
            fin |-> {}, state |-> "pause", white |-> "w0", gray |-> {},
            again |-> {}, weak |-> {}, tmu |-> {}, str |-> 0, size |-> 1,
            sweep |-> {}, run |-> MainThread,
            calls |-> [u \in Objs("udata") |-> 0]]
  /\ ops = 0
  /\ whole = FALSE
-----------------------------------------------------------------------------
\* lgc.h's colours.
Whites == {"w0", "w1"}
Mark(s, o) == s.mark[o]
IsWhite(s, o) == Mark(s, o) \in Whites
OtherWhite(s) == IF s.white = "w0" THEN "w1" ELSE "w0"
IsDead(s, o) == Mark(s, o) = OtherWhite(s)
Paint(s, o, c) == [s EXCEPT !.mark[o] = c]
WhiteOf(s, S) == {o \in S \ {Nil} : IsWhite(s, o)}

IsOpen(s, u) == s.open[u] # <<>>
OpenOn(s, th) == {u \in Objs("upval") : IsOpen(s, u) /\ s.open[u][1] = th}
\* *uv->v: a slot of a stack, or the upvalue's own.
UpvalValue(s, u) ==
  IF IsOpen(s, u) THEN s.ref[s.open[u][1]][s.open[u][2]] ELSE s.ref[u][1]

\* reallymarkobject of what is white in S.  Only upvalues and udata mark what they
\* refer to at once; an upvalue's value is no upvalue, and a udata refers to tables.
Chained == {"table", "function", "proto", "thread"}
Blackens(s, o) == Tt[o] = "udata" \/ (Tt[o] = "upval" /\ ~IsOpen(s, o))
FromUpvals(s, S) == S \cup WhiteOf(s, {UpvalValue(s, u) : u \in {o \in S : Tt[o] = "upval"}})
FromUdata(s, S) ==
  S \cup WhiteOf(s, UNION {{s.meta[u], s.ref[u][1]} : u \in {o \in S : Tt[o] = "udata"}})
Marked(s, S) == FromUdata(s, FromUpvals(s, WhiteOf(s, S)))
MarkAll(s, S) ==
  LET D == Marked(s, S)
  IN  [s EXCEPT !.mark = [o \in Obj |-> IF o \notin D THEN s.mark[o]
                                        ELSE IF Blackens(s, o) THEN "black" ELSE "gray"],
                !.gray = @ \cup {o \in D : Tt[o] \in Chained}]

ModeOf(s, t) == IF s.meta[t] = Nil THEN {} ELSE Mode[s.meta[t]]
IsWeak(s, t) == Tt[t] = "table" /\ ModeOf(s, t) # {}
EmptyNode(s, t) == Tt[t] = "table" /\ s.ref[t][3] = Nil

\* traversetable, traverseproto, traverseclosure, traversestack.
TableRefs(s, t) ==
  LET m == ModeOf(s, t)
  IN  {s.meta[t]} \cup (IF "v" \in m THEN {} ELSE {s.ref[t][1]})
      \cup (IF EmptyNode(s, t) \/ "k" \in m THEN {} ELSE {s.ref[t][2]})
      \cup (IF EmptyNode(s, t) \/ "v" \in m THEN {} ELSE {s.ref[t][3]})
Refs(s, o) ==
  IF Tt[o] = "table" THEN TableRefs(s, o) ELSE {s.ref[o][i] : i \in Slots(Tt[o])}

\* removeentry: the key of an empty node becomes a LUA_TDEADKEY.
RemoveEntry(s, t) ==
  IF EmptyNode(s, t) /\ ModeOf(s, t) # {"k", "v"} THEN [s EXCEPT !.ref[t][2] = Nil] ELSE s

\* propagatemark: a thread stays gray because its stack has no barrier, a weak
\* table because it is cleared later.
PropagateMark(s) ==
  LET o == CHOOSE x \in s.gray : TRUE
      popped == [s EXCEPT !.gray = @ \ {o}]
      listed == IF Tt[o] = "thread" THEN [popped EXCEPT !.again = @ \cup {o}]
                ELSE IF IsWeak(s, o) THEN [popped EXCEPT !.weak = @ \cup {o}]
                ELSE Paint(popped, o, "black")
  IN  MarkAll(RemoveEntry(listed, o), Refs(s, o))

\* markroot
MarkRoot(s) ==
  MarkAll([s EXCEPT !.gray = {}, !.again = {}, !.weak = {}, !.state = "propagate"],
          {MainThread, s.ref[MainThread][1]})
-----------------------------------------------------------------------------
(* atomic.  Its four calls of propagateall are the states "upvals",         *)
(* "weak", "again" and "tmu", in which the program does not run.            *)

Atomic == {"upvals", "weak", "again", "tmu"}
Marking == {"propagate"} \cup Atomic

\* Mutant: upvalues of stacks nobody marks again are forgotten.
RemarkUpvalsNot(s) == [s EXCEPT !.state = "upvals"]
\* remarkupvals: a stack that nobody marks again still has open upvalues that
\* somebody did mark.
RemarkUpvals(s) ==
  LET marked == {u \in Objs("upval") : IsOpen(s, u) /\ Mark(s, u) = "gray"}
  IN  MarkAll([s EXCEPT !.state = "upvals"], {UpvalValue(s, u) : u \in marked})

\* Weak tables, and the running thread.
RemarkWeak(s) ==
  MarkAll([s EXCEPT !.state = "weak", !.gray = s.weak, !.weak = {}], {s.run})

\* What the barriers have caught, and the threads.
RemarkAgain(s) == [s EXCEPT !.state = "again", !.gray = s.again, !.again = {}]

HasGc(s, u) == s.meta[u] # Nil /\ s.meta[u] \in GcMeta
\* Mutant: FINALIZEDBIT is not looked at.
SeparateUdataAgain(s, all) ==
  [s EXCEPT !.tmu = @ \cup {u \in Objs("udata") :
                              /\ Mark(s, u) # "free" /\ HasGc(s, u)
                              /\ all \/ IsWhite(s, u)}]
\* luaC_separateudata: udata that need finalization go to tmudata.
SeparateUdata(s, all) ==
  LET due == {u \in Objs("udata") : /\ Mark(s, u) # "free"
                                    /\ all \/ IsWhite(s, u)
                                    /\ u \notin s.fin}
  IN  [s EXCEPT !.fin = @ \cup due, !.tmu = @ \cup {u \in due : HasGc(s, u)}]
\* marktmu
MarkTmu(s) ==
  LET x == SeparateUdata(s, FALSE)
  IN  MarkAll([x EXCEPT !.state = "tmu",
                        !.mark = [o \in Obj |-> IF o \in x.tmu THEN x.white ELSE s.mark[o]]],
              x.tmu)

\* iscleared: strings are values; a udata being finalized stays as a key.
IsCleared(s, v, iskey) ==
  /\ v # Nil
  /\ Tt[v] # "string"
  /\ IsWhite(s, v) \/ (Tt[v] = "udata" /\ ~iskey /\ v \in s.fin)
\* cleartable, for each slot of a table: is it cleared, and is it looked at.
Clears(s, t, i) ==
  IF i = 1 THEN "v" \in ModeOf(s, t) /\ IsCleared(s, s.ref[t][1], FALSE)
  ELSE ~EmptyNode(s, t) /\ (IsCleared(s, s.ref[t][2], TRUE) \/ IsCleared(s, s.ref[t][3], FALSE))
Examines(s, t, i) ==
  IF i = 1 THEN "v" \in ModeOf(s, t)
  ELSE ~EmptyNode(s, t) /\ (i = 2 \/ ~IsCleared(s, s.ref[t][2], TRUE))
SeenStrings(s) ==
  {v \in Objs("string") : \E t \in s.weak, i \in 1..3 : Examines(s, t, i) /\ v = s.ref[t][i]}
ClearedRef(s) ==
  [o \in Obj |-> IF o \notin s.weak THEN s.ref[o]
                 ELSE [i \in 1..3 |-> IF Clears(s, o, i) THEN Nil ELSE s.ref[o][i]]]
ClearTable(s) == [MarkAll(s, SeenStrings(s)) EXCEPT !.ref = ClearedRef(s)]

\* The list from g->sweepgc on.  What is linked later is not on it: it is
\* white already, which is all that sweeping would make of it.
RootList(s) ==
  {o \in Obj : Mark(s, o) # "free" /\ Tt[o] # "string" /\ ~IsOpen(s, o)} \ s.tmu
BeginSweep(s) == [s EXCEPT !.str = 0, !.sweep = RootList(s), !.state = "sweepstring"]
FinishAtomic(s) ==
  LET x == ClearTable(s) IN BeginSweep([x EXCEPT !.white = OtherWhite(x)])
-----------------------------------------------------------------------------
\* freeobj, for all of S
Free(s, S) ==
  [s EXCEPT !.mark = [o \in Obj |-> IF o \in S THEN "free" ELSE s.mark[o]],
            !.ref = [o \in Obj |-> IF o \in S THEN Blank(o) ELSE s.ref[o]],
            !.meta = [o \in Obj |-> IF o \in S THEN Nil ELSE s.meta[o]],
            !.open = [o \in Obj |-> IF o \in S THEN <<>> ELSE s.open[o]],
            !.fin = @ \ S]

\* luaF_close(L, L->stack), luaC_linkupval
CloseUpvals(s, th) ==
  LET dead == {u \in OpenOn(s, th) : IsDead(s, u)}
      kept == OpenOn(s, th) \ dead
      gray == {u \in kept : Mark(s, u) = "gray"}
      x == Free(s, dead)
      linked == IF s.state = "propagate" THEN "black" ELSE s.white
      closed == [x EXCEPT
                   !.mark = [o \in Obj |-> IF o \in gray THEN linked ELSE x.mark[o]],
                   !.ref = [o \in Obj |-> IF o \in kept THEN [i \in {1} |-> UpvalValue(s, o)]
                                          ELSE x.ref[o]],
                   !.open = [o \in Obj |-> IF o \in kept THEN <<>> ELSE x.open[o]]]
  IN  IF s.state = "propagate" THEN MarkAll(closed, {UpvalValue(s, u) : u \in gray})
      ELSE closed

\* sweeplist, for the objects of S; a thread also has its open upvalues swept.
SweepAll(s, S) ==
  LET dead == {o \in S : IsDead(s, o)}
      x == Free(s, dead)
  IN  [x EXCEPT !.mark = [o \in Obj |-> IF o \in S \ dead THEN s.white ELSE x.mark[o]]]
SweepObj(s, o) ==
  LET x == IF Tt[o] = "thread" THEN SweepAll(s, OpenOn(s, o)) ELSE s
  IN  SweepAll(IF Tt[o] = "thread" /\ IsDead(x, o) THEN CloseUpvals(x, o) ELSE x, {o})

Strings(s) == {o \in Objs("string") : Mark(s, o) # "free"}
Bucket(s, n) == {o \in Strings(s) : Hash[o] % s.size = n}
SweepString(s) ==
  [SweepAll(s, Bucket(s, s.str))
     EXCEPT !.str = s.str + 1,
            !.state = IF s.str + 1 >= s.size THEN "sweep" ELSE "sweepstring"]
SweepStep(s) ==
  LET o == CHOOSE x \in s.sweep : TRUE
  IN  [SweepObj(s, o) EXCEPT !.sweep = s.sweep \ {o},
                             !.state = IF s.sweep = {o} THEN "finalize" ELSE "sweep"]

\* GCTM; the metamethod may keep the udata in the running thread's stack.
FirstTmu(s) == CHOOSE u \in s.tmu : TRUE
CallsTm(s) == HasGc(s, FirstTmu(s))
GCTM(s, keep) ==
  LET u == FirstTmu(s)
      x == [Paint(s, u, s.white) EXCEPT
              !.tmu = @ \ {u}, !.calls[u] = IF CallsTm(s) THEN @ + 1 ELSE @]
  IN  IF keep THEN [x EXCEPT !.ref[s.run][2] = u] ELSE x

\* singlestep, without the choice of the metamethod.
SingleStep(s) ==
  IF s.state = "pause" THEN MarkRoot(s)
  ELSE IF s.state \in Marking /\ s.gray # {} THEN PropagateMark(s)
  ELSE IF s.state = "propagate" THEN RemarkUpvals(s)
  ELSE IF s.state = "upvals" THEN RemarkWeak(s)
  ELSE IF s.state = "weak" THEN RemarkAgain(s)
  ELSE IF s.state = "again" THEN MarkTmu(s)
  ELSE IF s.state = "tmu" THEN FinishAtomic(s)
  ELSE IF s.state = "sweepstring" THEN SweepString(s)
  ELSE IF s.state = "sweep" THEN SweepStep(s)
  ELSE IF s.tmu # {} THEN GCTM(s, FALSE) ELSE [s EXCEPT !.state = "pause"]
StepsTo(s, end) ==
  LET after[n \in Nat] ==
        IF n = 0 THEN s
        ELSE LET x == after[n - 1] IN IF x.state = end THEN x ELSE SingleStep(x)
  IN  after[MaxSteps]
\* Mutant: a cycle that is under way is only finished.
FullGcFinishes(s) == StepsTo(IF s.state = "pause" THEN MarkRoot(s) ELSE s, "pause")
\* luaC_fullgc
FullGc(s) ==
  LET reset == [BeginSweep(s) EXCEPT !.gray = {}, !.again = {}, !.weak = {}]
      swept == StepsTo(IF s.state \in {"pause", "propagate"} THEN reset ELSE s, "finalize")
  IN  IF swept.state = "finalize" THEN StepsTo(MarkRoot(swept), "pause") ELSE swept

\* lua_close is under way, in its own code or in a finalizer, or is done.
Ending == {"closing", "finalizer", "closed"}

\* luaC_step
Step ==
  /\ g.state \notin Ending
  /\ g' = SingleStep(g)
  /\ whole' = FALSE
  /\ UNCHANGED ops
StepKeeps ==
  /\ g.state = "finalize"
  /\ g.tmu # {}
  /\ CallsTm(g)
  /\ g' = GCTM(g, TRUE)
  /\ whole' = FALSE
  /\ UNCHANGED ops
-----------------------------------------------------------------------------
\* What the program can get at from an object: values in weak tables too, but not
\* the key of an empty node.
Below(s, o) ==
  ({s.ref[o][i] : i \in Slots(Tt[o]) \ (IF EmptyNode(s, o) THEN {2} ELSE {})}
   \cup {s.meta[o]} \cup (IF Tt[o] = "upval" THEN {UpvalValue(s, o)} ELSE {})) \ {Nil}
Reach(s, S) ==
  LET within[n \in Nat] ==
        IF n = 0 THEN [all |-> S, new |-> S]
        ELSE LET x == within[n - 1]
                 new == UNION {Below(s, o) : o \in x.new} \ x.all
             IN  [all |-> x.all \cup new, new |-> new]
  IN  within[Cardinality(Obj)].all
Reachable(s) == Reach(s, {MainThread, s.run} \cup s.tmu)
Usable(s) == Reach(s, {MainThread, s.run})
UsableValues(s) == OrNil(Usable(s) \cap Values)

\* Mutant: luaC_barrierback forgets to chain the table into grayagain.
BarrierTUnlisted(s, t, v) ==
  IF Mark(s, t) # "black" \/ WhiteOf(s, {v}) = {} THEN s ELSE Paint(s, t, "gray")
\* luaC_barrierf, luaC_barrierback
BarrierF(s, o, v) ==
  IF Mark(s, o) # "black" \/ WhiteOf(s, {v}) = {} THEN s
  ELSE IF s.state = "propagate" THEN MarkAll(s, {v}) ELSE Paint(s, o, s.white)
BarrierT(s, t, v) ==
  IF Mark(s, t) # "black" \/ WhiteOf(s, {v}) = {} THEN s
  ELSE [Paint(s, t, "gray") EXCEPT !.again = @ \cup {t}]

\* The program runs, a finalizer included that lua_close has called.
Op ==
  /\ g.state \notin Atomic \cup {"closing", "closed"}
  /\ ops < MaxOps
  /\ ops' = ops + 1
  /\ whole' = FALSE

\* luaV_settable, lua_rawset, lua_rawseti: an element of the array part; a node,
\* whose new key has a barrier of its own (luaH_set's newkey).
SetElement ==
  /\ Op
  /\ \E t \in Written \cap Usable(g) \cap Objs("table"), v \in UsableValues(g) :
       g' = BarrierT([g EXCEPT !.ref[t][1] = v], t, v)
SetNode ==
  /\ Op
  /\ \E t \in Written \cap Usable(g) \cap Objs("table"),
        k \in NodeKeys \cap Usable(g) \cap Values, v \in UsableValues(g) :
       g' = BarrierT(BarrierT([g EXCEPT !.ref[t][2] = k, !.ref[t][3] = v], t, k), t, v)
\* lua_setmetatable
SetMetatable ==
  /\ Op
  /\ \E o \in Usable(g) \cap (Written \cup Objs("udata")),
        m \in OrNil(Usable(g) \cap Objs("table")) :
       \/ /\ Tt[o] = "table"
          /\ g' = BarrierT([g EXCEPT !.meta[o] = m], o, m)
       \/ /\ Tt[o] = "udata"
          /\ g' = BarrierF([g EXCEPT !.meta[o] = m], o, m)
\* A register of the running thread: no barrier.
SetLocal ==
  /\ Op
  /\ \E i \in 2..3, v \in UsableValues(g) : g' = [g EXCEPT !.ref[g.run][i] = v]
\* OP_SETUPVAL
SetUpval ==
  /\ Op
  /\ \E f \in Usable(g) \cap Objs("function"), v \in UsableValues(g) :
       LET u == g.ref[f][3]
           at == IF IsOpen(g, u) THEN g.open[u] ELSE <<u, 1>>
       IN  g' = BarrierF([g EXCEPT !.ref[at[1]][at[2]] = v], u, v)
\* lua_setfenv
SetFenv ==
  /\ Op
  /\ \E o \in {x \in Usable(g) : Tt[x] \in {"function", "udata", "thread"}},
        e \in Usable(g) \cap Objs("table") :
       g' = BarrierF([g EXCEPT !.ref[o][1] = e], o, e)
\* OP_CLOSE
Close ==
  /\ Op
  /\ OpenOn(g, g.run) # {}
  /\ g' = CloseUpvals(g, g.run)
\* lua_resume, lua_yield: another thread runs.
Switch ==
  /\ Op
  /\ \E th \in (Usable(g) \cap Objs("thread")) \ {g.run} : g' = [g EXCEPT !.run = th]

Fresh(s, o, ref) ==
  [s EXCEPT !.mark[o] = s.white, !.fin = @ \ {o}, !.meta[o] = Nil, !.ref[o] = ref,
            !.open[o] = <<>>,
            !.calls = IF Tt[o] = "udata" THEN [@ EXCEPT ![o] = 0] ELSE @]
\* luaH_new, luaS_newudata, luaE_newthread; the object goes to a register.
New ==
  /\ Op
  /\ \E o \in Objs("table") \cup Objs("udata") \cup Objs("thread") :
       LET ref == IF Tt[o] = "table" THEN Blank(o)
                  ELSE [Blank(o) EXCEPT ![1] = g.ref[g.run][1]]
       IN  /\ Mark(g, o) = "free"
           /\ g' = [Fresh(g, o, ref) EXCEPT !.ref[g.run][2] = o]

\* luaS_newlstr finds a string that the sweep has not reached yet, or adds one;
\* luaS_resize keeps out of a running string sweep.
NewString ==
  /\ Op
  /\ \E o \in Objs("string") :
       LET found == IF IsDead(g, o) THEN Paint(g, o, g.white) ELSE g
           added == Fresh(g, o, Blank(o))
           grown == IF /\ Cardinality(Strings(added)) > g.size
                       /\ g.state # "sweepstring"
                    THEN [added EXCEPT !.size = 2 * @] ELSE added
           x == IF Mark(g, o) = "free" THEN grown ELSE found
       IN  g' = [x EXCEPT !.ref[g.run][2] = o]

\* luaF_findupval: a slot's open upvalue is shared, and brought back if the
\* sweep was to free it; u is the slot of Obj for a new one.
OpenAt(s, at) == {v \in OpenOn(s, at[1]) : s.open[v] = at}
MayFind(s, at, u) ==
  IF OpenAt(s, at) = {} THEN Mark(s, u) = "free" ELSE u \in OpenAt(s, at)
FindUpval(s, at, u) ==
  IF OpenAt(s, at) = {} THEN [Fresh(s, u, Blank(u)) EXCEPT !.open[u] = at]
  ELSE IF IsDead(s, u) THEN Paint(s, u, s.white) ELSE s
\* OP_CLOSURE over a local variable
NewClosure ==
  /\ Op
  /\ \E f \in Objs("function"), p \in Usable(g) \cap Objs("proto"), u \in Objs("upval") :
       LET at == <<g.run, 3>>
           ref == [i \in 1..3 |-> IF i = 1 THEN g.ref[g.run][1] ELSE IF i = 2 THEN p ELSE u]
       IN  /\ Mark(g, f) = "free"
           /\ MayFind(g, at, u)
           /\ g' = [Fresh(FindUpval(g, at, u), f, ref) EXCEPT !.ref[g.run][2] = f]

\* lua_gc(LUA_GCCOLLECT)
CollectGarbage ==
  /\ g.state \notin Atomic \cup Ending
  /\ ops < MaxOps
  /\ ops' = ops + 1
  /\ LET x == FullGc(g) IN x.state = "pause" /\ g' = x
  /\ whole' = TRUE

\* luaF_close, and the main thread's stack is reset.
EmptyStack(s) ==
  LET x == CloseUpvals(s, MainThread)
  IN  [x EXCEPT !.ref[MainThread][2] = Nil, !.ref[MainThread][3] = Nil, !.run = MainThread]
\* lua_close, up to the finalizers: what needs one is looked for only here.
CloseState ==
  /\ g.state \notin Atomic \cup Ending
  /\ g' = [SeparateUdata(EmptyStack(g), TRUE) EXCEPT
             !.state = "closing", !.gray = {}, !.again = {}, !.weak = {}, !.sweep = {}]
  /\ whole' = FALSE
  /\ UNCHANGED ops
\* callallgcTM: the next finalizer.  The one before it has returned, which closes its
\* upvalues, or has failed, which leaves what it had on the stack.
CloseFinalizes ==
  /\ g.state \in {"closing", "finalizer"}
  /\ g.tmu # {}
  /\ \E s \in {EmptyStack(g), [g EXCEPT !.run = MainThread]} :
       g' = [GCTM(s, CallsTm(s)) EXCEPT !.state = IF CallsTm(s) THEN "finalizer" ELSE "closing"]
  /\ whole' = FALSE
  /\ UNCHANGED ops
\* close_state: luaC_freeall, whatever the finalizers have left.
FreeAll ==
  /\ g.state \in {"closing", "finalizer"}
  /\ g.tmu = {}
  /\ g' = [Free(g, Obj) EXCEPT !.state = "closed", !.again = {}]
  /\ whole' = FALSE
  /\ UNCHANGED ops

GcNext ==
  \/ Step \/ StepKeeps \/ CollectGarbage
  \/ CloseState \/ CloseFinalizes \/ FreeAll
  \/ SetElement \/ SetNode \/ SetMetatable \/ SetLocal \/ SetUpval
  \/ SetFenv \/ Close \/ Switch \/ New \/ NewString \/ NewClosure
GcSpec == GcInit /\ [][GcNext]_gcvars
-----------------------------------------------------------------------------
\* What the program can get at, now or through a finalizer that is due, is
\* neither freed nor about to be (luaC_barrierf's and reallymarkobject's
\* assertions that nothing they meet is dead).
NoDangling ==
  g.state # "closed" =>
    \A o \in Reachable(g) : Mark(g, o) # "free" /\ ~IsDead(g, o)

\* While marking, no black object refers to a white one, and whatever is gray
\* is on exactly one of the lists that share its gclist field.
TriColor ==
  g.state = "propagate" =>
    /\ \A o \in Obj : Mark(g, o) = "black" => WhiteOf(g, Refs(g, o)) = {}
    /\ \A o \in Obj : Tt[o] \in Chained =>
         (Mark(g, o) = "gray" <=> o \in g.gray \cup g.again \cup g.weak)
    /\ g.gray \cap g.again = {} /\ g.gray \cap g.weak = {} /\ g.again \cap g.weak = {}

\* lua_gc(LUA_GCCOLLECT) leaves nothing that the program cannot reach but what
\* the finalizers of this collection could reach, and the values that weak-keyed
\* entries held, which are marked before the entries are cleared.
CollectsAll ==
  whole' => LET final == {u \in Objs("udata") : g'.calls[u] # g.calls[u]}
                cleared == {t \in Objs("table") : /\ Mark(g', t) # "free"
                                                  /\ g'.ref[t] # g.ref[t]}
                held == {g.ref[t][3] : t \in cleared} \ {Nil}
            IN  \A o \in Obj : Mark(g', o) # "free" =>
                  o \in Reach(g', {MainThread, g'.run} \cup final \cup held)
CollectIsComplete == [][CollectsAll]_gcvars

\* A udata with __gc awaits its finalizer until that is called, which happens once:
\* no step frees it before, or marks it finalized and passes it over, the steps of
\* lua_close included and whatever its finalizers do.  (A udata does
\* not await it that luaC_separateudata found without __gc, or that a finalizer of
\* lua_close made, see FreedFinalized.)
Waiting(s, u) ==
  /\ Mark(s, u) # "free"
  /\ u \in s.tmu \/ (u \notin s.fin /\ s.state \notin Ending)
FinalizesFirst ==
  \A u \in Objs("udata") :
    /\ g'.calls[u] <= 1
    /\ Waiting(g, u) /\ HasGc(g, u) => Waiting(g', u) \/ g'.calls[u] = 1
FinalizedOnce == [][FinalizesFirst]_gcvars

\* lua_close "destroys all objects in the given Lua state (calling the corresponding
\* garbage-collection metamethods, if any)", doc/manual.html:2697.  Not so: what a
\* finalizer makes and gives a __gc is freed without.
LastFinalized ==
  g'.state = "closed" =>
    \A u \in Objs("udata") : Mark(g, u) # "free" /\ HasGc(g, u) /\ u \notin g.fin => g.calls[u] = 1
FreedFinalized == [][LastFinalized]_gcvars
=============================================================================

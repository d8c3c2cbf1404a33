---------------------------- MODULE MCLuaRuntime ----------------------------
\* The machines of the Lua runtime, one beside the other.  They share no state:
\* which says which one runs; g is the state of the collector, tb that of the tables,
\* s that of the loader, and L that of the calls.
EXTENDS LuaGC, LuaTable, LuaLoader, LuaCall, TLC

\* The collector's objects; Nil is none of them.
CONSTANTS T, C, A, B, Kt, Ud, Ud2, S1, S2, F, P, X, F2, X2
VARIABLE which
-----------------------------------------------------------------------------
MCObj == {T, C, A, B, Kt, Ud, Ud2, S1, S2, F, P, X, F2, X2}
MCTt == [o \in MCObj |-> CASE o \in {T, C} -> "thread"
                      [] o \in {A, B, Kt} -> "table"
                      [] o \in {Ud, Ud2} -> "udata"
                      [] o \in {S1, S2} -> "string"
                      [] o \in {F, F2} -> "function"
                      [] o = P -> "proto"
                      [] o \in {X, X2} -> "upval"]
Used(ref, meta, open) == [ref |-> ref, meta |-> meta, open |-> open]

\* A coroutine with an open upvalue that a global closure shares.
Coroutine ==
  (T :> Used(<<A, C, Nil>>, Nil, <<>>)) @@ (C :> Used(<<A, Nil, Ud>>, Nil, <<>>))
  @@ (A :> Used(<<F, Nil, Nil>>, Nil, <<>>)) @@ (P :> Used(<<Nil>>, Nil, <<>>))
  @@ (F :> Used(<<A, P, X>>, Nil, <<>>)) @@ (X :> Used(<<Nil>>, Nil, <<C, 3>>))
  @@ (Ud :> Used(<<A>>, Nil, <<>>))

\* A udata with __gc and, in a weak-keyed table, a string for it.
Weak ==
  (T :> Used(<<A, Ud, Nil>>, Nil, <<>>)) @@ (A :> Used(<<B, Nil, Nil>>, Nil, <<>>))
  @@ (B :> Used(<<Nil, Ud, S1>>, Kt, <<>>)) @@ (Kt :> Used(<<Nil, Nil, Nil>>, Nil, <<>>))
  @@ (Ud :> Used(<<A>>, Kt, <<>>)) @@ (S1 :> Used(<<>>, Nil, <<>>))

\* A local variable that a closure shares, and another closure of its prototype.
Local ==
  (T :> Used(<<A, F, Nil>>, Nil, <<>>)) @@ (A :> Used(<<F2, Nil, Nil>>, Nil, <<>>))
  @@ (F :> Used(<<A, P, X>>, Nil, <<>>)) @@ (X :> Used(<<Nil>>, Nil, <<T, 3>>))
  @@ (F2 :> Used(<<A, P, X2>>, Nil, <<>>)) @@ (X2 :> Used(<<Nil>>, Nil, <<>>))
  @@ (P :> Used(<<Nil>>, Nil, <<>>))

MCGcMeta == {Kt}
MCWritten == {A}
MCKeys == {Ud, S1}
MCMode == [t \in {A, B, Kt} |-> IF t = Kt THEN {"k"} ELSE IF t = B THEN {"v"} ELSE {}]
MCHash == [o \in {S1, S2} |-> IF o = S1 THEN 0 ELSE 1]
MCHeaps == {Coroutine, Weak, Local}

\* String keys may collide with the integer keys, and share a hash with others.
MCOthers == {-1, -2}
MCStringKeys == {-1}
MCKeyHash == [k \in Keys |-> IF k > 0 THEN k ELSE -k * 3]
MCSizes == {<<0, 0>>, <<0, 4>>}

\* b, and b.c, which may be a part of b's library.
Found(lua, lib, syms) == [lua |-> lua, lib |-> lib, syms |-> syms]
MCRoot == [n \in Names |-> "b"]
MCWorlds ==
  [Names -> {Found("chunk", "none", {}), Found("none", "ok", {"b", "b.c"}),
             Found("none", "ok", {"mylib"}), Found("broken", "ok", {"b"}),
             Found("none", "broken", {}), Found("none", "none", {})}]
\* The state of the loader where another machine runs.
NoLoader == [run |-> <<>>, udata |-> <<>>]

\* The state of the collector where another machine runs.
NoGc ==
  /\ ops = 0 /\ whole = FALSE
  /\ g = [state |-> "closed", mark |-> [o \in Obj |-> "free"],
          calls |-> [u \in Objs("udata") |-> 0]]
\* The table where another machine runs.
NoTable ==
  tb = [t |-> NewTable(0, 0), ref |-> [k \in Keys |-> 0], key |-> 0, seen |-> {}, on |-> FALSE]
MCInit ==
  /\ CallInit
  /\ \/ which = "gc" /\ GcInit /\ NoTable /\ s = NoLoader
     \/ which = "table" /\ TableInit /\ NoGc /\ s = NoLoader
     \/ which = "call" /\ NoTable /\ NoGc /\ s = NoLoader
     \/ which = "loader" /\ Init /\ NoGc /\ NoTable
MCNext ==
  \/ which = "gc" /\ GcNext /\ UNCHANGED <<which, tb, s, L>>
  \/ which = "table" /\ TableNext /\ UNCHANGED <<which, gcvars, s, L>>
  \/ which = "call" /\ CallNext /\ UNCHANGED <<which, gcvars, tb, s>>
  \/ which = "loader" /\ Next /\ UNCHANGED <<which, gcvars, tb, L>>
mcvars == <<which, gcvars, tb, s, L>>
MCSpec == MCInit /\ [][MCNext]_mcvars
=============================================================================

----------------------------- MODULE LuaLoader ------------------------------
(***************************************************************************)
(* require, module and package.loadlib of the embedded Lua (loadlib.c),    *)
(* with this repository's change: a C library that lacks luaopen_<name> is *)
(* entered at luaopen_mylib.  Chunks require one another, fail and are     *)
(* caught anywhere below, and the program may write to package.loaded and  *)
(* package.preload.  A library is kept open by a userdata of the registry, *)
(* whose finalizer unloads it when the state is closed.                    *)
(*                                                                         *)
(* Names are module names, and stand for the file that package.path, or    *)
(* package.cpath, finds for them (findfile: the first readable one).  Left *)
(* out: error messages, and a package.loaders that the program changes.    *)
(***************************************************************************)
EXTENDS Integers, Sequences, SequencesExt, FiniteSets

CONSTANTS
  Names,
  Worlds,   \* what there is for each name, see Files
  Root,     \* [Names -> Names]: what is in front of the first dot
  MaxRun,   \* bound: chunks that are running
  MaxUdata  \* bound: userdata with finalizers

VARIABLE s
\* s.files    what there is for a name, one of Worlds
\* s.loaded   package.loaded
\* s.preload  the names in package.preload
\* s.handle   the registry's LOADLIB: entries
\* s.udata    userdata with a finalizer, the oldest one first: <<"lib", p>> is
\*            the entry of library p, <<"obj", p>> has a finalizer in p
\* s.run      the chunks that are running, the innermost one last
\* s.open     lua_close has not been called

Default == "mylib" \* LUA_FUNC_DEFAULT
\* lua: the file on package.path, lib: the library on package.cpath, syms: the
\* luaopen_ functions it has.
Files == [lua : {"none", "broken", "chunk"}, lib : {"none", "broken", "ok"},
          syms : SUBSET (Names \cup {Default})]

\* luaopen_package
Init ==
  \E f \in Worlds :
    s = [files |-> f, loaded |-> [n \in Names |-> "nil"], preload |-> {},
         handle |-> [n \in Names |-> "none"], udata |-> <<>>, run |-> <<>>, open |-> TRUE]
-----------------------------------------------------------------------------
\* ll_register, ll_load, ll_sym and ll_loadfunc: the state and the status.
LoadFunc(x, p, sym) ==
  LET reg == IF x.handle[p] # "none" THEN x
             ELSE [x EXCEPT !.handle[p] = "null", !.udata = Append(@, <<"lib", p>>)]
      ld == IF reg.handle[p] = "null" /\ x.files[p].lib = "ok"
            THEN [reg EXCEPT !.handle[p] = "open"] ELSE reg
  IN  [x |-> ld, stat |-> IF ld.handle[p] = "null" THEN "errlib"
                          ELSE IF sym \in x.files[p].syms THEN "ok" ELSE "errfunc"]

\* What a loader returns to ll_require: a function, an error, or neither.
Got(x, what, from) == [x |-> x, what |-> what, from |-> from]
LoaderPreload(x, n) == Got(x, IF n \in x.preload THEN "function" ELSE "none", "lua")
LoaderLua(x, n) == Got(x, CASE x.files[n].lua = "none" -> "none"
                            [] x.files[n].lua = "broken" -> "error"
                            [] x.files[n].lua = "chunk" -> "function", "lua")
LoaderC(x, n) ==
  LET own == LoadFunc(x, n, n)
      default == LoadFunc(own.x, n, Default)
  IN  IF x.files[n].lib = "none" THEN Got(x, "none", n)
      ELSE IF own.stat = "ok" THEN Got(own.x, "function", n)
      ELSE Got(default.x, IF default.stat = "ok" THEN "function" ELSE "error", n)
LoaderCroot(x, n) ==
  LET r == LoadFunc(x, Root[n], n)
  IN  IF Root[n] = n \/ x.files[Root[n]].lib = "none" THEN Got(x, "none", n)
      ELSE Got(r.x, CASE r.stat = "ok" -> "function" [] r.stat = "errlib" -> "error"
                      [] r.stat = "errfunc" -> "none", Root[n])
\* The loop of ll_require over package.loaders.
Search(x, n) ==
  LET pre == LoaderPreload(x, n)
      lua == LoaderLua(x, n)
      c == LoaderC(x, n)
      all == LoaderCroot(c.x, n)
  IN  IF pre.what # "none" THEN pre
      ELSE IF lua.what # "none" THEN lua
      ELSE IF c.what # "none" THEN c
      ELSE all

\* An error: some chunk, or the host program, has called with pcall.
Raised(x) == {[x EXCEPT !.run = SubSeq(@, 1, d)] : d \in 0..Len(x.run)}
\* package.loaded[n] = v by the program: the chunks of n know.
Assign(x, n, v) ==
  [x EXCEPT !.loaded[n] = v,
            !.run = [i \in DOMAIN @ |-> IF @[i].name = n THEN [@[i] EXCEPT !.assigned = TRUE]
                                        ELSE @[i]]]

\* Mutant: the chunk is run before the entry is marked.
RequireUnmarked(n) ==
  LET r == Search(s, n)
  IN  /\ s.open
      /\ Len(s.run) < MaxRun
      /\ s.loaded[n] \in {"nil", "false"}
      /\ r.what = "function"
      /\ s' = [r.x EXCEPT !.run = Append(@, [name |-> n, from |-> r.from, assigned |-> FALSE])]
\* ll_require, until the chunk is called.
Require(n) ==
  LET r == Search(s, n)
  IN  /\ s.open
      /\ Len(s.run) < MaxRun
      /\ \/ /\ s.loaded[n] = "sentinel"
            /\ s' \in Raised(s)
         \/ /\ s.loaded[n] \in {"nil", "false"}
            /\ r.what # "function"
            /\ s' \in Raised(r.x)
         \/ /\ s.loaded[n] \in {"nil", "false"}
            /\ r.what = "function"
            /\ s' = [r.x EXCEPT !.loaded[n] = "sentinel",
                                !.run = Append(@, [name |-> n, from |-> r.from,
                                                   assigned |-> FALSE])]
\* ... and after it has returned v.
Finish(v) ==
  LET n == Last(s.run).name
      x == [s EXCEPT !.run = Front(@)]
  IN  /\ s.run # <<>>
      /\ s' = IF v # "nil" THEN Assign(x, n, v)
              ELSE IF s.loaded[n] = "sentinel" THEN Assign(x, n, "true") ELSE x
Error ==
  /\ s.run # <<>>
  /\ s' \in Raised([s EXCEPT !.run = Front(@)])

\* ll_module: called from C it fails, but only after it has made the table.
Module(n) ==
  LET made == IF s.loaded[n] = "table" THEN s ELSE Assign(s, n, "table")
  IN  /\ s.open
      /\ \/ s' \in Raised(s) \* name conflict
         \/ /\ s.run # <<>> => Last(s.run).from = "lua"
            /\ s' = made
         \/ /\ s.run # <<>> => Last(s.run).from # "lua"
            /\ s' \in Raised(made)
\* Assignments of the program to package.loaded and package.preload.
SetLoaded(n, v) ==
  /\ s.open
  /\ s' = Assign(s, n, v)
SetPreload(n) ==
  /\ s.open
  /\ s' = [s EXCEPT !.preload = @ \cup {n}]
\* ll_loadlib
LoadLib(n) ==
  /\ s.open
  /\ s' = LoadFunc(s, n, n).x
\* A function of library p makes a userdata with a finalizer.
NewUdata(p) ==
  /\ s.open
  /\ s.handle[p] = "open"
  /\ Len(s.udata) < MaxUdata
  /\ s' = [s EXCEPT !.udata = Append(@, <<"obj", p>>)]
\* The collector finalizes what is not referenced.
Collect(i) ==
  /\ s.udata[i][1] = "obj"
  /\ s' = [s EXCEPT !.udata = RemoveAt(@, i)]
\* lua_close, luaC_separateudata and luaC_callGCTMudata.
Shutdown ==
  /\ s.run = <<>>
  /\ s.open
  /\ s' = [s EXCEPT !.open = FALSE]
\* Mutant: the finalizers are called in the order of creation.
FinalizeOldest ==
  /\ ~s.open
  /\ s.udata # <<>>
  /\ LET u == Head(s.udata)
         x == [s EXCEPT !.udata = Tail(@)]
     IN  s' = IF u[1] = "lib" THEN [x EXCEPT !.handle[u[2]] = "closed"] ELSE x
\* GCTM, the newest one first; gctm unloads a library.
Finalize ==
  /\ ~s.open
  /\ s.udata # <<>>
  /\ LET u == Last(s.udata)
         x == [s EXCEPT !.udata = Front(@)]
     IN  s' = IF u[1] = "lib" THEN [x EXCEPT !.handle[u[2]] = "closed"] ELSE x

Next ==
  \/ \E n \in Names : \/ Require(n) \/ Module(n) \/ SetPreload(n) \/ LoadLib(n)
                      \/ NewUdata(n) \/ SetLoaded(n, "nil")
  \/ \E v \in {"nil", "false", "table"} : Finish(v)
  \/ \E i \in DOMAIN s.udata : Collect(i)
  \/ Error \/ Shutdown \/ Finalize
Spec == Init /\ [][Next]_s
-----------------------------------------------------------------------------
\* However chunks require one another and wherever their errors are caught, the
\* chunk of a module never starts again while it is running, unless the program
\* itself has written to its entry of package.loaded.
NoReentry ==
  \A i, j \in DOMAIN s.run :
    i < j /\ s.run[i].name = s.run[j].name => s.run[i].assigned

\* The finalizers that lie in a library run before the library is unloaded.
UnloadedLast ==
  \A i \in DOMAIN s.udata : s.udata[i][1] = "obj" => s.handle[s.udata[i][2]] = "open"
=============================================================================

------------------------------ MODULE LuaCall -------------------------------
(***************************************************************************)
(* Calls, errors and coroutines of the embedded Lua (ldo.c, with pcall,    *)
(* xpcall and the coroutine library of lbaselib.c).  A thread keeps its    *)
(* calls in ci; calls from C to Lua nest on the one C stack, across        *)
(* coroutines, and are counted in nCcalls; an error longjmps to the        *)
(* innermost errorJmp of its thread; a coroutine can only be left by a     *)
(* yield if no C function lies between it and its resume.                  *)
(*                                                                         *)
(* Frames: "lua" is a Lua function; "pcall", "xpcall" and "meta" are C     *)
(* functions that call the Lua function on top of them, "meta" (sort,      *)
(* gsub, a metamethod) without catching errors; "raise" is luaG_errormsg,  *)
(* which calls the error function of an xpcall and has no CallInfo;        *)
(* "resume" and "wrap" have resumed the next thread of chain; "yield" is   *)
(* coroutine.yield.  Left out: values, stack and ci sizes, hooks, memory   *)
(* errors.                                                                 *)
(***************************************************************************)
EXTENDS Integers, Sequences, SequencesExt, FiniteSets

CONSTANTS
  Main, Cos,  \* the main thread and slots for coroutines
  MaxC,       \* LUAI_MAXCCALLS, 200
  Extra,      \* LUAI_MAXCCALLS >> 3: room for handling an overflow
  MaxFrames   \* bound: frames of one thread

ASSUME CallConstants ==
  /\ Main \notin Cos
  /\ MaxC \in Nat \ {0}
  /\ Extra \in Nat \ {0}

VARIABLE L \* [th: Threads -> lua_State; chain: the resumed threads, the running
           \*  one last; err: the running thread is in luaG_errormsg]

Threads == {Main} \cup Cos
Run(x) == x.chain[Len(x.chain)]
Cur(x) == x.th[Run(x)]
Protected == {"pcall", "xpcall"}
Callers == Protected \cup {"meta"}

\* preinit_state; what holds of a slot before it is a thread.
NewState == [ci |-> <<>>, nC |-> 0, baseC |-> 0, status |-> "ok",
             func |-> FALSE, jmp |-> <<>>, ef |-> FALSE]
CallInit == L = [th |-> [t \in Threads |-> NewState], chain |-> <<Main>>, err |-> FALSE]

With(x, t) == [x EXCEPT !.th = [@ EXCEPT ![Run(x)] = t]]
Push(t, f) == [t EXCEPT !.ci = Append(@, f)]
Handler(t) == [ci |-> Len(t.ci), nC |-> t.nC, ef |-> t.ef]

\* lua_resume has come back, with the coroutine as t.
Left(x, t) ==
  [With(x, [t EXCEPT !.nC = @ - 1, !.jmp = <<>>]) EXCEPT !.chain = Front(@), !.err = FALSE]
\* The C function that resumed returns.
Back(x) == With(x, [Cur(x) EXCEPT !.ci = Front(@)])

\* luaD_throw: luaD_pcall puts nCcalls, ci and errfunc back; lua_resume leaves
\* the coroutine dead, and luaB_auxwrap raises the error again.
Throw(x) ==
  LET t == Cur(x)
      h == t.jmp[Len(t.jmp)]
      dead == Left(x, [t EXCEPT !.status = "dead"])
      caught == [t EXCEPT !.ci = SubSeq(@, 1, h.ci), !.nC = h.nC, !.ef = h.ef,
                          !.jmp = Front(@)]
  IN  IF Run(x) = Main \/ Len(t.jmp) > 1
      THEN [With(x, caught) EXCEPT !.err = FALSE]
      ELSE IF Last(Cur(dead).ci) = "wrap" THEN [dead EXCEPT !.err = TRUE]
      ELSE Back(dead)

\* luaD_call of a Lua function from C, so that it counts; an overflow is an
\* error, and one in the room for handling it is thrown at once.
Call(x) ==
  LET t == Cur(x)
      called == [t EXCEPT !.nC = @ + 1]
  IN  IF t.nC + 1 >= MaxC + Extra THEN Throw(x)
      ELSE IF t.nC + 1 = MaxC THEN [With(x, called) EXCEPT !.err = TRUE]
      ELSE [With(x, Push(called, "lua")) EXCEPT !.err = FALSE]
-----------------------------------------------------------------------------
InLua == ~L.err /\ Cur(L).ci # <<>> /\ Last(Cur(L).ci) = "lua"
Room == Len(Cur(L).ci) < MaxFrames

\* The host program calls a function: lua_pcall on an empty main thread.
HostCall ==
  /\ L.chain = <<Main>>
  /\ Cur(L).ci = <<>>
  /\ ~L.err
  /\ L' = Call(With(L, [Cur(L) EXCEPT !.jmp = Append(@, Handler(Cur(L)))]))

\* luaD_precall of a Lua function, from a Lua function.
CallLua ==
  /\ InLua
  /\ Room
  /\ L' = With(L, Push(Cur(L), "lua"))

\* luaB_pcall, luaB_xpcall, lua_pcall; a C function that uses lua_call.
CallC(f) ==
  LET t == Cur(L)
      protect == [t EXCEPT !.jmp = Append(@, Handler(t)), !.ef = f = "xpcall"]
  IN  /\ InLua
      /\ Room
      /\ L' = Call(With(L, Push(IF f = "meta" THEN t ELSE protect, f)))

\* error, or an operation of a Lua function that fails.
Fail ==
  /\ InLua
  /\ L' = [L EXCEPT !.err = TRUE]
\* luaG_errormsg: the error function of an xpcall is called first.
Raise ==
  /\ L.err
  /\ L' = IF Cur(L).ef THEN Call(With(L, Push(Cur(L), "raise"))) ELSE Throw(L)

\* OP_RETURN, luaD_poscall; the C function that had called returns as well.
Return ==
  LET t == Cur(L)
      n == Len(t.ci)
      below == IF n = 1 THEN "base" ELSE t.ci[n - 1]
      returned == [t EXCEPT !.nC = @ - 1, !.ci = SubSeq(@, 1, n - 2)]
  IN  /\ InLua
      /\ \/ /\ below = "base"
            /\ L' = IF Run(L) = Main THEN With(L, NewState)
                    ELSE Back(Left(L, [t EXCEPT !.ci = <<>>]))
         \/ /\ below \in Protected
            /\ L' = With(L, [returned EXCEPT !.ef = t.jmp[Len(t.jmp)].ef, !.jmp = Front(@)])
         \/ /\ below = "meta"
            /\ L' = With(L, returned)
         \/ /\ below = "lua"
            /\ L' = With(L, [t EXCEPT !.ci = Front(@)])
         \/ /\ below = "raise"
            /\ L' = Throw(L)

\* luaB_cocreate, lua_newthread
Create(co) ==
  /\ InLua
  /\ L.th[co].ci = <<>> \/ L.th[co].status = "dead"
  /\ L' = [L EXCEPT !.th = [@ EXCEPT ![co] = [NewState EXCEPT !.func = TRUE]]]

\* costatus
CoStatus(co) ==
  LET t == L.th[co]
  IN  IF co = Run(L) THEN "running"
      ELSE IF t.status = "yield" THEN "suspended"
      ELSE IF t.status = "dead" THEN "dead"
      ELSE IF t.ci # <<>> THEN "normal"
      ELSE IF t.func THEN "suspended" ELSE "dead"

\* luaB_coresume and luaB_auxwrap when auxresume has failed.
Fails(x, kind) ==
  IF kind = "resume" THEN x ELSE [With(x, Push(Cur(x), kind)) EXCEPT !.err = TRUE]
\* lua_resume's own checks: not a suspended coroutine, or no room on the C stack.
Refused(c, nC) ==
  \/ c.status # "yield" /\ (c.status # "ok" \/ c.ci # <<>>)
  \/ nC >= MaxC
\* lua_resume, resume: coroutine c on a C stack that is nC deep.
Started(c, nC) ==
  [c EXCEPT !.nC = nC + 1, !.baseC = nC + 1, !.func = FALSE, !.status = "ok",
            !.jmp = <<Handler(NewState)>>,
            !.ci = IF c.status = "yield" THEN Front(@) ELSE <<"lua">>]
Entered(x, co, kind, nC) ==
  [th |-> [With(x, Push(Cur(x), kind)).th EXCEPT ![co] = Started(@, nC)],
   chain |-> Append(x.chain, co), err |-> FALSE]

\* Mutant: nCcalls of the resumer is not passed on (lua_setlevel).
ResumeFromZero(co, kind) ==
  /\ InLua
  /\ Room
  /\ CoStatus(co) = "suspended"
  /\ L' = Entered(L, co, kind, 0)

\* luaB_coresume, luaB_auxwrap: auxresume.  When lua_resume refuses, resume_error
\* has taken the function and the arguments off the coroutine's stack.
Resume(co, kind) ==
  LET nC == Cur(L).nC
      full == [L.th[co] EXCEPT !.func = FALSE, !.nC = nC]
  IN  /\ InLua
      /\ Room
      /\ L' = IF CoStatus(co) # "suspended" THEN Fails(L, kind)
              ELSE IF Refused(L.th[co], nC)
              THEN Fails([L EXCEPT !.th = [@ EXCEPT ![co] = full]], kind)
              ELSE Entered(L, co, kind, nC)

\* Mutant: a coroutine yields whatever lies between it and its resume.
YieldAcross ==
  /\ InLua
  /\ L' = IF Run(L) = Main THEN [With(L, Push(Cur(L), "yield")) EXCEPT !.err = TRUE]
          ELSE Back(Left(L, [Push(Cur(L), "yield") EXCEPT !.status = "yield"]))

\* luaB_yield, lua_yield
Yield ==
  LET t == Push(Cur(L), "yield")
  IN  /\ InLua
      /\ L' = IF t.nC > t.baseC THEN [With(L, t) EXCEPT !.err = TRUE]
              ELSE Back(Left(L, [t EXCEPT !.status = "yield"]))

CallNext ==
  \/ HostCall \/ CallLua \/ Fail \/ Raise \/ Return \/ Yield
  \/ \E f \in Callers : CallC(f)
  \/ \E co \in Cos : Create(co) \/ Resume(co, "resume") \/ Resume(co, "wrap")
CallSpec == CallInit /\ [][CallNext]_L
-----------------------------------------------------------------------------
\* The calls from C on the C stack: of each thread its resume (of the main
\* thread the call from the host program), and those that its frames make.
CFrames == Callers \cup {"raise"}
CCalls(x) ==
  UNION {{<<i, j>> : j \in {0} \cup {k \in DOMAIN x.th[x.chain[i]].ci :
                                       x.th[x.chain[i]].ci[k] \in CFrames}}
           : i \in DOMAIN x.chain}
Depth == Cardinality(CCalls(L))

\* Through errors, error functions, yields and nested resumes nCcalls of the
\* running thread is the depth of the C stack, so that LUAI_MAXCCALLS does bound
\* it; only the handling of an overflow goes beyond, by less than
\* LUAI_MAXCCALLS >> 3.
DepthCounted ==
  InLua => Cur(L).nC = Depth /\ Depth < MaxC + Extra

\* No C function is ever left suspended; a coroutine is in the chain of resumes
\* at most once, under the function that resumed it; what is neither in it nor
\* suspended never runs again; and no coroutine that can be resumed has an error
\* function (an assertion of lua_resume).
CoroutinesSound ==
  /\ IsInjective(L.chain)
  /\ \A i \in 1..(Len(L.chain) - 1) :
       /\ Last(L.th[L.chain[i]].ci) \in {"resume", "wrap"}
       /\ L.th[L.chain[i]].status = "ok"
  /\ \A co \in Cos :
       /\ L.th[co].status = "yield" =>
            /\ Last(L.th[co].ci) = "yield"
            /\ Range(Front(L.th[co].ci)) \subseteq {"lua"}
            /\ \A i \in DOMAIN L.chain : L.chain[i] # co
       /\ CoStatus(co) = "suspended" => ~L.th[co].ef
=============================================================================

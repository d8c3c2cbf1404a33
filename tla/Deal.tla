-------------------------------- MODULE Deal --------------------------------
(***************************************************************************)
(* The life of the main frame (mainframe/test.cpp): main() starts a pool   *)
(* of threads and joins them; each thread runs deal(), which loads the     *)
(* script, calls its main function again and again, and starts over with a *)
(* fresh Lua state when bUpdate is set or the function fails.  SIGUSR1     *)
(* asks for a reload, SIGTERM for the end.                                 *)
(*                                                                         *)
(* bExit and bUpdate are plain globals, written by the signal handler and  *)
(* by deal() and read by deal().  The calls into the Lua library between   *)
(* two reads keep the compiler from caching them, so every access is an    *)
(* access of memory; the handler's two assignments and deal()'s accesses   *)
(* interleave.                                                             *)
(***************************************************************************)
EXTENDS Naturals

CONSTANTS
  Workers,   \* the threads of the pool; main() starts k = 1 of them
  MaxEdits   \* bound: how often the script on disk is changed

ASSUME DealAssumption == Workers # {} /\ MaxEdits \in Nat

VARIABLES
  bExit, bUpdate, \* the two flags
  main,    \* the main thread: "create", "join", "done"; "aborted" when Lua
           \* panicked and the process is gone
  term,    \* the SIGTERM handler: "none", or "half" between its assignments
  pc,      \* pc[w]: where thread w is in deal()
  disk,    \* the version of the script on disk
  loaded,  \* loaded[w]: the version in w's latest Lua state, 0 for none
  states,  \* states[w]: the Lua states w has made and not closed
  at       \* history: at[w] is where w was when a SIGTERM handler last
           \* returned, "never" before that

vars == <<bExit, bUpdate, main, term, pc, disk, loaded, states, at>>

\* From the test of bExit to the reset of bUpdate: a script is being started.
Window == {"load", "chunk", "init", "reset"}

\* Where a thread is in deal(), in the order of its lines.
Places ==
  {"unborn", "check"} \cup Window \cup {"loop", "main", "sleep", "clear", "exited"}

Init ==
  /\ bExit = FALSE
  /\ bUpdate = FALSE
  /\ main = "create"
  /\ term = "none"
  /\ pc = [w \in Workers |-> "unborn"]
  /\ disk = 1
  /\ loaded = [w \in Workers |-> 0]
  /\ states = [w \in Workers |-> 0]
  /\ at = [w \in Workers |-> "never"]

Alive == main \in {"create", "join"}

\* w goes from place a to place b; a dead process moves nowhere.
Go(w, a, b) ==
  /\ Alive
  /\ pc[w] = a
  /\ pc' = [pc EXCEPT ![w] = b]

Flags == <<bExit, bUpdate, term, at>>
Script == <<disk, loaded, states>>
-----------------------------------------------------------------------------
\* main(): pthread_create, one thread after the other.
Create(w) ==
  /\ main = "create"
  /\ Go(w, "unborn", "check")
  /\ main' = IF \A u \in Workers \ {w} : pc[u] # "unborn" THEN "join" ELSE main
  /\ UNCHANGED <<Flags, Script>>

\* main(): every pthread_join has returned, and so does main.
Joined ==
  /\ main = "join"
  /\ \A w \in Workers : pc[w] = "exited"
  /\ main' = "done"
  /\ UNCHANGED <<Flags, Script, pc>>

\* Somebody changes the script on disk.
Edit ==
  /\ Alive
  /\ disk < MaxEdits
  /\ disk' = disk + 1
  /\ UNCHANGED <<Flags, main, pc, loaded, states>>

\* signal_handle(SIGUSR1).
Usr1 ==
  /\ Alive
  /\ bUpdate' = TRUE
  /\ UNCHANGED <<bExit, term, at, main, pc, Script>>

\* signal_handle(SIGTERM): the first assignment, then the fall through.
TermExit ==
  /\ Alive
  /\ term = "none"
  /\ bExit' = TRUE
  /\ term' = "half"
  /\ UNCHANGED <<bUpdate, at, main, pc, Script>>

\* MUTANT: SIGTERM does not fall through to the assignment of bUpdate.
TermUpdateBreaks ==
  /\ Alive
  /\ term = "half"
  /\ term' = "none"
  /\ at' = pc
  /\ UNCHANGED <<bExit, bUpdate, main, pc, Script>>

TermUpdate ==
  /\ Alive
  /\ term = "half"
  /\ bUpdate' = TRUE
  /\ term' = "none"
  /\ at' = pc
  /\ UNCHANGED <<bExit, main, pc, Script>>
-----------------------------------------------------------------------------
\* MUTANT: the thread only ends when a script does not load.
CheckExitNever(w) ==
  /\ Go(w, "check", "load")
  /\ UNCHANGED <<Flags, Script, main>>

\* while(!bExit) of deal().
CheckExit(w) ==
  /\ Go(w, "check", IF bExit THEN "exited" ELSE "load")
  /\ UNCHANGED <<Flags, Script, main>>

\* luaL_newstate, and luaL_loadfile reads the script.
Load(w) ==
  /\ Go(w, "load", "chunk")
  /\ states' = [states EXCEPT ![w] = @ + 1]
  /\ loaded' = [loaded EXCEPT ![w] = disk]
  /\ UNCHANGED <<Flags, main, disk>>

\* MUTANT: a script that does not load is tried again, in a new Lua state.
LoadRetries(w) ==
  /\ Go(w, "load", "check")
  /\ states' = [states EXCEPT ![w] = @ + 1]
  /\ UNCHANGED <<Flags, main, disk, loaded>>

\* luaL_loadfile fails: the thread ends, its Lua state stays open.
LoadFails(w) ==
  /\ Go(w, "load", "exited")
  /\ states' = [states EXCEPT ![w] = @ + 1]
  /\ UNCHANGED <<Flags, main, disk, loaded>>

\* The script's top level runs (lua_pcall), with what it requires.
RunChunk(w) ==
  /\ Go(w, "chunk", "init")
  /\ UNCHANGED <<Flags, Script, main>>

\* It fails: the thread ends as for a script that does not load.
ChunkFails(w) ==
  /\ Go(w, "chunk", "exited")
  /\ UNCHANGED <<Flags, Script, main>>

\* The error object is no string: luaL_checkstring raises an error that no
\* lua_pcall catches, the panic function returns and Lua exits the process.
Panics(w) ==
  /\ Alive
  /\ pc[w] \in {"chunk", "main"}
  /\ main' = "aborted"
  /\ UNCHANGED <<Flags, Script, pc>>

\* The script's init, if it has one; what it returns is not looked at.
RunInit(w) ==
  /\ Go(w, "init", "reset")
  /\ UNCHANGED <<Flags, Script, main>>

\* bUpdate = false: a signal handled since the load began leaves no trace in it.
ResetUpdate(w) ==
  /\ Go(w, "reset", "loop")
  /\ bUpdate' = FALSE
  /\ UNCHANGED <<bExit, term, at, main, Script>>

\* while(!bUpdate && get_message()); get_message always has one.
Poll(w) ==
  /\ Go(w, "loop", IF bUpdate THEN "clear" ELSE "main")
  /\ UNCHANGED <<Flags, Script, main>>

\* The script's main function returns ...
MainReturns(w) ==
  /\ Go(w, "main", "loop")
  /\ UNCHANGED <<Flags, Script, main>>

\* MUTANT: the error path closes the Lua state, and so does the common path.
MainFailsCloses(w) ==
  /\ Go(w, "main", "sleep")
  /\ states' = [states EXCEPT ![w] = @ - 1]
  /\ UNCHANGED <<Flags, main, disk, loaded>>

\* ... or raises an error, which is printed.
MainFails(w) ==
  /\ Go(w, "main", "sleep")
  /\ UNCHANGED <<Flags, Script, main>>

\* sleep(3), and out of the loop.
Sleep(w) ==
  /\ Go(w, "sleep", "clear")
  /\ UNCHANGED <<Flags, Script, main>>

\* MUTANT: after an update the same Lua state goes on.
ClearKeepsState(w) ==
  /\ Go(w, "clear", "loop")
  /\ UNCHANGED <<Flags, Script, main>>

\* The script's clear, if it has one, and lua_close.
Clear(w) ==
  /\ Go(w, "clear", "check")
  /\ states' = [states EXCEPT ![w] = @ - 1]
  /\ UNCHANGED <<Flags, main, disk, loaded>>

\* One step of deal() in thread w.
Deal(w) ==
  \/ CheckExit(w) \/ Load(w) \/ LoadFails(w) \/ RunChunk(w) \/ ChunkFails(w)
  \/ Panics(w) \/ RunInit(w) \/ ResetUpdate(w) \/ Poll(w) \/ MainReturns(w)
  \/ MainFails(w) \/ Sleep(w) \/ Clear(w)

Next ==
  \/ Joined \/ Edit \/ Usr1 \/ TermExit \/ TermUpdate
  \/ \E w \in Workers : Create(w) \/ Deal(w)

Spec == Init /\ [][Next]_vars

(***************************************************************************)
(* The threads run, scripts come back from every call, and a signal        *)
(* handler that has begun returns.  Nothing is assumed about signals or    *)
(* edits ever happening, nor about which way a script's call ends.         *)
(***************************************************************************)
FairSpec ==
  /\ Spec
  /\ WF_vars(Joined)
  /\ WF_vars(TermUpdate)
  /\ \A w \in Workers : WF_vars(Create(w)) /\ WF_vars(Deal(w))
-----------------------------------------------------------------------------
TypeOK ==
  /\ bExit \in BOOLEAN
  /\ bUpdate \in BOOLEAN
  /\ main \in {"create", "join", "done", "aborted"}
  /\ term \in {"none", "half"}
  /\ pc \in [Workers -> Places]
  /\ disk \in Nat
  /\ loaded \in [Workers -> Nat]
  /\ states \in [Workers -> Nat]
  /\ at \in [Workers -> Places \cup {"never"}]

\* The places at which a thread's current Lua state is open.
HasState == {"chunk", "init", "reset", "loop", "main", "sleep", "clear"}

(***************************************************************************)
(* However often scripts fail and are reloaded, a thread has one Lua state *)
(* while it runs a script and none while it has none; the only state that  *)
(* is never closed is that of a script which did not load, and that thread *)
(* makes no other: deal() leaves the loop by break, without lua_close.     *)
(***************************************************************************)
OneStatePerWorker ==
  \A w \in Workers :
    /\ states[w] <= 1
    /\ pc[w] \in HasState => states[w] = 1
    /\ pc[w] \in {"unborn", "check", "load"} => states[w] = 0

\* The last SIGTERM was handled while no thread was starting a script.
TermSeen == \A u \in Workers : at[u] \notin Window \cup {"never"}

(***************************************************************************)
(* bUpdate is how SIGTERM gets a thread out of its message loop, and every *)
(* thread that starts a script resets it.  A SIGTERM handled while no      *)
(* thread was between the test of bExit and the reset is not lost for any  *)
(* of them: nobody starts a script after it, and the threads still in the  *)
(* message loop find bUpdate set.                                          *)
(***************************************************************************)
TermHonoured ==
  TermSeen => \A w \in Workers :
                /\ pc[w] \notin Window
                /\ pc[w] \in {"loop", "main"} => bUpdate

\* And then the program ends, by itself or because a script's error ends it.
TermStops == TermSeen ~> main \in {"done", "aborted"}

(***************************************************************************)
(* A SIGUSR1 that finds the only thread in its message loop, or sleeping   *)
(* after an error, gets the script that is then on disk loaded, unless the *)
(* thread ends first.                                                      *)
(***************************************************************************)
UpdateLoads ==
  \A w \in Workers, v \in 1..MaxEdits :
    bUpdate /\ pc[w] \in {"loop", "main", "sleep"} /\ disk = v
      ~> loaded[w] >= v \/ pc[w] = "exited" \/ main = "aborted"

=============================================================================

----------------------------- MODULE Mainframe ------------------------------
(***************************************************************************)
(* The main frame as a whole: threads in deal() (module Deal) that run the *)
(* script bin/scripts/main.lua, whose native calls work on the session     *)
(* store (module SessionStore).  A thread in the script's main function is *)
(* at one of its native calls; the function ends by returning or by an     *)
(* error, between two calls or, when Lua has no memory, inside get_value.  *)
(***************************************************************************)
EXTENDS Integers, Sequences, FiniteSets

CONSTANTS
  Workers,     \* the threads of the pool
  ScriptFields,\* the (section, name) pairs of main.lua, a sequence
  Text,        \* what main.lua stores under each of them
  Empty, NoWorker,
  MayRaise,    \* lua_pushstring may raise an error inside get_value
  MaxEdits,    \* bound: versions of the script on disk
  MaxFailures, \* bound: how many calls of the script's main function fail
  MaxSeq       \* larger than any number these bounds let the store reach

ASSUME FrameAssumption ==
  /\ IsFiniteSet(Workers) /\ Workers # {}
  /\ NoWorker \notin Workers
  /\ ScriptFields \in Seq({ScriptFields[i] : i \in DOMAIN ScriptFields})
  /\ ScriptFields # <<>>
  /\ Text # Empty
  /\ MayRaise \in BOOLEAN
  /\ {MaxEdits, MaxFailures, MaxSeq} \subseteq Nat
  /\ MaxSeq > Cardinality(Workers) + MaxFailures + 1

VARIABLES
  bExit, bUpdate, main, term, place, disk, loaded, states, at, \* Deal
  stseq, mapVal, seqno, lock, pc, call, held,                  \* SessionStore
  line,     \* line[w]: the native call main.lua makes next
  num,      \* num[w]: its local variable seqno
  failures  \* history: how many calls of main() have failed

dealVars == <<bExit, bUpdate, main, term, place, disk, loaded, states, at>>
storeVars == <<stseq, mapVal, seqno, lock, pc, call, held>>
scriptVars == <<line, num, failures>>
vars == <<dealVars, storeVars, scriptVars>>

Fields == {ScriptFields[i] : i \in DOMAIN ScriptFields}

D == INSTANCE Deal WITH pc <- place
S == INSTANCE SessionStore WITH Values <- {Text}, Modes <- {"stack"},
                                Disciplined <- TRUE

\* MUTANT: the script does not give its number back.
MainLuaKeeps ==
  <<[fn |-> "get_seqno", mode |-> "stack"]>>
  \o [i \in DOMAIN ScriptFields |->
       [fn |-> "set_value", field |-> ScriptFields[i], value |-> Text]]
  \o [i \in DOMAIN ScriptFields |->
       [fn |-> "get_value", field |-> ScriptFields[i]]]

\* MUTANT: the script gives its number back before it stores under it.
MainLuaClosesFirst ==
  <<[fn |-> "get_seqno", mode |-> "stack"], [fn |-> "cls_seqno"]>>
  \o [i \in DOMAIN ScriptFields |->
       [fn |-> "set_value", field |-> ScriptFields[i], value |-> Text]]

\* The native calls of main.lua's main function, in their order.  What it
\* does in between (the codecs, the message queue) does not touch the store.
MainLua ==
  <<[fn |-> "get_seqno", mode |-> "stack"]>>
  \o [i \in DOMAIN ScriptFields |->
       [fn |-> "set_value", field |-> ScriptFields[i], value |-> Text]]
  \o [i \in DOMAIN ScriptFields |->
       [fn |-> "get_value", field |-> ScriptFields[i]]]
  \o <<[fn |-> "cls_seqno"]>>

Init ==
  /\ D!Init
  /\ S!Init
  /\ line = [w \in Workers |-> 1]
  /\ num = [w \in Workers |-> 0]
  /\ failures = 0

\* w runs Lua code of the script's main function, outside native calls.
InScript(w) == place[w] = "main" /\ D!Alive /\ pc[w] = "script"

\* A call record with the number it is about, for the calls that take one.
WithIndex(c, n) ==
  [a \in DOMAIN c \cup {"index"} |-> IF a = "index" THEN n ELSE c[a]]

\* MUTANT: every thread works under number 1.
CallSharing(w) ==
  /\ InScript(w)
  /\ line[w] <= Len(MainLua)
  /\ LET c == MainLua[line[w]] IN
       S!Enter(w, IF c.fn = "get_seqno" THEN c ELSE WithIndex(c, 1))
  /\ UNCHANGED <<dealVars, scriptVars>>

\* The script makes its next native call, with the number it was given.
Call(w) ==
  /\ InScript(w)
  /\ line[w] <= Len(MainLua)
  /\ LET c == MainLua[line[w]] IN
       S!Enter(w, IF c.fn = "get_seqno" THEN c ELSE WithIndex(c, num[w]))
  /\ UNCHANGED <<dealVars, scriptVars>>

Lock(w) ==
  /\ D!Alive
  /\ S!Acquire(w)
  /\ UNCHANGED <<dealVars, scriptVars>>

\* get_seqno returns the number that becomes the script's local seqno.
CallReturns(w) ==
  /\ D!Alive
  /\ \/ S!PopSeqno(w) /\ num' = [num EXCEPT ![w] = stseq[Len(stseq)]]
     \/ (S!SetValue(w) \/ S!GetValue(w) \/ S!ClsSeqno(w)) /\ num' = num
  /\ line' = [line EXCEPT ![w] = @ + 1]
  /\ UNCHANGED <<dealVars, failures>>

\* main() has made its last call and returns to deal().
ScriptReturns(w) ==
  /\ InScript(w)
  /\ line[w] > Len(MainLua)
  /\ D!MainReturns(w)
  /\ S!Abandon(w)
  /\ line' = [line EXCEPT ![w] = 1]
  /\ UNCHANGED <<num, failures>>

\* main() raises an error between two native calls.
ScriptFails(w) ==
  /\ InScript(w)
  /\ failures < MaxFailures
  /\ D!MainFails(w)
  /\ S!Abandon(w)
  /\ line' = [line EXCEPT ![w] = 1]
  /\ failures' = failures + 1
  /\ UNCHANGED num

\* get_value raises with the mutex locked.
CallRaises(w) ==
  /\ failures < MaxFailures
  /\ D!MainFails(w)
  /\ S!GetValueRaises(w)
  /\ line' = [line EXCEPT ![w] = 1]
  /\ failures' = failures + 1
  /\ UNCHANGED num

\* An error that is no string takes the whole process with it.
ScriptPanics(w) ==
  /\ place[w] = "main" => pc[w] = "script"
  /\ D!Panics(w)
  /\ UNCHANGED <<storeVars, scriptVars>>

\* The steps of deal() outside the script's main function.
DealStep(w) ==
  /\ \/ D!CheckExit(w) \/ D!Load(w) \/ D!LoadFails(w) \/ D!RunChunk(w)
     \/ D!ChunkFails(w) \/ D!RunInit(w) \/ D!ResetUpdate(w) \/ D!Poll(w)
     \/ D!Sleep(w) \/ D!Clear(w)
  /\ UNCHANGED <<storeVars, scriptVars>>

\* The main thread, the signals and whoever edits the script.
Outside ==
  /\ \/ D!Joined \/ D!Edit \/ D!Usr1 \/ D!TermExit \/ D!TermUpdate
     \/ \E w \in Workers : D!Create(w)
  /\ UNCHANGED <<storeVars, scriptVars>>

Thread(w) ==
  \/ Call(w) \/ Lock(w) \/ CallReturns(w) \/ ScriptReturns(w)
  \/ ScriptFails(w) \/ CallRaises(w) \/ ScriptPanics(w) \/ DealStep(w)

Next == Outside \/ \E w \in Workers : Thread(w)

Spec == Init /\ [][Next]_vars

\* As in Deal: threads run, and a signal handler that has begun returns.
FairSpec ==
  /\ Spec
  /\ WF_vars(Outside /\ D!Joined)
  /\ WF_vars(Outside /\ D!TermUpdate)
  /\ \A w \in Workers :
       WF_vars(Outside /\ D!Create(w)) /\ WF_vars(Thread(w))
-----------------------------------------------------------------------------
\* The threads that are in the script's main function.
InSession == {w \in Workers : place[w] = "main"}

(***************************************************************************)
(* Numbers are recycled: over any number of messages and reloads the store *)
(* hands out no number beyond one per thread and one per failed main(),    *)
(* because main.lua stores under its number before it gives it back        *)
(* (cls_seqno drops a number without a node).                              *)
(***************************************************************************)
NumbersBounded == stseq[1] <= 1 + Cardinality(Workers) + failures

(***************************************************************************)
(* The map does not grow with the messages handled: apart from the threads *)
(* in a session, only failed calls of main() have left nodes behind, which *)
(* nothing ever removes (check_timeout, written for it, is never started). *)
(***************************************************************************)
NodesBounded ==
  Cardinality(DOMAIN mapVal) <= Cardinality(InSession) + failures

\* main.lua keeps to its own numbers: its calls, which are made here without
\* that guard, are those of the disciplined scripts of module SessionStore.
ImplementsStore == S!Spec

(***************************************************************************)
(* With the script and the mutex in the picture SIGTERM still ends the     *)
(* program when it is handled while no script is being started.            *)
(***************************************************************************)
TermStops == D!TermStops

(***************************************************************************)
(* And an update of the script gets loaded, however the script's sessions  *)
(* and the waits for the mutex fall around the signal.                     *)
(***************************************************************************)
UpdateLoads == D!UpdateLoads

=============================================================================

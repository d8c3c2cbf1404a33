---------------------------- MODULE SessionStore ----------------------------
(***************************************************************************)
(* The session store of the main frame: the sequence-number allocators and *)
(* the per-number value map that native functions offer to the Lua scripts *)
(* (get_seqno, cls_seqno, get_value, set_value in mainframe/test.cpp).     *)
(*                                                                         *)
(* A worker thread runs a script; the script makes one native call at a    *)
(* time.  Every call fetches its arguments from the Lua stack, takes the   *)
(* one mutex seqno_lock, works on the shared state and releases the mutex. *)
(* The steps another thread can tell apart are: the call arrives at the    *)
(* mutex (Enter), it gets the mutex (Acquire), it does its work and        *)
(* unlocks (one action per native function).                               *)
(***************************************************************************)
EXTENDS Integers, Sequences

CONSTANTS
  Workers,     \* the threads of main()'s pool (main starts k of them)
  Fields,      \* the (section, name) pairs a script stores under a number
  Values,      \* the strings a script stores
  Empty,       \* the empty std::string, which operator[] default-constructs
  NoWorker,    \* the state of seqno_lock when nobody holds it
  Modes,       \* what get_seqno is called with: "stack", or anything else
  Disciplined, \* scripts only use the numbers they were given
  MayRaise,    \* lua_pushstring may raise a Lua error (no memory)
  MaxSeq       \* bound: the stack and the counter grow no further than this

ASSUME StoreAssumption ==
  /\ NoWorker \notin Workers
  /\ Empty \notin Values
  /\ Modes \subseteq {"stack", "counter"}
  /\ Disciplined \in BOOLEAN
  /\ MayRaise \in BOOLEAN
  /\ MaxSeq \in Nat \ {0}

VARIABLES
  stseq,   \* g_stseq, the stack of numbers to hand out; its top is the last
  mapVal,  \* g_mapVal, from the open numbers to their nodes
  seqno,   \* the static counter of get_seqno
  lock,    \* seqno_lock: its holder, or NoWorker
  pc,      \* pc[w]: "script" (Lua code), "wait" (at the mutex), "crit"
  call,    \* call[w]: the native call w is in, with its arguments
  held     \* held[w]: the numbers w's script holds, each with what the
           \* script has stored under it (what it may expect to read back)

vars == <<stseq, mapVal, seqno, lock, pc, call, held>>

Texts == Values \cup {Empty}
Content == [Fields -> Texts]
Blank == [f \in Fields |-> Empty]

\* A node: its content, and whether its time stamp was ever written.
Node == [content : Content, tm : BOOLEAN]
NewNode == [content |-> Blank, tm |-> FALSE]

NoNumbers == [n \in {} |-> Blank]

\* The native calls of the scripts, with the arguments they fetch.
NoCall == [fn |-> "none"]
Calls ==
       [fn : {"get_seqno"}, mode : Modes]
  \cup [fn : {"cls_seqno"}, index : Int]
  \cup [fn : {"get_value"}, index : Nat \ {0}, field : Fields]
  \cup [fn : {"set_value"}, index : Nat \ {0}, field : Fields, value : Texts]

\* A function extended with, or changed at, one argument.
Put(f, x, v) == [y \in DOMAIN f \cup {x} |-> IF y = x THEN v ELSE f[y]]

\* A function without one argument.
Drop(f, x) == [y \in DOMAIN f \ {x} |-> f[y]]

-----------------------------------------------------------------------------
Init ==
  /\ stseq = <<1>>
  /\ mapVal = [n \in {} |-> NewNode]
  /\ seqno = 1
  /\ lock = NoWorker
  /\ pc = [w \in Workers |-> "script"]
  /\ call = [w \in Workers |-> NoCall]
  /\ held = [w \in Workers |-> NoNumbers]

(***************************************************************************)
(* A call arrives at pthread_mutex_lock.  get_value and set_value return   *)
(* before that, with no effect, when an argument is missing or the index   *)
(* is not positive; cls_seqno without a number goes on with -1.            *)
(***************************************************************************)
Enter(w, c) ==
  /\ pc[w] = "script"
  /\ pc' = [pc EXCEPT ![w] = "wait"]
  /\ call' = [call EXCEPT ![w] = c]
  /\ UNCHANGED <<stseq, mapVal, seqno, lock, held>>

\* The numbers a script passes: its own, or, undisciplined, any number.
Args(w) == IF Disciplined THEN DOMAIN held[w] ELSE 1..MaxSeq

EnterGetSeqno(w) ==
  /\ \A i \in DOMAIN stseq : stseq[i] <= MaxSeq
  /\ seqno <= MaxSeq
  /\ \E m \in Modes : Enter(w, [fn |-> "get_seqno", mode |-> m])

EnterClsSeqno(w) ==
  /\ Disciplined \/ Len(stseq) <= MaxSeq
  /\ \E n \in Args(w) \cup (IF Disciplined THEN {} ELSE {-1}) :
       Enter(w, [fn |-> "cls_seqno", index |-> n])

\* MUTANT: the node is looked up, and made, before the mutex is taken.
EnterGetValueUnlocked(w) ==
  /\ pc[w] = "script"
  /\ \E n \in Args(w), f \in Fields :
       /\ call' = [call EXCEPT ![w] = [fn |-> "get_value", index |-> n, field |-> f]]
       /\ mapVal' = Put(mapVal, n, IF n \in DOMAIN mapVal THEN mapVal[n] ELSE NewNode)
  /\ pc' = [pc EXCEPT ![w] = "wait"]
  /\ UNCHANGED <<stseq, seqno, lock, held>>

EnterGetValue(w) ==
  \E n \in Args(w), f \in Fields :
    Enter(w, [fn |-> "get_value", index |-> n, field |-> f])

EnterSetValue(w) ==
  \E n \in Args(w), f \in Fields, v \in Texts :
    Enter(w, [fn |-> "set_value", index |-> n, field |-> f, value |-> v])

\* MUTANT: the mutex is not waited for.
AcquireBusy(w) ==
  /\ pc[w] = "wait"
  /\ lock' = w
  /\ pc' = [pc EXCEPT ![w] = "crit"]
  /\ UNCHANGED <<stseq, mapVal, seqno, call, held>>

\* pthread_mutex_lock returns.
Acquire(w) ==
  /\ pc[w] = "wait"
  /\ lock = NoWorker
  /\ lock' = w
  /\ pc' = [pc EXCEPT ![w] = "crit"]
  /\ UNCHANGED <<stseq, mapVal, seqno, call, held>>

\* w is in native function fn and has passed its pthread_mutex_lock.
Inside(w, fn) == pc[w] = "crit" /\ call[w].fn = fn

Return(w) ==
  /\ pc' = [pc EXCEPT ![w] = "script"]
  /\ call' = [call EXCEPT ![w] = NoCall]

\* pthread_mutex_unlock, and the return to the script.
Leave(w) == lock' = NoWorker /\ Return(w)

\* MUTANTS of get_seqno("stack"): stack is what it leaves of g_stseq.
PopSeqnoLeaving(w, stack) ==
  /\ Inside(w, "get_seqno")
  /\ call[w].mode = "stack"
  /\ stseq' = stack
  /\ held' = [held EXCEPT ![w] = Put(@, stseq[Len(stseq)], Blank)]
  /\ Leave(w)
  /\ UNCHANGED <<mapVal, seqno>>

\* The predecessor is left behind on the emptied stack.
PopSeqnoDown(w) ==
  PopSeqnoLeaving(w, IF Len(stseq) = 1
                     THEN <<stseq[1] - 1>>
                     ELSE SubSeq(stseq, 1, Len(stseq) - 1))

\* The emptied stack is not refilled.
PopSeqnoNoRefill(w) == PopSeqnoLeaving(w, SubSeq(stseq, 1, Len(stseq) - 1))

\* The top is read and not popped.
PopSeqnoPeek(w) ==
  PopSeqnoLeaving(w, IF Len(stseq) = 1 THEN <<stseq[1] + 1>> ELSE stseq)

(***************************************************************************)
(* get_seqno("stack"): take the top; when that empties the stack, leave    *)
(* its successor behind.                                                   *)
(***************************************************************************)
PopSeqno(w) ==
  LET top == stseq[Len(stseq)] IN
  /\ Inside(w, "get_seqno")
  /\ call[w].mode = "stack"
  /\ stseq' = IF Len(stseq) = 1
              THEN <<top + 1>>
              ELSE SubSeq(stseq, 1, Len(stseq) - 1)
  /\ held' = [held EXCEPT ![w] = Put(@, top, Blank)]
  /\ Leave(w)
  /\ UNCHANGED <<mapVal, seqno>>

\* get_seqno with any other argument: the static counter.
NextSeqno(w) ==
  /\ Inside(w, "get_seqno")
  /\ call[w].mode # "stack"
  /\ seqno' = seqno + 1
  /\ held' = [held EXCEPT ![w] = Put(@, seqno, Blank)]
  /\ Leave(w)
  /\ UNCHANGED <<stseq, mapVal>>

\* MUTANT: the number goes back on the stack and its node stays in the map.
ClsSeqnoKeepsNode(w) ==
  LET n == call[w].index IN
  /\ Inside(w, "cls_seqno")
  /\ stseq' = IF n \in DOMAIN mapVal THEN Append(stseq, n) ELSE stseq
  /\ held' = [held EXCEPT ![w] = Drop(@, n)]
  /\ Leave(w)
  /\ UNCHANGED <<mapVal, seqno>>

\* MUTANT: reporting an unknown number returns without the unlock.
ClsSeqnoNoUnlock(w) ==
  LET n == call[w].index IN
  /\ Inside(w, "cls_seqno")
  /\ held' = [held EXCEPT ![w] = Drop(@, n)]
  /\ IF n \in DOMAIN mapVal
     THEN /\ mapVal' = Drop(mapVal, n)
          /\ stseq' = Append(stseq, n)
          /\ Leave(w)
     ELSE UNCHANGED <<mapVal, stseq, lock>> /\ Return(w)
  /\ UNCHANGED seqno

\* cls_seqno: a number with a node loses it and goes back on the stack; any
\* other number is only reported.  The script forgets the number.
ClsSeqno(w) ==
  LET n == call[w].index IN
  /\ Inside(w, "cls_seqno")
  /\ IF n \in DOMAIN mapVal
     THEN /\ mapVal' = Drop(mapVal, n)
          /\ stseq' = Append(stseq, n)
     ELSE UNCHANGED <<mapVal, stseq>>
  /\ held' = [held EXCEPT ![w] = Drop(@, n)]
  /\ Leave(w)
  /\ UNCHANGED seqno

\* g_mapVal[n]: operator[] makes the node it does not find.
NodeAt(n) == IF n \in DOMAIN mapVal THEN mapVal[n] ELSE NewNode

\* MUTANT: get_value returns without the unlock.
GetValueNoUnlock(w) ==
  /\ Inside(w, "get_value")
  /\ mapVal' = Put(mapVal, call[w].index, NodeAt(call[w].index))
  /\ Return(w)
  /\ UNCHANGED <<stseq, seqno, lock, held>>

\* get_value: even a read makes the node when there is none.
GetValue(w) ==
  LET n == call[w].index IN
  /\ Inside(w, "get_value")
  /\ mapVal' = Put(mapVal, n, NodeAt(n))
  /\ Leave(w)
  /\ UNCHANGED <<stseq, seqno, held>>

(***************************************************************************)
(* put_data in get_value runs lua_pushstring between lock and unlock.  An  *)
(* error raised there longjmps to the lua_pcall in deal: the unlock is     *)
(* skipped, and the script that held the numbers is gone.                  *)
(***************************************************************************)
GetValueRaises(w) ==
  LET n == call[w].index IN
  /\ MayRaise
  /\ Inside(w, "get_value")
  /\ mapVal' = Put(mapVal, n, NodeAt(n))
  /\ held' = [held EXCEPT ![w] = NoNumbers]
  /\ Return(w)
  /\ UNCHANGED <<stseq, seqno, lock>>

\* set_value: only a node that set_value itself makes gets a time stamp.
SetValue(w) ==
  LET n == call[w].index
      f == call[w].field
      v == call[w].value IN
  /\ Inside(w, "set_value")
  /\ mapVal' = Put(mapVal, n,
                   [content |-> [NodeAt(n).content EXCEPT ![f] = v],
                    tm |-> n \in DOMAIN mapVal => mapVal[n].tm])
  /\ held' = IF n \in DOMAIN held[w]
             THEN [held EXCEPT ![w] = Put(@, n, [held[w][n] EXCEPT ![f] = v])]
             ELSE held
  /\ Leave(w)
  /\ UNCHANGED <<stseq, seqno>>

\* The script's run ends between two native calls, by returning, by failing
\* or because its Lua state is closed: the numbers it still held are
\* forgotten, not given back.
Abandon(w) ==
  /\ pc[w] = "script"
  /\ held' = [held EXCEPT ![w] = NoNumbers]
  /\ UNCHANGED <<stseq, mapVal, seqno, lock, pc, call>>

Next ==
  \E w \in Workers :
    \/ EnterGetSeqno(w) \/ EnterClsSeqno(w) \/ EnterGetValue(w)
    \/ EnterSetValue(w)
    \/ Acquire(w)
    \/ PopSeqno(w) \/ NextSeqno(w) \/ ClsSeqno(w)
    \/ GetValue(w) \/ GetValueRaises(w) \/ SetValue(w)
    \/ Abandon(w)

Spec == Init /\ [][Next]_vars
-----------------------------------------------------------------------------
TypeOK ==
  /\ stseq \in Seq(Nat \ {0})
  /\ DOMAIN mapVal \subseteq Nat \ {0}
  /\ \A n \in DOMAIN mapVal : mapVal[n] \in Node
  /\ seqno \in Nat \ {0}
  /\ lock \in Workers \cup {NoWorker}
  /\ pc \in [Workers -> {"script", "wait", "crit"}]
  /\ call \in [Workers -> Calls \cup {NoCall}]
  /\ DOMAIN held = Workers
  /\ \A w \in Workers :
       /\ DOMAIN held[w] \subseteq Nat \ {0}
       /\ \A n \in DOMAIN held[w] : held[w][n] \in Content

(***************************************************************************)
(* "must have one element": get_seqno takes g_stseq.top() without looking, *)
(* which is undefined on an empty std::stack.  Whatever the scripts call,  *)
(* and in whatever order, the stack is never empty.                        *)
(***************************************************************************)
StackNeverEmpty == Len(stseq) > 0

(***************************************************************************)
(* Every thread that has passed pthread_mutex_lock in a native function is *)
(* the mutex's one holder: no two of them touch g_stseq and g_mapVal at    *)
(* the same time.                                                          *)
(***************************************************************************)
LockHeldInside == \A w \in Workers : pc[w] = "crit" => lock = w

(***************************************************************************)
(* Scripts that keep to the stack and to their own numbers never share a   *)
(* number: what one script holds, no other script holds and get_seqno will *)
(* not hand out, and the stack offers no number twice.                     *)
(***************************************************************************)
NumbersDistinct ==
  /\ \A w \in Workers : \A n \in DOMAIN held[w] :
       /\ \A u \in Workers \ {w} : n \notin DOMAIN held[u]
       /\ \A i \in DOMAIN stseq : stseq[i] # n
  /\ \A i, j \in DOMAIN stseq : stseq[i] = stseq[j] => i = j

(***************************************************************************)
(* A script reads back from its number exactly what it stored under it,    *)
(* nothing of another script and nothing of an earlier session that had    *)
(* the same number.                                                        *)
(***************************************************************************)
SessionIsolation ==
  \A w \in Workers : \A n \in DOMAIN held[w] : held[w][n] = NodeAt(n).content

(***************************************************************************)
(* A raise inside get_value leaves seqno_lock locked by a thread that has  *)
(* left the critical section.                                              *)
(***************************************************************************)
LockLeaked == lock # NoWorker /\ pc[lock] # "crit"

\* Without memory errors no thread leaves a native function with the mutex.
NoLockLeak == ~LockLeaked

(***************************************************************************)
(* Once the mutex is leaked the whole store is dead: no call of any worker *)
(* changes the stack, the map or the counter again, or frees the mutex.    *)
(***************************************************************************)
LeakFreezesStore ==
  [][LockLeaked => UNCHANGED <<stseq, mapVal, seqno, lock>>]_vars

(***************************************************************************)
(* The threads run: one that holds the mutex gets on with its work.        *)
(***************************************************************************)
Work(w) ==
  \/ PopSeqno(w) \/ NextSeqno(w) \/ ClsSeqno(w)
  \/ GetValue(w) \/ GetValueRaises(w) \/ SetValue(w)

FairSpec == Spec /\ \A w \in Workers : WF_vars(Work(w)) /\ WF_vars(Acquire(w))

\* Whoever waits for the mutex sees it free again and again.
LockIsFreed == \A w \in Workers : pc[w] = "wait" ~> lock = NoWorker

=============================================================================

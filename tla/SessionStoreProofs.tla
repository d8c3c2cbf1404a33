------------------------- MODULE SessionStoreProofs -------------------------
(***************************************************************************)
(* Proofs about the session store, for any number of workers, fields and   *)
(* values.  TypeInv and LockInv hold whatever the scripts call;            *)
(* StoreInv, the inductive invariant behind the isolation of sessions,     *)
(* needs scripts that keep to get_seqno("stack") and to their own numbers. *)
(***************************************************************************)
EXTENDS SessionStore, TLAPS

-----------------------------------------------------------------------------
(***************************************************************************)
(* Type correctness.  The top of the stack is a number only because the    *)
(* stack is not empty, so the two are proved together.                     *)
(***************************************************************************)
TypeInv == TypeOK /\ StackNeverEmpty

\* The arguments of the calls, as their native functions fetch them.
LEMMA ValueCallArgs ==
  ASSUME TypeOK, NEW w \in Workers
  PROVE  /\ call[w].fn = "get_value" =>
              call[w].index \in Nat \ {0} /\ call[w].field \in Fields
         /\ call[w].fn = "set_value" =>
              /\ call[w].index \in Nat \ {0}
              /\ call[w].field \in Fields
              /\ call[w].value \in Texts
  BY DEF TypeOK, Calls, NoCall

\* g_mapVal[n] is a node whether or not n was there.
LEMMA NodeAtType ==
  ASSUME TypeOK, NEW n
  PROVE  /\ NodeAt(n) \in Node
         /\ NodeAt(n).content \in Content
  BY DEF TypeOK, NodeAt, NewNode, Node, Blank, Content, Texts

\* Storing a node under a positive number keeps the map's type.
LEMMA PutNodeType ==
  ASSUME TypeOK, NEW n \in Nat \ {0}, NEW node \in Node
  PROVE  /\ DOMAIN Put(mapVal, n, node) \subseteq Nat \ {0}
         /\ \A m \in DOMAIN Put(mapVal, n, node) :
              Put(mapVal, n, node)[m] \in Node
  BY DEF TypeOK, Put

LEMMA TypeInvInit == Init => TypeInv
  BY StoreAssumption
  DEF Init, TypeInv, TypeOK, StackNeverEmpty, NoNumbers, NoCall

LEMMA TypeInvNext == TypeInv /\ [Next]_vars => TypeInv'
<1> SUFFICES ASSUME TypeInv, [Next]_vars PROVE TypeInv'
  OBVIOUS
<1> USE StoreAssumption DEF TypeInv, StackNeverEmpty
<1>1. ASSUME NEW w \in Workers, EnterGetSeqno(w) PROVE TypeInv'
  BY <1>1 DEF EnterGetSeqno, Enter, TypeOK, Calls
<1>2. ASSUME NEW w \in Workers, EnterClsSeqno(w) PROVE TypeInv'
  BY <1>2 DEF EnterClsSeqno, Enter, Args, TypeOK, Calls
<1>3. ASSUME NEW w \in Workers, EnterGetValue(w) PROVE TypeInv'
  BY <1>3 DEF EnterGetValue, Enter, Args, TypeOK, Calls
<1>4. ASSUME NEW w \in Workers, EnterSetValue(w) PROVE TypeInv'
  BY <1>4 DEF EnterSetValue, Enter, Args, TypeOK, Calls
<1>5. ASSUME NEW w \in Workers, Acquire(w) PROVE TypeInv'
  BY <1>5 DEF Acquire, TypeOK
<1>6. ASSUME NEW w \in Workers, PopSeqno(w) PROVE TypeInv'
  <2>1. stseq[Len(stseq)] \in Nat \ {0}
    BY DEF TypeOK
  <2>2. stseq' \in Seq(Nat \ {0}) /\ Len(stseq') > 0
    BY <1>6, <2>1 DEF PopSeqno, TypeOK
  <2> QED
    BY <1>6, <2>1, <2>2
    DEF PopSeqno, Leave, Return, Put, TypeOK, Blank, Content, Texts, NoCall
<1>7. ASSUME NEW w \in Workers, NextSeqno(w) PROVE TypeInv'
  BY <1>7 DEF NextSeqno, Leave, Return, Put, TypeOK, Blank, Content, Texts, NoCall
<1>8. ASSUME NEW w \in Workers, ClsSeqno(w) PROVE TypeInv'
  <2> DEFINE n == call[w].index
  <2>1. CASE n \in DOMAIN mapVal
    <3>1. stseq' = Append(stseq, n) /\ mapVal' = Drop(mapVal, n)
      BY <1>8, <2>1 DEF ClsSeqno
    <3>2. n \in Nat \ {0}
      BY <2>1 DEF TypeOK
    <3>3. stseq' \in Seq(Nat \ {0}) /\ Len(stseq') > 0
      BY <3>1, <3>2 DEF TypeOK
    <3>4. /\ DOMAIN mapVal' \subseteq Nat \ {0}
          /\ \A m \in DOMAIN mapVal' : mapVal'[m] \in Node
      BY <3>1 DEF Drop, TypeOK
    <3> QED
      BY <1>8, <3>3, <3>4 DEF ClsSeqno, Leave, Return, Drop, TypeOK, NoCall
  <2>2. CASE n \notin DOMAIN mapVal
    BY <1>8, <2>2 DEF ClsSeqno, Leave, Return, Drop, TypeOK, NoCall
  <2> QED
    BY <2>1, <2>2
<1>9. ASSUME NEW w \in Workers, GetValue(w) PROVE TypeInv'
  <2>1. call[w].index \in Nat \ {0}
    BY <1>9, ValueCallArgs DEF GetValue, Inside
  <2>2. mapVal' = Put(mapVal, call[w].index, NodeAt(call[w].index))
    BY <1>9 DEF GetValue
  <2> QED
    BY <1>9, <2>1, <2>2, NodeAtType, PutNodeType
    DEF GetValue, Leave, Return, TypeOK, NoCall
<1>10. ASSUME NEW w \in Workers, GetValueRaises(w) PROVE TypeInv'
  <2>1. call[w].index \in Nat \ {0}
    BY <1>10, ValueCallArgs DEF GetValueRaises, Inside
  <2>2. mapVal' = Put(mapVal, call[w].index, NodeAt(call[w].index))
    BY <1>10 DEF GetValueRaises
  <2> QED
    BY <1>10, <2>1, <2>2, NodeAtType, PutNodeType
    DEF GetValueRaises, Return, TypeOK, NoCall, NoNumbers
<1>11. ASSUME NEW w \in Workers, SetValue(w) PROVE TypeInv'
  <2> DEFINE n == call[w].index
             f == call[w].field
             v == call[w].value
             node == [content |-> [NodeAt(n).content EXCEPT ![f] = v],
                      tm |-> n \in DOMAIN mapVal => mapVal[n].tm]
  <2>1. n \in Nat \ {0} /\ f \in Fields /\ v \in Texts
    BY <1>11, ValueCallArgs DEF SetValue, Inside
  <2>2. mapVal' = Put(mapVal, n, node)
    BY <1>11 DEF SetValue
  <2>3. [NodeAt(n).content EXCEPT ![f] = v] \in Content
    BY <2>1, NodeAtType DEF Content
  <2>4. (n \in DOMAIN mapVal => mapVal[n].tm) \in BOOLEAN
    OBVIOUS
  <2>5. node \in Node
    BY <2>3, <2>4 DEF Node
  <2>6. /\ DOMAIN mapVal' \subseteq Nat \ {0}
        /\ \A m \in DOMAIN mapVal' : mapVal'[m] \in Node
    BY <2>1, <2>2, <2>5, PutNodeType
  <2>7. /\ DOMAIN held' = Workers
        /\ \A u \in Workers :
             /\ DOMAIN held'[u] \subseteq Nat \ {0}
             /\ \A m \in DOMAIN held'[u] : held'[u][m] \in Content
    BY <1>11, <2>1 DEF SetValue, Put, TypeOK, Content
  <2> QED
    BY <1>11, <2>6, <2>7 DEF SetValue, Leave, Return, TypeOK, NoCall
<1>12. ASSUME NEW w \in Workers, Abandon(w) PROVE TypeInv'
  BY <1>12 DEF Abandon, NoNumbers, TypeOK
<1>13. CASE UNCHANGED vars
  BY <1>13 DEF vars, TypeOK
<1> QED
  BY <1>1, <1>2, <1>3, <1>4, <1>5, <1>6, <1>7, <1>8, <1>9, <1>10, <1>11,
     <1>12, <1>13 DEF Next

\* Whatever the scripts call, the store's variables keep their types.
THEOREM TypeCorrect == Spec => []TypeOK
<1>1. TypeInv => TypeOK
  BY DEF TypeInv
<1> QED
  BY <1>1, TypeInvInit, TypeInvNext, PTL DEF Spec

\* Whatever the scripts call, g_stseq.top() in get_seqno is defined: the
\* comment "must have one element" holds.
THEOREM StackTopDefined == Spec => []StackNeverEmpty
<1>1. TypeInv => StackNeverEmpty
  BY DEF TypeInv
<1> QED
  BY <1>1, TypeInvInit, TypeInvNext, PTL DEF Spec

-----------------------------------------------------------------------------
(***************************************************************************)
(* The mutex, whatever the scripts call: a thread inside is its holder,    *)
(* and it is only held by a thread that is not inside when a memory error  *)
(* was raised under it.                                                    *)
(***************************************************************************)
LockInv ==
  /\ LockHeldInside
  /\ ~MayRaise => NoLockLeak

LEMMA LockInvNext == TypeOK /\ LockInv /\ [Next]_vars => LockInv'
<1> SUFFICES ASSUME TypeOK, LockInv, [Next]_vars PROVE LockInv'
  OBVIOUS
<1> USE StoreAssumption DEF LockInv, LockHeldInside, NoLockLeak, LockLeaked, TypeOK
<1>1. ASSUME NEW w \in Workers, NEW c, Enter(w, c) PROVE LockInv'
  BY <1>1 DEF Enter
<1>2. ASSUME NEW w \in Workers, Acquire(w) PROVE LockInv'
  BY <1>2 DEF Acquire
<1>3. ASSUME NEW w \in Workers, pc[w] = "crit", Leave(w) PROVE LockInv'
  BY <1>3 DEF Leave, Return
<1>4. ASSUME NEW w \in Workers, GetValueRaises(w) PROVE LockInv'
  BY <1>4 DEF GetValueRaises, Return
<1>5. ASSUME NEW w \in Workers, Abandon(w) PROVE LockInv'
  BY <1>5 DEF Abandon
<1>6. CASE UNCHANGED vars
  BY <1>6 DEF vars
<1> QED
  BY <1>1, <1>2, <1>3, <1>4, <1>5, <1>6
  DEF Next, EnterGetSeqno, EnterClsSeqno, EnterGetValue, EnterSetValue,
      PopSeqno, NextSeqno, ClsSeqno, GetValue, SetValue, Inside

LEMMA LockInvAlways == Spec => []LockInv
<1>1. Init => LockInv
  BY DEF Init, LockInv, LockHeldInside, NoLockLeak, LockLeaked
<1> QED
  BY <1>1, LockInvNext, TypeCorrect, PTL DEF Spec

\* No two threads are between lock and unlock in the native functions.
THEOREM MutualExclusion == Spec => []LockHeldInside
<1>1. LockInv => LockHeldInside
  BY DEF LockInv
<1> QED
  BY <1>1, LockInvAlways, PTL

\* A store whose lua_pushstring never raises never loses its mutex.
THEOREM LockNeverLeaks == ASSUME ~MayRaise PROVE Spec => []NoLockLeak
<1>1. LockInv => NoLockLeak
  BY DEF LockInv
<1> QED
  BY <1>1, LockInvAlways, PTL

\* A raise under the mutex in get_value is final: from then on no call of
\* any worker changes the shared state.
THEOREM LeakIsFinal == Spec => LeakFreezesStore
<1>1. TypeOK /\ LockInv /\ [Next]_vars
        => [LockLeaked => UNCHANGED <<stseq, mapVal, seqno, lock>>]_vars
  <2> SUFFICES ASSUME TypeOK, LockInv, LockLeaked, Next
               PROVE  UNCHANGED <<stseq, mapVal, seqno, lock>>
    OBVIOUS
  <2>1. \A w \in Workers : pc[w] # "crit"
    BY StoreAssumption DEF LockInv, LockHeldInside, LockLeaked, TypeOK
  <2> QED
    BY <2>1 DEF Next, EnterGetSeqno, EnterClsSeqno, EnterGetValue,
         EnterSetValue, Enter, Acquire, Abandon, PopSeqno, NextSeqno, ClsSeqno,
         GetValue, GetValueRaises, SetValue, Inside, LockLeaked
<1> QED
  BY <1>1, TypeCorrect, LockInvAlways, PTL DEF Spec, LeakFreezesStore

-----------------------------------------------------------------------------
(***************************************************************************)
(* Isolation of sessions.  NumbersDistinct is not inductive: a pop must    *)
(* know that the bottom of the stack is fresh (above every number ever     *)
(* given out), that the numbers on the stack have no node left, and that a *)
(* call under way still belongs to the script that made it.                *)
(***************************************************************************)
StackInv ==
  /\ \A i \in DOMAIN stseq : i > 1 => stseq[i] < stseq[1]
  /\ \A i, j \in DOMAIN stseq : stseq[i] = stseq[j] => i = j
  /\ \A i \in DOMAIN stseq : stseq[i] \notin DOMAIN mapVal
  /\ \A n \in DOMAIN mapVal : n < stseq[1]

HeldInv ==
  \A w \in Workers : \A n \in DOMAIN held[w] :
    /\ n < stseq[1]
    /\ \A u \in Workers \ {w} : n \notin DOMAIN held[u]
    /\ \A i \in DOMAIN stseq : stseq[i] # n

CallInv ==
  \A w \in Workers : pc[w] # "script" =>
    IF call[w].fn = "get_seqno" THEN call[w].mode = "stack"
    ELSE call[w].index \in DOMAIN held[w]

StoreInv == StackInv /\ HeldInv /\ CallInv /\ SessionIsolation

LEMMA StoreInvInit == Init => StoreInv
  BY DEF Init, StoreInv, StackInv, HeldInv, CallInv, SessionIsolation, NoNumbers

\* A call that only comes in, or gets the mutex, changes nothing shared.
LEMMA EnterKeepsStoreInv ==
  ASSUME Disciplined, Modes = {"stack"}, TypeInv, StoreInv, NEW w \in Workers,
         \/ EnterGetSeqno(w) \/ EnterClsSeqno(w) \/ EnterGetValue(w)
         \/ EnterSetValue(w) \/ Acquire(w) \/ Abandon(w)
  PROVE  StoreInv'
<1> USE StoreAssumption DEF TypeInv, TypeOK, StoreInv
<1>1. CASE EnterGetSeqno(w)
  BY <1>1 DEF EnterGetSeqno, Enter, StackInv, HeldInv, CallInv,
              SessionIsolation, NodeAt
<1>2. CASE EnterClsSeqno(w)
  BY <1>2 DEF EnterClsSeqno, Args, Enter, StackInv, HeldInv, CallInv,
              SessionIsolation, NodeAt
<1>3. CASE EnterGetValue(w)
  BY <1>3 DEF EnterGetValue, Args, Enter, StackInv, HeldInv, CallInv,
              SessionIsolation, NodeAt
<1>4. CASE EnterSetValue(w)
  BY <1>4 DEF EnterSetValue, Args, Enter, StackInv, HeldInv, CallInv,
              SessionIsolation, NodeAt
<1>5. CASE Acquire(w)
  BY <1>5 DEF Acquire, StackInv, HeldInv, CallInv, SessionIsolation, NodeAt
<1>6. CASE Abandon(w)
  BY <1>6 DEF Abandon, NoNumbers, StackInv, HeldInv, CallInv,
              SessionIsolation, NodeAt
<1> QED
  BY <1>1, <1>2, <1>3, <1>4, <1>5, <1>6

\* Popping: the number given out is on nobody's list and has no node.
LEMMA PopKeepsStoreInv ==
  ASSUME TypeInv, StoreInv, NEW w \in Workers, PopSeqno(w)
  PROVE  StoreInv'
<1> DEFINE top == stseq[Len(stseq)]
<1>1. /\ Len(stseq) \in Nat \ {0}
      /\ DOMAIN stseq = 1..Len(stseq)
      /\ top \in Nat \ {0}
      /\ \A i \in DOMAIN stseq : stseq[i] \in Nat \ {0}
  BY DEF TypeInv, TypeOK, StackNeverEmpty
<1>2. /\ held' = [held EXCEPT ![w] = Put(held[w], top, Blank)]
      /\ mapVal' = mapVal
      /\ pc' = [pc EXCEPT ![w] = "script"]
      /\ call' = [call EXCEPT ![w] = NoCall]
  BY DEF PopSeqno, Leave, Return
<1>3. /\ DOMAIN held'[w] = DOMAIN held[w] \cup {top}
      /\ \A u \in Workers \ {w} : held'[u] = held[u]
      /\ \A n \in DOMAIN held[w] : n # top => held'[w][n] = held[w][n]
      /\ held'[w][top] = Blank
  BY <1>2 DEF Put, TypeInv, TypeOK
<1>4. top \notin DOMAIN mapVal
  BY <1>1 DEF StoreInv, StackInv
<1>5. \A u \in Workers : top \notin DOMAIN held[u]
  BY <1>1 DEF StoreInv, HeldInv
<1>6. StackInv' /\ HeldInv'
  <2>1. CASE Len(stseq) = 1
    <3>1. stseq' = <<top + 1>> /\ top = stseq[1]
      BY <2>1 DEF PopSeqno
    <3>2. DOMAIN stseq' = {1} /\ stseq'[1] = top + 1
      BY <3>1
    <3>3. StackInv'
      BY <1>1, <1>2, <3>1, <3>2 DEF StoreInv, StackInv, TypeInv, TypeOK
    <3>4. ASSUME NEW u \in Workers, NEW n \in DOMAIN held'[u]
          PROVE  /\ n < stseq'[1]
                 /\ \A x \in Workers \ {u} : n \notin DOMAIN held'[x]
                 /\ \A i \in DOMAIN stseq' : stseq'[i] # n
      <4>1. n \in Nat \ {0} /\ n <= top
        BY <1>1, <1>3, <3>1, <3>4 DEF StoreInv, HeldInv, TypeInv, TypeOK
      <4>2. \A x \in Workers \ {u} : n \notin DOMAIN held'[x]
        BY <1>3, <1>5, <3>4 DEF StoreInv, HeldInv
      <4> QED
        BY <1>1, <3>2, <4>1, <4>2
    <3> QED
      BY <3>3, <3>4 DEF HeldInv
  <2>2. CASE Len(stseq) # 1
    <3>1. stseq' = SubSeq(stseq, 1, Len(stseq) - 1)
      BY <2>2 DEF PopSeqno
    <3>2. /\ DOMAIN stseq' = 1..(Len(stseq) - 1)
          /\ 1 \in DOMAIN stseq'
          /\ \A i \in DOMAIN stseq' : i \in DOMAIN stseq /\ stseq'[i] = stseq[i]
      BY <1>1, <2>2, <3>1 DEF TypeInv, TypeOK
    <3>3. \A i \in DOMAIN stseq' : stseq'[i] # top
      BY <1>1, <3>2 DEF StoreInv, StackInv
    <3>4. StackInv'
      BY <1>2, <3>2 DEF StoreInv, StackInv
    <3>5. top < stseq[1]
      BY <1>1, <2>2 DEF StoreInv, StackInv
    <3>6. ASSUME NEW u \in Workers, NEW n \in DOMAIN held'[u]
          PROVE  /\ n < stseq'[1]
                 /\ \A x \in Workers \ {u} : n \notin DOMAIN held'[x]
                 /\ \A i \in DOMAIN stseq' : stseq'[i] # n
      <4>1. n < stseq'[1] /\ \A i \in DOMAIN stseq' : stseq'[i] # n
        BY <1>3, <3>2, <3>3, <3>5, <3>6 DEF StoreInv, HeldInv
      <4>2. \A x \in Workers \ {u} : n \notin DOMAIN held'[x]
        BY <1>3, <1>5, <3>6 DEF StoreInv, HeldInv
      <4> QED
        BY <4>1, <4>2
    <3> QED
      BY <3>4, <3>6 DEF HeldInv
  <2> QED
    BY <2>1, <2>2
<1>7. CallInv'
  BY <1>2, <1>3 DEF StoreInv, CallInv, TypeInv, TypeOK
<1>8. SessionIsolation'
  BY <1>2, <1>3, <1>4, <1>5 DEF StoreInv, SessionIsolation, NodeAt, NewNode
<1> QED
  BY <1>6, <1>7, <1>8 DEF StoreInv

\* Closing: the number leaves its holder and its node before it is offered
\* again; a number without a node is not offered again.
LEMMA ClsKeepsStoreInv ==
  ASSUME TypeInv, StoreInv, NEW w \in Workers, ClsSeqno(w)
  PROVE  StoreInv'
<1> DEFINE n == call[w].index
<1>1. n \in DOMAIN held[w] /\ n \in Nat \ {0} /\ n < stseq[1]
  BY DEF ClsSeqno, Inside, StoreInv, CallInv, HeldInv, TypeInv, TypeOK
<1>2. /\ held' = [held EXCEPT ![w] = Drop(held[w], n)]
      /\ pc' = [pc EXCEPT ![w] = "script"]
      /\ call' = [call EXCEPT ![w] = NoCall]
  BY DEF ClsSeqno, Leave, Return
<1>3. /\ DOMAIN held'[w] = DOMAIN held[w] \ {n}
      /\ \A u \in Workers \ {w} : held'[u] = held[u]
      /\ \A m \in DOMAIN held'[w] : held'[w][m] = held[w][m]
  BY <1>2 DEF Drop, TypeInv, TypeOK
<1>4. \A u \in Workers : n \notin DOMAIN held'[u]
  BY <1>1, <1>3 DEF StoreInv, HeldInv
<1>5. CallInv'
  BY <1>2, <1>3 DEF StoreInv, CallInv, TypeInv, TypeOK
<1>6. CASE n \in DOMAIN mapVal
  <2>1. mapVal' = Drop(mapVal, n) /\ stseq' = Append(stseq, n)
    BY <1>6 DEF ClsSeqno
  <2>2. /\ DOMAIN stseq = 1..Len(stseq)
        /\ Len(stseq) \in Nat \ {0}
        /\ DOMAIN stseq' = 1..(Len(stseq) + 1)
        /\ \A i \in DOMAIN stseq : stseq'[i] = stseq[i]
        /\ stseq'[Len(stseq) + 1] = n
    BY <1>1, <2>1 DEF TypeInv, TypeOK, StackNeverEmpty
  <2>3. /\ DOMAIN mapVal' = DOMAIN mapVal \ {n}
        /\ \A m \in DOMAIN mapVal' : mapVal'[m] = mapVal[m]
    BY <2>1 DEF Drop
  <2>4. \A i \in DOMAIN stseq : stseq[i] # n
    BY <1>6 DEF StoreInv, StackInv
  <2>5. StackInv'
    BY <1>1, <2>2, <2>3, <2>4 DEF StoreInv, StackInv
  <2>6. HeldInv'
    BY <1>3, <1>4, <2>2 DEF StoreInv, HeldInv
  <2>7. SessionIsolation'
    BY <1>3, <1>4, <2>3 DEF StoreInv, SessionIsolation, NodeAt
  <2> QED
    BY <1>5, <2>5, <2>6, <2>7 DEF StoreInv
<1>7. CASE n \notin DOMAIN mapVal
  <2>1. mapVal' = mapVal /\ stseq' = stseq
    BY <1>7 DEF ClsSeqno
  <2> QED
    BY <1>3, <1>5, <2>1
    DEF StoreInv, StackInv, HeldInv, SessionIsolation, NodeAt
<1> QED
  BY <1>6, <1>7

\* Reading makes at most a blank node, under a number the reader holds.
LEMMA GetKeepsStoreInv ==
  ASSUME TypeInv, StoreInv, NEW w \in Workers,
         GetValue(w) \/ GetValueRaises(w)
  PROVE  StoreInv'
<1> DEFINE n == call[w].index
<1>1. n \in DOMAIN held[w] /\ n < stseq[1] /\ \A i \in DOMAIN stseq : stseq[i] # n
  BY DEF GetValue, GetValueRaises, Inside, StoreInv, CallInv, HeldInv, TypeInv,
         TypeOK
<1>2. /\ mapVal' = Put(mapVal, n, NodeAt(n))
      /\ stseq' = stseq
      /\ pc' = [pc EXCEPT ![w] = "script"]
      /\ call' = [call EXCEPT ![w] = NoCall]
      /\ held' = held \/ held' = [held EXCEPT ![w] = NoNumbers]
  BY DEF GetValue, GetValueRaises, Leave, Return
<1>3. /\ DOMAIN mapVal' = DOMAIN mapVal \cup {n}
      /\ \A m \in DOMAIN mapVal : mapVal'[m] = mapVal[m]
      /\ mapVal'[n] = NodeAt(n)
  BY <1>2 DEF Put, NodeAt
<1>4. \A u \in Workers : /\ DOMAIN held'[u] \subseteq DOMAIN held[u]
                        /\ \A m \in DOMAIN held'[u] : held'[u][m] = held[u][m]
                        /\ u # w => held'[u] = held[u]
  BY <1>2 DEF NoNumbers, TypeInv, TypeOK
<1>5. StackInv'
  BY <1>1, <1>2, <1>3 DEF StoreInv, StackInv
<1>6. HeldInv'
  BY <1>2, <1>4 DEF StoreInv, HeldInv
<1>7. CallInv'
  BY <1>2, <1>4 DEF StoreInv, CallInv, TypeInv, TypeOK
<1>8. SessionIsolation'
  <2> SUFFICES ASSUME NEW u \in Workers, NEW m \in DOMAIN held'[u]
               PROVE  held'[u][m] = NodeAt(m)'.content
    BY DEF SessionIsolation
  <2>1. NodeAt(m)' = NodeAt(m)
    <3>1. CASE m = n
      BY <1>3, <3>1 DEF NodeAt
    <3>2. CASE m # n
      BY <1>3, <3>2 DEF NodeAt
    <3> QED
      BY <3>1, <3>2
  <2>2. held'[u][m] = held[u][m] /\ m \in DOMAIN held[u]
    BY <1>2 DEF NoNumbers, TypeInv, TypeOK
  <2>3. held[u][m] = NodeAt(m).content
    BY <2>2 DEF StoreInv, SessionIsolation
  <2> QED
    BY <2>1, <2>2, <2>3
<1> QED
  BY <1>5, <1>6, <1>7, <1>8 DEF StoreInv

\* Writing changes the content of a number only its writer holds.
LEMMA SetKeepsStoreInv ==
  ASSUME TypeInv, StoreInv, NEW w \in Workers, SetValue(w)
  PROVE  StoreInv'
<1> DEFINE n == call[w].index
           f == call[w].field
           v == call[w].value
           node == [content |-> [NodeAt(n).content EXCEPT ![f] = v],
                    tm |-> n \in DOMAIN mapVal => mapVal[n].tm]
<1>1. /\ n \in DOMAIN held[w]
      /\ n < stseq[1]
      /\ \A i \in DOMAIN stseq : stseq[i] # n
      /\ \A u \in Workers \ {w} : n \notin DOMAIN held[u]
  BY DEF SetValue, Inside, StoreInv, CallInv, HeldInv, TypeInv, TypeOK
<1>2. /\ mapVal' = Put(mapVal, n, node)
      /\ stseq' = stseq
      /\ pc' = [pc EXCEPT ![w] = "script"]
      /\ call' = [call EXCEPT ![w] = NoCall]
      /\ held' = [held EXCEPT ![w] = Put(held[w], n, [held[w][n] EXCEPT ![f] = v])]
  BY <1>1 DEF SetValue, Leave, Return
<1>3. /\ DOMAIN mapVal' = DOMAIN mapVal \cup {n}
      /\ \A m \in DOMAIN mapVal : m # n => mapVal'[m] = mapVal[m]
      /\ mapVal'[n].content = [NodeAt(n).content EXCEPT ![f] = v]
  BY <1>2 DEF Put
<1>4. /\ \A u \in Workers : DOMAIN held'[u] = DOMAIN held[u]
      /\ \A u \in Workers \ {w} : held'[u] = held[u]
      /\ \A m \in DOMAIN held[w] : m # n => held'[w][m] = held[w][m]
      /\ held'[w][n] = [held[w][n] EXCEPT ![f] = v]
  BY <1>1, <1>2 DEF Put, TypeInv, TypeOK
<1>5. StackInv'
  BY <1>1, <1>2, <1>3 DEF StoreInv, StackInv
<1>6. HeldInv'
  BY <1>2, <1>4 DEF StoreInv, HeldInv
<1>7. CallInv'
  BY <1>2, <1>4 DEF StoreInv, CallInv, TypeInv, TypeOK
<1>8. ASSUME NEW u \in Workers, NEW m \in DOMAIN held'[u]
      PROVE  held'[u][m] = NodeAt(m)'.content
  <2>1. CASE u = w /\ m = n
    <3>1. held[w][n] = NodeAt(n).content
      BY <1>1 DEF StoreInv, SessionIsolation
    <3> QED
      BY <1>3, <1>4, <2>1, <3>1 DEF NodeAt
  <2>2. CASE m # n
    BY <1>3, <1>4, <1>8, <2>2 DEF StoreInv, SessionIsolation, NodeAt
  <2> QED
    BY <1>1, <1>4, <1>8, <2>1, <2>2
<1> QED
  BY <1>5, <1>6, <1>7, <1>8 DEF StoreInv, SessionIsolation

LEMMA StoreInvNext ==
  ASSUME Disciplined, Modes = {"stack"}
  PROVE  TypeInv /\ StoreInv /\ [Next]_vars => StoreInv'
<1> SUFFICES ASSUME TypeInv, StoreInv, [Next]_vars PROVE StoreInv'
  OBVIOUS
<1>1. CASE UNCHANGED vars
  BY <1>1 DEF vars, StoreInv, StackInv, HeldInv, CallInv, SessionIsolation, NodeAt
<1>2. ASSUME NEW w \in Workers, NextSeqno(w) PROVE StoreInv'
  BY <1>2 DEF NextSeqno, Inside, StoreInv, CallInv
<1> QED
  BY <1>1, <1>2, EnterKeepsStoreInv, PopKeepsStoreInv, ClsKeepsStoreInv,
     GetKeepsStoreInv, SetKeepsStoreInv DEF Next

LEMMA StoreInvAlways ==
  ASSUME Disciplined, Modes = {"stack"}
  PROVE  Spec => []StoreInv
  BY StoreInvInit, StoreInvNext, TypeInvInit, TypeInvNext, PTL DEF Spec

\* Scripts that keep to the stack and to their own numbers never share one,
\* in any interleaving of any number of workers, memory errors included.
THEOREM NumbersNeverShared ==
  ASSUME Disciplined, Modes = {"stack"}
  PROVE  Spec => []NumbersDistinct
<1>1. StoreInv => NumbersDistinct
  BY DEF StoreInv, StackInv, HeldInv, NumbersDistinct
<1> QED
  BY <1>1, StoreInvAlways, PTL

\* Such a script reads back from its number what it stored, and only that.
THEOREM SessionsIsolated ==
  ASSUME Disciplined, Modes = {"stack"}
  PROVE  Spec => []SessionIsolation
<1>1. StoreInv => SessionIsolation
  BY DEF StoreInv
<1> QED
  BY <1>1, StoreInvAlways, PTL
=============================================================================

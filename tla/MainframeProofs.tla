-------------------------- MODULE MainframeProofs ---------------------------
(***************************************************************************)
(* Proofs about the composed main frame, for a pool of any size, a script  *)
(* with any number of fields and any number of failures of its main        *)
(* function: main.lua uses the store as the disciplined scripts of module  *)
(* SessionStore do, so that what SessionStoreProofs proves of those holds  *)
(* of it, and numbers and nodes are bounded by threads and failures.       *)
(***************************************************************************)
EXTENDS Mainframe, FiniteSetTheorems, SequenceTheorems, TLAPS

\* What is proved of any store, for the store in this frame.
P == INSTANCE SessionStoreProofs WITH Values <- {Text}, Modes <- {"stack"},
                                      Disciplined <- TRUE

-----------------------------------------------------------------------------
(***************************************************************************)
(* The calls of main.lua.                                                  *)
(***************************************************************************)
Count == Len(ScriptFields)
GetSeqno == [fn |-> "get_seqno", mode |-> "stack"]
SetField(i) == [fn |-> "set_value", field |-> ScriptFields[i], value |-> Text]
GetField(i) == [fn |-> "get_value", field |-> ScriptFields[i]]

LEMMA FieldsAre ==
  /\ Count \in Nat \ {0}
  /\ DOMAIN ScriptFields = 1..Count
  BY FrameAssumption, EmptySeq DEF Count

\* Two sequences joined: the items of the first, then those of the second.
LEMMA JoinIs ==
  ASSUME NEW A, NEW s \in Seq(A), NEW t \in Seq(A)
  PROVE  /\ s \o t \in Seq(A)
         /\ Len(s \o t) = Len(s) + Len(t)
         /\ \A i \in 1..Len(s) : (s \o t)[i] = s[i]
         /\ \A i \in 1..Len(t) : (s \o t)[Len(s) + i] = t[i]
<1>1. Len(s) \in Nat /\ Len(t) \in Nat
  BY LenProperties
<1>2. \A i \in 1..(Len(s) + Len(t)) :
        (s \o t)[i] = IF i <= Len(s) THEN s[i] ELSE t[i - Len(s)]
  BY ConcatProperties
<1>3. ASSUME NEW i \in 1..Len(t) PROVE (s \o t)[Len(s) + i] = t[i]
  BY <1>1, <1>2
<1> QED
  BY <1>1, <1>2, <1>3, ConcatProperties

\* What main.lua calls at each of its lines.
LEMMA ScriptShape ==
  /\ Len(MainLua) = 2 * Count + 2
  /\ MainLua[1] = GetSeqno
  /\ \A i \in 1..Count : MainLua[1 + i] = SetField(i)
  /\ \A i \in 1..Count : MainLua[Count + 1 + i] = GetField(i)
  /\ MainLua[2 * Count + 2] = [fn |-> "cls_seqno"]
<1> DEFINE s1 == <<GetSeqno>>
           s2 == [i \in DOMAIN ScriptFields |-> SetField(i)]
           s3 == [i \in DOMAIN ScriptFields |-> GetField(i)]
           s4 == <<[fn |-> "cls_seqno"]>>
           All == {GetSeqno, [fn |-> "cls_seqno"]}
                  \cup {SetField(i) : i \in 1..Count}
                  \cup {GetField(i) : i \in 1..Count}
<1>1. MainLua = ((s1 \o s2) \o s3) \o s4
  BY DEF MainLua, GetSeqno, SetField, GetField
<1>2. s1 \in Seq(All) /\ Len(s1) = 1 /\ s1[1] = GetSeqno
  OBVIOUS
<1>3. s4 \in Seq(All) /\ Len(s4) = 1 /\ s4[1] = [fn |-> "cls_seqno"]
  OBVIOUS
<1>4. s2 \in Seq(All) /\ Len(s2) = Count /\ \A i \in 1..Count : s2[i] = SetField(i)
  <2>1. s2 \in [1..Count -> All]
    BY FieldsAre
  <2> QED
    BY <2>1, FieldsAre, SeqDef, LenProperties
<1>5. s3 \in Seq(All) /\ Len(s3) = Count /\ \A i \in 1..Count : s3[i] = GetField(i)
  <2>1. s3 \in [1..Count -> All]
    BY FieldsAre
  <2> QED
    BY <2>1, FieldsAre, SeqDef, LenProperties
<1> HIDE DEF s1, s2, s3, s4, All
<1> DEFINE t2 == s1 \o s2
           t3 == t2 \o s3
<1>6. /\ t2 \in Seq(All) /\ Len(t2) = Count + 1
      /\ t2[1] = GetSeqno
      /\ \A i \in 1..Count : t2[1 + i] = SetField(i)
  <2>1. s1 \in Seq(All) /\ s2 \in Seq(All)
    BY <1>2, <1>4
  <2>2. t2 = s1 \o s2
    OBVIOUS
  <2>3. t2 \in Seq(All) /\ Len(t2) = Len(s1) + Len(s2)
    BY <2>1, <2>2, JoinIs
  <2>4. \A i \in 1..Len(s1) : t2[i] = s1[i]
    BY <2>1, <2>2, JoinIs
  <2>5. \A i \in 1..Len(s2) : t2[Len(s1) + i] = s2[i]
    BY <2>1, <2>2, JoinIs
  <2> QED
    BY <1>2, <1>4, <2>3, <2>4, <2>5, FieldsAre
<1> HIDE DEF t2
<1>7. /\ t3 \in Seq(All) /\ Len(t3) = 2 * Count + 1
      /\ t3[1] = GetSeqno
      /\ \A i \in 1..Count : t3[1 + i] = SetField(i)
      /\ \A i \in 1..Count : t3[Count + 1 + i] = GetField(i)
  <2>1. t2 \in Seq(All) /\ s3 \in Seq(All)
    BY <1>5, <1>6
  <2>2. t3 = t2 \o s3
    OBVIOUS
  <2>3. t3 \in Seq(All) /\ Len(t3) = Len(t2) + Len(s3)
    BY <2>1, <2>2, JoinIs
  <2>4. \A i \in 1..Len(t2) : t3[i] = t2[i]
    BY <2>1, <2>2, JoinIs
  <2>5. \A i \in 1..Len(s3) : t3[Len(t2) + i] = s3[i]
    BY <2>1, <2>2, JoinIs
  <2> QED
    BY <1>5, <1>6, <2>3, <2>4, <2>5, FieldsAre
<1> HIDE DEF t3
<1>8. /\ Len(MainLua) = Len(t3) + Len(s4)
      /\ \A i \in 1..Len(t3) : MainLua[i] = t3[i]
      /\ \A i \in 1..Len(s4) : MainLua[Len(t3) + i] = s4[i]
  <2>1. t3 \in Seq(All) /\ s4 \in Seq(All)
    BY <1>3, <1>7
  <2>2. MainLua = t3 \o s4
    BY <1>1 DEF t3, t2
  <2>3. MainLua \in Seq(All) /\ Len(MainLua) = Len(t3) + Len(s4)
    BY <2>1, <2>2, JoinIs
  <2>4. \A i \in 1..Len(t3) : MainLua[i] = t3[i]
    BY <2>1, <2>2, JoinIs
  <2>5. \A i \in 1..Len(s4) : MainLua[Len(t3) + i] = s4[i]
    BY <2>1, <2>2, JoinIs
  <2> QED
    BY <2>3, <2>4, <2>5
<1>9. Len(MainLua) = 2 * Count + 2 /\ MainLua[2 * Count + 1 + 1] = s4[1]
  BY <1>3, <1>7, <1>8, FieldsAre
<1>10. \A i \in 1..(2 * Count + 1) : MainLua[i] = t3[i]
  BY <1>7, <1>8
<1>11. \A i \in 1..Count : 1 + i \in 1..(2 * Count + 1)
                          /\ Count + 1 + i \in 1..(2 * Count + 1)
  BY FieldsAre
<1>12. 1 \in 1..(2 * Count + 1) /\ 2 * Count + 2 = 2 * Count + 1 + 1
  BY FieldsAre
<1> QED
  BY <1>3, <1>7, <1>9, <1>10, <1>11, <1>12


\* A call record with its number is the record of module SessionStore.
LEMMA WithIndexIs ==
  ASSUME NEW i, NEW n
  PROVE  /\ WithIndex(SetField(i), n) =
              [fn |-> "set_value", index |-> n, field |-> ScriptFields[i],
               value |-> Text]
         /\ WithIndex(GetField(i), n) =
              [fn |-> "get_value", index |-> n, field |-> ScriptFields[i]]
         /\ WithIndex([fn |-> "cls_seqno"], n) = [fn |-> "cls_seqno", index |-> n]
  BY DEF WithIndex, SetField, GetField

\* The call that w makes at its line of main.lua, under its number.
Made(w) ==
  LET c == MainLua[line[w]]
  IN  IF c.fn = "get_seqno" THEN c ELSE WithIndex(c, num[w])

\* Which call that is.
LEMMA MadeIs ==
  ASSUME NEW w, line[w] \in 1..Len(MainLua)
  PROVE  \/ /\ line[w] = 1
            /\ Made(w) = GetSeqno
         \/ /\ line[w] > 1 /\ line[w] < Len(MainLua)
            /\ \E f \in Fields :
                 Made(w) = [fn |-> "set_value", index |-> num[w], field |-> f,
                            value |-> Text]
         \/ /\ line[w] > 2 /\ line[w] < Len(MainLua)
            /\ \E f \in Fields :
                 Made(w) = [fn |-> "get_value", index |-> num[w], field |-> f]
         \/ /\ line[w] = Len(MainLua)
            /\ Made(w) = [fn |-> "cls_seqno", index |-> num[w]]
<1> DEFINE n == Count
<1>1. n \in Nat \ {0} /\ Len(MainLua) = 2 * n + 2
  BY FieldsAre, ScriptShape
<1>2. \A i \in 1..n : ScriptFields[i] \in Fields
  BY FieldsAre DEF Fields
<1>3. CASE line[w] = 1
  BY <1>3, ScriptShape DEF Made, GetSeqno
<1>4. CASE line[w] \in 2..(n + 1)
  <2>1. PICK i \in 1..n : line[w] = 1 + i
    <3>1. line[w] - 1 \in 1..n /\ line[w] = 1 + (line[w] - 1)
      BY <1>1, <1>4
    <3> QED
      BY <3>1
  <2>2. MainLua[line[w]] = SetField(i)
    BY <2>1, ScriptShape
  <2>3. Made(w) = WithIndex(SetField(i), num[w])
    BY <2>2 DEF Made, SetField
  <2>4. line[w] > 1 /\ line[w] < Len(MainLua)
    BY <1>1, <1>4
  <2> QED
    BY <1>2, <2>1, <2>3, <2>4, WithIndexIs
<1>5. CASE line[w] \in (n + 2)..(2 * n + 1)
  <2>1. PICK i \in 1..n : line[w] = n + 1 + i
    <3>1. line[w] - (n + 1) \in 1..n /\ line[w] = n + 1 + (line[w] - (n + 1))
      BY <1>1, <1>5
    <3> QED
      BY <3>1
  <2>2. MainLua[line[w]] = GetField(i)
    BY <2>1, ScriptShape
  <2>3. Made(w) = WithIndex(GetField(i), num[w])
    BY <2>2 DEF Made, GetField
  <2>4. line[w] > 2 /\ line[w] < Len(MainLua)
    BY <1>1, <1>5
  <2> QED
    BY <1>2, <2>1, <2>3, <2>4, WithIndexIs
<1>6. CASE line[w] = 2 * n + 2
  <2>1. MainLua[line[w]] = [fn |-> "cls_seqno"]
    BY <1>6, ScriptShape
  <2>2. Made(w) = WithIndex([fn |-> "cls_seqno"], num[w])
    BY <2>1 DEF Made
  <2> QED
    BY <1>1, <1>6, <2>2, WithIndexIs
<1> QED
  BY <1>1, <1>3, <1>4, <1>5, <1>6

-----------------------------------------------------------------------------
(***************************************************************************)
(* The inductive invariant.  SessionInv ties a thread's line of main.lua   *)
(* to its place in deal(), to its native call, to the one number it holds  *)
(* and to the node that set_value has made under it.  LossInv is the       *)
(* argument about the numbers: whatever was handed out and is neither on   *)
(* the stack again nor held by a thread was lost to a failed main(), and a *)
(* failure loses at most one, because a script holds at most one.          *)
(***************************************************************************)
FrameOK ==
  /\ place \in [Workers -> D!Places]
  /\ line \in [Workers -> 1..(Len(MainLua) + 1)]
  /\ num \in [Workers -> Nat]
  /\ failures \in 0..MaxFailures
  /\ seqno = 1

Session(w) ==
  /\ place[w] # "main" => line[w] = 1 /\ pc[w] = "script"
  /\ pc[w] # "script" => line[w] <= Len(MainLua) /\ call[w] = Made(w)
  /\ DOMAIN held[w] = IF line[w] \in 2..Len(MainLua) THEN {num[w]} ELSE {}
  /\ line[w] \in 3..Len(MainLua) => num[w] \in DOMAIN mapVal

SessionInv == \A w \in Workers : Session(w)

Lost == {n \in 1..(stseq[1] - 1) :
           /\ \A i \in DOMAIN stseq : stseq[i] # n
           /\ \A w \in Workers : n \notin DOMAIN held[w]}

LossInv == Cardinality(Lost) <= failures

FrameInv ==
  /\ P!TypeInv /\ P!StoreInv
  /\ FrameOK /\ SessionInv /\ LossInv /\ NumbersBounded

LEMMA StoreAssumed == P!StoreAssumption
  BY FrameAssumption, FS_CardinalityType DEF P!StoreAssumption

LEMMA SizesAre ==
  /\ Cardinality(Workers) \in Nat
  /\ MaxFailures \in Nat /\ MaxSeq \in Nat
  /\ MaxSeq > Cardinality(Workers) + MaxFailures + 1
  BY FrameAssumption, FS_CardinalityType

LEMMA FrameInvInit == Init => FrameInv
<1> SUFFICES ASSUME Init PROVE FrameInv
  OBVIOUS
<1>1. P!Init
  BY DEF Init, S!Init, P!Init, S!NoCall, P!NoCall, S!NoNumbers, P!NoNumbers,
         S!Blank, P!Blank, S!NewNode, P!NewNode
<1>2. P!TypeInv /\ P!StoreInv
  BY <1>1, StoreAssumed, P!TypeInvInit, P!StoreInvInit
<1>3. FrameOK
  BY SizesAre, FieldsAre, ScriptShape
  DEF Init, D!Init, D!Places, S!Init, FrameOK
<1>4. SessionInv
  BY DEF Init, D!Init, S!Init, S!NoNumbers, SessionInv, Session
<1>5. Lost = {}
  BY DEF Init, S!Init, Lost
<1>6. LossInv /\ NumbersBounded
  BY <1>5, FS_EmptySet, SizesAre DEF Init, S!Init, LossInv, NumbersBounded
<1> QED
  BY <1>2, <1>3, <1>4, <1>6 DEF FrameInv

-----------------------------------------------------------------------------
(***************************************************************************)
(* The store: in a state of the invariant every step of the frame is one   *)
(* of the store's, under the numbers a disciplined script may pass and     *)
(* below the bound MaxSeq.                                                 *)
(***************************************************************************)
LEMMA BelowMaxSeq ==
  ASSUME FrameInv
  PROVE  (\A i \in DOMAIN stseq : stseq[i] <= MaxSeq) /\ seqno <= MaxSeq
<1>1. stseq \in Seq(Nat \ {0}) /\ Len(stseq) > 0
  BY DEF FrameInv, P!TypeInv, P!TypeOK, P!StackNeverEmpty
<1>2. \A i \in DOMAIN stseq : stseq[i] <= stseq[1]
  BY <1>1 DEF FrameInv, P!StoreInv, P!StackInv
<1>3. stseq[1] <= 1 + Cardinality(Workers) + failures
  BY DEF FrameInv, NumbersBounded
<1>4. stseq[1] <= MaxSeq
  BY <1>1, <1>3, SizesAre DEF FrameInv, FrameOK
<1>5. ASSUME NEW i \in DOMAIN stseq PROVE stseq[i] <= MaxSeq
  BY <1>1, <1>2, <1>4, SizesAre
<1> QED
  BY <1>5, SizesAre DEF FrameInv, FrameOK

LEMMA CallIs ==
  ASSUME FrameInv, NEW w \in Workers, Call(w)
  PROVE  /\ S!Enter(w, Made(w))
         /\ line[w] \in 1..Len(MainLua)
         /\ line[w] > 1 => DOMAIN held[w] = {num[w]}
<1>1. S!Enter(w, Made(w))
  BY DEF Call, Made
<1>2. line[w] \in 1..Len(MainLua)
  BY FieldsAre, ScriptShape DEF Call, FrameInv, FrameOK
<1>3. line[w] > 1 => line[w] \in 2..Len(MainLua)
  BY <1>2, FieldsAre, ScriptShape
<1> QED
  BY <1>1, <1>2, <1>3 DEF FrameInv, SessionInv, Session

LEMMA StoreStepIs == FrameInv /\ [Next]_vars => [S!Next]_(S!vars)
<1> SUFFICES ASSUME FrameInv, [Next]_vars PROVE [S!Next]_(S!vars)
  OBVIOUS
<1>1. CASE UNCHANGED vars \/ Outside
  BY <1>1 DEF vars, Outside, storeVars, S!vars
<1>2. ASSUME NEW w \in Workers, Call(w) PROVE S!Next
  <2> DEFINE c == Made(w)
  <2>1. S!Enter(w, c) /\ line[w] \in 1..Len(MainLua)
    BY <1>2, CallIs
  <2>2. line[w] > 1 => num[w] \in S!Args(w)
    BY <1>2, CallIs DEF S!Args
  <2>3. Text \in S!Texts
    BY DEF S!Texts
  <2>4. CASE c = GetSeqno
    <3>1. S!EnterGetSeqno(w)
      BY <2>1, <2>4, BelowMaxSeq DEF S!EnterGetSeqno, GetSeqno
    <3> QED
      BY <3>1 DEF S!Next
  <2>5. CASE line[w] > 1 /\ \E f \in Fields :
               c = [fn |-> "set_value", index |-> num[w], field |-> f,
                    value |-> Text]
    <3>1. S!EnterSetValue(w)
      BY <2>1, <2>2, <2>3, <2>5, Zenon DEF S!EnterSetValue
    <3> QED
      BY <3>1 DEF S!Next
  <2>6. CASE line[w] > 1 /\ \E f \in Fields :
               c = [fn |-> "get_value", index |-> num[w], field |-> f]
    <3>1. S!EnterGetValue(w)
      BY <2>1, <2>2, <2>6, Zenon DEF S!EnterGetValue
    <3> QED
      BY <3>1 DEF S!Next
  <2>7. CASE line[w] > 1 /\ c = [fn |-> "cls_seqno", index |-> num[w]]
    <3>1. S!EnterClsSeqno(w)
      BY <2>1, <2>2, <2>7 DEF S!EnterClsSeqno
    <3> QED
      BY <3>1 DEF S!Next
  <2> HIDE DEF c
  <2>8. Len(MainLua) > 1 /\ (line[w] > 2 => line[w] > 1)
    BY <2>1, FieldsAre, ScriptShape
  <2> QED
    BY <2>1, <2>4, <2>5, <2>6, <2>7, <2>8, MadeIs DEF c
<1>3. ASSUME NEW w \in Workers, Lock(w) \/ CallReturns(w) PROVE S!Next
  BY <1>3 DEF Lock, CallReturns, S!Next
<1>4. ASSUME NEW w \in Workers, ScriptReturns(w) \/ ScriptFails(w) \/ CallRaises(w)
      PROVE  S!Next
  BY <1>4 DEF ScriptReturns, ScriptFails, CallRaises, S!Next
<1>5. ASSUME NEW w \in Workers, ScriptPanics(w) \/ DealStep(w)
      PROVE  UNCHANGED S!vars
  BY <1>5 DEF ScriptPanics, DealStep, storeVars, S!vars
<1> QED
  BY <1>1, <1>2, <1>3, <1>4, <1>5 DEF Next, Thread

\* A step of the store is a step of what SessionStoreProofs is about.
LEMMA SameStep == [S!Next]_(S!vars) => [P!Next]_(P!vars)
<1> SUFFICES ASSUME S!Next PROVE P!Next
  BY DEF S!vars, P!vars
<1>1. PICK w \in Workers :
        \/ S!EnterGetSeqno(w) \/ S!EnterClsSeqno(w) \/ S!EnterGetValue(w)
        \/ S!EnterSetValue(w) \/ S!Acquire(w)
        \/ S!PopSeqno(w) \/ S!NextSeqno(w) \/ S!ClsSeqno(w)
        \/ S!GetValue(w) \/ S!GetValueRaises(w) \/ S!SetValue(w)
        \/ S!Abandon(w)
  BY DEF S!Next
<1>2. S!EnterGetSeqno(w) => P!EnterGetSeqno(w)
  BY Zenon DEF S!EnterGetSeqno, P!EnterGetSeqno, S!Enter, P!Enter
<1>3. S!EnterClsSeqno(w) => P!EnterClsSeqno(w)
  BY Zenon DEF S!EnterClsSeqno, P!EnterClsSeqno, S!Args, P!Args, S!Enter, P!Enter
<1>4. S!EnterGetValue(w) => P!EnterGetValue(w)
  BY Zenon DEF S!EnterGetValue, P!EnterGetValue, S!Args, P!Args, S!Enter, P!Enter
<1>5. S!EnterSetValue(w) => P!EnterSetValue(w)
  BY Zenon DEF S!EnterSetValue, P!EnterSetValue, S!Args, P!Args, S!Enter, P!Enter,
     S!Texts, P!Texts
<1>6. S!Acquire(w) => P!Acquire(w)
  BY Zenon DEF S!Acquire, P!Acquire
<1>7. S!PopSeqno(w) => P!PopSeqno(w)
  BY Zenon DEF S!PopSeqno, P!PopSeqno, S!Inside, P!Inside, S!Put, P!Put,
     S!Blank, P!Blank, S!Leave, P!Leave, S!Return, P!Return, S!NoCall, P!NoCall
<1>8. S!NextSeqno(w) => P!NextSeqno(w)
  BY Zenon DEF S!NextSeqno, P!NextSeqno, S!Inside, P!Inside, S!Put, P!Put,
     S!Blank, P!Blank, S!Leave, P!Leave, S!Return, P!Return, S!NoCall, P!NoCall
<1>9. S!ClsSeqno(w) => P!ClsSeqno(w)
  BY Zenon DEF S!ClsSeqno, P!ClsSeqno, S!Inside, P!Inside, S!Drop, P!Drop,
     S!Leave, P!Leave, S!Return, P!Return, S!NoCall, P!NoCall
<1>10. S!GetValue(w) => P!GetValue(w)
  BY Zenon DEF S!GetValue, P!GetValue, S!Inside, P!Inside, S!Put, P!Put,
     S!NodeAt, P!NodeAt, S!NewNode, P!NewNode, S!Blank, P!Blank,
     S!Leave, P!Leave, S!Return, P!Return, S!NoCall, P!NoCall
<1>11. S!GetValueRaises(w) => P!GetValueRaises(w)
  BY Zenon DEF S!GetValueRaises, P!GetValueRaises, S!Inside, P!Inside, S!Put, P!Put,
     S!NodeAt, P!NodeAt, S!NewNode, P!NewNode, S!Blank, P!Blank, S!NoNumbers,
     P!NoNumbers, S!Return, P!Return, S!NoCall, P!NoCall
<1>12. S!SetValue(w) => P!SetValue(w)
  BY Zenon DEF S!SetValue, P!SetValue, S!Inside, P!Inside, S!Put, P!Put,
     S!NodeAt, P!NodeAt, S!NewNode, P!NewNode, S!Blank, P!Blank,
     S!Leave, P!Leave, S!Return, P!Return, S!NoCall, P!NoCall
<1>13. S!Abandon(w) => P!Abandon(w)
  BY Zenon DEF S!Abandon, P!Abandon, S!NoNumbers, P!NoNumbers, S!Blank, P!Blank
<1> QED
  BY <1>1, <1>2, <1>3, <1>4, <1>5, <1>6, <1>7, <1>8, <1>9, <1>10, <1>11,
     <1>12, <1>13 DEF P!Next

-----------------------------------------------------------------------------
(***************************************************************************)
(* The frame's own conjuncts of the invariant, one kind of step at a time. *)
(***************************************************************************)
\* What the store's proofs give for the types of its variables.
LEMMA StoreTypes ==
  ASSUME FrameInv
  PROVE  /\ stseq \in Seq(Nat \ {0}) /\ Len(stseq) \in Nat \ {0}
         /\ DOMAIN stseq = 1..Len(stseq) /\ stseq[1] \in Nat \ {0}
         /\ DOMAIN pc = Workers /\ DOMAIN call = Workers /\ DOMAIN held = Workers
         /\ \A w \in Workers : pc[w] \in {"script", "wait", "crit"}
  BY DEF FrameInv, P!TypeInv, P!TypeOK, P!StackNeverEmpty

\* What the invariant says of one thread's session, by its line of main.lua.
LEMMA SessionIs ==
  ASSUME FrameInv, NEW w \in Workers
  PROVE  /\ Len(MainLua) \in Nat /\ Len(MainLua) >= 4
         /\ line[w] \in 1..(Len(MainLua) + 1)
         /\ pc[w] # "script" => /\ line[w] \in 1..Len(MainLua)
                               /\ call[w] = Made(w)
                               /\ place[w] = "main"
         /\ line[w] \in 2..Len(MainLua) => DOMAIN held[w] = {num[w]}
         /\ line[w] \notin 2..Len(MainLua) => DOMAIN held[w] = {}
         /\ line[w] \in 3..Len(MainLua) => num[w] \in DOMAIN mapVal
<1>1. Len(MainLua) \in Nat /\ Len(MainLua) >= 4
  BY FieldsAre, ScriptShape
<1>2. line[w] \in 1..(Len(MainLua) + 1)
  BY DEF FrameInv, FrameOK
<1>3. Session(w)
  BY DEF FrameInv, SessionInv
<1>4. pc[w] # "script" => line[w] <= Len(MainLua) /\ call[w] = Made(w)
  BY <1>3 DEF Session
<1>5. pc[w] # "script" => line[w] \in 1..Len(MainLua)
  BY <1>1, <1>2, <1>4
<1>6. pc[w] # "script" => place[w] = "main"
  BY <1>3 DEF Session
<1>7. /\ line[w] \in 2..Len(MainLua) => DOMAIN held[w] = {num[w]}
      /\ line[w] \notin 2..Len(MainLua) => DOMAIN held[w] = {}
      /\ line[w] \in 3..Len(MainLua) => num[w] \in DOMAIN mapVal
  BY <1>3 DEF Session
<1> QED
  BY <1>1, <1>2, <1>4, <1>5, <1>6, <1>7

\* Only numbers that were handed out can be lost: a finite set.
LEMMA LostFinite ==
  ASSUME FrameInv
  PROVE  IsFiniteSet(Lost) /\ Cardinality(Lost) \in Nat
<1>1. IsFiniteSet(1..(stseq[1] - 1))
  BY StoreTypes, FS_Interval
<1>2. Lost \in SUBSET (1..(stseq[1] - 1))
  BY DEF Lost
<1> QED
  BY <1>1, <1>2, FS_Subset, FS_CardinalityType

\* A step of one thread leaves the sessions of the others as they are, when it
\* takes no node from under their numbers.
LEMMA OthersStay ==
  ASSUME SessionInv, NEW w \in Workers, Session(w)',
         ASSUME NEW u \in Workers \ {w}
         PROVE  /\ place'[u] = place[u] /\ line'[u] = line[u]
                /\ num'[u] = num[u] /\ pc'[u] = pc[u]
                /\ call'[u] = call[u] /\ held'[u] = held[u]
                /\ line[u] \in 3..Len(MainLua) /\ num[u] \in DOMAIN mapVal
                     => num[u] \in DOMAIN mapVal'
  PROVE  SessionInv'
<1>1. ASSUME NEW u \in Workers \ {w} PROVE Session(u)'
  <2>1. Made(u)' = Made(u)
    BY DEF Made
  <2> QED
    BY <2>1 DEF SessionInv, Session
<1> QED
  BY <1>1 DEF SessionInv

\* What is on the stack, and what is held, is all that Lost looks at.
LEMMA SameLost ==
  ASSUME stseq' = stseq, \A w \in Workers : DOMAIN held'[w] = DOMAIN held[w]
  PROVE  Lost' = Lost
  BY DEF Lost

\* Steps of deal() outside the script's main function, of the main thread and
\* of the signals: no thread leaves the main function.
LEMMA QuietKeeps ==
  ASSUME FrameInv, UNCHANGED <<storeVars, scriptVars>>,
         place' \in [Workers -> D!Places],
         \A w \in Workers : place[w] = "main" => place'[w] = "main"
  PROVE  FrameOK' /\ SessionInv' /\ LossInv' /\ NumbersBounded'
<1>1. FrameOK'
  BY DEF FrameInv, FrameOK, storeVars, scriptVars
<1>2. \A w \in Workers : Made(w)' = Made(w)
  BY DEF Made, scriptVars
<1>3. SessionInv'
  BY <1>2 DEF FrameInv, SessionInv, Session, storeVars, scriptVars
<1>4. Lost' = Lost
  BY SameLost DEF storeVars
<1> QED
  BY <1>1, <1>3, <1>4 DEF FrameInv, LossInv, NumbersBounded, storeVars, scriptVars

\* A call comes in, or gets the mutex.
LEMMA ArrivalKeeps ==
  ASSUME FrameInv, NEW w \in Workers, Call(w) \/ Lock(w)
  PROVE  FrameOK' /\ SessionInv' /\ LossInv' /\ NumbersBounded'
<1>1. /\ UNCHANGED <<dealVars, scriptVars, stseq, mapVal, seqno, held>>
      /\ \A u \in Workers \ {w} : pc'[u] = pc[u] /\ call'[u] = call[u]
  BY StoreTypes DEF Call, Lock, S!Enter, S!Acquire
<1>2. Lost' = Lost
  BY <1>1, SameLost
<1>3. FrameOK' /\ LossInv' /\ NumbersBounded'
  BY <1>1, <1>2 DEF FrameInv, FrameOK, LossInv, NumbersBounded, dealVars, scriptVars
<1>4. Made(w)' = Made(w)
  BY <1>1 DEF Made, scriptVars
<1>5. place[w] = "main" /\ line[w] <= Len(MainLua) /\ call'[w] = Made(w)
  <2>1. CASE Call(w)
    BY <2>1, StoreTypes, CallIs DEF Call, InScript, S!Enter
  <2>2. CASE Lock(w)
    BY <2>2, StoreTypes DEF Lock, S!Acquire, FrameInv, SessionInv, Session
  <2> QED
    BY <2>1, <2>2
<1>6. Session(w)'
  BY <1>1, <1>4, <1>5 DEF FrameInv, SessionInv, Session, dealVars, scriptVars
<1>7. SessionInv
  BY DEF FrameInv
<1>8. SessionInv'
  BY <1>1, <1>6, <1>7, OthersStay DEF dealVars, scriptVars
<1> QED
  BY <1>3, <1>8

\* set_value and get_value: the number keeps, or gets, its node.
LEMMA UseKeeps ==
  ASSUME FrameInv, NEW w \in Workers, CallReturns(w),
         S!SetValue(w) \/ S!GetValue(w)
  PROVE  FrameOK' /\ SessionInv' /\ LossInv' /\ NumbersBounded'
<1>1. line[w] \in 1..Len(MainLua) /\ call[w] = Made(w) /\ place[w] = "main"
  BY SessionIs DEF S!SetValue, S!GetValue, S!Inside
<1>2. /\ line[w] > 1 /\ line[w] < Len(MainLua)
      /\ call[w].index = num[w]
  BY <1>1, MadeIs DEF S!SetValue, S!GetValue, S!Inside, GetSeqno
<1>3. /\ UNCHANGED <<dealVars, failures, stseq, seqno>>
      /\ num' = num
      /\ line' = [line EXCEPT ![w] = line[w] + 1]
      /\ pc' = [pc EXCEPT ![w] = "script"]
      /\ DOMAIN mapVal' = DOMAIN mapVal \cup {num[w]}
  <2>1. num' = num
    BY DEF CallReturns, S!SetValue, S!GetValue, S!PopSeqno, S!Inside
  <2> QED
    BY <1>2, <2>1 DEF CallReturns, S!SetValue, S!GetValue, S!Leave, S!Return, S!Put
<1>4. /\ DOMAIN held[w] = {num[w]}
      /\ \A u \in Workers : DOMAIN held'[u] = DOMAIN held[u]
      /\ \A u \in Workers \ {w} : held'[u] = held[u] /\ call'[u] = call[u]
  <2>1. DOMAIN held[w] = {num[w]}
    <3>1. line[w] \in 2..Len(MainLua)
      BY <1>1, <1>2, SessionIs
    <3> QED
      BY <3>1, SessionIs
  <2>2. CASE S!GetValue(w)
    BY <2>1, <2>2, StoreTypes DEF S!GetValue, S!Leave, S!Return
  <2>3. CASE S!SetValue(w)
    BY <1>2, <2>1, <2>3, StoreTypes DEF S!SetValue, S!Put, S!Leave, S!Return
  <2> QED
    BY <2>1, <2>2, <2>3
<1>5. Lost' = Lost
  BY <1>3, <1>4, SameLost
<1>6. FrameOK' /\ LossInv' /\ NumbersBounded'
  BY <1>1, <1>2, <1>3, <1>5, FieldsAre, ScriptShape
  DEF FrameInv, FrameOK, LossInv, NumbersBounded, dealVars
<1>7. line'[w] = line[w] + 1 /\ line'[w] \in 3..Len(MainLua) /\ pc'[w] = "script"
  BY <1>1, <1>2, <1>3, StoreTypes, FieldsAre, ScriptShape DEF FrameInv, FrameOK
<1>8. Session(w)'
  <2>1. place'[w] = "main" /\ num'[w] = num[w] /\ num[w] \in DOMAIN mapVal'
    BY <1>1, <1>3 DEF dealVars
  <2>2. line'[w] \in 2..Len(MainLua)
    BY <1>7
  <2> QED
    BY <1>4, <1>7, <2>1, <2>2 DEF Session
<1>9. ASSUME NEW u \in Workers \ {w}
      PROVE  /\ place'[u] = place[u] /\ line'[u] = line[u]
             /\ num'[u] = num[u] /\ pc'[u] = pc[u]
             /\ call'[u] = call[u] /\ held'[u] = held[u]
             /\ num[u] \in DOMAIN mapVal => num[u] \in DOMAIN mapVal'
  BY <1>3, <1>4, StoreTypes DEF dealVars, FrameInv, FrameOK
<1>10. SessionInv'
  BY <1>8, <1>9, OthersStay DEF FrameInv
<1> QED
  BY <1>6, <1>10

\* cls_seqno: the number goes back on the stack, for it has a node.
LEMMA CloseKeeps ==
  ASSUME FrameInv, NEW w \in Workers, CallReturns(w), S!ClsSeqno(w)
  PROVE  FrameOK' /\ SessionInv' /\ LossInv' /\ NumbersBounded'
<1>1. line[w] \in 1..Len(MainLua) /\ call[w] = Made(w) /\ place[w] = "main"
  BY SessionIs DEF S!ClsSeqno, S!Inside
<1>2. line[w] = Len(MainLua) /\ call[w].index = num[w]
  BY <1>1, MadeIs DEF S!ClsSeqno, S!Inside, GetSeqno
<1>3. Len(MainLua) \in Nat /\ Len(MainLua) >= 4
  BY SessionIs
<1>4. DOMAIN held[w] = {num[w]} /\ num[w] \in DOMAIN mapVal
  <2>1. line[w] \in 2..Len(MainLua) /\ line[w] \in 3..Len(MainLua)
    BY <1>2, <1>3
  <2> QED
    BY <2>1, SessionIs
<1>5. /\ UNCHANGED <<dealVars, failures, seqno>>
      /\ num' = num
      /\ line' = [line EXCEPT ![w] = line[w] + 1]
      /\ pc' = [pc EXCEPT ![w] = "script"]
      /\ call' = [call EXCEPT ![w] = S!NoCall]
      /\ stseq' = Append(stseq, num[w])
      /\ DOMAIN mapVal' = DOMAIN mapVal \ {num[w]}
      /\ held' = [held EXCEPT ![w] = S!Drop(held[w], num[w])]
  <2>1. num' = num
    BY DEF CallReturns, S!ClsSeqno, S!PopSeqno, S!Inside
  <2> QED
    BY <1>2, <1>4, <2>1 DEF CallReturns, S!ClsSeqno, S!Leave, S!Return, S!Drop
<1>6. DOMAIN held'[w] = {} /\ \A u \in Workers \ {w} : held'[u] = held[u]
  BY <1>4, <1>5, StoreTypes DEF S!Drop
<1>7. num[w] \in Nat \ {0}
  BY <1>4 DEF FrameInv, P!TypeInv, P!TypeOK
<1>8. /\ DOMAIN stseq' = 1..(Len(stseq) + 1)
      /\ \A i \in DOMAIN stseq : stseq'[i] = stseq[i]
      /\ stseq'[Len(stseq) + 1] = num[w]
      /\ 1 \in DOMAIN stseq
  BY <1>5, <1>7, StoreTypes
<1>9. Lost' \subseteq Lost
  <2> SUFFICES ASSUME NEW n \in Lost' PROVE n \in Lost
    OBVIOUS
  <2>1. /\ n \in 1..(stseq'[1] - 1)
        /\ \A i \in DOMAIN stseq' : stseq'[i] # n
        /\ \A u \in Workers : n \notin DOMAIN held'[u]
    BY DEF Lost
  <2>2. n # num[w]
    BY <1>8, <2>1, StoreTypes
  <2>3. \A i \in DOMAIN stseq : stseq[i] # n
    BY <1>8, <2>1, StoreTypes
  <2>4. \A u \in Workers : n \notin DOMAIN held[u]
    BY <1>4, <1>6, <2>1, <2>2
  <2>5. stseq'[1] = stseq[1]
    BY <1>8
  <2> QED
    BY <2>1, <2>3, <2>4, <2>5 DEF Lost
<1>10. LossInv'
  <2>1. Cardinality(Lost') <= Cardinality(Lost) /\ Cardinality(Lost') \in Nat
    BY <1>9, LostFinite, FS_Subset, FS_CardinalityType
  <2>2. Cardinality(Lost) <= failures /\ failures' = failures /\ failures \in Nat
    BY <1>5, SizesAre DEF FrameInv, LossInv, FrameOK
  <2> QED
    BY <2>1, <2>2, LostFinite DEF LossInv
<1>11. FrameOK' /\ NumbersBounded'
  BY <1>1, <1>2, <1>3, <1>5, <1>8 DEF FrameInv, FrameOK, NumbersBounded, dealVars
<1>12. line'[w] = Len(MainLua) + 1 /\ pc'[w] = "script"
  BY <1>2, <1>5, StoreTypes DEF FrameInv, FrameOK
<1>13. Session(w)'
  <2>1. place'[w] = "main"
    BY <1>1, <1>5 DEF dealVars
  <2>2. line'[w] \notin 2..Len(MainLua) /\ line'[w] \notin 3..Len(MainLua)
    BY <1>3, <1>12
  <2> QED
    BY <1>6, <1>12, <2>1, <2>2 DEF Session
<1>14. ASSUME NEW u \in Workers \ {w}
       PROVE  /\ place'[u] = place[u] /\ line'[u] = line[u]
              /\ num'[u] = num[u] /\ pc'[u] = pc[u]
              /\ call'[u] = call[u] /\ held'[u] = held[u]
              /\ line[u] \in 3..Len(MainLua) /\ num[u] \in DOMAIN mapVal
                   => num[u] \in DOMAIN mapVal'
  <2>1. line[u] \in 3..Len(MainLua) => num[u] # num[w]
    <3>1. line[u] \in 3..Len(MainLua) => DOMAIN held[u] = {num[u]}
      <4>1. line[u] \in 3..Len(MainLua) => line[u] \in 2..Len(MainLua)
        BY <1>3
      <4> QED
        BY <4>1, SessionIs
    <3>2. num[w] \notin DOMAIN held[u]
      BY <1>4 DEF FrameInv, P!StoreInv, P!HeldInv
    <3> QED
      BY <3>1, <3>2
  <2> QED
    BY <1>5, <1>6, <2>1, StoreTypes DEF dealVars, FrameInv, FrameOK
<1>15. SessionInv'
  BY <1>13, <1>14, OthersStay DEF FrameInv
<1> QED
  BY <1>10, <1>11, <1>15

\* The numbers of the threads other than w: no more than one for each.
LEMMA NumbersOfOthers ==
  ASSUME NEW w \in Workers
  PROVE  LET Nums == {num[u] : u \in Workers \ {w}} IN
           /\ IsFiniteSet(Nums)
           /\ Cardinality(Nums) \in Nat
           /\ Cardinality(Nums) <= Cardinality(Workers) - 1
<1> DEFINE Others == Workers \ {w}
           Nums == {num[u] : u \in Others}
           f == [u \in Others |-> num[u]]
<1>1. f \in Surjection(Others, Nums)
  BY DEF Surjection
<1>2. IsFiniteSet(Others) /\ Cardinality(Others) = Cardinality(Workers) - 1
  BY FrameAssumption, FS_RemoveElement
<1> HIDE DEF Others, Nums, f
<1>3. IsFiniteSet(Nums) /\ Cardinality(Nums) <= Cardinality(Others)
  BY <1>1, <1>2, FS_Surjection
<1>4. Cardinality(Nums) \in Nat
  BY <1>3, FS_CardinalityType
<1> QED
  BY <1>2, <1>3, <1>4 DEF Nums, Others

(***************************************************************************)
(* get_seqno.  When it empties the stack, every number below the one it    *)
(* takes is lost or held by another thread, and so the one it leaves on    *)
(* the stack is within the bound.                                          *)
(***************************************************************************)
LEMMA TakeKeeps ==
  ASSUME FrameInv, NEW w \in Workers, CallReturns(w), S!PopSeqno(w)
  PROVE  FrameOK' /\ SessionInv' /\ LossInv' /\ NumbersBounded'
<1> DEFINE top == stseq[Len(stseq)]
<1>1. line[w] \in 1..Len(MainLua) /\ call[w] = Made(w) /\ place[w] = "main"
  BY SessionIs DEF S!PopSeqno, S!Inside
<1>2. line[w] = 1
  BY <1>1, MadeIs DEF S!PopSeqno, S!Inside
<1>3. DOMAIN held[w] = {} /\ 2 \in 2..Len(MainLua) /\ 2 \in 1..(Len(MainLua) + 1)
  <2>1. 1 \notin 2..Len(MainLua) /\ 2 \in 2..Len(MainLua)
          /\ 2 \in 1..(Len(MainLua) + 1)
    BY SessionIs
  <2> QED
    BY <1>2, <2>1, SessionIs
<1>4. top \in Nat \ {0}
  BY StoreTypes
<1>5. /\ UNCHANGED <<dealVars, failures, mapVal, seqno>>
      /\ num' = [num EXCEPT ![w] = top]
      /\ line' = [line EXCEPT ![w] = line[w] + 1]
      /\ pc' = [pc EXCEPT ![w] = "script"]
      /\ call' = [call EXCEPT ![w] = S!NoCall]
      /\ held' = [held EXCEPT ![w] = S!Put(held[w], top, S!Blank)]
      /\ stseq' = IF Len(stseq) = 1
                  THEN <<top + 1>>
                  ELSE SubSeq(stseq, 1, Len(stseq) - 1)
  <2>1. num' = [num EXCEPT ![w] = top]
    BY DEF CallReturns, S!PopSeqno, S!SetValue, S!GetValue, S!ClsSeqno, S!Inside
  <2> QED
    BY <2>1 DEF CallReturns, S!PopSeqno, S!Leave, S!Return
<1> HIDE DEF top
<1>6. DOMAIN held'[w] = {top} /\ \A u \in Workers \ {w} : held'[u] = held[u]
  BY <1>3, <1>5, StoreTypes DEF S!Put
<1>7. /\ line'[w] = 2 /\ num'[w] = top /\ pc'[w] = "script" /\ place'[w] = "main"
  BY <1>1, <1>2, <1>5, StoreTypes DEF FrameInv, FrameOK, dealVars
<1>8. Session(w)'
  <2>1. 2 \notin 3..Len(MainLua)
    OBVIOUS
  <2> QED
    BY <1>3, <1>6, <1>7, <2>1 DEF Session
<1>9. ASSUME NEW u \in Workers \ {w}
      PROVE  /\ place'[u] = place[u] /\ line'[u] = line[u]
             /\ num'[u] = num[u] /\ pc'[u] = pc[u]
             /\ call'[u] = call[u] /\ held'[u] = held[u]
             /\ num[u] \in DOMAIN mapVal => num[u] \in DOMAIN mapVal'
  BY <1>5, <1>6, StoreTypes DEF dealVars, FrameInv, FrameOK
<1>10. SessionInv'
  BY <1>8, <1>9, OthersStay DEF FrameInv
<1>11. FrameOK'
  BY <1>2, <1>3, <1>4, <1>5 DEF FrameInv, FrameOK, dealVars
<1>12. \A u \in Workers : DOMAIN held[u] \subseteq DOMAIN held'[u]
  BY <1>3, <1>6
<1>13. Lost' \subseteq Lost
  <2> SUFFICES ASSUME NEW n \in Lost' PROVE n \in Lost
    OBVIOUS
  <2>1. /\ n \in 1..(stseq'[1] - 1)
        /\ \A i \in DOMAIN stseq' : stseq'[i] # n
        /\ \A u \in Workers : n \notin DOMAIN held'[u]
    BY DEF Lost
  <2>2. n # top /\ \A u \in Workers : n \notin DOMAIN held[u]
    BY <1>6, <1>12, <2>1
  <2>3. CASE Len(stseq) = 1
    <3>1. stseq' = <<top + 1>> /\ top = stseq[1]
      BY <1>5, <2>3 DEF top
    <3>2. n \in 1..(stseq[1] - 1)
      BY <1>4, <2>1, <2>2, <3>1
    <3>3. \A i \in DOMAIN stseq : stseq[i] # n
      BY <2>2, <2>3, <3>1, StoreTypes
    <3> QED
      BY <2>2, <3>2, <3>3 DEF Lost
  <2>4. CASE Len(stseq) # 1
    <3>1. /\ DOMAIN stseq' = 1..(Len(stseq) - 1)
          /\ 1 \in DOMAIN stseq'
          /\ \A i \in DOMAIN stseq' : stseq'[i] = stseq[i]
      BY <1>5, <2>4, StoreTypes
    <3>2. \A i \in DOMAIN stseq : stseq[i] # n
      BY <2>1, <2>2, <3>1, StoreTypes DEF top
    <3> QED
      BY <2>1, <2>2, <3>1, <3>2 DEF Lost
  <2> QED
    BY <2>3, <2>4
<1>14. LossInv'
  <2>1. Cardinality(Lost') <= Cardinality(Lost) /\ Cardinality(Lost') \in Nat
    BY <1>13, LostFinite, FS_Subset, FS_CardinalityType
  <2>2. Cardinality(Lost) <= failures /\ failures' = failures /\ failures \in Nat
    BY <1>5, SizesAre DEF FrameInv, LossInv, FrameOK
  <2> QED
    BY <2>1, <2>2, LostFinite DEF LossInv
<1>15. NumbersBounded'
  <2>1. CASE Len(stseq) = 1
    <3> DEFINE Nums == {num[u] : u \in Workers \ {w}}
               Below == 1..(top - 1)
    <3>1. stseq' = <<top + 1>> /\ top = stseq[1]
      BY <1>5, <2>1 DEF top
    <3>2. ASSUME NEW n \in Below, n \notin Lost PROVE n \in Nums
      <4>1. \A i \in DOMAIN stseq : stseq[i] # n
        BY <1>4, <2>1, <3>1, StoreTypes
      <4>2. PICK u \in Workers : n \in DOMAIN held[u]
        BY <3>1, <3>2, <4>1 DEF Lost
      <4>3. u # w /\ n = num[u]
        BY <1>3, <4>2, SessionIs
      <4> QED
        BY <4>3
    <3>3. IsFiniteSet(Nums) /\ Cardinality(Nums) \in Nat
            /\ Cardinality(Nums) <= Cardinality(Workers) - 1
      BY NumbersOfOthers
    <3> HIDE DEF Nums
    <3>4. Below \in SUBSET (Lost \cup Nums)
      BY <3>2
    <3>5. IsFiniteSet(Below) /\ Cardinality(Below) = top - 1
      BY <1>4, FS_Interval
    <3> HIDE DEF Below
    <3>6. /\ IsFiniteSet(Lost \cup Nums)
          /\ Cardinality(Lost \cup Nums) =
               Cardinality(Lost) + Cardinality(Nums) - Cardinality(Lost \cap Nums)
      BY <3>3, LostFinite, FS_Union
    <3>7. Cardinality(Lost \cap Nums) \in Nat
      BY LostFinite, FS_Intersection, FS_CardinalityType
    <3>8. Cardinality(Below) <= Cardinality(Lost \cup Nums)
      BY <3>4, <3>6, FS_Subset
    <3>9. Cardinality(Lost) <= failures /\ failures \in Nat /\ failures' = failures
      BY <1>5, SizesAre DEF FrameInv, LossInv, FrameOK
    <3>10. top + 1 <= 1 + Cardinality(Workers) + failures
      BY <1>4, <3>3, <3>5, <3>6, <3>7, <3>8, <3>9, LostFinite, SizesAre
    <3> QED
      BY <3>1, <3>9, <3>10 DEF NumbersBounded
  <2>2. CASE Len(stseq) # 1
    <3>1. stseq'[1] = stseq[1]
      BY <1>5, <2>2, StoreTypes
    <3> QED
      BY <1>5, <3>1 DEF FrameInv, NumbersBounded
  <2> QED
    BY <2>1, <2>2
<1> QED
  BY <1>10, <1>11, <1>14, <1>15

(***************************************************************************)
(* main() ends, by returning or by an error: a failure loses at most the   *)
(* one number its script held, a return loses none.                        *)
(***************************************************************************)
LEMMA EndKeeps ==
  ASSUME FrameInv, NEW w \in Workers,
         ScriptReturns(w) \/ ScriptFails(w) \/ CallRaises(w)
  PROVE  FrameOK' /\ SessionInv' /\ LossInv' /\ NumbersBounded'
<1>1. /\ stseq' = stseq /\ seqno' = seqno /\ num' = num
      /\ line' = [line EXCEPT ![w] = 1]
      /\ held' = [held EXCEPT ![w] = S!NoNumbers]
      /\ \E b \in {"loop", "sleep"} : place' = [place EXCEPT ![w] = b]
  BY DEF ScriptReturns, ScriptFails, CallRaises, D!MainReturns, D!MainFails,
         D!Go, S!Abandon, S!GetValueRaises
<1>2. /\ pc'[w] = "script"
      /\ \A u \in Workers \ {w} : call'[u] = call[u] /\ pc'[u] = pc[u]
  BY StoreTypes
  DEF ScriptReturns, ScriptFails, CallRaises, S!Abandon, S!GetValueRaises, S!Return
<1>3. DOMAIN mapVal \subseteq DOMAIN mapVal'
  BY DEF ScriptReturns, ScriptFails, CallRaises, S!Abandon, S!GetValueRaises, S!Put
<1>4. /\ failures' \in 0..MaxFailures
      /\ failures' = failures \/ failures' = failures + 1
      /\ failures' = failures => DOMAIN held[w] = {}
  <2>1. CASE ScriptReturns(w)
    <3>1. line[w] \notin 2..Len(MainLua)
      BY <2>1, SessionIs DEF ScriptReturns
    <3> QED
      BY <2>1, <3>1, SessionIs DEF ScriptReturns, FrameInv, FrameOK
  <2>2. CASE ScriptFails(w) \/ CallRaises(w)
    BY <2>2, SizesAre DEF ScriptFails, CallRaises, FrameInv, FrameOK
  <2> QED
    BY <2>1, <2>2
<1>5. DOMAIN held'[w] = {} /\ \A u \in Workers \ {w} : held'[u] = held[u]
  BY <1>1, StoreTypes DEF S!NoNumbers
<1>6. FrameOK'
  <2>1. 1 \in 1..(Len(MainLua) + 1)
    BY SessionIs
  <2> QED
    BY <1>1, <1>4, <2>1 DEF FrameInv, FrameOK, D!Places
<1>7. Session(w)'
  <2>1. 1 \notin 2..Len(MainLua) /\ 1 \notin 3..Len(MainLua)
    OBVIOUS
  <2>2. line'[w] = 1 /\ pc'[w] = "script"
    BY <1>1, <1>2 DEF FrameInv, FrameOK
  <2> QED
    BY <1>5, <2>1, <2>2 DEF Session
<1>8. ASSUME NEW u \in Workers \ {w}
      PROVE  /\ place'[u] = place[u] /\ line'[u] = line[u]
             /\ num'[u] = num[u] /\ pc'[u] = pc[u]
             /\ call'[u] = call[u] /\ held'[u] = held[u]
             /\ num[u] \in DOMAIN mapVal => num[u] \in DOMAIN mapVal'
  BY <1>1, <1>2, <1>3, <1>5, StoreTypes DEF FrameInv, FrameOK
<1>9. SessionInv'
  BY <1>7, <1>8, OthersStay DEF FrameInv
<1>10. DOMAIN held[w] \subseteq {num[w]}
  BY SessionIs
<1>11. CASE failures' = failures
  <2>1. \A u \in Workers : DOMAIN held'[u] = DOMAIN held[u]
    BY <1>4, <1>5, <1>11
  <2>2. Lost' = Lost
    BY <1>1, <2>1, SameLost
  <2> QED
    BY <1>1, <1>6, <1>9, <1>11, <2>2 DEF FrameInv, LossInv, NumbersBounded
<1>12. CASE failures' = failures + 1
  <2>1. Lost' \subseteq Lost \cup {num[w]}
    BY <1>1, <1>5, <1>10 DEF Lost
  <2>2. /\ IsFiniteSet(Lost \cup {num[w]})
        /\ Cardinality(Lost \cup {num[w]}) \in Nat
        /\ Cardinality(Lost \cup {num[w]}) <= Cardinality(Lost) + 1
    <3>1. IsFiniteSet(Lost \cup {num[w]})
            /\ Cardinality(Lost \cup {num[w]}) =
                 IF num[w] \in Lost THEN Cardinality(Lost) ELSE Cardinality(Lost) + 1
      BY LostFinite, FS_AddElement
    <3> QED
      BY <3>1, LostFinite
  <2>3. /\ Cardinality(Lost') \in Nat
        /\ Cardinality(Lost') <= Cardinality(Lost \cup {num[w]})
    BY <2>1, <2>2, FS_Subset, FS_CardinalityType
  <2>4. Cardinality(Lost) <= failures /\ failures \in Nat
    BY SizesAre DEF FrameInv, LossInv, FrameOK
  <2>5. LossInv'
    BY <1>12, <2>2, <2>3, <2>4, LostFinite DEF LossInv
  <2>6. NumbersBounded'
    BY <1>1, <1>12, <2>4, SizesAre, StoreTypes DEF FrameInv, NumbersBounded
  <2> QED
    BY <1>6, <1>9, <2>5, <2>6
<1> QED
  BY <1>4, <1>11, <1>12

-----------------------------------------------------------------------------
\* Where the steps of deal() outside the script's main function lead.
LEMMA QuietSteps ==
  ASSUME FrameInv, Outside \/ \E w \in Workers : ScriptPanics(w) \/ DealStep(w)
  PROVE  /\ UNCHANGED <<storeVars, scriptVars>>
         /\ place' \in [Workers -> D!Places]
         /\ \A w \in Workers : place[w] = "main" => place'[w] = "main"
<1> USE DEF FrameInv, FrameOK
<1>1. CASE Outside
  BY <1>1 DEF Outside, D!Joined, D!Edit, D!Usr1, D!TermExit, D!TermUpdate, D!Create,
              D!Go, D!Places
<1>2. ASSUME NEW w \in Workers, ScriptPanics(w)
      PROVE  UNCHANGED <<storeVars, scriptVars>> /\ place' = place
  BY <1>2 DEF ScriptPanics, D!Panics
<1>3. ASSUME NEW w \in Workers, DealStep(w)
      PROVE  /\ UNCHANGED <<storeVars, scriptVars>>
             /\ place[w] # "main"
             /\ \E b \in D!Places : place' = [place EXCEPT ![w] = b]
  BY <1>3 DEF DealStep, D!CheckExit, D!Load, D!LoadFails, D!RunChunk, D!ChunkFails,
      D!RunInit, D!ResetUpdate, D!Poll, D!Sleep, D!Clear, D!Go, D!Places, D!Window
<1> QED
  BY <1>1, <1>2, <1>3

LEMMA FrameInvNext == FrameInv /\ [Next]_vars => FrameInv'
<1> SUFFICES ASSUME FrameInv, [Next]_vars PROVE FrameInv'
  OBVIOUS
<1>1. P!TypeInv' /\ P!StoreInv'
  <2>1. [P!Next]_(P!vars)
    BY StoreStepIs, SameStep
  <2> QED
    BY <2>1, StoreAssumed, P!TypeInvNext, P!StoreInvNext DEF FrameInv
<1>2. FrameOK' /\ SessionInv' /\ LossInv' /\ NumbersBounded'
  <2>1. CASE UNCHANGED vars
    BY <2>1, QuietKeeps DEF vars, dealVars, FrameInv, FrameOK
  <2>2. CASE Outside \/ \E w \in Workers : ScriptPanics(w) \/ DealStep(w)
    BY <2>2, QuietSteps, QuietKeeps
  <2>3. CASE \E w \in Workers : Call(w) \/ Lock(w)
    BY <2>3, ArrivalKeeps
  <2>4. CASE \E w \in Workers : CallReturns(w)
    <3>1. PICK w \in Workers : CallReturns(w)
      BY <2>4
    <3>2. S!PopSeqno(w) \/ S!SetValue(w) \/ S!GetValue(w) \/ S!ClsSeqno(w)
      BY <3>1 DEF CallReturns
    <3> QED
      BY <3>1, <3>2, TakeKeeps, UseKeeps, CloseKeeps
  <2>5. CASE \E w \in Workers : ScriptReturns(w) \/ ScriptFails(w) \/ CallRaises(w)
    BY <2>5, EndKeeps
  <2> QED
    BY <2>1, <2>2, <2>3, <2>4, <2>5 DEF Next, Thread
<1> QED
  BY <1>1, <1>2 DEF FrameInv

LEMMA FrameInvAlways == Spec => []FrameInv
  BY FrameInvInit, FrameInvNext, PTL DEF Spec

\* However many messages are handled and scripts reloaded, get_seqno hands out
\* at most one number per thread and one per failed main().
THEOREM NumbersAreRecycled == Spec => []NumbersBounded
<1>1. FrameInv => NumbersBounded
  BY DEF FrameInv
<1> QED
  BY <1>1, FrameInvAlways, PTL

\* main.lua's native calls, in every interleaving of the threads, are calls of
\* scripts that keep to the numbers get_seqno("stack") gave them.
THEOREM StoreIsImplemented == Spec => ImplementsStore
<1>1. Init => S!Init
  BY DEF Init
<1> QED
  BY <1>1, StoreStepIs, FrameInvAlways, PTL DEF Spec, ImplementsStore, S!Spec

\* So that what is proved of such scripts holds of main.lua: a message's
\* values are read back as they were stored, whatever other threads do.
THEOREM MessagesIsolated == Spec => []S!SessionIsolation
<1>1. FrameInv => S!SessionIsolation
  BY DEF FrameInv, P!StoreInv, P!SessionIsolation, P!NodeAt, P!NewNode, P!Blank,
         S!SessionIsolation, S!NodeAt, S!NewNode, S!Blank
<1> QED
  BY <1>1, FrameInvAlways, PTL

\* g_mapVal does not grow with the messages: but for the sessions that are
\* open, only failed calls of main() have left nodes in it.
THEOREM NodesDoNotPileUp == Spec => []NodesBounded
<1>1. FrameInv => NodesBounded
  <2> SUFFICES ASSUME FrameInv PROVE NodesBounded
    OBVIOUS
  <2> DEFINE Nums == {num[u] : u \in InSession}
             f == [u \in InSession |-> num[u]]
  <2>1. ASSUME NEW n \in DOMAIN mapVal, n \notin Lost PROVE n \in Nums
    <3>1. n \in 1..(stseq[1] - 1) /\ \A i \in DOMAIN stseq : stseq[i] # n
      BY StoreTypes DEF FrameInv, P!TypeInv, P!TypeOK, P!StoreInv, P!StackInv
    <3>2. PICK u \in Workers : n \in DOMAIN held[u]
      BY <2>1, <3>1 DEF Lost
    <3>3. n = num[u] /\ line[u] \in 2..Len(MainLua)
      BY <3>2, SessionIs
    <3>4. line[u] # 1
      BY <3>3
    <3>5. place[u] = "main"
      BY <3>4 DEF FrameInv, SessionInv, Session
    <3> QED
      BY <3>3, <3>5 DEF InSession
  <2>2. IsFiniteSet(InSession) /\ Cardinality(InSession) \in Nat
    <3>1. InSession \in SUBSET Workers
      BY DEF InSession
    <3> QED
      BY <3>1, FrameAssumption, FS_Subset, FS_CardinalityType
  <2>3. f \in Surjection(InSession, Nums)
    BY DEF Surjection
  <2>4. DOMAIN mapVal \in SUBSET (Lost \cup Nums)
    BY <2>1
  <2> HIDE DEF Nums, f
  <2>5. /\ IsFiniteSet(Nums) /\ Cardinality(Nums) \in Nat
        /\ Cardinality(Nums) <= Cardinality(InSession)
    BY <2>2, <2>3, FS_Surjection, FS_CardinalityType
  <2>6. /\ IsFiniteSet(Lost \cup Nums)
        /\ Cardinality(Lost \cup Nums) =
             Cardinality(Lost) + Cardinality(Nums) - Cardinality(Lost \cap Nums)
    BY <2>5, LostFinite, FS_Union
  <2>7. Cardinality(Lost \cap Nums) \in Nat
    BY LostFinite, FS_Intersection, FS_CardinalityType
  <2>8. /\ Cardinality(DOMAIN mapVal) <= Cardinality(Lost \cup Nums)
        /\ Cardinality(DOMAIN mapVal) \in Nat
    BY <2>4, <2>6, FS_Subset, FS_CardinalityType
  <2>9. Cardinality(Lost) <= failures /\ failures \in Nat
    BY SizesAre DEF FrameInv, LossInv, FrameOK
  <2> QED
    BY <2>2, <2>5, <2>6, <2>7, <2>8, <2>9, LostFinite DEF NodesBounded
<1> QED
  BY <1>1, FrameInvAlways, PTL
=============================================================================

--------------------------- MODULE MsgQueueProofs ---------------------------
(***************************************************************************)
(* Proofs about the message extension, for any number of callers, types,   *)
(* texts, limits and sizes of the machine's numbers, and for whatever      *)
(* other programs put into the queue.                                      *)
(***************************************************************************)
EXTENDS MsgQueue, FiniteSetTheorems, SequenceTheorems, WellFoundedInduction, TLAPS

\* The calls under way.  A send has a number of its own until it returns.
Sending(p) == pc[p] \in {"create_snd", "msgsnd"}

CallsInv ==
  /\ \A p \in Procs :
       /\ op[p].id # 0 <=> Sending(p)
       /\ op[p].id \in 0..calls
       /\ op[p].id \notin okd
       /\ op[p].len < MaxMsgLen
       /\ \A q \in Procs : op[p].id = op[q].id /\ op[p].id # 0 => p = q
  /\ okd \subseteq 1..calls

\* The messages in the queue: whoever sent them, mlen is a number of the
\* machine; the library's own are as long as they say, and enqueue's checks
\* let them pass.
QueueInv ==
  /\ ~exists => queue = <<>>
  /\ \A i \in DOMAIN queue :
       /\ queue[i].mlen < Word
       /\ queue[i].id # 0 => /\ queue[i].size = queue[i].mlen + LongSize
                             /\ queue[i].mlen < MaxMsgLen

\* SentAccounted, place by place.
Distinct(s) ==
  \A i, j \in DOMAIN s : s[i].id = s[j].id /\ s[i].id # 0 => i = j
PlacesInv ==
  /\ Distinct(queue) /\ Distinct(out) /\ Own(queue) \cap Own(out) = {}
  /\ okd = Own(queue) \cup Own(out) \cup lost \cup gone
  /\ (Own(queue) \cup Own(out)) \cap (lost \cup gone) = {}
  /\ lost \cap gone = {}

QInv == TypeOK /\ CallsInv /\ QueueInv /\ PlacesInv
-----------------------------------------------------------------------------
LEMMA AppendIs ==
  ASSUME NEW S, NEW q \in Seq(S), NEW m \in S
  PROVE  LET r == Append(q, m)
         IN  /\ r \in Seq(S)
             /\ Len(r) = Len(q) + 1
             /\ \A i \in 1..Len(q) : r[i] = q[i]
             /\ r[Len(q) + 1] = m
  OBVIOUS

LEMMA WithoutIs ==
  ASSUME NEW S, NEW q \in Seq(S), NEW k \in DOMAIN q
  PROVE  LET r == Without(q, k)
         IN  /\ r \in Seq(S)
             /\ Len(r) = Len(q) - 1
             /\ \A i \in 1..Len(r) : r[i] = IF i < k THEN q[i] ELSE q[i + 1]
<1> DEFINE a == SubSeq(q, 1, k - 1)
           b == SubSeq(q, k + 1, Len(q))
           r == a \o b
<1>1. k \in 1..Len(q)
  OBVIOUS
<1>2. a \in Seq(S) /\ Len(a) = k - 1 /\ \A i \in 1..(k - 1) : a[i] = q[i]
  BY <1>1
<1>3. b \in Seq(S) /\ Len(b) = Len(q) - k /\ \A i \in 1..(Len(q) - k) : b[i] = q[k + i]
  BY <1>1
<1>4. Without(q, k) = r
  BY DEF Without
<1> HIDE DEF a, b
<1>5. r \in Seq(S) /\ Len(r) = Len(q) - 1
  BY <1>1, <1>2, <1>3
<1>6. ASSUME NEW i \in 1..Len(r)
      PROVE  r[i] = IF i < k THEN q[i] ELSE q[i + 1]
  <2>1. i \in 1..(Len(a) + Len(b)) /\ r[i] = IF i <= Len(a) THEN a[i] ELSE b[i - Len(a)]
    BY <1>1, <1>2, <1>3, <1>5, ConcatProperties
  <2>2. CASE i < k
    BY <1>1, <1>2, <2>1, <2>2
  <2>3. CASE ~(i < k)
    <3>1. i - (k - 1) \in 1..(Len(q) - k) /\ k + (i - (k - 1)) = i + 1 /\ ~(i <= Len(a))
      BY <1>1, <1>2, <1>5, <2>3
    <3> QED
      BY <1>2, <1>3, <2>1, <2>3, <3>1
  <2> QED
    BY <2>2, <2>3
<1> HIDE DEF r
<1> QED
  BY <1>4, <1>5, <1>6

\* Which sends the messages of a sequence are of, when one is put behind it,
\* when one is taken out of it, and when it is put before another.
LEMMA OwnAppend ==
  ASSUME NEW q \in Seq(Messages), NEW m \in Messages
  PROVE  /\ Own(Append(q, m)) = Own(q) \cup ({m.id} \ {0})
         /\ Distinct(q) /\ m.id \notin Own(q) => Distinct(Append(q, m))
<1> DEFINE r == Append(q, m)
<1>1. /\ r \in Seq(Messages) /\ Len(r) = Len(q) + 1 /\ Len(q) \in Nat
      /\ \A i \in 1..Len(q) : r[i] = q[i]
      /\ r[Len(q) + 1] = m
  BY AppendIs
<1> HIDE DEF r
<1>2. DOMAIN q = 1..Len(q) /\ DOMAIN r = 1..(Len(q) + 1)
  BY <1>1
<1>3. \A i \in DOMAIN r : i = Len(q) + 1 \/ (i \in DOMAIN q /\ r[i] = q[i])
  BY <1>1, <1>2
<1>4. \A i \in DOMAIN q : i \in DOMAIN r /\ r[i] = q[i] /\ i # Len(q) + 1
  BY <1>1, <1>2
<1>5. Own(r) = Own(q) \cup ({m.id} \ {0})
  BY <1>1, <1>2, <1>3, <1>4 DEF Own
<1>6. Distinct(q) /\ m.id \notin Own(q) => Distinct(r)
  BY <1>1, <1>2, <1>3 DEF Own, Distinct
<1> QED
  BY <1>5, <1>6 DEF r

LEMMA OwnWithout ==
  ASSUME NEW q \in Seq(Messages), NEW k \in DOMAIN q, Distinct(q)
  PROVE  /\ Own(Without(q, k)) = Own(q) \ {q[k].id}
         /\ Distinct(Without(q, k))
<1> DEFINE r == Without(q, k)
<1>1. /\ r \in Seq(Messages) /\ Len(r) = Len(q) - 1 /\ Len(q) \in Nat
      /\ \A i \in 1..Len(r) : r[i] = IF i < k THEN q[i] ELSE q[i + 1]
  BY WithoutIs
<1> HIDE DEF r
<1>2. DOMAIN q = 1..Len(q) /\ DOMAIN r = 1..(Len(q) - 1) /\ k \in 1..Len(q)
  BY <1>1
<1> DEFINE at(i) == IF i < k THEN i ELSE i + 1
<1>3. \A i \in DOMAIN r : at(i) \in DOMAIN q /\ at(i) # k /\ r[i] = q[at(i)]
  BY <1>1, <1>2
<1>4. \A i \in DOMAIN q : i # k => \E j \in DOMAIN r : at(j) = i
  <2> SUFFICES ASSUME NEW i \in DOMAIN q, i # k PROVE \E j \in DOMAIN r : at(j) = i
    OBVIOUS
  <2>1. CASE i < k
    BY <1>1, <1>2, <2>1
  <2>2. CASE i > k
    <3>1. i - 1 \in DOMAIN r /\ at(i - 1) = i
      BY <1>1, <1>2, <2>2
    <3> QED
      BY <3>1
  <2> QED
    BY <1>1, <1>2, <2>1, <2>2
<1>5. \A i, j \in DOMAIN r : at(i) = at(j) => i = j
  BY <1>1, <1>2
<1> HIDE DEF at
<1>6. Distinct(r)
  BY <1>3, <1>5 DEF Distinct
<1>7. Own(r) \subseteq Own(q) \ {q[k].id}
  BY <1>3 DEF Own, Distinct
<1>8. Own(q) \ {q[k].id} \subseteq Own(r)
  <2> SUFFICES ASSUME NEW i \in DOMAIN q, q[i].id # 0, q[i].id # q[k].id
               PROVE  q[i].id \in Own(r)
    BY DEF Own
  <2>1. PICK j \in DOMAIN r : at(j) = i
    BY <1>4
  <2> QED
    BY <1>3, <2>1 DEF Own
<1> QED
  BY <1>6, <1>7, <1>8 DEF r
-----------------------------------------------------------------------------
\* A call that only returns an error: whatever makes it fail, nothing else
\* changes.
Fails(p) ==
  /\ \E ret \in {-1, -2} : Return(p, ret, 0)
  /\ UNCHANGED <<kernel, calls, foreign, history>>

\* The steps, with those that fail taken together.
LEMMA Steps ==
  ASSUME [Next]_vars
  PROVE  \/ \E p \in Procs, t \in SendTypes, len \in TextLens, b \in BOOLEAN :
              Send(p, t, len, b)
         \/ \E p \in Procs, t \in RecvTypes, b \in BOOLEAN : Recv(p, t, b)
         \/ \E p \in Procs : Fails(p)
         \/ \E p \in Procs : SendCreates(p)
         \/ \E p \in Procs : RecvCreates(p)
         \/ \E p \in Procs : Msgsnd(p)
         \/ \E p \in Procs : Msgrcv(p)
         \/ \E f \in Foreign, t \in SendTypes \cap (Nat \ {0}) : ForeignSend(f, t)
         \/ Remove
         \/ UNCHANGED vars
<1>1. ASSUME NEW p \in Procs,
             \/ \E len \in TextLens : SendTooLong(p, len)
             \/ CreateFails(p) \/ MsgsndFails(p) \/ MsgrcvFails(p) \/ Interrupted(p)
      PROVE  Fails(p)
  BY <1>1 DEF Fails, SendTooLong, CreateFails, MsgsndFails, MsgrcvFails, Interrupted
<1> QED
  BY <1>1 DEF Next, Begin, Proceed

\* What a call that begins puts into op, and the message a send puts into the
\* queue.
Ops == [id : 0..MaxSends, type : Int, len : Nat, nowait : BOOLEAN, found : Nat]

LEMMA NoOpIs == NoOp \in Ops /\ NoOp.id = 0 /\ NoOp.len = 0
  BY QueueAssumption DEF NoOp, Ops

SendOp(k, t, len, b, f) ==
  [[NoOp EXCEPT !.id = k, !.type = t, !.len = len, !.nowait = b] EXCEPT !.found = f]
RecvOp(t, b, f) ==
  [[NoOp EXCEPT !.type = t, !.nowait = b] EXCEPT !.found = f]

LEMMA SendOpIs ==
  ASSUME NEW k \in 0..MaxSends, NEW t \in Int, NEW len \in Nat, NEW b \in BOOLEAN,
         NEW f \in Nat
  PROVE  LET o == SendOp(k, t, len, b, f)
         IN  o \in Ops /\ o.id = k /\ o.len = len
<1> DEFINE o == [NoOp EXCEPT !.id = k, !.type = t, !.len = len, !.nowait = b]
<1>1. o \in Ops /\ o.id = k /\ o.len = len
  BY NoOpIs DEF Ops, NoOp
<1> HIDE DEF o
<1>2. LET x == [o EXCEPT !.found = f] IN x \in Ops /\ x.id = k /\ x.len = len
  BY <1>1 DEF Ops
<1> QED
  BY <1>2 DEF o, SendOp

LEMMA RecvOpIs ==
  ASSUME NEW t \in Int, NEW b \in BOOLEAN, NEW f \in Nat
  PROVE  LET o == RecvOp(t, b, f)
         IN  o \in Ops /\ o.id = 0 /\ o.len = 0
<1> DEFINE o == [NoOp EXCEPT !.type = t, !.nowait = b]
<1>1. o \in Ops /\ o.id = 0 /\ o.len = 0
  BY NoOpIs DEF Ops, NoOp
<1> HIDE DEF o
<1>2. LET x == [o EXCEPT !.found = f] IN x \in Ops /\ x.id = 0 /\ x.len = 0
  BY <1>1 DEF Ops
<1> QED
  BY <1>2 DEF o, RecvOp

LEMMA MessageIs ==
  ASSUME NEW k \in 0..MaxSends, NEW t \in Nat \ {0}, NEW size \in Nat, NEW mlen \in Nat
  PROVE  LET m == Message(k, t, size, mlen)
         IN  m \in Messages /\ m.id = k /\ m.type = t /\ m.size = size /\ m.mlen = mlen
  BY DEF Message, Messages

LEMMA NatLeast ==
  ASSUME NEW S \in SUBSET Nat, S # {}
  PROVE  \E k \in S : \A j \in S : k <= j
<1> DEFINE R == {ss \in Nat \X Nat : ss[1] < ss[2]}
<1>1. IsWellFoundedOn(R, Nat)
  BY NatLessThanWellFounded DEF OpToRel
<1>2. \A j, k \in Nat : <<j, k>> \notin R => k <= j
  OBVIOUS
<1> HIDE DEF R
<1>3. \E k \in S : \A j \in S : ~(<<j, k>> \in R)
  BY <1>1, WFMin
<1> QED
  BY <1>2, <1>3

\* The message msgrcv takes is in the queue.
LEMMA PickIs ==
  ASSUME queue \in Seq(Messages), NEW t \in Int, Pick(t) > 0
  PROVE  Pick(t) \in DOMAIN queue
<1> DEFINE C == Candidates(t)
           i == CHOOSE i \in C : \A j \in C : i <= j
<1>1. C \subseteq DOMAIN queue /\ C \in SUBSET Nat
  BY DEF Candidates
<1>2. Pick(t) = IF C = {} THEN 0 ELSE i
  BY DEF Pick
<1> HIDE DEF C
<1>4. C # {}
  BY <1>2
<1>5. \E k \in C : \A j \in C : k <= j
  BY <1>1, <1>4, NatLeast
<1>6. i \in C /\ \A j \in C : i <= j
  BY <1>5
<1> HIDE DEF i
<1> QED
  BY <1>1, <1>2, <1>4, <1>6
-----------------------------------------------------------------------------
LEMMA QInvInit == Init => QInv
<1> SUFFICES ASSUME Init PROVE QInv
  OBVIOUS
<1>1. NoOp \in Ops /\ NoOp.id = 0 /\ NoOp.len = 0
  BY NoOpIs
<1>2. \A p \in Procs : op[p] = NoOp /\ pc[p] = "idle"
  BY DEF Init
<1>3. op \in [Procs -> Ops]
  BY <1>1 DEF Init
<1>4. TypeOK
  <2>1. reply \in [Procs -> [ret : Int, len : Nat]]
    BY DEF Init
  <2>2. /\ msgid \in Nat /\ calls \in 0..MaxSends /\ foreign \in 0..MaxForeign
        /\ okd \subseteq 1..MaxSends /\ lost \subseteq okd /\ gone \subseteq okd
    BY QueueAssumption DEF Init
  <2>5. exists \in BOOLEAN
    BY DEF Init
  <2>4. queue \in Seq(Messages) /\ out \in Seq(Messages)
    BY EmptySeq DEF Init
  <2>3. pc \in [Procs -> {"idle", "create_snd", "msgsnd", "create_rcv", "msgrcv"}]
    BY DEF Init
  <2> QED
    BY <1>3, <2>1, <2>2, <2>3, <2>4, <2>5 DEF TypeOK, Ops
<1>5. CallsInv
  BY <1>1, <1>2, QueueAssumption DEF Init, CallsInv, Sending
<1>6. QueueInv /\ PlacesInv
  BY DEF Init, QueueInv, PlacesInv, Distinct, Own
<1> QED
  BY <1>4, <1>5, <1>6 DEF QInv

\* What a call that returns leaves behind.
LEMMA Returned ==
  ASSUME TypeOK, CallsInv, NEW p \in Procs, NEW ret \in Int, NEW len \in Nat,
         Return(p, ret, len)
  PROVE  /\ pc' \in [Procs -> {"idle", "create_snd", "msgsnd", "create_rcv", "msgrcv"}]
         /\ op' \in [Procs -> Ops]
         /\ reply' \in [Procs -> [ret : Int, len : Nat]]
         /\ pc'[p] = "idle" /\ op'[p].id = 0 /\ op'[p].len = 0
         /\ reply'[p].ret = ret /\ reply'[p].len = len
         /\ \A q \in Procs : q # p => /\ pc'[q] = pc[q]
                                      /\ op'[q] = op[q]
                                      /\ reply'[q] = reply[q]
<1> USE DEF TypeOK, Return
<1>1. op \in [Procs -> Ops]
  BY DEF Ops
<1>2. NoOp \in Ops /\ NoOp.id = 0 /\ NoOp.len = 0
  BY NoOpIs
<1>3. op' \in [Procs -> Ops] /\ op'[p] = NoOp
  BY <1>1, <1>2
<1>4. LET r == [ret |-> ret, len |-> len]
      IN  r \in [ret : Int, len : Nat] /\ reply' = [reply EXCEPT ![p] = r]
  OBVIOUS
<1> QED
  BY <1>2, <1>3, <1>4

\* When a call returns and its own send, if it is one, is added to those that
\* returned 0, the others are as before.
LEMMA ReturnKeepsCalls ==
  ASSUME TypeOK, CallsInv, NEW p \in Procs, NEW ret \in Int, NEW len \in Nat,
         Return(p, ret, len), UNCHANGED calls,
         \/ okd' = okd
         \/ op[p].id # 0 /\ okd' = okd \cup {op[p].id}
  PROVE  CallsInv'
<1>1. /\ pc'[p] = "idle" /\ op'[p].id = 0 /\ op'[p].len = 0
      /\ \A q \in Procs : q # p => pc'[q] = pc[q] /\ op'[q] = op[q]
  BY Returned
<1>2. calls \in Nat /\ MaxMsgLen > 0 /\ op[p].id \in 0..calls
  BY QueueAssumption DEF TypeOK, CallsInv
<1>3. okd' \subseteq 1..calls /\ okd \subseteq okd' /\ 0 \notin okd'
  <2>1. okd \subseteq 1..calls /\ 0 \notin okd
    BY <1>2 DEF CallsInv
  <2>2. op[p].id # 0 => op[p].id \in 1..calls
    BY <1>2
  <2> QED
    BY <2>1, <2>2
<1>4. ASSUME NEW q \in Procs
      PROVE  /\ op'[q].id # 0 <=> pc'[q] \in {"create_snd", "msgsnd"}
             /\ op'[q].id \in 0..calls
             /\ op'[q].id \notin okd'
             /\ op'[q].len < MaxMsgLen
             /\ \A r \in Procs : op'[q].id = op'[r].id /\ op'[q].id # 0 => q = r
  <2>1. CASE q = p
    BY <1>1, <1>2, <1>3, <2>1
  <2>2. CASE q # p
    BY <1>1, <2>2 DEF CallsInv, Sending
  <2> QED
    BY <2>1, <2>2
<1> QED
  BY <1>3, <1>4 DEF CallsInv, Sending

LEMMA FailsHolds == ASSUME QInv, NEW p \in Procs, Fails(p) PROVE QInv'
<1> PICK ret \in {-1, -2} : Return(p, ret, 0)
  BY DEF Fails
<1> USE DEF QInv
<1>1. UNCHANGED <<exists, msgid, queue, calls, foreign, out, okd, lost, gone>>
  BY DEF Fails, kernel, history
<1>2. TypeOK'
  <2>1. /\ pc' \in [Procs -> {"idle", "create_snd", "msgsnd", "create_rcv", "msgrcv"}]
        /\ op' \in [Procs -> Ops]
        /\ reply' \in [Procs -> [ret : Int, len : Nat]]
    BY Returned
  <2> QED
    BY <1>1, <2>1 DEF TypeOK, Ops
<1>3. CallsInv'
  BY <1>1, ReturnKeepsCalls
<1>4. QueueInv' /\ PlacesInv'
  BY <1>1 DEF QueueInv, PlacesInv
<1> QED
  BY <1>2, <1>3, <1>4

LEMMA SendHolds ==
  ASSUME QInv, NEW p \in Procs, NEW t \in SendTypes, NEW len \in TextLens,
         NEW b \in BOOLEAN, Send(p, t, len, b)
  PROVE  QInv'
<1> DEFINE o == SendOp(calls + 1, t, len, b, msgid)
<1> USE DEF QInv
<1>1. calls \in Nat /\ calls + 1 \in 0..MaxSends /\ len < MaxMsgLen
  <2>1. calls < MaxSends /\ len + 1 <= MaxMsgLen
    BY Zenon DEF Send
  <2> QED
    BY <2>1, QueueAssumption DEF TypeOK
<1>2. o \in Ops /\ o.id = calls + 1 /\ o.len = len
  <2>1. t \in Int /\ len \in Nat /\ msgid \in Nat
    BY QueueAssumption DEF TypeOK
  <2> QED
    BY <1>1, <2>1, SendOpIs
<1>3. op' = [op EXCEPT ![p] = o]
  BY DEF Send, Lookup, SendOp
<1> HIDE DEF o
<1>4. /\ calls' = calls + 1
      /\ pc' = [pc EXCEPT ![p] = IF exists THEN "msgsnd" ELSE "create_snd"]
      /\ UNCHANGED <<exists, msgid, queue, reply, foreign, out, okd, lost, gone>>
  BY DEF Send, Lookup, kernel
<1>5. op \in [Procs -> Ops] /\ op' \in [Procs -> Ops]
  BY <1>2, <1>3 DEF TypeOK, Ops
<1>6. /\ op'[p] = o /\ pc'[p] \in {"create_snd", "msgsnd"}
      /\ \A q \in Procs : q # p => op'[q] = op[q] /\ pc'[q] = pc[q]
  BY <1>3, <1>4, <1>5 DEF TypeOK
<1>8. TypeOK'
  BY <1>1, <1>4, <1>5 DEF TypeOK, Ops
<1>9. CallsInv'
  <2>1. ASSUME NEW q \in Procs
        PROVE  /\ op'[q].id # 0 <=> pc'[q] \in {"create_snd", "msgsnd"}
               /\ op'[q].id \in 0..calls'
               /\ op'[q].id \notin okd'
               /\ op'[q].len < MaxMsgLen
               /\ \A r \in Procs : op'[q].id = op'[r].id /\ op'[q].id # 0 => q = r
    <3>1. \A r \in Procs : op[r].id \in 0..calls
      BY DEF CallsInv
    <3>2. calls + 1 \notin okd
      BY <1>1 DEF CallsInv
    <3>3. CASE q = p
      <4>1. op'[q].id = calls + 1 /\ op'[q].len = len
        BY <1>2, <1>6, <3>3
      <4> QED
        BY <1>1, <1>4, <1>6, <3>1, <3>2, <3>3, <4>1
    <3>4. CASE q # p
      <4>1. op'[q] = op[q] /\ pc'[q] = pc[q] /\ op'[p].id = calls + 1
        BY <1>2, <1>6, <3>4
      <4> QED
        BY <1>1, <1>4, <1>6, <3>1, <3>4, <4>1 DEF CallsInv, Sending
    <3> QED
      BY <3>3, <3>4
  <2>2. okd' \subseteq 1..calls'
    BY <1>1, <1>4 DEF CallsInv
  <2> QED
    BY <1>4, <2>1, <2>2 DEF CallsInv, Sending
<1>10. QueueInv' /\ PlacesInv'
  BY <1>4 DEF QueueInv, PlacesInv
<1> QED
  BY <1>8, <1>9, <1>10

LEMMA RecvHolds ==
  ASSUME QInv, NEW p \in Procs, NEW t \in RecvTypes, NEW b \in BOOLEAN, Recv(p, t, b)
  PROVE  QInv'
<1> DEFINE o == RecvOp(t, b, msgid)
<1> USE DEF QInv
<1>1. o \in Ops /\ o.id = 0 /\ o.len = 0
  <2>1. t \in Int /\ msgid \in Nat
    BY QueueAssumption DEF TypeOK
  <2> QED
    BY <2>1, RecvOpIs
<1>2. op' = [op EXCEPT ![p] = o]
  BY DEF Recv, Lookup, RecvOp
<1> HIDE DEF o
<1>3. /\ pc' = [pc EXCEPT ![p] = IF exists THEN "msgrcv" ELSE "create_rcv"]
      /\ UNCHANGED <<exists, msgid, queue, reply, calls, foreign, out, okd, lost, gone>>
  BY DEF Recv, Lookup, kernel
<1>4. op \in [Procs -> Ops] /\ op' \in [Procs -> Ops]
  BY <1>1, <1>2 DEF TypeOK, Ops
<1>5. /\ op'[p] = o /\ pc'[p] \in {"create_rcv", "msgrcv"}
      /\ \A q \in Procs : q # p => op'[q] = op[q] /\ pc'[q] = pc[q]
  BY <1>2, <1>3, <1>4 DEF TypeOK
<1>6. TypeOK'
  BY <1>3, <1>4 DEF TypeOK, Ops
<1>7. CallsInv'
  <2>1. calls \in Nat /\ MaxMsgLen > 0 /\ 0 \notin okd
    BY QueueAssumption DEF TypeOK
  <2>2. ASSUME NEW q \in Procs
        PROVE  /\ op'[q].id # 0 <=> pc'[q] \in {"create_snd", "msgsnd"}
               /\ op'[q].id \in 0..calls
               /\ op'[q].id \notin okd
               /\ op'[q].len < MaxMsgLen
               /\ \A r \in Procs : op'[q].id = op'[r].id /\ op'[q].id # 0 => q = r
    <3>1. CASE q = p
      <4>1. op'[q].id = 0 /\ op'[q].len = 0
        BY <1>1, <1>5, <3>1
      <4> QED
        BY <1>5, <2>1, <3>1, <4>1
    <3>2. CASE q # p
      <4>1. op'[q] = op[q] /\ pc'[q] = pc[q] /\ op'[p].id = 0
        BY <1>1, <1>5, <3>2
      <4> QED
        BY <1>5, <3>2, <4>1 DEF CallsInv, Sending
    <3> QED
      BY <3>1, <3>2
  <2> QED
    BY <1>3, <2>2 DEF CallsInv, Sending
<1>8. QueueInv' /\ PlacesInv'
  BY <1>3 DEF QueueInv, PlacesInv
<1> QED
  BY <1>6, <1>7, <1>8

LEMMA CreatesHolds ==
  ASSUME QInv, NEW p \in Procs, SendCreates(p) \/ RecvCreates(p)
  PROVE  QInv'
<1> USE DEF QInv
<1>1. /\ Return(p, 0, 0) /\ msgid' = msgid + 1 /\ exists' = TRUE
      /\ queue' = queue /\ queue = <<>>
      /\ UNCHANGED <<calls, foreign, out, gone>>
  BY DEF SendCreates, RecvCreates, Create, history, QueueInv
<1>2. \/ op[p].id # 0 /\ okd' = okd \cup {op[p].id} /\ lost' = lost \cup {op[p].id}
      \/ okd' = okd /\ lost' = lost
  BY DEF SendCreates, RecvCreates, history, CallsInv, Sending
<1>3. op[p].id # 0 => op[p].id \in 1..MaxSends
  BY DEF TypeOK
<1>4. TypeOK'
  <2>1. /\ pc' \in [Procs -> {"idle", "create_snd", "msgsnd", "create_rcv", "msgrcv"}]
        /\ op' \in [Procs -> Ops]
        /\ reply' \in [Procs -> [ret : Int, len : Nat]]
    BY <1>1, Returned
  <2>2. okd' \subseteq 1..MaxSends /\ lost' \subseteq okd' /\ gone' \subseteq okd'
    BY <1>1, <1>2, <1>3 DEF TypeOK
  <2>3. exists' \in BOOLEAN /\ queue' \in Seq(Messages)
    BY <1>1 DEF TypeOK
  <2>4. msgid' \in Nat
    BY <1>1 DEF TypeOK
  <2>5. /\ calls' \in 0..MaxSends /\ foreign' \in 0..MaxForeign /\ out' \in Seq(Messages)
    BY <1>1 DEF TypeOK
  <2> QED
    BY <2>1, <2>2, <2>3, <2>4, <2>5 DEF TypeOK, Ops
<1>5. CallsInv'
  BY <1>1, <1>2, ReturnKeepsCalls
<1>6. QueueInv'
  BY <1>1 DEF QueueInv
<1>7. PlacesInv'
  <2>1. op[p].id \notin okd
    BY DEF CallsInv
  <2> QED
    BY <1>1, <1>2, <2>1 DEF PlacesInv
<1> QED
  BY <1>4, <1>5, <1>6, <1>7

LEMMA MsgsndHolds == ASSUME QInv, NEW p \in Procs, Msgsnd(p) PROVE QInv'
<1> DEFINE k == op[p].id
           size == op[p].len + LongSize
           m == Message(k, op[p].type, size, op[p].len)
<1> USE DEF QInv
<1>1. /\ Return(p, 0, op[p].len) /\ queue' = Append(queue, m) /\ okd' = okd \cup {k}
      /\ UNCHANGED <<exists, msgid, calls, foreign, out, lost, gone>>
      /\ exists /\ op[p].type > 0
  BY DEF Msgsnd, Found
<1>2. /\ k \in 1..MaxSends /\ k # 0 /\ k \notin okd
      /\ op[p].len \in Nat /\ op[p].len < MaxMsgLen
  BY DEF Msgsnd, TypeOK, CallsInv, Sending
<1>3. /\ m \in Messages /\ m.id = k
      /\ m.size = m.mlen + LongSize /\ m.mlen < MaxMsgLen
  <2>1. op[p].type \in Nat \ {0} /\ size \in Nat /\ k \in 0..MaxSends
    BY <1>1, <1>2, QueueAssumption DEF TypeOK
  <2> HIDE DEF k, size
  <2>2. m \in Messages /\ m.id = k /\ m.size = size /\ m.mlen = op[p].len
    BY <1>2, <2>1, MessageIs
  <2> QED
    BY <1>2, <2>2 DEF size
<1> HIDE DEF m, k
<1>4. queue \in Seq(Messages) /\ k \notin Own(queue) /\ k \notin Own(out)
  BY <1>2 DEF TypeOK, PlacesInv
<1>5. TypeOK'
  <2>1. /\ pc' \in [Procs -> {"idle", "create_snd", "msgsnd", "create_rcv", "msgrcv"}]
        /\ op' \in [Procs -> Ops]
        /\ reply' \in [Procs -> [ret : Int, len : Nat]]
    BY <1>1, <1>2, Returned
  <2>2. okd' \subseteq 1..MaxSends /\ lost' \subseteq okd' /\ gone' \subseteq okd'
    BY <1>1, <1>2 DEF TypeOK
  <2>3. queue' \in Seq(Messages)
    BY <1>1, <1>3, <1>4, AppendIs
  <2> QED
    BY <1>1, <2>1, <2>2, <2>3 DEF TypeOK, Ops
<1>6. CallsInv'
  <2>1. op[p].id # 0 /\ okd' = okd \cup {op[p].id}
    BY <1>1, <1>2 DEF k
  <2> QED
    BY <1>1, <1>2, <2>1, ReturnKeepsCalls
<1>7. QueueInv'
  <2>1. Word > MaxMsgLen /\ Word \in Nat /\ m.mlen \in Nat /\ MaxMsgLen \in Nat
    BY <1>3, QueueAssumption DEF Messages
  <2>2. /\ DOMAIN queue = 1..Len(queue) /\ DOMAIN queue' = 1..(Len(queue) + 1)
        /\ \A i \in 1..Len(queue) : queue'[i] = queue[i]
        /\ queue'[Len(queue) + 1] = m /\ Len(queue) \in Nat
    BY <1>1, <1>3, <1>4, AppendIs
  <2>3. m.mlen < Word
    BY <1>3, <2>1
  <2>4. ASSUME NEW i \in DOMAIN queue'
        PROVE  /\ queue'[i].mlen < Word
               /\ queue'[i].id # 0 => /\ queue'[i].size = queue'[i].mlen + LongSize
                                      /\ queue'[i].mlen < MaxMsgLen
    <3>1. CASE i \in DOMAIN queue
      BY <2>2, <3>1 DEF QueueInv
    <3>2. CASE i = Len(queue) + 1
      BY <1>3, <2>2, <2>3, <3>2
    <3> QED
      BY <2>2, <3>1, <3>2
  <2> QED
    BY <1>1, <2>4 DEF QueueInv
<1>8. PlacesInv'
  <2>1. Own(queue') = Own(queue) \cup {k} /\ Distinct(queue')
    BY <1>1, <1>2, <1>3, <1>4, OwnAppend DEF PlacesInv
  <2>2. k \notin lost /\ k \notin gone
    BY <1>2 DEF TypeOK
  <2> QED
    BY <1>1, <1>4, <2>1, <2>2 DEF PlacesInv
<1> QED
  BY <1>5, <1>6, <1>7, <1>8

\* enqueue's comparison is made modulo Word; for a sum of less than two Words
\* that is at most one subtraction, ...
LEMMA ModOnce ==
  ASSUME NEW w \in Nat \ {0}, NEW a \in Nat, a < 2 * w
  PROVE  a % w = IF a < w THEN a ELSE a - w
<1>1. CASE a < w
  BY <1>1
<1>2. CASE w <= a
  <2>1. a - w \in 0..(w - 1)
    BY <1>2
  <2> QED
    BY <2>1, <1>2
<1> QED
  BY <1>1, <1>2

\* The padding at the end of mtext_t is at most the 4 that the check leaves
\* room for.
LEMMA SizesAre ==
  /\ LongSize \in Nat \ {0} /\ MaxMsgLen \in Nat \ {0}
  /\ Padding \in 0..4
  /\ TextSize = LongSize + MaxMsgLen + 4 + Padding
  /\ Word \in Nat \ {0} /\ Word > TextSize + LongSize
<1>1. /\ LongSize \in {4, 8} /\ MaxMsgLen \in Nat \ {0} /\ MaxMsgLen % LongSize = 0
      /\ Word \in Nat /\ Word > MaxMsgLen + 3 * LongSize + 4
  BY QueueAssumption
<1>2. Padding = IF LongSize = 4 THEN 0 ELSE 4
  <2>1. CASE LongSize = 4
    <3>1. (MaxMsgLen + 4) % 4 = 0
      BY <1>1, <2>1
    <3> QED
      BY <2>1, <3>1 DEF Padding, ContentSize
  <2>2. CASE LongSize = 8
    <3>1. (MaxMsgLen + 4) % 8 = 4
      BY <1>1, <2>2
    <3> QED
      BY <2>2, <3>1 DEF Padding, ContentSize
  <2> QED
    BY <1>1, <2>1, <2>2
<1> QED
  BY <1>1, <1>2 DEF TextSize, ContentSize

\* ... which the first check of the received size rules out.  The text is not
\* longer than mcontent, and the library's own messages pass.
LEMMA ValidIs ==
  ASSUME NEW m \in Messages, m.mlen < Word
  PROVE  /\ Valid(m) => /\ Received(m) - LongSize = m.mlen
                        /\ m.mlen <= ContentSize
         /\ m.size = m.mlen + LongSize /\ m.mlen < MaxMsgLen => Valid(m)
<1>1. /\ m.mlen \in Nat /\ m.size \in Nat /\ Received(m) \in Nat
      /\ Received(m) = IF m.size > TextSize THEN TextSize ELSE m.size
  BY SizesAre DEF Messages, Received
<1> DEFINE sum == m.mlen + LongSize
<1>2. sum \in Nat /\ sum < 2 * Word
  BY <1>1, SizesAre
<1> HIDE DEF sum
<1>3. sum % Word = IF sum < Word THEN sum ELSE sum - Word
  BY <1>2, SizesAre, ModOnce
<1>4. ASSUME Valid(m)
      PROVE  Received(m) - LongSize = m.mlen /\ m.mlen <= ContentSize
  <2>1. /\ Received(m) >= LongSize /\ Received(m) = sum % Word
        /\ Received(m) + 4 <= TextSize
    BY <1>4 DEF Valid, sum
  <2>2. sum < Word
    BY <1>1, <1>3, <2>1, SizesAre DEF sum
  <2>3. Received(m) = m.mlen + LongSize
    BY <1>3, <2>1, <2>2 DEF sum
  <2> QED
    BY <1>1, <2>1, <2>3, SizesAre DEF ContentSize
<1>5. ASSUME m.size = m.mlen + LongSize, m.mlen < MaxMsgLen
      PROVE  Valid(m)
  <2>1. m.size + 4 <= TextSize /\ Received(m) = m.size
    BY <1>1, <1>5, SizesAre
  <2>2. sum < Word /\ Received(m) = sum % Word
    BY <1>1, <1>3, <1>5, <2>1, SizesAre DEF sum
  <2> QED
    BY <1>1, <1>5, <2>1, <2>2, SizesAre DEF Valid, sum
<1> QED
  BY <1>4, <1>5

\* msgrcv's message leaves the queue; it is received, unless another program
\* sent it and the checks refuse it.
LEMMA MsgrcvTakes ==
  ASSUME QInv, NEW p \in Procs, Msgrcv(p)
  PROVE  \E i \in DOMAIN queue :
           LET m == queue[i] IN
           /\ m \in Messages /\ m.mlen < Word
           /\ queue' = Without(queue, i)
           /\ \/ Valid(m) /\ out' = Append(out, m) /\ Return(p, Received(m) - LongSize, m.mlen)
              \/ m.id = 0 /\ out' = out /\ Return(p, -2, 0)
<1> DEFINE i == Pick(op[p].type)
           m == queue[i]
<1> USE DEF QInv
<1>1. /\ i > 0 /\ queue' = Without(queue, i)
      /\ IF Valid(m)
         THEN out' = Append(out, m) /\ Return(p, Received(m) - LongSize, m.mlen)
         ELSE out' = out /\ Return(p, -2, 0)
  BY DEF Msgrcv
<1>2. queue \in Seq(Messages) /\ op[p].type \in Int
  BY DEF TypeOK
<1>3. i \in DOMAIN queue
  BY <1>1, <1>2, PickIs
<1>4. m \in Messages
  BY <1>2, <1>3
<1>5. m.mlen < Word /\ (m.id # 0 => m.size = m.mlen + LongSize /\ m.mlen < MaxMsgLen)
  BY <1>3 DEF QueueInv
<1> HIDE DEF i
<1>6. ~Valid(m) => m.id = 0
  BY <1>4, <1>5, ValidIs
<1> QED
  BY <1>1, <1>3, <1>4, <1>5, <1>6

LEMMA MsgrcvHolds == ASSUME QInv, NEW p \in Procs, Msgrcv(p) PROVE QInv'
<1> USE DEF QInv
<1>1. PICK i \in DOMAIN queue :
           LET m == queue[i] IN
           /\ m \in Messages /\ m.mlen < Word
           /\ queue' = Without(queue, i)
           /\ \/ Valid(m) /\ out' = Append(out, m) /\ Return(p, Received(m) - LongSize, m.mlen)
              \/ m.id = 0 /\ out' = out /\ Return(p, -2, 0)
  BY MsgrcvTakes
<1> DEFINE m == queue[i]
<1>2. UNCHANGED <<exists, msgid, calls, foreign, okd, lost, gone>> /\ exists
  BY DEF Msgrcv, Found
<1>3. queue \in Seq(Messages) /\ out \in Seq(Messages) /\ m \in Messages /\ m.mlen \in Nat
  BY <1>1 DEF TypeOK, Messages
<1>4. PICK ret \in Int, len \in Nat : Return(p, ret, len)
  <2>1. Valid(m) => Received(m) - LongSize \in Int
    BY <1>1, <1>3, ValidIs
  <2>2. CASE Valid(m) /\ Return(p, Received(m) - LongSize, m.mlen)
    BY <1>3, <2>1, <2>2
  <2>3. CASE Return(p, -2, 0)
    BY <2>3
  <2> QED
    BY <1>1, <2>2, <2>3
<1> HIDE DEF m
<1>5. /\ queue' \in Seq(Messages) /\ Len(queue') = Len(queue) - 1
      /\ \A j \in 1..Len(queue') : queue'[j] = IF j < i THEN queue[j] ELSE queue[j + 1]
  BY <1>1, <1>3, WithoutIs
<1>6. TypeOK'
  <2>1. /\ pc' \in [Procs -> {"idle", "create_snd", "msgsnd", "create_rcv", "msgrcv"}]
        /\ op' \in [Procs -> Ops]
        /\ reply' \in [Procs -> [ret : Int, len : Nat]]
    BY <1>4, Returned
  <2>2. out' \in Seq(Messages)
    <3>1. out' = out \/ out' = Append(out, m)
      BY <1>1 DEF m
    <3> QED
      BY <1>3, <3>1, AppendIs
  <2> QED
    BY <1>2, <1>5, <2>1, <2>2 DEF TypeOK, Ops
<1>7. CallsInv'
  BY <1>2, <1>4, ReturnKeepsCalls
<1>8. QueueInv'
  <2>1. Len(queue) \in Nat /\ i \in 1..Len(queue) /\ DOMAIN queue = 1..Len(queue)
    BY <1>3
  <2>2. \A j \in DOMAIN queue' : \E k \in DOMAIN queue : queue'[j] = queue[k]
    BY <1>5, <2>1
  <2> QED
    BY <1>2, <2>2 DEF QueueInv
<1>9. PlacesInv'
  <2>1. Distinct(queue) /\ Own(queue') = Own(queue) \ {m.id} /\ Distinct(queue')
    BY <1>1, <1>3, OwnWithout DEF PlacesInv, m
  <2>2. m.id = 0 \/ m.id \in Own(queue)
    BY <1>3 DEF Own, m
  <2>3. CASE out' = Append(out, m)
    <3>1. m.id \notin Own(out)
      BY <2>2 DEF PlacesInv, Own
    <3>2. Own(out') = Own(out) \cup ({m.id} \ {0}) /\ Distinct(out')
      BY <1>3, <2>3, <3>1, OwnAppend DEF PlacesInv
    <3>3. 0 \notin Own(queue)
      BY DEF Own
    <3> QED
      BY <1>2, <2>1, <2>2, <3>2, <3>3 DEF PlacesInv
  <2>4. CASE m.id = 0 /\ out' = out
    <3>1. 0 \notin Own(queue)
      BY DEF Own
    <3> QED
      BY <1>2, <2>1, <2>4, <3>1 DEF PlacesInv
  <2> QED
    BY <1>1, <2>3, <2>4 DEF m
<1> QED
  BY <1>6, <1>7, <1>8, <1>9

LEMMA ForeignSendHolds ==
  ASSUME QInv, NEW f \in Foreign, NEW t \in SendTypes \cap (Nat \ {0}), ForeignSend(f, t)
  PROVE  QInv'
<1> DEFINE m == Message(0, t, f.size, f.mlen)
<1> USE DEF QInv
<1>1. /\ queue' = Append(queue, m) /\ exists
      /\ foreign < MaxForeign /\ foreign' = foreign + 1
      /\ UNCHANGED <<exists, msgid, pc, op, reply, calls, out, okd, lost, gone>>
  BY DEF ForeignSend, history
<1>2. m \in Messages /\ m.id = 0 /\ m.mlen < Word
  <2>1. f.size \in Nat /\ f.mlen \in Nat /\ f.mlen < Word /\ 0 \in 0..MaxSends
    BY QueueAssumption
  <2> QED
    BY <2>1, MessageIs
<1> HIDE DEF m
<1>3. queue \in Seq(Messages) /\ 0 \notin Own(queue)
  BY DEF TypeOK, Own
<1>4. /\ queue' \in Seq(Messages)
      /\ DOMAIN queue = 1..Len(queue) /\ DOMAIN queue' = 1..(Len(queue) + 1)
      /\ \A i \in 1..Len(queue) : queue'[i] = queue[i]
      /\ queue'[Len(queue) + 1] = m /\ Len(queue) \in Nat
  BY <1>1, <1>2, <1>3, AppendIs
<1>5. TypeOK'
  <2>1. foreign' \in 0..MaxForeign
    BY <1>1, QueueAssumption DEF TypeOK
  <2> QED
    BY <1>1, <1>4, <2>1 DEF TypeOK
<1>6. CallsInv'
  BY <1>1 DEF CallsInv, Sending
<1>7. QueueInv'
  BY <1>1, <1>2, <1>4 DEF QueueInv
<1>8. PlacesInv'
  <2>1. /\ Own(queue') = Own(queue) \cup ({m.id} \ {0})
        /\ Distinct(queue) /\ m.id \notin Own(queue) => Distinct(queue')
    BY <1>1, <1>2, <1>3, OwnAppend
  <2>2. Own(queue') = Own(queue) /\ Distinct(queue')
    BY <1>2, <1>3, <2>1 DEF PlacesInv
  <2> QED
    BY <1>1, <2>2 DEF PlacesInv
<1> QED
  BY <1>5, <1>6, <1>7, <1>8

LEMMA RemoveHolds == ASSUME QInv, Remove PROVE QInv'
<1> USE DEF QInv
<1>1. /\ exists' = FALSE /\ queue' = <<>> /\ gone' = gone \cup Own(queue)
      /\ UNCHANGED <<msgid, pc, op, reply, calls, foreign, out, okd, lost>>
  BY DEF Remove
<1>2. Own(queue) \subseteq okd
  BY DEF PlacesInv
<1>3. TypeOK'
  <2>1. exists' \in BOOLEAN
    BY <1>1
  <2>2. queue' \in Seq(Messages)
    BY <1>1, EmptySeq
  <2>3. gone' \subseteq okd'
    BY <1>1, <1>2 DEF TypeOK
  <2> QED
    BY <1>1, <2>1, <2>2, <2>3 DEF TypeOK
<1>4. CallsInv' /\ QueueInv'
  BY <1>1 DEF CallsInv, QueueInv, Sending
<1>5. PlacesInv'
  <2>1. Own(queue') = {} /\ Distinct(queue')
    BY <1>1 DEF Own, Distinct
  <2> QED
    BY <1>1, <2>1 DEF PlacesInv
<1> QED
  BY <1>3, <1>4, <1>5

LEMMA QInvNext == QInv /\ [Next]_vars => QInv'
<1> SUFFICES ASSUME QInv, [Next]_vars PROVE QInv'
  OBVIOUS
<1>1. CASE UNCHANGED vars
  BY <1>1 DEF vars, QInv, TypeOK, CallsInv, QueueInv, PlacesInv, Sending
<1> QED
  BY <1>1, Steps, SendHolds, RecvHolds, FailsHolds, CreatesHolds, MsgsndHolds,
     MsgrcvHolds, ForeignSendHolds, RemoveHolds

\* MsgQueue's type invariant.
THEOREM TypeCorrect == Spec => []TypeOK
<1>1. QInv => TypeOK
  BY DEF QInv
<1> QED
  BY <1>1, QInvInit, QInvNext, PTL DEF Spec

(***************************************************************************)
(* Every send that dequeue answered with 0 is in exactly one place, once:  *)
(* the queue, the messages received, those removed with the queue, or the  *)
(* call that created the queue.                                            *)
(***************************************************************************)
THEOREM NothingInvented == Spec => []SentAccounted
<1>1. QInv => SentAccounted
  <2> SUFFICES ASSUME QInv PROVE SentAccounted
    OBVIOUS
  <2> DEFINE places == queue \o out
  <2>1. queue \in Seq(Messages) /\ out \in Seq(Messages)
    BY DEF QInv, TypeOK
  <2>2. /\ Len(queue) \in Nat /\ Len(out) \in Nat
        /\ DOMAIN queue = 1..Len(queue) /\ DOMAIN out = 1..Len(out)
        /\ DOMAIN places = 1..(Len(queue) + Len(out))
        /\ \A i \in DOMAIN places :
             places[i] = IF i <= Len(queue) THEN queue[i] ELSE out[i - Len(queue)]
    BY <2>1, ConcatProperties
  <2> HIDE DEF places
  <2>3. \A i \in DOMAIN places :
           \/ i \in DOMAIN queue /\ places[i] = queue[i]
           \/ i - Len(queue) \in DOMAIN out /\ places[i] = out[i - Len(queue)]
    BY <2>2
  <2>4. \A i \in DOMAIN out : i + Len(queue) \in DOMAIN places
                               /\ places[i + Len(queue)] = out[i]
    BY <2>2
  <2>5. \A i \in DOMAIN queue : i \in DOMAIN places /\ places[i] = queue[i]
    BY <2>2
  <2>6. Own(places) = Own(queue) \cup Own(out)
    BY <2>3, <2>4, <2>5 DEF Own
  <2>7. \A i, j \in DOMAIN places :
           places[i].id = places[j].id /\ places[i].id # 0 => i = j
    <3> SUFFICES ASSUME NEW i \in DOMAIN places, NEW j \in DOMAIN places,
                        places[i].id = places[j].id, places[i].id # 0
                 PROVE  i = j
      OBVIOUS
    <3>1. /\ Distinct(queue) /\ Distinct(out)
          /\ \A a \in DOMAIN queue, b \in DOMAIN out :
               queue[a].id # 0 => queue[a].id # out[b].id
      BY DEF QInv, PlacesInv, Own
    <3> QED
      BY <2>2, <2>3, <3>1 DEF Distinct
  <2> QED
    BY <2>6, <2>7 DEF SentAccounted, places, QInv, PlacesInv
<1> QED
  BY <1>1, QInvInit, QInvNext, PTL DEF Spec
-----------------------------------------------------------------------------
LEMMA ReplyNext == QInv /\ ReplyInside /\ [Next]_vars => ReplyInside'
<1> SUFFICES ASSUME QInv, ReplyInside, [Next]_vars PROVE ReplyInside'
  OBVIOUS
<1> USE DEF QInv
<1> DEFINE Inside(r) == r.len <= ContentSize /\ (r.ret > 0 => r.len = r.ret)
<1>1. ContentSize = MaxMsgLen + 4 /\ MaxMsgLen \in Nat
  BY QueueAssumption DEF ContentSize
<1>2. ASSUME NEW p \in Procs, NEW ret \in Int, NEW len \in Nat, Return(p, ret, len),
             len <= ContentSize, ret > 0 => len = ret
      PROVE  ReplyInside'
  <2>1. /\ reply'[p].ret = ret /\ reply'[p].len = len
        /\ \A q \in Procs : q # p => reply'[q] = reply[q]
    BY <1>2, Returned
  <2>2. ASSUME NEW q \in Procs PROVE Inside(reply'[q])
    <3>1. CASE q = p
      BY <1>2, <2>1, <3>1
    <3>2. CASE q # p
      BY <2>1, <3>2 DEF ReplyInside
    <3> QED
      BY <3>1, <3>2
  <2>3. ContentSize' = ContentSize
    BY DEF ContentSize
  <2> QED
    BY <2>2, <2>3 DEF ReplyInside
<1>3. ASSUME NEW p \in Procs, Msgrcv(p) PROVE ReplyInside'
  <2>1. PICK i \in DOMAIN queue :
           LET m == queue[i] IN
           /\ m \in Messages /\ m.mlen < Word
           /\ \/ Valid(m) /\ Return(p, Received(m) - LongSize, m.mlen)
              \/ Return(p, -2, 0)
    BY <1>3, MsgrcvTakes
  <2> DEFINE m == queue[i]
  <2>2. CASE Valid(m) /\ Return(p, Received(m) - LongSize, m.mlen)
    <3>1. /\ Received(m) - LongSize = m.mlen /\ m.mlen <= ContentSize /\ m.mlen \in Nat
      BY <2>1, <2>2, ValidIs DEF Messages
    <3> HIDE DEF m
    <3>2. Return(p, m.mlen, m.mlen) /\ m.mlen <= ContentSize
      BY <1>1, <2>2, <3>1
    <3> QED
      BY <1>2, <3>1, <3>2
  <2>3. CASE Return(p, -2, 0)
    BY <1>1, <1>2, <2>3
  <2> QED
    BY <2>1, <2>2, <2>3
<1>4. ASSUME NEW p \in Procs, Msgsnd(p) PROVE ReplyInside'
  <2>1. Return(p, 0, op[p].len) /\ op[p].len \in Nat /\ op[p].len < MaxMsgLen
    BY <1>4 DEF Msgsnd, TypeOK, CallsInv
  <2> QED
    BY <1>1, <1>2, <2>1
<1>5. ASSUME NEW p \in Procs, Fails(p) \/ SendCreates(p) \/ RecvCreates(p)
      PROVE  ReplyInside'
  <2>1. \E ret \in {0, -1, -2} : Return(p, ret, 0)
    BY <1>5 DEF Fails, SendCreates, RecvCreates
  <2> QED
    BY <1>1, <1>2, <2>1
<1>6. CASE UNCHANGED reply
  BY <1>6 DEF ReplyInside, ContentSize
<1>7. ASSUME NEW p \in Procs,
             \/ \E t \in SendTypes, len \in TextLens, b \in BOOLEAN : Send(p, t, len, b)
             \/ \E t \in RecvTypes, b \in BOOLEAN : Recv(p, t, b)
      PROVE  UNCHANGED reply
  BY <1>7, Zenon DEF Send, Recv, Lookup
<1>8. ASSUME \/ \E f \in Foreign, t \in SendTypes \cap (Nat \ {0}) : ForeignSend(f, t)
             \/ Remove \/ UNCHANGED vars
      PROVE  UNCHANGED reply
  BY <1>8 DEF ForeignSend, Remove, vars
<1> QED
  BY Steps, <1>3, <1>4, <1>5, <1>6, <1>7, <1>8

(***************************************************************************)
(* Whatever another program has put into the queue, enqueue's three checks *)
(* leave only texts inside mcontent, as long as the returned number says.  *)
(***************************************************************************)
THEOREM ChecksSuffice == Spec => []ReplyInside
<1>1. Init => ReplyInside
  BY QueueAssumption DEF Init, ReplyInside, ContentSize
<1> QED
  BY <1>1, ReplyNext, QInvInit, QInvNext, PTL DEF Spec
-----------------------------------------------------------------------------
LossInv == IsFiniteSet(lost) /\ LossNeedsCreate

LEMMA LossNext == QInv /\ LossInv /\ [Next]_vars => LossInv'
<1> SUFFICES ASSUME QInv, LossInv, [Next]_vars PROVE LossInv'
  OBVIOUS
<1> USE DEF LossInv, LossNeedsCreate
<1>1. Cardinality(lost) \in Nat /\ msgid \in Nat
  BY FS_CardinalityType DEF QInv, TypeOK
<1>2. ASSUME NEW p \in Procs, SendCreates(p) PROVE LossInv'
  <2>1. lost' = lost \cup {op[p].id} /\ msgid' = msgid + 1
    BY <1>2 DEF SendCreates, Create
  <2> DEFINE k == op[p].id
  <2> HIDE DEF k
  <2>2. /\ IsFiniteSet(lost \cup {k})
        /\ Cardinality(lost \cup {k}) = IF k \in lost THEN Cardinality(lost)
                                                     ELSE Cardinality(lost) + 1
    BY FS_AddElement
  <2>3. Cardinality(lost \cup {k}) <= msgid + 1
    BY <1>1, <2>2
  <2>4. lost' = lost \cup {k}
    BY <2>1 DEF k
  <2> QED
    BY <2>1, <2>2, <2>3, <2>4
<1>3. CASE lost' = lost /\ (msgid' = msgid \/ msgid' = msgid + 1)
  <2>1. Cardinality(lost) <= msgid'
    BY <1>1, <1>3
  <2> QED
    BY <1>3, <2>1
<1>4. \/ \E p \in Procs : SendCreates(p)
      \/ lost' = lost /\ (msgid' = msgid \/ msgid' = msgid + 1)
  <2>1. ASSUME NEW p \in Procs,
               \/ \E t \in SendTypes, len \in TextLens, b \in BOOLEAN : Send(p, t, len, b)
               \/ \E t \in RecvTypes, b \in BOOLEAN : Recv(p, t, b)
        PROVE  UNCHANGED <<lost, msgid>>
    BY <2>1, Zenon DEF Send, Recv, Lookup, kernel
  <2>2. ASSUME NEW p \in Procs, Fails(p) \/ Msgsnd(p) \/ Msgrcv(p)
        PROVE  UNCHANGED <<lost, msgid>>
    BY <2>2 DEF Fails, Msgsnd, Msgrcv, kernel, history
  <2>3. ASSUME NEW p \in Procs, RecvCreates(p)
        PROVE  lost' = lost /\ msgid' = msgid + 1
    BY <2>3 DEF RecvCreates, Create, history
  <2>4. ASSUME \/ \E f \in Foreign, t \in SendTypes \cap (Nat \ {0}) : ForeignSend(f, t)
               \/ Remove \/ UNCHANGED vars
        PROVE  UNCHANGED <<lost, msgid>>
    BY <2>4 DEF ForeignSend, Remove, vars, history
  <2> QED
    BY Steps, <2>1, <2>2, <2>3, <2>4
<1> QED
  BY <1>1, <1>2, <1>3, <1>4

(***************************************************************************)
(* However many processes race to create the queue, at most one of them    *)
(* returns 0 for a message it did not send, each time the queue is made.   *)
(***************************************************************************)
THEOREM OneLossPerQueue == Spec => []LossNeedsCreate
<1>1. Init => LossInv
  BY FS_EmptySet DEF Init, LossInv, LossNeedsCreate
<1>2. LossInv => LossNeedsCreate
  BY DEF LossInv
<1> QED
  BY <1>1, <1>2, LossNext, QInvInit, QInvNext, PTL DEF Spec
=============================================================================

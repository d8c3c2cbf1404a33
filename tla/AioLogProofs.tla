---------------------------- MODULE AioLogProofs ----------------------------
(***************************************************************************)
(* Proofs about the logger, for every size of its buffer, every length of  *)
(* messages and every number of them.                                      *)
(***************************************************************************)
EXTENDS AioLog, SequenceTheorems, TLAPS

(***************************************************************************)
(* The positions in the buffer: BufferBounds, with the types that make its *)
(* arithmetic work.  It is inductive: llog only issues a write for what is *)
(* in the buffer, and m_dpos only falls by what a write has taken.         *)
(***************************************************************************)
PosInv ==
  /\ dpos \in Nat
  /\ nbytes \in Nat
  /\ res \in Nat
  /\ wait \in Nat
  /\ BufferBounds

LEMMA PosInvInit == Init => PosInv
  BY LogAssumption DEF Init, PosInv, BufferBounds

\* Putting a message behind the contents, or refusing it.
LEMMA BufferKeepsPos ==
  ASSUME PosInv, NEW n \in Nat, Buffer(n)
  PROVE  dpos' \in Nat /\ dpos' >= dpos /\ dpos' < BufSize
  BY LogAssumption DEF Buffer, PosInv, BufferBounds

LEMMA PosInvNext == PosInv /\ [Next]_vars => PosInv'
<1> SUFFICES ASSUME PosInv, [Next]_vars PROVE PosInv'
  OBVIOUS
<1> USE LogAssumption DEF PosInv, BufferBounds
<1>1. ASSUME NEW a \in BOOLEAN, NEW l \in LevelArgs, Open(a, l) PROVE PosInv'
  BY <1>1 DEF Open
<1>2. CASE OpenFails
  BY <1>2 DEF OpenFails
<1>3. CASE Close
  BY <1>3 DEF Close
<1>4. CASE StrayClose
  BY <1>4 DEF StrayClose
<1>5. ASSUME NEW l \in LevelArgs, SetLevel(l) PROVE PosInv'
  BY <1>5 DEF SetLevel
<1>6. CASE Start
  BY <1>6 DEF Start
<1>7. CASE Fail
  BY <1>7 DEF Fail
<1>8. ASSUME NEW n \in 0..nbytes, Complete(n) PROVE PosInv'
  BY <1>8 DEF Complete
<1>9. ASSUME NEW n \in Lengths, LogDone(n) PROVE PosInv'
  <2> DEFINE len == dpos - res
  <2>1. len \in Nat /\ len < BufSize
    BY <1>9 DEF LogDone
  <2>2. dpos' = len \/ (dpos' = len + n /\ len + n < BufSize)
    BY <1>9 DEF LogDone
  <2>3. nbytes' = dpos' /\ aio' = "queued" /\ res' = res /\ wait' = wait
    BY <1>9 DEF LogDone
  <2> QED
    BY <2>1, <2>2, <2>3
<1>10. ASSUME NEW n \in Lengths, LogBusy(n) PROVE PosInv'
  <2>1. dpos' \in Nat /\ dpos' >= dpos /\ dpos' < BufSize
    BY <1>10, BufferKeepsPos DEF LogBusy
  <2> QED
    BY <1>10, <2>1 DEF LogBusy
<1>11. ASSUME NEW n \in Lengths, LogSuspends(n) PROVE PosInv'
  BY <1>11 DEF LogSuspends
<1>12. ASSUME NEW n \in Lengths, LogCanceled(n) PROVE PosInv'
  <2>1. dpos' \in Nat /\ dpos' >= dpos /\ dpos' < BufSize
    BY <1>12, BufferKeepsPos DEF LogCanceled
  <2> QED
    BY <1>12, <2>1 DEF LogCanceled
<1>13. CASE SuspendReturns
  <2>1. dpos' \in Nat /\ dpos' >= dpos /\ dpos' < BufSize
    BY <1>13, BufferKeepsPos DEF SuspendReturns
  <2> QED
    BY <1>13, <2>1 DEF SuspendReturns
<1>14. CASE SuspendFails
  BY <1>14 DEF SuspendFails
<1>15. CASE UNCHANGED vars
  BY <1>15 DEF vars
<1> QED
  BY <1>1, <1>2, <1>3, <1>4, <1>5, <1>6, <1>7, <1>8, <1>9, <1>10, <1>11, <1>12,
     <1>13, <1>14, <1>15 DEF Next

(***************************************************************************)
(* No memcpy of llog leaves the buffer, and the length it computes for the *)
(* rest of the contents is never negative.                                 *)
(***************************************************************************)
THEOREM BufferSafe == Spec => []BufferBounds
<1>1. PosInv => BufferBounds
  BY DEF PosInv
<1> QED
  BY <1>1, PosInvInit, PosInvNext, PTL DEF Spec

-----------------------------------------------------------------------------
\* The step of the in-flight property.
Untouched == InProgress => \A i \in 1..nbytes : data'[i] = data[i]

LEMMA StepUntouched == PosInv /\ [Next]_vars => Untouched
<1> SUFFICES ASSUME PosInv, [Next]_vars, InProgress, NEW i \in 1..nbytes
             PROVE  data'[i] = data[i]
  BY DEF Untouched
<1> USE LogAssumption
<1>1. i \in Cells /\ i <= dpos
  BY DEF PosInv, BufferBounds, Cells
<1>2. ASSUME NEW n \in Lengths, LogBusy(n) PROVE data'[i] = data[i]
  <2>1. CASE data' = With(data, dpos, n)
    BY <1>1, <2>1 DEF With, PosInv
  <2>2. CASE data' = data
    BY <2>2
  <2> QED
    BY <1>2, <2>1, <2>2 DEF LogBusy, Buffer
<1>3. ASSUME NEW n \in Lengths, LogDone(n) \/ LogCanceled(n) PROVE FALSE
  BY <1>3 DEF LogDone, LogCanceled, InProgress
<1>4. CASE SuspendReturns
  BY <1>4 DEF SuspendReturns
<1>5. CASE data' = data
  BY <1>5
<1>6. \/ \E n \in Lengths : LogBusy(n) \/ LogDone(n) \/ LogCanceled(n)
      \/ SuspendReturns \/ data' = data
  BY DEF Next, vars, Open, OpenFails, Close, StrayClose, SetLevel, Start, Fail,
         Complete, LogSuspends, SuspendFails
<1> QED
  BY <1>2, <1>3, <1>4, <1>5, <1>6

(***************************************************************************)
(* Bytes that belong to a write in progress never change under it.         *)
(***************************************************************************)
THEOREM InFlightSafe == Spec => InFlightUntouched
<1>1. PosInv /\ [Next]_vars => [Untouched]_vars
  BY StepUntouched
<1> QED
  BY <1>1, PosInvInit, PosInvNext, PTL DEF Spec, InFlightUntouched, Untouched

-----------------------------------------------------------------------------
\* The step of the property about failed writes.
StaysFailed == st = "open" /\ aio = "failed" => aio' = "failed" /\ file' = file

LEMMA StepStaysFailed == [Next]_vars => StaysFailed
<1> SUFFICES ASSUME [Next]_vars, st = "open", aio = "failed"
             PROVE  aio' = "failed" /\ file' = file
  BY DEF StaysFailed
<1>1. CASE Close \/ StrayClose \/ SuspendReturns \/ SuspendFails
  BY <1>1 DEF Close, StrayClose, SuspendReturns, SuspendFails
<1>2. ASSUME NEW l \in LevelArgs, SetLevel(l) PROVE aio' = "failed" /\ file' = file
  BY <1>2 DEF SetLevel
<1>3. ~OpenFails /\ ~Start /\ ~Fail
  BY DEF OpenFails, Start, Fail
<1>4. \A a \in BOOLEAN, l \in LevelArgs : ~Open(a, l)
  BY DEF Open
<1>5. \A n \in 0..nbytes : ~Complete(n)
  BY DEF Complete
<1>6. \A n \in Lengths : ~LogDone(n) /\ ~LogBusy(n) /\ ~LogSuspends(n) /\ ~LogCanceled(n)
  BY DEF LogDone, LogBusy, LogSuspends, LogCanceled, InProgress
<1>7. CASE UNCHANGED vars
  BY <1>7 DEF vars
<1> QED
  BY <1>1, <1>2, <1>3, <1>4, <1>5, <1>6, <1>7 DEF Next

(***************************************************************************)
(* A failed write is the end of the log: llog never issues another one.    *)
(***************************************************************************)
THEOREM FailedForGood == Spec => ErrorIsFinal
<1>1. [Next]_vars => [StaysFailed]_vars
  BY StepStaysFailed
<1> QED
  BY <1>1, PTL DEF Spec, ErrorIsFinal, StaysFailed

-----------------------------------------------------------------------------
(***************************************************************************)
(* What the buffer and the file hold.  Up to m_dpos the buffer holds bytes *)
(* of messages, and with those of the file they are the log as long as     *)
(* nothing was mangled: byte i of the file is the i-th accepted one, and   *)
(* the buffer goes on from there with what no finished write has taken.    *)
(***************************************************************************)
Taken == IF aio = "done" THEN res ELSE 0

BufferFull == \A i \in 1..dpos : data[i] > 0
FreedLast == freed => st = "closed"
WaitsOpen == wait > 0 => st = "open"
NothingYet == st = "none" => file = <<>> /\ accepted = 0 /\ aio = "done"
InOrder ==
  st = "open" /\ append /\ ~mangled =>
    /\ Len(file) + (dpos - Taken) = accepted
    /\ \A i \in 1..Len(file) : file[i] = i
    /\ \A i \in (Taken + 1)..dpos : data[i] = Len(file) + (i - Taken)

ContentInv == BufferFull /\ NoJunk /\ FreedLast /\ WaitsOpen /\ NothingYet /\ InOrder
LogInv == TypeOK /\ PosInv /\ ContentInv

\* The next n accepted bytes put in behind position k.
LEMMA WithIs ==
  ASSUME NEW d \in [Cells -> Nat], NEW k \in Nat, NEW n \in Nat, k + n < BufSize,
         accepted \in Nat
  PROVE  LET w == With(d, k, n)
         IN  /\ w \in [Cells -> Nat]
             /\ \A i \in 1..k : w[i] = d[i]
             /\ \A i \in (k + 1)..(k + n) : w[i] = accepted + (i - k)
<1> DEFINE v(i) == IF i > k /\ i <= k + n THEN accepted + (i - k) ELSE d[i]
           w == [i \in Cells |-> v(i)]
<1>1. \A i \in Cells : v(i) \in Nat
  BY LogAssumption DEF Cells
<1>2. \A i \in 1..k : i \in Cells /\ v(i) = d[i]
  BY LogAssumption DEF Cells
<1>3. \A i \in (k + 1)..(k + n) : i \in Cells /\ v(i) = accepted + (i - k)
  BY LogAssumption DEF Cells
<1> HIDE DEF v
<1>4. w \in [Cells -> Nat] /\ \A i \in Cells : w[i] = v(i)
  BY <1>1
<1>5. With(d, k, n) = w
  BY DEF With, v
<1> HIDE DEF w
<1> QED
  BY <1>2, <1>3, <1>4, <1>5

\* Moving contents that are bytes of messages leaves bytes of messages.
LEMMA MovedIs ==
  ASSUME NEW ret \in Nat, NEW len \in Nat, ret + len < BufSize,
         data \in [Cells -> Nat], NEW d \in Moved(ret, len)
  PROVE  /\ d \in [Cells -> Nat]
         /\ (\A i \in 1..(ret + len) : data[i] > 0) => \A i \in 1..(ret + len) : d[i] > 0
         /\ ret = 0 => d = data
<1> USE LogAssumption DEF Cells
<1>1. CASE ret = 0
  BY <1>1 DEF Moved
<1>2. CASE ret > 0
  <2> DEFINE back == [i \in Cells |-> i - ret]
             round == [i \in Cells |-> ((i - 1) % ret) + 1]
             Copied(from) == [i \in Cells |-> IF i > ret /\ i <= ret + len
                                              THEN data[from[i]] ELSE data[i]]
             Positive(x) == \A i \in 1..(ret + len) : x[i] > 0
  <2>1. \A i \in Cells : i > ret => back[i] \in Cells /\ back[i] \in 1..i
    BY <1>2
  <2>2. \A i \in Cells : round[i] \in Cells /\ round[i] \in 1..ret
    <3> SUFFICES ASSUME NEW i \in Cells
                 PROVE  ((i - 1) % ret) + 1 \in 1..ret
      BY <1>2
    <3>1. (i - 1) % ret \in 0..(ret - 1)
      BY <1>2
    <3> QED
      BY <3>1
  <2>3. ASSUME NEW from,
               \A i \in Cells : i > ret => from[i] \in Cells /\ from[i] \in 1..i,
               d = Copied(from)
        PROVE  d \in [Cells -> Nat] /\ (Positive(data) => Positive(d))
    <3>1. d \in [Cells -> Nat]
      BY <2>3
    <3>2. ASSUME \A j \in 1..(ret + len) : data[j] > 0, NEW i \in 1..(ret + len) PROVE d[i] > 0
      <4>1. i \in Cells
        OBVIOUS
      <4>2. CASE i > ret
        <5>1. from[i] \in Cells /\ from[i] \in 1..(ret + len) /\ i <= ret + len
          BY <2>3, <4>1, <4>2
        <5>2. d[i] = data[from[i]]
          BY <2>3, <4>1, <4>2, <5>1
        <5> QED
          BY <3>2, <5>1, <5>2
      <4>3. CASE ~(i > ret)
        <5>1. d[i] = data[i]
          BY <2>3, <4>1, <4>3
        <5> QED
          BY <3>2, <5>1
      <4> QED
        BY <4>2, <4>3
    <3> QED
      BY <3>1, <3>2
  <2>4. d = Copied(back) \/ d = Copied(round)
    BY <1>2 DEF Moved
  <2>5. \A i \in Cells : i > ret => round[i] \in Cells /\ round[i] \in 1..i
    <3> SUFFICES ASSUME NEW i \in Cells, i > ret
                 PROVE  round[i] \in Cells /\ round[i] \in 1..i
      OBVIOUS
    <3>1. round[i] \in Cells /\ round[i] \in 1..ret
      BY <2>2
    <3> HIDE DEF round
    <3> QED
      BY <3>1
  <2> HIDE DEF back, round, Copied
  <2>6. d \in [Cells -> Nat] /\ (Positive(data) => Positive(d))
    <3> HIDE DEF Positive
    <3> QED
      BY <2>1, <2>3, <2>4, <2>5
  <2> QED
    BY <1>2, <2>6
<1> QED
  BY <1>1, <1>2

\* The bytes a write takes to the file, and the file they make.
LEMMA ChunkIs ==
  ASSUME data \in [Cells -> Nat], NEW n \in 0..BufSize, NEW c \in Chunks(n)
  PROVE  /\ c \in Seq(Nat) /\ Len(c) = n
         /\ ~freed => \A i \in 1..n : c[i] = data[i]
<1>1. \A i \in 1..n : data[i] \in Nat
  BY LogAssumption DEF Cells
<1>2. CASE c = [i \in 1..n |-> data[i]]
  BY <1>1, <1>2
<1>3. CASE freed /\ c = [i \in 1..n |-> 0]
  BY <1>3
<1> QED
  BY <1>2, <1>3 DEF Chunks

LEMMA JoinIs ==
  ASSUME NEW a \in Seq(Nat), NEW b \in Seq(Nat)
  PROVE  LET r == a \o b
         IN  /\ r \in Seq(Nat) /\ Len(r) = Len(a) + Len(b)
             /\ \A i \in 1..Len(a) : r[i] = a[i]
             /\ \A i \in (Len(a) + 1)..(Len(a) + Len(b)) : r[i] = b[i - Len(a)]
<1> DEFINE r == a \o b
<1>1. r \in Seq(Nat) /\ Len(r) = Len(a) + Len(b) /\ Len(a) \in Nat /\ Len(b) \in Nat
  OBVIOUS
<1>2. \A i \in 1..(Len(a) + Len(b)) : r[i] = IF i <= Len(a) THEN a[i] ELSE b[i - Len(a)]
  BY ConcatProperties
<1> HIDE DEF r
<1>3. \A i \in 1..Len(a) : r[i] = a[i]
  BY <1>1, <1>2
<1>4. \A i \in (Len(a) + 1)..(Len(a) + Len(b)) : r[i] = b[i - Len(a)]
  BY <1>1, <1>2
<1> QED
  BY <1>1, <1>3, <1>4 DEF r

LEMMA PartIs ==
  ASSUME NEW s \in Seq(Nat), NEW m \in Nat, NEW n \in Nat, m + n <= Len(s)
  PROVE  LET r == SubSeq(s, m + 1, m + n)
         IN  r \in Seq(Nat) /\ Len(r) = n /\ \A i \in 1..n : r[i] = s[m + i]
  OBVIOUS

LEMMA FileWithIs ==
  ASSUME file \in Seq(Nat), append \in BOOLEAN, NEW c \in Seq(Nat)
  PROVE  LET f == FileWith(c)
         IN  /\ f \in Seq(Nat)
             /\ (\A i \in DOMAIN file : file[i] > 0) /\ (\A i \in DOMAIN c : c[i] > 0)
                  => \A i \in DOMAIN f : f[i] > 0
<1> DEFINE tail == SubSeq(file, Len(c) + 1, Len(file))
           Positive(s) == \A i \in DOMAIN s : s[i] > 0
<1>1. tail \in Seq(Nat) /\ (Positive(file) => Positive(tail))
  <2>1. tail \in Seq(Nat)
    OBVIOUS
  <2>2. \A i \in DOMAIN tail : Len(c) + i \in DOMAIN file /\ tail[i] = file[Len(c) + i]
    OBVIOUS
  <2> QED
    BY <2>1, <2>2
<1>2. ASSUME NEW a \in Seq(Nat), NEW b \in Seq(Nat), Positive(a), Positive(b)
      PROVE  Positive(a \o b)
  <2>1. Len(a) \in Nat /\ Len(b) \in Nat /\ DOMAIN a = 1..Len(a) /\ DOMAIN b = 1..Len(b)
    OBVIOUS
  <2> DEFINE r == a \o b
  <2>2. /\ DOMAIN r = 1..(Len(a) + Len(b))
        /\ \A i \in 1..Len(a) : r[i] = a[i]
        /\ \A i \in (Len(a) + 1)..(Len(a) + Len(b)) : r[i] = b[i - Len(a)]
    BY JoinIs
  <2> HIDE DEF r
  <2>3. ASSUME NEW i \in DOMAIN r PROVE r[i] > 0
    <3>1. CASE i \in 1..Len(a)
      BY <1>2, <2>1, <2>2, <3>1
    <3>2. CASE i \in (Len(a) + 1)..(Len(a) + Len(b))
      <4>1. i - Len(a) \in DOMAIN b
        BY <2>1, <3>2
      <4> QED
        BY <1>2, <2>2, <3>2, <4>1
    <3> QED
      BY <2>1, <2>2, <3>1, <3>2
  <2> QED
    BY <2>3 DEF r
<1> HIDE DEF tail
<1>3. FileWith(c) = file \o c \/ FileWith(c) = c \o tail
  BY DEF FileWith, tail
<1>4. file \o c \in Seq(Nat) /\ c \o tail \in Seq(Nat)
  BY <1>1
<1> QED
  BY <1>1, <1>2, <1>3, <1>4

LEMMA BufferIs ==
  ASSUME TypeOK, PosInv, NEW n \in Nat, Buffer(n)
  PROVE  /\ data' \in [Cells -> Nat] /\ dpos' \in Nat /\ accepted' \in Nat
         /\ dpos' >= dpos /\ dpos' < BufSize
         /\ \E k \in Nat : dpos' = dpos + k /\ accepted' = accepted + k
         /\ \A i \in 1..dpos : data'[i] = data[i]
         /\ \A i \in (dpos + 1)..dpos' : data'[i] = accepted + (i - dpos)
<1>1. dpos \in Nat /\ accepted \in Nat /\ dpos < BufSize /\ data \in [Cells -> Nat]
  BY DEF TypeOK, PosInv, BufferBounds
<1>2. CASE data' = With(data, dpos, n) /\ dpos' = dpos + n /\ accepted' = accepted + n
           /\ dpos + n < BufSize
  <2> DEFINE w == With(data, dpos, n)
  <2>1. /\ w \in [Cells -> Nat]
        /\ \A i \in 1..dpos : w[i] = data[i]
        /\ \A i \in (dpos + 1)..(dpos + n) : w[i] = accepted + (i - dpos)
    BY <1>1, <1>2, WithIs
  <2> HIDE DEF w
  <2> QED
    BY <1>1, <1>2, <2>1 DEF w
<1>3. CASE UNCHANGED <<data, dpos, accepted>>
  BY <1>1, <1>3
<1> QED
  BY <1>2, <1>3 DEF Buffer

LEMMA TypeNext == TypeOK /\ PosInv /\ [Next]_vars => TypeOK'
<1> SUFFICES ASSUME TypeOK, PosInv, [Next]_vars PROVE TypeOK'
  OBVIOUS
<1> USE LogAssumption DEF TypeOK, handle, history
<1>1. ASSUME NEW a \in BOOLEAN, NEW l \in LevelArgs, Open(a, l) PROVE TypeOK'
  <2>1. level' \in 0..3
    BY <1>1 DEF Open, ValidLevel
  <2> QED
    BY <1>1, <2>1 DEF Open
<1>2. CASE OpenFails
  BY <1>2 DEF OpenFails
<1>3. CASE Close
  <2>1. freed' \in BOOLEAN
    BY <1>3 DEF Close
  <2> QED
    BY <1>3, <2>1 DEF Close
<1>4. CASE StrayClose
  BY <1>4 DEF StrayClose
<1>5. ASSUME NEW l \in LevelArgs, SetLevel(l) PROVE TypeOK'
  BY <1>5 DEF SetLevel, ValidLevel
<1>6. CASE Start
  BY <1>6 DEF Start
<1>7. CASE Fail
  BY <1>7 DEF Fail
<1>8. ASSUME NEW n \in 0..nbytes, Complete(n) PROVE TypeOK'
  <2>1. n \in 0..BufSize
    BY DEF PosInv, BufferBounds
  <2>2. PICK c \in Chunks(n) : file' = FileWith(c)
    BY <1>8 DEF Complete
  <2>3. file' \in Seq(Nat)
    <3>1. c \in Seq(Nat)
      BY <2>1, ChunkIs
    <3> QED
      BY <2>2, <3>1, FileWithIs
  <2> QED
    BY <1>8, <2>3 DEF Complete
<1>9. ASSUME NEW n \in Lengths, LogDone(n) PROVE TypeOK'
  <2> DEFINE len == dpos - res
  <2>1. /\ len \in Nat /\ len < BufSize /\ n \in Nat /\ res \in Nat
        /\ res + len < BufSize
    BY <1>9 DEF LogDone, PosInv, BufferBounds
  <2>2. \A d \in Moved(res, len) : d \in [Cells -> Nat]
    <3> HIDE DEF len
    <3> QED
      BY <2>1, MovedIs
  <2>3. PICK d \in Moved(res, len) :
            \/ data' = With(d, len, n) /\ len + n < BufSize
               /\ dpos' = len + n /\ accepted' = accepted + n
            \/ data' = d /\ dpos' = len /\ UNCHANGED accepted
    BY <1>9 DEF LogDone
  <2>4. /\ nbytes' = dpos' /\ aio' = "queued"
        /\ mangled' \in BOOLEAN
        /\ UNCHANGED <<st, fdOpen, append, level, res, wait, file, freed>>
    BY <1>9 DEF LogDone
  <2> HIDE DEF len
  <2>5. data' \in [Cells -> Nat] /\ dpos' \in Nat /\ accepted' \in Nat
    <3>1. d \in [Cells -> Nat] /\ accepted \in Nat
      BY <2>2
    <3>2. len + n < BufSize => With(d, len, n) \in [Cells -> Nat]
      BY <2>1, <3>1, WithIs
    <3> QED
      BY <2>1, <2>3, <3>1, <3>2
  <2> QED
    BY <2>4, <2>5
<1>10. ASSUME NEW n \in Lengths, LogBusy(n) \/ LogCanceled(n) PROVE TypeOK'
  <2>1. data' \in [Cells -> Nat] /\ dpos' \in Nat /\ accepted' \in Nat
    BY <1>10, BufferIs DEF LogBusy, LogCanceled
  <2> QED
    BY <1>10, <2>1 DEF LogBusy, LogCanceled
<1>11. ASSUME NEW n \in Lengths, LogSuspends(n) PROVE TypeOK'
  BY <1>11 DEF LogSuspends
<1>12. CASE SuspendReturns
  <2>1. data' \in [Cells -> Nat] /\ dpos' \in Nat /\ accepted' \in Nat
    BY <1>12, BufferIs DEF SuspendReturns
  <2> QED
    BY <1>12, <2>1 DEF SuspendReturns
<1>13. CASE SuspendFails
  BY <1>13 DEF SuspendFails
<1>14. CASE UNCHANGED vars
  BY <1>14 DEF vars
<1> QED
  BY <1>1, <1>2, <1>3, <1>4, <1>5, <1>6, <1>7, <1>8, <1>9, <1>10, <1>11, <1>12,
     <1>13, <1>14 DEF Next

LEMMA LogInvInit == Init => LogInv
<1> SUFFICES ASSUME Init PROVE LogInv
  OBVIOUS
<1>1. TypeOK
  <2>1. data \in [Cells -> Nat] /\ file \in Seq(Nat)
    BY EmptySeq DEF Init
  <2>2. wait \in Lengths \cup {0} /\ level \in 0..3
    BY DEF Init
  <2> QED
    BY <2>1, <2>2 DEF Init, TypeOK
<1>2. ContentInv
  BY DEF Init, ContentInv, BufferFull, NoJunk, FreedLast, WaitsOpen, NothingYet, InOrder
<1> QED
  BY <1>1, <1>2, PosInvInit DEF LogInv

\* What the proofs below use of the types.
LEMMA LogTypes ==
  ASSUME LogInv
  PROVE  /\ dpos \in Nat /\ nbytes \in Nat /\ res \in Nat /\ accepted \in Nat
         /\ wait \in Nat /\ Taken \in 0..dpos /\ dpos < BufSize /\ nbytes <= dpos
         /\ data \in [Cells -> Nat] /\ file \in Seq(Nat)
         /\ Len(file) \in Nat /\ DOMAIN file = 1..Len(file)
         /\ append \in BOOLEAN
  BY DEF LogInv, TypeOK, PosInv, BufferBounds, Taken

\* Steps that touch neither the contents of the buffer nor the file.
LEMMA QuietHolds ==
  ASSUME LogInv, UNCHANGED <<data, dpos, file, accepted, mangled>>, Taken' = Taken,
         st' = "none" => st = "none" /\ (aio' = aio \/ aio # "done"),
         st' = "open" => st = "open" /\ append' = append,
         freed' => st' = "closed", freed' \/ ~freed,
         wait' > 0 => st' = "open"
  PROVE  ContentInv'
<1> USE DEF LogInv, ContentInv
<1>1. BufferFull' /\ NoJunk' /\ FreedLast' /\ WaitsOpen' /\ NothingYet'
  BY DEF BufferFull, NoJunk, FreedLast, WaitsOpen, NothingYet
<1>2. InOrder'
  BY DEF InOrder
<1> QED
  BY <1>1, <1>2

LEMMA BufferHolds ==
  ASSUME LogInv, NEW n \in Nat, Buffer(n), st = "open" \/ wait > 0,
         UNCHANGED <<st, append, file, mangled, freed>>, Taken' = Taken,
         wait' = wait \/ wait' = 0
  PROVE  ContentInv'
<1> USE DEF LogInv, ContentInv
<1>1. /\ data' \in [Cells -> Nat] /\ dpos' \in Nat /\ accepted' \in Nat
      /\ dpos' >= dpos /\ dpos' < BufSize
      /\ \A i \in 1..dpos : data'[i] = data[i]
      /\ \A i \in (dpos + 1)..dpos' : data'[i] = accepted + (i - dpos)
  BY BufferIs
<1>2. BufferFull'
  <2> SUFFICES ASSUME NEW i \in 1..dpos' PROVE data'[i] > 0
    BY DEF BufferFull
  <2>1. CASE i \in 1..dpos
    BY <1>1, <2>1 DEF BufferFull
  <2>2. CASE i \in (dpos + 1)..dpos'
    <3>1. data'[i] = accepted + (i - dpos)
      BY <1>1, <2>2
    <3> QED
      BY <2>2, <3>1, LogTypes
  <2> QED
    BY <1>1, <2>1, <2>2, LogTypes
<1>3. st = "open"
  BY DEF WaitsOpen
<1>4. NoJunk' /\ FreedLast' /\ WaitsOpen' /\ NothingYet'
  BY <1>3 DEF NoJunk, FreedLast, WaitsOpen, NothingYet
<1>5. InOrder'
  <2> SUFFICES ASSUME append, ~mangled
               PROVE  /\ Len(file) + (dpos' - Taken) = accepted'
                      /\ \A i \in 1..Len(file) : file[i] = i
                      /\ \A i \in (Taken + 1)..dpos' : data'[i] = Len(file) + (i - Taken)
    BY DEF InOrder
  <2>1. /\ Len(file) + (dpos - Taken) = accepted
        /\ \A i \in 1..Len(file) : file[i] = i
        /\ \A i \in (Taken + 1)..dpos : data[i] = Len(file) + (i - Taken)
    BY <1>3 DEF InOrder
  <2>2. ASSUME NEW i \in (Taken + 1)..dpos'
        PROVE  data'[i] = Len(file) + (i - Taken)
    <3>1. i \in Int /\ Taken + 1 <= i /\ Taken \in Int
      BY LogTypes
    <3>2. CASE i <= dpos
      <4>1. i \in 1..dpos /\ i \in (Taken + 1)..dpos
        BY <3>1, <3>2, LogTypes
      <4> QED
        BY <1>1, <2>1, <4>1
    <3>3. CASE i > dpos
      <4>1. data'[i] = accepted + (i - dpos)
        BY <1>1, <3>1, <3>3, LogTypes
      <4> QED
        BY <2>1, <3>1, <4>1, LogTypes
    <3> QED
      BY <3>1, <3>2, <3>3, LogTypes
  <2>3. Len(file) + (dpos' - Taken) = accepted'
    <3> DEFINE f == Len(file)
               t == Taken
    <3>1. /\ f \in Nat /\ t \in Nat /\ dpos \in Nat /\ accepted \in Nat
          /\ dpos' \in Nat /\ accepted' \in Nat
      BY <1>1, LogTypes
    <3>2. f + (dpos - t) = accepted
      BY <2>1
    <3>4. PICK k \in Nat : dpos' = dpos + k /\ accepted' = accepted + k
      BY BufferIs
    <3> HIDE DEF f, t
    <3>3. f + (dpos' - t) = accepted'
      BY <3>1, <3>2, <3>4
    <3> QED
      BY <3>3 DEF f, t
  <2> QED
    BY <2>1, <2>2, <2>3
<1> QED
  BY <1>2, <1>4, <1>5

LEMMA OpenHolds ==
  ASSUME LogInv, NEW a \in BOOLEAN, NEW l \in LevelArgs, Open(a, l)
  PROVE  ContentInv'
<1> USE DEF LogInv, ContentInv
<1>1. /\ st = "none" /\ st' = "open" /\ dpos' = 0 /\ aio' = "queued"
      /\ UNCHANGED <<data, wait, file, accepted, freed, res>>
  BY DEF Open, history
<1>2. file = <<>> /\ accepted = 0 /\ ~freed
  BY <1>1 DEF NothingYet, FreedLast
<1>3. BufferFull' /\ NoJunk' /\ FreedLast' /\ WaitsOpen' /\ NothingYet'
  BY <1>1, <1>2 DEF BufferFull, NoJunk, FreedLast, WaitsOpen, NothingYet
<1>4. InOrder'
  BY <1>1, <1>2 DEF InOrder, Taken
<1> QED
  BY <1>3, <1>4

\* A write that ends moves the first bytes that wait in the buffer to the file.
LEMMA CompleteHolds ==
  ASSUME LogInv, NEW n \in 0..nbytes, Complete(n)
  PROVE  ContentInv'
<1> USE DEF LogInv, ContentInv
<1>1. /\ aio = "running" /\ aio' = "done" /\ res' = n
      /\ UNCHANGED <<st, append, data, dpos, wait, accepted, mangled, freed>>
  BY DEF Complete, handle, history
<1>2. Taken = 0 /\ Taken' = n
  BY <1>1 DEF Taken
<1>3. n \in 0..BufSize /\ n \in 0..dpos /\ n \in Nat
  BY LogAssumption, LogTypes
<1>4. PICK c \in Chunks(n) : file' = FileWith(c)
  BY DEF Complete
<1>5. c \in Seq(Nat) /\ Len(c) = n /\ (~freed => \A i \in 1..n : c[i] = data[i])
  BY <1>3, LogTypes, ChunkIs
<1>6. BufferFull' /\ FreedLast' /\ WaitsOpen'
  BY <1>1 DEF BufferFull, FreedLast, WaitsOpen
<1>7. NoJunk'
  <2> SUFFICES ASSUME ~freed PROVE \A i \in DOMAIN file' : file'[i] > 0
    BY <1>1 DEF NoJunk
  <2>1. ASSUME NEW i \in DOMAIN c PROVE c[i] > 0
    <3>1. i \in 1..n
      BY <1>5
    <3>2. i \in 1..dpos /\ c[i] = data[i]
      BY <1>3, <1>5, <3>1, LogTypes
    <3> QED
      BY <3>2 DEF BufferFull
  <2>2. \A i \in DOMAIN file : file[i] > 0
    BY DEF NoJunk
  <2> QED
    BY <1>4, <1>5, <2>1, <2>2, LogTypes, FileWithIs
<1>8. NothingYet'
  BY <1>1 DEF NothingYet
<1>9. InOrder'
  <2> SUFFICES ASSUME st = "open", append, ~mangled
               PROVE  /\ Len(file') + (dpos - n) = accepted
                      /\ \A i \in 1..Len(file') : file'[i] = i
                      /\ \A i \in (n + 1)..dpos : data[i] = Len(file') + (i - n)
    BY <1>1, <1>2 DEF InOrder
  <2>1. /\ Len(file) + (dpos - 0) = accepted
        /\ \A i \in 1..Len(file) : file[i] = i
        /\ \A i \in (0 + 1)..dpos : data[i] = Len(file) + (i - 0)
    BY <1>2 DEF InOrder
  <2>2. \A i \in 1..n : c[i] = data[i]
    BY <1>5 DEF FreedLast
  <2>3. /\ Len(file') = Len(file) + n
        /\ \A i \in 1..Len(file) : file'[i] = file[i]
        /\ \A i \in (Len(file) + 1)..(Len(file) + n) : file'[i] = c[i - Len(file)]
    <3>1. file' = file \o c
      BY <1>4 DEF FileWith
    <3> QED
      BY <1>5, <3>1, LogTypes, JoinIs
  <2>4. ASSUME NEW i \in 1..Len(file') PROVE file'[i] = i
    <3>1. CASE i \in 1..Len(file)
      BY <2>1, <2>3, <3>1
    <3>2. CASE i \in (Len(file) + 1)..(Len(file) + n)
      <4> DEFINE j == i - Len(file)
      <4>1. j \in 1..n /\ j \in 1..dpos /\ Len(file) + j = i
        BY <1>3, <3>2, LogTypes
      <4> HIDE DEF j
      <4>2. file'[i] = data[j]
        BY <2>2, <2>3, <3>2, <4>1 DEF j
      <4>3. data[j] = Len(file) + j
        BY <2>1, <4>1
      <4> QED
        BY <4>1, <4>2, <4>3
    <3> QED
      BY <1>3, <2>3, <3>1, <3>2, LogTypes
  <2>5. ASSUME NEW i \in (n + 1)..dpos PROVE data[i] = Len(file') + (i - n)
    <3>1. i \in 1..dpos
      BY <1>3, LogTypes
    <3>2. data[i] = Len(file) + i
      BY <2>1, <3>1
    <3> QED
      BY <1>3, <2>3, <3>2, LogTypes
  <2>6. Len(file') + (dpos - n) = accepted
    BY <1>3, <2>1, <2>3, LogTypes
  <2> QED
    BY <2>4, <2>5, <2>6
<1> QED
  BY <1>6, <1>7, <1>8, <1>9

LEMMA LogDoneHolds ==
  ASSUME LogInv, NEW n \in Lengths, LogDone(n)
  PROVE  ContentInv'
<1> DEFINE len == dpos - res
<1> USE DEF LogInv, ContentInv
<1>1. /\ st = "open" /\ wait = 0 /\ aio = "done" /\ aio' = "queued"
      /\ mangled' = (mangled \/ (res > 0 /\ len > 0))
      /\ UNCHANGED <<st, append, wait, file, freed>>
  BY DEF LogDone, Call, handle
<1>2. Taken = res /\ Taken' = 0
  BY <1>1 DEF Taken
<1>3. /\ len \in Nat /\ len <= dpos /\ len < BufSize /\ n \in Nat /\ n > 0
      /\ res + len = dpos /\ res + len < BufSize
  BY <1>2, LogAssumption, LogTypes
<1>4. PICK d \in Moved(res, len) :
        \/ /\ len + n < BufSize
           /\ data' = With(d, len, n) /\ dpos' = len + n /\ accepted' = accepted + n
        \/ data' = d /\ dpos' = len /\ UNCHANGED accepted
  BY DEF LogDone
<1> HIDE DEF len
<1>5. /\ d \in [Cells -> Nat] /\ (res = 0 => d = data)
      /\ (\A i \in 1..(res + len) : data[i] > 0) => \A i \in 1..(res + len) : d[i] > 0
  BY <1>3, LogTypes, MovedIs
<1>6. \A i \in 1..len : d[i] > 0
  <2>1. \A i \in 1..(res + len) : data[i] > 0
    BY <1>3 DEF BufferFull
  <2>2. \A i \in 1..len : i \in 1..(res + len)
    BY <1>3, LogTypes
  <2> QED
    BY <1>5, <2>1, <2>2
<1>7. len + n < BufSize =>
        /\ \A i \in 1..len : With(d, len, n)[i] = d[i]
        /\ \A i \in (len + 1)..(len + n) : With(d, len, n)[i] = accepted + (i - len)
  <2>1. accepted \in Nat
    BY LogTypes
  <2> QED
    BY <1>3, <1>5, <2>1, WithIs
<1>8. BufferFull'
  <2> SUFFICES ASSUME NEW i \in 1..dpos' PROVE data'[i] > 0
    BY DEF BufferFull
  <2>1. CASE data' = d /\ dpos' = len
    BY <1>6, <2>1
  <2>2. CASE len + n < BufSize /\ data' = With(d, len, n) /\ dpos' = len + n
    <3>1. CASE i <= len
      <4>1. i \in 1..len
        BY <1>3, <2>2, <3>1
      <4> QED
        BY <1>6, <1>7, <2>2, <4>1
    <3>2. CASE i > len
      <4>1. i \in (len + 1)..(len + n)
        BY <1>3, <2>2, <3>2
      <4>2. data'[i] = accepted + (i - len)
        BY <1>7, <2>2, <4>1
      <4> QED
        BY <1>3, <4>1, <4>2, LogTypes
    <3> QED
      BY <1>3, <2>2, <3>1, <3>2
  <2> QED
    BY <1>4, <2>1, <2>2
<1>9. NoJunk' /\ FreedLast' /\ WaitsOpen' /\ NothingYet'
  BY <1>1 DEF NoJunk, FreedLast, WaitsOpen, NothingYet
<1>10. InOrder'
  <2> SUFFICES ASSUME append, ~mangled, res = 0 \/ len = 0
               PROVE  /\ Len(file) + (dpos' - 0) = accepted'
                      /\ \A i \in 1..Len(file) : file[i] = i
                      /\ \A i \in (0 + 1)..dpos' : data'[i] = Len(file) + (i - 0)
    <3>1. InOrder' <=>
            (st = "open" /\ append /\ ~mangled' =>
               /\ Len(file) + (dpos' - 0) = accepted'
               /\ \A i \in 1..Len(file) : file[i] = i
               /\ \A i \in (0 + 1)..dpos' : data'[i] = Len(file) + (i - 0))
      BY <1>1, <1>2 DEF InOrder
    <3>2. ~mangled' => ~mangled /\ (res = 0 \/ len = 0)
      <4>1. (res > 0 \/ res = 0) /\ (len > 0 \/ len = 0)
        BY <1>3, LogTypes
      <4> QED
        BY <1>1, <4>1, Zenon
    <3> QED
      BY <3>1, <3>2
  <2>1. /\ Len(file) + (dpos - res) = accepted
        /\ \A i \in 1..Len(file) : file[i] = i
        /\ \A i \in (res + 1)..dpos : data[i] = Len(file) + (i - res)
    BY <1>1, <1>2 DEF InOrder
  <2>2. Len(file) + len = accepted
    BY <2>1 DEF len
  <2>3. ASSUME NEW i \in 1..len PROVE d[i] = Len(file) + i
    <3>1. res = 0 /\ d = data /\ i \in (res + 1)..dpos
      BY <1>3, <1>5
    <3>2. data[i] = Len(file) + (i - res)
      BY <2>1, <3>1
    <3> QED
      BY <3>1, <3>2
  <2>4. CASE data' = d /\ dpos' = len /\ UNCHANGED accepted
    BY <1>3, <2>1, <2>2, <2>3, <2>4
  <2>5. CASE /\ len + n < BufSize
             /\ data' = With(d, len, n) /\ dpos' = len + n /\ accepted' = accepted + n
    <3>1. Len(file) + dpos' = accepted'
      BY <1>3, <2>2, <2>5, LogTypes
    <3>2. ASSUME NEW i \in 1..dpos' PROVE data'[i] = Len(file) + i
      <4>1. CASE i <= len
        <5>1. i \in 1..len
          BY <1>3, <2>5, <4>1
        <5> QED
          BY <1>7, <2>3, <2>5, <5>1
      <4>2. CASE i > len
        <5>1. i \in (len + 1)..(len + n)
          BY <1>3, <2>5, <4>2
        <5>2. data'[i] = accepted + (i - len)
          BY <1>7, <2>5, <5>1
        <5> QED
          BY <1>3, <2>2, <5>1, <5>2, LogTypes
      <4> QED
        BY <1>3, <2>5, <4>1, <4>2
    <3> QED
      BY <1>3, <2>1, <2>5, <3>1, <3>2
  <2> QED
    BY <1>4, <2>4, <2>5
<1> QED
  BY <1>8, <1>9, <1>10

LEMMA LogInvNext == LogInv /\ [Next]_vars => LogInv'
<1> SUFFICES ASSUME LogInv, [Next]_vars PROVE LogInv'
  OBVIOUS
<1> DEFINE Quiet ==
      /\ UNCHANGED <<data, dpos, file, accepted, mangled>>
      /\ Taken' = Taken
      /\ st' = "none" => st = "none" /\ (aio' = aio \/ aio # "done")
      /\ st' = "open" => st = "open" /\ append' = append
      /\ freed' => st' = "closed"
      /\ freed' \/ ~freed
      /\ wait' > 0 => st' = "open"
<1>1. TypeOK' /\ PosInv'
  BY TypeNext, PosInvNext DEF LogInv
<1>2. FreedLast /\ WaitsOpen /\ TypeOK /\ wait \in Nat
  BY LogTypes DEF LogInv, ContentInv
<1>3. ASSUME OpenFails \/ Close \/ StrayClose \/ \E l \in LevelArgs : SetLevel(l)
      PROVE  ContentInv'
  <2>1. Quiet
    BY <1>2, <1>3 DEF OpenFails, Close, StrayClose, SetLevel, FreedLast, WaitsOpen, Taken,
                      handle, history
  <2> QED
    BY <2>1, QuietHolds
<1>4. ASSUME Start \/ Fail \/ SuspendFails \/ \E n \in Lengths : LogSuspends(n)
      PROVE  ContentInv'
  <2>1. Quiet
    BY <1>2, <1>4 DEF Start, Fail, SuspendFails, LogSuspends, Call, InProgress, FreedLast,
                      WaitsOpen, Taken, handle, history
  <2> QED
    BY <2>1, QuietHolds
<1>5. ASSUME UNCHANGED vars PROVE ContentInv'
  <2>1. Quiet
    BY <1>2, <1>5 DEF vars, FreedLast, WaitsOpen, Taken
  <2> QED
    BY <2>1, QuietHolds
<1>6. ASSUME NEW n \in Lengths, LogBusy(n) \/ LogCanceled(n) PROVE ContentInv'
  <2>1. /\ Buffer(n) /\ st = "open"
        /\ UNCHANGED <<st, append, wait, file, mangled, freed>> /\ Taken' = Taken
    BY <1>6 DEF LogBusy, LogCanceled, Call, InProgress, Taken, handle, history
  <2>2. n \in Nat
    BY LogAssumption
  <2> QED
    BY <2>1, <2>2, BufferHolds
<1>7. ASSUME SuspendReturns PROVE ContentInv'
  <2>1. /\ Buffer(wait) /\ wait > 0 /\ wait' = 0
        /\ UNCHANGED <<st, append, file, mangled, freed>> /\ Taken' = Taken
    BY <1>7 DEF SuspendReturns, Taken, handle, history
  <2> QED
    BY <1>2, <2>1, BufferHolds
<1>8. ContentInv'
  BY <1>3, <1>4, <1>5, <1>6, <1>7, OpenHolds, CompleteHolds, LogDoneHolds DEF Next
<1> QED
  BY <1>1, <1>8 DEF LogInv

\* AioLog's type invariant.
THEOREM TypeCorrect == Spec => []TypeOK
<1>1. LogInv => TypeOK
  BY DEF LogInv
<1> QED
  BY <1>1, LogInvInit, LogInvNext, PTL DEF Spec

(***************************************************************************)
(* The file never holds a byte that no message put into the buffer, not    *)
(* even when llog has moved the wrong ones - as long as lclose has not     *)
(* freed the buffer of a write that was running.                           *)
(***************************************************************************)
THEOREM OnlyMessages == Spec => []NoJunk
<1>1. LogInv => NoJunk
  BY DEF LogInv, ContentInv
<1> QED
  BY <1>1, LogInvInit, LogInvNext, PTL DEF Spec

(***************************************************************************)
(* A log opened for appending, of which no write was collected that left   *)
(* bytes behind, is the accepted messages in their order: what the file    *)
(* does not have yet is in the buffer.                                     *)
(***************************************************************************)
THEOREM LogIsPerfect == Spec => []FileIsLog
<1>1. LogInv => FileIsLog
  <2> SUFFICES ASSUME LogInv, st = "open", append, ~mangled
               PROVE  file \o SubSeq(data, Taken + 1, dpos) = [i \in 1..accepted |-> i]
    <3>1. Taken + 1 = IF aio = "done" THEN res + 1 ELSE 1
      BY DEF Taken
    <3>2. FileIsLog <=>
            (st = "open" /\ append /\ ~mangled
               => file \o SubSeq(data, Taken + 1, dpos) = [i \in 1..accepted |-> i])
      BY <3>1, Zenon DEF FileIsLog
    <3> QED
      BY <3>2, Zenon
  <2>1. /\ Len(file) + (dpos - Taken) = accepted
        /\ \A i \in 1..Len(file) : file[i] = i
        /\ \A i \in (Taken + 1)..dpos : data[i] = Len(file) + (i - Taken)
    BY DEF LogInv, ContentInv, InOrder
  <2> DEFINE n == dpos - Taken
             rest == SubSeq(data, Taken + 1, dpos)
             log == [i \in 1..accepted |-> i]
  <2>2. n \in Nat /\ Taken \in Nat /\ dpos = Taken + n /\ accepted \in Nat
    BY LogTypes
  <2>3. /\ rest \in Seq(Nat) /\ Len(rest) = n
        /\ \A i \in 1..n : rest[i] = Len(file) + i
    <3>1. data \in Seq(Nat) /\ Len(data) = BufSize
      BY LogAssumption, LogTypes, SeqDef DEF Cells
    <3>2. /\ rest \in Seq(Nat) /\ Len(rest) = n
          /\ \A i \in 1..n : rest[i] = data[Taken + i]
      <4> DEFINE r == SubSeq(data, Taken + 1, Taken + n)
      <4>1. rest = r
        BY <2>2
      <4> HIDE DEF n
      <4>2. Taken + n <= Len(data)
        BY <2>2, <3>1, LogTypes
      <4>3. r \in Seq(Nat) /\ Len(r) = n /\ \A i \in 1..n : r[i] = data[Taken + i]
        BY <2>2, <3>1, <4>2, PartIs
      <4> HIDE DEF r, rest
      <4> QED
        BY <4>1, <4>3
    <3>3. ASSUME NEW i \in 1..n PROVE data[Taken + i] = Len(file) + i
      <4>1. Taken + i \in (Taken + 1)..dpos /\ (Taken + i) - Taken = i
        BY <2>2
      <4> QED
        BY <2>1, <4>1
    <3> QED
      BY <3>2, <3>3
  <2>4. log \in Seq(Nat) /\ Len(log) = accepted /\ \A i \in 1..accepted : log[i] = i
    BY <2>2
  <2> HIDE DEF rest, log, n
  <2>5. /\ file \o rest \in Seq(Nat) /\ Len(file \o rest) = Len(file) + n
        /\ \A i \in 1..Len(file) : (file \o rest)[i] = file[i]
        /\ \A i \in (Len(file) + 1)..(Len(file) + n) : (file \o rest)[i] = rest[i - Len(file)]
    BY <2>3, LogTypes, JoinIs
  <2>6. accepted = Len(file) + n
    BY <2>1 DEF n
  <2>7. ASSUME NEW i \in 1..accepted PROVE (file \o rest)[i] = log[i]
    <3>1. CASE i \in 1..Len(file)
      BY <2>1, <2>4, <2>5, <3>1
    <3>2. CASE i \in (Len(file) + 1)..(Len(file) + n)
      <4>1. i - Len(file) \in 1..n /\ Len(file) + (i - Len(file)) = i
        BY <2>2, <3>2, LogTypes
      <4> QED
        BY <2>3, <2>4, <2>5, <3>2, <4>1
    <3>3. i \in 1..Len(file) \/ i \in (Len(file) + 1)..(Len(file) + n)
      BY <2>2, <2>6, LogTypes
    <3> QED
      BY <3>1, <3>2, <3>3
  <2> QED
    BY <2>4, <2>5, <2>6, <2>7, SeqEqual DEF rest, log
<1> QED
  BY <1>1, LogInvInit, LogInvNext, PTL DEF Spec
=============================================================================

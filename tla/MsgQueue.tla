------------------------------ MODULE MsgQueue ------------------------------
(***************************************************************************)
(* The message extension (message/message.cpp) on one System V queue:      *)
(* libmsg.dequeue, which sends, and libmsg.enqueue, which receives.  Each  *)
(* call first looks the queue up (msgget), and creates it when it is not   *)
(* there; only a call that found it goes on to msgsnd or msgrcv.  Between  *)
(* two system calls of one process the others run, and somebody may remove *)
(* the queue or send to it past this library.                              *)
(***************************************************************************)
EXTENDS Integers, Sequences, FiniteSets

CONSTANTS
  Procs,       \* the threads and processes that call the library
  SendTypes,   \* the message types they send
  RecvTypes,   \* the types they ask for: 0, positive or negative
  TextLens,    \* the lengths of the texts they send
  MaxMsgLen,   \* MAX_MSG_LEN, 1024*64: a multiple of sizeof(long)
  LongSize,    \* sizeof(long): 4, or 8 on a 64-bit build
  Word,        \* 2^(8*LongSize): the mlen field holds numbers below it
  MsgMax,      \* the system's limit on a message (/proc/sys/kernel/msgmax)
  Capacity,    \* how many messages the queue holds
  Foreign,     \* what other programs send: sets of [size, mlen]
  MaxSends,    \* bound: calls of dequeue
  MaxForeign,  \* bound: messages of other programs
  MaxRemovals  \* bound: how often somebody removes the queue

ASSUME QueueAssumption ==
  /\ SendTypes \subseteq Int
  /\ RecvTypes \subseteq Int
  /\ TextLens \subseteq Nat
  /\ LongSize \in {4, 8}
  /\ MaxMsgLen \in Nat \ {0} /\ MaxMsgLen % LongSize = 0
  /\ Word \in Nat /\ Word > MaxMsgLen + 3 * LongSize + 4
  /\ MsgMax \in Nat
  /\ Capacity \in Nat
  /\ Foreign \subseteq [size : Nat, mlen : 0..(Word - 1)]
  /\ MaxSends \in Nat /\ MaxForeign \in Nat /\ MaxRemovals \in Nat

\* sizeof(mcontent), and of mtext_t, which ends at a multiple of its alignment:
\* four bytes behind mcontent on a 64-bit build.
ContentSize == MaxMsgLen + 4
Padding == (LongSize - (ContentSize % LongSize)) % LongSize
TextSize == LongSize + ContentSize + Padding

VARIABLES
  exists,   \* the queue exists
  msgid,    \* its identifier: a new one each time it is created
  queue,    \* its messages
  pc,       \* pc[p]: "idle", or the system call p makes next
  op,       \* op[p]: the arguments of p's call and the identifier it found
  reply,    \* reply[p]: what p's last call returned, ret and the text's length
  calls,    \* how many sends were called; they are numbered from 1
  foreign,  \* how many messages other programs sent
  out,      \* history: the messages received, in order
  okd,      \* history: the sends that returned 0
  lost,     \* history: those of them that created the queue
  gone      \* history: those whose message was removed with the queue

vars == <<exists, msgid, queue, pc, op, reply, calls, foreign, out, okd, lost, gone>>
kernel == <<exists, msgid, queue>>
history == <<out, okd, lost, gone>>

NoOp == [id |-> 0, type |-> 0, len |-> 0, nowait |-> FALSE, found |-> 0]

\* A message: the send it is of (0: a foreign one), its type, its size and
\* the length its mlen field claims.
Message(id, type, size, mlen) ==
  [id |-> id, type |-> type, size |-> size, mlen |-> mlen]

Init ==
  /\ exists = FALSE
  /\ msgid = 0
  /\ queue = <<>>
  /\ pc = [p \in Procs |-> "idle"]
  /\ op = [p \in Procs |-> NoOp]
  /\ reply = [p \in Procs |-> [ret |-> 0, len |-> 0]]
  /\ calls = 0
  /\ foreign = 0
  /\ out = <<>>
  /\ okd = {}
  /\ lost = {}
  /\ gone = {}

\* The call of p returns ret and a text of len bytes.
Return(p, ret, len) ==
  /\ pc' = [pc EXCEPT ![p] = "idle"]
  /\ reply' = [reply EXCEPT ![p] = [ret |-> ret, len |-> len]]
  /\ op' = [op EXCEPT ![p] = NoOp]

\* p begins a call and looks the queue up: msgget(key, 0).
Lookup(p, o, found, missing) ==
  /\ pc[p] = "idle"
  /\ pc' = [pc EXCEPT ![p] = IF exists THEN found ELSE missing]
  /\ op' = [op EXCEPT ![p] = [o EXCEPT !.found = msgid]]
  /\ UNCHANGED <<kernel, reply, foreign, out, okd, lost, gone>>

\* msgget(key, IPC_CREAT | IPC_EXCL): it fails when another was faster.
Create == ~exists /\ exists' = TRUE /\ msgid' = msgid + 1 /\ queue' = <<>>

\* The queue p found is still there.
Found(p) == exists /\ op[p].found = msgid
-----------------------------------------------------------------------------
\* dequeue: a text that is too long is refused before anything else.
SendTooLong(p, len) ==
  /\ pc[p] = "idle"
  /\ len + 1 > MaxMsgLen
  /\ Return(p, -2, 0)
  /\ UNCHANGED <<kernel, calls, foreign, history>>

Send(p, type, len, nowait) ==
  /\ calls < MaxSends
  /\ len + 1 <= MaxMsgLen
  /\ calls' = calls + 1
  /\ Lookup(p, [NoOp EXCEPT !.id = calls + 1, !.type = type, !.len = len,
                            !.nowait = nowait], "msgsnd", "create_snd")

\* The queue is made and 0 returned: nothing was sent.
SendCreates(p) ==
  /\ pc[p] = "create_snd"
  /\ Create
  /\ Return(p, 0, 0)
  /\ okd' = okd \cup {op[p].id}
  /\ lost' = lost \cup {op[p].id}
  /\ UNCHANGED <<calls, foreign, out, gone>>

\* MUTANT: without IPC_EXCL the slower of two creators returns 0 as well.
CreateFailsNot(p) ==
  /\ pc[p] \in {"create_snd", "create_rcv"}
  /\ exists
  /\ Return(p, 0, 0)
  /\ okd' = okd \cup ({op[p].id} \ {0})
  /\ lost' = lost \cup ({op[p].id} \ {0})
  /\ UNCHANGED <<kernel, calls, foreign, out, gone>>

\* EEXIST: the queue is there by now, but the call fails.
CreateFails(p) ==
  /\ pc[p] \in {"create_snd", "create_rcv"}
  /\ exists
  /\ Return(p, -1, 0)
  /\ UNCHANGED <<kernel, calls, foreign, history>>

\* MUTANT: the length of the text is sent where the size belongs.
MsgsndShort(p) ==
  /\ pc[p] = "msgsnd"
  /\ Found(p) /\ op[p].type > 0 /\ op[p].len + LongSize <= MsgMax
  /\ Len(queue) < Capacity
  /\ queue' = Append(queue, Message(op[p].id, op[p].type, op[p].len, op[p].len))
  /\ Return(p, 0, op[p].len)
  /\ okd' = okd \cup {op[p].id}
  /\ UNCHANGED <<exists, msgid, calls, foreign, out, lost, gone>>

\* MUTANT: any type is sent.
MsgsndAnyType(p) ==
  /\ pc[p] = "msgsnd"
  /\ Found(p) /\ op[p].len + LongSize <= MsgMax
  /\ Len(queue) < Capacity
  /\ queue' = Append(queue, Message(op[p].id, op[p].type, op[p].len + LongSize,
                                    op[p].len))
  /\ Return(p, 0, op[p].len)
  /\ okd' = okd \cup {op[p].id}
  /\ UNCHANGED <<exists, msgid, calls, foreign, out, lost, gone>>

\* msgsnd(msgid, &sMsg, len+sizeof(long), flag) succeeds.
Msgsnd(p) ==
  /\ pc[p] = "msgsnd"
  /\ Found(p) /\ op[p].type > 0 /\ op[p].len + LongSize <= MsgMax
  /\ Len(queue) < Capacity
  /\ queue' = Append(queue, Message(op[p].id, op[p].type, op[p].len + LongSize,
                                    op[p].len))
  /\ Return(p, 0, op[p].len)
  /\ okd' = okd \cup {op[p].id}
  /\ UNCHANGED <<exists, msgid, calls, foreign, out, lost, gone>>

\* MUTANT: the flag is passed on as it is, and is not IPC_NOWAIT.
MsgsndFailsWaits(p) ==
  /\ pc[p] = "msgsnd"
  /\ ~Found(p) \/ op[p].type <= 0 \/ op[p].len + LongSize > MsgMax
  /\ Return(p, -1, 0)
  /\ UNCHANGED <<kernel, calls, foreign, history>>

\* It fails: a stale identifier, a bad type or size, or a full queue when the
\* caller does not wait.
MsgsndFails(p) ==
  /\ pc[p] = "msgsnd"
  /\ \/ ~Found(p) \/ op[p].type <= 0 \/ op[p].len + LongSize > MsgMax
     \/ Len(queue) >= Capacity /\ op[p].nowait
  /\ Return(p, -1, 0)
  /\ UNCHANGED <<kernel, calls, foreign, history>>
-----------------------------------------------------------------------------
\* enqueue.
Recv(p, type, nowait) ==
  /\ Lookup(p, [NoOp EXCEPT !.type = type, !.nowait = nowait],
            "msgrcv", "create_rcv")
  /\ UNCHANGED calls

\* The queue is made, and an empty text returned as if received.
RecvCreates(p) ==
  /\ pc[p] = "create_rcv"
  /\ Create
  /\ Return(p, 0, 0)
  /\ UNCHANGED <<calls, foreign, history>>

\* The messages msgrcv may take for type t: any, those of type t, or those of
\* the lowest type when that is at most -t.  It takes the first; 0 when there
\* is none.
Candidates(t) ==
  {i \in DOMAIN queue :
     \/ t = 0
     \/ t > 0 /\ queue[i].type = t
     \/ /\ t < 0
        /\ queue[i].type <= -t
        /\ \A j \in DOMAIN queue : queue[i].type <= queue[j].type}

Pick(t) ==
  IF Candidates(t) = {} THEN 0
  ELSE CHOOSE i \in Candidates(t) : \A j \in Candidates(t) : i <= j

\* What msgrcv returns for a message: MSG_NOERROR cuts it to the buffer.
Received(m) == IF m.size > TextSize THEN TextSize ELSE m.size

\* MUTANT: the size is not checked to be at least that of mlen, which the sum
\* of unsigned numbers can then wrap around to.
ValidWraps(m) ==
  /\ Received(m) + 4 <= TextSize
  /\ Received(m) = (m.mlen + LongSize) % Word

\* The three checks of enqueue, in unsigned arithmetic.
Valid(m) ==
  /\ Received(m) >= LongSize
  /\ Received(m) + 4 <= TextSize
  /\ Received(m) = (m.mlen + LongSize) % Word

Without(s, i) == SubSeq(s, 1, i - 1) \o SubSeq(s, i + 1, Len(s))

\* MUTANT: a message is looked at and stays in the queue.
MsgrcvKeeps(p) ==
  LET i == Pick(op[p].type) IN
  /\ pc[p] = "msgrcv"
  /\ Found(p) /\ i > 0
  /\ Len(out) < MaxSends + MaxForeign
  /\ out' = Append(out, queue[i])
  /\ Return(p, 0, 0)
  /\ UNCHANGED <<kernel, calls, foreign, okd, lost, gone>>

\* msgrcv takes a message, which enqueue returns or refuses; refused, it is
\* gone all the same.
Msgrcv(p) ==
  LET i == Pick(op[p].type)
      m == queue[i] IN
  /\ pc[p] = "msgrcv"
  /\ Found(p) /\ i > 0
  /\ queue' = Without(queue, i)
  /\ IF Valid(m)
     THEN out' = Append(out, m) /\ Return(p, Received(m) - LongSize, m.mlen)
     ELSE out' = out /\ Return(p, -2, 0)
  /\ UNCHANGED <<exists, msgid, calls, foreign, okd, lost, gone>>

\* It fails: a stale identifier, or no such message when the caller does not
\* wait.
MsgrcvFails(p) ==
  /\ pc[p] = "msgrcv"
  /\ ~Found(p) \/ (Pick(op[p].type) = 0 /\ op[p].nowait)
  /\ Return(p, -1, 0)
  /\ UNCHANGED <<kernel, calls, foreign, history>>

\* A signal interrupts a call that waits: msgsnd and msgrcv are not restarted.
Interrupted(p) ==
  /\ \/ pc[p] = "msgsnd" /\ Len(queue) >= Capacity
     \/ pc[p] = "msgrcv" /\ Pick(op[p].type) = 0
  /\ Found(p)
  /\ ~op[p].nowait
  /\ Return(p, -1, 0)
  /\ UNCHANGED <<kernel, calls, foreign, history>>
-----------------------------------------------------------------------------
\* The ids of the library's own messages in a sequence of messages.
Own(s) == {s[i].id : i \in DOMAIN s} \ {0}

\* Another program sends to the queue.
ForeignSend(f, type) ==
  /\ exists
  /\ foreign < MaxForeign
  /\ Len(queue) < Capacity
  /\ queue' = Append(queue, Message(0, type, f.size, f.mlen))
  /\ foreign' = foreign + 1
  /\ UNCHANGED <<exists, msgid, pc, op, reply, calls, history>>

\* Somebody removes the queue (ipcrm).
Remove ==
  /\ exists
  /\ msgid <= MaxRemovals
  /\ exists' = FALSE
  /\ queue' = <<>>
  /\ gone' = gone \cup Own(queue)
  /\ UNCHANGED <<msgid, pc, op, reply, calls, foreign, out, okd, lost>>

\* The script of p makes a call.
Begin(p) ==
  \/ \E len \in TextLens : SendTooLong(p, len)
  \/ \E t \in SendTypes, len \in TextLens, b \in BOOLEAN : Send(p, t, len, b)
  \/ \E t \in RecvTypes, b \in BOOLEAN : Recv(p, t, b)

\* A call of p goes on.
Proceed(p) ==
  \/ SendCreates(p) \/ RecvCreates(p) \/ CreateFails(p)
  \/ Msgsnd(p) \/ MsgsndFails(p) \/ Msgrcv(p) \/ MsgrcvFails(p)

Next ==
  \/ \E p \in Procs : Begin(p) \/ Proceed(p) \/ Interrupted(p)
  \/ \E f \in Foreign, t \in SendTypes \cap (Nat \ {0}) : ForeignSend(f, t)
  \/ Remove

Spec == Init /\ [][Next]_vars

\* A call that can go on does; nobody has to call, send, remove or signal.
FairSpec == Spec /\ \A p \in Procs : WF_vars(Proceed(p))
-----------------------------------------------------------------------------
Messages == [id : 0..MaxSends, type : Nat \ {0}, size : Nat, mlen : Nat]

TypeOK ==
  /\ exists \in BOOLEAN
  /\ msgid \in Nat
  /\ queue \in Seq(Messages)
  /\ pc \in [Procs -> {"idle", "create_snd", "msgsnd", "create_rcv", "msgrcv"}]
  /\ op \in [Procs -> [id : 0..MaxSends, type : Int, len : Nat,
                       nowait : BOOLEAN, found : Nat]]
  /\ reply \in [Procs -> [ret : Int, len : Nat]]
  /\ calls \in 0..MaxSends
  /\ foreign \in 0..MaxForeign
  /\ out \in Seq(Messages)
  /\ okd \subseteq 1..MaxSends
  /\ lost \subseteq okd
  /\ gone \subseteq okd

(***************************************************************************)
(* No message is invented, delivered twice or refused by enqueue's checks: *)
(* each send that returned 0 is in exactly one place, once - the queue,    *)
(* the received messages, the removed ones, or the call created the queue. *)
(***************************************************************************)
SentAccounted ==
  LET places == queue \o out IN
  /\ okd = Own(places) \cup lost \cup gone
  /\ \A i, j \in DOMAIN places :
       places[i].id = places[j].id /\ places[i].id # 0 => i = j
  /\ Own(places) \cap lost = {} /\ Own(places) \cap gone = {} /\ lost \cap gone = {}

\* A send that returns 0 drops its message at most once per created queue,
\* however many processes race to create it.
LossNeedsCreate == Cardinality(lost) <= msgid

(***************************************************************************)
(* enqueue passes mlen, a number from the message, to lua_pushlstring.     *)
(* Whatever another program has put into the queue, the text it returns is *)
(* inside mcontent and as long as the returned number says.                *)
(***************************************************************************)
ReplyInside ==
  \A p \in Procs : /\ reply[p].len <= ContentSize
                   /\ reply[p].ret > 0 => reply[p].len = reply[p].ret

(***************************************************************************)
(* A call with the flag set, as main.lua's are, returns: no state of the   *)
(* queue and nothing the other processes do or leave undone blocks it.     *)
(***************************************************************************)
NoWaitReturns ==
  \A p \in Procs : pc[p] # "idle" /\ op[p].nowait ~> pc[p] = "idle"

=============================================================================

------------------------------- MODULE AioLog -------------------------------
(***************************************************************************)
(* The logger extension (log/log.cpp): one handle from lopen to lclose.    *)
(* llog puts its message into the handle's buffer; one asynchronous write  *)
(* at a time (aio_write) carries the front of the buffer to the file.  The *)
(* write is only looked at by the next llog, which collects it if it has   *)
(* ended and issues the next one.                                          *)
(*                                                                         *)
(* A byte is the number of its acceptance: the k-th byte of all messages   *)
(* that llog has put into the buffer is k, so the perfect log is 1, 2, 3,  *)
(* ...; 0 is memory that no message was written to.  The helper thread of  *)
(* the C library copies the bytes of a write out of the buffer at some     *)
(* time while it runs; taking that to be its last moment loses nothing     *)
(* because of InFlightUntouched.                                           *)
(***************************************************************************)
EXTENDS Integers, Sequences

CONSTANTS
  BufSize,   \* BUFSIZE, 1024*16 in the code
  Slack,     \* with less room than this (1024*2) llog waits for the write
  Lengths,   \* the lengths of messages
  LevelArgs, \* the levels that scripts pass
  MaxBytes   \* bound: how many bytes are accepted

ASSUME LogAssumption ==
  /\ BufSize \in Nat \ {0}
  /\ Slack \in Nat
  /\ Lengths \subseteq Nat \ {0}
  /\ LevelArgs \subseteq Int
  /\ MaxBytes \in Nat

VARIABLES
  st,       \* the handle: "none", "open", "failed" (open failed), "closed"
  fdOpen,   \* m_fd is open
  append,   \* O_APPEND in m_flag; else every write is at offset 0
  level,    \* m_level
  data,     \* m_data
  dpos,     \* m_dpos, the end of what is in the buffer
  nbytes,   \* aio_nbytes, the length of the latest write
  aio,      \* m_acb: "queued" and "running" (EINPROGRESS), "done", "failed",
            \* "canceled"
  res,      \* what aio_return will say of a write that is done
  wait,     \* the length of the message whose llog is in aio_suspend, or 0
  file,     \* the bytes in the file
  accepted, \* history: how many bytes llog has put into the buffer
  mangled,  \* history: a write was collected that left bytes behind in the
            \* buffer, and llog has moved the wrong ones
  freed     \* history: lclose has freed the buffer of a running write

vars == <<st, fdOpen, append, level, data, dpos, nbytes, aio, res, wait, file,
          accepted, mangled, freed>>
handle == <<st, fdOpen, append, level>>
history == <<mangled, freed>>

Cells == 1..BufSize
Byte == 0..MaxBytes
InProgress == aio \in {"queued", "running"}

Init ==
  /\ st = "none"
  /\ fdOpen = FALSE
  /\ append = FALSE
  /\ level = 0
  /\ data = [i \in Cells |-> 0]
  /\ dpos = 0
  /\ nbytes = 0
  /\ aio = "done"
  /\ res = 0
  /\ wait = 0
  /\ file = <<>>
  /\ accepted = 0
  /\ mangled = FALSE
  /\ freed = FALSE
-----------------------------------------------------------------------------
ValidLevel(l) == l \in 0..3

\* lopen: _open issues a write of no bytes, so that llog has one to collect.
Open(a, l) ==
  /\ st = "none"
  /\ st' = "open"
  /\ fdOpen' = TRUE
  /\ append' = a
  /\ level' = IF ValidLevel(l) THEN l ELSE 0
  /\ dpos' = 0
  /\ nbytes' = 0
  /\ aio' = "queued"
  /\ UNCHANGED <<data, res, wait, file, accepted, history>>

\* lopen returns a handle also when the file could not be opened.
OpenFails ==
  /\ st = "none"
  /\ st' = "failed"
  /\ UNCHANGED <<fdOpen, append, level, data, dpos, nbytes, aio, res, wait,
                 file, accepted, history>>

\* MUTANT: the level is not looked at.
SetLevelAny(l) ==
  /\ st = "open"
  /\ wait = 0
  /\ level' = l
  /\ UNCHANGED <<st, fdOpen, append, data, dpos, nbytes, aio, res, wait, file,
                 accepted, history>>

\* lsetlevel.
SetLevel(l) ==
  /\ st = "open"
  /\ wait = 0
  /\ ValidLevel(l)
  /\ level' = l
  /\ UNCHANGED <<st, fdOpen, append, data, dpos, nbytes, aio, res, wait, file,
                 accepted, history>>

\* lclose: aio_cancel, close, delete.  A queued write is cancelled; one that
\* is running is not, and goes on with the freed buffer.
Close ==
  /\ st = "open"
  /\ wait = 0
  /\ st' = "closed"
  /\ fdOpen' = FALSE
  /\ aio' = IF aio = "queued" THEN "canceled" ELSE aio
  /\ freed' = (aio = "running")
  /\ UNCHANGED <<append, level, data, dpos, nbytes, res, wait, file, accepted,
                 mangled>>

\* lclose of another handle whose open failed: its m_fd was never set and may
\* be this file's descriptor.
StrayClose ==
  /\ st = "open"
  /\ fdOpen
  /\ fdOpen' = FALSE
  /\ aio' = IF aio = "queued" THEN "canceled" ELSE aio
  /\ UNCHANGED <<st, append, level, data, dpos, nbytes, res, wait, file,
                 accepted, history>>
-----------------------------------------------------------------------------
(* The asynchronous write, in the C library and the kernel.                *)

\* A helper thread takes the write up; a closed descriptor is an error at once.
Start ==
  /\ aio = "queued"
  /\ aio' = IF fdOpen THEN "running" ELSE "failed"
  /\ UNCHANGED <<handle, data, dpos, nbytes, res, wait, file, accepted, history>>

\* The bytes of a write of n bytes; a freed buffer may hold anything.
Chunks(n) ==
  {[i \in 1..n |-> data[i]]} \cup (IF freed THEN {[i \in 1..n |-> 0]} ELSE {})

\* The file after chunk c is written to it.
FileWith(c) ==
  IF append THEN file \o c ELSE c \o SubSeq(file, Len(c) + 1, Len(file))

\* The write ends; on a full disk it may be short.
Complete(n) ==
  /\ aio = "running"
  /\ n <= nbytes /\ (n = 0 => nbytes = 0)
  /\ \E c \in Chunks(n) : file' = FileWith(c)
  /\ aio' = "done"
  /\ res' = n
  /\ UNCHANGED <<handle, data, dpos, nbytes, wait, accepted, history>>

\* The write ends with an error: no space, an I/O error.
Fail ==
  /\ aio = "running"
  /\ aio' = "failed"
  /\ UNCHANGED <<handle, data, dpos, nbytes, res, wait, file, accepted, history>>
-----------------------------------------------------------------------------
(* llog, with a message of n bytes.                                        *)

\* llog is called on a handle that was opened.
Call(n) == st = "open" /\ wait = 0 /\ n \in Lengths /\ accepted + n <= MaxBytes

\* Buffer d with the next n accepted bytes put in behind position k.
With(d, k, n) ==
  [i \in Cells |-> IF i > k /\ i <= k + n THEN accepted + (i - k) ELSE d[i]]

(***************************************************************************)
(* memcpy(m_data+ret, m_data, len), which was meant to move the len bytes  *)
(* behind the ret written ones to the front.  It copies forward from the   *)
(* front; when the two overlap the result is that of either direction.     *)
(***************************************************************************)
Moved(ret, len) ==
  IF ret = 0 THEN {data}
  ELSE {[i \in Cells |-> IF i > ret /\ i <= ret + len THEN data[i - ret] ELSE data[i]],
        [i \in Cells |-> IF i > ret /\ i <= ret + len
                         THEN data[((i - 1) % ret) + 1] ELSE data[i]]}

\* MUTANT: the room is checked against the end of the old contents only.
LogDoneUnchecked(n) ==
  LET len == dpos - res IN
  /\ Call(n)
  /\ aio = "done"
  /\ mangled' = (mangled \/ (res > 0 /\ len > 0))
  /\ \E d \in Moved(res, len) :
       IF len < BufSize
       THEN /\ data' = With(d, len, n)
            /\ dpos' = len + n
            /\ accepted' = accepted + n
       ELSE data' = d /\ dpos' = len /\ UNCHANGED accepted
  /\ nbytes' = dpos'
  /\ aio' = "queued"
  /\ UNCHANGED <<handle, res, wait, file, freed>>

\* MUTANT: a write sends one byte more, the terminator that was not copied.
LogDoneTerminator(n) ==
  /\ Call(n)
  /\ aio = "done"
  /\ dpos = res
  /\ n < BufSize
  /\ data' = With(data, 0, n)
  /\ dpos' = n
  /\ accepted' = accepted + n
  /\ nbytes' = n + 1
  /\ aio' = "queued"
  /\ UNCHANGED <<handle, res, wait, file, history>>

\* MUTANT: what is still in the buffer is not sent along.
LogDoneDrops(n) ==
  /\ Call(n)
  /\ aio = "done"
  /\ n < BufSize
  /\ data' = With(data, 0, n)
  /\ dpos' = n
  /\ accepted' = accepted + n
  /\ nbytes' = dpos'
  /\ aio' = "queued"
  /\ UNCHANGED <<handle, res, wait, file, history>>

\* The latest write is done: collect it and issue the next one, with the
\* message or, when there is no room for it, without.
LogDone(n) ==
  LET len == dpos - res IN
  /\ Call(n)
  /\ aio = "done"
  /\ mangled' = (mangled \/ (res > 0 /\ len > 0))
  /\ \E d \in Moved(res, len) :
       IF len + n < BufSize
       THEN /\ data' = With(d, len, n)
            /\ dpos' = len + n
            /\ accepted' = accepted + n
       ELSE data' = d /\ dpos' = len /\ UNCHANGED accepted
  /\ nbytes' = dpos'
  /\ aio' = "queued"
  /\ UNCHANGED <<handle, res, wait, file, freed>>

\* The message goes behind what is in the buffer, if there is room for it.
Buffer(n) ==
  IF dpos + n < BufSize
  THEN /\ data' = With(data, dpos, n)
       /\ dpos' = dpos + n
       /\ accepted' = accepted + n
  ELSE UNCHANGED <<data, dpos, accepted>>

\* MUTANT: the message goes to the front of the buffer.
LogBusyAtFront(n) ==
  /\ Call(n)
  /\ InProgress
  /\ dpos + Slack <= BufSize
  /\ n < BufSize
  /\ data' = With(data, 0, n)
  /\ dpos' = dpos + n
  /\ accepted' = accepted + n
  /\ UNCHANGED <<handle, nbytes, aio, res, wait, file, history>>

\* EINPROGRESS, and the buffer has room.
LogBusy(n) ==
  /\ Call(n)
  /\ InProgress
  /\ dpos + Slack <= BufSize
  /\ Buffer(n)
  /\ UNCHANGED <<handle, nbytes, aio, res, wait, file, history>>

\* EINPROGRESS, and little room: aio_suspend, for a second at most.
LogSuspends(n) ==
  /\ Call(n)
  /\ InProgress
  /\ dpos + Slack > BufSize
  /\ wait' = n
  /\ UNCHANGED <<handle, data, dpos, nbytes, aio, res, file, accepted, history>>

\* The write ended in time.  The message joins the buffer; the write is not
\* collected before the next llog.
SuspendReturns ==
  /\ wait > 0
  /\ ~InProgress
  /\ Buffer(wait)
  /\ wait' = 0
  /\ UNCHANGED <<handle, nbytes, aio, res, file, history>>

\* It did not, or a signal came: the message is refused.
SuspendFails ==
  /\ wait > 0
  /\ wait' = 0
  /\ UNCHANGED <<handle, data, dpos, nbytes, aio, res, file, accepted, history>>

\* MUTANT: a failed write is taken for a cancelled one and issued again.
LogCanceledOrFailed(n) ==
  /\ Call(n)
  /\ aio \in {"canceled", "failed"}
  /\ dpos + n < BufSize
  /\ Buffer(n)
  /\ nbytes' = dpos'
  /\ aio' = "queued"
  /\ UNCHANGED <<handle, res, wait, file, history>>

\* ECANCELED: the whole buffer is written again, if the message fits.
LogCanceled(n) ==
  /\ Call(n)
  /\ aio = "canceled"
  /\ dpos + n < BufSize
  /\ Buffer(n)
  /\ nbytes' = dpos'
  /\ aio' = "queued"
  /\ UNCHANGED <<handle, res, wait, file, history>>

\* After any other error of the write llog only reports it: no step.

Next ==
  \/ \E a \in BOOLEAN, l \in LevelArgs : Open(a, l)
  \/ OpenFails \/ Close \/ StrayClose
  \/ \E l \in LevelArgs : SetLevel(l)
  \/ Start \/ Fail
  \/ \E n \in 0..nbytes : Complete(n)
  \/ \E n \in Lengths : LogDone(n) \/ LogBusy(n) \/ LogSuspends(n) \/ LogCanceled(n)
  \/ SuspendReturns \/ SuspendFails

Spec == Init /\ [][Next]_vars
-----------------------------------------------------------------------------
TypeOK ==
  /\ st \in {"none", "open", "failed", "closed"}
  /\ fdOpen \in BOOLEAN
  /\ append \in BOOLEAN
  /\ level \in 0..3
  /\ data \in [Cells -> Nat]
  /\ dpos \in Nat
  /\ nbytes \in Nat
  /\ aio \in {"queued", "running", "done", "failed", "canceled"}
  /\ res \in Nat
  /\ wait \in Lengths \cup {0}
  /\ file \in Seq(Nat)
  /\ accepted \in Nat
  /\ mangled \in BOOLEAN
  /\ freed \in BOOLEAN

(***************************************************************************)
(* Every memcpy of llog stays inside m_data and the length m_dpos - ret is *)
(* not negative: the latest write is a part of the buffer's contents, and  *)
(* the contents end before the buffer does.                                *)
(***************************************************************************)
BufferBounds ==
  /\ nbytes <= dpos
  /\ dpos < BufSize
  /\ aio = "done" => res <= nbytes

(***************************************************************************)
(* While a write is in progress llog only appends behind it: no byte the   *)
(* helper thread may be reading changes.                                   *)
(***************************************************************************)
InFlightUntouched ==
  [][InProgress => \A i \in 1..nbytes : data'[i] = data[i]]_vars

(***************************************************************************)
(* As long as each collected write had taken everything out of the buffer, *)
(* a log opened for appending is perfect: the file and then the bytes that *)
(* wait in the buffer are the accepted messages, all of them, once and in  *)
(* their order.                                                            *)
(***************************************************************************)
FileIsLog ==
  LET pending == SubSeq(data, IF aio = "done" THEN res + 1 ELSE 1, dpos) IN
  st = "open" /\ append /\ ~mangled => file \o pending = [i \in 1..accepted |-> i]

(***************************************************************************)
(* Also when messages are mangled, the file holds bytes of messages only,  *)
(* never uninitialised memory - unless lclose freed the buffer of a write  *)
(* that was running.                                                       *)
(***************************************************************************)
NoJunk == ~freed => \A i \in DOMAIN file : file[i] > 0

(***************************************************************************)
(* A failed write is never issued again: from then on nothing reaches the  *)
(* file, though an llog that was waiting still reports its message stored. *)
(***************************************************************************)
ErrorIsFinal ==
  [][st = "open" /\ aio = "failed" => aio' = "failed" /\ file' = file]_vars

=============================================================================

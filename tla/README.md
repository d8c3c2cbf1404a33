# Verification of mylua: main frame, extensions and embedded Lua

mylua is a small application server around Lua 5.1. A C++ program, the *main
frame* (`src/src/mainframe/test.cpp`), runs threads that call a script's `main`
function over and over; native functions and loadable extensions give the
scripts sessions, logging, message queues and codecs. Lua 5.1.4 itself is part
of the repository (`src/dep/lua-5.1.4`), with one change to its module loader.
This directory holds TLA+ models of that code, the TLC configurations that check
them, and TLAPS proofs.

    tlc -config <name>.cfg MC<module>      tlapm <module>Proofs.tla

`PROJECT.json` lists the runs, the proofs, the source lines behind every
definition, and for each property a mutation of the model that breaks it.

## 1. The system

| part | state | operations | talks to |
|---|---|---|---|
| session store, `test.cpp` 14-150 | `g_stseq` (stack of free numbers), `g_mapVal` (number -> node), the static counter of `get_seqno`, the mutex `seqno_lock` | `get_seqno`, `cls_seqno`, `get_value`, `set_value` | called by scripts of all threads |
| deal loop, `test.cpp` 159-275 | `bExit`, `bUpdate`, one Lua state per thread | `main` (create, join), `deal` (load, `init`, message loop, `clear`), `signal_handle` | signals, the script on disk |
| script `bin/scripts/main.lua` | its local number | one session per call of `main`, codecs, one send, one receive | store, tools, message |
| logger, `log/log.cpp` | per handle: buffer, `m_dpos`, one `aiocb`, level | `lopen`, `lclose`, `lgetlevel`, `lsetlevel`, `llog` | `aio_write` and its helper thread |
| message extension, `message/message.cpp` | none of its own; a System V queue | `dequeue` (sends), `enqueue` (receives) | other processes |
| tools, `tools/tools.cpp`, `base64.c`, `hex.cpp` | none | base64 and two escaping codecs | called by scripts |
| module loader, `loadlib.c` (changed) | `package.loaded`, `package.preload`, the libraries of the registry | `require`, `module`, `loadlib`, the finalizer of a library | brings the extensions into a script |
| collector, `lgc.c`, `lfunc.c`, `lstring.c`, `lstate.c` | `global_State`: colours, gray lists, sweep positions, string table, finalizers | `luaC_step`, `luaC_fullgc`, barriers, `lua_close` | every allocation and store of the program |
| tables, `ltable.c` | array part, node vector, `lastfree` | get, set, resize, `next`, `#` | collector (dead keys), machine |
| calls and coroutines, `ldo.c`, `lbaselib.c` | `CallInfo`s, `nCcalls`, `errorJmp`, thread status | call, `pcall`, `xpcall`, error, resume, wrap, yield | the C stack that they share |
| compiler, `lparser.c`, `lcode.c` | `LexState`, `FuncState`, `expdesc` | one pass from tokens to bytecode | machine |
| machine, `lvm.c`, bytecode checker of `ldebug.c` | stack, `CallInfo`s, upvalues, tables | the opcodes | compiler |
| pattern matching, `lstrlib.c` | `MatchState` | `find`, `match`, `gmatch`, `gsub` | called by scripts |
| `tools/test` (3DES), `libframe` (template), Lua's lexer, dump and stand-alone tools, other libraries | | | not modelled, section 7 |

What is hard here, and what has to hold in spite of it:

* **Session store.** Threads interleave at the mutex, numbers are recycled, any
  script may pass any number, and a Lua error leaves native code by `longjmp`.
  The stack may never be empty, a number may never have two owners, a session
  may not see another's values, the mutex must be given back.
* **Deal loop.** Two plain flags are written by a handler, in two assignments,
  and reset by the threads. A SIGTERM must end the program, a SIGUSR1 must load
  the new script, and failing scripts may not pile up Lua states.
* **Logger.** A buffer is filled while a helper thread reads it; writes end
  late, short, with an error, or are cancelled. The positions must stay inside
  the buffer and the file must be the messages, once and in order.
* **Message extension.** Lookup, creation and use of the queue are separate
  system calls of racing processes; the queue may vanish in between; messages
  of other programs may be malformed. Nothing is duplicated or invented, what
  is lost is known, a no-wait call returns.
* **Codecs.** Buffers are sized by formulas; texts must survive the round trip.
* **Loader.** Chunks require one another, fail, and are caught anywhere below; a
  library must outlive the finalizers that lie in it.
* **Collector.** It runs in small steps between which the program moves
  references behind its back. Nothing in use may be freed, whatever is garbage
  must go, a finalizer runs once and in time.
* **Tables.** Collisions move keys, a full node vector re-sizes both parts, and a
  traversal goes on while fields are cleared and their keys are collected.
* **Calls.** An error or a yield leaves several frames of several threads at once;
  the one counter of the C stack has to be right afterwards.
* **Compiler and machine.** One pass, with jumps whose targets and values are
  decided later, registers that are reused as soon as possible, and variables
  that outlive their scope in closures.
* **Pattern matching.** A failed attempt must leave no trace in the captures, and
  an empty match must make progress.

## 2. Modules

| module | models | next to it |
|---|---|---|
| `SessionStore` | the four native functions | `MCSessionStore`, `SessionStoreProofs` |
| `Deal` | `main`, `deal`, `signal_handle` | `MCDeal`, `DealProofs` |
| `Mainframe` | `Deal` and `SessionStore` composed by `main.lua` | `MCMainframe`, `MainframeProofs` |
| `AioLog` | one log handle with its asynchronous write | `MCAioLog`, `AioLogProofs` |
| `MsgQueue` | both calls on one queue key | `MCMsgQueue`, `MsgQueueProofs` |
| `Base64` | `base64.c` behind `encode_base64`/`decode_base64` | `CodecProofs` |
| `HexCodec` | `hex.cpp` | `CodecProofs` |
| `LuaLoader` | `loadlib.c` | `LuaRuntimeProofs` |
| `LuaGC` | the collector and the program's side of its protocol | `LuaGCProofs` |
| `LuaTable` | `ltable.c` | `LuaRuntimeProofs` |
| `LuaCall` | `ldo.c`, `pcall`, `xpcall`, the coroutine library | `LuaRuntimeProofs` |
| `LuaCode`, `LuaParser` | `lcode.c`; `lparser.c` on top of it | `LuaPrograms` (what is compiled) |
| `LuaVM` | the bytecode checker and the machine; extends the compiler | `MCLuaVM` |
| `LuaMeaning` | what a program means, the reference for `LuaVM` | |
| `LuaMatch` | the matcher and its callers, with its reference | |

`MCLuaRuntime` puts the four machines of the Lua runtime (collector, tables,
calls, loader) side by side, and `MCAlgorithms` the pure algorithms (compiler and
machine, matcher, codecs). The parts share no state; `which` says which one a
behaviour is about, so each is checked as if it were alone.

Definitions whose comment begins with `MUTANT` or `Mutant` are faulty variants of
the definition that follows them. They are not part of any specification.

### SessionStore
A native call is three steps: it arrives at the mutex (`EnterGetSeqno`, ...,
after the argument checks; a call they turn away has no effect and no step),
gets it (`Acquire`), and does its work and unlocks (`PopSeqno`, `NextSeqno`,
`ClsSeqno`, `GetValue`, `SetValue`). `GetValueRaises` is the `lua_pushstring`
inside `get_value`'s critical section raising a memory error. `held` records
which numbers a script was given and what it stored under them; with
`Disciplined` scripts pass only those, otherwise any number. `operator[]` of
`std::map` makes nodes, also when `get_value` only reads (`NodeAt`).

### Deal
`pc[w]` is the place in `deal`; each place is a point between two accesses of
the flags or two calls into Lua. The two assignments of the SIGTERM handler are
two steps (`TermExit`, `TermUpdate`). Calls of the script return, fail, or fail
with an error object that is no string (`Panics`: `luaL_checkstring` outside any
`lua_pcall` ends the process). `at` remembers where the threads were when a
SIGTERM handler returned.

### Mainframe
Variables of both components plus the script's program counter `line` and its
local number `num`. `MainLua` is the sequence of native calls; a thread at place
`main` of `Deal` makes them one by one. The steps of the components are theirs,
conjoined. That the composition refines `Deal` follows from the way it is written
and is no property of its own. The store's calls are taken without its
`Disciplined` assumption; `ImplementsStore` checks that they keep it, which is a
fact about `main.lua`.

### AioLog
The k-th byte that `llog` puts into the buffer is the number k, so a perfect log
is 1, 2, 3, ... The write is `queued`, `running`, then `done`, `failed` or
`canceled`; `Complete(n)` may be short. `LogDone`, `LogBusy`, `LogSuspends` and
`LogCanceled` are `llog` by the state of the write it finds; a call that finds a
failed write only reports, so it is no step. `Moved` is the code's `memcpy` as
written, undefined overlap included.

### MsgQueue
One step per system call: `msgget`, the exclusive `msgget`, `msgsnd` or
`msgrcv`. The kernel's queue is external and modelled by its manual: types,
capacity, `MSG_NOERROR`, `EINTR`, stale identifiers. Lengths are kept and
unsigned sums wrap at `Word`, texts are not kept. `Padding` is what the compiler
puts behind `mcontent`, four bytes where a `long` has eight.

### Base64, HexCodec
The control of the C functions, over bytes and characters as numbers. A text is
encoded and the result decoded, or some other string is decoded. `EncodeResults`
gives what the script really gets from `encode_base64`: nothing when the buffer
is too small, a string that runs on when no byte is left for its terminator. In
`HexCodec` the decoder walks through memory (`mem`) that goes on behind the
string.

### LuaLoader
A world says what there is for each name: a Lua file, a library, and the
`luaopen_` functions in it. `Require` goes through the four searchers up to the
call of the chunk, `Finish` is the rest of `ll_require`; between them other
chunks run. `Raised` is an error caught at any level. `udata` is the order in
which userdata were made, which is what `lua_close` goes by.

### LuaGC
An object is a slot with a type; `ref` are its references. `Step` is
`singlestep` in each of its states, `CollectGarbage` is `luaC_fullgc` run to its
end, and the actions of the program are the stores that have a barrier (and the
two that have none: registers and open upvalues), the allocations, interned
strings that come back to life, upvalues found or closed. `atomic` is one call in
the code; here its four runs of `propagateall` are states of their own (`Atomic`),
in which the collector goes on and the program does nothing.

`lua_close` is taken in its steps: `CloseState` separates the udata that have a
`__gc`, once; `CloseFinalizes` calls the finalizer of the next one, which is
program code, so that between two of them every action of the program may come
(state `finalizer`); the one before has returned or has failed, which leaves its
values on the stack. When none is left, `FreeAll` frees everything. The collector
does not step in these finalizers: `GCTM` sets the threshold to twice the memory in
use for them. (A
finalizer of `lua_close` that allocates as much again as there is, or calls
`collectgarbage`, is left out.)

The collector's lists (gray, `grayagain`, `weak`, `tmudata`, the part of
`rootgc` that is still to be swept) are sets, and which object is taken next is a
`CHOOSE`: what is proved holds whatever the order, for the proofs know nothing of
it; TLC takes one order per heap, and the order of the slots in the configuration
is the one in which threads come last, so that what a thread refers to has been
looked at before. `MaxSteps` bounds the length of a full collection (the heaps
need far less); a cycle that it cuts off is no step. The collector keeps no byte
counts here, a step is due at any time, and the string table only grows
(`checkSizes` never shrinks it). A mode of the weak table, a `__gc` metatable and
the heaps that exist when a cycle starts are constants.

### LuaTable
The node vector with its chains of relative `next`, `lastfree`, and the dummy
node; `SetRaw`, `Resize`, `Rehash`, `NextKey` and `GetN` are the C functions.
`FindNode` walks the chain of a key's main position, as a recursive function
(`Chain`); `Store` is an assignment where a node can be had (`Fits`), `Reinsert`
the loops of `resize`. In `tb`, `ref` is the map that the program has assigned, and
`key` and `seen` belong to the traversal that is `on`. `KillKeys` is the collector
at work on the keys of cleared entries, in between `NextField` of a traversal.

### LuaCall
A thread is its list of frames with `nCcalls`, its handlers and its status;
`chain` are the threads that have resumed one another. One step unwinds one
thread: `Throw` goes back to the innermost handler of the running thread, as
`longjmp` and `luaD_pcall` do, and ends the thread where there is none. A wrapped
coroutine that has failed so is raised again by the thread that resumed it, in
the next step. `Refused` are the checks that `lua_resume` makes itself, behind those of
the library. `luaG_errormsg` first calls the error function of `xpcall`: that
is a frame `raise`, from which the error goes on when the function returns or
fails, or when there is no C stack left to call it.

### LuaCode, LuaParser, LuaVM, LuaMeaning
A program of `LuaPrograms` is a syntax tree. `Tokens` writes it down, `Compile`
is the parser with all of the code generator beneath it, `CheckCode` the
bytecode checker, and the actions of `LuaVM` run the code one instruction at a
time. `Meaning` evaluates the same tree with environments and cells. Compilation
and meaning are functions of the program, computed once (`Processed`).

### LuaMatch
A pattern is a sequence of items. `Match` follows `match` of `lstrlib.c` with
`max_expand`, `min_expand` and the captures; `Find`, `GMatch` and `GSub` walk over
the subject. `Meant` is the reference: of all the ways in which the items can
match, the one that the repetitions prefer, from left to right.

## 3. Runs

| run | checks | bounds |
|---|---|---|
| `store` | `NumbersDistinct`, `SessionIsolation`, and under fairness `LockIsFreed`, for scripts like `main.lua` | 2 threads, 1 field, 1 text, numbers to 2 |
| `store_any` | `StackNeverEmpty` for any calls; `LeakFreezesStore`: a leaked mutex is final | 2 threads, numbers to 2, both allocators, memory errors |
| `deal_pool` | `OneStatePerWorker`, `TermHonoured` | 3 threads, 2 edits of the script |
| `frame_two` | `NumbersBounded`, `NodesBounded`, `ImplementsStore` | 2 threads, 1 failing call |
| `frame_live` | `TermStops`, `UpdateLoads` under fairness, with script and mutex in the loop | 1 thread, as `main` starts; 2 failing calls, 2 edits |
| `log` | `BufferBounds`, `FileIsLog`, `NoJunk`, `InFlightUntouched` | buffer of 5, messages of 1, 2, 4, 5 bytes, 7 bytes in all |
| `queue` | `SentAccounted`, `LossNeedsCreate` | 2 callers, 3 sends, 1 removal, capacity 2, 32-bit `long` |
| `queue_raw` | `ReplyInside`, and under fairness `NoWaitReturns` | 2 callers, 2 foreign messages of 6 shapes, texts at the limits, 1 removal, capacity 2, 64-bit `long` |
| `lua_runtime` | collector: `NoDangling`, `TriColor`, `CollectIsComplete`, `FinalizedOnce` | 14 objects, 3 heaps, 2 operations of the program anywhere in a cycle or in the finalizers of `lua_close` |
| | tables: `TableIsMap`, `TraversalComplete` | 5 keys, two initial sizes |
| | calls: `DepthCounted`, `CoroutinesSound` | 2 coroutines, 3 frames each, a C stack of 4 with 3 to spare |
| | loader: `NoReentry`, `UnloadedLast` | 2 names in 6 worlds each, 2 running chunks, 2 userdata made |
| `algorithms` | compiler and machine: `AssertionsHold`, `SameMeaning` | every program of `LuaPrograms` (below) |
| | matcher: `FindIsMeant`, `SameMatches` | subjects to 3 letters and two of 4, all patterns of two repetitions with captures, references, anchors |
| | codecs: `RoundTrip`, `DecodeInside`, `HexRoundTrip`, `FitsBuffer`, `StaysInside` | base64: lengths 0 to 40, all bit patterns of interest in a group; escapes: texts to 4 and strings to 5 characters of each kind, 4 contents of memory behind |
| `lua_close` | `FreedFinalized`, a sentence of the manual that the code does not keep (section 6) | as the collector's part of `lua_runtime` |
| `lua_literals` | `SameMeaning`, which the compiler does not keep for some constants (section 6) | three `and`/`or` over `nil`, `true`, `false`, 1 |

Why the bounds suffice. Two threads show every race at one mutex; `deal_pool`
takes three because a SIGTERM can find one thread in the loop, one in the start
window and one past it. Numbers to two let the stack be refilled, recycled and
hold two entries. In the log, a buffer of five with a slack of two has room for
two messages, is filled by one, is too small for another, and reaches
`aio_suspend`; seven bytes let it fill, drain and fill again. Three sends fill
the queue with one lost to its creation. The foreign messages end at the limits of
`enqueue`'s checks and one byte off them, the padding of `mtext_t` included. A base64 group
is independent of its neighbours, so one group with all bit patterns and all
lengths modulo three and around the buffer formula's limits cover the encoder.

In the collector a lost object needs one store that hides a reference and one
that drops the old one: two operations, between any two steps. The three heaps
have what the phases treat differently: a coroutine whose local variable a
closure shares; a weak-keyed table that has a udata with a finalizer as its key;
closures that share a prototype and a variable. Two slots for udata let one that is
finalized make another. Five keys collide, overflow the
node vector and move into the array part. A C stack of four is full after two
coroutines in one another; three more for the handling of the overflow. Two names,
one of which is part of the other's library, each with a file, a library or
neither, that open, fail or lack the function, take every branch of the four
searchers.

`LuaPrograms` has all nestings of `and`, `or`, `not` and a comparison to depth two
in each place where a value is used differently, chains of three operators of
each precedence, closures made in every kind of loop and left in every way,
assignments between two targets that use each other, and lists of values through
calls, varargs, constructors, methods and tail calls. A program runs with all
truth values of its variables.

Where a bound is only a bound of TLC, section 5 removes it for the store, the
deal loop, the composition of the two, the logger, the message extension, the
loader, calls and coroutines, the collector, and the codecs.

Deadlock is checked in `store`. It is not in the others because the system may
stop there: the program ends, a handle or a Lua state is closed, a receiver waits
for ever, a computation is finished, or (in `store_any`, `frame_two`) everyone
waits for a leaked mutex.

## 4. Fairness

* `SessionStore!FairSpec`: a thread that holds the mutex, or finds it free, goes
  on. The operating system schedules runnable threads. Nothing is said about
  which of several waiting threads gets the mutex (`LockIsFreed` claims that it
  becomes free, not that a given thread gets it).
* `Deal!FairSpec`, `Mainframe!FairSpec`: threads run, a handler that has begun
  returns, and a call of the script's functions ends in one of its ways. For
  `main.lua` the last is justified: it has no unbounded loop and passes the
  no-wait flag to both message calls, which `queue_raw` shows to return. No
  fairness is assumed of signals and edits, nor between a call's outcomes.
* `MsgQueue!FairSpec`: a system call that can return does. Nobody has to call.

The modules of Lua state no fairness. Their machines terminate by construction or
run for as long as the program does; what must eventually happen in them is
stated as what a finished phase guarantees (`CollectIsComplete`, `SameMeaning`,
`TraversalComplete`).

## 5. Proofs

All theorems hold for every value of the constants that satisfies the `ASSUME`
of the module: bounds are numbers, `Empty` and `NoWorker` are different from what
they stand beside, a message type is an integer, a machine word is wider than
the text buffer, the pool is finite and not empty, the script has a field, the
main thread is no coroutine. Three
modules take an assumption of their own, `CStrings`, `LoaderConstants` and
`GcConstants` below.
`Mainframe`'s `MaxSeq` is only a cap for TLC; the assumption puts it beyond what
`NumbersBounded` allows, so it never stops a step.

* **SessionStoreProofs.** The inductive invariant has three layers. `TypeInv` is
  `TypeOK` together with `StackNeverEmpty`: the top is a number only because there
  is one. That gives `TypeCorrect` and `StackTopDefined`: a pop of the only entry
  leaves its successor. `LockInv` says that threads inside
  hold the lock, which gives `MutualExclusion`, and the converse under
  `~MayRaise`, which gives `LockNeverLeaks`; `LeakIsFinal` is an action property: once the
  holder is outside no critical section can be entered. `StoreInv` is for
  disciplined scripts on the stack allocator: the bottom of the stack is larger
  than every number ever handed out, numbers on the stack are distinct, held by
  nobody and without a node, and a call under way is about a number its script
  still holds. `NumbersNeverShared` and `SessionsIsolated` say none of that and
  need all of it: a fresh number must be new, and a recycled one must come
  without its old values.
* **DealProofs.** `TypeCorrect`; `LuaStatesBounded` from the relation of a
  thread's place to its count of open states, which is also what keeps the count
  a natural number; `TermNotLost` from `ExitInv` (from the handler's first
  assignment on `bExit` stays set) and `TermInv`: no thread is in the start window
  and `bExit` lets none enter it, so none is left that could reset `bUpdate`.
* **AioLogProofs.** `PosInv` is `BufferBounds` with types: a write is part of the
  contents, the contents end inside the buffer. `BufferSafe` follows, and
  `InFlightSafe`, because `llog` writes at `m_dpos` and behind while a write is in
  progress. `FailedForGood` needs no invariant: no branch of `llog` leads out of a
  failed write. `LogInv` adds what is in the buffer: every byte below `m_dpos` is
  one of a message, so that whatever a completion writes is one too, however
  often an overlapping `memcpy` has moved the wrong ones (`OnlyMessages`); and
  while that has not happened, the file has the accepted bytes from the first one
  on and the buffer goes on where the file ends (`InOrder`), which is
  `LogIsPerfect`. Between the completion of a write and the `llog` that collects
  it, bytes are in both; `Taken` is how many, and a collecting `llog` drops them.
* **MsgQueueProofs.** Any number of callers, sends, foreign messages and removals.
  `QInv` says, with the types, that exactly the calls in the middle of a send
  carry an identifier, each its own and none that has been answered with 0
  (`CallsInv`), and where the answered ones are (`PlacesInv`: queue, received,
  lost, removed, and no identifier twice). The first is what makes the second
  inductive: a message enters the queue under an identifier found nowhere else.
  Together they are `NothingInvented`. Its `QueueInv`, that the library's own
  messages are as long as they say, is why `enqueue`'s checks discard none of
  them. `ChecksSuffice` is about the others: for any `mlen` and any size, the
  tests in their order leave at most the size of `mcontent`, though the sum in
  one of them wraps. `OneLossPerQueue` counts what was lost against the
  identifiers `msgget` has made.
* **MainframeProofs.** That the composition is a behaviour of the store needs an
  invariant: `main.lua` passes only the number it holds, and only while it holds
  it, which is a fact about where the thread is in the script. `FrameInv` has `SessionInv`
  for it, which ties `line`, the place in `deal`, the call under way, the one
  number held and its node together, beside the store's own invariants, taken
  from `SessionStoreProofs` by instantiation. `StoreIsImplemented` follows, and
  with it every theorem about the store holds of the whole, the isolation of
  sessions first (`MessagesIsolated`). `LossInv` identifies the numbers handed out
  that are neither on the stack nor held: there is one for each failed `main` at
  most, since a script that ends has put its number back with a node under it.
  `NumbersAreRecycled` and `NodesDoNotPileUp` are that, counted.
* **CodecProofs**, the escapes (`CStrings`: texts, strings and what lies behind them have no
  NUL). The invariant says that the output is at most three times the input read
  (encoders) or the input read (decoders), that the input is terminated, and that
  whatever an encoder has written consists of whole escapes. That gives
  `BuffersSufficeUnlessCutShort` and `DecoderStaysInside`: a decoder leaves its input,
  and overruns its buffer by what it reads there, only where a string ends within
  an escape (`CutShort`), which an encoder never writes. In that case nothing is
  claimed, for nothing holds: how far it goes is up to the memory behind the string.
  `EscapesSurvive` is the round trip of whole texts. Its invariant, `LaidInv`, has
  no recursion: there is a function `f` from the characters of the text to the
  places where their pieces begin, each piece as long as its character asks for; the
  encoder extends it by one, the decoder is always at one of its values.
* **LuaRuntimeProofs**, the loader (`LoaderConstants`: a world says of every name
  what there is for it). `Marked`, that a running chunk's entry is the sentinel unless the
  program has written to it, gives `NeverReentered`. `LibOnce` and `LibOlder`, that
  a library has exactly one entry and that it is older than every object with a
  finalizer in the library, give `LibraryOutlivesFinalizers`; the collection of
  an object from the middle of the list is the step that needs the order.
* **LuaRuntimeProofs**, calls. Any number of coroutines, any depth, any limit of
  the C stack. `CallInv` counts without a sum: `IsCount` is a function from the
  frames of a thread to the calls from C up to each, which continues from where
  the thread that resumed it was. `Counted` and `Waits` say that `nCcalls` of the
  running thread and of the waiting ones is that count, `HandlersCount` that each
  handler has put aside the count of the frame it goes back to; an error then
  restores the right number however many frames it drops. For that the frames
  and handlers have to fit (`Framed`): handlers belong to the frames of `pcall`
  and `xpcall` in their order, and above a C function that calls nothing there is
  nothing but the frame that raises its error. `Rests` is about coroutines that
  wait to be resumed: one that has yielded has only Lua functions below, for
  `lua_yield` compares `nCcalls` with `baseCcalls`, and equal counts mean that no
  frame between is from C (`CountNone`). `DepthIsCounted` and `CoroutinesAreSound`
  (statuses, the chain and the frames agree) are conjuncts of it.
* **LuaRuntimeProofs**, tables (`TableConstants`: finitely many keys, of which the
  positive ones are the integers, and a hash for each). Any keys, any hashes, any
  sizes. `TableInvariant` is that `Good` is kept, and with it the map and the
  traversal:
  - `LinkOnce` and `Acyclic`: the `next` of two nodes are never the same one, and no
    chain comes back to a node of its own;
  - `Homed`: a key is in the chain of its main position, and the key that lies in
    that node belongs there, which is what Brent's variation is for: `NewKey` moves
    a colliding node that does not belong where it is (`Previous` is in its chain,
    because it is `Homed`), and only then chains to one that does;
  - `KeyOnce`: no key is twice in the nodes, but for dead ones, which lie further
    down the chain, so that `First` finds the living;
  - `FreeOk`: every node from `lastfree` on has a key. `lastfree` only moves down,
    and what it passes is taken or was never free;
  - `MapKept`: `ref` is what the table holds, and `Visited`: the fields that a
    traversal has been at are those up to its key, which can still be found, dead
    or alive. Assigning to fields that are there moves none of them.

  What a chain is, is needed for that, and is an induction: `OnIs` and the lemmas
  about `On` define it without recursion as the least set closed under `next`, and
  justify `Chain` by the well-founded order of an acyclic chain. `ReinsertIs` and
  `ResizeIs` are that a re-sized table has a node for everything that is put back:
  each insertion takes at most one, and there are as many as values and keys
  (`Rehash` counts the new key in). `BisectIs` and `UnboundIs` are that the two
  searches of `#` end, in as many steps as the model gives them, at a border.
  `TablesAreMaps` and `TraversalsAreComplete` follow.
* **LuaGCProofs** (`GcConstants`: finitely many slots, and heaps in which every
  reference is to an object that is there and of a type that can be in its place).
  Any number of objects of any kind, any heap, any number of operations of the
  program between the steps. `NothingDangles` and `ColorsHold` are `NoDangling` and
  `TriColor`; neither is inductive, for what may be reached now says nothing of
  what `atomic` will find. `CollectorInvariant` is (TLC checked it first):
  - `HeapInv`, in all states: references fit their place (`Shaped`), an open
    upvalue is a slot of the stack of a thread that is there (`Opened`), some types
    are never gray and some never black (`Painted`), the two threads and what awaits
    its finalizer are neither free nor dead (`Rooted`), nor is anything that such
    an object refers to (`Closed`);
  - `SweepInv`: outside marking, what does not have the current white is still on
    the way of the sweep or on `tmudata`;
  - `MarkInv`, while marking: `ListInv`, a gray object is on exactly one list and
    nothing is dead; `BlackInv`, a black object refers to no white one; and
    `AtomicInv`, the same for the gray objects that `atomic` has dealt with so far,
    which are more with each of its stages;
  - `Calm`: while the program runs and marking is under way, nothing awaits its
    finalizer.

  `BlackInv` and `AtomicInv` have two parameters, objects that may still refer to
  white ones and to which: a step is a change that breaks the invariant for the one
  object it blackens or stores into, and a `MarkAll` that repairs it. When `tmu` is
  done, nothing gray is left to be traversed and no live object refers to a white
  one, so that the new white of `FinishAtomic` makes nothing in use dead. The
  stores of the program are paid for by their barriers; registers need none,
  because a thread is gray until the second look. `NoDangling` speaks of `Reach`, a
  function over the depth: that it stays inside what is closed under references is
  an induction on that number, done with the least element of a set. A full
  collection is single steps, in the same way.

  `FinalizersRun` is the action property `FinalizedOnce`. The part of `IInv` it
  needs is `FinInv`: what is on `tmudata` is marked as finalized, and nothing that still
  waits has been finalized (`Counted`); and once `luaC_separateudata` has gone
  through the list, whatever is white in that cycle, and dead afterwards, has been
  looked at (`Judged`), which is why the sweep never frees one that waits.
  `luaC_fullgc` throws a cycle away in the middle of marking and sweeps at once:
  that this frees no waiting udata is because nothing is dead then. In `lua_close`
  the invariant goes on to hold between the finalizers, whatever they store; that
  they lose none of those still on `tmudata` is what lets `FreeAll` come when it is
  empty. What a finalizer makes there does not wait for one of its own (`Waiting`),
  so the theorem says nothing of it; `lua_close`, the run, says what happens.
* **CodecProofs**, base64. `GroupRoundTrip` is arithmetic of divisions by 4, 16 and 64.
  `CodecInv` (four characters read for at most three bytes written, and a buffer
  of half as much again) gives `TypeCorrect` and `DecoderInside`.
  `LongTextsTerminated` bounds where `RoundTrip`'s precondition can fail.
  `TextsSurvive` is `RoundTrip` for whole texts: encoded characters are a function
  of their position, so `TripInv` can say that after k groups of four the first
  3k bytes are back, or all there are; the padded group is a case of its own.

`TypeCorrect` of five modules, `MutualExclusion`, `LockNeverLeaks`,
`FailedForGood` and `MessagesIsolated` are proved and not checked by a run.

Only model-checked:

* all liveness (TLAPS has no fairness and no `ENABLED` here): `LockIsFreed`,
  `TermStops`, `UpdateLoads`, `NoWaitReturns`;
* compiler, machine, matcher and their references, which are written with
  `RECURSIVE` operators, as the C code is with recursive functions: no theorem
  can be checked in a module that declares one, and what such a definition
  computes for every input needs an induction over data that the installed
  provers cannot do (an induction on a number or along a chain, as in
  `LuaGCProofs` and `LuaRuntimeProofs`, they can, when it is stated with sets);
* `CollectIsComplete`, that all garbage goes: it would need the converse of the
  collector's invariant (what is black is reached), and that a collection ends.

## 6. What the checks show about the code

Two statements of the repository disagree with the code, each shown by a run that
must fail:

* the manual says of `lua_close` (`manual.html:2697`) that it destroys all objects,
  "calling the corresponding garbage-collection metamethods, if any". `lstate.c:203`
  looks for them once, before the first finalizer runs; a udata with `__gc` that a
  finalizer makes is freed without (`lua_close`);
* the manual (2.5.3) says which operand `and` and `or` return. `luaK_goiftrue`
  and `luaK_goiffalse` compile some constants to a plain jump that carries no
  value, and the value is then another one's: `((1 or false) and true) or false`
  yields 1 where it should yield `true`, and `((nil and nil) or false) and true`
  yields `nil` where it should yield `false` (`lua_literals`). The passing run has
  its operands in variables, where everything is as the manual says.

Weaknesses that no document contradicts are in the models as they are in the
code, and the properties are stated around them:

* a SIGTERM handled between the test of `bExit` and the reset of `bUpdate` is not
  honoured until another signal or failure (`TermHonoured` has the exact window);
* a Lua memory error in `get_value` freezes the store for the process's life;
* failed sessions leave a node and a number behind; `check_timeout`, written for
  them, is never started;
* `log.cpp:150` moves the wrong bytes when a collected write has left some in the
  buffer (`mangled`), which any `llog` during a write brings about; `lclose` frees
  the buffer of a running write; a log not opened for appending overwrites itself;
* the first send to a queue that does not exist returns 0 and is lost;
* `encode_base64` has too small a buffer for texts of some lengths below 26;
* `base64.h:30` announces -1 for every failure, `base64.c:160` and the code have
  -1 to -6;
* a decoder of `hex.cpp` steps over the end of a string cut within an escape, and
  writes what it decodes from the memory behind it over the end of its buffer,
  which has four bytes to spare (`hex.cpp:13`, 75-78);
* `base64.c:187` permits `=` "for the last group"; the code accepts a padded group
  anywhere;
* the chunk of a module that fails leaves its mark in `package.loaded`, so that a
  second `require` reports a loop instead of the error;
* a library that has no `luaopen_mylib` either is reported as an error and stays
  open until the state is closed;
* a dead udata that has no `__gc` at its only look at it (`luaC_separateudata`) is
  marked as finalized all the same; if another one's finalizer brings it back and
  it is then given a `__gc`, that is never called (`FinalizedOnce` is about the
  others, `Waiting`);
* a full collection keeps, until the next one, values of weak-keyed entries that
  it clears itself (`held` in `CollectsAll`).

## 7. Not modelled

* `check_timeout`: dead code without effect on shared state.
* Paths from the command line and the environment, printed texts.
* Log rotation (`#if 0`), more than one log handle except for the stray close.
* `tools/test` (3DES, portal API): no makefile builds it, and a cipher is pure
  bit arithmetic out of TLC's reach.
* `libframe/mylib.cpp`, a template without state; the sample scripts.
* Failing `malloc` in the codecs, `std::bad_alloc`, and memory errors inside Lua
  but for the one in `get_value`'s critical section.
* Of Lua: the lexer (character by character), syntax errors, precompiled chunks
  (nothing dumps or loads any), metamethods, coercions and the order of strings,
  division and modulo, hooks, debug information, limits of sizes, malformed
  patterns, `string.format`, the io, os, math and table libraries, the
  stand-alone programs.
* Widths of integers in Lua: hashes and sizes stay far below them.

## 8. Plan

Done, in the order of importance: the store, the deal loop, their composition,
the logger, the message extension, the codecs, the loader, the collector, tables,
calls, the compiler with its machine, and pattern matching.

Next, in the model:
1. `Channel`, what a sender and a receiver may rely on (a queue that may drop a
   message when it is created or removed), implemented by `MsgQueue`;
2. an abstract log (a sequence of accepted messages with a written prefix),
   implemented by `AioLog` for appending handles while nothing is mangled;
3. an abstract allocator of sessions, implemented by `SessionStore` for
   disciplined scripts, and by `Mainframe` through it;
4. metamethods in `LuaVM`, which lead from the machine back into `LuaCall`, and
   the message queue composed with the deal loop: a SIGTERM against a script
   that waits in `msgrcv`.

Next, in the proofs: that all garbage goes (`CollectIsComplete`); that the matcher
finds what is `Meant`, for which both have to be written without `RECURSIVE`.

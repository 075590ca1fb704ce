# WarheadDiscordClient in TLA+

A verification development of the Discord client of WarheadCore: a process that
keeps one TCP connection to a Discord server, authenticates over it, and sends
the packets that other parts of the program queue. It consists of TLA+ modules
translated from the sources, TLC configurations that check them on small
instances, and TLAPS proofs, for every instance, of the safety properties of the core,
the byte streams, the queues, the scheduler, the start of the program and seven units of
the library.

Paths below are relative to `src/src/` of the repository.

## 1. The system

| Component | State | Operations | Talks to |
|---|---|---|---|
| `ClientSocketMgr` (`client/Client`) | `_stopped`, `_updateTimer`, `_clientSocket`, `_bufferQueue`, the resolved address | `Initialize`, `Update`, `ConnectToServer`, `Disconnect`, `AddPacketToQueue` | creates `ClientSocket`s, arms the timer, is called back by the sockets |
| `ClientSocket` (`client/Client`) | `_authed`, `_bufferQueue`, header and packet buffers, account data | constructor, `Start`, `Update`, `ReadHandler`, `ReadHeaderHandler`, `ReadDataHandler`, `HandleAuthResponce`, `HandlePong`, `SendPacket` | `Socket`, and `ClientSocketMgr::Disconnect` |
| `Socket<T>` (`shared/Network`) | `_closed`, `_closing`, `_isWritingAsync`, `_writeQueue`, `_readBuffer` | `Update`, `AsyncRead`, `QueuePacket`, `CloseSocket`, `DelayedCloseSocket`, `HandleQueue`, the completion handlers | boost asio, the kernel |
| `MessageBuffer` (`common/Utilities`) | positions and storage | `Normalize`, `EnsureFreeSpace`, `Write`, `ReadCompleted` ... | used by the above |
| `PacketQueue` (`common/Threading`) | a locked deque, `_canceled` | `AddPacket`, `GetNextPacket` with and without a check, `ReadContainer`, `Cancel`, destructor | manager and sockets |
| `ByteBuffer`, `DiscordPacket`, headers (`shared/Packet`) | storage, read and write position, opcode | appends, reads, `put`, `rfinish`, copies and moves, the two headers | everything that sends |
| `main` (`app/Main.cpp`) | the `io_context` | command line, configuration, log, `run()`, halt | `ConfigMgr`, `Log`, `ClientSocketMgr` |
| `ConfigMgr`, `DiscordConfig` (`common/Configuration`, `client/Config`) | the options of two layers of files; a cache of typed options | `LoadAppConfigs`, `GetOption`, `GetKeysByString`; `AddOption`, `GetOption`, `SetOption` | files, `StringConvert`, `Log` |
| `Log` (`common/Logging`) | channels and loggers of the Poco library | `LoadFromConfig`, `CreateChannelsFromConfig`, `CreateLoggerFromConfig`, `ShouldLog`, `Write` | everything |
| `TaskScheduler`, `TaskContext` (`common/Utilities`) | the multiset of tasks by end, the queue of asyncs, the time, the validator | `Schedule`, `Async`, `Repeat`, `Cancel*`, `Delay*`, `Reschedule*`, `SetGroup`, `Update` | callables, which call back into it |
| `MPSCQueue` (`common/Threading`) | a linked list, `_head`, `_tail`; for the intrusive one a dummy item | `Enqueue`, `Dequeue`, destructor | many producer threads, one consumer |
| `ProducerConsumerQueue` (`common/Threading`) | a queue, a mutex, a condition variable, `_shutdown` | `Push`, `Pop`, `WaitAndPop`, `Cancel` | threads |
| `StartProcess` (`common/Utilities`) | a worker, a child and its pipes, a promise | `StartProcess`, `Terminate` | the operating system |
| `AsyncCallbackProcessor` (`common/Utilities`) | a list of callbacks | `AddCallback`, `ProcessReadyCallbacks` | futures of other threads |
| `Timer`, `UpdateTime` (`common/Utilities`, `client/Time`) | counters of milliseconds; a ring of the last durations | `getMSTimeDiff`, `Update`, `Passed`, `Reset`; `UpdateWithDiff`, averages, `RecordUpdateTime*`; `ToTimeString` | loops that call them |
| `IpLocationStore` (`common/IPLocation`) | a sorted vector of address ranges | `Load`, `GetLocationRecord` | a file |
| `SRP6`, `BigNumber` (`common/Cryptography`) | an account's verifier, one login's numbers | `MakeRegistrationData`, constructor, `VerifyChallengeResponse`, `CheckLogin` | a login's client |
| `AuthCrypt`, `ARC4`, `AES`, `SessionKeyGenerator`, `TOTP` (`common/Cryptography`) | positions in key streams, a digest being consumed | `Init`, `EncryptSend`, `DecryptRecv`, `Generate`, `AEEncryptWithRandomIV`, `AEDecrypt`, `ValidateToken` | the peer of a session |

The last six rows are the library the client shares with the rest of WarheadCore;
most of it has no caller in this process.

**How they interact.** `main` initialises the manager and then calls
`io_context::run()` on one thread. Everything after that is a completion handler
on this thread: the timer's (`Update`, or the lambda of `ConnectToServer`), the
read and the write handlers of each socket. Handlers call each other
synchronously and re-enter: a read handler may call `Disconnect()` on the
manager, which closes and releases the socket that is still in its read loop; the
constructor of a `ClientSocket` may call `Disconnect()` before the manager knows
that socket. Only `AddPacketToQueue` is called by other threads. `run()` returns,
and the process ends, when nothing is outstanding.

**What is hard here.**

* One timer serves `Update` and the connect lambda. `cancel()` and
  `expires_from_now()` complete the waiting handler with an error code, and every
  handler ignores the error code: an aborted wait *runs*.
* The connect lambda does not look at `_stopped`.
* `CloseSocket()` shuts down only the sending side; handlers keep a dropped socket
  alive, and its pending write completes after the manager has a new one.
* A packet passes three queues and reaches the server only if the right
  connection was accepted by the server, is open, and stays so.
* A denied authentication returns `Ok`, so that the read loop goes on.
* A chunk of the stream may end anywhere in a header or payload, a write may be
  accepted in part, and the peer may reset at any time.
* The lock-free queues are cut between the two steps of an `Enqueue()`, and a
  producer may be delayed there for any time while nodes are deleted and reused.
* Callables re-enter the scheduler that runs them, through contexts that outlive
  the call, the task and the scheduler.
* Options come from two files with duplicates and errors, are parsed at their first
  use with the default of that use, and configure the log that reports on them.
* A worker that copies one pipe of a child to its end and then the other may wait for
  a child that waits for it; `Terminate()` may come before the child is known.
* A callback may add callbacks to the list it is called from, and throw.
* Millisecond times wrap, rings start empty, ranges touch and overlap, numbers have
  leading zeros, and the two ends of a cipher must never get out of step.

**What makes each part correct.**

| Part | Properties |
|---|---|
| Manager and timer | the updating never dies and never restarts after a stop (`UpdateChains`, `StoppedIsFinal`, `NoSilentExit`, `StoppedEnds`); one connect lambda at most, none in a stopped manager (`OneConnector`, a part of `ControlInv`); a closed socket is replaced or the client gives up (`ClosedIsReplaced`) |
| Socket life cycle | only the manager's socket is open or reading (`OnlyCurrentIsOpen`; `ReadsOnlyWhenCurrent`, a part of `ControlInv`) |
| Packets | what the server sees is what `ServerView` allows (`ServerViewSpec`); packets keep their order and are in one place on the way through the queues, and nothing is lost while connected (`NothingLostWhileConnected`); queues drain while writes return (`QueueIsDrained`); the process ends through `main` (`EndsOrderly`) |
| Byte stream out | bytes go out in order, none is skipped, and a wait has a buffer to send (`StreamInv`: `StreamIsPrefix`, `NothingSkipped`, `WaitsWithBuffer`), `DelayedCloseLosesNothing`, `QueueIsSent`, `ClosesAfterDraining` |
| Byte stream in | packets are cut out as they were sent and nothing behind a bad one is handled (`FramingInv`: `PacketsAsSent`, `HeaderInStep`, `NothingAfterBad`, `ReadBufferKeepsSize`), `HandledPromptly`, `AssertsHold` |
| `TaskScheduler` | no task is lost, runs twice, out of order or after it was cancelled (`SchedulerInv`: `Ordered`; `RunsAreScheduled`, `CancelledIsFinal`), whatever callables do |
| `MPSCQueue` | a FIFO queue (`FifoSpec`), the links never lose a node (`MemorySafe`: `LinksChain`), no access to memory given up and none leaked (`NoUseAfterFree`, `AllFreed`), `false` only when empty or in an `Enqueue()` (`FalseMeansPending`), everything arrives (`ItemsArrive`) |
| `ProducerConsumerQueue` | `NoLostWakeup`, `NothingLost`, and nobody waits for ever beside values or after `Cancel()` (`WaiterIsServed`) |
| Configuration, `main`'s start | the options are those of the files the command line names, layered (`OptionsAreLayered`); an option's answer is what the files say, or its type's default (`AnswersFollowFiles`) |
| `Log` | a message reaches the channels of the nearest configured logger of its filter, if the levels let it (`MessagesReachChannels`) |
| Packets' bytes | of what was written comes back what its type keeps, through copies, moves and the wire (`RoundTrip`) |
| `PacketQueue` | no packet is lost, repeated or overtaken, whoever collects them (`PacketsInOrder`) |
| `StartProcess` | a success is the child's own, with its whole output, and a kill comes late or never (`SuccessIsTheChilds`); the call ends unless child and worker wait for each other (`EndsUnlessStuck`) |
| `AsyncCallbackProcessor` | a callback is invoked once, or lost by an exception (`EachCallbackOnce`); a ready one is invoked (`ReadyIsInvoked`) |
| Timers | no time is lost but at the wrap, statistics are those of the window, texts are read back (`TimersKeepPace`) |
| `IpLocationStore` | the lookup gives a range only if it contains the address, and finds it where no range is inverted, also in files with lines short of commas (`RangeLookup`) |
| Cryptography | a client that knows the password comes to the server's key and is let in, and nobody with another key is (`KeysAgree`); both ends of a stream stay in step, a sealed message opens only unchanged, tokens are taken in their window (`CiphersAgree`) |

## 2. The modules

| Module | Models | Role |
|---|---|---|
| `ServerView` | what a server may see of a client, over all its connections | abstract specification |
| `ClientSocketMgr` | manager, sockets, timer, `io_context`, `main` composed | core; implements `ServerView` |
| `ClientSocketMgrProofs` | | theorems about the core: control; packets and the refinement |
| `Socket` | the write path of `Socket<T>` byte by byte, both ways to close | component |
| `SocketProofs` | | theorems about `Socket` |
| `Framing` | `ClientSocket::ReadHandler` and `MessageBuffer` byte by byte | component |
| `FramingProofs` | | theorems about `Framing` |
| `TaskScheduler` | `TaskScheduler` and `TaskContext` | component |
| `TaskSchedulerProofs` | | theorems about `TaskScheduler` |
| `FifoQueue` | a queue with atomic operations | abstract specification |
| `MPSCQueue` | both lock-free queues | component; implements `FifoQueue` |
| `PCQueue` | `ProducerConsumerQueue` | component |
| `LockedQueue` | | `PCQueue` under names that can stand beside those of `MPSCQueue` |
| `QueueProofs` | | theorems about `MPSCQueue`, the refinement included, and about `LockedQueue` |
| `StringConvert` | texts as values of types, and back; tokens | operators |
| `Config`, `Log` | `ConfigMgr` with `DiscordConfig`; `Log` | components |
| `Startup` | `main` up to the client: command line, configuration, log, then any calls | composes the three above |
| `StartupProofs` | | theorems about `Startup`: options, answers, messages |
| `Packets` | `ByteBuffer`, `DiscordPacket`, the two headers | component |
| `PacketQueue` | `DefaultPacketQueue` | component |
| `StartProcess` | worker, child, pipes, owner | component |
| `AsyncCallbacks` | `AsyncCallbackProcessor` | component |
| `Timers` | `Timer.h`, `Timer.cpp`, `UpdateTime` | component |
| `IPLocation` | `IpLocationStore` | component |
| `SRP6` | `SRP6`, `BigNumber` against a client of the protocol | component |
| `Ciphers` | `AuthCrypt`, `SessionKeyGenerator`, `AES`, `TOTP` against their peers | component |
| `Library` | | composes the eight modules before it, for one run |
| `LibraryProofs` | | theorems about seven of them, all but `Packets` |
| `PacketsProofs` | | the theorem about `Packets`, from the facts about numbers and sequences in `LibraryProofs` |
| `MC*` | | instances for TLC |

### ClientSocketMgr

One io thread runs handlers to their end; `pc` tells which loop it is inside, so
that producers (and nothing else) interleave with the loops that read the shared
queue.

| Variable | Code |
|---|---|
| `stopped`, `clientSocket`, `mgrQueue` | `_stopped`, `_clientSocket`, `_bufferQueue` of the manager |
| `timer`, `armed`, `ready` | whether `_updateTimer` is non-null, which handler waits on it, which timer handlers wait to run |
| `closed`, `authed`, `writing` | the sockets with `_closed`, `_authed`, `_isWritingAsync` |
| `reading` | the sockets with an `async_read_some` outstanding |
| `sockQueue`, `writeQueue` | `ClientSocket::_bufferQueue`, `Socket::_writeQueue` |
| `broken`, `wire` | the connection failed; what the kernel accepted (history) |
| `conf`, `process` | configuration at start; how the process stands or ended |

| Action | Code |
|---|---|
| `Initialize` | `ClientSocketMgr::Initialize`, called by `main` |
| `UpdateStopped`, `Update`, `SendQueued`, `SocketUpdate`, `Flush`, `DrainQueue` | `ClientSocketMgr::Update` with the calls it makes: `ClientSocket::Update`, `Socket::Update`, `HandleQueue` |
| `ConnectLambda`, `ConnectSucceeds`, `ConnectFails` | the lambda of `ConnectToServer`: its early return, one turn of its loop, with the constructor and `Start` of the socket |
| `WriteHandlerWrapper` | the completion of a wait to write |
| `ReadError`, `ReadData`, `ReadHandlerEnds`, `ReadRejected`, `ReadOutOfTurn`, `HandleAuthOk`, `HandleAuthDenied`, `HandlePong`, `ReadThrows` | the read completion and `ReadHandler`'s loop with every outcome of the header and data handlers |
| `TimerExpires`, `MainReturns` | asio's timer; the end of `run()` and of `main` |
| `AddPacketToQueue` | the call, by any thread |

Abstractions. A payload is its number in the order of `AddPacketToQueue`. What a
server sends is one of seven kinds, which are the cases the read handlers tell
apart. Kernel outcomes of a write are: accepted, accepted in part, failed;
once a write failed, later ones may fail or not be tried at all, but do not
succeed (a reset TCP connection does not recover). The client's socket is never
made non-blocking: until the kernel takes a byte, `write_some` waits inside the io
thread, and `Flush` is not taken. The queue of ready timer
handlers is a bag instead of a FIFO queue, so the model has more interleavings
than asio; properties that hold here hold there.

### Socket

Bytes are numbered in the order they were queued, a `MessageBuffer` is the
interval it has not sent. The kernel has a send buffer of `Capacity` bytes, so
that full, partial and refused writes happen; the peer reads, or resets the
connection. `Update`/`UpdateLoop`, `WriteHandlerWrapper`, `QueuePacket`,
`CloseSocket` and `DelayedCloseSocket` are the operations; `HandleQueue` has one
disjunct per outcome of `write_some`. `Init` chooses `nonBlocking`, the mode of asio's
socket: only a non-blocking one returns `would_block`, the other waits in `write_some`.

### Framing

Bytes are numbered in the order the server sent them. `ReadHandlerInternal`
delivers any number of bytes that fits, `ReadHeader`, `ReadPayload` and
`LoopEnds` are the parts of `ReadHandler`'s loop with its ASSERTs (outcome
`"aborted"`), and `AsyncRead` is `Normalize` and `EnsureFreeSpace` of
`MessageBuffer`.

### TaskScheduler

One thread. `pc` says whether no callable runs or which loop of `Dispatch()` is at
work; every method is an action that is enabled outside and inside callables, so a
callable is any sequence of calls. `RemoveIf` and `ModifyIf` are the loops of the code, as
recursive functions over the positions of the holder. Tasks are shared objects (`tasks`), the multiset
is the sequence `holder` of their numbers, in its order, and a context is a
reference to its task with the state of its `_consumed` flag. A second `Repeat()`
of a context aborts (`AssertOnConsumed`) and is a misuse that the guard excludes, as
are `Schedule` of the scheduler from a task (its documentation forbids it),
`Update()` from a callable, and destruction inside `Update()`. The overloads with a
minimum and a maximum choose a duration, which the model does anyway. `clock` and
`now` are apart because `Update(difftime)` lets `_now` run ahead of the clock and
`Update()` sets it back.

### MPSCQueue

Each access to a shared atomic is an action (`Exchange`, `Link`, `Load`, ...);
`_tail` is used by the consumer only. The model's total order of accesses is what
the code's acquire and release operations provide for what they publish. `Init`
chooses `intrusive`, the variant; the two share `Enqueue()`, the destructor and the
hand-over, and have their own steps of `Dequeue()`. Nodes are items that are
enqueued again after they were handed over, or addresses that are allocated again
after `delete`, so no bound on the number of calls is needed. The refinement of
`FifoQueue` rests on a history variable, `chain`: the nodes from the tail on in the
order of their exchanges. No step reads it. `LinksChain` says what it has to do with the
code's list: each node of the chain leads to the next, or a producer that is between its
two steps is going to link them. The abstract queue is the chain without the node
that holds no item.

### PCQueue

Every method is a critical section and so one action; `WaitAndPop` is one up to
`wait()` and one for each return of it. `notify_one()` wakes any waiting thread,
and threads wake by themselves too.

### StringConvert, Config, Log, Startup

A text is a tagged value (a numeral, a word, words with spaces, a list with commas):
that is all that the conversions of `StringConvert` tell apart. A file is whether it
opens, whether reading it throws, and its lines; a line is an option or something
else. `Config` has the parsing, the layers and every answer of `ConfigMgr`, and
`DiscordConfig`'s cache with what its `AddOption` and `GetOption` do for a value of
the wrong type. `Log` reads channels and loggers out of the options one at a time, in
any order (the code iterates over an unordered map), and `Write` follows a filter
towards the root as `GetLoggerByType` and `ShouldLog` do. Poco's channel tree is
external: a channel is its name, and may throw. `Startup` chooses the files and the
command line at `Init`, and lets the program ask, set and log afterwards.

### Library

Each of the eight modules has its variables and its `Next`; `Library` chooses one
`unit` at `Init` and lets only that one move, so that they share a run and their
states are not multiplied. The bounds and inputs of the units are its CONSTANTS;
`MCLibrary` and `Library.cfg` give them values.

* `Packets`: two packets, bytes as numbers, the positions and exceptions of
  `ByteBuffer`. A floating-point number is its four bytes. `Send` puts a packet
  on the wire behind its header and parses it again. What was written is a history of
  items, from which `RoundTrip` computes what a read must give (`Kept`). The bytes and the numbers
  they stand for are recursive functions, one step per byte. UTF-8 is that of `utf8cpp`: lead
  and trail bytes, no surrogates, no overlong forms. A moment is the `tm` that `localtime` makes
  of a `time_t`; `MkTime` is the C library's `mktime` for a `tm_isdst` of 0, for years
  in which every fourth is a leap year.
* `StartProcess`: the child is a script of lines to its two pipes, which hold
  `Capacity` lines, and an exit code. The worker copies the output pipe to its end,
  then the error pipe; the owner may call `Terminate()` at any time, in steps
  that interleave with the worker. After it `wait()` may throw, which gives `EXIT_FAILURE`.
* `AsyncCallbacks`: `ProcessReadyCallbacks` in the steps between which callbacks run,
  add, throw, or add and then throw.
* `Timers`: time in words of `WordSize` instead of 2^32, each of the four timers
  driven by the differences a loop measures. The total and the two sums of the weighted
  average are words too, and wrap; the property says of each what is left of it then. The
  `int32` members of two timers are plain integers: passes and intervals are assumed to be
  shorter than 2^31 ms (`Int32Assumption`).
* `IPLocation`: a line is the range its first fields give and its number of commas, by which
  `getline` decides where a record ends. A lookup of a text that is no address throws.
  `upper_bound` is the binary search of the library, step by step, so
  that a vector that is not sorted by what it compares misleads it as in the code.
* `SRP6`: the arithmetic is the code's, with a small prime and small digits. SHA1 is
  external: where its digest is used as a number it is some number made of the input,
  else the digest is the input. The client is the protocol's.
* `Ciphers`: a byte under a key stream remembers key and position, so it is decrypted
  by the same key at the same position only; a tag remembers what it is the tag of.
  OpenSSL is external and symbolic in this sense.

## 3. What the runs check

| Run | Instance | Shows |
|---|---|---|
| `client_control` | 2 connections, 3 packets of which one is large, any server, every configuration with Discord enabled | the safety properties of timer, connections and stop; the client implements `ServerView`, loses nothing while connected, and ends through `main` (247,981 states) |
| `client_liveness` | 2 connections, 2 packets, any server, `FairSpec` | `StoppedEnds`, `ClosedIsReplaced`, and `QueueIsDrained` for peers that let writes return (89,161 states) |
| `client_disabled` | Discord disabled | *violation*: see finding 1 |
| `socket` | 3 buffers of 0..3 bytes, kernel buffer of 2, `FairSpec` | the byte stream out; queued bytes are sent, a delayed close closes |
| `socket_delayed_close` | 1 buffer of 0..1 bytes | *violation*: see finding 2 |
| `framing` | up to 3 packets with payloads of 0..3 bytes, header of 3, block of 4 | every chunking of every stream gives the packets that were sent |
| `task_scheduler` | 2 tasks, 1 group, durations 0 and 1, 5 calls, 2 updates | order, repeats, cancellation and re-entrancy |
| `task_async_modifies` | the same with 4 calls | *violation*: see finding 3 |
| `pc_queue` | 4 consumers, 5 values, `LockedFairSpec` | no lost wakeup, no lost or repeated value; waiting consumers are served and released |
| `mpsc_queue` | both variants, 2 producers, 4 items or addresses, `FairSpec` | FIFO refinement, memory safety, items arrive |
| `startup` | command lines, pairs of small `.dist` and user files with duplicates, bad values, missing and broken files; any calls afterwards | the options, their answers, and where messages go (94,338 states) |
| `library` | the eight modules of `Library`, one per behaviour, with the fairness below | packets, processes, callbacks, timers, ranges, the packet queue, logins, ciphers (141,038 states) |

**Bounds.** `MaxConnections` = 2 gives the first connection and a reconnection while
writes of the first may be pending; what the control logic does from the third on is
proved for every number (section 4). The number of reconnect attempts (1 and 3) is
the code's. `MaxChunk` = 2 lets a packet follow one whose
handler disconnected. Three packets are needed for one to be on the wire, one in
each kind of queue; the one in the middle is large, so the empty buffer that
precedes it has neighbours. In `Socket`, buffers are shorter than, equal to and
longer than the kernel buffer, and empty. In `Framing`, a block is shorter and
longer than a packet, and a packet may be empty. In `TaskScheduler` two tasks have
an order, and five calls are enough to schedule both, to repeat one from its
callable and to delay, regroup or cancel it later. In the lock-free queues all
producers can be between their steps at once with an item in the list before them;
in `PCQueue` values and waiting threads outnumber each other. Every bound is a CONSTANT that
only guards the creation of sockets, packets, bytes, tasks, calls and values.

In `startup` a file has up to two lines about options, so that lines repeat and
contradict each other within a file and between the two; names of loggers have up to
two parts, so that a message finds its own logger, the one above, or the root. In `Library`: two items per packet, of six kinds that include
a negative number, text with a letter of two bytes and text that breaks off in one, an
identifier with zero bytes, a year that its field cannot hold and a date in summer time; pipes of one line and children that write up to three, so
that either pipe fills; four callbacks; words of 32 ticks and six passes of up to 13,
so that every timer and the total meet the wrap, and a ring of 3 that fills and turns; files of up
to three lines with ranges that touch, overlap, are empty or inverted, and lines that lack
commas, over five addresses; four
packets in the queue; a prime of one byte with four digits, exponents that make
numbers with leading zeros, right and wrong passwords; four bytes per stream in chunks
of up to three, two damages to a sealed message, and a token interval of 3 seconds
over four intervals.

**Fairness** (`Fairness` in `ClientSocketMgr`). The io thread does not stop
inside a handler, except in `write_some` of the client's blocking socket (`WaitsForPeer`):
weak fairness of the loops (`UpdateGoesOn`), without the writes that need the peer. asio runs ready handlers in the
order they were queued, so a handler that is ready is not overtaken for ever:
strong fairness, because the step is disabled while another handler runs. The
timer expires. A write handler of a socket *that was closed* runs, because the
kernel reports a shut-down socket as writable. Nothing is assumed of the server,
nor of a peer that does not read: in front of one the io thread may stay in `write_some` for ever.
`QueueIsDrained` therefore has the antecedent `WritesReturn`, that writes return
again and again; without it the property is false. `Socket` in addition assumes that its owner
calls `Update` again and again (the manager does, every millisecond) and that the
peer keeps reading.

`PCQueue` assumes that a woken thread gets the mutex, which is only held over
bounded sections, and not that anyone calls a method or wakes by itself. The
lock-free queues assume that a thread inside `Enqueue()` goes on and that the
consumer calls `Dequeue()` again and again. In `Library` the worker of a process goes
on, a child that can write does and exits in the end, and the owner of callbacks calls
`ProcessReadyCallbacks()` again and again; a result need never arrive.

`CHECK_DEADLOCK FALSE` is used where the system may rest for ever: a socket that is
closed or has nothing to send, a scheduler after its last update, a lock-free queue
that was destroyed, a program whose configuration cannot be read, a library unit whose
bounds are reached.

## 4. What is proved

Eight modules of theorems, checked by TLAPS for every value of the constants that
satisfies the assumptions named in the modules. Nothing else is assumed, with one
exception: `EnabledEndsOrderly` has a hypothesis of its own.

| Module | Theorem | Statement |
|---|---|---|
| `ClientSocketMgrProofs` | `TypeCorrect` | `Spec => []TypeOK` |
| | `ControlCorrect` | `Spec => [](UpdateChains /\ OneConnector /\ ReadsOnlyWhenCurrent)` |
| | `OpenSockets` | `Spec => []OnlyCurrentIsOpen` |
| | `StopIsFinal` | `Spec => StoppedIsFinal` |
| | `ExitIsNotSilent` | `Spec => NoSilentExit` |
| | `PacketsCorrect` | `Spec => []NothingLostWhileConnected` |
| | `ImplementsServerView` | `Spec => ServerViewSpec` |
| | `EnabledEndsOrderly` | `ASSUME \A f \in Configs : f.enabled PROVE Spec => []EndsOrderly` |
| `SocketProofs` | `StreamCorrect` | `Spec => []StreamInv` |
| | `DelayedCloseCorrect` | `Spec => []DelayedCloseLosesNothing` |
| `FramingProofs` | `FramingCorrect` | `Spec => []FramingInv` |
| | `NoAbort` | `Spec => []AssertsHold` |
| | `Prompt` | `Spec => []HandledPromptly` |
| `TaskSchedulerProofs` | `OrderKept` | `Spec => []SchedulerInv` |
| | `RunsCounted` | `Spec => []RunsAreScheduled` |
| | `CancelsAreFinal` | `Spec => []CancelledIsFinal` |
| `QueueProofs` | `MemoryCorrect` | `Spec => []MemorySafe` |
| | `FalseCorrect` | `Spec => []FalseMeansPending` |
| | `ImplementsFifo` | `Spec => FifoSpec` |
| | `TypeCorrect` | `LockedSpec => []LockedTypes` |
| | `QueueCorrect` | `LockedSpec => []NothingLost` |
| | `WakeupCorrect` | `LockedSpec => []NoLostWakeup` |
| `StartupProofs` | `OptionsLayered` | `Spec => []OptionsAreLayered` |
| | `AnswersRight` | `Spec => []AnswersFollowFiles` |
| | `MessagesArrive` | `Spec => []MessagesReachChannels` |
| `LibraryProofs` | `OrderCorrect` | `Spec => []PacketsInOrder` |
| | `CallbacksCorrect` | `Spec => []EachCallbackOnce` |
| | `ChildCorrect` | `Spec => []SuccessIsTheChilds` |
| | `LookupCorrect` | `Spec => []RangeLookup` |
| | `CiphersRight` | `Spec => []CiphersAgree` |
| | `LoginRight` | `Spec => []KeysAgree` |
| | `ClockRight` | `Spec => []TimersKeepPace` |
| `PacketsProofs` | `PacketsRight` | `Spec => []RoundTrip` |

**Assumptions.** `ConfigsAssumption`: configurations are records of three Booleans;
`BoundsAssumption`, `SocketBounds`, `FramingBounds`, `TaskBounds`, `PushBound`: the bounds
are natural numbers, and sizes that the code has as positive are positive;
`DurationsAssumption`: durations are not negative; `ConsumersAssumption`: there are
finitely many consumers; `LinksAssumption`: producers, consumer, nodes, dummy and the null
pointer are different things and the nodes are finitely many; `LocationAssumption`: addresses are natural numbers and
files are sequences of lines; `ScenariosAssumption`: the files that the command line names
are files of the model; `AskedAssumption`, `ValuesAssumption`: options are asked for by
name, and a value that is set has its type; `FiltersAssumption`, `LevelsAssumption`: a filter is
a name, a message has one of the levels; `CipherAssumption`: digests, tags and token
intervals are not empty; `LoginAssumption`: secrets and salts are numbers, and the modulus fits the
arrays it is kept in (nothing is assumed of it being prime); `TimerAssumption`: a pass is
shorter than the range of the counter and no unit of time is empty; `Int32Assumption`: passes and
intervals fit half that range, so that the `int32` members of timers do not overflow (no proof
needs it: the model's integers have no bound); `ItemAssumption`: the values
written to packets have their types (`IsValue`), opcodes are opcodes, and the items that the bound
allows stay below the size at which `append()` aborts. The hypothesis of `EnabledEndsOrderly`, that every
configuration enables Discord, is what finding 1 is about: without it the property is
false, and `client_disabled` shows it.

**Control of the client.** None of the safety properties is inductive alone.
`ControlInv` joins them with what each needs:

* `OneConnector` ("no connect lambda while there is a socket or after a stop")
  needs to know, when `UpdateReconnects` or `Disconnect` runs, that the handler
  it aborts is not a connect lambda: that follows from itself with `InHandler`
  (an `Update()` in progress has a socket; a read handler belongs to the
  manager's socket, or to one it has just closed).
* `UpdateChains` (outstanding updates = connections made, until stopped) counts
  the waiting and the ready handlers; it needs `OneConnector` for the step in
  which a connection is made.
* `ReadsOnlyWhenCurrent` and `OnlyCurrentIsOpen` need that a socket is dropped
  only when closed, which `InHandler` and `SocketUpdate`'s test of `_closed`
  give, and `Constructed` (a new socket number has no state yet).
* `NoSilentExit` needs `Starting`: a client that could connect has its lambda
  outstanding until the first socket exists, from where on `UpdateChains` keeps
  work outstanding.
* `StoppedIsFinal` combines `OneConnector` (no connection after a stop),
  `InHandler` (no flush in progress after a stop) and `OnlyCurrentIsOpen` (a
  pending write finds its socket shut down).

**Packets of the client.** `WireInv` joins three things. `NothingLostWhileConnected`
orders the packets along wire, write queue, socket queue and manager queue. `Turns`:
the manager's socket is the newest one, later ones are untouched, and the wire has
packets of no later one; so connections follow each other on the wire. `Protocol`: each
open connection is in one of the stages of its login, from the auth session in the queue to
the ping sent, so what `HandleQueue` sends next is what `ServerView` lets come next
(`DeliverStep`). The refinement is then one case per action: `AddPacketToQueue` and
a `HandleQueue` that sends map to steps of `ServerView`, everything else leaves its
variables alone.

**Byte streams.** `SocketInv` adds to the two properties that the loop of `Update()`
runs only while no write waits: otherwise the loop could empty the queue under a waiting
handler. `FrameInv` says where in the stream the read buffer, the two part buffers
and the handled packets are, in bytes: what has left the read buffer is the handled
packets and the two parts. From it follow the ASSERTs at the breaks of the loop (a header fits, a payload
fits), and that nothing that arrived completely is left over when a read is outstanding.

**Scheduler.** `TaskInv` says that the holder has each task at most once and in the order
of the ends (`Lined`), and, for each task, where it stands: a context that
has been invoked and not repeated ("fresh") accounts for one run more; any other task of
a live scheduler waits or was cancelled, and never both. The lemmas say of
`Push`, `RemoveIf`, `ModifyIf` and `Pop` that a lined holder stays lined and which
tasks are in it then.

**Lock-free queues.** `QueueInv`: the chain of exchanges has no node twice; a producer
before its exchange has a node that no one else has (`InEnqueue`), one behind it has
two neighbours of the chain; every node is given up, in the chain, or on its way into
it; the dummy is where its variant allows (`DummyInv`); a `Dequeue()` during
which nobody was between the two steps sees the whole list (`QuietInv`); and the
destructor is alone. Memory safety is that chain and threads never meet a node that was
given up. The refinement maps the exchange to the abstract enqueue and the step
that moves the tail over an item to the dequeue.

**Blocking queue.** `LockedInv` joins the types with `NothingLost` and "nothing was
deleted before `Cancel()`", without which the number of the next value handed out would
not be known. `NoLostWakeup` is inductive given the types: `Push` adds a value and a woken
thread, a woken thread that leaves takes a value with it or finds none, and a thread
begins to wait only beside an empty queue. The steps count threads with the library's
theorems on cardinality.

**Library.** `PacketsInOrder` needs that the destructor comes last. `EachCallbackOnce` is
inductive given types; its proof counts how often a callback occurs in each list,
and what an append, a removal and an exception do to the counts. For
`SuccessIsTheChilds` the invariant says what the worker knows at each of its steps
(`WorkerKnows`: a pipe it has left is empty and its writer is done) and what
`Terminate()` can find (`OwnerKnows`). For `RangeLookup` the binary search is proved
correct: on a vector sorted by what it compares, `UpperBound` returns the first position
whose range begins behind the address (`BoundFound`), and without overlap the range in
front of it is the only one that can contain the address.

The streams of `CiphersAgree` are in step (`InStep`): the bytes on the wire are those that
were sent, in order, each under the key stream's position where the receiver stands
when it comes to it; the positions left by dropping 1024 bytes (`Drop`) are the same at both ends.
A generator is where its digests say it is, whatever was asked before (`Generators`). A
sealed message is cut from the back where it was put together (`EnvelopePieces`), so the tag
opens it, and any damage changes one of the pieces that the tag vouches for (`Opens`).

`KeysAgree` rests on arithmetic that is built from nothing: that `ModExp` multiplies (`PowersMultiply`,
`PowerOfPower`), that the remainder may be taken at any step (`PowerOfRemainder`), that bytes
carry a number that fits (`BytesCarry`). With these, the client's (B - 3v)^(a + ux) and the
server's (A v^u)^b are one number (`SameKey`), for every modulus and without Fermat's theorem. The
invariant `LoginInv` adds that the verifier belongs to the password.

`TimersKeepPace` is three invariants. The clock: what was measured lags behind by the number of
wraps. The timers: each is `OnTime` (its passes account for the time up to its last one)
or `Logged`. The statistics (`StatsTell`): each slot of the ring holds one of the last
differences, those before the index from this round and the others from the round
before, so that the total is at once the sum of the slots and the sum of the window, the two
maxima cover them, and the weighted average lies between the average and the maximum
(`Bounded`). Of `ToTimeString` it is proved that after each unit the text and what is left give
the duration (`Told`).

`RoundTrip` is about two packets and two histories; `PacketInv` says of each packet that it is
`Right`: it is no longer than its items, and if its storage is intact, it is laid out as the
encodings of the items, one behind the other (`Laid`), and the read position is the start of the
item its users know to be next. Three results carry it. `DecodeReturns`: what `Decode` reads where
`Encode` wrote is the value, and it stops behind it, type by type; numbers by what a shift leaves
(`NumberReturns`), guids by the bits of their mask (`MaskTells`, `GuidReturns`), dates
by their fields (`TimeReturns`) and what `mktime` makes of them (`KeptOfTime`), strings
because no terminator is in them (`StringReturns`).
"The value" is what its type keeps: a `time_t` loses its seconds and its year's higher bits,
and one in summer time comes back an hour late.
`LaidJoined` and `LaidPut`: an append at the end, an append of another packet and a `put()` of
the same width leave the storage laid out. `WireReturns`: a packet comes off the wire with its
opcode and storage, because the size field does not wrap at the size a storage can
have. A read with another type ends somewhere in the storage (`DecodeStays`), and from then on
nothing is claimed until the position is known again.

**Start.** `StartupInv` joins the three properties with what the parts need of each other. The
options are, at every step of `LoadAppConfigs`, what the lines of the files say: `ParseFile`
is followed line by line (`ParseLineParses`), and two layers of options are read as the files
(`LayersSay`). The cache of `DiscordConfig` holds what was set, or what the first caller was
answered. A channel or logger is in the store only if its option is complete and was read
(`LogOK`), so the climb of `GetLoggerByType` along the name (`LineageClimbs`) finds the nearest
logger the files describe (`NearestIsFound`), and the level and the channels follow.

**Data.** The induction theorems of the proof library take an operator as a parameter and
cannot be used. Where a definition recurs over numbers, the proofs argue by the least
counterexample instead (`Least`, from the well-foundedness of `<` on the natural numbers): first
that a function which satisfies the recursive equation exists, for every bound (`StepsExist`), and then
what it returns, by climbing through the set of the numbers for which it does (`Climb`). This is
why the parts with theorems have recursive functions (`StartOf`, `UpperBound`, `RemoveIf`,
`ModExp`, `ParseFile`) and sets of positions, and no folds.

**Only model-checked**, and why:

* Liveness: `StoppedEnds`, `ClosedIsReplaced`, `QueueIsDrained`, `QueueIsSent`,
  `ClosesAfterDraining`, `WaiterIsServed`, `ItemsArrive`, `EndsUnlessStuck`,
  `ReadyIsInvoked`. Fairness and ENABLED are beyond the prover.

Every safety property, action property and refinement that a passing run checks is a theorem.

## 5. What was found

1. **Disabled client** (`client_disabled`). With `Discord.Server.Enable = 0`, the
   value the configuration is distributed with, `Initialize()` returns before
   `_updateTimer` is created, `run()` returns at once, and the `Disconnect()` at
   the end of `main` calls `cancel()` through the null pointer.
2. **Delayed close of an idle socket** (`socket_delayed_close`).
   `DelayedCloseSocket()` is documented to close the socket once the write buffer
   is empty. If it is empty at the call, no later step tests `_closing`, and the
   socket is never closed. The client itself has no caller of it.
3. **Cancelling from an async** (`task_async_modifies`). `Async()` is documented to
   be safe to modify the scheduler from. `CancelAll()` from such a callable empties
   the queue whose front `Dispatch()` pops when the callable returns.

Behaviour that the properties describe and a maintainer may want to know:

* Each reconnection adds a chain of `Update()` calls (`UpdateChains`). From the
  second connection on each call aborts the wait of another, whose handler runs
  at once: the client then updates without pausing.
* A failed write drops its buffer and does not close the socket; packets of a
  connection are lost until the read side reports the failure. Packets in the
  queues of a closed socket are dropped with it.
* The client's socket is not made non-blocking (`client/Client/ClientSocketMgr.cpp:143`): while
  a server does not read, `write_some` (`shared/Network/Socket.h:221`) holds the only io
  thread, and with it the timer, the reads and the end of the process.
* A payload that is too short, or an unknown response code, throws through `run()`
  and ends the process.
* `ProducerConsumerQueue::Push()` after `Cancel()` keeps values that nobody hands
  out or deletes. `Dequeue()` of the intrusive queue may return `false` although an
  item was there before the call and no `Enqueue()` is in progress when it returns,
  if one was during the call (`FalseMeansPending`).
* `TaskContext::RescheduleAll` names `TaskScheduler::RescheduleAll` without template
  arguments in a `std::bind`; it is not used and cannot be instantiated.
* `Async()` is documented to run a callable at the next update tick
  (`common/Utilities/TaskScheduler.h:222`). One that an async adds runs in the same
  update, and one that always adds itself again keeps `Update()` from returning.
* A client without id, name or key makes one connection before it gives up.
* Configuration. The first of two lines for an option in a file wins. `DiscordConfig`
  caches an option as its first caller asked for it, default included. A value that
  cannot be parsed is answered with the default of its *type*; the message in the log
  names the default the caller gave (`client/Config/DiscordConfig.cpp:129`).
* Log. A message is formatted twice (`common/Logging/Log.h:130`), so that braces in a
  text that was put into it make the second formatting fail and the message is lost.
  A channel that throws hides the message from the channels behind it.
* Processes. A child that fills its error pipe while the worker still copies its output
  waits for ever, and so does the worker (`common/Utilities/StartProcess.cpp:138`).
  The object learns of its child after the copying: `Terminate()` reaches only
  children that have closed their output.
* Callbacks. An exception of a callback loses the callbacks behind it in the list.
* Packets. A received packet has its write position at 0, so an append overwrites it.
  A packed date has 5 bits for the year: 2000 to 2031. Its seconds are dropped, and as
  `tm_isdst` is 0 at the read, a date in summer time comes back an hour late
  (`shared/Packet/ByteBuffer.cpp:108`). A `time_t` of 0 is packed as the time of the call
  (`common/Utilities/Timer.cpp:142`).
* Timers. `getMSTimeDiff` loses one millisecond at each wrap. `IntervalTimer::Reset`
  with interval 0 divides by zero. `UpdateTime`'s average takes a full table whose last
  slot is 0 for one that is not full (`client/Time/UpdateTime.cpp:92`). Texts in
  `TimeFormat::Numeric` do not tell their units.
* Ranges exclude their upper end; an inverted range passes the check of `Load()` and may
  hide others from the search. A line of the file that is short of a comma takes the next
  line into its record.
* `PacketQueue`. A `GetNextPacket` whose check refuses the packet has set the result all
  the same. `Cancel()` changes nothing that another method looks at.
* Cryptography. `AEDecrypt` overwrites the data before it has checked the tag. SRP6 drops
  a byte more when an odd number of leading zeros is skipped; both sides do.

## 6. What is not modelled

* The IOCP variant of `Socket` (Windows only) and `AsyncReadWithCallback` (no
  caller).
* `WheatyExceptionReport` (crash reports on Windows: platform calls and output),
  `Errors` (aborts: they are outcomes of the models), build information, generated
  enum tables, `Util`'s text functions.
* OpenSSL itself, and the wrappers that add no state to it: RSA, Argon2, hashes, HMAC.
* `ConfigMgr::Reload()` (no caller), floating-point options, the time zone's calendar (`localtime`: a
  moment is given broken down), `GameTime` (copies of the clock), `IpNetwork` (forwards to boost asio),
  `SearchExecutableInPath` (the file system), log patterns and file rotation (Poco).
* `TaskContext::RescheduleAll` (cannot be instantiated), and misuse that the
  documentation forbids, as said under `TaskScheduler`.

## 7. Plan

1. *Done*: `ServerView`, `ClientSocketMgr`, `Socket`, `Framing`, and the proof of
   the control invariant.
2. *Done*: `TaskScheduler`, `MPSCQueue`, `PCQueue`.
3. *Done*: `Config`, `Log` and `Startup`; the parts that stand alone, in `Library`.
4. *Done*: proofs of the safety of `ClientSocketMgr` with the refinement of `ServerView`,
   of `Socket`, `Framing`, `TaskScheduler`, `MPSCQueue` with the refinement of
   `FifoQueue`, of `PCQueue`, of `Startup`, and of every unit of `Library`.
5. Left: what section 6 names. The liveness properties stay with TLC.

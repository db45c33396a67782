# Formal models of node-lksctp

TLA+ models of node-lksctp, a Node.js binding for the Linux kernel's SCTP
sockets: one message-oriented `stream.Duplex` per association, a server, and a
small native addon. The modules are translated from `lib/*.js` and
`src/main.c`; TLC checks them on small instances and TLAPS proves the most
important invariants for every value of the constants.

Paths below are relative to the repository's root.

## 1. Inventory

| Part | Source | State it keeps | Operations | Talks to |
|---|---|---|---|---|
| Socket duplex | `lib/socket-duplex.js` | closure variables: `readRequested`, `mayPushData`, `remoteEnded`, `destroyed`, `pollErrno`, `socketMaybeHasMore`, `socketMaybeTakesMore`, `shutdownRequested`, `connected`, `sendQueue`, the handle of the scheduled `next()`, the count of poll callbacks | `next()` (receive one or send one), poll callback, `read`, `write`, `final`, `destroy` | Node's stream, poller, scheduler, kernel |
| Duplex addresses | `lib/socket-duplex.js`, `lib/socket-common.js` | `localAddress(es)`, `remoteAddress(es)`, `peerInfoByAddress`, the update interval | `updateAddressProperties` | kernel, application (`address-change`, `peer-info-update`) |
| Microtask scheduler | `lib/microtask-scheduler.js` | queue of functions, count of functions called in this macrotask, timeout that resets it, dispatcher flag | `scheduleMicrotask`, `cancel`, `pending`; dispatcher; timeout | promise jobs, timers |
| Poller | `lib/poller.js` | the events last asked for, `closed`, the event that was reported and not yet passed on | `update`, `close`, native callback, its microtask | native handle, duplex or server |
| Native poll handle | `src/main.c` 388-651, `lib/native.js` 330-376 | struct with `closed`, `close_pending`, `finalized`, a libuv handle, a reference to the callback | `poll_start/stop/close`, `poll_cb`, `uv_close` callback, finalizer | libuv, garbage collector |
| Server | `lib/server.js` | `sockfd`, `errored`, `closed`, the poll handle | `listen`, accept on a poll event, `close` | kernel, duplexes |
| Client, socket setup | `lib/client.js`, `lib/socket-common.js` | a descriptor while it is set up | `createSocketWithOptions`, `bindx`, `connect`, `listen` | kernel |
| Error duplex | `lib/client.js` 7-25 | none | emits the error of a failed setup | application |
| Native wrapper | `lib/native.js` | none | asserts the kinds of the arguments of every native function | native addon |
| Native addon (rest) | `src/main.c`, `src/helpers.h` | none | one system call each, with its casts; packing and splitting of address lists; parsing of notifications | kernel |
| Socket addresses, interpretation of notifications | `lib/sockaddr.js`, `lib/notifications.js` | none | `format`, `parse`, `interpret` | |
| Errors, constants, entry point | `lib/errors.js`, `lib/constants.js`, `lib/index.js` | none | tables and argument lists | |

What is hard in this code:

- **The loop of the duplex.** Between two poll events nothing wakes it except
  `read`, `write` and `final`. What it asks the poller for is computed at the
  end of `next()` from six flags, while the kernel goes on: a wrong flag is a
  connection that hangs (nothing is armed) or a process that spins (something
  is armed that `next()` does not act on).
- **Deferred callbacks.** A poll event is reported by native code and passed on
  in a microtask; `next()` itself runs in a microtask or, when the budget of
  the macrotask is used up, after a timeout. Close can come before either.
- **One failure, four witnesses.** The same failure may be seen as a poll error,
  as the result of receive, as the result of send, or as a notification.
- **Manual lifetimes.** Descriptors are numbers that are reused; the native
  handle is shared between JavaScript, libuv and a finalizer.
- **Partial failure.** Setting a socket up is a chain of system calls, each of
  which may fail, with three different ways of reporting it.
- **Non-atomic questions.** Addresses are read by four system calls, and then
  each remote address is asked about.
- **Kinds and widths.** The native code ends the process on an argument of a
  wrong kind and casts numbers to C fields; byte orders are mixed within one
  struct, and arrays are grown and walked by hand.

`PROJECT.json` lists the hazards at their lines with the properties that cover
them.

## 2. Modules

| Module | Models | Composes / refines |
|---|---|---|
| `MicrotaskScheduler` | `lib/microtask-scheduler.js` | refines `TaskQueue` (a FIFO of tasks) |
| `NextMicrotask` | `maybeScheduleNextMicrotask` with the head of `next()` | extends `MicrotaskScheduler`, refines `NextFlag` (one bit) |
| `SctpSocket` | the kernel's socket as the code sees it (external), with the results of `recvv`/`sendv` | |
| `NodeStream` | `stream.Duplex` as far as its calls go (external) and the application | |
| `DuplexPort` | what a duplex promises: an ordered port with a graceful or an abortive close | abstract |
| `SocketDuplex` | `lib/socket-duplex.js` and `lib/poller.js` | extends `SctpSocket` and `NodeStream`, uses the bit of `NextFlag`, refines `DuplexPort` |
| `NativePoller` | the poll handle in `src/main.c` and `lib/native.js`, the poller's microtask | |
| `Server` | `lib/server.js` over a table of descriptors | |
| `SocketSetup` | `lib/socket-common.js`, `lib/client.js`, the first half of `listen` | |
| `DuplexAddresses` | the address properties of the duplex | |
| `NativeCalls` | one call through `lib/native.js` and `src/main.c` to the kernel and back, with `lib/sockaddr.js` and `lib/notifications.js` | |
| `MC*` | instances for TLC | |
| `MicrotaskSchedulerProofs` | theorems about the scheduler, the handle of `next()` and their refinements | extends `NextMicrotask` |
| `SocketDuplexProofs`, `DuplexPortProofs` | theorems about the duplex: how it sleeps and wakes; what it delivers, sends and reports, and the refinement of `DuplexPort` | the second extends the first |
| `NativePollerProofs`, `ServerProofs`, `SocketSetupProofs`, `DuplexAddressesProofs`, `NativeCallsProofs` | theorems about the module they are named after | |

Definitions whose comment begins with "Mutant" are wrong variants of the
definition that follows them: they say which slip each property would catch and
are used by no specification.

### How state and actions correspond to the code

*Scheduler.* `Dispatch` is the promise reaction up to the call of the first
function, `FnReturn` the rest of one turn of the loop and the test that begins
the next, so that whatever a function's body does is a sequence of caller steps
in between. The flag `dispatcherRunning` covers "the reaction is waiting" and
"it runs"; `running` is the function in progress. `ClearMicrotasksCounter` is
the timeout. `MaxQueue` bounds the queue.

*`next()`.* One run receives at most one entry or sends at most one message. All
outcomes of the receiving half are actions (`ReceiveNotification`,
`ReceiveData`, `ReceiveEof`, `ReceiveError`, `ReceiveOversize`, and
`ReceiveNothing`, after which the run goes on to the sending half: `SendNothing`, `SendSucceeds`, `SendAfterRemoteEnded`,
`SendError`). The two halves are separate steps because the kernel runs
concurrently; `phase = "send"` keeps other JavaScript out in between. Each
action contains the end of `next()`: it either schedules `next()` again or calls
`updatePollEvents` (`EndNext`). Calls the application makes from inside
`push()`, a write's callback or an `emit` (end, write, read, destroy) change
nothing the rest of that run of `next()` reads before it is over, other than by
scheduling `next()`; they appear as steps after it.

*Poll events.* `NativePollEvent` is libuv calling the native callback,
`PollMicrotask` the microtask in which `lib/poller.js` reports it. The handle
is level-triggered. When the socket has a pending error libuv stops the handle
and reports `EBADF`: `uvEvents` becomes empty while `lastEvents`, which is what
the poller believes, does not.

*Other calls on the descriptor.* `status()`, `setNoDelay()` and the interval's
update of the addresses come from outside of `next()` and leave the duplex as it
is; they are `AskSocket`, which uses the descriptor, while the duplex is not
destroyed. What the update does with the answers is in `DuplexAddresses`.

*Messages* are numbers, notifications a kind. Names, payloads and stream ids are
left out here; stream and payload protocol are in `NativeCalls`.

*The port.* `DuplexPort` has no loop, no polling and no buffers: messages arrive
and are delivered, are accepted and sent, and the port ends, finishes and closes.
The refinement mapping (at the end of `SocketDuplex`) reads delivery off the
messages pushed and sending off the messages the kernel took.

*Server.* `fdTable` is the kernel's table of descriptors and hands out the lowest
free number, as POSIX demands, so a closed number comes back at once. Checks of
the arguments of `listen` come before any state and are left out. Exceptions
that leave `listen` later, with a socket open, are `ListenThrows`; `throws`
counts them, because each costs a descriptor.

*Addresses.* The four questions of `updateAddressProperties` are steps of their
own, then `Apply`, one `RetrievePeerInfo` for each remote address, and
`Announce`; the kernel may move between any two of them.

*Native calls.* Calls are synchronous, so there is one at a time, and `phase`
says how far it is: in the wrapper (`WrapperThrows`, `NativeReads`), packing a
list (`FillAddress`), in the kernel (`Kernel...`), splitting an answer
(`SplitAddress`). `Wrapper` and `Native` are tables of what each function asserts
and reads, by argument. The socket's addresses and one message on its way are the
kernel's state. The order of calls is the library's: options and `bindx` before
`connectx`, `sctp_sendv` once connected; a message on its way is received before
the next call, so that one suffices. Numbers are natural; the casts of negative
numbers and fractions are left out, and so are port 0 (the client's default for
the local port, `lib/client.js` 54) and the wildcard address: for both the kernel
chooses, and what it chose is read back instead. `NativeAssumption` excludes them,
for the run and for the proofs.

*Socket setup.* Each system call of `connect` and `listen` up to the point where
the duplex or the poller is created is a step, which succeeds, fails with an error
object, or is left by an exception: an option of a wrong kind is refused by an
assertion of `lib/native.js`, an IPv6 address or a port out of range by
`lib/sockaddr.js`, for servers as for clients, since `isIP` lets IPv6 pass.

*Native handle.* Every entry point is one action; `queued` counts the microtasks
that still hold the wrapper; `Forget` is the moment the owner no longer
references the poller, after which the collector may run `Finalizer`.

## 3. Runs

| Run | Shows | Bounds |
|---|---|---|
| `duplex` | The duplex never sleeps on unfinished business (`NoLostWakeup`), is armed only for what it will act on (`NoBusyPoll`), disarms when it is starved (`PollLoopBroken`), does not use a closed descriptor (`NoUseAfterClose`), reports the true cause of an error (`ErrorHasCause`), emits `connect` once and truly (`ConnectMeansUp`), keeps the order of messages both ways (`InboundInOrder`, `OutboundInOrder`), respects backpressure (`Backpressure`), reaches no state the code calls a BUG (`NoBugError`), and closes without an error only when everything written was handed over (`GracefulClose`) | two messages each way, one extra notification, oversized messages, both roles; 7.3 million states, one and a half to three minutes |
| `duplex_live` | writes complete, reads are served, `end()` closes, the peer's end closes; refinement of `DuplexPort`, with its liveness (`ImplementsPort`) | one message each way |
| `scheduler` | the invariants of the scheduler, and its refinement of the FIFO of tasks with liveness, the latter until a function throws | two functions of which one may throw, budget 2, queue 4 |
| `next_microtask` | a request for `next()` is kept, and kept once (`RequestKeptOnce`); refinement of the bit, with liveness | budget 12 |
| `native_poller` | the struct is freed once, after its last use, and is freed in the end; no assertion aborts | none needed, 192 states |
| `server` | no descriptor leaks but one for each `listen()` that threw, the watched number is the server's own, no accept after close; each connection's turn comes, however many follow it: having its event reported is not enough, the microtask must accept (`ConnectionServed`) | 5 descriptors, 6 connections, backlog 3, 2 exceptions |
| `server_accept_error` | *violation* | 3 descriptors, 3 connections |
| `setup` | reports are on before traffic, a socket handed on has the options given, the error paths meant to close do | none needed |
| `setup_error_duplex` | *violation* | none needed |
| `addresses` | the remote pair fits, changes are announced, the properties and the information about the peer's addresses converge | 2 addresses, 2 changes |
| `addresses_last_state` | *violation* | 2 addresses, 1 change |
| `native_calls` | no call of the library aborts the process, whatever the application gives (`NeverAborts`); packing stays within its array (`WithinCapacity`); addresses read back as given (`AddressesReadBack`); attributes and notifications arrive as sent (`ReceivedAsSent`) | bytes of 16 values, numbers around 16 and 32 bits, lists of 1, 3 and 10 addresses; 64 thousand states |

Why the bounds suffice. In the duplex one message in flight exercises every
branch; a second one is needed for order, for a buffer that is full when the
next arrives, and for a write that waits in Node's stream while one is queued. In the scheduler a budget of two with four entries lets the
budget run out with work waiting and lets an entry in the middle be cancelled.
In the server five descriptors let the table be full at accept, let closed
numbers be reused and leave room for two that `listen()` lost. Two addresses let
a list keep its length and change its members. In the native calls a byte of 16
values makes 16 and 32 bits 256 and 65536, which leaves TLC's integers room
beyond the widths; lists of 3 and 10 addresses grow within the slack of the first
allocation and past it. The proofs below remove the bounds for the invariants
they cover.

All runs with `CHECK_DEADLOCK FALSE` are of systems that really stop: a destroyed
duplex, an ended setup, a closed server, a freed handle, or a process that ended
with an uncaught exception. The scheduler's two runs and `native_calls` check for
deadlock.

### Fairness

Assumed only where the code's host guarantees it, and only for liveness:

- the event loop runs due microtasks, expired timers and ready poll handles
  (`RunNext`, `PollMicrotask`, `NativePollEvent`, `Dispatch`, ...; for the server
  `PollEvent`, and the microtask's outcomes together);
- Node calls `read`, `write`, `final` and auto-destroys when its rules say so;
- the network makes progress: a handshake ends one way or the other, a full
  send buffer drains while the association is up, and a shutdown begun here
  completes;
- the application of `duplex_live` reads what it is given. Nobody is forced to
  send, write or end;
- the collector finalizes an unreachable handle, and a closed one's `uv_close`
  callback comes (`ClosedIsFreed`);
- the address timer fires, and the notification of a new association is
  received (strong fairness in `DuplexAddresses`: it is received between two
  updates of the timer, which take turns with it).

## 4. Proofs

Each proof module defines an inductive invariant, shows it for the initial
states and for every action, and derives the theorems from it. For a refinement
the invariant gives each step's counterpart: the abstract action is named in the
proof of the concrete one.

- **`MicrotaskSchedulerProofs`**: `TypeOK`, `RunningIsHead`, `WithinBudget`,
  `NoStrandedWork` for any set of functions and any budget. The four together
  are inductive; the lemmas about `RemoveAt` and the head of a concatenation
  say why scheduling and cancelling during a call leave the running function
  first. `SchedulerImplementsTaskQueue`: every step is a step of `TaskQueue` or
  changes nothing there, until a function throws (removing behind the head is
  removing from the tail, `RemoveFromTail`). For `NextMicrotask`, `HandleInv`
  relates the length of the queue to the handle: the queue is as long as it may
  be only if the handle is defined, and a run that returns early finds nothing
  behind itself. From it follow `RequestKeptOnce` and
  `SchedulingImplementsFlag`, which justifies the bit that `SocketDuplex` uses in
  place of the scheduler.
- **`SocketDuplexProofs`**: `TypeOK`, `NoLostWakeup`, `NoBusyPoll`,
  `PollLoopBroken`, `NoUseAfterClose` for any number of messages, writes and
  notifications and any high-water mark. None is inductive alone. `WakeupInv`
  adds what the code never states: when `next()` has ended and nothing scheduled
  it again, the poller was last told exactly what the flags call for
  (`SleepInv`); the poller's belief differs from what libuv has armed only while
  a poll error is on its way, and that error schedules `next()` (`ArmedInv`);
  poll events are counted only while a run is due (`CountInv`); the flags stand
  for what Node waits for (`RequestInv`); a destroyed duplex is disarmed
  (`ClosedInv`). Every conjunct is a lemma of its own with one step per action.
- **`DuplexPortProofs`**: what passes through the duplex, for the same constants.
  `InboundInOrder`, `OutboundInOrder`, `Backpressure`, `NoBugError`,
  `ErrorHasCause`, `ConnectMeansUp` and `GracefulClose`, from `DataInv`, which
  adds: the send queue holds the one write whose callback is outstanding, and
  `final` comes only when there is none (`WriteInv`); more is pushed only below
  the high-water mark (`ReadInv`); a pending socket error belongs to a dead
  association and stays until it is reported (`CauseInv`); nothing is received
  from an association that never came up, because its error is reported first
  (`ConnectInv`). Lemmas about the places of messages in the receive queue
  (`AppendPlaces`, `TailPlaces`) carry the order; frame lemmas (`SendFrame`,
  `ReadFrame`, ...) dispose of the actions a part cannot notice. With these,
  `DuplexImplementsPort`: the initial states and every step of the duplex are
  those of `DuplexPort` or stutter.
- **`NativePollerProofs`**: `NPTypeOK`, `LiveWhileUsed`, `NoAbort`, from
  `LifeInv`: the struct is freed only after `uv_close`'s callback and the
  finalizer have both run. `ClosedHasAStep`: until then a closed and forgotten
  handle has one of its three steps before it (`ReleasedInv`: the owner's close
  has given up the callback's reference).
- **`ServerProofs`**: `TypeOK`, `NoDescriptorLeak`, `WatchesOwnFd`,
  `NoAcceptAfterClose`, `ErroredIsDown` for any size of the descriptor table,
  any backlog, any number of connections and of exceptions, from `ServerInv`:
  the listening descriptor is the server's, the connected ones are those of the
  live duplexes, and a poll handle that is open watches the listening one.
  `LeftInv` counts the rest: a socket that neither listens nor is connected is
  there for each `listen()` that threw, at most. `WaitingIsWatched`: connections
  wait only on a descriptor that is watched, so that `PollEvent` can come for
  them; that an event is followed by an accept is left to the run and its fairness.
- **`SocketSetupProofs`**: `ReportsBeforeTraffic`, `ReadyIsConfigured`,
  `ErrorsOfSetupClose`. `UnderWay` says that the descriptor is open while the
  calls go on, `DoneSoFar` which calls have been made when each is next.
- **`DuplexAddressesProofs`**: `RemotePairFits` and `ChangesAnnounced` for any
  finite set of addresses and any number of changes. The second rests on
  `ArrayChangedIsExact`: comparing lengths and looking for members in one
  direction is enough for lists without duplicates. It is not inductive, because
  properties are assigned some steps before they are announced: `Untold` names
  that interval. `InfoIsComplete`: after the walk over the peer's addresses the
  answers are those of the remote addresses and of no others; `WalkInv` says that
  during the walk the addresses asked about are among them.
- **`NativeCallsProofs`**: `SockaddrRoundTrip`, `parse` returns what `format` was
  given for every IPv4 address and port; and the four invariants of the run for
  any number of values of a byte, any numbers, addresses and ports, and lists of
  any length. The inductive invariant says in each phase of a call how far it
  is. `ArgsInv`: the arguments have the kinds the wrapper asserts, or one that
  the application gave is of a wrong kind. With `WrapperAsserts` (row by row,
  native.js asserts every kind that main.c reads, but for the buffers of
  `getsockname` and `getpeername` and the list of `sctp_connectx`, of which it only
  looks at the elements; these three are the library's own) it gives
  `NeverAborts`. `FillInv`: the array has grown to what is needed before each
  copy, hence `WithinCapacity`. `PackInv`: the array holds the 16-byte entries of
  the addresses taken so far, and what is left is the rest of the list, so that
  the kernel, which reads entry by entry and puts the first port where there is
  none (`KernelReadsAsked`), gets what was asked for. `SplitInv`: the answer holds
  the first addresses of the side, and the bytes that are left are the formatted
  others, so every turn of the split finds an address of a family it knows and
  the last leaves all of them: `AddressesReadBack`. `WireInv`: a message on its
  way has the cast of what was written, and `Swap32Twice` (`htonl` and `ntohl`
  undo each other) gives `ReceivedAsSent`. `ReturnStep` is the frame of all
  actions that end a call.

Assumptions are the named `ASSUME`s of the modules (types of the constants, that
"no function" is not a function, that `next()` is a function, that "undefined" is
not an address); TLC
evaluates them in the runs.

Only model-checked: liveness, and with it the fairness parts of the three
refinements (`ImplementsTaskQueue`, `ImplementsNextFlag`, `ImplementsPort` check
them; what ENABLED and fairness say is out of the prover's reach).

## 5. Assumptions about what is not in the repository

- **Kernel.** A pending socket error is set no later than the notification of the
  end it belongs to; receive reports queued entries before the error and the
  error before the end; send on an ended association fails with the pending
  error, `EPIPE` or `ENOTCONN`; the end of the association may be readable after
  a local `shutdown`; setting `SO_LINGER` on an open descriptor succeeds; at any
  instant the primary address is one of the addresses, and a list has no
  duplicates; addresses bound and connected are listed in the order given, those
  without a port with the port of the first; a message's stream and payload
  protocol are carried unchanged. Every other system call may fail at any time.
- **libuv.** Level-triggered; with an error pending it stops the handle and
  reports a bad descriptor; one handle is not reported twice before the
  microtask of the first report has run (microtasks run when the native callback
  returns to JavaScript or at the end of the loop's phase; other callbacks may
  come in between).
- **Node.** `autoDestroy` on, `allowHalfOpen` off; an exception in `read` or
  `final`, and an error given to a write's callback, destroy the stream;
  `push` answers whether the buffer is below the high-water mark.
- **Callers of the scheduler** do not cancel the function that is running. Nothing
  in the repository calls `cancel` at all; the operation is part of the
  scheduler's interface. `f # running` in `Cancel` is this assumption and not a
  test in the code, so `RunningIsHead` says nothing about such a caller: `slice(1)`
  (`lib/microtask-scheduler.js:20`) would then drop the next function instead.

## 6. Findings

1. *`server_accept_error`* (`lib/server.js:121`). A failing `accept()` runs
   `listenPollHandle.maybeStop()`, which no poller has: a `TypeError` in a
   microtask in place of an `error` event, and nothing is closed.
2. *`setup_error_duplex`* (`lib/client.js:173`, `190`). When `bind` or `connect`
   fails, `connect()` returns an error duplex and the descriptor stays open.
3. *`addresses_last_state`* (`lib/socket-duplex.js:670`). For an accepted
   association that is already gone there is no last state to keep, and the
   constructor throws; the server leaves the descriptor behind.

Further behaviour that the models contain and that no run is spent on:

- a message larger than the receive buffer makes `next()` throw out of the
  microtask (`ReceiveOversize`);
- a failure of `SCTP_INITMSG` is not noticed (`Streams`);
- whether a write queued when the peer ends gracefully fails with `remote ended`
  (the only error `test/socket.js:399` accepts) or with `EPIPE` depends on
  whether readiness for reading was reported before the write was sent
  (`SendAfterRemoteEnded`, `SendError`);
- the local addresses lack the check that the remote pair gets, so for one update
  `localAddress` may be missing from `localAddresses` (`Apply`);
- a `connect()` that throws after its socket was opened (an IPv6 address, a port
  out of range, an option of a wrong kind) leaves the descriptor open (`Throws`,
  `lib/client.js` 166-182); `ErrorsOfSetupClose` speaks of errors, not of these;
- a `listen()` of the server that throws after its socket was opened loses the
  descriptor, one for each such call (`ListenThrows`, `lib/server.js` 207-228);
- a stream number of 65536 or more is silently taken modulo 65536
  (`Cast`, `src/main.c` 745-752);
- `SCTP_CANT_STR_ASSOC` has no name in `lib/notifications.js` and is told as
  `???` (`Named`);
- `sack` is read at the top of the options (`lib/socket-common.js:81`); the
  README (line 51) puts it inside `sctp`, where it has no effect (`Options` of
  `SocketSetup` has it where the code reads it).

Two disagreements met in reading, which are not of the models' kind: the README
says that `listen`'s `port` is optional, `lib/server.js:174` throws without it;
and `getsockopt_sctp_status` (`src/main.c` 66-112) lets the kernel fill a
`struct sctp_status` and reads a `struct sctp_info`, so that `status()` reports
bytes of the primary path under the names behind `fragmentationPoint`.

## 7. Not modelled

The two errors for a first entry that is not an `SCTP_ASSOC_CHANGE`
(`lib/socket-duplex.js` 163-190) have no step: the kernel reports the outcome of
every handshake before anything else, in the model as in reality.

- *Errors and constants* (`lib/errors.js`, `lib/constants.js`): tables of numbers
  and names and one constructor of `Error`; an errno is a model value where it
  matters.
- *Entry point* (`lib/index.js`): tells optional arguments apart; no state.
- *Error duplex*: it holds nothing and emits one error; that it forgets the
  descriptor is `SocketSetup`'s.
- *Assertions on results* in `lib/native.js`: they repeat what the native code
  builds. *Failures of memory* and of the engine's own calls abort the process.
  *Layouts* of the kernel's structs other than addresses.
- *Notifications shorter than their type* (`src/main.c` 1088-1196 aborts on
  them): the kernel writes whole ones, into a buffer that is large enough.
- *`setsockopt_linger` failing in `destroy`* (`lib/socket-duplex.js:506`, which
  would throw): setting `SO_LINGER` on an open descriptor does not fail, and that
  the descriptor is open there follows from `NoUseAfterClose`.
- *Texts* of errors and notifications, and the checks of arguments that come
  before any state.

## 8. Plan

1. Done: scheduler, idiom of `next()`, duplex and its abstract port, native
   handle, server, setup, addresses with the information about peers, native
   calls; proofs as in section 4.
2. Every safety property of a passing run is a theorem, and so is the safety part
   of each refinement. `ClosedHasAStep` and `WaitingIsWatched` are what
   `ClosedIsFreed` and `ConnectionServed` rest on besides fairness (for the duplex
   it is `NoLostWakeup`). Next: the same for `WriteCompletes`, `EndCloses` and
   `PeerEndCloses`, and types of `NativeCalls` and `DuplexAddresses`.
3. Possible models: server and duplexes together over one table of descriptors.

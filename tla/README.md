# xfoundation: models and proofs

xfoundation is a small C library for programs that have one main thread and many
things to wait for: timers, sockets and files, and work done by other threads.
This directory holds TLA+ models of it, the TLC configurations that check them
on small instances, and proofs, checked by TLAPS, of the results that matter
most for instances of any size.

Line numbers below are those of the sources under `src/` at the commit the models were
written from. `PROJECT.json` gives, for each definition, the lines it stands for.

Contents: [1 the system](#1-the-system), [2 the modules](#2-the-modules),
[3 the runs](#3-the-runs), [4 fairness](#4-fairness), [5 the proofs](#5-the-proofs),
[6 assumptions that are constants](#6-assumptions-that-are-constants),
[7 where code and documents disagree](#7-where-code-and-documents-disagree),
[8 what is not modelled](#8-what-is-not-modelled), [9 the plan](#9-the-plan),
[10 running it](#10-running-it).

## 1 The system

There is no scheduler. A program creates (or takes the main) *loopers* and a
*timer queue*, and its own loop calls "wait", then "process", which runs callbacks on
the thread of the loop. Callbacks call back into the library: they add and cancel
timers, register descriptors, start the next io. That reentrancy, and the few
places where a second thread takes part, are what makes the code hard.

| Component | State | Operations | Talks to |
|---|---|---|---|
| Timer queue, `src/src/timerqueue.c` | doubly linked list sorted by deadline, `first_timer_`, the place of a pass `cur_timer_`, fields of each `timer_ctx` | `timer_add_timeout`, `timer_add_interval`, `timer_cancel`, `timer_queue_process` | its host through the observer and the out parameter `nextwait`; owners through callbacks |
| Memory stream, `src/src/memstream.c` | ring of bytes, two positions, a count | `memory_stream_write`, `memory_stream_read` | the Windows work queue of the test program |
| Work on other threads, `src/src/workasync.c` | `work_ctx` (ready, run function, callback), two runners | `work_async_init`, `work_async_run`, `run_work_ctx` on a new thread | the main loop through `mainrunner_` |
| Futures and coroutines, `src/src/future.h` | a line number and `ready` | `future_enter`, `future_yield`, `future_wait`, `future_leave` | whoever runs the callback |
| Poll looper, `pollasync_epoll.c`, `pollasync_eventselect.c`, `pollasync_kqueue.c` | who waits for what: in the kernel (epoll, kqueue) or in a table (WSAEventSelect) | register, unregister, wake, wait, process | the kernel; users through callbacks |
| Asynchronous io, `ioasync_pollasync.c`, `ioasync_iocp.c` | `io_ctx` (offset or a `poll_ctx`), `io_future` | read, write, connect, accept, recv, send, recvfrom, sendto; wait and process on Windows | the poll looper or a completion port |
| Main loops, `src/test/main.c`, `src/util/guiasync/*` | a pipe, a message queue, a completion port; the timer of the system | wait for everything at once | all of the above |
| TLS, `src/util/sslasync` | the two memory BIOs of a session, two buffers, one future for what the client waits for | handshake, recv, send; the callbacks of four io calls | asynchronous io; coroutines that are called back inside of a call |
| HTTP client, `src/util/curlasync` | libcurl's multi handle, one timer, a `poll_ctx` per transfer | `curl_async_perform`, both callbacks for libcurl, those of socket and timer | poll looper, timer queue, libcurl |
| Clocks, io helpers | none | read a clock, set a mode | |

What is hard, and the property that answers it:

- **Callbacks that change what is being iterated.** A timer's callback may cancel
  the timer that runs, the next one or all of them, and add timers before and behind the
  place of the pass. The place must stay on the list, the list sorted, each timer run
  when it should and not after it was cancelled
  (`CursorOnQueue`, `QueueOrdered`, `Contract`, `PassEnds`). The
  callbacks of the poll loopers register and unregister while a batch is processed and a
  table is compacted (`Agreed`, `CalledAsAsked`, `SelectedWhereItStands`, `ObjectsAreKept`).
- **Two threads without a lock.** A worker stores a result and sets `ready` while the
  main thread may look (`ResultIsThere`, `OneThread`, `AllLeave`). A thread waits for the table of the
  poll looper while the main thread changes it (`NoLostWake`). `PollThread` and the
  main thread share one array (`ResultsAreStill`). The waiting thread of Android
  and the main thread share `timerqueueready_` (`OnePassToCome`).
- **Exactly one callback.** A call that does not complete at once must be
  called back once, by whichever of several places holds it (`PendingIsHeld`,
  `CalledOncePending`, `PendingCompletes`, `AllServed`).
- **Callbacks inside of calls.** `ssl_async_recv` calls its client back before it returns when a record
  is there already; the client's coroutine, one future and one buffer are then in use twice
  (`InOrder`, `HeldByOneCall`). Records come in parts and several at once, and the end behind them
  (`AllHandled`, `HandshakeTold`, `SessionEnds`).
- **Calls that fail behind half of their work.** A registration that Winsock refuses leaves its context in the table
  (`SelectedWhereItStands`, `NoLostWake`, `CalledAsAsked`); a handshake that fails tells nobody (`HeldByOneCall`, `HandshakeTold`); a
  post that the completion port refuses leaves `PollThread` at its event (`ResultsAreStill`, `AllServed`).
- **A library in the middle.** libcurl asks for sockets and for a timer inside of the callbacks that the looper
  and the timer run; its transfers own the memory that the kernel points to (`WatchedAsAsked`,
  `TimerAsAsked`, `AllToldBack`).
- **When to wake up.** The host sleeps as long as it was told; timers that are added
  meanwhile must shorten that (`WakeInTime`, `OverdueServed`, `HostIsArmed`).
- **The ring at its edges.** Positions equal in a full and an empty stream, wraps,
  positions at the end (`Spanned`, `KeepsOrder`).

`PROJECT.json` lists these hazards one by one, at the lines where they bite.

## 2 The modules

```
TimerOrder ---- TimerQueue --(refines)--> TimerContract       MemStream --(refines)--> ByteQueue
    |               |
    |           GuiTimers   (four hosts of the queue)         WorkAsync   (workers, coroutines, main loops)
    |
TimerList (pointers; spells the sequences of TimerOrder)      PollEventSelect (table, waiting thread)

PollLooper -- PollEpoll --+                                   IoAsyncIocp ---- IocpMain (main loop on a port,
          \-- PollKqueue -+                                                              PollThread, workers)
                          |
                      PollAsync -- PollUsers    (any users of the looper)
                          |   \--- CurlAsync    (libcurl's sockets and its timer)
                          \------- IoAsyncPoll  (all io calls as its users)

SslAsync (a TLS session and its coroutine over io calls that pend)
```

`MC<module>` only declares the model values and definitions a `.cfg` needs.
`<module>_proofs` holds theorems. Lines that begin with `\* BUG:` in a module
introduce a variant of the definition below them, a plausible mistake in the
code; no model uses them. For each property of each passing run `PROJECT.json`
names the variant that breaks it.

**TimerOrder, TimerQueue, TimerContract.** The list is the sequence `queue`.
`NodeAdd` and `NodeRemove` are `timer_node_add` and `timer_node_remove` on it (lines 105-153),
`CurAfterRemove` the move of `cur_timer_`. An action is what happens from one callback
to the next: `StartPass`; `FireOnce` and `FireInterval`, which mark the timer ready, unlink a
timeout and enter the callback; `OnceReturns`, `RearmInterval`, `SkipRearmedOnce`
and `LeaveCancelled`, the ways on from line 218; `EndPass` with the delay for the host.
`timer_add` and `timer_cancel` are possible between passes and in any callback, of any
timer. The clock is the variable `now`, which may go on at any moment. `wake` is
what a host that believes what it is told would sleep to. `interval` and `ToInt`
keep the conversion from unsigned to int (line 168). `TimerContract` says what
`timerqueue.h` promises to the owner of a timer, without a list or a pass, and
`Contract` is the refinement, by `Armed == INSTANCE TimerContract WITH armed <- Queued, ...`.

**TimerList.** The pointers, assignment by assignment, with the walk of
`timer_node_add` one node per step. The history variables `list` and `place` are
changed by `TimerOrder`'s operators; `Linked` and `PlaceKept` say that the
pointers spell them. So `TimerQueue` may speak of a sequence.

**MemStream, ByteQueue.** Offsets `posread` and `poswrite` in `0 .. Size`, both
write branches and both read branches with their wraps, initial memory arbitrary.
`KeepsOrder` maps `Contents`, the bytes from the read position around the ring, to
the queue of `ByteQueue`. A client may write to a full stream, which may accept the write (line 87); the history `overfilled`
remembers that, for what the stream then holds is not what was written.

**WorkAsync.** Threads are the main thread and one per work. The main thread
calls a coroutine or reads one item of the pipe; a worker runs the run function, stores
`ready`, writes to the pipe (which blocks when full) and ends: three steps,
in the order of `run_work_ctx`. A coroutine is its line variable `status`, and
`Entry` is the switch of `future_enter`. Coroutines are of two kinds, as in the two
tests: one waits for a function, one *is* the run function and continues on
the worker. `runner` is the way back to the main thread: the pipe of the POSIX build, one item per
turn; the locked memory stream of the Windows build, from which the main loop takes some items and then
calls them; or none, and the worker runs the callback itself (`default_main_runner`). `ready` and the result are plain memory: as long as the main thread has not
read the item of a work, a read may give either value (`Racing`), and with
`StoresInOrder = FALSE` the new `ready` with the old result.

**PollLooper, PollEpoll, PollKqueue, PollAsync, PollUsers.** The looper keeps nothing itself; the
kernel's entries (`interest`) and what has been handed out but not processed (`batch`)
are the state. epoll has an entry per descriptor: registration is ADD or, where there is one, MOD
(line 134), and the looper deletes it for `POLL_FLAG_ONCE` before the callback (line 102). kqueue has an entry per descriptor
and filter and drops it itself (EV_ONESHOT). The filters are -1 and -2 and the code combines and
tests them as bits, so `KqueueFilter` of both directions is the filter for input, `KqueueEvents` of any event is
both directions, and unregistering sets no filter. A wait gives any
of the ready descriptors in any order, as many as fit. `backend` never changes, so that one model
holds both. `PollUsers` is the most general
user, with contexts that share a descriptor.

**IoAsyncPoll.** All eight calls and their handlers, and the file operations of the Windows build (lines 211-262),
over `PollAsync`. A system
call is a choice among what the conditions of the descriptor allow, failures and
parts of a buffer included. `client` is what the client knows of its future;
`want` and `sent` are histories.

**SslAsync.** A session is its coroutine (`step`, and `stack`, the activations that are nested in calls), the future
`notify`, the TLS library's two BIOs and the pending io calls. What the network carries is a sequence of units: 0 is a part
of something, a positive number completes that record, `Bye` is the closing alert. `ssl_handshake_work` goes as
far as what was received allows and then sends a piece, receives or tells; or `SSL_do_handshake` fails (`FailsAt`), with an alert to be sent or without one,
and then what is left is sent and nobody is told (lines 191-197; `refused` is TRUE from there on); `ssl_async_onrecv` has the
five ways on from `SSL_read`. The programs of `main.c` are the order of calls (`NextOp`) and what they do with a result
(`GoOn`). `Tell` is `future_set_result`: it pushes the activation that the callback enters.

**CurlAsync.** A turn of the main loop is timers, wait, events. Inside of `curl_multi_socket_action` (`at = "action"`)
libcurl asks through `handle_socket` and `start_timeout` for whatever it likes and finishes transfers, also others than
the one it is called for (the history `elsewhere` has those that it was done with in a call for another's socket);
then `check_multi_info` reads its messages one by one, calls back and frees. `poll_register` and `poll_unregister` are
those of `PollAsync`; the timer is what `TimerContract` promises, without times. A result whose `curl_ctx` is freed (`Dangling`) is not processed: what
`on_poll_result` would do with it is undefined, and the model ends there.

**PollEventSelect.** The table of 64 places (`MaxEvents`), with its holes, and the thread of the
host that waits for a prefix of it. `ClearStep` closes holes one place at a time,
for contexts and event objects change places together. Winsock is modelled by what is
documented of WSAEventSelect: one object per socket, what is noted is forgotten by a
new selection, an object is reset by the wait or by enumerating. Its calls may fail, and then change nothing, but what the code
has done before them stays: `RegisterFails` is CreateEvent's failure (line 233), `Refused` that of WSAEventSelect in `poll_register` (line 244), which leaves
the context in the table; `poll_unregister` frees the place whether WSAEventSelect fails or not; `NotEnumerated` is the
failure of WSAEnumNetworkEvents (lines 161-164), of which the callback is told. The histories `asked` and `given` are what users were told and what they gave;
`refused` and `unread` are the contexts in the table for which Winsock has refused to register or, since, to tell events.

**IoAsyncIocp, IocpMain.** The kernel holds a call, then a packet is in the port,
then in the batch, then the callback runs; another thread's callback is a packet
with the length `RunKey`. The kernel may refuse a call at once or complete it with any
number of bytes or a failure, and the port may refuse what is posted. `IocpMain` adds the main loop of the test program on
Windows: `PollThread` hands its results over through the same port and
waits for an event, and workers post there. It waits also when the post has failed (the history `deaf`).

**GuiTimers.** `TimerQueue` with the hosts of `guiasync`: what starts a pass
(the system's timer or a message, a dispatch source, a pipe) and what sets the timer again; and with a plain
loop that only runs the queue and sleeps (`LoopTurns`).
The four share the queue, so the platform is a variable that never changes.

## 3 The runs

All runs finish in three minutes or less with two workers, most in about one.

| Run | Instance | States | Shows |
|---|---|---:|---|
| TimerSafety | 3 timers, timeouts 0 and 1, intervals 0 and 2, 3 ticks, ints up to 1, re-adding in callbacks | 865,916 | `TypeOK`, `QueueOrdered`, `CursorOnQueue`, `ReadyOnlyWhileRunning`, `WakeInTime` |
| TimerLinks | 4 nodes, 3 deadlines | 20,193 | `Linked`, `PlaceKept`, `AddReturns` |
| GuiHosts | 2 timers on each of four hosts (Windows, Apple, Android, a plain loop), timeouts 0 and 1, intervals of 1, 3 ticks | 385,614 | `Contract` (refinement), `PassEnds`, `OnePassToCome`, `OverdueServed` |
| StreamFifo | ring of 4, two values, buffers up to 5, a client that also writes to a full stream, twice the ring in it | 18,784 | `Spanned`, `KeepsOrder` (refinement), `TypeOK` |
| WorkResults | a coroutine of each kind, 3 works each, each of three runners: a pipe of one item, a stream read two at a time, none | 21,748 | `ResultIsThere`, `OneThread`, `AllLeave` |
| PollSafety | epoll, 3 contexts, two on one descriptor, batches of 2 | 1,371,888 | `Agreed`, `CalledAsAsked` |
| IoSockets | a descriptor with all calls and a datagram socket, a future on each, parts and failures, on epoll and on kqueue | 351,716 | `PendingIsHeld`, `CalledOncePending`, `PendingCompletes` |
| SelectTable | 3 contexts, two on one socket, a table of 3, two data; calls of Winsock for that socket may fail | 239,570 | `ObjectsAreKept`, `SelectedWhereItStands`, `NoLostWake`, `CalledAsAsked` |
| IocpLoop | a stream, a socket, 2 futures, a worker, PollThread, batches of 2, posts that may be refused | 285,816 | `PendingIsHeld`, `StreamIsContinuous`, `PostsAreKept`, `ResultsAreStill`, `AllServed` |
| SslSession | a client and a server, 3 records behind the handshake, buffers of 3 units, handshakes that may fail at any point, calls of the server that fail at once | 1,786 | `InOrder`, `HeldByOneCall`, `AllHandled`, `HandshakeTold`, `SessionEnds` |
| SslLost | a server whose peer does not wait for answers, 2 records | (stops) | violates `InOrder`, see section 7 |
| CurlTransfers | 3 transfers, one of them started by a callback, on 2 sockets, batches of 2, a libcurl that goes on with any of them in any call | 583,792 | `WatchedAsAsked`, `TimerAsAsked`, `AllToldBack` |

Modules whose `TypeOK` is in no run keep it because the proofs of section 5 rest on it, or because
it documents the state; a run spends its time on what could be wrong.

Why the bounds are enough:

- *Timers.* A callback can disturb a pass through the timer that runs, the one the
  pass goes to next, and one more that comes in between or behind: three. Deadlines that are past,
  now, one tick and more than one tick ahead all occur, also equal ones, and an int of 1 bit makes the
  interval 2 negative. Four nodes give the list a first, a last and two inner neighbours.
- *Hosts.* `MaxTick` ends the ticks; behind it the system's timers still fire (`Elapsed`),
  so that nothing holds merely because the clock has stopped. Two messages may wait (`MaxMessages`), one more than
  Android ever posts.
- *Streams.* A ring of 4 with buffers of up to 5 has every case of both branches: no wrap, a wrap,
  a position exactly on the end, a buffer that does not fit, one longer than the ring. Overfilled it holds up to 9 bytes (`MaxLen`), so that reads of
  more than there is memory occur as well.
- *Work.* Three rounds let an item of the first work arrive in the second and in the third; a
  pipe of one item blocks a worker against another of the other coroutine; a main loop that takes two items from the stream
  holds one of them while it calls the other.
- *Looper.* Two contexts on one descriptor are what makes an entry change hands,
  the third and a batch of two make an event wait while another's callback runs.
  The table of 3 has the wake-up object, and holes before and behind a context.
- *Winsock.* The socket that two contexts share is the one whose calls may fail (`Refusable`): a refused context is taken over, registered again, called back,
  moved and unregistered, beside one of the other socket for which all goes well. The network brings `in` of the one and
  `close` of the other (`Brings`). The two contexts and the two data are interchangeable (`SYMMETRY`), and the flags and data of a context that is not in
  the table are left out of the fingerprint (`VIEW`), because they are overwritten before they are read.
- *Io.* Two futures on two descriptors, and a callback that starts the next call, give all ways
  a result can meet the wrong call. One descriptor has every call; buffers of two to send are taken in parts, one to receive may
  come or not. No call's handling depends on more.
- *Ports.* A batch of two holds a completion and a posted callback in either order, with others still in the port.
- *TLS.* Three records, each with or without a part before it, against a buffer of three units: a recv brings a part, a
  record, two records, a record and the alert, or the last flight of the handshake and more. The handshakes have two flights of
  each side, and pieces that do not fit into one send; they fail at the first flight, at a later one, or before anything is sent, with an alert or without.
- *Curl.* A transfer waits for its event in the batch while another's callback frees its context and starts the third; libcurl may be done
  with it before its event is processed.

Deadlock is checked in all runs but WorkResults, where the coroutines come to their ends, and the two of SslAsync,
where the session ends and the peer may stop.

## 4 Fairness

Weak fairness is assumed of the program's own steps that are enabled, and nowhere of a client's decision
to call, except where a run says otherwise:

- `GuiTimers!GuiFairSpec`: each pass goes on (callbacks return); a timer of the system that
  has elapsed fires, a message is taken out of its queue, the waiting thread ends its
  wait (it has a timeout) and writes to the pipe; a plain loop, that of `timerqueue.h:34-38`, runs the queue again and again;
  and the clock goes on.
- `WorkAsync!FairSpec`: the system schedules every thread; the main loop sleeps
  only while its queue is empty. A client's first call is part of the main loop's program.
- `IoAsyncPoll!FairSpec`: the main loop goes on and callbacks return; the peers go on sending
  and reading, without which no call need ever complete.
- `IocpMain!FairSpec`: the main loop and `PollThread` go on, and the kernel completes
  what it has taken. What the poll looper reports, and when, is left open.
- `SslAsync!FairSpec`: the processor runs the session; a send completes, and a recv for which there is something;
  a peer that neither closes nor breaks goes on with the handshake. Whether it sends records, closes or the connection
  breaks is its own choice.
- `CurlAsync!FairCurlSpec`: the main loop's program goes on and libcurl returns from each call. Nothing is owed by the network.
- `TimerList!ListFairSpec`: a call of `timer_node_add` that has begun goes on.

No strong fairness is used. `PollUsers` and `PollEventSelect` are checked for safety only: which
descriptor is reported first is the kernel's own fairness, and `NoLostWake` is
the safety form of "nobody waits for ever".

## 5 The proofs

| Theorem | Module | For every |
|---|---|---|
| `TypeCorrect`, `ListStaysOrdered`, `CursorStaysOnList`, `ReadyIsRunning`, `HostWakesInTime` | TimerQueue_proofs | set of timers, delays, width of int, length of time; callbacks of any kind |
| `QueueKeepsContract` | TimerQueue_proofs | the same, if delays fit an int and no callback re-adds its own running interval |
| `HostsRunTheQueue`, `HostsKeepContract` | TimerQueue_proofs | the same, on any of the hosts |
| `PassesDoNotPileUp` | TimerQueue_proofs | number of timers and messages |
| `PointersSpellList`, `CursorFollowsPlace`, `ListTypeCorrect` | TimerQueue_proofs | set of nodes and deadlines |
| `PositionsStayInside` | MemStream_proofs | size, client and buffer, overfull streams included |
| `CountSpansPositions`, `StreamIsQueue` | MemStream_proofs | the same, until a full stream accepts a write |
| `WorkTypeCorrect`, `ResultsAreThere`, `CoroutinesAreAlone` | WorkAsync_proofs | number of coroutines, works and items, each runner, if stores are seen in their order |
| `LooperTypeCorrect`, `KernelAgrees`, `CallsAreAsked` | PollAsync_proofs | set of contexts and descriptors, batch and events, on epoll, if callbacks leave other contexts alone |
| `PendingCallsAreHeld`, `CalledBackOnce`, `IoTypeCorrect` | PollAsync_proofs | set of futures, io_ctxs and descriptors, their calls, batch and length of buffers, epoll and kqueue, if a client waits for a call on a descriptor before it starts the next one |
| `SocketsAreWatched` | PollAsync_proofs | set of transfers and sockets, batch and events, on epoll, whichever transfers libcurl goes on with |
| `TimerIsSetOnce` | PollAsync_proofs | the same, on either kernel |
| `TypeCorrect`, `ObjectsStay`, `TableAgrees`, `WakesArrive` | PollEventSelect_proofs | set of contexts and sockets, length of the table, calls of Winsock that fail |
| `CallsAreAsked` | PollEventSelect_proofs | the same, if users who register a context again give it the same callback and data |
| `CallsAreHeld`, `PostsStayInOrder`, `ResultsAreLeftAlone` | IocpMain_proofs | set of futures, files, sockets and callbacks, batch and length of buffers, clients of any kind, posts that are refused |
| `StreamsAreContinuous`, `TypeCorrect` | IocpMain_proofs | the same, if a client waits for a call of a stream before it starts the next one |
| `WaitsForOneCall` | SslAsync_proofs | program, handshake, number of records and buffer, peers as in the model, handshakes that fail anywhere, if no io call fails at once |
| `HandlesInOrder`, `WaitsForOneCallOrFails` | SslAsync_proofs | the same, if only servers have calls that fail at once, and a server ends the handshake and has a peer that waits for each answer (`Orderly`) |

*The list.* `TimerOrder_proofs` has the facts about sequences: inserting and removing
keep a sequence sorted, without repetition, and change its set of elements and its first deadline as they
should, and the successor of an element is on the list.

*The queue.* The invariants are not inductive one by one. That a removal moves the place of the pass off the
removed node (`CursorOnQueue`) rests on the list holding no timer twice (`Ordered`). That the ready mark is
right needs to know whose callback runs (`RunningIsTimer`) and that an interval which runs and was not
added anew is still an interval (`LoopUntilReadded`): only then is the timeout that line 219 steps over
not marked. `IInv` is the conjunction

    TypeOK, Ordered, CursorOnQueue, RunningIsTimer, ReadyOnlyWhileRunning, LoopUntilReadded, WakeInTime

and there is one lemma per action. `WakeInTime` is inductive through the first deadline: adding a
timer either makes it the first, and then the observer shortens the sleep, or leaves the first one
alone; removing one only moves the first deadline back.

*The contract.* The step simulation needs, beyond `IInv`, that the stored delay is the one
asked for and that an interval which is still on the list after its callback is the place of the pass (`RInv`).
It is false when a callback cancels and re-adds the interval that runs, for then the test in line 218 cannot
tell; this is why the theorem assumes `RearmsInCallback = FALSE`. Steps of the pass that run no callback are stutters.

*The hosts.* Each step of a host is a step of the queue or leaves it alone (`QueueSteps`), so `GuiSpec => Spec` and all that is proved
of the queue holds on every platform. For Android, `OnePassToCome`
equates `timerqueueready_` with the number of passes on their way, posted, about to be posted or running; `AndroidInv` adds that the queue of
a program on Android is run by messages only, and the flag is 0 or 1.

*The pointers.* `LInv` adds to `Linked` and `PlaceKept` that the list is sorted and where the walk stands:
every node before it has an earlier deadline. With `PlaceIsUnique`, the place that the walk finds is the one that
`NodeAdd` allows.

*The stream.* `TypeOK` alone is inductive: whatever a client does, no byte
outside the memory is touched. `Spanned` speaks of a stream that has not been overfilled: where a write meets a full stream the free bytes
are computed wrongly (section 7), and `overfilled` is TRUE from there on. The refinement compares `Contents` before and after a write and a read, byte by byte.

*Work.* The heart of `Inv` is where a coroutine can be. One that is its own run function is a baton: it is held by one
thread, or by one item in the queue (`Items`), and never by
both; the thread that holds it is the only one that touches it. One that waits for a function never leaves the main
thread. `Local` says, for each coroutine, what its line variable, `ready`, `val` and the place of its last worker may be
together: `ready` is 1 only behind the store of the result, so that a wait that passes finds it. Items of earlier works
may still arrive; `Local` shows that they meet a coroutine that looks at `ready` again.

*The looper.* `Watched` says that the one entry that a descriptor has in the kernel is that of the context
that has asked, with the events it has asked for, and that a descriptor for which nobody has asked has none. `Batched` says that the events of a batch still to be
processed belong to different descriptors and to contexts that wait. POLL_FLAG_ONCE deletes by descriptor; `Watched`
shows that what it deletes is the called context's own entry. It is here that a callback which unregisters another
context is excluded (`TouchOthers`).

*The table.* `Objects` says that the places below `created` hold the objects below `created`, none twice, and place 0 its own:
an exchange of two places keeps this, whichever they are. `SelectedWhereItStands` then is preserved one exchange at a time, because the object that a moved context
had is at no other place, and is given its selection again at the new one. `Closing` says where `l` and `r` of `poll_looper_clear_null_ctx` are: both inside of the table, `l` never
beyond `r`. For `NoLostWake`, `Blocked` relates the thread to the table: while it waits, or the index it brings back has not been looked at, the table does not shrink;
`Woken` adds that if the table has grown past what the thread waits for, by a context that was accepted, the object at place 0 is signaled. `Noted` adds that what Winsock
has noted for a context that waits is part of what was asked, and that it is on its way. A call of Winsock that fails changes nothing of this: the context
whose registration it was is in `refused`, the one whose events were not told is in `unread`, and a registration that is accepted, the next telling of events
or the removal from the table takes it out again. `Given`, that a context has the data given last, needs that users keep the data (`KeepsData`): it is the reason for the hypothesis of `CallsAreAsked`.

*The completion port.* A pending call is in one of three places: with the kernel, in the port, in the batch. The last two are one sequence
(`Packets`). `Held` says that the holder is unique and that what is held is pending and not ready, so that completing, waiting and calling
back move a call on and never copy it. Posted callbacks lie among completions in the same sequence: `PostsAreKept` names the place of each, in order; a post
adds a place at the end, a completion none, and a step of the batch that runs one takes the first. Of PollThread, `Handed` says that its callback is on its way once at most and that it then stands at its
event, which is reset: a second event would let it overwrite the results (`ResultsAreStill`). A post that the port refuses puts nothing in it; `Handed` says that
`PollThread` is then `deaf`, and only then waits for an event that nobody will set.

*Offsets.* `Streamed` follows the one call that a stream may have on its way (`Alone`). While the kernel has it (`AtWork`), it begins at the offset, which is what was moved so far; when
it is in a packet (`OnTheWay`), what was moved is ahead of the offset by what the packet carries; with no call on its way (`Settled`) both are equal. With two calls on a stream this is false,
which is what the hypothesis `OneAtATime` excludes.

*The io calls.* Three theorems rest on `IoInv`. `Owned` says that a pending call has the poll_ctx of its io_ctx and the descriptor to itself; `HeldSomewhere` that it
is held by an entry, a result in the batch, or its handler that runs, and while that runs by nothing else; `HoldsPending` is the converse: no entry, no result and no
handler is left over from a call that has ended, and each descriptor has one entry and each poll_ctx one result at most. The two kernels differ where the entry goes: kqueue drops it
with the result (EV_ONESHOT), on epoll the looper deletes it before it calls (POLL_FLAG_ONCE), so that between wait and callback a call is held twice on epoll and once on kqueue.
The proof does not look at the ten calls one by one: each is `Answered` or `Delayed`, each handler `Finished` or `Retried`, and the lemmas say which.
A handler finds its future in `udata`; that it is the future of the pending call is `HandlerServes`.

*The HTTP client.* `CurlWatched` says that a descriptor's one entry is that of the transfer that waits, with the events libcurl has named, and that a transfer that waits is
running; `CurlBatched` that the results to come belong to different transfers, none of them the one that is called back, and that each of these
is running or one that libcurl was done with in a call for another's socket (`elsewhere`). So the `free` behind `check_multi_info` meets no result in any other way:
not in the transfer's own callback, and not in a call for a timeout, for then there is no batch (`at # "loop"` implies a callback or
`turn = "fired"`). `TimerIsSetOnce` is inductive by itself.

*The session.* Two invariants, one on top of the other. `SessionInv` says who waits: `Stacked` that one call is pending, or the handshake has failed and all is sent (`Held`, `Quiet`), when no activation is left or the front one waits without a result,
and none otherwise, and that the activations behind the front one wait for a record; `Begun` is the session up to its handshake call, which is made once. It assumes nothing of the peers beyond their steps in the model. What it cannot
survive is a call that fails at once while the handshake call runs, for then the callback frees the session under its caller: without `FailsAtOnce` it is inductive as it stands.

`OrderInv` adds the order. `Matched` says that what the coroutine waits for is what its pending call tells of; with it a handler finds the activation it thinks it serves.
`Shaken` keeps every session out of `recv` until the handshake is done. `Arriving` speaks of all that is on its way to the session, `bioin \o net`, as one sequence, which the steps only take from at the front and add to at the end:
its records go up, begin with the next one to be handled and leave none out as long as the connection is not broken; and a server's `bioin` holds no record, so that its
`ssl_async_recv` never calls back inside of the call, which is what loses a record in SslLost. That in turn is a matter of counting (`Counted`): a peer that waits has sent no more than it has got answers for, and it has got no more
than the flights and answers made for it less what `bioout` and the call on its way still hold. A client needs no such thing: it may find a record at once, and its activations are then nested in the one that is in the call.
The hypothesis `Orderly` is what the run SslSession assumes, and what the programs of main.c and TLS give: the request and the answer alternate, and a server's last flight is its own.
A call of a client that fails at once inside of `ssl_async_handshake` is left out, as in the run (section 6).

The community modules define `Record` and the counts by `SelectInSeq`, `Min`, `Max` and `Cardinality`; the first lemmas say what these return.

Assumptions are the `ASSUME`s on constants in the modules, which TLC evaluates in the runs,
and those stated in the theorems. Only model-checked: all liveness (`PassEnds`, `OverdueServed`, `AddReturns`,
`AllLeave`, `PendingCompletes`, `AllServed`, `AllHandled`, `HandshakeTold`, `SessionEnds`, `AllToldBack`), which is outside of what TLAPS
proves. Every safety property that a passing run checks is stated by a theorem.

## 6 Assumptions that are constants

A client can use some operations in a way the code does not survive. Each such restriction is a constant,
so that it can be lifted to see what happens.

| Constant | Assumed | Lifted |
|---|---|---|
| `RearmsInCallback` | GuiHosts: FALSE | a callback that cancels and re-adds its running interval has the new timer's deadline moved; TimerSafety has it TRUE |
| `StoresInOrder` | TRUE (x86) | a coroutine passes its wait without the result |
| `StreamAssumption` | the work queue of Windows holds all works under way | MemStream shows what a full one does |
| `Backends` | PollSafety: epoll | on kqueue a context that waits for both directions waits for one, and unregistering removes nothing: `Agreed` and `CalledAsAsked` do not hold. IoSockets has both, for an io call waits for one direction, and once |
| `TouchOthers` | FALSE | a callback that unregisters another context is followed by that context's callback, from the same batch |
| `OneAtATime` | TRUE | a second call on a socket loses the first (poll); two calls of a stream use one offset (ports) |
| `PartialSends` | TRUE | FALSE is a kernel that takes all or nothing; with TRUE what was sent is sent again (`SentOnce`) |
| `KeepsData` | TRUE: who registers a context that is in the table gives it the same callback and data | such a context keeps its old callback and data, and `CalledAsAsked` is false |
| `RunKey > MaxLen` | | a transfer of exactly `0x7feeff11` bytes is taken for a posted callback |
| `PeerWaits` | SslSession: TRUE | a record is lost: SslLost |
| `FailsAtOnce` | the server, not the client | with the client, an error inside of the handshake call frees the session, which then goes on behind the call (`HeldByOneCall`) |

Without a switch: `MayRun` in WorkAsync leaves out coroutines that wait for a function when there is no main runner, for the worker
would run their callback beside their first call; `Breaks` in SslAsync does not come before the session waits for the handshake;
libcurl lets go of a socket before it reports a transfer as done, and has one socket per transfer.

## 7 Where code and documents disagree

Found by a run:

- **SslLost** (`sslasync.c:252`). A peer that sends its request without waiting may have it arrive together with the last
  flight of the handshake. `ssl_async_recv` finds the record and calls the future back inside of the call. The line variable of the coroutine
  still stands at the wait for the handshake: the second activation finds `ready` set there, goes on, asks for a record again, which resets
  the future, and yields. The first activation comes to its wait, finds nothing and yields as well. The record is lost; the next one is taken for the first.
  `ioasync.h:144` says of a call that completes immediately "io_future.cb will not run."

Seen in the models, without a run of its own. Definitions in parentheses state what does not hold; to see a
counterexample, name one in a `.cfg` with the constant changed.

- guiasync_win32.c:69 (`HostIsArmed`): a pass that a message has started drops its delay. Add A for later, B with a delay of 0, C sooner than
  A: the observer is not told of C, which stands behind B, and the pass that serves B sets nothing. C waits for A's time; `timerqueue.h:71` says
  "callback of timer will run when timer expired". `OverdueServed` still holds: the timer of A serves C.
- timerqueue.c:231: a pass goes on behind the new place of an interval and leaves expired timers in between to
  the next pass (`PassServesOverdue`; `timerqueue.h:71`).
- timerqueue.c:239: the delay is counted from the beginning of the pass, so that a sleep is late by
  what callbacks took (`timerqueue.h:72`). `WakeInTime` has this as `overrun`.
- timerqueue.c:218: a re-added running interval is taken for the old one.
- timerqueue.c:168, 221: an interval beyond INT_MAX moves its deadline back (`timerqueue.h:90` takes an unsigned).
- timerqueue.c:222: a pass over an interval of 0 does not end.
- memstream.c:87: a full stream whose positions meet inside the memory counts as empty to the right (`NeverOverfull`; `memstream.h:50`).
  The Windows work queue of the test program, 8192 bytes for items of 16, can reach it. The run StreamFifo has it: its properties of contents end there (`overfilled`).
- workasync.c:32-33: a wait can pass before the callback, and the worker still uses the `work_ctx` (`future.h:46-47`).
- pollasync_epoll.c:106: an event of the batch is delivered after its context was unregistered (`pollasync.h:118`).
- pollasync_kqueue.c:143, 117: filters are numbers and are used as bits, see `Backends`.
- ioasync_pollasync.c:389: one `poll_ctx` per `io_ctx`, so that a recv and a send cannot both wait (`ioasync.h:150`).
- ioasync_pollasync.c:432: `buf` is not moved on after a part was taken (`SentOnce`; `ioasync.h:143`).
- ioasync_pollasync.c:438: a send or write that would block fails with EWOULDBLOCK instead of waiting (`ioasync.h:147-150`).
- ioasync_pollasync.c:527: a failure of sendto is returned and the future not told (`ioasync.h:141-142`).
- pollasync_eventselect.c:205, 221: see `KeepsData`; and a table full of holes refuses registrations until somebody wakes the looper.
- pollasync_eventselect.c:244: a registration that WSAEventSelect refuses returns its error with the context in the table (`refused`). The waiting thread is not
  woken. An object that is still signaled, or whose index is on its way, leads to lines 151-171: the socket is not selected, or with another object, and when WSAEnumNetworkEvents fails
  the callback runs with POLL_ERROR for a user who was told that nothing is registered. Trying again with other data finds the context in its place and keeps the old data (line 205).
  Where the context has replaced another one of the socket (lines 206-210), that user is not told.
- pollasync_eventselect.c:161: when WSAEnumNetworkEvents fails, the events stay noted, and the wait has reset the object: without POLL_FLAG_ONCE the
  context waits for the next event to hear of them (`unread`).
- pollasync_eventselect.c:257-261: poll_unregister removes whoever holds the socket, and when WSAEventSelect fails the place is free and the socket still selected with its object.
- ioasync_iocp.c:262, 283: two calls of a stream in flight use one offset. Line 269: a refused call leaves `ready` at 0.
- main.c:54-55: if the post fails, `PollThread` waits for ever (`deaf`, in the run IocpLoop).
- guiasync_android.c:91, 107: the delay a pass returns is dropped and `nextdelay_` never set back; with 64-bit the
  time is absolute but filled with a delay (line 118), so that the wait ends at once and the thread spins, which also hides the first.
- sslasync.c:171: the callbacks of the handshake look at no error and at no length, so that a handshake whose peer is gone asks again.
- sslasync.c:191-197: a handshake that fails is told to nobody. When the alert is sent, or at once when there is none, no io call is pending and the future is not ready: the
  session of a peer that sends anything but a handshake is never ended and its socket never closed (`refused`, in the run SslSession). `ioasync.h:150` has "io_future.cb will run when io complete".
- sslasync.c:178: the error path tells the future, whose coroutine frees the context in use, see `FailsAtOnce`.
- sslasync.c:181, 257: an io call that completes at once calls nobody; the handshake and the recv then wait for a callback
  that does not come. On completion ports, for which SslAsync is a model, calls pend.
- sslasync.c:280: what `sendbuf_` does not take is left in the BIO, and goes out before the next record.
- curlasync.c:68: libcurl may finish a transfer in the call for another's socket; its `curl_ctx` is freed while an event of the batch, in which the kernel has
  stored its `poll_ctx`, is still to be processed (`elsewhere`, `Dangling`, in the run CurlTransfers).

## 8 What is not modelled

- `clocks.c` reads clocks and formats dates; `ioutil.c` is one system call per function.
- OpenSSL and libcurl are external: how they are configured and what they do between the calls of this code is left open. So are the kernel, Winsock and the
  C library.
- In `ioasync_pollasync.c` failures of `poll_register`; in `ioasync_iocp.c` the path for systems
  before Vista (lines 178-183) and loading the extension functions.
- The accept loop of the TLS server, which starts a session for each connection: sessions share nothing.
- In guiasync the hand-over of io and poll results, and how long the waiting thread of Android waits: a wait on a
  condition variable may end at any time.
- Creation and destruction: they allocate and free. Contents of buffers (except in MemStream), addresses,
  error codes and debug output.
- Tests, example servers, build files.

## 9 The plan

Done, in this order: TimerOrder, TimerQueue and TimerContract (the core); MemStream; WorkAsync; the poll looper and
IoAsyncPoll; TimerList; PollEventSelect; IoAsyncIocp and IocpMain; GuiTimers; proofs of the timer queue, its contract, its list and the stream;
then kqueue under the same interface as epoll, all three main runners, a plain host for the timer queue, SslAsync and CurlAsync; proofs of work and coroutines,
of the epoll looper and of the hosts of the queue; proofs of the event table, of the completion port and of the main loop over it; proofs of the io calls on both kernels, of the HTTP client and of the sessions over TLS.

Next:

1. An abstract specification of a future, pending and then done once, that IoAsyncPoll, IoAsyncIocp and WorkAsync all implement.
2. SslAsync over the calls of IoAsyncPoll, which may complete at once.
3. The hand-over of io results in guiasync, with the completion port of a graphical program on Windows.

## 10 Running it

    tlc -workers 2 -config TimerSafety.cfg MCTimerQueue.tla
    tlapm TimerQueue_proofs.tla      (two minutes; SslAsync_proofs.tla takes five)

The module of each run is in `PROJECT.json`.

# Talyn: models of the event loop

Talyn is an asyncio event loop written in Zig on io_uring (`src/src/`) with a Python
layer (`src/talyn/`) that adds TLS, servers, executors, subprocesses and the runner of
programs. This directory holds TLA+ models of both, the TLC configurations that check
them, and proofs that TLAPS checks. A path that starts with `src/` is a file of the
repository; the short names below are files of the Zig code in `src/src/`, except
`loop.py`, `server.py` and `runner.py`, which are in `src/talyn/`.

## 1. The system and its parts

| Part | State | Operations | Meets the others through |
|---|---|---|---|
| Ready ring (`callback_manager.zig`) | slot array, executed flags, read/write index, capacity | push, grow, consume, reset, traverse | owned by the loop, two instances |
| Runner of the loop (`loop/runner.zig`) | which queue is filled, `stopping`, wait flag, completion batch | one tick: poll or park, harvest, dispatch batch, execute, hooks | mutex, eventfd, io_uring, GIL |
| io_uring scheduling (`loop/scheduling/io/`) | slot sets, `reserved_slots`, SQ, `ring_blocked` | queue, cancel, flush, harvest, deinit | ids kept by handles and transports |
| Future (`future/`) | status, result, done callbacks, exceptions queue | resolve, cancel, add/remove callback, run callbacks | one callback in the ready queue per resolution |
| Task (`task/`) | `fut_waiter`, `must_cancel`, `cancel_requests`, coroutine | step, await, wake up, cancel, uncancel | done callbacks of what it awaits |
| Handles, timers (`handle.zig`, `timer_handle.zig`) | state, id of the timer operation | run, cancel | slot ids |
| Loop life cycle (`loop/main.zig`, `loop/python/control.zig`) | initialized, running, stopping, hooks | run, stop, close, fork check | everything |
| Stream and datagram transports (`transports/`) | buffers, pause/close flags, write queues | read, write, pause, close, abort | operations and protocols |
| TLS (`loop.py`) | SSL object and its two BIOs, `_write_buffer`, flags of handshake, pause and shutdown, the opener's future | connect, read, write, flush, close, time out, cancel | raw transport below, application above |
| Subprocesses (`loop.py`, `transports/subprocess/`) | return code, exit waiters, pipe transports, buffer of stdin | exec, read, pause, write, drain, wait, exit | pidfd, readers, worker threads |
| Servers (`server.py`, `transports/streamserver/`) | `_active_count`, clients, waiters, accepting or paused | accept, attach, detach, close, wait_closed | connections, tasks that wait |
| Executor (`loop.py`) | default pool, flag of its shutdown | run_in_executor, set, shutdown, close | worker threads, `call_soon_threadsafe` |
| Runner of programs (`runner.py`, `loop.py`) | the loop, the future that `run_until_complete` waits for | run, cancel all tasks, shut down, close | every task of the program |
| DNS (`loop/dns/`) | cache records, running queries | lookup, retry, answer, expiry | UDP operations, timers |
| Connecting, socket operations (`loop/python/io/`) | per-request records | connect, send, receive, watch | futures and operations |
| Signals, children, files (`loop/unix_signals.zig`, `loop/child_watcher.zig`, `loop/fs_watcher.zig`) | registrations | deliver, watch, unwatch | operations |
| Containers (`utils/`) | B-tree, LRU, lists | insert, delete, evict | used by the above |

What is hard here: other threads schedule callbacks while the loop thread executes
without the mutex or is blocked in the kernel; completions, timers and cancellations
arrive in any order, and slots are reused as soon as an operation completes; any
callback is Python code that can call back into any object or raise; a step may fail
half-way (submission, allocation, signal, a broken SSL object, a child that somebody
else reaped). `PROJECT.json` lists these hazards line by line.

## 2. Modules

| Module | Models | Main abstraction |
|---|---|---|
| `Fifo` | abstract queue: push, pop | specification that others implement |
| `ReadyRing` | `DynamicRingBuffer` | callbacks are values; indices are naturals |
| `CeilPow2` | capacity arithmetic of the ring | machine words of `Width` bits |
| `TaskSlots` | `BlockingTasksSet`, `IO.queue`, cancel, harvest, deinit | an operation is a name with a stage; kernel external |
| `Runner` | `start`, `poll_blocking_events`, `fetch_completed_tasks`, `dispatch_completion_batch`, `call_once`, `Soon`, eventfd | ready queues are sequences; an SQE or CQE is the operation's name |
| `Task` | futures and tasks | a coroutine is any sequence of operations that ends in an await, a yield, a return or an exception |
| `Stream` | one stream transport with its read and write half | a chunk is its number, a byte its position; kernel and peer external |
| `Tls` | `_SSLTransportWrapper`, the five TLS protocol classes, `start_tls` and the coroutines that open a connection | a TLS record is a number; SSL object, raw transport and peer external |
| `Subprocess` | `subprocess_exec`, its pipe transports and readers, drains, the pidfd watcher, `_wait` | a chunk is counted, a byte of stdin is its position; the child is external |
| `Server` | `Server` and `StreamServer` | a connection is none, open or closed |
| `Executor` | the default executor and its shutdown | a job is its stage and its pool; callbacks from threads are a sequence |
| `Service` | composes `Server` and `Executor` under `Runner.run` and `Runner.close` | a task is a waiter for the server, or the main coroutine |
| `ReadyRingProofs`, `TaskSlotsProofs`, `RunnerProofs`, `TaskProofs`, `StreamProofs`, `TlsProofs`, `SubprocessProofs`, `ServiceProofs` | theorems about the module of that name | |

Each variable of a module is named after the field it stands for; each action after the
function or the part of the function it stands for. Operators described as mutated
forms are variants of an action with a plausible mistake, used to see that the
properties notice it; no specification uses them.

**`Runner`** splits a tick where another thread or the kernel can get in between:
`poll_park` (flag and unlock), `drain`/`drain_more`/`drain_error`, `arm`, `unpark` or
`doze`, `disarm`, `restore` (lock again), `fetch`/`fetch_more` one CQE at a time, `flip`
(swap queues, unlock), `dispatch`, `check_hooks`, `consume`/`returned`, `end_tick`.
A foreign thread's dispatch is two steps, `dispatch_push` and `dispatch_wake`, with the
mutex held. Six kinds of faults can be switched on, and are bounded by `MaxFaults`.
Two simplifications: the record of a transport that was closed before its dispatch is
not told apart (it belongs to the transports), and accesses to the SQ by two threads at
the same instant are left out. `TaskSlots` keeps what `Runner` leaves out: which slot an
operation owns, when it is free again, and what an id that was kept names by then.

**`Task`** is sequential: the interleaving is that of callbacks, and of what Python code
does inside them. Tasks that wait for each other in a circle are left out (they cannot
make progress, and cancelling one recurses for ever). Two history variables say what a
coroutine was given (`received`) and whether it still has a CancelledError to come
(`owed`). Awaiting a future of another library and closing a loop with tasks on it are
not modelled.

**`Stream`** holds the transport object in one record `t`, with its halves (`t.read`,
`t.write`), what they have in the ring (`rop`, `wop`: staged, in flight, done) and how
often `connection_lost` was scheduled and called (`soon`, `called`). The functions of
`lifecycle.zig`, `read_transport.zig` and `write_transport.zig` are operators from such
records to such records, because they call each other from the middle; a callback that
calls protocol code is split there, and in between `phase` allows every method of the
transport. A completion passes through the CQ (`Harvest`), the batch (`Dispatch`) and the
ready queue (`ReadCompleted`, `WriteCompleted`). The callbacks of one harvest may run in
any order, which allows more than the code. `saw_eof`, `broken` (an abort or an error
happened) and `failed` (an error closed an open transport) are history. Left out:
BufferedProtocol, `set_protocol`, allocation failures, a loop that closes with the
transport on it, deallocation. What `pause_writing` does is not told apart from what the
caller of `write` does.

**`Tls`** holds one endpoint in a record `s`. The five classes differ in nine ways, which a
table at the head of the module names (`wait`, `wakes`, `made`, `releases`, `closes`, `eof`,
`half`, `pauses`, `retries`); the methods they have in common are written once. A method
is an operator from such records to such records, and its argument `c` is what the
application does when the method calls it: nothing, a write, a close or an abort. The raw
transport is a queue with two water marks that calls `pause_writing` from inside a write,
as the native one does. The SSL object is external: it takes all of a write or, with
`Partial`, a part of it; it wants a read first while the peer renegotiates; it fails on a
record that does not verify. `kept` (bytes accepted while the transport was open),
`stalled` (plaintext that waits for a record and not for the raw transport) and `bytes`
are history, and separate what the code promises from what section 3 lists. Left out:
SSLWantWriteError, which a memory BIO never raises, and getters.

**`Subprocess`** keeps in `e` what the loop thread sees. Two read transports can share
stdout, and with it the one reader that the loop keeps for a descriptor; a reader that
fired is in the ready queue and may have been removed or replaced since. A drain is four
steps of a worker thread. stderr is treated as stdout is. `overlap` is history: something
was written, drained or closed during a drain. Left out: sending signals, the bridges for
`connect_read_pipe`, the SIGCHLD child watcher.

**`Service`** is a program: the main coroutine leaves an `async with server:` block, other
tasks call `wait_closed`, jobs run in the default executor, which may be replaced, and a
KeyboardInterrupt or a call of `stop` may come at any point, during the teardown too. `h`
says which of the four calls of `run_until_complete` is running, what it waits for, and
whether its done callback, or one that an interrupted call left, is in the ready queue.
`Server.late` (connections accepted by a protocol factory that closed the server) and
`Server.deferred` (the server was created with `start_serving=False`) are history.

## 3. Runs

All passing runs explore the whole state space of their instance.

| Run | Instance | Shows |
|---|---|---|
| `ready_ring` | capacity 2 growing to 8, 4-bit words | the ring is a FIFO; traversal sees every pending slot; rounding, doubling and masking are right up to the limit of a word |
| `task_slots` | 4 operations (one without a callback, one with a linked timeout), 2 sets of 3 slots, one refused submission | slots, `reserved_slots`, sets put aside and released, deinit |
| `runner` | 1 thread, 1 callback, 2 stream reads, a batch of 2, one fault (failing submission, full SQ, KeyboardInterrupt), restart | no lost wake-up, no lost completion, no data left in the batch but by an interrupt, no parking over callbacks that an interrupted run left |
| `runner_live` | 1 thread, 2 callbacks, 1 operation, no faults, fairness | FIFO order across both queues, no wait cut short; a scheduled callback runs, without help of the watchdog |
| `runner_lossy` | completion buffer of 2, one fault of any kind, fairness | `stop()` still ends the run |
| `task` | 2 tasks, 2 futures, 2 cancellations | exactly one wake-up; cancellation neither lost nor invented |
| `task_live` | 2 tasks, a done callback that may raise, fatal exceptions, fairness | waiters and done callbacks get to run |
| `stream` | 2 chunks, 2 bytes in up to 2 buffers, two pairs of water marks | no chunk or byte lost, repeated or reordered, no buffer released twice; reading stays armed and writing is resumed; close flushes; `connection_lost` at most once, with the right exception, and its cause is under way |
| `tls` | all five classes, water marks 1 and 0, 4 bytes, 1 chunk, partial writes, fairness | no plaintext dropped or sent twice; close_notify is the last record; buffered plaintext has a `resume_writing` to wait for; received data in order; opening with a timeout ends and leaves no open transport behind; closing ends |
| `subprocess` | three kinds of protocol, 2 waiters, 2 drains, 2 chunks, 2 bytes | the loop never blocks in `os.read`; output precedes its end; stdout stays watched; every waiter gets the same code; stdin in order |
| `service` | 2 connections, 2 waiters, 2 jobs, 2 pools, 1 interrupt, fairness | `wait_closed` returns to a quiet server; the shutdown of the executor delivers every job; the teardown is complete and ends |
| `tls_rearm` | one client | violated, see below |

The bounds are chosen so that each case happens: the ring wraps around while it grows and
grows twice, up to the largest capacity of a word; a slot set becomes full, is put aside
and released while another is in use, which takes four operations; the completion buffer
is larger than what can be in the ring in `runner` and `runner_live` (`BufLen` 8) and is
filled by the operations in `runner_lossy` (`BufLen` 2); two reads and a batch of two in
`runner` let an interrupt drop the second record (a full batch is met in `stream`, where
`Harvest` may find it full, and in the proof of `BatchIsDelivered`); one task awaits the
other while it awaits a future; a buffer of two bytes is written in parts, two buffers
follow each other, one of them empty, and a second chunk is read while the first is delivered. In `tls` one record fills
the raw transport, so the second write of a handler is buffered, a third one is written
from `resume_writing`, and a partial write leaves a rest; the peer's chunk can share a
read with a flight, a renegotiation or close_notify. In `subprocess` two transports read
one descriptor, and a second drain starts while the first one writes. In `service` one
connection outlives the other, one pool replaces the other, and a done callback of an
interrupted call meets the next call. A KeyboardInterrupt leaves the rest of a queue
behind, and the next run executes the newer queue first, so the FIFO order of
`runner_live` is stated without that fault.

Deadlock is not checked in the runs whose system may stop: nobody has to restart the
loop, schedule anything, send anything or wait for an operation.

**Fairness.** The loop thread and a thread inside its critical section keep running, a
coroutine returns to the loop, and the kernel completes a read of a ready eventfd.
`runner_lossy` assumes in addition that a watchdog timeout runs out. Nothing is assumed
of operations, of other threads outside the mutex, or of the host restarting the loop.
`tls` assumes that the loop calls `connection_made`, wakes the opener and fires timers, and
nothing of the kernel, the peer or the application. `service` assumes that the loop runs
what is ready, that threads make progress, that jobs end and that clients leave: a client
that stays connected holds up `Runner.close`, and so does a job that never ends, by the
code's intention. Nothing makes main leave its body but a cancellation.

**Disagreements with what the repository says.** `tls_rearm` is expected to end in a
violation. Its property restates the comment in `loop.py:75`, "Set the flag so the read
side knows to re-arm"; no code reads the flag, and plaintext that waited for a record
stays in the buffer when the record has come.

The others were met with the same modules and have no run of their own.

The loop and its transports:

- `NoCompletionLost` fails with `BufLen` 2 and three operations: the drain before parking
  overwrites a full first batch (`runner.zig:412`, against
  `src/docs/development/bugs/415.md:59`). It also fails with `Faults = {"signal"}` (a
  signal handler that raises after the wait drops the copied completions,
  `runner.zig:481`) and with `Faults = {"copy"}` and a short buffer (an error of a later
  copy of the drain returns before the accounting pass, `runner.zig:484`).
- KeyboardInterrupt or SystemExit from `data_received` of one record drops the rest of the
  batch (`runner.zig:186`, `defer batch.reset()`). The reads of the dropped records still
  have their flag, so their callbacks take the data for delivered: a loop that is started
  again has lost a chunk of each. `Runner` remembers them in `dropped`, and
  `BatchedDataDelivered` excepts them.
- `CancelHitsOwnOp` fails when the owner keeps its id until the callback, as a timer
  handle does (`ClearAtHarvest = {}`): a cancel in between hits the operation that got
  the slot (`runner.zig:338`, against the comment in `handle.zig:59`).
- `queue()` reports the failure of a flush for an operation that is staged and will run
  (`io/main.zig:852`, against `src/docs/development/bugs/310.md:39`).
- SystemExit or KeyboardInterrupt of a task that a future woke is wrapped into a group
  and does not stop the loop (`future/callback.zig:189`, against
  `src/tests/test_task_critical.py:3`).
- A task that cancelled itself and then awaits a task cancels that task's future under its
  suspended coroutine (`task/callbacks.zig:410`).
- `abort()` of a transport that sent its FIN and is paused closes the descriptor and never
  calls `connection_lost` (`lifecycle.zig:260`).
- `ChunksInOrder` fails with `OthersFirst = TRUE`: `data_received` of a stream whose record
  comes first resumes this one, the new read is submitted by some cancellation and
  overwrites the buffer before its record is dispatched (`runner.zig:310`).
- The batch gives data to a transport that was closed but still has a half open, which
  the callback would not do (`read.zig:77`).
- A completion that does not go through the batch (an EOF, an error, a cancellation, a
  full batch) keeps its id until the callback, and `pause_reading` or `close` in between
  cancels a freed slot (`read_transport.zig:147`).
- The FIN is only staged when the settle closes the descriptor
  (`write_transport.zig:399`, `:464`).

TLS (`loop.py`):

- A later write overtakes plaintext that a partial write or SSLWantReadError left in the
  buffer, and so does a write from `resume_writing`, which runs before the flush. That is
  why `NothingDropped` speaks of the set of bytes and not of their order.
- Data in the read that brought the last flight of the handshake stays in `incoming` until
  the next read (`_h` does not call `_r`), and `_r` does not send what reading left in
  `outgoing`.
- Without `ssl_handshake_timeout` a client that is not a Unix one waits for ever when the
  peer closes during the handshake: `connection_lost` does not fail its waiter. Servers
  ignore the argument.
- "We'll retry shutdown after the buffer is empty" (`loop.py:163`): the Unix server's class
  never does, and a flush that fails leaves a rest which keeps the shutdown waiting.
  `ShutdownEnds` excludes both.
- `close` and `write` after `connection_lost` of a client class meet an SSL object that was
  released. `connect_accepted_socket` takes the client's side of a handshake.
  `connection_lost` can come without `connection_made`.

Subprocesses (`loop.py`):

- Bytes written during a drain are lost, since the flush clears the buffer after its
  write; drains that overlap write bytes twice. `StdinInOrder` excludes both. `close` drops
  what was not flushed, and blocks the loop while a worker thread holds the file.
- `pause_reading` and `close` from `pipe_data_received` are undone by the reader, which
  registers itself again. A protocol without stdin gets two read transports for one
  descriptor, and may be told of its end twice.
- Closing the transport before the exit leaves the callers of `_wait` pending.
- A drain that was cancelled is set a result all the same, which raises.

Servers and programs:

- `start_serving=False` still accepts, and `_detach` then wakes `wait_closed` of a server
  that is open (`src/docs/development/bugs/393.md:75` describes the intention). A protocol
  factory that closes its server attaches one connection after the wake-up.
- The done callback of an interrupted `run_until_complete` stops the next one: the
  teardown ends with the tasks still running. `shutdown_default_executor` of the user that
  timed out or was cancelled leaves jobs behind at close, and nobody waits for the jobs of
  a pool that was replaced.

## 4. Proofs

`ReadyRingProofs` proves, for every initial capacity and every history:

- `RingInvariant`, `RingSafety`: the type invariant, `TraverseSeesEveryPending` and
  `PendingSlotsWritten`. None of the last two is inductive alone: that the slot which a
  push writes, or a growth copies, is the right one needs the index window of `TypeOK`
  (`read_idx <= write_idx`, at most `capacity` apart). `IInv` is the conjunction of the
  three. Arithmetic lemmas state that `% capacity` is injective on a window of that size.
- `RingImplementsFifo`: `ReadyRing` implements `Fifo` under the mapping to the sequence
  of pending slots; a push that grows maps to one push, `reset` to a stutter.

`TaskSlotsProofs` proves, for every number of operations, sets and slots and any number of
refused submissions:

- `SlotsInvariant`, `SlotsSafety`: `CompletionFindsItsCallback`, `ReservedSlotsExact`,
  `SetsReleasedWhenEmpty`, `CloseSettlesEveryOp` and the type invariant; `ReservedSlots` and
  `CloseSettles` name two of them. What the runs check is not inductive. `IInv` adds, set
  by set, that the free list names distinct slots below the bump index and that
  `active_tasks` is the difference of the two (`PoolOK`); across sets, that exactly the
  current set is not disattached and a released one is as new (`PoolsInv`), that no two
  operations own the same slot and `active_tasks` counts the owners (`OwnersInv`), which
  is why the set that a `pop` with `active = 1` resets or releases has no other owner; and
  for the queues, that every operation in the SQ is staged and is there once (`StagedIn`),
  so that the kernel never starts one that gave its slot back. `push`, `pop` and the
  change of sets are lemmas on one record or one function (`PushOK`, `PopKeeps`, `PopLast`,
  `SwitchOK`, `PushStep`, `PopStep`); each action is a lemma that cites them.
- `PutAsideOnlyWhenFull`: the action property, from the same invariant.
- `CancelIsPrecise`: `CancelHitsOwnOp`, if every owner that remembers an id forgets it at the
  harvest (`Ops \ Bare \subseteq ClearAtHarvest`; section 3 says what happens otherwise). A
  cancel can be left in the SQ by a submission that failed until its operation is gone and
  the slot is used again, so it is not enough that the ids are right when they are used:
  `CancelInv` adds that an operation which owns the slot named by a staged cancel of
  another is itself staged, behind that cancel (`Behind`). The kernel then meets the cancel
  first and finds nothing.

`RunnerProofs` proves, for any number of threads, callbacks, operations and faults and any
length of the two buffers, restarts included:

- `RunnerSafety`: the inductive invariant `RunInv`. Its parts: who holds the mutex and when
  the ring is flagged (`LockInv`); the queue that is not being filled is empty when the loop
  decides to wait (`EmptyInv`); the read of the eventfd is always somewhere, and in the
  kernel when the loop waits, and whatever came in after the look at the queue wrote the
  eventfd or is in the CQ (`WakeInv`); a staged or running operation has no completion
  anywhere, and a record of the batch belongs to one that waits in a ready queue
  (`BatchInv`), so the buffer of a record is not read into.
- `WakeupArrives`: `WakeupNotLost`, as long as the completion of the eventfd read itself was
  not dropped. `BatchIsDelivered`: `BatchedDataDelivered`, without hypothesis.
- `CompletionsArrive`: `NoCompletionLost` and `WakeupNotLost` in every run in which no copy, no
  growth and no signal handler fails and the drain never fills its buffer (`RingFits`).
  These are the losses of section 3, so the theorem says that there are no others.
- `ParkBlocks`: `ParkIsNotCutShort` unless submissions are refused. `ParkInv` follows removals
  of the watchdog from the SQ to the CQ: in "arm" and "park" there is none left.
- `QueuesAreFifo`: `Runner` implements `Fifo` unless an interrupt leaves a callback. The mapping
  is the queue that is executed, followed by the one that is filled; the flip is a stutter
  because then the first is empty (`SpareInv`).

`TaskProofs` proves, for any number of tasks, futures and listeners:

- `TaskSafety`: `TaskInv`, the conjunction of `SchedInv` and `CancelInv`. `SchedInv` says, task by
  task, that a step in the ready queue and a done callback that is still to be called (of
  a future that is pending, queued or being resolved) exclude each other, that there is
  one of them at most and, for a suspended task that was started, one (`WakeInv`). It needs
  that the callbacks of a future are in the ready queue at most once and only when it is
  done (`QueueInv`), that a removed entry is a listener's (`EntryInv`), and who runs when
  (`PcInv`). `CancelInv` says where a CancelledError that is owed is kept: in `must_cancel`, or
  in the future that the task waits for, which is canceled.
- `SteppedOnce`: `OneWakeUp`. `CancellationArrives` and `CancellationWasRequested`: the two
  action properties, from `TaskInv` and a lemma for each action about what it tells a
  coroutine (`Told`).

`StreamProofs` proves, for any number of chunks and bytes and every sequence of calls that
protocol code makes from inside the handlers:

- `ReadingStaysArmed`: `ReadingIsArmed`, with other streams in the batch or without.
  `ArmedInv` adds that the read side is closing exactly when the transport is (`Agree`), that
  a read half which does not report `connection_lost` is closing (`Good`), and that a
  completion which waits in the ready queue outside the batch keeps its id, with nothing
  else in the ring. The functions of `lifecycle.zig` and `write_transport.zig` call each
  other from the middle, so each has a lemma on records that says how little it may do to
  the read side (`Settles`); the steps of the write side follow from these lemmas alone.
- `ChunksArrive`: `ChunksInOrder` if `OthersFirst = FALSE`. `ChunkInv` adds that the buffer holds
  the newest chunk while anything undelivered refers to it, and extends the count of
  chunks to a transport that is closing but can still deliver (`Deliverable`), since the
  batch does so.
- `BytesArriveInOrder`, `PausedWhileFull`, `ClosesAfterFlush`, `LostIsReportedOnce`:
  `BytesInOrder`, `PausedOnlyWhileFull`, `CloseFlushes` and `LostOnce`, for any payloads,
  partial writes and water marks. They share one inductive invariant, `WriteInv`, because
  none holds without the others: a drain that ends the write half relies on the account of
  the bytes, and the report relies on the half that ends. Its parts (`Whole`): the buffers
  from `index` on hold exactly the bytes that were written and not yet consumed, and an
  operation carries all of them (`Bytes`); the protocol is paused only above the mark
  (`Marks`); `connection_lost_notified` means that both halves are closed, nothing is left
  to write after a clean close, and a half that is closing has something under way that
  ends it (`Sound`, `Lives`, `Due`); the error that closed the transport is kept until it
  is reported (`Blames`); there is one report, scheduled, queued or called, exactly when
  `connection_lost_notified` is set (`Count`). Again
  there is a lemma on records for each function, with what it may change (`Stays`,
  `Moves`, `Rises`). That appending buffers keeps the sums is an induction over the
  buffers (`SetInduction`).

`TlsProofs` proves, for the five classes together, any water marks and any number of
writes, chunks and calls that the application makes from inside its callbacks:

- `NothingIsDropped`: `NothingDropped`. `NotifyComesLast`: `CloseNotifyIsLast`.
  `BufferWaitsForResume`: `BufferedWaitsForResume`. `ArrivesInOrder`: `ReceivedInOrder`.
- The inductive invariant is `TlsInv`, of three parts. `Fine` follows the bytes that go out:
  each byte accepted is in one place, and a byte that was not written yet is nowhere
  (without which the next write could repeat one); after the shutdown `outgoing` is empty,
  close_notify is on the way only then, and nothing follows it. `Parked` says that
  an open endpoint that is not `stalled` keeps plaintext only while writing is paused,
  which with the water marks in `Fine`
  means that the queue is above `Low` and a `resume_writing` follows. `Arrives` says that
  what was given, what `incoming` holds and what is under way are together what the peer
  sent, and that its end of file comes last.
- A read may call the application, which may write, close or abort in the middle of the
  handler. Each method is therefore a lemma on the record of the endpoint that keeps `Fine`,
  `Parked` and what is read (`Reads`), and the steps follow from these lemmas. What
  `FlattenSeq`, `Data` and a count over a sequence compute is derived by the least
  counterexample (`LeastNatural`, `SetInduction`).

`SubprocessProofs` proves, for any number of waiters, drains, chunks and bytes:

- `NeverBlocks`, `OutputThenEof`, `AlwaysWatched`: `NoBlockingRead`, `OutputBeforeEof` and
  `StdoutIsWatched`, from `StdoutInv`: the reader is armed or its callback is in the ready
  queue, never both, and what woke the callback is still in the pipe.
- `WaitersAreTold`: `WaitersGetTheCode`, from `ExitInv`: the exit is reported once, exactly when
  there is a return code, and a pending waiter is in `exit_waiters` with the exit still to
  be reported.
- `StdinArrivesInOrder`: `StdinInOrder`, from `StdinInv`: one drain is at work at a time and it
  writes the buffer (until calls overlap), and what the child has followed by the buffer is
  what was written.

`ServiceProofs` proves, for any number of connections, waiters, jobs, pools and interrupts:

- `QuietAfterWaitClosed`: `WaitClosedMeansQuiet`. `ServerInv` adds that `_clients` is the
  set of open connections and `_active_count` its size (so zero means none), that only a
  server that is not closed accepts, and that one which serves from the start does so
  until it is closed, without which `_detach` could wake a waiter of an open server.
- `TeardownSafety`: `TeardownComplete`. `ExecutorInv` adds that a pool which is shut down is
  never the default again and so gets no further job (`PoolsApart`), that a callback left
  by an earlier shutdown is not taken for that of the present one (`ShutdownsApart`), that
  a posted result is in `soon` (`PostedIsQueued`), and the order that makes the shutdown
  mean something: the results of a pool come before the callback that ends its shutdown
  (`ResultsBeforeEnd`). `RunnerInv` adds what each stage of the teardown has seen done, that
  a gathered task never waits again, and that a done callback in the ready queue is that
  of a future which is done unless an interrupt left it there.

The assumptions are `RingAssumption` (a positive initial capacity), `TaskSlotsAssumption`
(finitely many operations, at least three slots in a set), `RunnerAssumption` (the names of
operations, callbacks, threads and the markers are told apart, a positive buffer),
`TaskAssumption` and `SubprocessAssumption` (types, and that kinds of names are disjoint),
`StreamAssumption` and `TlsAssumption` (types, known classes, and no low-water mark above
its high-water mark, as `set_write_buffer_limits` requires), `ServerAssumption` (finitely many connections) and
`ServiceAssumption` (main waits for the server), which TLC evaluates too. The bounds on
bytes, chunks, cancellations, faults and interrupts are arbitrary numbers in the proofs.

Only model-checked: liveness (`ScheduledCallbackRuns`, `StopEndsTheRun`, `WaiterIsWoken`,
`ListenersAreCalled`, `OpenEnds`, `ShutdownEnds`, `CloseEnds`), which the provers do not
reach, and `CapacityArithmetic`, which is about the bits of machine words. Every other
invariant and action property of a passing run is a theorem, under the hypotheses given
above.

## 5. Not modelled, and the plan

Parts that are left, in the order of what they would add: `Handle` (threads racing on its
state) and closing the native loop with tasks and operations on it; BufferedProtocol and
deallocation of stream transports; connecting (happy eyeballs); DNS cache and queries; FD,
signal and file watchers; datagram transports; B-tree, LRU and address helpers against
reference definitions; buffer pool, fixed files and handing the ring to another thread.

Left out for good: the declarations of the CPython binding, formatting and logging, the
event-loop policy, debug timing, generated tables, the benchmark and build scripts.

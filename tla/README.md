# TLA+ models of the seastar reactor core (DeepRec-AI/seastar)

This directory holds TLA+ models of the shard-local reactor of this seastar
fork. They are checked with TLC. Every module is written from the C++ sources
under `src/`. `PROJECT.json` maps each definition to the lines it models. It
also lists the runs, the mutants that show each checked property can fail,
the findings, and the hazards in the code that the properties are meant to
catch.

## 1. The system

There is one reactor per shard. A shard is one thread pinned to one core.
Shards talk to each other only through cross-shard queues. The source files
are:

| file | contents |
|---|---|
| `src/core/reactor.cc` | reactor loop, task queues and fairness, pollers, sleep/wakeup, timers, io_queue and aio submission, posix and append-challenged files, `smp_message_queue`, syscall thread pool, stall detector, startup and configuration |
| `src/core/iostream-impl.hh` | buffered `output_stream` (write, flush, batched `poll_flush`, close) and `input_stream` (read_exactly, consume, read_up_to, skip) |
| `src/core/packet_queue.{hh,cc}` | multi-producer queue of `user_packet`s (one ReaderWriterQueue per producer thread) drained by the reactor |
| `src/core/channel.{hh,cc}` | a connection wrapper: puts packets into a packet_queue, holds the output stream, tracks a broken flag and a reconnect protocol |
| `src/net/native-stack.cc` | adapter from the user-space TCP stack to the socket/stream interfaces |
| `src/cached-build/release/gen/...` | generated Ragel parsers (HTTP request/response, memcached ASCII) and generated JSON glue |

### Components, their state and operations

1. **Task scheduler** (`reactor.cc` 363-417, 2432-2453, 2868-2959).
   - State: the task queues. Each has `_q`, `_shares`, `_vruntime`,
     `_runtime`, `_active` and `_current`. The reactor also keeps
     `_active_task_queues` (sorted by vruntime), `_activating_task_queues`,
     `_last_vruntime` and the preemption flag `g_need_preempt`.
   - Operations: `activate` (an idle queue gets work, and its vruntime is
     clamped to `_last_vruntime - to_vruntime(_task_quota)`),
     `insert_active_task_queue` (sorted insert by bubbling),
     `run_some_tasks`, `run_tasks` (FIFO, stop on preemption once the backlog
     is at most `_max_task_backlog`), `account_runtime` and `to_vruntime`
     (fixed point `runtime * (2^32/shares) >> 32`, clamped at 0).
   - `add_task`/`shuffle` are in `reactor.hh`, which is not in `src/`.
2. **Reactor loop and sleep/wakeup** (`run()` 2961-3146, `sleep()`
   3168-3183, `maybe_wakeup()` 3148-3166, the `*_pollfn` classes 2518-2837).
   - State: `_sleeping`, the pending signals, the registered pollers, and
     idle/poll timing.
   - Operations: one loop iteration (run tasks, then `check_for_work`),
     `sleep()` (try_enter_interrupt_mode on each poller in order, undone on
     refusal; `epoll_pwait`; exit_interrupt_mode on each), and the remote
     `maybe_wakeup()` (clear `_sleeping`, send a signal).
3. **Poller registration** (3206-3301). Registering and deregistering are
   deferred through tasks. Deregistration replaces the poller with a dummy.
   The epoll backend (`reactor_backend_epoll`, 737-800, 870-878,
   3308-3331) is driven by the epoll poller. It keeps each fd's
   `events_requested` and `events_epoll`, registers interest with
   `epoll_ctl` when a future is asked for, and resolves futures from
   `epoll_pwait`.
4. **Cross-shard message queue** (`smp_message_queue` 3361-3525,
   `smp::poll_queues` 4112-4143).
   - State per ordered pair: the sender's `pending_fifo`, the SPSC ring
     `_pending`, the receiver's `_completed_fifo`, the ring `_completed`, and
     `_current_queue_length` and other counters.
   - Operations: `submit_item`, `move_pending`, `process_incoming` (which
     calls `process()` and attaches `respond` to its future), `respond`,
     `flush_response_batch`, `process_completions` and `maybe_wakeup`.
5. **IO queue and aio submission** (882-1110, `process_io` 973-986).
   - State: `_io_context_available` (a semaphore of `max_aio` units),
     `_pending_aio`, the per-class `nr_queued`/`ops`/`bytes`, and the fair
     queue `_fq` (in `fair_queue.hh`, which is not in `src/`).
   - Operations: `queue_request` (marshalled to the coordinator shard with
     `smp::submit_to`), `submit_io`, `flush_pending_aio` (handles EAGAIN and
     EBADF), `process_io` and `register_one_priority_class`.
6. **Append-challenged file** (1291-1611).
   - State: `_q` of ops, `_current_size_changing_ops`,
     `_current_non_size_changing_ops`, `_logical_size`, `_committed_size`,
     `_sloppy_size`, `_done` and `_completed`.
   - Operations: `enqueue`, `process_queue`, `optimize_queue` (a speculative
     ftruncate ahead of a run of appending writes), `dispatch` and its
     completion, `read_dma`/`write_dma` (`commit_size`), `flush`,
     `truncate`, `size`, `stat` and `close` (wait for the queue to drain,
     then truncate to the logical size).
7. **Posix file** (1115-1290, 1907-2217).
   - `read_dma`/`write_dma` wrappers, `dma_read_bulk` (align the offset
     down, read, then read the rest with `read_maybe_eof`, trim), `dup` with
     a shared refcount, `close`, `list_directory`, and file-system calls.
8. **Timers** (614-637, 2219-2289, 2471-2514).
   - There are three timer sets: steady, lowres and manual.
   - `complete_timers` expires the due timers, re-arms periodic ones before
     each callback, and re-enables the next timeout. `del_timer` works on
     expired timers too.
9. **Buffered output stream** (`iostream-impl.hh` 48-153, 389-616).
   - State: `_buf`, `_end`, `_zc_bufs`, `_flush`, `_flushing`, `_in_batch`
     and `_ex`.
   - Operations: buffered `write`, zero-copy `write(packet)`, `put`,
     `flush` (immediate, or batched through the reactor's flush poller),
     `poll_flush` (which calls itself once more if a flush arrived during
     a flush) and `close`.
10. **Buffered input stream** (`iostream-impl.hh` 155-387): `read_exactly`,
    `consume`, `read_up_to`, `read`, `skip`, `detach`, and sticky EOF.
11. **Syscall thread pool** (3333-3359, 3528-3566).
    - `submit_item` is bounded by the `_queue_has_room` semaphore.
    - The worker thread runs items and pushes completions. It signals the
      reactor with SIGUSR1 when `_main_thread_idle` is set.
    - `syscall_pollfn` sets `_main_thread_idle` in its own wakeup protocol.
12. **Stall detector** (505-611). The timer thread counts ticks without
    progress, reports at `report_at` and doubles it. The count of missed
    ticks across a sleep is added at 3127.
13. **Packet queue** (`packet_queue.cc`).
    - `impl()` lazily creates the calling thread's queue and publishes it at
      slot `_index.fetch_add(1)` of a fixed array of 128 slots.
    - `enqueue`/`try_enqueue` then call `maybe_wakeup`.
    - `try_dequeue_bulk` scans the slots in order. It stops at the first
      empty slot and returns one packet per call.
14. **Channel** (`channel.cc`). `init`, `put`, `set_channel_broken` and
    `reconnect`: `test_and_set` on `_is_reconnecting`, then either the
    user's reconnect function, which later calls `reconnect_done`, or
    `reconnect_done` at once, which clears the broken flag.
15. **Startup, configuration and metrics** (`smp::configure`, `configure`,
    `register_metrics`, network stack registry): option parsing and thread
    creation.
16. **Native network stack adapter** (`native-stack.cc`): data source/sink
    adapters over a TCP connection. `native_data_source_impl::get()` (72-89)
    hands out the fragments of the packet `read()` returned, waits for
    data when they are used up, and returns an empty buffer at the end.
17. **Generated parsers and JSON glue** (`cached-build/.../gen`): Ragel state
    machines written as goto code. The HTTP request parser
    (`http/request_parser.hh`) and the HTTP response parser
    (`http/http_response_parser.hh`) have 34 states each; `parse(p, pe,
    eof)` runs them over one buffer and returns a cursor after a completed
    message, or null. The two share the builder, the actions, the loop and
    the code around it, and differ in the first line and in where a header
    value starts.

### How the components interact

- The reactor loop runs the scheduler (1), then calls every poller (2). The
  smp poller drives (4), the aio poller drives (5), the flush poller drives
  (9), the packet-queue poller drains (13) and the lowres-timer poller
  drives (8). The epoll poller resolves the readiness futures of sockets
  and eventfds (3). Pollers are added and removed by tasks that the
  scheduler (1) runs.
- Remote threads hand work to a shard in three ways. Another shard pushes
  into a ring (4). Any thread can enqueue a packet (13, through 14). The
  syscall worker (11) completes work. Each then wakes the shard with a
  signal if the shard's flag says it sleeps.
- Disk I/O goes from the file (6, 7) to `queue_request`. That call goes to
  the coordinator shard through (4), is admitted by the fair queue and the
  aio semaphore (5), and completes in `process_io`.
- A connection's input side chains (16), (10) and (17): `consume()` gets
  buffers from the data source and feeds them to the parser until the
  parser returns a cursor, and keeps the bytes after it for the next
  request (or response).
- Continuations (futures) tie these together. A deferred future resumes
  later as a task, so the order in which results arrive is not the order in
  which requests were made.

### What is hard

- Lost wakeups between a remote producer and a reactor going to sleep (2, 4,
  11, 13).
- Responses reordered by deferred futures (4).
- The ring being full, so that a batch is only partly pushed (4).
- Size-changing file ops racing with concurrent I/O, and the speculative
  truncate and final truncate (6).
- Fairness and anti-starvation under the vruntime clamp (1).
- Flushes racing with writes on one stream, and errors carried to the next
  caller (9).
- Multi-producer publication of slots in the packet queue, and starvation
  of later producers (13).
- The broken flag of a channel racing with reconnect (14).
- Counters that wrap (12).
- Requests cut anywhere by TCP segments and packet fragments, and
  pipelined requests sharing a buffer, with the parser's state carried
  across `parse()` calls (10, 17).
- A stale timer deadline: `del_timer` leaves the set's `_next` behind, and
  the sleep must still be bounded by the earliest timer (8).

### Properties that make each component correct

- (1) The active list is sorted by vruntime. A queue is active exactly when
  it has tasks or is running. An activated queue runs within bounded
  scheduling passes (anti-starvation).
- (2) The reactor never blocks while work is queued for it and no wakeup is
  on its way. Queued work is eventually polled.
- (4) Responses complete in submission order. `_current_queue_length`
  equals the number of items in flight. Every item is eventually completed.
- (5) In-flight aio plus pending aio plus free semaphore units equals
  `max_aio`. Requests are eventually completed.
- (6) A size-changing op never runs together with another op. After close,
  the committed size equals the logical size. Close eventually completes.
- (9) Bytes reach the sink in write order, and each byte is written once.
  Flush completes. Close reports the first error.
- (8) `_lowres_next_timeout` is never later than the earliest lowres
  timer. A sleeping reactor has an alarm set for it. Every due timer fires.
- (13) Every enqueued packet is eventually dequeued.
- (10, 16, 17) The reader takes exactly the requests (responses) the peer sent, in
  order, and reaches a clean end of input once the peer closes.
- (14) The channel is never reported healthy while broken. (It can be:
  see `channel_broken`.)

## 2. Plan

The modules are listed in order of importance. The most concurrent and most
central behaviour comes first.

1. `SmpQueue` and its abstract `SmpChannel`: the cross-shard queue for one
   ordered pair of shards. It refines a channel that processes items in
   submission order and completes each exactly once. **Done.**
2. `ReactorSleep`: the sleep/wakeup protocol against a remote smp sender and
   a packet producer, and the syscall thread pool's worker with its
   `_main_thread_idle`/SIGUSR1 protocol (11). **Done.**
3. `TaskScheduler`: task queues, `activate`, `insert_active_task_queue`,
   `run_some_tasks` and `run_tasks` with preemption. **Done.** Still open:
   `set_shares`, and an abstract "run the minimum-vruntime queue"
   specification to refine.
4. `AppendChallengedFile`: the op queue with reads, writes (appending or
   not), truncate and sloppy flush, `optimize_queue`, the completion of
   each op, and close. **Done.**
5. `IoQueue`: `queue_request` through the fair queue (written from the spec,
   since `fair_queue.hh` is not in `src/`), `submit_io`,
   `flush_pending_aio` (EAGAIN, EBADF, partial submission) and the
   aio_batch_submit poller. **Done.** `process_io` has no caller in this
   tree (see below). Still open: requests marshalled to another
   coordinator shard.
6. `OutputStream`: buffered and batched flush, `put`, `poll_flush` and
   close, with byte-order and flush-completion properties, and
   `split_and_put` of oversized writes with `_trim_to_size`. **Done.**
   Still open: `detach()`.
7. `PacketQueue` and `Channel`: multi-producer slot publication and
   `try_dequeue_bulk`; the channel's broken/reconnect flags. **Done.**
   Still open: `channel::init`.
8. `LowresTimers`: `complete_timers`, periodic re-arm, cancelling an
   expired timer, `_lowres_next_timeout`, and the lowres poller arming the
   steady `_nearest_wakeup` before sleep. **Done**, composed into
   `ReactorSleep`. Still open: manual-clock timers, and user steady timers
   beyond `_nearest_wakeup`.
9. `StallDetector`: `report_at` doubling and the missed-tick arithmetic
   modulo 2^64. **Done.**
10. Pure algorithms as operators: `to_vruntime`, and the alignment
    arithmetic of `dma_read_bulk` and `append_challenged` `read_dma`,
    checked against reference definitions.
11. `EpollBackend` and `PollerRegistry`: the epoll backend's readiness
    futures and the deferred registration of pollers. **Done.**
12. `RagelParser`, `HttpRequestParser`, `HttpResponseParser` and
    `InputStream`: the generated request and response parsers as
    transition functions over a common loop, `input_stream::consume()`
    over the native data source, and the reader's loop. **Done.** Still
    open: the memcached parser and the other `input_stream` reads.

Each module gets an `MC<Module>.tla` with the constants for TLC and one
`.cfg` per question.

## 3. Modules and runs

### SmpQueue (cross-shard message queue)

The model covers one ordered pair of shards, A → B. The mapping to the code
is:

| model | code |
|---|---|
| `pendingFifo` | `_tx.a.pending_fifo` |
| `pendingRing`, `completedRing` | `_pending`, `_completed` |
| `completedFifo` | `_completed_fifo` |
| `deferred` | items whose `process()` future has not resolved |
| `done` | the history of `complete()` calls on A |
| `curQueueLength` | `_current_queue_length` |

- The actions are `submit_item`, `PollSender` (A's
  `flush_request_batch` + `process_completions`), `PollReceiver` (B's
  `flush_response_batch` + `process_incoming`), `ProcessResolved` (the
  `.then(respond)` continuation) and `StopReceiver` (`_stopped` makes
  `respond` flush immediately).
- `RingPush` is the SPSC `push(begin, end)`. It pushes only as many items as
  fit.
- Fairness: weak fairness on both pollers and on future resolution. A
  reactor calls every poller on every idle iteration. That it does not
  sleep on pending work is checked separately in `ReactorSleep`.
- Bounds: 4 items, batch size 2 and rings of 3. With these the second batch
  fits only partly, and batches are flushed both when full and by the
  poller.

| run | checks | result |
|---|---|---|
| `smp_channel` | TypeOK, QueueLengthAccounting, ChannelRefined (refines `SmpChannel`, including its liveness), AllCompleted, with `process()` futures ready or resolved later | pass |
| `smp_fifo` | ResponsesInOrder when `process()` may return an unresolved future | **violation** |

`SmpChannel` is what the code keeps: B processes the items in the order A
submitted them, each exactly once, and A completes each processed item
exactly once. The refinement mapping takes the request ring followed by
A's `pending_fifo` as the unprocessed items, and the pending futures, B's
`_completed_fifo` and the response ring as the processed ones. The
abstract channel does not order completions; the order is what
`ResponsesInOrder` asks for.

`smp_fifo` shows that the per-pair FIFO order of spec.md §8 holds only when
every `process()` future is ready at once. `process_incoming` attaches
`respond` to each item's future, so a later item whose future is ready is
responded to, flushed and completed on A before an earlier item whose
future is still pending.

### ReactorSleep (sleep and wakeup)

- The reactor thread steps through `Loop`, then `EnterSignal` (the signal
  poller blocks signals and re-polls), then `EnterSmp` (try-lock the
  membarrier lock, then set `_sleeping`), then `SmpRecheck` (poll again
  after the barrier), then `EnterSyscall` (set `_main_thread_idle`), then
  `SyscallRecheck` (run `complete()`; refuse if it retired items), then
  the wait, which ends in `WakeBySignal` or `WakeByEvent` (timer or fd).
  The order follows the poller registration in `run()`
  (`AfterSignalPoller`). A refusal unwinds the earlier pollers, so a
  refusing syscall poller also clears `_sleeping`.
- In a loop iteration a task may submit a blocking call: `SubmitPush`
  (a `_queue_has_room` unit, push to `_pending`), then `SubmitSignal`
  (`_start_eventfd.signal(1)`). `Loop` itself runs `complete()` through
  the syscall poller and the SIGUSR1 handler.
- The syscall worker steps through `WorkerRead` (the blocking `read()` of
  the eventfd returns and resets the count, and `_pending` is drained),
  `WorkerProcess` (one item processed and pushed to `_completed`), and
  `WorkerNotify` (a `seq_cst` load of `_main_thread_idle`, then
  `pthread_kill(SIGUSR1)` if it is set). `usrPending` stands for a
  SIGUSR1 that has not yet been handled. Like the alarm signal, it
  interrupts the wait.
- The remote smp sender steps through `SenderPush` and then `SenderCheck`
  (`lf_queue::maybe_wakeup`).
- The packet producer steps through `ProducerEnqueue` and then
  `ProducerCheck` (`reactor::maybe_wakeup`).
- A signal sent while the reactor is on its way to `epoll_pwait` stays
  pending and interrupts the wait. One Boolean, `wakeupPending`, stands for
  it.
- `systemwide_memory_barrier()` makes the store to `_sleeping` and the
  re-poll sequentially consistent with the remote push and load, so
  interleaving semantics is faithful.
- Fairness: weak fairness on every reactor step except the wait, and on
  each remote thread's `maybe_wakeup`. The worker thread also gets weak
  fairness on each of its steps: it is a kernel thread, and it is blocked
  only in `read()`, which is enabled once the eventfd count is nonzero.
  Submitting work is the application's choice, so it is not forced. No
  fairness is assumed for fd events, because the wakeup protocol must work
  on its own. The clock (`ClockTick`) and the kernel's delivery of a due
  alarm (`AlarmFire`) are weakly fair: time passes, and a `timer_create`
  timer whose deadline has passed is delivered.
- Timers (module `LowresTimers`, see below) are composed in. After the
  signal poller, `Loop` runs the lowres poller's `do_check_lowres_timers()`;
  when it fires, `ExpireStart`, `TimersStep` and `TimersEnd` are
  `do_expire_lowres_timers()`. `ArmTimer` and `CancelTimer` are tasks
  calling `timer::arm`/`cancel`. Before the reactor sleeps, `EnterLowres`
  is `lowres_timer_pollfn::try_enter_interrupt_mode()`: it accepts when no
  deadline is set, refuses when the deadline has passed (`next <= now`),
  and otherwise arms `_nearest_wakeup`, a steady timer. That goes through
  `add_timer(steady)`, which calls `enable_timer()`
  (`timer_settime`, `alarmAt`) only when `insert()` lowered the steady
  set's `_next` (`steadyNext`). `AlarmFire` is the kernel delivering the
  alarm signal. The next `Loop` runs its handler (`poll_signal`,
  `alarm_handler`): expire the steady set, and re-enable it if non-empty.
  `exit_interrupt_mode` cancels `_nearest_wakeup`.
- Bounds: 2 smp items into a ring of 1, 1 packet, and 2 blocking calls
  through a syscall queue of length 1. The second call has to wait for a
  `_queue_has_room` unit, so the semaphore's limit is reached. The smp and
  packet runs have only `load_timer` (period 1, clock up to 3), so the
  reactor also sleeps on a real timer deadline. The timers run has no
  messages, packets or calls, and has two user timers with callbacks, delays
  {0, 1, 2} and the clock up to 5. That is enough for a user timer to be
  earlier than `load_timer`, to be cancelled after it lowered
  `_lowres_next_timeout`, and to be re-armed from a callback.
- `MCView` maps the values the code never reads again to 0: the `_expiry` of a
  disarmed timer, and `_nearest_wakeup`'s expiry while it is not armed.
  Every action overwrites these values before it reads them, so the view
  merges only states with the same future.
- `thread_pool::enter_interrupt_mode`/`exit_interrupt_mode` live in a
  header that is not under `src/`. They are taken as the store of TRUE or
  FALSE to `_main_thread_idle`. `~thread_pool` (which sets `_stopped`) runs
  only at shutdown and is not modelled.

| run | checks | result |
|---|---|---|
| `sleep_smp` | TypeOK, SmpWakeupNotLost, RoomConserved, SyscallWakeupNotLost, SmpItemsPolled, SyscallsComplete | pass (188,163 states) |
| `sleep_packet` | PacketWakeupNotLost | **violation** |
| `sleep_timers` | NextTimeoutNotLate, TimerWakeupNotLost, TimersFire | pass (40,915 states) |

`sleep_packet` shows the following sequence:

1. A thread enqueues a packet after the reactor's last poll.
2. Its `maybe_wakeup()` runs before the smp poller sets `_sleeping`.
3. `packet_queue_pollfn::try_enter_interrupt_mode()` accepts without looking
   at the queue.
4. The reactor blocks with the packet queued. The packet waits for an
   unrelated timer or fd event.

With `smp::count == 1` no poller ever sets `_sleeping`, so every packet put
while the reactor sleeps waits this way.

`sleep_smp` shows that the syscall pool's protocol is sound:

- The reactor stores `_main_thread_idle` before it polls `_completed`.
- The worker pushes to `_completed` before it loads `_main_thread_idle`.

So in every order at least one of them sees the other's write. Either the
reactor refuses to sleep or it is signalled (`SyscallWakeupNotLost`). Every
call submitted is completed without a timer (`SyscallsComplete`).
`_queue_has_room` keeps the items in flight within `queue_length`, the size
of the worker's and `complete()`'s `tmp_buf` arrays (`RoomConserved`).

`sleep_timers` shows that the timer deadlines reach the sleep:

- Outside `complete_timers()`, `_lowres_next_timeout` is set and no later
  than the earliest queued lowres timer (`NextTimeoutNotLate`). It may be
  earlier, because `del_timer()` leaves the set's `_next` stale. The only
  cost is an early `do_expire_lowres_timers()` that finds nothing due.
- While the reactor waits with a lowres timer queued, either a signal is
  pending or the kernel alarm is set no later than that timer
  (`TimerWakeupNotLost`). This needs `add_timer(steady)` to re-enable the
  kernel timer, and `alarm_handler` to re-arm it for what is left.
- Every armed timer whose expiry the clock passes fires or is cancelled
  (`TimersFire`).

`NextTimeoutNotLate` relies on `load_timer`. Suppose a user timer is
cancelled after it lowered `_lowres_next_timeout` and the set is left
empty. A later `add_timer()` then compares with the stale `_next`, and
`insert()` returns false, so `_lowres_next_timeout` is never raised. The new
timer would then be checked only when the stale deadline is passed, and
that deadline is in the past. The path is harmless only because
`load_timer` stays queued for the whole of `run()`, so the set is never
empty. A model without `load_timer` reaches it.

### LowresTimers (low-resolution timers)

The module has no run of its own. `ReactorSleep` extends it, and the
`sleep_*` runs check it as part of the loop.

- State: the clock `now`, each timer's `_expiry`, the `armed` timers, the
  timers queued in `_lowres_timers` (`inSet`), the list
  `_expired_lowres_timers` (`expList`), the set's `_next` (`setNext`) and
  `_lowres_next_timeout` (`nextTimeout`). 0 stands for `time_point()`.
- `add_timer` is `timer::arm` followed by `reactor::add_timer`, and
  `del_timer` is `timer::cancel` followed by `reactor::del_timer`. They are
  the helpers of `TaskArm`/`TaskCancel` and of timer callbacks. The
  `timer_set` (`insert`, `remove`, `expire`), `arm_state` and
  `readd_periodic` live in headers outside `src/`. They are modelled from
  upstream's definitions: `insert` lowers `_next` and returns true only for
  an earlier timer, `remove` leaves `_next` alone, and `expire` recomputes
  it.
- `do_expire_lowres_timers()` runs in three steps:
  - `ExpireStart`: `expire(now)` moves the due timers to the list, in any
    order, because the bucket order is an implementation detail.
  - `ExpireStep`: one turn of `complete_timers()`' loop. It disarms the
    timer, re-adds it if periodic (before the callback, as the code does),
    and runs the callback.
  - `ExpireEnd`: the `enable_fn`.

  A callback may cancel or arm user timers.
- `load_timer` (run()'s periodic load-average timer) is armed in `Init` and
  never cancelled, as in `run()`. Tasks and callbacks reach only the other
  timers (`UserTimers`).

### TaskScheduler (task queues and fairness)

State and its code counterpart:

| model | code |
|---|---|
| `tasks[q]` | the size of `q._q` |
| `vruntime[q]` | `q._vruntime - _last_vruntime` |
| `active[q]` | `q._active` |
| `activeQueues` | `_active_task_queues` |
| `activating` | `_activating_task_queues` |
| `current` | the queue `run_some_tasks()` is running |
| `needPreempt` | `g_need_preempt` |

- Keeping the vruntime relative to `_last_vruntime` is exact. Every use of
  `_vruntime` (the comparisons, the clamp in `activate()`, the `max` into
  `_last_vruntime`) is unchanged when all values move by the same
  constant. For an inactive queue that is not in `_activating_task_queues`,
  any value below the activation clamp is stored as the clamp, since
  `activate()` would raise it to the clamp anyway. A queue in
  `_activating_task_queues` has already been activated (line 2958) and
  keeps its value exactly, because `insert_activating_task_queues()`
  compares it as it is (2897-2898). The clamp is sound because
  `_last_vruntime` only grows. This keeps the state space finite while
  queues run forever.
- The actions follow `run_some_tasks()` step by step:
  - `StartRunSomeTasks`: the entry, clearing the preemption flag.
  - `Pick`: inserts the activating queues, then pops the front.
  - `RunTask` and `TaskDone`: one iteration of `run_tasks()`, with the
    break on preemption when the backlog is small.
  - `Account`: `account_runtime`, the `_last_vruntime` update, and
    re-insertion or deactivation.
- Other actions:
  - `add_task`: called by pollers while the loop polls, and by a task's
    body while it runs. It is written from upstream seastar's
    `reactor.hh`, which is not under `src/`.
  - `Preempt`: the task-quota timer thread.
- The sorted insertion is the code's swap loop, written as a RECURSIVE
  operator.
- Fixed point: `to_vruntime` uses a 4-bit reciprocal in place of 32 bits.
- Bounds:
  - three queues with shares 1, 2 and 1;
  - at most 2 queued tasks per queue, and `_max_task_backlog` 1, so that
    a queue refilled by its own task is over the backlog when preemption
    is requested;
  - slice lengths giving vruntime increments of at least 1; see below for
    why shorter slices are left out.
- Fairness: weak fairness on every reactor step and on the quota timer,
  which re-fires every `_task_quota` while the reactor is awake. None on
  `add_task`.

| run | checks | result |
|---|---|---|
| `shard_safety` (MCShard) | ShardTypeOK (includes TypeOK: no vruntime above `_last_vruntime`), ActiveSorted, QueueMembership, PreemptionHonoured, with `_max_task_backlog` below the queue bound | pass |

PreemptionHonoured: once `g_need_preempt` is set, the reactor is back in
its loop, unless at the end of a task the running queue holds more than
`_max_task_backlog` tasks. It takes `run_tasks()` checking the flag after
every task and `Account` leaving the loop rather than picking the next
queue. Its mutant ignores the flag in `run_tasks()`. With the backlog
bound below the queue bound, the exception really occurs: a queue whose
task queues its successor ignores `need_preempt()` (reactor.cc 2449).
Such a queue, if its tasks keep it above the bound, is never left, and
the other queues and the pollers never run again. spec.md §4.1-4.2 says
that preemption prevents any queue from running unboundedly; the code
makes an exception for a queue over its backlog, and the property states
that exception rather than hiding it.

`shard_safety` assumes that every slice gains virtual runtime. A slice
shorter than `shares` nanoseconds gains none. Whether every queue with
tasks then runs depends on real timing (when the quota timer fires), which
the model does not represent, so no property claims that every queue runs.

### AppendChallengedFile (files on filesystems that serialize appends)

`append_challenged_posix_file_impl` (reactor.cc 1291-1607) queues every
read, write, truncate and sloppy-size flush in `_q`. `process_queue()`
runs after every enqueue and every completion, in three steps:

1. `optimize_queue()`: when nothing is in flight and enough appending
   writes wait, it extends the file with one speculative `ftruncate()`.
2. It dispatches queue heads while `may_dispatch()` allows.
3. It sets `_completed` once `close()` has set `_done` and everything has
   drained.

| model | code |
|---|---|
| `q` | `_q` (op records `[id, type, pos, len]`) |
| `inflight` | dispatched ops, with the counter `dispatch()` chose (`counter`) |
| `csc`, `cnsc` | `_current_size_changing_ops`, `_current_non_size_changing_ops` |
| `logical`, `committed` | `_logical_size`, `_committed_size` |
| `fileSize` | the size of the file on disk (not stored by the code) |
| `done`, `completed` | `_done`, `_completed` set |
| `closeCalled`, `closed` | `close()` called, its continuation run |

- Actions:
  - `read_dma`, `read_dma_iov`, `write_dma`, `truncate` and `flush`: the
    API calls, each including its `enqueue()` and `process_queue()`.
    `read_dma_iov` is the iovec overload. It keeps the leading iovecs that
    end within the logical size. It sets the length of the next iovec to
    `pos + len + iov_len - aligned_logical_size` (line 1456) and drops the
    rest. The op records the length the syscall reads.
  - `Complete(o)`: a dispatched op's `run()` (`candidate.run()` in
    `dispatch()`, which runs `write_op`, `truncate_op` or `flush_op`; a read
    changes no size) followed by the continuation in `dispatch()`: the counter chosen at dispatch is decremented and
    `process_queue()` runs again.
  - `Close` and `CloseFinish`: the two halves of `close()`.
  - `Issue` stands for the callers, who issue ops from `OpSpecs` until
    they call `close()`.
- Helpers:
  - `process_queue`, `optimize_queue`, `DispatchHeads` (the dispatch loop,
    as a RECURSIVE operator), `may_dispatch`, `size_changing` and
    `must_run_alone` are operators over the state they read. Each follows
    its function line by line.
- Failures: every `ftruncate()`, write and truncate may fail when
  `SyscallsMayFail`. A failure leaves the file and the sizes as they were,
  as the code's error paths do. A write may then also be short: it
  returns any number of units up to its length, and `commit_size(pos +
  ret)` (line 1491) commits only what it wrote.
- Reentrancy: an op whose future is already resolved completes inside
  `dispatch()`, so `process_queue()` re-enters itself. That is the same as
  completing it right after it was dispatched. `_done = false` keeps the
  outer call from setting `_completed` a second time.
- Sizes are in units of the DMA alignment, so `align_up` is the identity.
  The alignment rounding of reads is left out, and with it the case of
  the iovec clip where `pos + len + iov_len` lies between the logical size
  and its aligned value: the subtraction at line 1456 then wraps around.
- Bounds:
  - a file of 4 units, with a sloppy hint of 6;
  - `_max_size_changing_ops` = 1, so both triggers of `optimize_queue()`
    happen: two appending writes, or one in sloppy mode;
  - at most 4 ops, drawn from: a read of the whole file, a read of its
    last unit, a read of the whole file into two iovecs of 3 units, a
    write to unit 2, an append, a truncate to 2 and a flush.
  - Both size modes are initial states. Four ops are enough for a
    truncate, two writes and a read to be queued together.
- Fairness: the kernel completes every submitted aio and the reactor runs
  the continuation. This is stated as "every op id leaves `inflight`
  infinitely often", which is weak fairness of `Complete(o)` per op,
  because an op leaves `inflight` only by completing. `CloseFinish` is
  weakly fair. Deadlock checking is off, since every behaviour ends with
  the file closed.

| run | checks | result |
|---|---|---|
| `disk_safety` (MCDiskIO) | DiskTypeOK (includes TypeOK), SizeChangesRunAlone, SizesConsistent, CloseCompletes, with failing syscalls | pass |
| `acf_read` | ReadsWithinLogicalSize | **violation** |

What the runs show:

- `SizeChangesRunAlone` judges each op in flight against the file on
  disk, not against `_committed_size`. So it checks two things together:
  `may_dispatch()`, and the fact that `optimize_queue()` raises
  `_committed_size` only when its `ftruncate()` succeeded.
- Not checked by a run: `close()` ignores a failed final `ftruncate()`
  (line 1600), so a closed sloppy-size file can keep its speculative size,
  although spec.md §8 asks for committed = logical after close. The model
  shows it: `CloseFinish` leaves the sizes as they are when the truncate
  fails.
- `acf_read` finds two real bugs in sloppy-size mode. TLC prints the
  shorter. A sloppy-size file of 4 units is extended to the hint of 6 when
  it is opened. `read_dma_iov(0, <<3, 3>>)` keeps the first iovec and sets
  the second to `0 + 3 + 3 - 4 = 2` units, the part past the end, rather
  than the 1 unit before it. The read asks for 5 units and gets them from
  a file of logical size 4.
- The second bug needs no iovecs (it is the trace with the iovec read
  left out of `OpSpecs`):
  1. A file of 4 units.
  2. `truncate(2)` is issued, then `write_dma(2, 1)`, then
     `read_dma(0, 4)`. The read's length is clipped against the logical
     size 4 at call time.
  3. The truncate completes.
  4. `optimize_queue()` extends the file to twice the committed size
     (4 units).
  5. The write and the read are dispatched together. The read returns 4
     units, although the file is 3 units long after any order of the two
     ops.

### OutputStream (buffered output stream with batched flush)

`output_stream<char>` (iostream-impl.hh) buffers writes and hands them to
a `data_sink`. With `_batch_flushes`, `flush()` returns at once and adds
the stream to the reactor's flush poller; `reactor::flush_tcp_batches()`
(reactor.cc 2458-2467) later calls `poll_flush()`, whose `_fd.put()` /
`_fd.flush()` chain runs while the caller goes on writing. The stream has
one owner, who waits for each call's future before the next call
(spec.md line 37).

| model | code |
|---|---|
| `buf` | `_buf[0.._end)` in buffered mode, `_zc_bufs` in zero-copy mode |
| `flushFlag`, `flushing` | `_flush`, `_flushing` |
| `inBatch`, `futures` | `_in_batch` engaged, and the futures taken from it |
| `inPoller` | the stream is in the reactor's `_flush_batching` list |
| `round` | the `poll_flush()` chain: its put or its flush in flight |
| `ex` | `_ex` (errors are numbered 1, 2, ...) |
| `wire` | the units handed to the sink, in order |
| `wait`, `cont`, `failed` | the caller's pending future, the rest of its continuation chain, and whether it carries an exception |

- Data: a write of n units by the i-th call is n copies of i, so the order
  of the units on the wire shows the order of the writes.
- Actions:
  - `Write(n)`: `write()` in buffered mode (`write_buffered`, with the
    copy into the free space, the put of a full buffer and the
    swap-or-split paths) or in zero-copy mode (`write_zc`). With
    `_trim_to_size` (`trim`) the bulk of a large write goes through
    `split_and_put`. It puts chunks of `_size`, each after the previous put
    resolves, and copies a shorter last chunk to the start of `_buf`
    (which it asserts is empty). `zero_copy_split_and_put` is not modelled,
    because its only call in `write(packet)` is commented out.
  - `Flush`: `flush()`: in direct mode the buffer is put and the sink
    flushed; in batch mode a stored `_ex` is delivered, or `_flush` is set
    and the stream joins the poller unless a round is in progress.
  - `Close`: `close()`: a flush, then `finally` wait for `_in_batch`, then
    rethrow `_ex`, then `finally` close the sink.
  - `CallerStep` runs the next step of the caller's chain; steps that are
    not `finally` are skipped once the chain carries an exception.
  - `SinkDone`: a sink call the caller waits for completes or fails.
  - `Poller`, `RoundPutDone` and `RoundFlushDone`: `poll_flush()` and the
    two continuations of its round. A failure is stored in `_ex` and
    `poll_flush(true)` runs another round.
- Bounds: buffer of 2 units, writes of 1, 2 or 3 units (below, at and
  above the buffer size), at most 3 writes, at most 2 sink failures. Both
  write modes, both flush modes and both `_trim_to_size` modes are initial
  states. A 3-unit write on an empty or half-full buffer makes
  `split_and_put` both put a chunk and buffer a remainder.
- `split_and_put` writes its last chunk at offset 0 of `_buf`, so it would
  drop buffered units if `_end` were nonzero. `CloseSendsAll` would catch
  that loss. It holds because the caller waits on the chain, and
  `poll_flush()` only empties the buffer.
- Fairness: weak fairness on the poller (polled on every loop iteration),
  on the sink's completions and on the continuations the reactor runs.
  None on the caller's own calls. Deadlock checking is off: every
  behaviour can end with the stream closed.

| run | checks | result |
|---|---|---|
| `shard_safety` (MCShard) | ShardTypeOK (includes TypeOK: buffer within `_size`), BytesInOrder, CloseSendsAll, CallsComplete, FlushedDataSent | pass |
| `os_errors` | NoErrorLost | **violation** |

What the runs show:

- BytesInOrder and FlushedDataSent cover the race at the centre of the
  batched mode: a `put()` that finds `_flushing` set must wait on
  `_in_batch`, and a `put()` clears `_flush`, cancelling a scheduled
  batched flush. The properties hold because that `put()` hands over the
  whole buffer, which holds the data the cancelled flush was for, and a
  `flush()` during a round sets `_flush` again, so `poll_flush(true)` runs
  one more round.
- `os_errors`: `poll_flush()` stores a failure in `_ex` (line 582) and
  runs again. If the stream was flushed again meanwhile, a second failing
  round overwrites `_ex` before any caller has seen the first error.
  spec.md §7 says errors from asynchronous operations are never lost. The
  trace: `flush()`, the poller's round starts, `flush()` is called again
  while the round's flush is in flight (setting `_flush`), the round's
  flush fails, and the round that `_flush` starts fails too. A `close()`
  in place of the second `flush()` calls `flush()` first and loses the
  error the same way.

### IoQueue (disk I/O admission and aio submission)

A disk read or write (`posix_file_impl::read_dma`/`write_dma`) goes through
`submit_io_read`/`write` to `io_queue::queue_request()` (reactor.cc
1092-1110). The model takes a shard that is its own I/O coordinator, so
`smp::submit_to()` runs the request inline. The request waits in its
priority class's fair queue. The fair queue admits at most `_capacity`
executing requests; for each admitted request it schedules
`reactor::submit_io()` (881-899). `submit_io()` takes a unit of
`_io_context_available` (`max_aio` units), appends an iocb to
`_pending_aio`, and flushes when the fair queue has waiting requests or
enough iocbs are pending. `flush_pending_aio()` (903-948) calls
`io_submit()` until nothing is pending or it gets EAGAIN. The
`aio_batch_submit` poller (2589-2604) calls it on every loop iteration.

`fair_queue` is not under `src/`. Its `queue()` and dispatch are written
from spec.md §4.3 (spec_modelled in `PROJECT.json`): a request costs
weight / shares, the class with the least accumulated cost goes first,
and ties may go either way. The time decay of the real costs is left
out.

| model | code |
|---|---|
| `req` | the requests issued: class, weight (`1 + len/16KiB`), whether the fd is bad |
| `fqq`, `acc`, `executing` | the fair queue's per-class backlog, accumulated cost, executing count |
| `ready` | requests dispatched whose function (the `submit_io` call) has not run |
| `waiters`, `granted`, `avail` | the semaphore's wait list, units granted to continuations not yet run, free units |
| `pending` | `_pending_aio` |
| `kernel`, `events` | iocbs in flight in the kernel, and completed ones whose events sit in the ring |
| `finishing`, `resolved` | requests failed by EBADF whose fair-queue `finally()` has not run; requests whose future resolved |

- Actions:
  - `queue_request(c, w, bad)`;
  - `FqRun(i)`: the fair queue's continuation, which calls `submit_io()`.
    A free unit gives a ready future, whose lambda runs at once or, when
    `need_preempt()` is set, as a task (`GrantedRun(i)`).
  - `GrantedRun(i)`: that lambda, run as a task.
  - `FqFinish(i)`: the fair queue's `finally()` after a failed request.
  - `AioPoller`: `flush_pending_aio()` from the poller.
  - `KernelComplete(i)`: the kernel finishes an iocb.
- The kernel's `io_submit()`:
  - it takes a ring slot before it checks the descriptor, so a full ring
    gives EAGAIN;
  - otherwise it accepts the iocbs up to the first bad descriptor and up
    to the free slots, so a bad descriptor in mid-batch gives a partial
    submission;
  - a bad first descriptor gives EBADF;
  - at most `MaxEagain` transient EAGAINs may come at any call.
  - Other errors abort the process in the code and are left out.
- No reaping: the io poller is commented out in `reactor::run()` (line
  2968). `process_io()` is its only caller of `io_getevents()`. So there
  is no action that reaps `events`. The aio eventfd loop only drains the
  eventfd.
- Bounds:
  - classes with shares 1 and 2, requests of weight 1;
  - `max_aio` = 2 and `_capacity` = 3, with 4 requests, so the third
    request waits for a unit and the fourth waits in the fair queue;
  - bad descriptors allowed, and one transient EAGAIN.
  - The flush threshold `min(max_aio/4, _capacity/2)` is 0 at these
    bounds, so `submit_io()` always flushes. iocbs stay pending only
    after an EAGAIN, which is enough to give the poller work and to make
    a batch of two with a bad descriptor in second place.
- Fairness:
  - every scheduled continuation runs, and the kernel completes every
    iocb. This is stated as "each request leaves `ready`, `granted`,
    `finishing` and `kernel` infinitely often", which is weak fairness
    of each per-request action, as each is enabled exactly while the
    request is in that set;
  - the poller is weakly fair.
  - Deadlock checking is off: the callers stop after 4 requests.

| run | checks | result |
|---|---|---|
| `disk_safety` (MCDiskIO) | DiskTypeOK (includes TypeOK), RequestsAccounted, UnitsConserved, PendingSubmitted | pass |

What the runs show:

- `RequestsAccounted`: every request is in exactly one stage, whatever
  `io_submit()` returns.
- `UnitsConserved`: every semaphore unit is free or held by exactly one
  request, including the unit that EBADF hands to the oldest waiter.
- `PendingSubmitted`: an iocb left behind by EAGAIN or by a partial
  submission is submitted later, by the poller.
- Not checked by a run: completion. In this tree the io poller's
  registration in `run()` is commented out and `process_io` has no caller,
  so a request completed by the kernel is never reaped, and its semaphore
  unit is never returned. spec.md §4.3 says completions are polled on every
  iteration. The model has no action for reaping, so a liveness property
  would be violated by construction. A run would show nothing beyond this
  reading of `run()`, so the gap is recorded as a hazard instead.

### StallDetector (the task-quota timer thread)

`StallDetector.tla` models `task_quota_timer_thread_fn` (`reactor.cc`
505-600) together with the reactor-side steps it observes in `run()`.

| model | code |
|---|---|
| `FirstTick` | the first `read()` of the timerfd, before the loop (562-567) |
| `Tick` | one loop iteration: `rate_limit.tick(max(1, missed - saved))`, the `_polls` comparison, `increment_nonatomically(_tasks_processed_stalled) == report_at`, `maybe_report`, `report_at <<= 1`, or the reset (572-598) |
| `rl_tick` | `block_notifier_rate_limiter::tick` (531-550) |
| `tick_arg`, `slept_ticks` | the argument of `tick()` narrowed to `unsigned`; `uint64_t((start_sleep - idle_end)/_task_quota)` (3128) |
| `FinishTasks`, `Poll` | `run_some_tasks` returning; `++_polls` and `check_for_work`, then either another round or the disarm of the timerfd before sleep (3072-3123) |
| `Doze`, `Wake` | time passing in `sleep()`; adding the slept ticks to `_stall_detector_missed_ticks` and re-arming (3124-3129) |

Time is counted in task quotas. The timer thread runs `SCHED_FIFO` on the
reactor's core (2971-2973), so one loop iteration is one step.
`reactor::_tasks_processed` is never incremented in this tree, so its half of
the comparison always holds and is left out. `uint64_t` and `unsigned` keep
their wrap-around at widths `WordBits` = 4 and `UBits` = 3: the wrap of the
slept-tick count happens after a sleep of one quota, exactly as it does at
64 bits.

Properties:

- `StallMeasured`: after n quotas inside one `run_some_tasks()` the stall
  counter is n - 1, or n - 2 once at startup. So a stall is seen, and an
  idle reactor with its timer disarmed is never counted as stalled. Its
  mutant `PollNoDisarm` keeps the timer armed through sleep.
- `MinuteWindow` (action property): the rate limiter opens a new window of
  reports no sooner than `TicksPerMinute` quotas after the previous one.

| run | checks | result |
|---|---|---|
| `shard_safety` (MCShard) | StallMeasured | pass |
| `stall_window` | MinuteWindow | violation |

`stall_window` finds that after a stall report, a sleep of one or two quotas
adds a *wrapped negative* tick count. The next `tick()` receives it narrowed
to `unsigned`, `_ticks` wraps past `_ticks_per_minute`, and the window closes
at once. In TLC's trace, with a minute of six quotas, the second window opens
four quotas after the first, although the
option `blocked-reactor-reports-per-minute` promises a maximum per minute.
Bounds: threshold 1, one report per minute, a minute of 6 quotas, 10 quotas
of time. That is enough for a stall, a report, a sleep and a second stall.

### PacketQueue (multi-producer packet queue)

`PacketQueue.tla` models `packet_queue.cc`.

| model | code |
|---|---|
| `Put(p)` | `enqueue()` (through `channel::put`), with `impl()` taking a slot by `_index.fetch_add(1)` on a thread's first call (19-23, 30-31) |
| `Publish(p)` | `impl()` storing the queue into the slot, then into the pthread key (24-27) |
| `Push(p)` | the thread-local `ReaderWriterQueue::enqueue` (31-36); its `maybe_wakeup` is ReactorSleep's |
| `try_dequeue_bulk`, `Scanned`, `Dequeue` | the scan from slot 0 that stops at the first null slot and returns one packet (46-59), called by `packet_queue_pollfn` |

The store into `_queues[index]` is a plain store read concurrently by the
poller. The model lets the poller see the slot empty until the store
happens. `try_enqueue` has no caller under `src/`. The model assumes no
more producer threads than slots. Past 128 threads the store is out of
bounds (a hazard in `PROJECT.json`).

`PacketsDelivered`: every packet put is eventually returned, also when a
thread that took an earlier slot has not yet stored its queue and the scan
stops there. Its mutant returns false once the first queue is empty.
Fairness: a thread inside `enqueue()` finishes it (straight-line code), and
the reactor polls on every iteration it is awake. Whether it wakes up is
ReactorSleep's question, and `sleep_packet` shows that it may not. The
weak fairness of `Dequeue` also assumes that the packet poller drains the
queue: `packet_queue_pollfn` calls `flush_packet_queue()`, which is not
under `src/`, so that it takes packets off the queue is an assumption of
the model, not something read from the code. Bounds:
two threads, two slots, three packets.

### Channel (broken flag and reconnection)

`Channel.tla` models `channel.cc`: `set_channel_broken` (41-43);
`reconnect` with its `test_and_set` (54-55); the read of
`_is_channel_broken` (56-59); `reconnect_done` called inline (60) or later
by the user's `_reconnect_func` (57). The connection is a ghost `conn`,
which can fail (`Fail`) at most `MaxFailures` times. A completed
`_reconnect_func` leaves a fresh connection.

- `ReconnectExclusive` (passes in `shard_safety`): at most one reconnection
  is running. Its mutant drops the `test_and_set`.
- `BrokenNotLost` (`channel_broken`, violation): while the connection is
  down and was reported with `set_channel_broken()`, the flag is set or a
  reconnection is running. TLC's counterexample has six states:
  1. the connection fails;
  2. `reconnect()` takes the flag;
  3. `reconnect()` reads `_is_channel_broken` clear;
  4. another thread calls `set_channel_broken()`;
  5. `reconnect_done()` clears the broken flag.

  The failure is forgotten.

### EpollBackend (readiness futures of pollable fds)

`EpollBackend.tla` models `reactor_backend_epoll` in `reactor.cc`:
`get_epoll_future` (737-756, through `readable`/`writeable` 776-782),
`abort_fd` (758-790), `forget` (792-796), `complete_epoll_event`
(870-878) and `wait_and_process` (3308-3331). Each fd keeps
`events_requested` (`requested`) and `events_epoll` (`epollMask`) as sets
of events. The kernel side is ghost state: whether the fd is in the epoll
set, the mask the kernel holds, and the events the fd is ready for. The
operator `epoll_ctl` gives ADD, MOD and DEL their kernel semantics (ADD
fails on a registered fd, MOD and DEL on one that is not), and `ApplyCtl`
records a failure of a call whose result the code asserts. The peer makes
an fd ready (`Arrive`); a caller whose future resolved drains it
(`Drain`). A caller holds at most one future per fd and event.
`events_known` is never set under `src/`, so the early return on a known
event is left out.

Fairness: weak fairness of `WaitAndProcess`. The epoll poller calls it on
every loop iteration, and the reactor sleeps in it when idle. Callers and
peers are not fair. Bounds: two fds, each with both events, so that one
`epoll_pwait` reports several fds and one fd has interest in one event
while waiting on the other.

- `InterestMirrored` (passes in `disk_safety`): no asserted `epoll_ctl`
  fails, and for every open fd the kernel holds exactly `events_epoll`. The
  fd is registered exactly when that mask is not empty, and every requested
  event is in it. Its mutant chooses ADD or MOD after adding the event.
- `ReadinessDelivered` (passes in `disk_safety`): a pending future whose fd
  is ready for its event resolves. Its mutant deletes the fd from the
  epoll set whenever an unrequested event fires, whatever interest
  remains.

### PollerRegistry (deferred registration of pollers)

`PollerRegistry.tla` models `reactor.cc` 3211-3302:
- `do_register` queuing a `registration_task` (`Construct`);
- `registration_task::run`, `cancel` and `moved`;
- `deregistration_task`;
- `register_poller`, `unregister_poller` and `replace_poller`;
- the poller's move constructor and move assignment (`MoveAssign`, which
  runs the destructor on the target first);
- `~poller` (`Destroy`).

The poller objects are constants, and the pollfns are named after the
function they were created with. The dummy that replaces a destroyed
registered pollfn is named after it too. Tasks run in the order they were
queued (`RunTask`).

Fairness: weak fairness of `RunTask`. The reactor runs queued tasks, and
the default scheduling group's progress is TaskScheduler's question.
Bounds: three poller objects (a member, a temporary moved into it, and a
third) and two pollfns. This covers a move before registration, a
destruction before registration, and a destruction after it.

- `PollersValid` (passes in `disk_safety`): `_pollers` holds no freed
  pollfn and no pollfn twice. Every pollfn a live poller holds is either
  registered or has a pending registration task aimed at that poller.
  Its mutant destroys a poller without cancelling its pending
  registration.
- `DeferredUpdatesApplied` (passes in `disk_safety`): a pollfn a live poller
  holds is eventually registered, or freed if the poller dies first. A
  dummy in `_pollers` is eventually erased. Its mutant's move constructor
  does not retarget the registration task.

### RagelParser, HttpRequestParser, HttpResponseParser and InputStream (a connection's input side)

`HttpRequestParser` is the Ragel-generated `http_request_parser`
(`gen/http/request_parser.hh`), and `HttpResponseParser` the
`http_response_parser` (`gen/http/http_response_parser.hh`). `RagelParser`
holds what their code shares: the parser object, the actions, the goto
loop, the code of `parse()` around it, `init()` and `eof()`. Each parser's
goto code is read as a transition function. `Trans(cs, c)` gives, for a state `_fsm_cs` and an input byte,
the next state and the actions of that transition, in the order the code
runs them:
- `mark_start`;
- `str()` into the method, url, version, `_field_name` or `_value`;
- assigning or appending a header;
- `done`.

The four tables of each parser follow the code's state groups:
- `RequestLine` (`StatusLine` in the response parser): st1-st15;
- `HeaderLine`: st16-st23 and st34;
- `ContinuationLine`: st24-st27;
- `FoldedHeaderLine`: st28-st33.

The response parser differs from the request parser in three places.
Its first line is `HTTP/d.d`, a three-digit code and a reason; the
version is kept and the code and reason are not (`http_response` has no
field for them). Its st20 marks a header value at the byte after the
colon, so leading white space is part of the value, where the request
parser skips it. Its st30 leaves for st31 on white space, where the
request parser stays in st30.

`RagelLoop` holds the loop for a given `Trans`, and each parser instantiates
it with its own. `Exec` runs the loop from `p` to `pe`, a byte at a time
(`Loop`). A byte with no transition leaves
the loop in st0. A `done` leaves it after the final LF. `parse()` adds the
code around the loop:
- `_state = error` for a non-empty buffer;
- nothing at all for an empty one;
- the fall-through of a parser in st0 to `_test_eof2`, which sets
  `_fsm_cs = 2`;
- a null cursor unless a message is done.

The token builder (`sstring_builder`, `core/ragel.hh`) is not under `src/`.
It is modelled by its contract, and marked spec_modelled:
- a token is open from `mark_start` to the next `str()`;
- its bytes accumulate across `parse()` calls;
- a `str()` with no open token yields `Undefined`, and the field
  `unmarked` records that it happened.

Bytes are their character codes.

`InputStream` is a connection's input side:
- the peer sends `Wire`, the bytes of a sequence of messages, as TCP
  segments ending at any offset of `Cuts`, and may close;
- the parser is a constant of the module: its initial state, `parse()`
  and `init()`, from `HttpRequestParser` on a server's connection and from
  `HttpResponseParser` on a client's;
- `get` is `native_data_source_impl::get()`;
- `ConsumeGet` and `ConsumeFeed` are the two branches of one iteration of
  `input_stream::consume()`'s loop, with the parser as the consumer. The consumer returns the bytes after the cursor as the
  unconsumed remainder, which `consume()` keeps in `_buf`;
- `ReaderNext` is the reader's loop of spec.md §6: take the parsed
  message and `init()` the parser, or stop at the end of the input. It is
  spec_modelled: the HTTP server and client are not under `src/`.

The TCP connection, also not under `src/`, is reduced to its contract.
`wait_for_data()` resolves once data or the FIN is there. `read()` returns
what has arrived, as one packet with one fragment per segment.

Fairness: weak fairness on `ConsumeGet`, `ConsumeFeed` and `ReaderNext`.
The reactor runs a ready continuation, and each of these steps is a
continuation whose data is there. None is assumed on the peer. The
weak fairness of `ConsumeFeed` is written out as
`[]<>~ConsumeFeedEnabled \/ []<><<ConsumeFeed>>_v`, with its guard for
`ENABLED`; the two are equal because the rest of the action always has a
value. This avoids TLC evaluating `parse()` under `ENABLED`, which it does
without caching.

Bounds (MCInputStream):
- Two pipelined requests: `G /a HTTP/1.1` with the header `H: v`, and
  `P / HTTP/1.0` with none (39 bytes).
- Segments may end after the method, inside the url, inside the version,
  after `H: `, at the request boundary and after the second method.
- Two pipelined responses: `HTTP/1.1 200 O` with the header `H:v`, and
  `HTTP/1.0 204 ` with none (40 bytes). The header has no space after
  its colon, because the response parser would keep it in the value.
- Segments may end inside `HTTP/`, inside the version, inside the code,
  after `H:`, at the response boundary and inside the second `HTTP/`.
- So tokens, the header's value and the final CRLF are split across
  buffers, and one buffer can end one message and start the next.
- `MCShard` runs requests in part `input` and responses in part
  `responses`: the same `InputStream` variables, instantiated twice.

| run | checks | result |
|---|---|---|
| `shard_safety` (MCShard, parts `input` and `responses`) | MessagesReceived, MessagesServed | pass |
| `input_error` (MCInputStream, `BadSpec`) | MessagesReceived, with a lower-case method before a good request | **violation** |

- `MessagesReceived`: the reader's messages are a prefix of the messages
  sent, up to the first malformed one. A request is compared with its
  method, url, version and header map, a response with its version and
  header map. The mutant's `init()` keeps the previous
  `_req`, so the second request inherits the first one's header.
- `MessagesServed`: once the peer has sent everything and closed, the
  reader eventually has every message and stops at a clean end. The
  mutant's `consume()` drops the remainder after a completed request.

`input_error` shows the following. After the bad method, the parser is in
st0, and `parse()` returns null. The next `parse()` call falls through the
switch, which has no case 0, to `_test_eof2`. It sets state 2, consumes
nothing and returns null again. `consume()` takes each null for "buffer
consumed, more needed". So the buffer after the error is dropped
unparsed. The parser then goes on in the method state with the next
buffer, and completes a request whose method was never marked
(`Undefined`) from the tail of the next request. spec.md §6 says a
parser signals a parse error by a null cursor. This one returns null for
both an error and a fully consumed buffer.

Not checked: a header line that follows a continuation line with
whitespace before its colon (st28 to st29). It takes `_value = str()`
right after `_field_name = str()`, with no mark in between. What the
builder returns then is defined in `core/ragel.hh`, which is not under
`src/`. The model records it in `unmarked`. The runs' messages have no
folded headers.

### Composed harnesses (MCShard, MCDiskIO)

Components that share no variable of the model are checked in one run. The
harness declares every component's variables and a variable `part`, chosen
in the initial state and never changed. A step is a step of the chosen
component, with the others unchanged, and each component's fairness is weak
fairness of its actions restricted to its `part`. A behaviour of the
harness is thus exactly a behaviour of one component, with the others
stuttering in an initial state. Each property is about one component and
holds trivially on the others' initial states.

- `MCShard`: TaskScheduler, StallDetector, OutputStream, PacketQueue,
  Channel and InputStream, once with each parser (run `shard_safety`).
  The two InputStream parts share its variables, and a step of either is
  one action `InputStep(A, B)`, so that their weak fairness is one
  condition each. The written-out weak fairness of `ConsumeFeed` is
  restricted to those parts in its enabling condition.
- `MCDiskIO`: AppendChallengedFile, IoQueue, EpollBackend and
  PollerRegistry (run `disk_safety`). The recurrence conditions in the
  fairness of AppendChallengedFile and IoQueue hold trivially in the
  behaviours of the other parts, which have nothing in flight, so they
  are stated unconditionally.

Neither run checks deadlock. The stream is closed and the file is closed at
the end of their behaviours, and the packets, failures and requests are
bounded, as are the peer's bytes. The scheduler's progress is stated by `PreemptionHonoured` instead.
A frozen OutputStream or AppendChallengedFile is kept in one of its initial
states, so that the other parts are not explored once per initial state.

## 4. Not modelled (yet), and why

- Startup, configuration, metrics, the network stack registry, and the
  native-stack adapter apart from its data source: one-time setup, or pure
  adapters that forward to the TCP stack, which is not under `src/`. The one multi-threaded part, `smp::configure`,
  orders the shards only by three `boost::barrier` waits
  (`reactors_registered`, `smp_queues_constructed`, `inited`). Shard 0
  builds `smp::_qs` between the first two. Every shard starts its queues
  after the second. A model would do no more than restate the barrier,
  and `boost::barrier` is not under `src/`.
- The memcached ASCII parser and the JSON glue: generated code outside
  the core (spec.md §1). The JSON glue is formatting. The memcached
  parser's consumer is the memcached server loop, which is not under
  `src/`. The HTTP parsers are modelled because `consume()` depends on
  their cursor protocol.
- File-system calls (`open_file_dma`, `remove_file`, `rename_file`, `stat`,
  `list_directory`) are plain syscall wrappers run on the syscall thread.
- Manual-clock timers (`_manual_timers`) and application steady timers
  other than `_nearest_wakeup`. They follow the same `add_timer`/`del_timer`
  pattern as the lowres timers, and the model covers the lowres and steady
  instances of it. The steady and lowres clocks are one counter here.
  `lowres_clock` is updated from the steady clock, so modelling them as
  one clock loses only the lowres clock's granularity lag.
- The posix file (`dma_read_bulk`, `dup`, `close`): listed as not
  modelled in `PROJECT.json` with the reason.
- `input_stream`'s `read_exactly`, `read_up_to`, `read`, `skip` and
  `close`: the sequential buffer arithmetic of one fiber. Only
  `consume()` is modelled, together with its consumer and the data
  source.
- `channel::init`, which stores the packet queue and the output stream once
  before the channel is used.

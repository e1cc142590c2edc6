---------------------------- MODULE ReactorSleep ----------------------------
(***************************************************************************)
(* The sleep/wakeup protocol of one reactor (src/core/reactor.cc).  When  *)
(* the loop finds no work, reactor::sleep() calls try_enter_interrupt_mode *)
(* on every poller in registration order (signal, ..., packet_queue, ...,  *)
(* smp, ...) and then blocks in epoll_pwait() with signals unblocked.     *)
(* Two kinds of remote thread hand work to it:                            *)
(*   - another shard pushes work items into the smp request ring and then *)
(*     calls lf_queue::maybe_wakeup();                                   *)
(*   - any thread enqueues a user_packet into the reactor's packet_queue  *)
(*     (channel::put -> packet_queue::enqueue) and then calls             *)
(*     reactor::maybe_wakeup().                                          *)
(* Both check the reactor's _sleeping flag, clear it and send the alarm  *)
(* signal (reactor::wakeup()).  A signal sent while the reactor is       *)
(* entering the wait stays pending and interrupts epoll_pwait(), so one  *)
(* Boolean stands for "a wakeup signal is pending".  The reactor orders  *)
(* its store to _sleeping before its re-poll with                         *)
(* systemwide_memory_barrier(), so the model's interleaving semantics    *)
(* (sequential consistency) is what the code guarantees.  A third       *)
(* thread, the syscall thread pool's worker, runs blocking calls for the *)
(* reactor: the reactor pushes work items to syscall_work_queue::_pending *)
(* and signals _start_eventfd; the worker pushes finished items to       *)
(* _completed and sends SIGUSR1 if _main_thread_idle is set, which       *)
(* syscall_pollfn sets before its last poll (both accesses seq_cst).     *)
(* The lowres timer poller is last: when _lowres_next_timeout is set and  *)
(* still ahead it arms _nearest_wakeup, a timer of the steady-clock set   *)
(* _timers, whose deadline the kernel timer fires as the alarm signal;    *)
(* the signal's handler expires _timers.  Other pollers (aio) only add     *)
(* reasons to stay awake; an fd event may end the wait (WakeByEvent).     *)
(***************************************************************************)
EXTENDS LowresTimers

CONSTANTS
  SmpPoller,     \* smp::count > 1, so that the smp poller is registered
  MaxMsgs,       \* number of smp work items the other shard sends
  RingCapacity,  \* capacity of the smp request ring (queue_length)
  MaxPackets,    \* number of packets the foreign thread enqueues
  QueueLength,   \* syscall_work_queue::queue_length
  MaxSyscalls    \* number of blocking calls the reactor hands to the pool

VARIABLES
  rpc,           \* where the reactor thread is in run()/sleep()
  sleeping,      \* reactor::_sleeping
  wakeupPending, \* an alarm signal sent by wakeup() and not yet handled
  ring,          \* smp work items pushed to this reactor and not yet polled
  packets,       \* packets in the packet_queue not yet polled
  spc,           \* the sending shard: "idle" or "check" (after push, before maybe_wakeup)
  ppc,           \* the packet producer: "idle" or "check"
  sent,          \* smp work items pushed so far
  enqueued,      \* packets enqueued so far
  room,          \* units of syscall_work_queue::_queue_has_room
  wqPending,     \* work items in syscall_work_queue::_pending
  batch,         \* items the worker took from _pending and has not pushed back
  wqCompleted,   \* work items in syscall_work_queue::_completed
  startFd,       \* _start_eventfd holds a nonzero count
  tpc,           \* the worker thread: "read", "process" or "notify"
  idle,          \* thread_pool::_main_thread_idle
  usrPending,    \* a SIGUSR1 sent by the worker and not yet handled
  submitted,     \* work items submitted so far
  handled,       \* work items completed on the reactor so far
  nwArmed,       \* lowres_timer_pollfn::_armed (_nearest_wakeup is queued)
  nwExpiry,      \* _nearest_wakeup's expiry
  steadyNext,    \* _timers.get_next_timeout() (the steady set's _next)
  alarmAt        \* deadline of the kernel timer _steady_clock_timer; 0 when
                 \* it is disarmed or has fired

sysVars == <<room, wqPending, batch, wqCompleted, startFd, tpc, idle,
             usrPending, submitted, handled>>

reactorVars == <<rpc, sleeping, wakeupPending, ring, packets, spc, ppc, sent,
                 enqueued>>

nwVars == <<nwArmed, nwExpiry, steadyNext, alarmAt>>

vars == <<reactorVars, sysVars, timerVars, nwVars>>

Init ==
  /\ rpc = "loop"
  /\ sleeping = FALSE
  /\ wakeupPending = FALSE
  /\ ring = 0
  /\ packets = 0
  /\ spc = "idle"
  /\ ppc = "idle"
  /\ sent = 0
  /\ enqueued = 0
  /\ room = QueueLength
  /\ wqPending = 0 /\ batch = 0 /\ wqCompleted = 0
  /\ startFd = FALSE
  /\ tpc = "read"
  /\ idle = FALSE
  /\ usrPending = FALSE
  /\ submitted = 0 /\ handled = 0
  /\ TimersInit
  /\ nwArmed = FALSE /\ nwExpiry = 0 /\ steadyNext = Never /\ alarmAt = 0

(* reactor::run() registers the pollers in the order signal, aio, batch  *)
(* flush, execution stage, packet_queue, alien, smp (when smp::count >   *)
(* 1), syscall, freelist, lowres timers; sleep() visits them in that    *)
(* order.  Of those that can refuse, smp or else syscall follows signal. *)
AfterSignalPoller == IF SmpPoller THEN "enter_smp" ELSE "enter_syscall"

(* Variant of complete() that returns one unit to _queue_has_room per    *)
(* call, whatever the number of items retired.                           *)
complete_signal_one ==
  /\ wqCompleted' = 0
  /\ room' = room + 1
  /\ handled' = handled + wqCompleted

(* syscall_work_queue::complete(): retire every item of _completed and   *)
(* return their units to _queue_has_room.  It runs from syscall_pollfn   *)
(* and from the SIGUSR1 handler.                                          *)
complete ==
  /\ wqCompleted' = 0
  /\ room' = room + wqCompleted
  /\ handled' = handled + wqCompleted

-----------------------------------------------------------------------------
(* Reactor thread *)

(* The alarm signal's handler, registered by reactor::run():             *)
(* complete_timers(_timers, ...) expires the steady timers due at now     *)
(* (only _nearest_wakeup here, whose callback clears the poller's _armed) *)
(* and, when _timers is not empty, enable_timer() sets the kernel timer   *)
(* to the set's next deadline.  expire() recomputes _next.                *)
alarm_handler ==
  LET keep == nwArmed /\ nwExpiry > now
  IN  /\ nwArmed' = keep
      /\ steadyNext' = IF keep THEN nwExpiry ELSE Never
      /\ alarmAt' = IF keep THEN nwExpiry ELSE alarmAt
      /\ UNCHANGED nwExpiry

(* signals::poll_signal(): dispatch the pending signals.  The SIGUSR1    *)
(* handler, complete(), is left to the caller.                           *)
poll_signal ==
  /\ wakeupPending' = FALSE
  /\ usrPending' = FALSE
  /\ IF wakeupPending THEN alarm_handler ELSE UNCHANGED nwVars

(* One iteration of reactor::run() once tasks are run: check_for_work()   *)
(* calls poll_once(); signal_pollfn dispatches pending signals, smp_pollfn *)
(* processes the ring, packet_queue_pollfn drains the packet queue but    *)
(* always reports no work, syscall_pollfn completes the finished work     *)
(* items, and lowres_timer_pollfn, when a lowres deadline has passed,     *)
(* starts complete_timers() on the lowres set (the "timers" steps).  With *)
(* no work reported, the idle handler's pure_check_for_work() found       *)
(* nothing either, and once the idle time exceeds _max_poll_time the loop *)
(* calls sleep().                                                         *)
Loop ==
  /\ rpc = "loop"
  /\ ring' = 0
  /\ packets' = 0
  /\ poll_signal
  /\ complete
  /\ LET work == ring > 0 \/ wakeupPending \/ usrPending \/ wqCompleted > 0
     IN  IF do_check_lowres_timers
         THEN ExpireStart /\ rpc' = "timers"
         ELSE /\ rpc' \in IF work THEN {"loop"} ELSE {"loop", "enter_signal"}
              /\ UNCHANGED timerVars
  /\ UNCHANGED <<sleeping, spc, ppc, sent, enqueued, wqPending, batch,
                 startFd, tpc, idle, submitted>>

(* The rest of do_expire_lowres_timers(): complete_timers() pops the      *)
(* expired timers one by one ...                                          *)
TimersStep ==
  /\ rpc = "timers"
  /\ ExpireStep
  /\ UNCHANGED <<reactorVars, sysVars, nwVars>>

(* ... and its enable_fn refreshes _lowres_next_timeout.                  *)
TimersEnd ==
  /\ rpc = "timers"
  /\ ExpireEnd
  /\ rpc' = "loop"
  /\ UNCHANGED <<sleeping, wakeupPending, ring, packets, spc, ppc, sent,
                 enqueued, sysVars, nwVars>>

(* A task arms or cancels a lowres timer.                                 *)
ArmTimer ==
  /\ rpc = "loop"
  /\ \E t \in Timers, d \in Delays : TaskArm(t, d)
  /\ UNCHANGED <<reactorVars, sysVars, nwVars>>

CancelTimer ==
  /\ rpc = "loop"
  /\ \E t \in Timers : TaskCancel(t)
  /\ UNCHANGED <<reactorVars, sysVars, nwVars>>

(* A task calls syscall_work_queue::submit_item(): once _queue_has_room  *)
(* grants a unit, the item is pushed to _pending ...                      *)
SubmitPush ==
  /\ rpc = "loop"
  /\ submitted < MaxSyscalls
  /\ room > 0
  /\ room' = room - 1
  /\ wqPending' = wqPending + 1
  /\ submitted' = submitted + 1
  /\ rpc' = "submit"
  /\ UNCHANGED <<sleeping, wakeupPending, ring, packets, spc, ppc, sent,
                 enqueued, batch, wqCompleted, startFd, tpc, idle,
                 usrPending, handled>>
  /\ UNCHANGED <<timerVars, nwVars>>

(* Variant of SubmitSignal that forgets to signal _start_eventfd.        *)
SubmitSignalDropped ==
  /\ rpc = "submit"
  /\ rpc' = "loop"
  /\ UNCHANGED <<sleeping, wakeupPending, ring, packets, spc, ppc, sent,
                 enqueued, room, wqPending, batch, wqCompleted, startFd, tpc, idle,
                 usrPending, submitted, handled>>
  /\ UNCHANGED <<timerVars, nwVars>>

(* ... and then _start_eventfd is signalled.                              *)
SubmitSignal ==
  /\ rpc = "submit"
  /\ startFd' = TRUE
  /\ rpc' = "loop"
  /\ UNCHANGED <<sleeping, wakeupPending, ring, packets, spc, ppc, sent,
                 enqueued, room, wqPending, batch, wqCompleted, tpc, idle,
                 usrPending, submitted, handled>>
  /\ UNCHANGED <<timerVars, nwVars>>

(* signal_pollfn::try_enter_interrupt_mode(): block all signals, then     *)
(* poll(); a signal already handled means it raced and lost, and sleep()  *)
(* returns.  The packet_queue poller, next in order, always accepts.      *)
EnterSignal ==
  /\ rpc = "enter_signal"
  /\ IF wakeupPending \/ usrPending
     THEN /\ poll_signal
          /\ rpc' = "loop"
          /\ IF usrPending THEN complete ELSE UNCHANGED <<wqCompleted, room, handled>>
     ELSE /\ rpc' = AfterSignalPoller
          /\ UNCHANGED <<wakeupPending, usrPending, wqCompleted, room, handled,
                         nwVars>>
  /\ UNCHANGED <<sleeping, ring, packets, spc, ppc, sent, enqueued, wqPending,
                 batch, startFd, tpc, idle, submitted, timerVars>>

(* smp_pollfn::try_enter_interrupt_mode(), first half: if another shard  *)
(* holds _membarrier_lock it refuses (the earlier pollers are unwound);  *)
(* otherwise it sets _sleeping and issues the system-wide barrier.       *)
EnterSmp ==
  /\ rpc = "enter_smp"
  /\ \/ /\ rpc' = "loop"
        /\ UNCHANGED sleeping
     \/ /\ sleeping' = TRUE
        /\ rpc' = "smp_recheck"
  /\ UNCHANGED <<wakeupPending, ring, packets, spc, ppc, sent, enqueued, sysVars>>
  /\ UNCHANGED <<timerVars, nwVars>>

(* Variant of SmpRecheck that trusts the earlier poll and skips the      *)
(* re-poll after setting _sleeping.                                      *)
SmpRecheckSkipped ==
  /\ rpc = "smp_recheck"
  /\ rpc' = "enter_syscall"
  /\ UNCHANGED <<sleeping, wakeupPending, ring, packets, spc, ppc, sent, enqueued,
                 sysVars>>
  /\ UNCHANGED <<timerVars, nwVars>>

(* smp_pollfn::try_enter_interrupt_mode(), second half: poll() again; if *)
(* it found work the poller clears _sleeping and refuses.                 *)
SmpRecheck ==
  /\ rpc = "smp_recheck"
  /\ IF ring > 0
     THEN /\ ring' = 0
          /\ sleeping' = FALSE
          /\ rpc' = "loop"
     ELSE /\ rpc' = "enter_syscall"
          /\ UNCHANGED <<ring, sleeping>>
  /\ UNCHANGED <<wakeupPending, packets, spc, ppc, sent, enqueued, sysVars>>
  /\ UNCHANGED <<timerVars, nwVars>>

(* syscall_pollfn::try_enter_interrupt_mode(), first half:                *)
(* thread_pool::enter_interrupt_mode() sets _main_thread_idle.            *)
EnterSyscall ==
  /\ rpc = "enter_syscall"
  /\ idle' = TRUE
  /\ rpc' = "syscall_recheck"
  /\ UNCHANGED <<sleeping, wakeupPending, ring, packets, spc, ppc, sent, enqueued,
                 room, wqPending, batch, wqCompleted, startFd, tpc, usrPending,
                 submitted, handled>>
  /\ UNCHANGED <<timerVars, nwVars>>

(* syscall_pollfn::try_enter_interrupt_mode(), second half: poll() runs  *)
(* complete(); if it retired items the poller clears _main_thread_idle   *)
(* and refuses, and sleep() unwinds smp_pollfn, which clears _sleeping.  *)
(* Otherwise the remaining pollers accept and epoll_pwait() is entered.   *)
SyscallRecheck ==
  /\ rpc = "syscall_recheck"
  /\ IF wqCompleted > 0
     THEN /\ complete
          /\ idle' = FALSE
          /\ sleeping' = FALSE
          /\ rpc' = "loop"
     ELSE /\ rpc' = "enter_lowres"
          /\ UNCHANGED <<wqCompleted, room, handled, idle, sleeping>>
  /\ UNCHANGED <<wakeupPending, ring, packets, spc, ppc, sent, enqueued,
                 wqPending, batch, startFd, tpc, usrPending, submitted,
                 timerVars, nwVars>>

(* Variant of add_steady_timer() that lowers _next but never calls       *)
(* enable_timer().                                                        *)
add_steady_timer_no_enable(e) ==
  IF e < steadyNext
  THEN steadyNext' = e /\ UNCHANGED alarmAt
  ELSE UNCHANGED <<steadyNext, alarmAt>>

(* reactor::add_timer() for a steady timer: queue the timer and, when    *)
(* insert() lowered _next, enable_timer() sets the kernel timer to it.    *)
add_steady_timer(e) ==
  IF e < steadyNext
  THEN steadyNext' = e /\ alarmAt' = e
  ELSE UNCHANGED <<steadyNext, alarmAt>>

(* Variant of EnterLowres that accepts a future deadline without arming   *)
(* _nearest_wakeup.                                                       *)
EnterLowresNoArm ==
  /\ rpc = "enter_lowres"
  /\ CASE nextTimeout = 0 ->
          rpc' = "wait" /\ UNCHANGED <<sleeping, idle, nwVars>>
       [] nextTimeout <= now ->
          rpc' = "loop" /\ sleeping' = FALSE /\ idle' = FALSE /\ UNCHANGED nwVars
       [] OTHER ->
          rpc' = "wait" /\ UNCHANGED <<sleeping, idle, nwVars>>
  /\ UNCHANGED <<wakeupPending, ring, packets, spc, ppc, sent, enqueued,
                 room, wqPending, batch, wqCompleted, startFd, tpc, usrPending,
                 submitted, handled, timerVars>>

(* lowres_timer_pollfn::try_enter_interrupt_mode(), the last poller that  *)
(* can refuse (the freelist poller before it always accepts).  With no    *)
(* lowres deadline it accepts; with one that is not in the future it     *)
(* refuses, and sleep() unwinds syscall_pollfn and smp_pollfn; otherwise  *)
(* it arms _nearest_wakeup for next - now, sets _armed, and accepts, and   *)
(* epoll_pwait() is entered.                                               *)
EnterLowres ==
  /\ rpc = "enter_lowres"
  /\ CASE nextTimeout = 0 ->
          rpc' = "wait" /\ UNCHANGED <<sleeping, idle, nwVars>>
       [] nextTimeout <= now ->
          rpc' = "loop" /\ sleeping' = FALSE /\ idle' = FALSE /\ UNCHANGED nwVars
       [] OTHER ->
          /\ rpc' = "wait"
          /\ nwArmed' = TRUE
          /\ nwExpiry' = nextTimeout
          /\ add_steady_timer(nextTimeout)
          /\ UNCHANGED <<sleeping, idle>>
  /\ UNCHANGED <<wakeupPending, ring, packets, spc, ppc, sent, enqueued,
                 room, wqPending, batch, wqCompleted, startFd, tpc, usrPending,
                 submitted, handled, timerVars>>

(* Leaving epoll_pwait(), every poller exits interrupt mode: smp_pollfn   *)
(* clears _sleeping, syscall_pollfn _main_thread_idle, and                *)
(* lowres_timer_pollfn cancels _nearest_wakeup if _armed                  *)
(* (reactor::del_timer() removes it from _timers, leaving _next and the   *)
(* kernel timer as they are).                                             *)
exit_interrupt_mode ==
  /\ sleeping' = FALSE
  /\ idle' = FALSE
  /\ nwArmed' = FALSE
  /\ rpc' = "loop"
  /\ UNCHANGED <<nwExpiry, steadyNext, alarmAt>>

(* epoll_pwait() is interrupted by a pending signal (the alarm signal of *)
(* wakeup() or the worker's SIGUSR1); then every poller exits interrupt  *)
(* mode: smp_pollfn clears _sleeping, syscall_pollfn _main_thread_idle.  *)
(* The SIGUSR1 handler itself runs at the next poll.                      *)
WakeBySignal ==
  /\ rpc = "wait"
  /\ wakeupPending \/ usrPending
  /\ exit_interrupt_mode
  /\ UNCHANGED <<wakeupPending, ring, packets, spc, ppc, sent, enqueued, room,
                 wqPending, batch, wqCompleted, startFd, tpc, usrPending,
                 submitted, handled, timerVars>>

(* epoll_pwait() returns because a timer (the lowres poller's            *)
(* _nearest_wakeup, the load timer) or a file descriptor fired.          *)
WakeByEvent ==
  /\ rpc = "wait"
  /\ exit_interrupt_mode
  /\ UNCHANGED <<wakeupPending, ring, packets, spc, ppc, sent, enqueued, room,
                 wqPending, batch, wqCompleted, startFd, tpc, usrPending,
                 submitted, handled, timerVars>>

(* The kernel timer reaches its deadline and sends the alarm signal.      *)
AlarmFire ==
  /\ alarmAt # 0
  /\ now >= alarmAt
  /\ alarmAt' = 0
  /\ wakeupPending' = TRUE
  /\ UNCHANGED <<rpc, sleeping, ring, packets, spc, ppc, sent, enqueued,
                 sysVars, timerVars, nwArmed, nwExpiry, steadyNext>>

(* The lowres clock advances (the steady clock is the same counter).      *)
ClockTick ==
  /\ Tick
  /\ UNCHANGED <<reactorVars, sysVars, nwVars>>

-----------------------------------------------------------------------------
(* Remote threads *)

(* Variant of SenderPush that pushes into a full ring.                   *)
SenderPushUnbounded ==
  /\ SmpPoller
  /\ spc = "idle"
  /\ sent < MaxMsgs
  /\ ring' = ring + 1
  /\ sent' = sent + 1
  /\ spc' = "check"
  /\ UNCHANGED <<rpc, sleeping, wakeupPending, packets, ppc, enqueued, sysVars>>
  /\ UNCHANGED <<timerVars, nwVars>>

(* smp_message_queue::move_pending(): the other shard pushes an item     *)
(* into the request ring if it has room.                                  *)
SenderPush ==
  /\ SmpPoller
  /\ spc = "idle"
  /\ sent < MaxMsgs
  /\ ring < RingCapacity
  /\ ring' = ring + 1
  /\ sent' = sent + 1
  /\ spc' = "check"
  /\ UNCHANGED <<rpc, sleeping, wakeupPending, packets, ppc, enqueued, sysVars>>
  /\ UNCHANGED <<timerVars, nwVars>>

(* Variant of MaybeWakeup that clears _sleeping but never sends the      *)
(* signal.                                                                *)
MaybeWakeupNoSignal ==
  /\ IF sleeping
     THEN /\ sleeping' = FALSE
          /\ UNCHANGED wakeupPending
     ELSE UNCHANGED <<sleeping, wakeupPending>>

(* lf_queue::maybe_wakeup() and reactor::maybe_wakeup(): if the reactor  *)
(* is sleeping, clear the flag and send it the alarm signal.             *)
MaybeWakeup ==
  /\ IF sleeping
     THEN /\ sleeping' = FALSE
          /\ wakeupPending' = TRUE
     ELSE UNCHANGED <<sleeping, wakeupPending>>

SenderCheck ==
  /\ spc = "check"
  /\ MaybeWakeup
  /\ spc' = "idle"
  /\ UNCHANGED <<rpc, ring, packets, ppc, sent, enqueued, sysVars>>
  /\ UNCHANGED <<timerVars, nwVars>>

(* packet_queue::enqueue(): the packet is queued in the thread's         *)
(* ReaderWriterQueue.                                                     *)
ProducerEnqueue ==
  /\ ppc = "idle"
  /\ enqueued < MaxPackets
  /\ packets' = packets + 1
  /\ enqueued' = enqueued + 1
  /\ ppc' = "check"
  /\ UNCHANGED <<rpc, sleeping, wakeupPending, ring, spc, sent, sysVars>>
  /\ UNCHANGED <<timerVars, nwVars>>

(* packet_queue::enqueue(), after a successful enqueue: maybe_wakeup(). *)
ProducerCheck ==
  /\ ppc = "check"
  /\ MaybeWakeup
  /\ ppc' = "idle"
  /\ UNCHANGED <<rpc, ring, packets, spc, sent, enqueued, sysVars>>
  /\ UNCHANGED <<timerVars, nwVars>>

(* thread_pool::work(), the worker's loop: read() on _start_eventfd      *)
(* blocks until the count is nonzero and resets it; then _pending is     *)
(* drained into tmp_buf by consume_all().  The pool is never stopped in  *)
(* the model (~thread_pool runs only at shutdown).                       *)
WorkerRead ==
  /\ tpc = "read"
  /\ startFd
  /\ startFd' = FALSE
  /\ batch' = wqPending
  /\ wqPending' = 0
  /\ tpc' = "process"
  /\ UNCHANGED <<rpc, sleeping, wakeupPending, ring, packets, spc, ppc, sent,
                 enqueued, room, wqCompleted, idle, usrPending, submitted, handled>>
  /\ UNCHANGED <<timerVars, nwVars>>

(* The worker processes the next item of tmp_buf and pushes it to        *)
(* _completed; after the last one it goes on to check _main_thread_idle. *)
WorkerProcess ==
  /\ tpc = "process"
  /\ IF batch > 0
     THEN /\ batch' = batch - 1
          /\ wqCompleted' = wqCompleted + 1
          /\ UNCHANGED tpc
     ELSE /\ tpc' = "notify"
          /\ UNCHANGED <<batch, wqCompleted>>
  /\ UNCHANGED <<rpc, sleeping, wakeupPending, ring, packets, spc, ppc, sent,
                 enqueued, room, wqPending, startFd, idle, usrPending, submitted,
                 handled>>
  /\ UNCHANGED <<timerVars, nwVars>>

(* Variant of WorkerNotify whose load of _main_thread_idle may see a     *)
(* stale FALSE, as a relaxed load without the barrier could.             *)
WorkerNotifyRelaxed ==
  /\ tpc = "notify"
  /\ usrPending' \in {usrPending, usrPending \/ idle}
  /\ tpc' = "read"
  /\ UNCHANGED <<rpc, sleeping, wakeupPending, ring, packets, spc, ppc, sent,
                 enqueued, room, wqPending, batch, wqCompleted, startFd, idle,
                 submitted, handled>>
  /\ UNCHANGED <<timerVars, nwVars>>

(* The worker loads _main_thread_idle (seq_cst) and, if the reactor is   *)
(* idle, sends it SIGUSR1 with pthread_kill().                            *)
WorkerNotify ==
  /\ tpc = "notify"
  /\ usrPending' = (usrPending \/ idle)
  /\ tpc' = "read"
  /\ UNCHANGED <<rpc, sleeping, wakeupPending, ring, packets, spc, ppc, sent,
                 enqueued, room, wqPending, batch, wqCompleted, startFd, idle,
                 submitted, handled>>
  /\ UNCHANGED <<timerVars, nwVars>>

Next ==
  \/ Loop \/ SubmitPush \/ SubmitSignal
  \/ EnterSignal \/ EnterSmp \/ SmpRecheck \/ EnterSyscall \/ SyscallRecheck
  \/ EnterLowres \/ WakeBySignal \/ WakeByEvent \/ AlarmFire
  \/ TimersStep \/ TimersEnd \/ ArmTimer \/ CancelTimer \/ ClockTick
  \/ SenderPush \/ SenderCheck \/ ProducerEnqueue \/ ProducerCheck
  \/ WorkerRead \/ WorkerProcess \/ WorkerNotify

(* The reactor thread runs whenever it is not blocked in epoll_pwait(),  *)
(* a remote thread that has pushed goes on to maybe_wakeup(), and the    *)
(* worker thread runs whenever its read() has a count to return, the      *)
(* clock advances, and an armed kernel timer fires once its deadline has  *)
(* passed.  No fairness is assumed for fd events: the protocol has to     *)
(* wake the reactor by itself.  Submitting work and arming or cancelling *)
(* timers are choices of the application and are not forced.            *)
Fairness ==
  /\ WF_vars(Loop) /\ WF_vars(SubmitSignal) /\ WF_vars(EnterSignal)
  /\ WF_vars(EnterSmp) /\ WF_vars(SmpRecheck) /\ WF_vars(EnterSyscall)
  /\ WF_vars(SyscallRecheck) /\ WF_vars(EnterLowres) /\ WF_vars(WakeBySignal)
  /\ WF_vars(TimersStep) /\ WF_vars(TimersEnd) /\ WF_vars(AlarmFire)
  /\ WF_vars(ClockTick)
  /\ WF_vars(SenderCheck) /\ WF_vars(ProducerCheck)
  /\ WF_vars(WorkerRead) /\ WF_vars(WorkerProcess) /\ WF_vars(WorkerNotify)

Spec == Init /\ [][Next]_vars /\ Fairness

-----------------------------------------------------------------------------
TypeOK ==
  /\ rpc \in {"loop", "submit", "enter_signal", "enter_smp", "smp_recheck",
             "enter_syscall", "syscall_recheck", "enter_lowres", "wait",
             "timers"}
  /\ sleeping \in BOOLEAN
  /\ wakeupPending \in BOOLEAN
  /\ ring \in 0..RingCapacity
  /\ packets \in 0..MaxPackets
  /\ spc \in {"idle", "check"} /\ ppc \in {"idle", "check"}
  /\ sent \in 0..MaxMsgs /\ enqueued \in 0..MaxPackets
  /\ room \in 0..QueueLength
  /\ {wqPending, batch, wqCompleted} \subseteq 0..QueueLength
  /\ startFd \in BOOLEAN /\ idle \in BOOLEAN /\ usrPending \in BOOLEAN
  /\ tpc \in {"read", "process", "notify"}
  /\ submitted \in 0..MaxSyscalls /\ handled \in 0..MaxSyscalls
  /\ TimersTypeOK
  /\ nwArmed \in BOOLEAN
  /\ nwExpiry \in 0..Horizon
  /\ steadyNext \in 1..Never
  /\ alarmAt \in 0..Horizon

(* The reactor never blocks in epoll_pwait() while smp work items wait in *)
(* its ring unless a wakeup signal is pending or the sender, yet to run   *)
(* maybe_wakeup(), will see _sleeping set and send one.                   *)
SmpWakeupNotLost ==
  (rpc = "wait" /\ ring > 0) => (wakeupPending \/ (spc = "check" /\ sleeping))

(* The same for packets enqueued through channel::put().                  *)
PacketWakeupNotLost ==
  (rpc = "wait" /\ packets > 0) => (wakeupPending \/ (ppc = "check" /\ sleeping))

(* Every smp work item pushed to the reactor is eventually polled,        *)
(* without relying on a timer to end the wait.                            *)
SmpItemsPolled == (ring > 0) ~> (ring = 0)

(* _queue_has_room bounds the work items between submit_item() and       *)
(* complete(), so the lock-free rings and the worker's and complete()'s  *)
(* tmp_buf arrays of queue_length entries never overflow: every unit is  *)
(* either free or held by exactly one item in flight.                     *)
RoomConserved ==
  /\ room + wqPending + batch + wqCompleted = QueueLength
  /\ submitted - handled = wqPending + batch + wqCompleted

(* The reactor never blocks in epoll_pwait() with finished work items in *)
(* _completed unless SIGUSR1 is pending or the worker, yet to load       *)
(* _main_thread_idle, will find it set.                                   *)
SyscallWakeupNotLost ==
  (rpc = "wait" /\ wqCompleted > 0)
    => (usrPending \/ (tpc \in {"process", "notify"} /\ idle))

(* Every work item handed to the syscall thread pool is eventually       *)
(* completed on the reactor, without relying on a timer to end the wait. *)
SyscallsComplete ==
  \A k \in 1..MaxSyscalls : (submitted >= k) ~> (handled >= k)

(* Outside complete_timers(), the cached _lowres_next_timeout is set and  *)
(* never later than the earliest queued lowres timer, whatever tasks and *)
(* callbacks arm and cancel: the stale _next that remove() leaves behind   *)
(* and the periodic re-add that bypasses add_timer() must never make the  *)
(* poller miss, or sleep through, a due timer.  (It holds because         *)
(* load_timer keeps the set from ever being empty when enable_fn runs.)   *)
NextTimeoutNotLate ==
  (rpc # "timers" /\ inSet # {})
    => /\ nextTimeout # 0
       /\ nextTimeout <= EarliestIn(Ts, inSet)

(* The reactor never blocks in epoll_pwait() while a lowres timer is      *)
(* queued unless the alarm signal is pending or the kernel timer will    *)
(* fire no later than the earliest queued timer: the chain               *)
(* _lowres_next_timeout -> _nearest_wakeup -> _timers' _next ->          *)
(* timer_settime() must survive cancellations that leave _next stale and *)
(* alarms that fire while the reactor is awake.                          *)
TimerWakeupNotLost ==
  (rpc = "wait" /\ inSet # {})
    => \/ wakeupPending
       \/ alarmAt # 0 /\ alarmAt <= EarliestIn(Ts, inSet)

=============================================================================

---------------------------- MODULE StallDetector ----------------------------
(***************************************************************************)
(* The stall detector of one shard (reactor.cc): the task-quota timer     *)
(* thread task_quota_timer_thread_fn() with its block_notifier_rate_limiter, *)
(* and the reactor-side steps it observes in reactor::run(): the          *)
(* increment of _polls at each loop iteration, and the idle sleep that    *)
(* disarms the task-quota timerfd, sleeps, adds the ticks it slept to     *)
(* _stall_detector_missed_ticks and re-arms the timer.                    *)
(*                                                                         *)
(* Time is counted in task quotas.  While the timerfd is armed every      *)
(* quota is one Tick of the timer thread; while the reactor sleeps the    *)
(* timer is disarmed and time passes by Doze.  The timer thread runs      *)
(* SCHED_FIFO on the reactor's core, so one iteration of its loop is one  *)
(* step.  Only the equality of _polls with last_polls_seen is ever read,  *)
(* so the pair is kept as the Boolean progress.  reactor::_tasks_processed *)
(* is never incremented in this tree (run_tasks() counts per task queue), *)
(* so its comparison with last_tasks_processed_seen always holds and is   *)
(* left out.  uint64_t and unsigned keep their wrap-around, with widths   *)
(* WordBits and UBits.                                                     *)
(***************************************************************************)
EXTENDS Integers

CONSTANTS
  Threshold,        \* _tasks_processed_report_threshold
  MaxReports,       \* _stall_detector_reports_per_minute
  TicksPerMinute,   \* unsigned(60s / _task_quota)
  WordBits,         \* width of uint64_t
  UBits,            \* width of unsigned
  MaxTime           \* bound on the quotas of time explored

ASSUME /\ UBits \in Nat \ {0} /\ WordBits >= UBits
       /\ Threshold \in 0..(2 ^ UBits - 1)
       /\ TicksPerMinute \in 1..(2 ^ UBits - 1)

Word == 2 ^ WordBits
UWord == 2 ^ UBits

VARIABLES
  now,              \* time, in task quotas
  rpc,              \* the reactor: "tasks" (in run_some_tasks), "poll", "sleep"
  armed,            \* the task-quota timerfd is armed
  startSleep,       \* run()'s start_sleep
  missed,           \* _stall_detector_missed_ticks
  progress,         \* _polls # last_polls_seen
  tpc,              \* the timer thread: "first" (before its loop) or "loop"
  reportAt,         \* the timer thread's report_at
  stalled,          \* _tasks_processed_stalled
  savedMissed,      \* saved_missed_ticks
  reported,         \* rate_limit._reported
  rlTicks,          \* rate_limit._ticks
  warnings,         \* the "Heavy task is running" lines printed
  opened,           \* when the rate limiter's current window opened
  taskTicks         \* ticks since the reactor last entered run_some_tasks

vars == <<now, rpc, armed, startSleep, missed, progress, tpc, reportAt,
          stalled, savedMissed, reported, rlTicks, warnings, opened, taskTicks>>

-----------------------------------------------------------------------------
\* block_notifier_rate_limiter::tick(ticks): count ticks while a report is
\* outstanding and start a new window once a minute of them has passed.
rl_tick(rep, tk, ticks) ==
  IF rep = 0 THEN <<rep, tk>>
  ELSE LET sum == (tk + ticks) % UWord
       IN  IF sum >= TicksPerMinute THEN <<0, 0>> ELSE <<rep, sum>>

\* The argument the loop passes to tick(): std::max(uint64_t(1),
\* missed_ticks - saved_missed_ticks), narrowed to unsigned.
tick_arg == LET d == (missed - savedMissed) % Word
            IN  (IF d > 1 THEN d ELSE 1) % UWord

\* The value run() adds to _stall_detector_missed_ticks after sleep():
\* uint64_t((start_sleep - idle_end) / _task_quota).  The duration is
\* negative, the division truncates towards zero, and the cast wraps.
slept_ticks(start, end) == (start - end) % Word

-----------------------------------------------------------------------------
Init ==
  /\ now = 0
  /\ rpc = "tasks"
  /\ armed = TRUE
  /\ startSleep = 0
  /\ missed = 0
  /\ progress = FALSE
  /\ tpc = "first"
  /\ reportAt = Threshold
  /\ stalled = 0
  /\ savedMissed = 0
  /\ reported = 0
  /\ rlTicks = 0
  /\ warnings = 0
  /\ opened = -TicksPerMinute
  /\ taskTicks = 0

\* run_some_tasks() returns: the running task ended or was preempted.
FinishTasks ==
  /\ rpc = "tasks"
  /\ rpc' = "poll"
  /\ UNCHANGED <<now, armed, startSleep, missed, progress, tpc, reportAt,
                 stalled, savedMissed, reported, rlTicks, warnings, opened,
                 taskTicks>>

\* Poll without disarming the task-quota timer before the reactor sleeps.
PollNoDisarm ==
  /\ rpc = "poll"
  /\ progress' = TRUE
  /\ \/ /\ rpc' = "tasks"
        /\ taskTicks' = 0
        /\ UNCHANGED <<armed, startSleep>>
     \/ /\ rpc' = "sleep"
        /\ startSleep' = now
        /\ UNCHANGED <<armed, taskTicks>>
  /\ UNCHANGED <<now, missed, tpc, reportAt, stalled, savedMissed, reported,
                 rlTicks, warnings, opened>>

\* The rest of one iteration of run()'s loop: increment _polls, then
\* check_for_work().  With work, or idle for less than _max_poll_time, the
\* loop goes round; idle long enough, it disarms the timer and sleeps.
Poll ==
  /\ rpc = "poll"
  /\ progress' = TRUE
  /\ \/ /\ rpc' = "tasks"
        /\ taskTicks' = 0
        /\ UNCHANGED <<armed, startSleep>>
     \/ /\ rpc' = "sleep"
        /\ armed' = FALSE
        /\ startSleep' = now
        /\ UNCHANGED taskTicks
  /\ UNCHANGED <<now, missed, tpc, reportAt, stalled, savedMissed, reported,
                 rlTicks, warnings, opened>>

\* Time passes while the reactor sleeps with the timer disarmed.
Doze ==
  /\ rpc = "sleep"
  /\ now < MaxTime
  /\ now' = now + 1
  /\ UNCHANGED <<rpc, armed, startSleep, missed, progress, tpc, reportAt,
                 stalled, savedMissed, reported, rlTicks, warnings, opened,
                 taskTicks>>

\* sleep() returns: add the ticks slept to _stall_detector_missed_ticks,
\* re-arm the timer, and go round the loop.
Wake ==
  /\ rpc = "sleep"
  /\ missed' = (missed + slept_ticks(startSleep, now)) % Word
  /\ armed' = TRUE
  /\ rpc' = "tasks"
  /\ taskTicks' = 0
  /\ UNCHANGED <<now, startSleep, progress, tpc, reportAt, stalled,
                 savedMissed, reported, rlTicks, warnings, opened>>

\* The timer thread's first read() of the timerfd, before its loop.
FirstTick ==
  /\ tpc = "first"
  /\ armed
  /\ now < MaxTime
  /\ now' = now + 1
  /\ tpc' = "loop"
  /\ taskTicks' = IF rpc = "tasks" THEN taskTicks + 1 ELSE taskTicks
  /\ UNCHANGED <<rpc, armed, startSleep, missed, progress, reportAt, stalled,
                 savedMissed, reported, rlTicks, warnings, opened>>

(***************************************************************************)
(* One iteration of the timer thread's loop, after read() returns: set    *)
(* the preemption flag (modelled in TaskScheduler), tick the rate limiter *)
(* by the ticks missed since the last iteration, and compare _polls with  *)
(* what it saw last.  Without progress, the stall counter grows, and when *)
(* its old value equals report_at, maybe_report() prints a warning if the *)
(* window has room and report_at doubles.  With progress the counter and *)
(* report_at are reset.                                                    *)
(***************************************************************************)
Tick ==
  /\ tpc = "loop"
  /\ armed
  /\ now < MaxTime
  /\ now' = now + 1
  /\ savedMissed' = missed
  /\ LET rl    == rl_tick(reported, rlTicks, tick_arg)
         rep   == rl[1]
         match == ~progress /\ stalled = reportAt
     IN  /\ rlTicks' = rl[2]
         /\ reported' = IF match THEN rep + 1 ELSE rep
         /\ warnings' = IF match /\ rep < MaxReports THEN warnings + 1 ELSE warnings
         /\ opened' = IF match /\ rep = 0 THEN now' ELSE opened
         /\ IF progress
            THEN /\ progress' = FALSE
                 /\ stalled' = 0
                 /\ reportAt' = Threshold
            ELSE /\ stalled' = stalled + 1
                 /\ reportAt' = IF match THEN (2 * reportAt) % UWord ELSE reportAt
                 /\ UNCHANGED progress
  /\ taskTicks' = IF rpc = "tasks" THEN taskTicks + 1 ELSE taskTicks
  /\ UNCHANGED <<rpc, armed, startSleep, missed, tpc>>

Next ==
  \/ FinishTasks \/ Poll \/ Doze \/ Wake
  \/ FirstTick \/ Tick

Spec == Init /\ [][Next]_vars

-----------------------------------------------------------------------------
TypeOK ==
  /\ now \in 0..MaxTime
  /\ rpc \in {"tasks", "poll", "sleep"}
  /\ armed \in BOOLEAN /\ progress \in BOOLEAN
  /\ tpc \in {"first", "loop"}
  /\ startSleep \in 0..MaxTime
  /\ missed \in 0..(Word - 1) /\ savedMissed \in 0..(Word - 1)
  /\ reportAt \in 0..(UWord - 1)
  /\ stalled \in 0..MaxTime
  /\ reported \in 0..MaxTime /\ rlTicks \in 0..(UWord - 1)
  /\ warnings \in 0..MaxTime
  /\ taskTicks \in 0..MaxTime

(***************************************************************************)
(* The stall counter measures how long the reactor has been inside one    *)
(* run_some_tasks(): after n quotas there it is n - 1 (the first tick     *)
(* sees the _polls increment that preceded the call), or n - 2 once, when *)
(* the timer thread's first read() consumed a tick without comparing.     *)
(* So a call that runs past Threshold + 2 quotas has been reported to     *)
(* maybe_report(), and a reactor that polls or sleeps, with its timer     *)
(* disarmed, is never counted as stalled.                                  *)
(***************************************************************************)
StallMeasured ==
  (rpc = "tasks" /\ taskTicks > 0) => stalled \in (taskTicks - 2)..(taskTicks - 1)

(***************************************************************************)
(* blocked-reactor-reports-per-minute is the "Maximum number of          *)
(* backtraces reported by stall detector per minute": the rate limiter    *)
(* counts a minute of ticks from the first report of a window, the ticks  *)
(* slept included through _stall_detector_missed_ticks, before it opens   *)
(* the next window.  So a window opens no sooner than a minute after the  *)
(* previous one opened.                                                    *)
(***************************************************************************)
MinuteWindow ==
  [][opened' # opened => opened' - opened >= TicksPerMinute]_vars

=============================================================================

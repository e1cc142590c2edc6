---------------------------- MODULE LowresTimers ----------------------------
(***************************************************************************)
(* The low-resolution timers of one shard (reactor.cc): the timer_set     *)
(* _lowres_timers, the list _expired_lowres_timers that complete_timers() *)
(* walks, and the cached deadline _lowres_next_timeout that the lowres     *)
(* poller compares with lowres_clock::now().                              *)
(*                                                                         *)
(* A timer_set keeps a deadline _next that insert() lowers when the new    *)
(* timer is earlier and returns true, that remove() leaves alone (so it    *)
(* may be stale, earlier than every queued timer), and that expire()      *)
(* recomputes.  add_timer() copies _next into _lowres_next_timeout only  *)
(* when insert() returned true; readd_periodic() re-queues through        *)
(* queue_timer(), which does not.  timer::arm/cancel, readd_periodic and  *)
(* the timer_set live in headers that are not part of this tree and are   *)
(* modelled from upstream's definitions.                                  *)
(*                                                                         *)
(* Time is the lowres clock, a counter advanced by Tick; 0 stands for      *)
(* lowres_clock::time_point(), "no timeout", so the clock starts at 1.    *)
(* The actions here are the reactor's steps that touch timers; the module *)
(* ReactorSleep composes them with the loop and the lowres poller.        *)
(***************************************************************************)
EXTENDS Naturals, Sequences, SequencesExt, FiniteSets

CONSTANTS
  Timers,           \* the lowres timers of the shard
  LoadTimer,        \* run()'s load_timer, one of Timers
  Period,           \* [Timers -> Nat]: 0 for a one-shot timer, else its period
  CallbackTimers,   \* user timers whose callback arms or cancels user timers
  Delays,           \* durations a task or a callback arms a timer for
  MaxTime           \* bound on lowres_clock::now()

VARIABLES
  now,              \* lowres_clock::now()
  expiry,           \* timer::_expiry of each timer
  armed,            \* timers whose _armed is set
  inSet,            \* timers queued in _lowres_timers
  expList,          \* _expired_lowres_timers, walked by complete_timers()
  setNext,          \* _lowres_timers.get_next_timeout() (the set's _next)
  nextTimeout       \* reactor::_lowres_next_timeout

timerVars == <<now, expiry, armed, inSet, expList, setNext, nextTimeout>>

\* The latest expiry a timer can get, and the timer_set's max_timestamp
\* above it, the _next of a set that holds nothing.
Horizon == MaxTime + Max(Delays \cup {Period[t] : t \in Timers})
Never == Horizon + 1

\* The timer state as one record, so that one handler can be written as
\* a composition of the code's helpers.
Ts == [expiry |-> expiry, armed |-> armed, inSet |-> inSet,
       expList |-> expList, setNext |-> setNext, nextTimeout |-> nextTimeout]

SetTs(ts) ==
  /\ expiry' = ts.expiry
  /\ armed' = ts.armed
  /\ inSet' = ts.inSet
  /\ expList' = ts.expList
  /\ setNext' = ts.setNext
  /\ nextTimeout' = ts.nextTimeout

EarliestIn(ts, S) == Min({ts.expiry[t] : t \in S})

\* timer_set::insert(): queue t; it lowers _next, and answers TRUE, only
\* when t expires before _next.
insert(ts, t) ==
  [ts EXCEPT !.inSet = @ \cup {t},
             !.setNext = IF ts.expiry[t] < @ THEN ts.expiry[t] ELSE @]

\* timer::arm_state(): _armed, _expiry and _queued are set.
arm_state(ts, t, e) == [ts EXCEPT !.armed = @ \cup {t}, !.expiry[t] = e]

\* A faulty add_timer() that ignores what queue_timer() answered.
add_timer_no_refresh(ts, t, e) == insert(arm_state(ts, t, e), t)

\* timer::arm() then reactor::add_timer(timer<lowres_clock>*): queue the
\* timer, and refresh _lowres_next_timeout when insert() lowered _next.
add_timer(ts, t, e) ==
  LET ts1 == arm_state(ts, t, e)
  IN  IF ts1.expiry[t] < ts1.setNext
      THEN [insert(ts1, t) EXCEPT !.nextTimeout = ts1.expiry[t]]
      ELSE insert(ts1, t)

\* timer::cancel() then reactor::del_timer(timer<lowres_clock>*): a timer
\* that is not armed is left alone; an armed one is erased from
\* _expired_lowres_timers when it is there, and otherwise removed from the
\* set, whose _next is not refreshed.
del_timer(ts, t) ==
  IF t \notin ts.armed THEN ts
  ELSE [ts EXCEPT !.armed = @ \ {t},
                  !.expList = SelectSeq(@, LAMBDA u : u # t),
                  !.inSet = @ \ {t}]

\* timer::readd_periodic(): arm_state() at now + period, and queue_timer(),
\* which does not touch _lowres_next_timeout.
readd_periodic(ts, t) == insert(arm_state(ts, t, now + Period[t]), t)

\* The timers application code can reach: load_timer is a local of
\* reactor::run(), armed there with arm_periodic() and cancelled only when
\* the loop stops.
UserTimers == Timers \ {LoadTimer}

\* What a timer's callback may leave behind: load_timer's callback only
\* updates the load average; one of CallbackTimers may cancel an armed user
\* timer or arm a disarmed one.
callback(ts, t) ==
  IF t \notin CallbackTimers THEN {ts}
  ELSE {ts} \cup {del_timer(ts, u) : u \in ts.armed \cap UserTimers}
            \cup {add_timer(ts, u, now + d) : u \in UserTimers \ ts.armed,
                                             d \in Delays}

(***************************************************************************)
(* reactor::do_check_lowres_timers() (the poller's pure_poll) and the     *)
(* guard of do_expire_lowres_timers(): a deadline is set and has passed.  *)
(***************************************************************************)
do_check_lowres_timers == nextTimeout # 0 /\ now > nextTimeout

(***************************************************************************)
(* The steps of do_expire_lowres_timers().  ExpireStart is the            *)
(* timer_set::expire(now) at the top of complete_timers(): every queued   *)
(* timer with expiry <= now moves to _expired_lowres_timers, in an order  *)
(* the bucket layout decides (any order here), and _next becomes the      *)
(* earliest remaining expiry.                                              *)
(***************************************************************************)
ExpireStart ==
  LET due  == {t \in inSet : expiry[t] <= now}
      rest == inSet \ due
  IN  /\ do_check_lowres_timers
      /\ expList' \in SetToSeqs(due)
      /\ inSet' = rest
      /\ setNext' = IF rest = {} THEN Never ELSE EarliestIn(Ts, rest)
      /\ UNCHANGED <<now, expiry, armed, nextTimeout>>

\* One turn of complete_timers()' loop: pop the first expired timer; when it
\* is armed, disarm it, re-add it if periodic, and run its callback.
ExpireStep ==
  /\ expList # <<>>
  /\ LET t   == Head(expList)
         ts0 == [Ts EXCEPT !.expList = Tail(@)]
     IN  IF t \in armed
         THEN LET ts1 == [ts0 EXCEPT !.armed = @ \ {t}]
                  ts2 == IF Period[t] > 0 THEN readd_periodic(ts1, t) ELSE ts1
              IN  \E ts \in callback(ts2, t) : SetTs(ts)
         ELSE SetTs(ts0)
  /\ UNCHANGED now

\* The enable_fn that ends complete_timers(): _lowres_next_timeout becomes
\* the set's deadline, or time_point() when the set is empty.
ExpireEnd ==
  /\ expList = <<>>
  /\ nextTimeout' = IF inSet # {} THEN setNext ELSE 0
  /\ UNCHANGED <<now, expiry, armed, inSet, expList, setNext>>

\* A task arms a disarmed user timer for d (timer::arm asserts !_armed).
TaskArm(t, d) ==
  /\ t \in UserTimers \ armed
  /\ SetTs(add_timer(Ts, t, now + d))
  /\ UNCHANGED now

\* A task cancels a user timer.
TaskCancel(t) ==
  /\ t \in armed \cap UserTimers
  /\ SetTs(del_timer(Ts, t))
  /\ UNCHANGED now

\* The lowres clock advances.
Tick ==
  /\ now < MaxTime
  /\ now' = now + 1
  /\ UNCHANGED <<expiry, armed, inSet, expList, setNext, nextTimeout>>

(***************************************************************************)
(* reactor::run() arms load_timer with arm_periodic() before the loop     *)
(* starts; add_timer() finds the set empty and sets _lowres_next_timeout. *)
(* User timers start disarmed.                                             *)
(***************************************************************************)
TimersInit ==
  /\ now = 1
  /\ expiry = [t \in Timers |-> IF t = LoadTimer THEN 1 + Period[t] ELSE 0]
  /\ armed = {LoadTimer}
  /\ inSet = {LoadTimer}
  /\ expList = <<>>
  /\ setNext = 1 + Period[LoadTimer]
  /\ nextTimeout = 1 + Period[LoadTimer]

TimersTypeOK ==
  /\ now \in 1..MaxTime
  /\ expiry \in [Timers -> 0..Horizon]
  /\ armed \subseteq Timers
  /\ inSet \subseteq armed
  /\ expList \in Seq(Timers)
  /\ setNext \in 1..Never
  /\ nextTimeout \in 0..Horizon

(***************************************************************************)
(* Every timer armed for an expiry the clock can pass fires or is          *)
(* cancelled: complete_timers() reaches it.                                *)
(***************************************************************************)
TimersFire ==
  \A t \in Timers, e \in 1..(MaxTime - 1) :
     (t \in armed /\ expiry[t] = e) ~> ~(t \in armed /\ expiry[t] = e)

=============================================================================

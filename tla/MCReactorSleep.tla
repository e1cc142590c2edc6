--------------------------- MODULE MCReactorSleep ---------------------------
(***************************************************************************)
(* Model-checking instances of ReactorSleep.                               *)
(*                                                                         *)
(* The remote-thread run: two smp work items through a ring of one, so    *)
(* the sender also finds the ring full; one packet from a foreign thread; *)
(* two blocking calls through a syscall queue of one, so submit_item()    *)
(* also waits for _queue_has_room; only load_timer among the lowres       *)
(* timers, which fires and is re-added while the clock runs to three.     *)
(*                                                                         *)
(* The timer run: no remote work; load_timer (period one) and two user    *)
(* timers armed for zero or one tick, so a user timer may be earlier than  *)
(* load_timer, later than the steady set's stale _next, or armed and      *)
(* cancelled by the first one's callback while complete_timers() walks    *)
(* the expired list.                                                       *)
(***************************************************************************)
EXTENDS ReactorSleep, TLC

MCMaxMsgs == 2
MCRingCapacity == 1
MCMaxPackets == 1
MCQueueLength == 1
MCMaxSyscalls == 2
MCNone == 0
MCLoadTimer == "load"
MCLoadOnly == {"load"}
MCTimers == {"load", "u1", "u2"}
MCPeriod == ("load" :> 1) @@ ("u1" :> 0) @@ ("u2" :> 0)
MCCallbackTimers == {"u1", "u2"}
MCNoCallbacks == {}
MCDelays == {0, 1, 2}
MCMaxTime == 3
MCMaxTimeLong == 5

\* The expiry of a disarmed timer is never read again before arm_state()
\* overwrites it, so states that differ only there are the same state.
MCView ==
  <<reactorVars, sysVars, now, armed, inSet, expList, setNext, nextTimeout,
    [t \in Timers |-> IF t \in armed THEN expiry[t] ELSE 0],
    nwArmed, IF nwArmed THEN nwExpiry ELSE 0, steadyNext, alarmAt>>

=============================================================================

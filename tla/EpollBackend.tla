---------------------------- MODULE EpollBackend ----------------------------
(***************************************************************************)
(* reactor_backend_epoll (reactor.cc): the readiness futures of pollable  *)
(* file descriptors.  Each pollable_fd_state keeps events_requested (a    *)
(* future is waiting for the event) and events_epoll (the event is in the *)
(* fd's epoll interest mask); epoll_ctl() keeps the kernel's registration *)
(* in step with events_epoll.  readable()/writeable() register interest   *)
(* and return a future, abort_reader()/abort_writer() fail it,            *)
(* wait_and_process() completes the futures of the events epoll_pwait()   *)
(* reports and drops the interest in events nobody waits for, forget()    *)
(* removes the fd before it is closed.                                     *)
(*                                                                         *)
(* An event mask is a set of events.  events_known is cleared but never   *)
(* set under src/, so the early return of get_epoll_future() on a known   *)
(* event is never taken and the mask is left out.  The kernel side is the *)
(* ghost state: whether the fd is registered, its mask, and the events    *)
(* the fd is ready for (epoll is level-triggered).  A caller waits on at  *)
(* most one future per event: it calls readable() again only after the    *)
(* previous future resolved.                                               *)
(***************************************************************************)
EXTENDS FiniteSets

CONSTANTS
  Fds           \* the pollable file descriptors

Events == {"EPOLLIN", "EPOLLOUT"}

VARIABLES
  requested,    \* events_requested of each fd
  epollMask,    \* events_epoll of each fd
  kernReg,      \* the fd is in the epoll set (ghost)
  kernMask,     \* the mask the kernel holds for the fd (ghost)
  readiness,    \* the events the fd is ready for (ghost)
  fut,          \* the last future of each fd and event: "none", "pending",
                \* "ready" or "failed"
  open,         \* the fd has not been forgotten
  ctlFailed     \* an epoll_ctl() whose result is asserted returned an error

vars == <<requested, epollMask, kernReg, kernMask, readiness, fut, open, ctlFailed>>

-----------------------------------------------------------------------------
\* epoll_ctl(op, fd, mask) on the kernel's registration of fd: ADD fails
\* with EEXIST on a registered fd, MOD and DEL with ENOENT on one that is
\* not.  The result: success, the new registration and the new mask.
epoll_ctl(op, f, mask) ==
  CASE op = "ADD" -> [ok |-> ~kernReg[f], reg |-> TRUE, mask |-> mask]
    [] op = "MOD" -> [ok |-> kernReg[f], reg |-> kernReg[f],
                      mask |-> IF kernReg[f] THEN mask ELSE kernMask[f]]
    [] op = "DEL" -> [ok |-> kernReg[f], reg |-> FALSE, mask |-> {}]

\* Apply an epoll_ctl() to the ghost kernel state; assertOk says whether
\* the code asserts r == 0.
ApplyCtl(op, f, mask, assertOk) ==
  LET r == epoll_ctl(op, f, mask)
  IN  /\ kernReg' = [kernReg EXCEPT ![f] = r.reg]
      /\ kernMask' = [kernMask EXCEPT ![f] = r.mask]
      /\ ctlFailed' = (ctlFailed \/ (assertOk /\ ~r.ok))

\* A variant of get_epoll_future() that picks ADD or MOD after adding the
\* event to events_epoll.
get_epoll_future_late_ctl(f, e) ==
  /\ requested' = [requested EXCEPT ![f] = @ \cup {e}]
  /\ IF e \notin epollMask[f]
     THEN /\ epollMask' = [epollMask EXCEPT ![f] = @ \cup {e}]
          /\ ApplyCtl(IF epollMask'[f] # {} THEN "MOD" ELSE "ADD",
                      f, epollMask'[f], TRUE)
     ELSE UNCHANGED <<epollMask, kernReg, kernMask, ctlFailed>>
  /\ fut' = [fut EXCEPT ![f][e] = "pending"]

\* get_epoll_future(): ask for the event, add it to the fd's interest with
\* EPOLL_CTL_ADD (no interest yet) or EPOLL_CTL_MOD, and return a new
\* promise's future.
get_epoll_future(f, e) ==
  /\ requested' = [requested EXCEPT ![f] = @ \cup {e}]
  /\ IF e \notin epollMask[f]
     THEN /\ epollMask' = [epollMask EXCEPT ![f] = @ \cup {e}]
          /\ ApplyCtl(IF epollMask[f] # {} THEN "MOD" ELSE "ADD",
                      f, epollMask'[f], TRUE)
     ELSE UNCHANGED <<epollMask, kernReg, kernMask, ctlFailed>>
  /\ fut' = [fut EXCEPT ![f][e] = "pending"]

\* complete_epoll_event(): a reported event somebody asked for is no
\* longer requested and its promise is fulfilled.
complete_epoll_event(f, evs, e) == e \in evs \cap requested[f]

-----------------------------------------------------------------------------
Init ==
  /\ requested = [f \in Fds |-> {}]
  /\ epollMask = [f \in Fds |-> {}]
  /\ kernReg = [f \in Fds |-> FALSE]
  /\ kernMask = [f \in Fds |-> {}]
  /\ readiness = [f \in Fds |-> {}]
  /\ fut = [f \in Fds |-> [e \in Events |-> "none"]]
  /\ open = [f \in Fds |-> TRUE]
  /\ ctlFailed = FALSE

\* readable() / writeable(), by a caller with no unresolved future for e.
Await(f, e) ==
  /\ open[f] /\ fut[f][e] # "pending"
  /\ get_epoll_future(f, e)
  /\ UNCHANGED <<readiness, open>>

\* abort_reader() / abort_writer() (abort_fd()): drop the interest in the
\* event, fail a waiting future, forget that the event is known.
Abort(f, e) ==
  /\ open[f]
  /\ IF e \in epollMask[f]
     THEN /\ epollMask' = [epollMask EXCEPT ![f] = @ \ {e}]
          /\ ApplyCtl(IF epollMask'[f] # {} THEN "MOD" ELSE "DEL",
                      f, epollMask'[f], TRUE)
     ELSE UNCHANGED <<epollMask, kernReg, kernMask, ctlFailed>>
  /\ IF e \in requested[f]
     THEN /\ requested' = [requested EXCEPT ![f] = @ \ {e}]
          /\ fut' = [fut EXCEPT ![f][e] = "failed"]
     ELSE UNCHANGED <<requested, fut>>
  /\ UNCHANGED <<readiness, open>>

\* forget(), when the pollable fd goes away with no future waiting: an fd
\* with interest is deleted from the epoll set, the result not checked.
Forget(f) ==
  /\ open[f] /\ \A e \in Events : fut[f][e] # "pending"
  /\ open' = [open EXCEPT ![f] = FALSE]
  /\ IF epollMask[f] # {}
     THEN ApplyCtl("DEL", f, {}, FALSE)
     ELSE UNCHANGED <<kernReg, kernMask, ctlFailed>>
  /\ UNCHANGED <<requested, epollMask, readiness, fut>>

\* The peer makes the fd readable or writable.
Arrive(f, e) ==
  /\ open[f] /\ e \notin readiness[f]
  /\ readiness' = [readiness EXCEPT ![f] = @ \cup {e}]
  /\ UNCHANGED <<requested, epollMask, kernReg, kernMask, fut, open, ctlFailed>>

\* A caller whose future resolved reads or writes until EAGAIN.
Drain(f, e) ==
  /\ open[f] /\ fut[f][e] = "ready" /\ e \in readiness[f]
  /\ readiness' = [readiness EXCEPT ![f] = @ \ {e}]
  /\ UNCHANGED <<requested, epollMask, kernReg, kernMask, fut, open, ctlFailed>>

\* A variant of wait_and_process() that deletes every fd with an event
\* nobody asked for from the epoll set, whatever interest it keeps.
WaitAndProcessDelete ==
  LET evs(f)    == readiness[f] \cap kernMask[f]
      remove(f) == evs(f) \ requested[f]
      touched   == {f \in Fds : kernReg[f] /\ remove(f) # {}}
  IN  /\ \E f \in Fds : kernReg[f] /\ evs(f) # {}
      /\ requested' = [f \in Fds |->
                         {e \in requested[f] : ~complete_epoll_event(f, evs(f), e)}]
      /\ fut' = [f \in Fds |-> [e \in Events |->
                   IF complete_epoll_event(f, evs(f), e) THEN "ready" ELSE fut[f][e]]]
      /\ epollMask' = [f \in Fds |->
                         IF f \in touched THEN epollMask[f] \ remove(f) ELSE epollMask[f]]
      /\ kernReg' = [f \in Fds |-> IF f \in touched THEN FALSE ELSE kernReg[f]]
      /\ kernMask' = [f \in Fds |-> IF f \in touched THEN {} ELSE kernMask[f]]
      /\ UNCHANGED <<readiness, open, ctlFailed>>

(***************************************************************************)
(* wait_and_process(): epoll_pwait() reports, for every registered fd,   *)
(* the ready events of its kernel mask.  For each reported fd the events  *)
(* nobody requested are computed first, then the requested ones complete, *)
(* then the unrequested ones leave events_epoll with EPOLL_CTL_MOD or     *)
(* EPOLL_CTL_DEL, the result not checked.  The fds of one call are        *)
(* distinct and handled one after the other in one step.                   *)
(***************************************************************************)
WaitAndProcess ==
  LET evs(f)    == readiness[f] \cap kernMask[f]
      remove(f) == evs(f) \ requested[f]
      mask(f)   == epollMask[f] \ remove(f)
      touched   == {f \in Fds : kernReg[f] /\ remove(f) # {}}
  IN  /\ \E f \in Fds : kernReg[f] /\ evs(f) # {}
      /\ requested' = [f \in Fds |->
                         {e \in requested[f] : ~complete_epoll_event(f, evs(f), e)}]
      /\ fut' = [f \in Fds |-> [e \in Events |->
                   IF complete_epoll_event(f, evs(f), e) THEN "ready" ELSE fut[f][e]]]
      /\ epollMask' = [f \in Fds |-> IF f \in touched THEN mask(f) ELSE epollMask[f]]
      /\ kernReg' = [f \in Fds |-> IF f \in touched THEN mask(f) # {} ELSE kernReg[f]]
      /\ kernMask' = [f \in Fds |-> IF f \in touched THEN mask(f) ELSE kernMask[f]]
      /\ UNCHANGED <<readiness, open, ctlFailed>>

Next ==
  \/ \E f \in Fds, e \in Events :
       Await(f, e) \/ Abort(f, e) \/ Arrive(f, e) \/ Drain(f, e)
  \/ \E f \in Fds : Forget(f)
  \/ WaitAndProcess

(* The epoll poller runs wait_and_process() on every loop iteration, and  *)
(* the reactor sleeps in it when idle.  Callers and peers are not fair.   *)
Fairness == WF_vars(WaitAndProcess)

Spec == Init /\ [][Next]_vars /\ Fairness

-----------------------------------------------------------------------------
TypeOK ==
  /\ requested \in [Fds -> SUBSET Events]
  /\ epollMask \in [Fds -> SUBSET Events]
  /\ kernReg \in [Fds -> BOOLEAN] /\ kernMask \in [Fds -> SUBSET Events]
  /\ readiness \in [Fds -> SUBSET Events]
  /\ fut \in [Fds -> [Events -> {"none", "pending", "ready", "failed"}]]
  /\ open \in [Fds -> BOOLEAN] /\ ctlFailed \in BOOLEAN

(***************************************************************************)
(* The three places that call epoll_ctl() (get_epoll_future(),          *)
(* abort_fd() and wait_and_process()) each choose ADD, MOD or DEL from    *)
(* events_epoll alone.  They stay right: no asserted epoll_ctl() fails,   *)
(* the kernel holds exactly events_epoll for every open fd, registered    *)
(* iff it is not empty, and every requested event is in it, so a waiting  *)
(* future can be woken.                                                    *)
(***************************************************************************)
InterestMirrored ==
  /\ ~ctlFailed
  /\ \A f \in Fds :
       open[f] => /\ kernMask[f] = epollMask[f]
                  /\ kernReg[f] = (epollMask[f] # {})
                  /\ requested[f] \subseteq epollMask[f]

(***************************************************************************)
(* A future returned by readable() or writeable() resolves once its fd is *)
(* ready for the event, unless it is aborted: wait_and_process() drops    *)
(* only interest nobody waits for, so the readiness is reported.           *)
(***************************************************************************)
ReadinessDelivered ==
  \A f \in Fds, e \in Events :
    (fut[f][e] = "pending" /\ e \in readiness[f]) ~> fut[f][e] # "pending"

=============================================================================

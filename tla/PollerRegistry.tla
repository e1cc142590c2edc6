--------------------------- MODULE PollerRegistry ---------------------------
(***************************************************************************)
(* The deferred registration of pollers (reactor.cc): a reactor::poller  *)
(* owns a pollfn.  Its construction (do_register()) does not touch        *)
(* reactor::_pollers, which poll_once() may be iterating, but queues a    *)
(* registration_task that appends the poller's pollfn when it runs.  Its  *)
(* destruction cancels a registration task that has not run, or else      *)
(* replaces the pollfn in _pollers by a dummy and queues a                 *)
(* deregistration_task that erases the dummy and frees it.  A poller can  *)
(* be moved (move constructor, move assignment), and the pending          *)
(* registration task is told its new owner.                                *)
(*                                                                         *)
(* Poller objects are the constants Pollers; a pollfn is named after the  *)
(* function it was created for, <<"fn", f>>, and the dummy that replaces  *)
(* it is <<"dummy", f>>.  A registration task is named after the pollfn   *)
(* it was created with.  Tasks run in the order they were added            *)
(* (add_task() onto the current queue), one per step.                      *)
(***************************************************************************)
EXTENDS Sequences, SequencesExt, FiniteSets

CONSTANTS
  Pollers,      \* the reactor::poller objects
  Fns,          \* the pollfns the pollers are created with
  NoPoller      \* a null poller* or registration_task*

ASSUME NoPoller \notin Pollers \cup Fns

VARIABLES
  pollers,      \* reactor::_pollers
  pollfn,       \* each poller's _pollfn: a pollfn, or NoPoller when empty
  regTask,      \* each poller's _registration_task
  life,         \* each poller object: "unborn", "live" or "dead"
  target,       \* each registration task's _p
  queued,       \* the tasks queued by add_task()
  freed,        \* the pollfns that have been deleted
  used          \* the Fns a poller has been created with

vars == <<pollers, pollfn, regTask, life, target, queued, freed, used>>

Fn(f) == <<"fn", f>>
Dummy(f) == <<"dummy", f>>

-----------------------------------------------------------------------------
Init ==
  /\ pollers = <<>>
  /\ pollfn = [p \in Pollers |-> NoPoller]
  /\ regTask = [p \in Pollers |-> NoPoller]
  /\ life = [p \in Pollers |-> "unborn"]
  /\ target = [f \in Fns |-> NoPoller]
  /\ queued = <<>>
  /\ freed = {}
  /\ used = {}

\* ~poller(): what the destructor does to a poller holding pollfn Fn(f)
\* and the reactor's state, as a pair of the new _pollers and task queue.
\* A poller whose registration has not run cancels it; a registered one
\* is replaced by a dummy whose deregistration is queued.
poller_dtor_effect(p) ==
  IF pollfn[p] = NoPoller THEN [pl |-> pollers, tq |-> queued, cancel |-> NoPoller]
  ELSE IF regTask[p] # NoPoller
  THEN [pl |-> pollers, tq |-> queued, cancel |-> regTask[p]]
  ELSE LET f == pollfn[p][2]
       IN  [pl |-> [i \in DOMAIN pollers |->
                      IF pollers[i] = pollfn[p] THEN Dummy(f) ELSE pollers[i]],
            tq |-> Append(queued, [kind |-> "dereg", fn |-> Dummy(f)]),
            cancel |-> NoPoller]

\* A poller is constructed with a new pollfn: do_register() queues a
\* registration task pointing at it and remembers the task.
Construct(p, f) ==
  /\ life[p] = "unborn" /\ f \notin used
  /\ life' = [life EXCEPT ![p] = "live"]
  /\ pollfn' = [pollfn EXCEPT ![p] = Fn(f)]
  /\ queued' = Append(queued, [kind |-> "reg", fn |-> f])
  /\ target' = [target EXCEPT ![f] = p]
  /\ regTask' = [regTask EXCEPT ![p] = f]
  /\ used' = used \cup {f}
  /\ UNCHANGED <<pollers, freed>>

\* The destructor as it would be without the check for a pending
\* registration: a poller is always replaced and deregistered.
DestroyNoCancel(p) ==
  /\ life[p] = "live"
  /\ life' = [life EXCEPT ![p] = "dead"]
  /\ IF pollfn[p] = NoPoller
     THEN UNCHANGED <<pollers, queued, freed>>
     ELSE /\ pollers' = [i \in DOMAIN pollers |->
                           IF pollers[i] = pollfn[p] THEN Dummy(pollfn[p][2])
                           ELSE pollers[i]]
          /\ queued' = Append(queued, [kind |-> "dereg", fn |-> Dummy(pollfn[p][2])])
          /\ freed' = freed \cup {pollfn[p]}
  /\ UNCHANGED <<pollfn, regTask, target, used>>

\* ~poller(), then the unique_ptr frees the poller's pollfn.
Destroy(p) ==
  /\ life[p] = "live"
  /\ LET d == poller_dtor_effect(p)
     IN  /\ pollers' = d.pl
         /\ queued' = d.tq
         /\ target' = IF d.cancel = NoPoller THEN target
                      ELSE [target EXCEPT ![d.cancel] = NoPoller]
  /\ life' = [life EXCEPT ![p] = "dead"]
  /\ freed' = IF pollfn[p] = NoPoller THEN freed ELSE freed \cup {pollfn[p]}
  /\ UNCHANGED <<pollfn, regTask, used>>

\* Move assignment whose move constructor does not tell the pending
\* registration task about its new owner.
MoveAssignNoRetarget(x, y) ==
  /\ x # y /\ life[x] = "live" /\ life[y] \in {"unborn", "live"}
  /\ LET d == IF life[y] = "live" THEN poller_dtor_effect(y)
              ELSE [pl |-> pollers, tq |-> queued, cancel |-> NoPoller]
     IN  /\ pollers' = d.pl
         /\ queued' = d.tq
         /\ target' = IF d.cancel = NoPoller THEN target
                      ELSE [target EXCEPT ![d.cancel] = NoPoller]
  /\ freed' = IF life[y] = "live" /\ pollfn[y] # NoPoller
              THEN freed \cup {pollfn[y]} ELSE freed
  /\ pollfn' = [pollfn EXCEPT ![y] = pollfn[x], ![x] = NoPoller]
  /\ regTask' = [regTask EXCEPT ![y] = regTask[x]]
  /\ life' = [life EXCEPT ![y] = "live"]
  /\ UNCHANGED used

(***************************************************************************)
(* Move assignment y = std::move(x) (a move construction when y is      *)
(* unborn): operator= runs ~poller() on y, then the move constructor      *)
(* takes x's pollfn and registration task and, when both are set, points  *)
(* the task at y.  x's _registration_task is copied, not cleared.          *)
(***************************************************************************)
MoveAssign(x, y) ==
  /\ x # y /\ life[x] = "live" /\ life[y] \in {"unborn", "live"}
  /\ LET d == IF life[y] = "live" THEN poller_dtor_effect(y)
              ELSE [pl |-> pollers, tq |-> queued, cancel |-> NoPoller]
         t1 == IF d.cancel = NoPoller THEN target
               ELSE [target EXCEPT ![d.cancel] = NoPoller]
     IN  /\ pollers' = d.pl
         /\ queued' = d.tq
         /\ target' = IF pollfn[x] # NoPoller /\ regTask[x] # NoPoller
                      THEN [t1 EXCEPT ![regTask[x]] = y] ELSE t1
  /\ freed' = IF life[y] = "live" /\ pollfn[y] # NoPoller
              THEN freed \cup {pollfn[y]} ELSE freed
  /\ pollfn' = [pollfn EXCEPT ![y] = pollfn[x], ![x] = NoPoller]
  /\ regTask' = [regTask EXCEPT ![y] = regTask[x]]
  /\ life' = [life EXCEPT ![y] = "live"]
  /\ UNCHANGED used

(***************************************************************************)
(* The reactor runs the oldest queued task.  registration_task::run():   *)
(* unless cancelled, register_poller() appends its poller's current       *)
(* pollfn and the poller forgets the task.  deregistration_task::run():    *)
(* unregister_poller() erases the dummy, which the task then frees.        *)
(***************************************************************************)
RunTask ==
  /\ queued # <<>>
  /\ queued' = Tail(queued)
  /\ LET t == Head(queued)
     IN  IF t.kind = "reg"
         THEN IF target[t.fn] # NoPoller
              THEN LET p == target[t.fn]
                   IN  /\ pollers' = Append(pollers, pollfn[p])
                       /\ regTask' = [regTask EXCEPT ![p] = NoPoller]
                       /\ UNCHANGED freed
              ELSE UNCHANGED <<pollers, regTask, freed>>
         ELSE /\ pollers' = RemoveAt(pollers, CHOOSE i \in DOMAIN pollers :
                                               pollers[i] = t.fn)
              /\ freed' = freed \cup {t.fn}
              /\ UNCHANGED regTask
  /\ UNCHANGED <<pollfn, life, target, used>>

Next ==
  \/ \E p \in Pollers, f \in Fns : Construct(p, f)
  \/ \E p \in Pollers : Destroy(p)
  \/ \E x, y \in Pollers : MoveAssign(x, y)
  \/ RunTask

(* The reactor runs every queued task eventually (the default scheduling *)
(* group is not starved in these runs); pollers are made and destroyed by *)
(* the program as it likes.                                                *)
Fairness == WF_vars(RunTask)

Spec == Init /\ [][Next]_vars /\ Fairness

-----------------------------------------------------------------------------
PollFns == {Fn(f) : f \in Fns} \cup {Dummy(f) : f \in Fns}

TypeOK ==
  /\ pollers \in Seq(PollFns)
  /\ pollfn \in [Pollers -> {Fn(f) : f \in Fns} \cup {NoPoller}]
  /\ regTask \in [Pollers -> Fns \cup {NoPoller}]
  /\ life \in [Pollers -> {"unborn", "live", "dead"}]
  /\ target \in [Fns -> Pollers \cup {NoPoller}]
  /\ freed \subseteq PollFns /\ used \subseteq Fns

(***************************************************************************)
(* poll_once() only calls live pollfns, each once: no pollfn in _pollers *)
(* has been freed, none is there twice, and every pollfn a live poller    *)
(* holds is either registered or has its registration task pending with   *)
(* that poller as its target, across any moves and destructions.           *)
(***************************************************************************)
PollersValid ==
  /\ \A i \in DOMAIN pollers : pollers[i] \notin freed
  /\ IsInjective(pollers)
  /\ \A p \in Pollers :
       (life[p] = "live" /\ pollfn[p] # NoPoller) =>
         \/ pollfn[p] \in ToSet(pollers)
         \/ regTask[p] # NoPoller /\ target[regTask[p]] = p

\* A live poller holds the pollfn.
Held(f) == \E p \in Pollers : life[p] = "live" /\ pollfn[p] = Fn(f)

(***************************************************************************)
(* The deferred updates of _pollers take effect: a pollfn a live poller  *)
(* holds is eventually registered (or freed, if the poller dies first),   *)
(* whatever moves it goes through, and the dummy that replaced a          *)
(* destroyed poller's pollfn is eventually erased.                         *)
(***************************************************************************)
DeferredUpdatesApplied ==
  \A f \in Fns :
    /\ Held(f) ~> (Fn(f) \in ToSet(pollers) \/ Fn(f) \in freed)
    /\ Dummy(f) \in ToSet(pollers) ~> Dummy(f) \notin ToSet(pollers)

=============================================================================

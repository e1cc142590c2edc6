------------------------------- MODULE MCDiskIO -------------------------------
(***************************************************************************)
(* The disk I/O path of one shard in one harness: the op queue of         *)
(* append_challenged_posix_file_impl (AppendChallengedFile, with the      *)
(* constants of MCAppendChallengedFile) and the io_queue, semaphore and   *)
(* aio submission below it (IoQueue), together with the reactor's other  *)
(* sources of I/O readiness: the epoll backend's futures (EpollBackend)   *)
(* and the deferred registration of the pollers that drive them           *)
(* (PollerRegistry).  part chooses, in the initial state, which component *)
(* a behaviour runs; the others stay in their initial state.               *)
(*                                                                         *)
(* For IoQueue: two priority classes with shares 1 and 2, two semaphore   *)
(* units and a fair queue of capacity 3, so that with four requests both *)
(* limits are reached: the third request waits for a semaphore unit, the *)
(* fourth for the fair queue.                                             *)
(*                                                                         *)
(* For EpollBackend: two fds, each with a reader and a writer, so that    *)
(* one epoll_pwait() reports several fds.  For PollerRegistry: three      *)
(* poller objects (a member, a temporary moved into it, another) and two  *)
(* pollfns.                                                                 *)
(***************************************************************************)
EXTENDS MCAppendChallengedFile

CONSTANTS Classes, Shares, CostScale, Weights, BadFds, MaxAio, Capacity,
          MaxReqs, MaxEagain, c1, c2,
          Fds, Pollers, Fns, NoPoller, d1, d2, r1, r2, r3, g1, g2

VARIABLES req, fqq, acc, executing, ready, waiters, granted, avail, pending,
          kernel, events, finishing, resolved, eagains,
          requested, epollMask, kernReg, kernMask, readiness, fut, open, ctlFailed,
          pollers, pollfn, regTask, life, target, queued, freed, used,
          part

IQ == INSTANCE IoQueue
EB == INSTANCE EpollBackend
PR == INSTANCE PollerRegistry

MCClasses == {c1, c2}
MCShares == (c1 :> 1) @@ (c2 :> 2)
MCCostScale == 2
MCWeights == {1}
MCMaxAio == 2
MCCapacity == 3
MCMaxReqs == 4
MCMaxEagain == 1
MCFds == {d1, d2}
MCPollers == {r1, r2, r3}
MCFns == {g1, g2}

ioVars == <<req, fqq, acc, executing, ready, waiters, granted, avail, pending,
            kernel, events, finishing, resolved, eagains>>

ebVars == <<requested, epollMask, kernReg, kernMask, readiness, fut, open, ctlFailed>>
prVars == <<pollers, pollfn, regTask, life, target, queued, freed, used>>

Parts == {"file", "io", "epoll", "pollers"}

diskVars == <<vars, ioVars, ebVars, prVars, part>>

\* The file, frozen while the aio path runs, is in one initial state.
DiskInit ==
  /\ part \in Parts /\ Init /\ IQ!Init /\ EB!Init /\ PR!Init
  /\ part # "file" => ~sloppy

FileStep(A) == part = "file" /\ A /\ UNCHANGED <<ioVars, ebVars, prVars, part>>
IoStep(A) == part = "io" /\ A /\ UNCHANGED <<vars, ebVars, prVars, part>>
EpollStep(A) == part = "epoll" /\ A /\ UNCHANGED <<vars, ioVars, prVars, part>>
PollersStep(A) == part = "pollers" /\ A /\ UNCHANGED <<vars, ioVars, ebVars, part>>

DiskNext ==
  \/ FileStep(Next) \/ IoStep(IQ!Next)
  \/ EpollStep(EB!Next) \/ PollersStep(PR!Next)


(* Each component's fairness (AppendChallengedFile's, IoQueue's,          *)
(* EpollBackend's and PollerRegistry's Fairness) in the behaviours that   *)
(* run it.  A component that does not run holds no operation in flight,   *)
(* so the recurrence conditions of the first two hold in every behaviour. *)
DiskFairness ==
  /\ \A i \in 1..MaxOps : []<>(i \notin {o.id : o \in inflight})
  /\ WF_diskVars(FileStep(CloseFinish))
  /\ \A i \in IQ!Ids : /\ []<>(i \notin ready) /\ []<>(i \notin granted)
                       /\ []<>(i \notin finishing) /\ []<>(i \notin kernel)
  /\ WF_diskVars(IoStep(IQ!AioPoller))
  /\ WF_diskVars(EpollStep(EB!WaitAndProcess))
  /\ WF_diskVars(PollersStep(PR!RunTask))

DiskSpec == DiskInit /\ [][DiskNext]_diskVars /\ DiskFairness

(* The variables of every component have their types. *)
DiskTypeOK ==
  /\ part \in Parts /\ TypeOK /\ IQ!TypeOK /\ EB!TypeOK /\ PR!TypeOK

(* Every issued disk request is in exactly one stage of the path. *)
RequestsAccounted == IQ!RequestsAccounted

(* The aio semaphore's units are conserved. *)
UnitsConserved == IQ!UnitsConserved

(* Every pending iocb eventually reaches the kernel or fails. *)
PendingSubmitted == IQ!PendingSubmitted

(* epoll_ctl() keeps the kernel's interest equal to events_epoll. *)
InterestMirrored == EB!InterestMirrored

(* A future waiting for a ready fd resolves. *)
ReadinessDelivered == EB!ReadinessDelivered

(* _pollers holds only live pollfns, once each, across moves. *)
PollersValid == PR!PollersValid

(* Deferred registrations and deregistrations take effect. *)
DeferredUpdatesApplied == PR!DeferredUpdatesApplied
=============================================================================

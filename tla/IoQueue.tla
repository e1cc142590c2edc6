------------------------------- MODULE IoQueue -------------------------------
(***************************************************************************)
(* The disk I/O path of one shard that is its own I/O coordinator         *)
(* (src/core/reactor.cc 882-1110).  posix_file_impl::read_dma/write_dma   *)
(* call submit_io_read/write, which call io_queue::queue_request(); with  *)
(* the coordinator being the calling shard, smp::submit_to() runs the     *)
(* request inline: it is queued in its priority class's fair queue, whose *)
(* dispatch admits at most _capacity requests at a time.  A dispatched    *)
(* request's continuation runs reactor::submit_io(): it takes a unit of   *)
(* the _io_context_available semaphore (max_aio units), appends an iocb  *)
(* to _pending_aio and may call flush_pending_aio(), which io_submit()s  *)
(* the pending iocbs; the aio_batch_submit poller calls it too.  The      *)
(* kernel completes submitted iocbs into the context's event ring.       *)
(*                                                                         *)
(* fair_queue is not part of the sources; its queue() and dispatch are    *)
(* modelled from spec.md 4.3: a request costs weight / shares, and the    *)
(* class with the least accumulated cost is served first, while fewer    *)
(* than _capacity requests execute; a request stops executing when the    *)
(* future of its function resolves.                                       *)
(*                                                                         *)
(* In this tree the io poller, whose process_io() reaps completions with  *)
(* io_getevents(), is not registered (reactor::run(), line 2968), and no *)
(* other code calls io_getevents(); so the model has no reaping action.   *)
(***************************************************************************)
EXTENDS Naturals, Sequences, SequencesExt, FiniteSets

CONSTANTS
  Classes,     \* registered priority classes
  Shares,      \* [Classes -> shares]
  CostScale,   \* a multiple of every share, so that weight/shares is integral
  Weights,     \* request weights 1 + len / 16 KiB the callers use
  BadFds,      \* whether a request may carry a bad file descriptor
  MaxAio,      \* reactor::max_aio, the semaphore's units and the ring size
  Capacity,    \* io_queue::_capacity, the fair queue's concurrency
  MaxReqs,     \* bound on the requests the callers issue
  MaxEagain    \* bound on transient EAGAIN results of io_submit()

Ids == 1..MaxReqs

VARIABLES
  req,         \* the requests issued so far, [c, w, bad]: class, weight,
               \* bad descriptor; request i is the i-th
  fqq,         \* [Classes -> Seq([id, w])]: each class's fair-queue backlog
  acc,         \* [Classes -> Nat]: each class's accumulated cost
  executing,   \* fair_queue's count of executing requests
  ready,       \* dispatched, continuation (submit_io) not yet run
  waiters,     \* the semaphore's wait list, oldest first
  granted,     \* holding a semaphore unit, submit_io's lambda not yet run
  avail,       \* _io_context_available's units
  pending,     \* _pending_aio, oldest first
  kernel,      \* iocbs accepted by io_submit() and not completed
  events,      \* completed iocbs whose events sit in the ring
  finishing,   \* failed with EBADF, fair_queue's finally() not yet run
  resolved,    \* requests whose io_event future has resolved
  eagains      \* transient EAGAIN results so far

vars == <<req, fqq, acc, executing, ready, waiters, granted, avail,
          pending, kernel, events, finishing, resolved, eagains>>

(* The part of the state that the helpers below transform.               *)
St == [fqq |-> fqq, acc |-> acc, executing |-> executing, ready |-> ready,
       waiters |-> waiters, granted |-> granted, avail |-> avail,
       pending |-> pending, kernel |-> kernel, events |-> events,
       finishing |-> finishing, resolved |-> resolved, eagains |-> eagains]

SetSt(st) ==
  /\ fqq' = st.fqq /\ acc' = st.acc /\ executing' = st.executing
  /\ ready' = st.ready /\ waiters' = st.waiters /\ granted' = st.granted
  /\ avail' = st.avail /\ pending' = st.pending /\ kernel' = st.kernel
  /\ events' = st.events /\ finishing' = st.finishing
  /\ resolved' = st.resolved /\ eagains' = st.eagains

MinOf(a, b) == IF a <= b THEN a ELSE b

(* min(max_aio / 4, _capacity / 2): submit_io() flushes at this many      *)
(* pending iocbs.                                                          *)
BatchThreshold == MinOf(MaxAio \div 4, Capacity \div 2)

-----------------------------------------------------------------------------
(* fair_queue, from the spec *)

(* fair_queue's waiting requests: io_queue::queued_requests().            *)
Queued(st) == SumFunction([c \in Classes |-> Len(st.fqq[c])])

(* The cost of a request of weight w in class c.                          *)
Cost(w, c) == w * (CostScale \div Shares[c])

(* The classes with a backlog and the least accumulated cost.             *)
MinClasses(st) ==
  {c \in Classes : st.fqq[c] # <<>> /\
     \A d \in Classes : st.fqq[d] # <<>> => st.acc[c] <= st.acc[d]}

(* Serve the head of class c's backlog: its promise is resolved, so its   *)
(* function is scheduled.                                                 *)
Serve(st, c) ==
  LET r == Head(st.fqq[c])
  IN [st EXCEPT !.fqq[c] = Tail(@), !.acc[c] = @ + Cost(r.w, c),
                !.executing = @ + 1, !.ready = @ \cup {r.id}]

(* Variant of dispatch_requests() that ignores _capacity.                 *)
RECURSIVE dispatch_requests_uncapped(_)
dispatch_requests_uncapped(st) ==
  IF Queued(st) = 0
  THEN {st}
  ELSE UNION {dispatch_requests_uncapped(Serve(st, c)) : c \in MinClasses(st)}

(* dispatch_requests(): serve while requests wait and fewer than          *)
(* _capacity execute.  Equal costs may be served in either order.         *)
RECURSIVE dispatch_requests(_)
dispatch_requests(st) ==
  IF Queued(st) = 0 \/ st.executing >= Capacity
  THEN {st}
  ELSE UNION {dispatch_requests(Serve(st, c)) : c \in MinClasses(st)}

-----------------------------------------------------------------------------
(* The reactor *)

(* semaphore::signal(1): add the unit, then hand units to the waiters at  *)
(* the head of the wait list; each one's continuation is scheduled.       *)
signal(st) ==
  IF st.waiters # <<>>
  THEN [st EXCEPT !.waiters = Tail(@), !.granted = @ \cup {Head(st.waiters)}]
  ELSE [st EXCEPT !.avail = @ + 1]

(* Variant of ebadf() that does not return the unit.                      *)
ebadf_no_signal(st) ==
  LET i == Head(st.pending)
  IN [st EXCEPT !.pending = Tail(@), !.resolved = @ \cup {i},
                !.finishing = @ \cup {i}]

(* io_submit()'s EBADF for the first iocb: its promise fails, the unit is *)
(* returned and the iocb is erased.                                       *)
ebadf(st) ==
  LET i == Head(st.pending)
  IN signal([st EXCEPT !.pending = Tail(@), !.resolved = @ \cup {i},
                       !.finishing = @ \cup {i}])

(* Variant of consume() that clears _pending_aio after a partial submit. *)
consume_clearing(st, n) ==
  [st EXCEPT !.kernel = @ \cup ToSet(SubSeq(st.pending, 1, n)),
             !.pending = <<>>]

(* io_submit() accepted the first n iocbs.                                *)
consume(st, n) ==
  [st EXCEPT !.kernel = @ \cup ToSet(SubSeq(st.pending, 1, n)),
             !.pending = SubSeq(@, n + 1, Len(@))]

(* The number of leading iocbs with a good descriptor.                    *)
GoodPrefix(seq) ==
  LET k == SelectInSeq(seq, LAMBDA i : req[i].bad)
  IN IF k = 0 THEN Len(seq) ELSE k - 1

(* Variant of flush_pending_aio() that returns on EBADF as on EAGAIN.     *)
RECURSIVE flush_pending_aio_stop_on_ebadf(_)
flush_pending_aio_stop_on_ebadf(st) ==
  IF st.pending = <<>>
  THEN {st}
  ELSE LET free == MaxAio - Cardinality(st.kernel \cup st.events)
           good == GoodPrefix(st.pending)
       IN (IF st.eagains < MaxEagain THEN {[st EXCEPT !.eagains = @ + 1]} ELSE {})
          \cup
          (IF free = 0 \/ good = 0 THEN {st}
           ELSE flush_pending_aio_stop_on_ebadf(consume(st, MinOf(MinOf(Len(st.pending), free), good))))

(* flush_pending_aio(): io_submit() the pending iocbs until none is left *)
(* or it returns EAGAIN.  The kernel takes a ring slot for an iocb before *)
(* it checks the descriptor, so a full ring gives EAGAIN; otherwise it    *)
(* accepts the iocbs up to the first bad descriptor and the free slots,   *)
(* and a bad first descriptor gives EBADF.  A transient EAGAIN may come   *)
(* at any call.                                                            *)
RECURSIVE flush_pending_aio(_)
flush_pending_aio(st) ==
  IF st.pending = <<>>
  THEN {st}
  ELSE LET free == MaxAio - Cardinality(st.kernel \cup st.events)
           good == GoodPrefix(st.pending)
       IN (IF st.eagains < MaxEagain THEN {[st EXCEPT !.eagains = @ + 1]} ELSE {})
          \cup
          (IF free = 0 THEN {st}
           ELSE IF good = 0 THEN flush_pending_aio(ebadf(st))
           ELSE flush_pending_aio(consume(st, MinOf(MinOf(Len(st.pending), free), good))))

(* submit_io()'s lambda, once it holds a unit: append the iocb; flush if  *)
(* the fair queue has waiting requests or enough iocbs are pending.       *)
submit_body(st, i) ==
  LET s == [st EXCEPT !.pending = Append(@, i)]
  IN IF Queued(s) > 0 \/ Len(s.pending) >= BatchThreshold
     THEN flush_pending_aio(s)
     ELSE {s}

(* reactor::submit_io(): _io_context_available.wait(1).then(lambda).  A  *)
(* free unit with no waiter gives a ready future, whose lambda runs at   *)
(* once, or is scheduled when need_preempt() is set; otherwise the        *)
(* request joins the wait list.                                            *)
submit_io(st, i) ==
  IF st.avail >= 1 /\ st.waiters = <<>>
  THEN LET s == [st EXCEPT !.avail = @ - 1]
       IN submit_body(s, i) \cup {[s EXCEPT !.granted = @ \cup {i}]}
  ELSE {[st EXCEPT !.waiters = Append(@, i)]}

-----------------------------------------------------------------------------
Init ==
  /\ req = <<>>
  /\ fqq = [c \in Classes |-> <<>>]
  /\ acc = [c \in Classes |-> 0]
  /\ executing = 0
  /\ ready = {} /\ waiters = <<>> /\ granted = {}
  /\ avail = MaxAio
  /\ pending = <<>> /\ kernel = {} /\ events = {}
  /\ finishing = {} /\ resolved = {} /\ eagains = 0

(* read_dma()/write_dma() -> submit_io_read/write -> queue_request(): on *)
(* the coordinator, fair_queue::queue() appends the request to its       *)
(* class's backlog and dispatches.                                         *)
queue_request(c, w, bad) ==
  /\ Len(req) < MaxReqs
  /\ LET i == Len(req) + 1
     IN /\ req' = Append(req, [c |-> c, w |-> w, bad |-> bad])
        /\ \E st \in dispatch_requests([St EXCEPT !.fqq[c] = Append(@, [id |-> i, w |-> w])]) : SetSt(st)

(* A dispatched request's continuation: queue_request()'s function,      *)
(* which calls submit_io().                                               *)
FqRun(i) ==
  /\ i \in ready
  /\ \E st \in submit_io([St EXCEPT !.ready = @ \ {i}], i) : SetSt(st)
  /\ UNCHANGED req

(* submit_io()'s lambda, scheduled after the semaphore granted a unit.    *)
GrantedRun(i) ==
  /\ i \in granted
  /\ \E st \in submit_body([St EXCEPT !.granted = @ \ {i}], i) : SetSt(st)
  /\ UNCHANGED req

(* fair_queue's finally() after a request's future failed: one request   *)
(* less executes, and dispatch runs.                                      *)
FqFinish(i) ==
  /\ i \in finishing
  /\ \E st \in dispatch_requests([St EXCEPT !.finishing = @ \ {i},
                                             !.executing = @ - 1]) : SetSt(st)
  /\ UNCHANGED req

(* aio_batch_submit_pollfn::poll(): flush_pending_aio().                   *)
AioPoller ==
  /\ pending # <<>>
  /\ \E st \in flush_pending_aio(St) : SetSt(st)
  /\ UNCHANGED req

(* The kernel completes a submitted iocb; its event waits in the ring.   *)
KernelComplete(i) ==
  /\ i \in kernel
  /\ kernel' = kernel \ {i}
  /\ events' = events \cup {i}
  /\ UNCHANGED <<req, fqq, acc, executing, ready, waiters, granted,
                 avail, pending, finishing, resolved, eagains>>

Next ==
  \/ \E c \in Classes, w \in Weights, bad \in BadFds : queue_request(c, w, bad)
  \/ \E i \in ready : FqRun(i)
  \/ \E i \in granted : GrantedRun(i)
  \/ \E i \in finishing : FqFinish(i)
  \/ AioPoller
  \/ \E i \in kernel : KernelComplete(i)

(* The reactor runs every scheduled continuation and calls every poller  *)
(* on each loop iteration; the kernel completes every submitted iocb.    *)
(* The callers' requests are up to them.  FqRun(i), GrantedRun(i),        *)
(* FqFinish(i) and KernelComplete(i) are enabled exactly while i is in    *)
(* ready, granted, finishing or kernel, which i leaves only by that       *)
(* action and never re-enters; so weak fairness of each is the same as i *)
(* leaving that set infinitely often, which is how it is stated.          *)
Fairness ==
  /\ \A i \in Ids : /\ []<>(i \notin ready) /\ []<>(i \notin granted)
                    /\ []<>(i \notin finishing) /\ []<>(i \notin kernel)
  /\ WF_vars(AioPoller)

Spec == Init /\ [][Next]_vars /\ Fairness


-----------------------------------------------------------------------------
TypeOK ==
  /\ req \in Seq([c : Classes, w : Weights, bad : BOOLEAN]) /\ Len(req) <= MaxReqs
  /\ fqq \in [Classes -> Seq([id : Ids, w : Weights])]
  /\ acc \in [Classes -> Nat] /\ executing \in 0..Capacity
  /\ {ready, granted, kernel, events, finishing, resolved} \subseteq SUBSET Ids
  /\ waiters \in Seq(Ids) /\ pending \in Seq(Ids)
  /\ avail \in 0..MaxAio /\ eagains \in 0..MaxEagain

(* Where each issued request is, by its stage: in a class's backlog,     *)
(* dispatched, waiting for a unit, holding one, pending, in the kernel,   *)
(* completed in the ring, or failed.                                       *)
Stages ==
  <<UNION {{r.id : r \in ToSet(fqq[c])} : c \in Classes}, ready, ToSet(waiters),
    granted, ToSet(pending), kernel, events, resolved>>

StageSize ==
  SumFunction([c \in Classes |-> Len(fqq[c])]) + Cardinality(ready) + Len(waiters)
  + Cardinality(granted) + Len(pending) + Cardinality(kernel)
  + Cardinality(events) + Cardinality(resolved)

(* Every issued request is in exactly one stage of the path, whatever    *)
(* io_submit() returns: a partial submission, an EBADF for the first      *)
(* iocb or an EAGAIN neither loses nor duplicates an iocb of              *)
(* _pending_aio, and a unit signalled to a waiter moves exactly it on.   *)
RequestsAccounted ==
  /\ UNION {Stages[k] : k \in 1..8} = 1..Len(req)
  /\ StageSize = Len(req)

(* The _io_context_available units are conserved: each unit is free or  *)
(* held by exactly one request between its wait(1) and its completion,   *)
(* and EBADF returns the unit of the failed iocb.  So at most max_aio     *)
(* iocbs are ever in the kernel or its ring, and io_submit() never meets *)
(* a full ring.                                                            *)
UnitsConserved ==
  avail + Cardinality(granted) + Len(pending) + Cardinality(kernel)
        + Cardinality(events) = MaxAio

(* Every iocb appended to _pending_aio is eventually handed to the kernel *)
(* or failed, also when an EAGAIN stops flush_pending_aio() and a bad     *)
(* descriptor sits in the middle of the batch.                            *)
PendingSubmitted ==
  \A i \in Ids : (i \in ToSet(pending)) ~> (i \notin ToSet(pending))

=============================================================================

------------------------------ MODULE SmpQueue ------------------------------
(***************************************************************************)
(* smp_message_queue (src/core/reactor.cc) for one ordered pair of shards *)
(* A -> B.  A submits work items; they are batched in A's pending_fifo,   *)
(* pushed into the single-producer/single-consumer ring _pending, popped *)
(* and processed by B's poller, whose responses are batched in B's        *)
(* _completed_fifo, pushed into the ring _completed and completed by A's  *)
(* poller.  Both rings are lock-free and linearizable; each action below  *)
(* is one poller call or one continuation of one shard's thread, and the  *)
(* two threads interleave freely.  The reverse pair B -> A uses a         *)
(* separate smp_message_queue object and is an independent instance.     *)
(* Sleeping and wakeup of the shards is modelled in ReactorSleep.         *)
(***************************************************************************)
EXTENDS Naturals, Sequences, SequencesExt, FiniteSets

CONSTANTS
  MaxItems,      \* number of work items A submits (bounds the model)
  BatchSize,     \* smp_message_queue::batch_size
  QueueLength,   \* capacity of each lock-free ring (queue_length)
  ProcessModes   \* outcomes of work_item::process(): "ready" or "deferred" future

ASSUME BatchSize \in Nat \ {0} /\ QueueLength \in Nat \ {0}
ASSUME ProcessModes \subseteq {"ready", "deferred"} /\ ProcessModes # {}

Items == 1..MaxItems

VARIABLES
  nextItem,        \* the next item A submits; items are numbered in submission order
  pendingFifo,     \* _tx.a.pending_fifo, local to A
  pendingRing,     \* _pending, the request ring A -> B
  deferred,        \* items popped by B whose process() future is not yet resolved
  completedFifo,   \* _completed_fifo, local to B
  completedRing,   \* _completed, the response ring B -> A
  done,            \* items completed on A (work_item::complete), in order
  curQueueLength,  \* _current_queue_length of A
  stoppedB         \* engine()._stopped on B

vars == <<nextItem, pendingFifo, pendingRing, deferred, completedFifo,
          completedRing, done, curQueueLength, stoppedB>>

-----------------------------------------------------------------------------
(* Variant of RingPush that ignores the ring's capacity.                *)
RingPushUnbounded(ring, fifo) ==
  [ring |-> ring \o fifo, rest |-> <<>>, n |-> Len(fifo)]

(* spsc_queue::push(begin, end): pushes the longest prefix of fifo that  *)
(* fits into ring and returns the new ring, the unpushed rest and the    *)
(* number pushed.                                                        *)
RingPush(ring, fifo) ==
  LET n == IF Len(fifo) <= QueueLength - Len(ring)
           THEN Len(fifo) ELSE QueueLength - Len(ring)
  IN [ring |-> ring \o SubSeq(fifo, 1, n),
      rest |-> SubSeq(fifo, n + 1, Len(fifo)),
      n    |-> n]

(* Variant of move_pending that counts the whole batch as sent.        *)
move_pending_counts_batch(fifo) ==
  [RingPush(pendingRing, fifo) EXCEPT !.n = Len(fifo)]

(* move_pending(): push the pending batch; count what was pushed. *)
move_pending(fifo) == RingPush(pendingRing, fifo)

(* flush_response_batch() applied to a response fifo and ring. *)
flush_response_batch(fifo, ring) == RingPush(ring, fifo)

(* respond(wi): queue the response; flush when the batch is full or B is *)
(* stopping.  st is a record [fifo, ring].                               *)
respond(wi, st) ==
  LET fifo == Append(st.fifo, wi)
  IN IF Len(fifo) >= BatchSize \/ stoppedB
     THEN LET p == flush_response_batch(fifo, st.ring)
          IN [fifo |-> p.rest, ring |-> p.ring]
     ELSE [fifo |-> fifo, ring |-> st.ring]

-----------------------------------------------------------------------------
Init ==
  /\ nextItem = 1
  /\ pendingFifo = <<>>
  /\ pendingRing = <<>>
  /\ deferred = {}
  /\ completedFifo = <<>>
  /\ completedRing = <<>>
  /\ done = <<>>
  /\ curQueueLength = 0
  /\ stoppedB = FALSE

(* submit_item(): A appends the item to pending_fifo and moves the batch *)
(* once it reaches batch_size.                                           *)
submit_item ==
  /\ nextItem \in Items
  /\ LET fifo == Append(pendingFifo, nextItem)
         p    == IF Len(fifo) >= BatchSize
                 THEN move_pending(fifo)
                 ELSE [ring |-> pendingRing, rest |-> fifo, n |-> 0]
     IN /\ pendingFifo' = p.rest
        /\ pendingRing' = p.ring
        /\ curQueueLength' = curQueueLength + p.n
  /\ nextItem' = nextItem + 1
  /\ UNCHANGED <<deferred, completedFifo, completedRing, done, stoppedB>>

(* Variant of PollSender without flush_request_batch().                *)
PollSenderNoFlush ==
  /\ done' = done \o completedRing
  /\ completedRing' = <<>>
  /\ curQueueLength' = curQueueLength - Len(completedRing)
  /\ UNCHANGED <<nextItem, pendingFifo, pendingRing, deferred, completedFifo, stoppedB>>

(* smp::poll_queues() on A, for the queue to B: flush_request_batch(),   *)
(* then process_completions(), which pops every response and completes  *)
(* them in ring order.                                                   *)
PollSender ==
  LET p == move_pending(pendingFifo)
  IN /\ pendingFifo' = p.rest
     /\ pendingRing' = p.ring
     /\ done' = done \o completedRing
     /\ completedRing' = <<>>
     /\ curQueueLength' = curQueueLength + p.n - Len(completedRing)
     /\ UNCHANGED <<nextItem, deferred, completedFifo, stoppedB>>

(* Variant of PollReceiver without the leading flush_response_batch(). *)
PollReceiverNoFlush ==
  \E mode \in [ToSet(pendingRing) -> ProcessModes] :
    LET step(st, wi) ==
          IF mode[wi] = "ready"
          THEN LET r == respond(wi, st)
               IN [fifo |-> r.fifo, ring |-> r.ring, deferred |-> st.deferred]
          ELSE [st EXCEPT !.deferred = @ \cup {wi}]
        st == FoldLeft(step, [fifo |-> completedFifo, ring |-> completedRing,
                              deferred |-> deferred], pendingRing)
    IN /\ pendingRing' = <<>>
       /\ completedFifo' = st.fifo
       /\ completedRing' = st.ring
       /\ deferred' = st.deferred
       /\ UNCHANGED <<nextItem, pendingFifo, done, curQueueLength, stoppedB>>

(* smp::poll_queues() on B, for the queue from A: flush_response_batch(), *)
(* then process_incoming(): pop every request and call process() on each  *)
(* in order; a ready future runs respond() at once, a deferred one later. *)
PollReceiver ==
  LET f == flush_response_batch(completedFifo, completedRing)
  IN \E mode \in [ToSet(pendingRing) -> ProcessModes] :
       LET step(st, wi) ==
             IF mode[wi] = "ready"
             THEN LET r == respond(wi, st)
                  IN [fifo |-> r.fifo, ring |-> r.ring, deferred |-> st.deferred]
             ELSE [st EXCEPT !.deferred = @ \cup {wi}]
           st == FoldLeft(step, [fifo |-> f.rest, ring |-> f.ring,
                                 deferred |-> deferred], pendingRing)
       IN /\ pendingRing' = <<>>
          /\ completedFifo' = st.fifo
          /\ completedRing' = st.ring
          /\ deferred' = st.deferred
          /\ UNCHANGED <<nextItem, pendingFifo, done, curQueueLength, stoppedB>>

(* The future returned by wi->process() resolves: its continuation calls *)
(* respond(wi) on B.                                                      *)
ProcessResolved(wi) ==
  /\ wi \in deferred
  /\ LET r == respond(wi, [fifo |-> completedFifo, ring |-> completedRing])
     IN /\ completedFifo' = r.fifo
        /\ completedRing' = r.ring
  /\ deferred' = deferred \ {wi}
  /\ UNCHANGED <<nextItem, pendingFifo, pendingRing, done, curQueueLength, stoppedB>>

(* B's reactor is stopped (reactor::stop() sets engine()._stopped).     *)
StopReceiver ==
  /\ ~stoppedB
  /\ stoppedB' = TRUE
  /\ UNCHANGED <<nextItem, pendingFifo, pendingRing, deferred, completedFifo,
                 completedRing, done, curQueueLength>>

Next ==
  \/ submit_item
  \/ PollSender
  \/ PollReceiver
  \/ \E wi \in deferred : ProcessResolved(wi)
  \/ StopReceiver

(* Each reactor calls every poller on every loop iteration while it has *)
(* no task to run, and a deferred process() future is resolved by B's   *)
(* own tasks; submitting and stopping are up to the application.        *)
Fairness ==
  /\ WF_vars(PollSender)
  /\ WF_vars(PollReceiver)
  /\ WF_vars(\E wi \in deferred : ProcessResolved(wi))

Spec == Init /\ [][Next]_vars /\ Fairness

-----------------------------------------------------------------------------
TypeOK ==
  /\ nextItem \in 1..MaxItems + 1
  /\ pendingFifo \in Seq(Items)
  /\ pendingRing \in Seq(Items) /\ Len(pendingRing) <= QueueLength
  /\ deferred \subseteq Items
  /\ completedFifo \in Seq(Items)
  /\ completedRing \in Seq(Items) /\ Len(completedRing) <= QueueLength
  /\ done \in Seq(Items)
  /\ curQueueLength \in Nat
  /\ stoppedB \in BOOLEAN

(* _current_queue_length, kept by move_pending() and                    *)
(* process_completions(), equals the number of items that have left A's *)
(* pending_fifo and are not yet completed, also when a ring is full and  *)
(* a push moves only part of a batch.                                    *)
QueueLengthAccounting ==
  curQueueLength = Len(pendingRing) + Cardinality(deferred)
                   + Len(completedFifo) + Len(completedRing)

(* Responses are completed on A in the order A submitted the requests    *)
(* (spec.md 8, "Cross-shard FIFO").                                       *)
ResponsesInOrder ==
  \A i \in 1..Len(done) : done[i] = i

(* Every submitted work item is eventually completed on A: once A stops  *)
(* submitting, every item it submitted ends up completed.                *)
AllCompleted ==
  <>[](ToSet(done) = 1..nextItem - 1)

(* The queue implements the abstract channel SmpChannel: the items not  *)
(* yet processed, oldest first, are those in the request ring followed   *)
(* by A's pending_fifo; the items processed and not completed are those *)
(* whose process() future is pending and those in B's _completed_fifo or *)
(* in the response ring.                                                  *)
Channel == INSTANCE SmpChannel WITH
  Items <- Items,
  outstanding <- pendingRing \o pendingFifo,
  processing <- deferred \cup ToSet(completedFifo) \cup ToSet(completedRing),
  completed <- done

ChannelRefined == Channel!Spec

=============================================================================

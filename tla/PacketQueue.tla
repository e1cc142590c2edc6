----------------------------- MODULE PacketQueue -----------------------------
(***************************************************************************)
(* The reactor's multi-producer packet_queue (packet_queue.cc): every     *)
(* producer thread owns a single-producer/single-consumer tls_queue,      *)
(* found through a pthread key.  On its first enqueue a thread creates    *)
(* its queue, takes a slot of _queues with _index.fetch_add(1) and only   *)
(* then stores its queue into the slot.  The reactor's packet poller      *)
(* calls try_dequeue_bulk(), which scans the slots from the first, stops  *)
(* at the first empty slot, and returns the first packet it finds.        *)
(*                                                                         *)
(* channel::put() sets the packet's channel and calls enqueue(), so a put *)
(* is a Put here.  The maybe_wakeup() after a successful enqueue is       *)
(* modelled in ReactorSleep.  try_enqueue() has no caller under src/.     *)
(* The store into _queues[index] is a plain store that the poller reads   *)
(* concurrently; the poller sees the slot empty until the store is done.  *)
(* A packet is a number, issued in order.                                 *)
(***************************************************************************)
EXTENDS Naturals, Sequences, SequencesExt, FiniteSets

CONSTANTS
  Producers,    \* the threads that put packets
  Slots,        \* TLS_QUEUE_SIZE, the size of _queues
  NullSlot,     \* nullptr in a slot of _queues
  MaxPackets    \* bound on the packets put

\* _index is not bounded: the model keeps to as many threads as slots.
ASSUME Cardinality(Producers) <= Slots /\ NullSlot \notin Producers

VARIABLES
  index,        \* _index
  slots,        \* _queues: the producer whose tls_queue sits in each slot
  mine,         \* each producer's slot, -1 while its pthread key is null
  ppc,          \* each producer: "idle", "claimed" (after fetch_add), "push"
  pkt,          \* the packet each producer is putting
  q,            \* each producer's tls_queue, oldest first
  nextPkt,      \* the next packet to be put
  taken         \* the packets try_dequeue_bulk() returned

vars == <<index, slots, mine, ppc, pkt, q, nextPkt, taken>>

SlotIds == 0..(Slots - 1)

-----------------------------------------------------------------------------
\* The slots try_dequeue_bulk() looks at: those before the first empty one.
Scanned == {i \in SlotIds : \A j \in 0..i : slots[j] # NullSlot}

\* A variant of try_dequeue_bulk() that returns false once the first
\* queue it looks at is empty.
try_dequeue_bulk_first_queue ==
  LET i == 0
  IN  /\ slots[i] # NullSlot /\ q[slots[i]] # <<>>
      /\ taken' = taken \cup {Head(q[slots[i]])}
      /\ q' = [q EXCEPT ![slots[i]] = Tail(@)]

\* try_dequeue_bulk() returning true: the first scanned slot whose queue
\* holds a packet gives up its oldest one.
try_dequeue_bulk ==
  \E i \in Scanned :
    /\ q[slots[i]] # <<>>
    /\ \A j \in Scanned : j < i => q[slots[j]] = <<>>
    /\ taken' = taken \cup {Head(q[slots[i]])}
    /\ q' = [q EXCEPT ![slots[i]] = Tail(@)]

-----------------------------------------------------------------------------
Init ==
  /\ index = 0
  /\ slots = [i \in SlotIds |-> NullSlot]
  /\ mine = [p \in Producers |-> -1]
  /\ ppc = [p \in Producers |-> "idle"]
  /\ pkt = [p \in Producers |-> 0]
  /\ q = [p \in Producers |-> <<>>]
  /\ nextPkt = 1
  /\ taken = {}

\* enqueue() is called, through channel::put().  impl(): a thread whose
\* pthread key is null creates its tls_queue and takes a slot.
Put(p) ==
  /\ ppc[p] = "idle"
  /\ nextPkt <= MaxPackets
  /\ pkt' = [pkt EXCEPT ![p] = nextPkt]
  /\ nextPkt' = nextPkt + 1
  /\ IF mine[p] = -1
     THEN /\ index' = index + 1
          /\ mine' = [mine EXCEPT ![p] = index]
          /\ ppc' = [ppc EXCEPT ![p] = "claimed"]
     ELSE /\ ppc' = [ppc EXCEPT ![p] = "push"]
          /\ UNCHANGED <<index, mine>>
  /\ UNCHANGED <<slots, q, taken>>

\* impl() stores the new queue into the slot it took and into the key.
Publish(p) ==
  /\ ppc[p] = "claimed"
  /\ slots' = [slots EXCEPT ![mine[p]] = p]
  /\ ppc' = [ppc EXCEPT ![p] = "push"]
  /\ UNCHANGED <<index, mine, pkt, q, nextPkt, taken>>

\* The tls_queue's enqueue(), which allocates and always succeeds.
Push(p) ==
  /\ ppc[p] = "push"
  /\ q' = [q EXCEPT ![p] = Append(@, pkt[p])]
  /\ ppc' = [ppc EXCEPT ![p] = "idle"]
  /\ UNCHANGED <<index, slots, mine, pkt, nextPkt, taken>>

\* The packet poller takes a packet.  A call that returns false changes
\* nothing and is not a step.
Dequeue ==
  /\ try_dequeue_bulk
  /\ UNCHANGED <<index, slots, mine, ppc, pkt, nextPkt>>

Next ==
  \/ \E p \in Producers : Put(p) \/ Publish(p) \/ Push(p)
  \/ Dequeue

(* A thread inside enqueue() finishes the call: impl() and the push are  *)
(* straight-line code.  The reactor calls the packet poller on every loop *)
(* iteration it is awake (whether it wakes is ReactorSleep's question).   *)
(* Whether a thread puts a packet is up to it.                             *)
Fairness ==
  /\ \A p \in Producers : WF_vars(Publish(p)) /\ WF_vars(Push(p))
  /\ WF_vars(Dequeue)

Spec == Init /\ [][Next]_vars /\ Fairness

-----------------------------------------------------------------------------
TypeOK ==
  /\ index \in 0..Slots
  /\ slots \in [SlotIds -> Producers \cup {NullSlot}]
  /\ mine \in [Producers -> SlotIds \cup {-1}]
  /\ ppc \in [Producers -> {"idle", "claimed", "push"}]
  /\ pkt \in [Producers -> 0..MaxPackets]
  /\ q \in [Producers -> Seq(1..MaxPackets)]
  /\ nextPkt \in 1..(MaxPackets + 1) /\ taken \subseteq 1..MaxPackets

(***************************************************************************)
(* Every packet put is eventually returned by try_dequeue_bulk(), also    *)
(* when a thread that took an earlier slot with fetch_add() has not yet   *)
(* stored its queue: the scan stops at that empty slot and hides the      *)
(* packets of every later slot until the store is done.                    *)
(***************************************************************************)
PacketsDelivered ==
  \A n \in 1..MaxPackets : n < nextPkt ~> n \in taken

=============================================================================

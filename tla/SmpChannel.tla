----------------------------- MODULE SmpChannel -----------------------------
(***************************************************************************)
(* What the cross-shard message layer promises for one ordered pair of    *)
(* shards: work items submitted by the sending shard are processed on the *)
(* receiving shard in the order they were submitted, each exactly once,  *)
(* and each processed item is completed on the sending shard exactly      *)
(* once.  Processing may take several items at once, and completion may  *)
(* retire several processed items at once, in any order among them: a     *)
(* process() future may resolve after a younger item's (spec.md 8 asks   *)
(* for FIFO completion, which the run smp_fifo shows is not kept).        *)
(***************************************************************************)
EXTENDS Sequences, SequencesExt, FiniteSets

CONSTANT Items          \* the work items the sender may submit

VARIABLES
  outstanding,          \* items submitted and not yet processed, oldest first
  processing,           \* items processed and not yet completed
  completed             \* items completed, in completion order

vars == <<outstanding, processing, completed>>

Init ==
  /\ outstanding = <<>>
  /\ processing = {}
  /\ completed = <<>>

\* The sender submits a fresh item.
Submit(i) ==
  /\ i \notin ToSet(outstanding) \cup processing \cup ToSet(completed)
  /\ outstanding' = Append(outstanding, i)
  /\ UNCHANGED <<processing, completed>>

\* The receiver takes the k oldest outstanding items and processes them.
Process(k) ==
  /\ processing' = processing \cup ToSet(SubSeq(outstanding, 1, k))
  /\ outstanding' = SubSeq(outstanding, k + 1, Len(outstanding))
  /\ UNCHANGED completed

\* The sender completes a batch s of distinct processed items, in the
\* order of s.
Complete(s) ==
  /\ s # <<>> /\ IsInjective(s) /\ ToSet(s) \subseteq processing
  /\ completed' = completed \o s
  /\ processing' = processing \ ToSet(s)
  /\ UNCHANGED outstanding

ProcessSome == \E k \in 1..Len(outstanding) : Process(k)

CompleteSome == \E s \in BoundedSeq(processing, Cardinality(processing)) : Complete(s)

Next ==
  \/ \E i \in Items : Submit(i)
  \/ ProcessSome
  \/ CompleteSome

Spec == Init /\ [][Next]_vars /\ WF_vars(ProcessSome) /\ WF_vars(CompleteSome)

=============================================================================

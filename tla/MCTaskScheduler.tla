--------------------------- MODULE MCTaskScheduler ---------------------------
(* Three task queues: q1 and q3 with one share, q2 with two.  With a      *)
(* 4-bit reciprocal, to_vruntime is runtime for q1 and q3 and             *)
(* runtime \div 2 for q2.                                                  *)
EXTENDS TaskScheduler, TLC

CONSTANTS q1, q2, q3

MCQueues == {q1, q2, q3}
MCShares == (q1 :> 1) @@ (q2 :> 2) @@ (q3 :> 1)
MCShift == 4
MCTaskQuota == 2
\* A backlog bound below the queue bound: a queue refilled by its own task
\* keeps running when preemption is requested.
MCMaxTaskBacklogLow == 1
MCMaxQueued == 2
\* Slices long enough to gain virtual runtime on every queue.
MCRuntimesLong == {2, 3}
=============================================================================

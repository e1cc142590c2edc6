----------------------------- MODULE MCSmpQueue -----------------------------
(***************************************************************************)
(* Model-checking instance of SmpQueue.  Four items with a batch of two   *)
(* and rings of three make the second batch only partly fit into the     *)
(* request ring, so move_pending() pushes part of a batch and leaves the  *)
(* rest in pending_fifo; responses are flushed both by a full batch and   *)
(* by the poller.                                                        *)
(***************************************************************************)
EXTENDS SmpQueue

MCMaxItems == 4
MCBatchSize == 2
MCQueueLength == 3

=============================================================================

---------------------------- MODULE OutputStream ----------------------------
(***************************************************************************)
(* output_stream<char> (src/core/iostream-impl.hh) over a data_sink, with *)
(* the reactor's batch-flush poller (reactor::flush_tcp_batches).  The    *)
(* stream is owned by one caller, which waits for the future of each call *)
(* before its next call; in batching mode flush() returns at once and the *)
(* poller later runs poll_flush(), whose put/flush continuation chain      *)
(* runs concurrently with the caller's later writes.                       *)
(*                                                                         *)
(* Data is abstracted to units: a write of n units by the i-th call is n   *)
(* copies of i, so the sequence of units handed to the sink shows their   *)
(* order.  Buffer size and thresholds are in the same units.  The caller's *)
(* pending future chain is a sequence of steps (cont); a step marked fin   *)
(* is a finally() and runs after an exception, the others are skipped.    *)
(* The sink hands data on in the order of its put() calls; each sink call *)
(* completes later, and may fail.                                          *)
(***************************************************************************)
EXTENDS Integers, Sequences, SequencesExt, FiniteSets

CONSTANTS
  Size,         \* _size, the buffer size
  WriteSizes,   \* lengths of the caller's writes
  Modes,        \* writes used by the caller: "buffered" and/or "zc" (packets)
  BatchModes,   \* possible _batch_flushes: subset of BOOLEAN
  TrimModes,    \* possible _trim_to_size: subset of BOOLEAN
  MaxWrites,    \* bound on the caller's writes
  MaxErrors     \* bound on sink failures

VARIABLES
  mode,         \* the kind of write the caller uses (they may not be mixed)
  batch,        \* _batch_flushes
  trim,         \* _trim_to_size
  buf,          \* _buf[0.._end) in buffered mode, _zc_bufs in zero-copy mode
  flushFlag,    \* _flush
  flushing,     \* _flushing
  inBatch,      \* _in_batch is engaged
  futures,      \* get_future() calls on the engaged _in_batch promise
  inPoller,     \* the stream is in the reactor's _flush_batching list
  round,        \* poll_flush()'s chain: "none", "put" or "flush" in flight
  ex,           \* _ex: 0 or the number of the stored error
  errs,         \* sink failures so far (errors are numbered 1, 2, ...)
  delivered,    \* errors delivered to the caller through a future
  wire,         \* units handed to the sink, in order
  issued,       \* units written by the caller, in order
  writes,       \* write calls so far
  wait,         \* what the caller's pending future waits for: "none", "sink", "batch"
  cont,         \* the rest of the caller's future chain
  failed,       \* the caller's chain carries an exception
  flushMark,    \* units written before the caller's last successful flush()
  closeCalled,  \* close() called
  closed,       \* the caller's close() future resolved
  closeFailed   \* ... with an exception

vars == <<mode, batch, trim, buf, flushFlag, flushing, inBatch, futures, inPoller,
          round, ex, errs, delivered, wire, issued, writes, wait, cont,
          failed, flushMark, closeCalled, closed, closeFailed>>

MinOf(a, b) == IF a <= b THEN a ELSE b

Step(k, d, fin) == [k |-> k, d |-> d, fin |-> fin]

(* Outcomes of a sink call: success, or a failure while errors remain.     *)
Outcomes == IF errs < MaxErrors THEN {TRUE, FALSE} ELSE {TRUE}

-----------------------------------------------------------------------------
(* put(buf), and zero_copy_put(), which is the same: cancel a scheduled    *)
(* flush; if a poll_flush() put is in flight, wait for _in_batch and put  *)
(* afterwards, else put now.  rest is the chain that follows the put.     *)
put(d, rest) ==
  /\ flushFlag' = FALSE
  /\ IF flushing
     THEN /\ futures' = futures + 1
          /\ wait' = "batch"
          /\ cont' = <<Step("sinkput", d, FALSE)>> \o rest
          /\ UNCHANGED wire
     ELSE /\ wire' = wire \o d
          /\ wait' = "sink"
          /\ cont' = rest
          /\ UNCHANGED futures

(* Variant of poll_flush() that leaves _flushing set when it ends a round. *)
poll_flush_keeps_flushing(oneMore) ==
  IF ~flushFlag
  THEN /\ round' = "none"
       /\ inBatch' = FALSE /\ futures' = 0
       /\ wait' = IF inBatch /\ wait = "batch" THEN "none" ELSE wait
       /\ UNCHANGED <<flushing, flushFlag, buf, wire>>
  ELSE /\ flushFlag' = FALSE
       /\ IF buf # <<>>
          THEN flushing' = TRUE /\ wire' = wire \o buf /\ buf' = <<>> /\ round' = "put"
          ELSE round' = "flush" /\ UNCHANGED <<flushing, wire, buf>>
       /\ UNCHANGED <<inBatch, futures, wait>>

(* poll_flush(one_more_flush): if the flush was cancelled, clear         *)
(* _flushing and resolve _in_batch, which lets a waiting put() go on;     *)
(* otherwise put whatever is buffered (setting _flushing) and chain       *)
(* _fd.flush() and poll_flush(true) after it.  Both branches of           *)
(* one_more_flush do the same.                                            *)
poll_flush(oneMore) ==
  IF ~flushFlag
  THEN /\ flushing' = FALSE
       /\ round' = "none"
       /\ inBatch' = FALSE /\ futures' = 0
       /\ wait' = IF inBatch /\ wait = "batch" THEN "none" ELSE wait
       /\ UNCHANGED <<flushFlag, buf, wire>>
  ELSE /\ flushFlag' = FALSE
       /\ IF buf # <<>>
          THEN flushing' = TRUE /\ wire' = wire \o buf /\ buf' = <<>> /\ round' = "put"
          ELSE round' = "flush" /\ UNCHANGED <<flushing, wire, buf>>
       /\ UNCHANGED <<inBatch, futures, wait>>

-----------------------------------------------------------------------------
Init ==
  /\ mode \in Modes /\ batch \in BatchModes /\ trim \in TrimModes
  /\ buf = <<>>
  /\ flushFlag = FALSE /\ flushing = FALSE
  /\ inBatch = FALSE /\ futures = 0 /\ inPoller = FALSE
  /\ round = "none"
  /\ ex = 0 /\ errs = 0 /\ delivered = {}
  /\ wire = <<>> /\ issued = <<>> /\ writes = 0
  /\ wait = "none" /\ cont = <<>> /\ failed = FALSE
  /\ flushMark = 0
  /\ closeCalled = FALSE /\ closed = FALSE /\ closeFailed = FALSE

(* The caller may call the stream: its previous future has resolved.      *)
CallerIdle == wait = "none" /\ cont = <<>> /\ ~closeCalled

(* The variables a put() leaves alone when it is not called.             *)
NoPut == UNCHANGED <<flushFlag, futures, wait, cont, wire>>

(* split_and_put(buf), followed by the chain rest: put the data in       *)
(* chunks of _size, each after the previous put() resolves; a last chunk  *)
(* shorter than _size is copied to the start of _buf and becomes _end.    *)
split_and_put(d, rest) ==
  IF Len(d) < Size
  THEN /\ buf' = d
       /\ cont' = rest
       /\ UNCHANGED <<flushFlag, futures, wait, wire>>
  ELSE /\ UNCHANGED buf
       /\ put(SubSeq(d, 1, Size), <<Step("split", SubSeq(d, Size + 1, Len(d)), FALSE)>> \o rest)

(* What write(buf, n) does with the bulk of a large write: with           *)
(* _trim_to_size it goes through split_and_put(), else one put().        *)
PutBulk(d, rest) ==
  IF trim THEN split_and_put(d, rest) ELSE UNCHANGED buf /\ put(d, rest)

(* The step of the chain that puts the rest of a large write.             *)
BulkStep(d) == Step(IF trim THEN "split" ELSE "put", d, FALSE)

(* Variant of write(buf, n) that copies a small write into the buffer    *)
(* without clipping it to the room left.                                  *)
write_buffered_unclipped(d) ==
  LET n   == Len(d)
      end == Len(buf)
      thr == IF end > 0 THEN 2 * Size - end ELSE Size
  IN IF n >= thr
     THEN IF end > 0
          THEN /\ buf' = <<>>
               /\ put(buf \o SubSeq(d, 1, Size - end),
                      <<BulkStep(SubSeq(d, Size - end + 1, n))>>)
          ELSE PutBulk(d, <<>>)
     ELSE /\ buf' = buf \o d
          /\ NoPut

(* Variant of write(buf, n) that, when a small write overflows the       *)
(* buffer, puts the new buffer instead of swapping it with the full one.  *)
write_buffered_no_swap(d) ==
  LET n   == Len(d)
      end == Len(buf)
      thr == IF end > 0 THEN 2 * Size - end ELSE Size
      now == IF n >= thr THEN Size - end ELSE MinOf(n, Size - end)
  IN IF n >= thr
     THEN IF end > 0
          THEN /\ buf' = <<>>
               /\ put(buf \o SubSeq(d, 1, now),
                      <<BulkStep(SubSeq(d, now + 1, n))>>)
          ELSE PutBulk(d, <<>>)
     ELSE IF now = n
          THEN /\ buf' = buf \o d
               /\ NoPut
          ELSE /\ buf' = buf \o SubSeq(d, 1, now)
               /\ put(SubSeq(d, now + 1, n), <<>>)

(* write(buf, n): a write at or above the bulk threshold puts the filled *)
(* remainder of the buffer and then (chained) the rest; a smaller write   *)
(* is copied into the buffer, and if it does not fit, the full buffer is  *)
(* put and the rest starts a new one.                                      *)
write_buffered(d) ==
  LET n   == Len(d)
      end == Len(buf)
      thr == IF end > 0 THEN 2 * Size - end ELSE Size
      now == IF n >= thr THEN Size - end ELSE MinOf(n, Size - end)
  IN IF n >= thr
     THEN IF end > 0
          THEN /\ buf' = <<>>
               /\ put(buf \o SubSeq(d, 1, now),
                      <<BulkStep(SubSeq(d, now + 1, n))>>)
          ELSE PutBulk(d, <<>>)
     ELSE IF now = n
          THEN /\ buf' = buf \o d
               /\ NoPut
          ELSE /\ buf' = SubSeq(d, now + 1, n)
               /\ put(buf \o SubSeq(d, 1, now), <<>>)

(* write(net::packet): append to _zc_bufs and put them all once they     *)
(* reach _size.                                                            *)
write_zc(d) ==
  IF Len(buf \o d) >= Size
  THEN /\ buf' = <<>>
       /\ put(buf \o d, <<>>)
  ELSE /\ buf' = buf \o d
       /\ NoPut

(* A write call of n units, numbered writes + 1.                           *)
Write(n) ==
  /\ CallerIdle
  /\ writes < MaxWrites
  /\ LET d == [i \in 1..n |-> writes + 1]
     IN /\ issued' = issued \o d
        /\ IF mode = "buffered" THEN write_buffered(d) ELSE write_zc(d)
  /\ writes' = writes + 1
  /\ failed' = FALSE
  /\ UNCHANGED <<mode, batch, trim, flushing, inBatch, inPoller, round, ex, errs,
                 delivered, flushMark, closeCalled, closed, closeFailed>>

(* Variant of flush() that sets _flush only when it creates _in_batch.   *)
flush_once(rest) ==
  IF batch
  THEN IF ex # 0
       THEN /\ delivered' = delivered \cup {ex} /\ ex' = 0 /\ failed' = TRUE
            /\ cont' = rest
            /\ UNCHANGED <<flushFlag, inPoller, inBatch, futures, flushMark, buf, wire, wait>>
       ELSE /\ IF ~inBatch
               THEN /\ flushFlag' = TRUE
                    /\ inPoller' = TRUE /\ inBatch' = TRUE /\ futures' = 0
               ELSE UNCHANGED <<flushFlag, inPoller, inBatch, futures>>
            /\ cont' = rest /\ failed' = FALSE /\ flushMark' = Len(issued)
            /\ UNCHANGED <<ex, delivered, buf, wire, wait>>
  ELSE /\ IF buf # <<>>
          THEN /\ buf' = <<>>
               /\ put(buf, <<Step("sinkflush", <<>>, FALSE)>> \o rest)
          ELSE /\ cont' = rest
               /\ UNCHANGED <<buf, flushFlag, futures, wait, wire>>
       /\ failed' = FALSE /\ flushMark' = Len(issued)
       /\ UNCHANGED <<ex, delivered, inPoller, inBatch>>

(* flush(), followed by the chain rest.  Batching: deliver a stored error *)
(* (moving it out of _ex), or schedule the flush and, if no batch is      *)
(* open, register with the flush poller and open _in_batch.  Otherwise:   *)
(* put the buffer, then _fd.flush(); with nothing buffered, nothing.      *)
flush(rest) ==
  IF batch
  THEN IF ex # 0
       THEN /\ delivered' = delivered \cup {ex} /\ ex' = 0 /\ failed' = TRUE
            /\ cont' = rest
            /\ UNCHANGED <<flushFlag, inPoller, inBatch, futures, flushMark, buf, wire, wait>>
       ELSE /\ flushFlag' = TRUE
            /\ IF ~inBatch
               THEN inPoller' = TRUE /\ inBatch' = TRUE /\ futures' = 0
               ELSE UNCHANGED <<inPoller, inBatch, futures>>
            /\ cont' = rest /\ failed' = FALSE /\ flushMark' = Len(issued)
            /\ UNCHANGED <<ex, delivered, buf, wire, wait>>
  ELSE /\ IF buf # <<>>
          THEN /\ buf' = <<>>
               /\ put(buf, <<Step("sinkflush", <<>>, FALSE)>> \o rest)
          ELSE /\ cont' = rest
               /\ UNCHANGED <<buf, flushFlag, futures, wait, wire>>
       /\ failed' = FALSE /\ flushMark' = Len(issued)
       /\ UNCHANGED <<ex, delivered, inPoller, inBatch>>

Flush ==
  /\ CallerIdle
  /\ flush(<<>>)
  /\ UNCHANGED <<mode, batch, trim, flushing, round, errs, issued, writes,
                 closeCalled, closed, closeFailed>>

(* Variant of close() that does not wait for an open _in_batch.          *)
CloseNoWait ==
  /\ CallerIdle
  /\ closeCalled' = TRUE
  /\ flush(<<Step("rethrow", <<>>, FALSE), Step("fdclose", <<>>, TRUE)>>)
  /\ UNCHANGED <<mode, batch, trim, flushing, round, errs, issued, writes,
                 closed, closeFailed>>

(* close(): flush(), finally wait for an open _in_batch, then rethrow a   *)
(* stored error, finally close the sink.                                  *)
Close ==
  /\ CallerIdle
  /\ closeCalled' = TRUE
  /\ flush(<<Step("waitbatch", <<>>, TRUE), Step("rethrow", <<>>, FALSE),
             Step("fdclose", <<>>, TRUE)>>)
  /\ UNCHANGED <<mode, batch, trim, flushing, round, errs, issued, writes,
                 closed, closeFailed>>

-----------------------------------------------------------------------------
(* The next continuation of the caller's chain runs; one that is not a    *)
(* finally() is skipped once the chain carries an exception.              *)
CallerStep ==
  /\ wait = "none" /\ cont # <<>>
  /\ LET h == Head(cont)
         rest == Tail(cont)
     IN IF failed /\ ~h.fin
        THEN /\ cont' = rest
             /\ UNCHANGED <<buf, flushFlag, futures, wait, wire, delivered, failed,
                            closed, closeFailed>>
        ELSE CASE h.k = "put" ->
                    /\ put(h.d, rest)
                    /\ UNCHANGED <<buf, delivered, failed, closed, closeFailed>>
               [] h.k = "split" ->
                    /\ split_and_put(h.d, rest)
                    /\ UNCHANGED <<delivered, failed, closed, closeFailed>>
               [] h.k = "sinkput" ->
                    /\ wire' = wire \o h.d /\ wait' = "sink" /\ cont' = rest
                    /\ UNCHANGED <<buf, flushFlag, futures, delivered, failed, closed, closeFailed>>
               [] h.k = "sinkflush" ->
                    /\ wait' = "sink" /\ cont' = rest
                    /\ UNCHANGED <<buf, flushFlag, futures, wire, delivered, failed, closed,
                                   closeFailed>>
               [] h.k = "waitbatch" ->
                    /\ IF inBatch
                       THEN futures' = futures + 1 /\ wait' = "batch"
                       ELSE UNCHANGED <<futures, wait>>
                    /\ cont' = rest
                    /\ UNCHANGED <<buf, flushFlag, wire, delivered, failed, closed, closeFailed>>
               [] h.k = "rethrow" ->
                    /\ IF ex # 0
                       THEN failed' = TRUE /\ delivered' = delivered \cup {ex}
                       ELSE UNCHANGED <<failed, delivered>>
                    /\ cont' = rest
                    /\ UNCHANGED <<buf, flushFlag, futures, wait, wire, closed, closeFailed>>
               [] h.k = "fdclose" ->
                    /\ closed' = TRUE /\ closeFailed' = failed /\ cont' = rest
                    /\ UNCHANGED <<buf, flushFlag, futures, wait, wire, delivered, failed>>
  /\ UNCHANGED <<mode, batch, trim, flushing, inBatch, inPoller, round, ex, errs,
                 issued, writes, flushMark, closeCalled>>

(* A sink put() or flush() the caller waits for completes; a failure     *)
(* reaches the caller's future.                                           *)
SinkDone ==
  /\ wait = "sink"
  /\ wait' = "none"
  /\ \E ok \in Outcomes :
       IF ok THEN UNCHANGED <<errs, delivered, failed>>
       ELSE /\ errs' = errs + 1 /\ delivered' = delivered \cup {errs + 1}
            /\ failed' = TRUE
  /\ UNCHANGED <<mode, batch, trim, buf, flushFlag, flushing, inBatch, futures,
                 inPoller, round, ex, wire, issued, writes, cont, flushMark,
                 closeCalled, closed, closeFailed>>

(* The batch-flush poller: flush_tcp_batches() pops the stream and calls  *)
(* poll_flush().                                                           *)
Poller ==
  /\ inPoller
  /\ inPoller' = FALSE
  /\ poll_flush(FALSE)
  /\ UNCHANGED <<mode, batch, trim, ex, errs, delivered, issued, writes, cont,
                 failed, flushMark, closeCalled, closed, closeFailed>>

(* poll_flush()'s _fd.put() completes: on success _fd.flush() is called;  *)
(* a failure skips it, is stored in _ex and poll_flush(true) runs.        *)
RoundPutDone ==
  /\ round = "put"
  /\ \E ok \in Outcomes :
       IF ok
       THEN /\ round' = "flush"
            /\ UNCHANGED <<ex, errs, flushFlag, flushing, inBatch, futures, wait, buf, wire>>
       ELSE /\ ex' = errs + 1 /\ errs' = errs + 1
            /\ poll_flush(TRUE)
  /\ UNCHANGED <<mode, batch, trim, inPoller, delivered, issued, writes, cont, failed,
                 flushMark, closeCalled, closed, closeFailed>>

(* poll_flush()'s _fd.flush() completes: a failure is stored in _ex, and  *)
(* poll_flush(true) runs.                                                 *)
RoundFlushDone ==
  /\ round = "flush"
  /\ \E ok \in Outcomes :
       IF ok THEN UNCHANGED <<ex, errs>>
       ELSE ex' = errs + 1 /\ errs' = errs + 1
  /\ poll_flush(TRUE)
  /\ UNCHANGED <<mode, batch, trim, inPoller, delivered, issued, writes, cont, failed,
                 flushMark, closeCalled, closed, closeFailed>>

Next ==
  \/ \E n \in WriteSizes : Write(n)
  \/ Flush
  \/ Close
  \/ CallerStep
  \/ SinkDone
  \/ Poller
  \/ RoundPutDone
  \/ RoundFlushDone

(* The reactor polls the flush poller on every loop iteration and runs    *)
(* ready continuations; the sink completes every call.  The caller's own  *)
(* calls are up to it.                                                     *)
Fairness ==
  /\ WF_vars(CallerStep) /\ WF_vars(SinkDone) /\ WF_vars(Poller)
  /\ WF_vars(RoundPutDone) /\ WF_vars(RoundFlushDone)

Spec == Init /\ [][Next]_vars /\ Fairness

-----------------------------------------------------------------------------
Units == 1..MaxWrites

(* The most units the caller can write.                                    *)
MaxData == MaxWrites * (CHOOSE m \in WriteSizes : \A x \in WriteSizes : x <= m)

(* The buffer never holds more than _size units.                          *)
TypeOK ==
  /\ mode \in {"buffered", "zc"} /\ batch \in BOOLEAN /\ trim \in BOOLEAN
  /\ buf \in Seq(Units) /\ wire \in Seq(Units) /\ issued \in Seq(Units)
  /\ Len(buf) <= Size
  /\ {flushFlag, flushing, inBatch, inPoller, failed} \subseteq BOOLEAN
  /\ futures \in Nat
  /\ round \in {"none", "put", "flush"}
  /\ ex \in 0..MaxErrors /\ errs \in 0..MaxErrors /\ delivered \subseteq 1..MaxErrors
  /\ writes \in 0..MaxWrites
  /\ wait \in {"none", "sink", "batch"}
  /\ flushMark \in Nat
  /\ {closeCalled, closed, closeFailed} \subseteq BOOLEAN

(* Units of write w in a sequence of units.                               *)
UnitsOf(seq, w) == Len(SelectSeq(seq, LAMBDA u : u = w))

(* Whatever the interleaving of the caller's writes and flushes with the *)
(* poller's batched flush (put() waiting on _in_batch while poll_flush()  *)
(* puts the buffer), the sink receives the written units in the order    *)
(* they were written and never more of a write than it had.  (A failed    *)
(* put drops the rest of its write's chain, so units may be missing.)    *)
BytesInOrder ==
  /\ \A i \in 1..Len(wire) - 1 : wire[i] <= wire[i + 1]
  /\ \A w \in Units : UnitsOf(wire, w) <= UnitsOf(issued, w)

(* When no call reported an error to the caller, a close() that resolves *)
(* has handed everything the caller wrote to the sink (spec.md 4.4, close *)
(* performs a final flush and waits for any in-flight batch).             *)
CloseSendsAll == (closed /\ ~closeFailed /\ delivered = {}) => wire = issued

(* Every sink failure reaches the caller: it is either still held in _ex *)
(* for the next flush() or close(), or was delivered through a future     *)
(* (spec.md 7, "errors from asynchronous operations are never lost").    *)
NoErrorLost == \A e \in 1..errs : e = ex \/ e \in delivered

(* Every future the caller waits on resolves: a put() waiting on          *)
(* _in_batch is released by the end of the poll_flush() round.            *)
CallsComplete == (wait # "none" \/ cont # <<>>) ~> (wait = "none" /\ cont = <<>>)

(* Data written before a flush() is eventually handed to the sink, also  *)
(* when the flush is batched and later writes cancel or join it, unless  *)
(* a sink call failed and the failure was reported to the caller.        *)
FlushedDataSent ==
  \A k \in 1..MaxData : (flushMark >= k) ~> (Len(wire) >= k \/ delivered # {})

=============================================================================

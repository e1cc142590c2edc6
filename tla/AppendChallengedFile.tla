------------------------- MODULE AppendChallengedFile -------------------------
(***************************************************************************)
(* append_challenged_posix_file_impl (src/core/reactor.cc): a file on a   *)
(* filesystem where writes that extend the file must not run concurrently *)
(* with other operations.  Reads, writes, truncates and (in sloppy-size   *)
(* mode) flushes are queued in _q; process_queue() first lets             *)
(* optimize_queue() extend the file ahead of a run of appending writes    *)
(* with one speculative ftruncate(), then dispatches queue heads while    *)
(* may_dispatch() allows; each completion decrements the counter chosen   *)
(* at dispatch and calls process_queue() again.  close() waits for the    *)
(* queue to drain and truncates the file to its logical size.             *)
(*                                                                         *)
(* Sizes and offsets are in units of the DMA alignment, so align_up() is  *)
(* the identity.  fileSize is the size of the file on disk, which the     *)
(* code never stores; it is what ftruncate() and writes change.  An op    *)
(* completes in one step (the aio completion and its continuation run on  *)
(* the reactor thread); a syscall may fail when SyscallsMayFail.          *)
(***************************************************************************)
EXTENDS Integers, Sequences, SequencesExt, FiniteSets

CONSTANTS
  OpSpecs,             \* the operations callers issue: [type, pos, len]
  InitSizes,           \* possible sizes of the file when it is opened
  SloppyHint,          \* options.sloppy_size_hint
  SloppyModes,         \* possible options.sloppy_size: subset of BOOLEAN
  MaxSizeChangingOps,  \* _max_size_changing_ops
  MaxOps,              \* bound on the operations callers issue
  SyscallsMayFail      \* whether ftruncate(), writes and truncates may fail
                       \* and writes may be short

VARIABLES
  sloppy,       \* _sloppy_size
  q,            \* _q: queued ops [id, type, pos, len]
  inflight,     \* dispatched ops with the counter they hold
  csc,          \* _current_size_changing_ops
  cnsc,         \* _current_non_size_changing_ops
  logical,      \* _logical_size
  committed,    \* _committed_size
  fileSize,     \* size of the file on disk
  done,         \* _done
  completed,    \* _completed has been set
  closeCalled,  \* close() has been called
  closed,       \* close()'s continuation has run
  issued        \* operations issued so far (ids)

vars == <<sloppy, q, inflight, csc, cnsc, logical, committed, fileSize,
          done, completed, closeCalled, closed, issued>>

MaxOf(a, b) == IF a >= b THEN a ELSE b
MinOf(a, b) == IF a <= b THEN a ELSE b

(* Outcomes of a syscall.                                                  *)
Outcomes == IF SyscallsMayFail THEN {TRUE, FALSE} ELSE {TRUE}

(* The units a write of the op may return: all of them, or, when syscalls *)
(* may fail, fewer (a short write, as on ENOSPC).                          *)
Written(o) == IF SyscallsMayFail /\ o.type = "write" THEN 0..o.len ELSE {o.len}

(* The part of the state process_queue() reads and writes.                 *)
St == [q |-> q, inflight |-> inflight, csc |-> csc, cnsc |-> cnsc,
       committed |-> committed, fileSize |-> fileSize, done |-> done,
       completed |-> completed]

SetSt(st) ==
  /\ q' = st.q /\ inflight' = st.inflight /\ csc' = st.csc /\ cnsc' = st.cnsc
  /\ committed' = st.committed /\ fileSize' = st.fileSize
  /\ done' = st.done /\ completed' = st.completed

-----------------------------------------------------------------------------
(* must_run_alone(): a truncate, or a flush in sloppy-size mode.          *)
must_run_alone(op) ==
  op.type = "truncate" \/ (sloppy /\ op.type = "flush")

(* size_changing(): a write past _committed_size, or must_run_alone().    *)
size_changing(op, comm) ==
  (op.type = "write" /\ op.pos + op.len > comm) \/ must_run_alone(op)

(* Variant of may_dispatch() that only waits for size-changing ops.       *)
may_dispatch_ignoring_readers(op, st) == st.csc = 0

(* may_dispatch(): a size-changing op needs the file to itself; any other *)
(* op waits only for size-changing ones.                                  *)
may_dispatch(op, st) ==
  IF size_changing(op, st.committed) THEN st.csc = 0 /\ st.cnsc = 0
  ELSE st.csc = 0

(* dispatch(): count the op on the counter chosen now, and run it.        *)
dispatch(op, st) ==
  IF size_changing(op, st.committed)
  THEN [st EXCEPT !.csc = @ + 1,
                  !.inflight = @ \cup {[op EXCEPT !.counter = "sc"]}]
  ELSE [st EXCEPT !.cnsc = @ + 1,
                  !.inflight = @ \cup {[op EXCEPT !.counter = "nsc"]}]

(* Variant of optimize_queue() that records the speculative size even    *)
(* when ftruncate() failed.                                               *)
optimize_queue_unchecked(st, ok) ==
  IF st.csc + st.cnsc > 0 THEN st
  ELSE
    LET stop == SelectInSeq(st.q, must_run_alone)
        run  == IF stop = 0 THEN st.q ELSE SubSeq(st.q, 1, stop - 1)
        app  == {i \in 1..Len(run) :
                   run[i].type = "write" /\ run[i].pos + run[i].len > st.committed}
        n    == Cardinality(app)
        spec0 == FoldSet(LAMBDA i, m : MaxOf(run[i].pos + run[i].len, m), st.committed, app)
        spec == IF sloppy /\ spec0 < 2 * st.committed THEN 2 * st.committed ELSE spec0
    IN IF n > MaxSizeChangingOps \/ (n > 0 /\ sloppy)
       THEN [st EXCEPT !.committed = spec,
                       !.fileSize = IF ok THEN spec ELSE @]
       ELSE st

(* optimize_queue(): with nothing in flight, count the appending writes   *)
(* before the first op that must run alone; if there are too many (or any *)
(* in sloppy mode) ftruncate() the file to the furthest write end (in     *)
(* sloppy mode at least twice _committed_size) and commit that size if    *)
(* the call succeeded.                                                     *)
optimize_queue(st, ok) ==
  IF st.csc + st.cnsc > 0 THEN st
  ELSE
    LET stop == SelectInSeq(st.q, must_run_alone)
        run  == IF stop = 0 THEN st.q ELSE SubSeq(st.q, 1, stop - 1)
        app  == {i \in 1..Len(run) :
                   run[i].type = "write" /\ run[i].pos + run[i].len > st.committed}
        n    == Cardinality(app)
        spec0 == FoldSet(LAMBDA i, m : MaxOf(run[i].pos + run[i].len, m), st.committed, app)
        spec == IF sloppy /\ spec0 < 2 * st.committed THEN 2 * st.committed ELSE spec0
    IN IF (n > MaxSizeChangingOps \/ (n > 0 /\ sloppy)) /\ ok
       THEN [st EXCEPT !.committed = spec, !.fileSize = spec]
       ELSE st

(* The loop of process_queue(): dispatch queue heads while allowed.       *)
RECURSIVE DispatchHeads(_)
DispatchHeads(st) ==
  IF st.q # <<>> /\ may_dispatch(Head(st.q), st)
  THEN DispatchHeads(dispatch(Head(st.q), [st EXCEPT !.q = Tail(@)]))
  ELSE st

(* may_quit(): close() was called and nothing is queued or running.       *)
may_quit(st) == st.done /\ st.q = <<>> /\ st.csc = 0 /\ st.cnsc = 0

(* Variant of process_queue() that never signals _completed.             *)
process_queue_no_quit(st, ok) == DispatchHeads(optimize_queue(st, ok))

(* process_queue(); ok is the outcome of optimize_queue()'s ftruncate().  *)
process_queue(st, ok) ==
  LET s == DispatchHeads(optimize_queue(st, ok))
  IN IF may_quit(s) THEN [s EXCEPT !.completed = TRUE, !.done = FALSE] ELSE s

-----------------------------------------------------------------------------
(* The constructor: both sizes are the file's size; in sloppy-size mode  *)
(* the file is extended to the size hint, ignoring a failed ftruncate(). *)
Init ==
  /\ sloppy \in SloppyModes
  /\ logical \in InitSizes
  /\ fileSize \in IF sloppy /\ logical < SloppyHint
                  THEN {IF ok THEN SloppyHint ELSE logical : ok \in Outcomes}
                  ELSE {logical}
  /\ committed = fileSize
  /\ q = <<>> /\ inflight = {} /\ csc = 0 /\ cnsc = 0
  /\ done = FALSE /\ completed = FALSE
  /\ closeCalled = FALSE /\ closed = FALSE /\ issued = 0

(* Callers issue operations until they close the file ("Caller should    *)
(* have drained all pending I/O").                                         *)
CanIssue == ~closeCalled /\ issued < MaxOps

(* enqueue(): append the op to _q and run process_queue().               *)
enqueue(op) ==
  \E ok \in Outcomes :
    SetSt(process_queue([St EXCEPT !.q = Append(@, op)], ok))

(* Variant of read_dma() without the early return for reads at or past   *)
(* the logical size.                                                       *)
read_dma_unchecked(pos, len) ==
  /\ CanIssue
  /\ issued' = issued + 1
  /\ enqueue([id |-> issued + 1, type |-> "read", pos |-> pos,
              len |-> MinOf(pos + len, logical) - pos, counter |-> "none"])
  /\ UNCHANGED <<sloppy, logical, closeCalled, closed>>

(* read_dma(): a read at or past the logical size returns 0 at once;      *)
(* otherwise its length is clipped to the logical size now, and it is     *)
(* queued.                                                                 *)
read_dma(pos, len) ==
  /\ CanIssue
  /\ issued' = issued + 1
  /\ IF pos >= logical
     THEN UNCHANGED <<q, inflight, csc, cnsc, committed, fileSize, done, completed>>
     ELSE enqueue([id |-> issued + 1, type |-> "read", pos |-> pos,
                   len |-> MinOf(pos + len, logical) - pos, counter |-> "none"])
  /\ UNCHANGED <<sloppy, logical, closeCalled, closed>>

(* The iovec read_dma(): a read at or past the logical size returns 0 at  *)
(* once; otherwise it keeps the leading iovecs that end within the        *)
(* logical size (their total is the op's len), and if an iovec is left,   *)
(* keeps it with its length set to pos + len + iov_len -                  *)
(* aligned_logical_size and drops the rest.  The op records the length   *)
(* the syscall reads: the kept iovecs together.                           *)
read_dma_iov(pos, iov) ==
  LET whole == {k \in 0..Len(iov) : pos + FoldSeq(+, 0, SubSeq(iov, 1, k)) <= logical}
      k     == Max(whole)
      len   == FoldSeq(+, 0, SubSeq(iov, 1, k))
      last  == IF k < Len(iov) THEN pos + len + iov[k + 1] - logical ELSE 0
  IN /\ CanIssue
     /\ issued' = issued + 1
     /\ IF pos >= logical
        THEN UNCHANGED <<q, inflight, csc, cnsc, committed, fileSize, done, completed>>
        ELSE enqueue([id |-> issued + 1, type |-> "read", pos |-> pos,
                      len |-> len + last, counter |-> "none"])
     /\ UNCHANGED <<sloppy, logical, closeCalled, closed>>

(* write_dma(): queued as is.                                               *)
write_dma(pos, len) ==
  /\ CanIssue
  /\ issued' = issued + 1
  /\ enqueue([id |-> issued + 1, type |-> "write", pos |-> pos, len |-> len,
              counter |-> "none"])
  /\ UNCHANGED <<sloppy, logical, closeCalled, closed>>

(* truncate(length): queued, with the length in the op's pos.             *)
truncate(length) ==
  /\ CanIssue
  /\ issued' = issued + 1
  /\ enqueue([id |-> issued + 1, type |-> "truncate", pos |-> length, len |-> 0,
              counter |-> "none"])
  /\ UNCHANGED <<sloppy, logical, closeCalled, closed>>

(* flush(): without sloppy size, or with the sizes equal, a plain fdatasync *)
(* that bypasses the queue and changes no size; otherwise a queued op.    *)
flush ==
  /\ CanIssue
  /\ issued' = issued + 1
  /\ IF ~sloppy \/ logical = committed
     THEN UNCHANGED <<q, inflight, csc, cnsc, committed, fileSize, done, completed>>
     ELSE enqueue([id |-> issued + 1, type |-> "flush", pos |-> 0, len |-> 0,
                   counter |-> "none"])
  /\ UNCHANGED <<sloppy, logical, closeCalled, closed>>

(* An op issued with parameters from OpSpecs.                             *)
Issue ==
  \E o \in OpSpecs :
    CASE o.type = "read"     -> read_dma(o.pos, o.len)
      [] o.type = "readv"    -> read_dma_iov(o.pos, o.iov)
      [] o.type = "write"    -> write_dma(o.pos, o.len)
      [] o.type = "truncate" -> truncate(o.pos)
      [] o.type = "flush"    -> flush

(* The sizes before an op's run().                                        *)
SizesNow == [logical |-> logical, committed |-> committed, fileSize |-> fileSize]

(* write_dma()'s op: a write that returns ret units commits pos + ret   *)
(* (commit_size()), which a short write leaves below the op's end; a      *)
(* failed one changes nothing.                                             *)
write_op(o, ok, ret) ==
  IF ok
  THEN [logical |-> MaxOf(o.pos + ret, logical),
        committed |-> MaxOf(o.pos + ret, committed),
        fileSize |-> MaxOf(o.pos + ret, fileSize)]
  ELSE SizesNow

(* truncate()'s op: on success both sizes become the length.              *)
truncate_op(o, ok) ==
  IF ok THEN [logical |-> o.pos, committed |-> o.pos, fileSize |-> o.pos]
  ELSE SizesNow

(* flush()'s queued op: if the sizes differ, ftruncate() the file to the  *)
(* logical size, throwing on failure before _committed_size changes, then *)
(* fdatasync().                                                            *)
flush_op(ok) ==
  IF logical # committed /\ ok
  THEN [logical |-> logical, committed |-> logical, fileSize |-> logical]
  ELSE SizesNow

(* candidate.run() in dispatch(): the sizes after the op's syscall, ok   *)
(* being its outcome and ret the units a write wrote; a read changes      *)
(* nothing.                                                                *)
run(o, ok, ret) ==
  CASE o.type = "read"     -> SizesNow
    [] o.type = "write"    -> write_op(o, ok, ret)
    [] o.type = "truncate" -> truncate_op(o, ok)
    [] o.type = "flush"    -> flush_op(ok)

(* An op completes: run()'s continuation, then dispatch()'s: decrement   *)
(* the counter chosen at dispatch and run process_queue().                *)
Complete(o) ==
  /\ o \in inflight
  /\ \E ok \in Outcomes, ok2 \in Outcomes, ret \in Written(o) :
       LET r  == run(o, ok, ret)
           st == [St EXCEPT !.inflight = @ \ {o},
                            !.csc = IF o.counter = "sc" THEN @ - 1 ELSE @,
                            !.cnsc = IF o.counter = "nsc" THEN @ - 1 ELSE @,
                            !.committed = r.committed, !.fileSize = r.fileSize]
       IN /\ logical' = r.logical
          /\ SetSt(process_queue(st, ok2))
  /\ UNCHANGED <<sloppy, closeCalled, closed, issued>>

(* close(): set _done and run process_queue().                             *)
Close ==
  /\ ~closeCalled
  /\ closeCalled' = TRUE
  /\ \E ok \in Outcomes : SetSt(process_queue([St EXCEPT !.done = TRUE], ok))
  /\ UNCHANGED <<sloppy, logical, closed, issued>>

(* close()'s continuation once _completed is set: truncate the file to   *)
(* the logical size if the sizes differ, ignoring a failure, and close   *)
(* the descriptor.                                                         *)
CloseFinish ==
  /\ completed /\ ~closed
  /\ closed' = TRUE
  /\ \E ok \in Outcomes :
       IF logical # committed /\ ok
       THEN committed' = logical /\ fileSize' = logical
       ELSE UNCHANGED <<committed, fileSize>>
  /\ UNCHANGED <<sloppy, q, inflight, csc, cnsc, logical, done, completed,
                 closeCalled, issued>>

Next ==
  \/ Issue
  \/ \E o \in inflight : Complete(o)
  \/ Close
  \/ CloseFinish

(* The kernel completes every submitted aio and the reactor runs its     *)
(* continuation, so no dispatched op stays in flight for ever (an op      *)
(* leaves inflight only through Complete(o), so this is weak fairness of *)
(* Complete(o) for each op); close()'s continuation runs once _completed *)
(* is set.  Issuing and closing are up to the caller.                     *)
Fairness ==
  /\ \A i \in 1..MaxOps : []<>(i \notin {o.id : o \in inflight})
  /\ WF_vars(CloseFinish)

Spec == Init /\ [][Next]_vars /\ Fairness

-----------------------------------------------------------------------------
Ops == [id : 1..MaxOps, type : {"read", "write", "truncate", "flush"},
        pos : Nat, len : Nat, counter : {"none", "sc", "nsc"}]

TypeOK ==
  /\ sloppy \in BOOLEAN
  /\ q \in Seq(Ops) /\ inflight \subseteq Ops
  /\ csc \in Nat /\ cnsc \in Nat
  /\ {logical, committed, fileSize} \subseteq Nat
  /\ {done, completed, closeCalled, closed} \subseteq BOOLEAN
  /\ issued \in 0..MaxOps

(* An op that changes the size of the file on disk, judged against the   *)
(* file as it is, not against _committed_size.                            *)
ChangesFileSize(o) ==
  \/ o.type = "truncate"
  \/ sloppy /\ o.type = "flush"
  \/ o.type = "write" /\ o.pos + o.len > fileSize

(* Whatever the order of issue and completion, an op that changes the    *)
(* file's size on disk (a truncate, a sloppy flush, a write past the end  *)
(* of the file) never runs together with another op: may_dispatch() and   *)
(* the counter chosen by dispatch() keep it alone, and optimize_queue()'s *)
(* speculative ftruncate() lets appending writes run together only once   *)
(* they no longer extend the file (spec.md 4.6).                           *)
SizeChangesRunAlone ==
  \A o \in inflight : ChangesFileSize(o) => inflight = {o}

(* _committed_size is the size of the file on disk and the logical size  *)
(* never exceeds it, whichever ftruncate(), write or truncate failed:      *)
(* size_changing() relies on it to let writes below _committed_size run    *)
(* concurrently.                                                           *)
SizesConsistent ==
  logical <= committed /\ committed = fileSize

(* The logical size once the writes in flight have completed.            *)
LogicalAfterWrites ==
  FoldSet(LAMBDA o, m : IF o.type = "write" THEN MaxOf(o.pos + o.len, m) ELSE m,
          logical, inflight)

(* A read never returns bytes past the end of the file in any order of    *)
(* the ops running alongside it: a read in flight stops at the end of the *)
(* file on disk or at its own end, and either is within the logical size  *)
(* the file has once the writes in flight complete.  read_dma() clips the *)
(* length against _logical_size when it is called, before the ops queued  *)
(* ahead of it run.                                                        *)
ReadsWithinLogicalSize ==
  \A o \in inflight :
    o.type = "read" => MinOf(o.pos + o.len, fileSize) <= LogicalAfterWrites

(* close() completes: once it is called, the queue drains, _completed is  *)
(* set and the final truncate and close run.                              *)
CloseCompletes == closeCalled ~> closed

=============================================================================

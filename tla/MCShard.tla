------------------------------- MODULE MCShard -------------------------------
(***************************************************************************)
(* The components of one shard that share no variable of the model, in   *)
(* one harness: the task scheduler of run_some_tasks() (TaskScheduler,    *)
(* with the constants of MCTaskScheduler), the stall detector's timer     *)
(* thread (StallDetector), the buffered output_stream (OutputStream), the *)
(* multi-producer packet_queue through which other threads hand packets   *)
(* to the reactor (PacketQueue), and a channel's broken flag and          *)
(* reconnection (Channel), and a connection's input side: the native     *)
(* stack's data source, the input_stream and a Ragel parser (InputStream), *)
(* on a server's connection with the HTTP request parser ("input") or on a *)
(* client's with the HTTP response parser ("responses").  The timer        *)
(* thread's preemption request is the                                      *)
(* scheduler's Preempt action, and a channel's put() is the packet        *)
(* queue's Put.  part chooses, in the initial state, which component a    *)
(* behaviour runs; the others stay in an initial state.                    *)
(***************************************************************************)
EXTENDS MCTaskScheduler

CONSTANTS
  Threshold, MaxReports, TicksPerMinute, WordBits, UBits, MaxTime,
  Size, WriteSizes, Modes, BatchModes, TrimModes, MaxWrites, MaxErrors,
  Producers, Slots, NullSlot, MaxPackets,
  Threads, MaxFailures,
  p1, p2, t1, t2

VARIABLES
  now, rpc, armed, startSleep, missed, progress, tpc, reportAt, stalled,
  savedMissed, reported, rlTicks, warnings, opened, taskTicks,
  mode, batch, trim, buf, flushFlag, flushing, inBatch, futures, inPoller,
  round, ex, errs, delivered, wire, issued, writes, wait, cont, failed,
  flushMark, closeCalled, closed, closeFailed,
  index, slots, mine, ppc, pkt, q, nextPkt, taken,
  broken, reconnecting, cpc, funcRunning, conn, noticed, failures,
  sentTo, peerFin, rxq, dsPkt, dsFrag, dsEof, inBuf, inEof, reader, parser,
  received,
  part

SD == INSTANCE StallDetector
OS == INSTANCE OutputStream
PQ == INSTANCE PacketQueue
CH == INSTANCE Channel
(* InputStream, with the messages of MCInputStream: two pipelined         *)
(* requests (IS) or two pipelined responses (IR), cut into segments inside *)
(* tokens, after a header's colon and at the boundary.                     *)
IMC == INSTANCE MCInputStream
IS == INSTANCE InputStream
        WITH Wire <- IMC!RequestWire(IMC!MCRequests), Cuts <- IMC!MCCuts,
             Expected <- IMC!ExpectedRequests(IMC!MCRequests),
             InitialParser <- IMC!Req!InitialParser, parse <- IMC!Req!parse,
             init <- IMC!Req!init
IR == INSTANCE InputStream
        WITH Wire <- IMC!ResponseWire(IMC!MCResponses), Cuts <- IMC!MCResponseCuts,
             Expected <- IMC!ExpectedResponses(IMC!MCResponses),
             InitialParser <- IMC!Rsp!InitialParser, parse <- IMC!Rsp!parse,
             init <- IMC!Rsp!init

(* StallDetector: as in MCStallDetector. *)
MCThreshold == 1
MCMaxReports == 1
MCTicksPerMinute == 6
MCWordBits == 4
MCUBits == 3
MCMaxTime == 10
(* OutputStream: as in MCOutputStream. *)
MCSize == 2
MCWriteSizes == {1, 2, 3}
MCModes == {"buffered", "zc"}
MCBatchModes == {FALSE, TRUE}
MCTrimModes == {FALSE, TRUE}
MCMaxWrites == 3
MCMaxErrors == 2
(* PacketQueue: two producer threads and as many slots, three packets, so *)
(* that the second thread's packets wait behind the first one's slot.     *)
MCProducers == {p1, p2}
MCSlots == 2
MCMaxPackets == 3
(* Channel: two reconnecting threads and two connection failures. *)
MCThreads == {t1, t2}
MCMaxFailures == 2

sdVars == <<now, rpc, armed, startSleep, missed, progress, tpc, reportAt,
            stalled, savedMissed, reported, rlTicks, warnings, opened, taskTicks>>
osVars == <<mode, batch, trim, buf, flushFlag, flushing, inBatch, futures,
            inPoller, round, ex, errs, delivered, wire, issued, writes, wait,
            cont, failed, flushMark, closeCalled, closed, closeFailed>>
pqVars == <<index, slots, mine, ppc, pkt, q, nextPkt, taken>>
chVars == <<broken, reconnecting, cpc, funcRunning, conn, noticed, failures>>
inVars == <<sentTo, peerFin, rxq, dsPkt, dsFrag, dsEof, inBuf, inEof, reader,
            parser, received>>

Parts == {"scheduler", "stall", "stream", "packets", "channel", "input", "responses"}

\* A stream frozen while another part runs is in one initial state.
ShardInit ==
  /\ part \in Parts
  /\ Init /\ SD!Init /\ OS!Init /\ PQ!Init /\ CH!Init
  /\ IF part = "responses" THEN IR!Init ELSE IS!Init
  /\ part # "stream" => mode = "buffered" /\ ~batch /\ ~trim

\* A step of one part, the others unchanged.
SchedulerStep(A) == part = "scheduler" /\ A /\ UNCHANGED <<sdVars, osVars, pqVars, chVars, inVars, part>>
StallStep(A) == part = "stall" /\ A /\ UNCHANGED <<vars, osVars, pqVars, chVars, inVars, part>>
StreamStep(A) == part = "stream" /\ A /\ UNCHANGED <<vars, sdVars, pqVars, chVars, inVars, part>>
PacketsStep(A) == part = "packets" /\ A /\ UNCHANGED <<vars, sdVars, osVars, chVars, inVars, part>>
ChannelStep(A) == part = "channel" /\ A /\ UNCHANGED <<vars, sdVars, osVars, pqVars, inVars, part>>
\* A step of the input side: A of a server's, B of a client's.
InputStep(A, B) ==
  /\ \/ part = "input" /\ A
     \/ part = "responses" /\ B
  /\ UNCHANGED <<vars, sdVars, osVars, pqVars, chVars, part>>

ShardNext ==
  \/ SchedulerStep(Next) \/ StallStep(SD!Next) \/ StreamStep(OS!Next)
  \/ PacketsStep(PQ!Next) \/ ChannelStep(CH!Next) \/ InputStep(IS!Next, IR!Next)

shardVars == <<vars, sdVars, osVars, pqVars, chVars, inVars, part>>

(* Each component's fairness (TaskScheduler's, OutputStream's,            *)
(* PacketQueue's and InputStream's Fairness), in the behaviours that run  *)
(* it.                                                                     *)
ShardFairness ==
  /\ WF_shardVars(SchedulerStep(StartRunSomeTasks))
  /\ WF_shardVars(SchedulerStep(Pick)) /\ WF_shardVars(SchedulerStep(RunTask))
  /\ WF_shardVars(SchedulerStep(TaskDone))
  /\ WF_shardVars(SchedulerStep(\E r \in Runtimes : Account(r)))
  /\ WF_shardVars(SchedulerStep(Preempt))
  /\ WF_shardVars(StreamStep(OS!CallerStep)) /\ WF_shardVars(StreamStep(OS!SinkDone))
  /\ WF_shardVars(StreamStep(OS!Poller)) /\ WF_shardVars(StreamStep(OS!RoundPutDone))
  /\ WF_shardVars(StreamStep(OS!RoundFlushDone))
  /\ \A p \in Producers : /\ WF_shardVars(PacketsStep(PQ!Publish(p)))
                          /\ WF_shardVars(PacketsStep(PQ!Push(p)))
  /\ WF_shardVars(PacketsStep(PQ!Dequeue))
  /\ WF_shardVars(InputStep(IS!ConsumeGet, IR!ConsumeGet))
  /\ WF_shardVars(InputStep(IS!ReaderNext, IR!ReaderNext))
  /\ \/ []<>~(part \in {"input", "responses"} /\ IS!ConsumeFeedEnabled)
     \/ []<><<InputStep(IS!ConsumeFeed, IR!ConsumeFeed)>>_shardVars

ShardSpec == ShardInit /\ [][ShardNext]_shardVars /\ ShardFairness

(* The variables of every component have their types. *)
ShardTypeOK ==
  /\ part \in Parts
  /\ TypeOK /\ SD!TypeOK /\ OS!TypeOK /\ PQ!TypeOK /\ CH!TypeOK
  /\ IF part = "responses" THEN IR!TypeOK ELSE IS!TypeOK

(* The stall counter measures the quotas spent in one run_some_tasks(). *)
StallMeasured == SD!StallMeasured

(* The bytes reach the sink in the order they were written. *)
BytesInOrder == OS!BytesInOrder

(* close() hands every byte written to the sink. *)
CloseSendsAll == OS!CloseSendsAll

(* Every output_stream call's future resolves. *)
CallsComplete == OS!CallsComplete

(* The data of a completed flush() reaches the sink. *)
FlushedDataSent == OS!FlushedDataSent

(* Every packet put reaches the reactor's packet poller. *)
PacketsDelivered == PQ!PacketsDelivered

(* One reconnection of a channel runs at a time. *)
ReconnectExclusive == CH!ReconnectExclusive

(* The reader takes the requests (responses) the peer sent, in order,     *)
(* however the segments cut them.                                          *)
MessagesReceived ==
  IF part = "responses" THEN IR!MessagesReceived ELSE IS!MessagesReceived

(* Once the peer has sent everything and closed, every request (response) *)
(* is taken and the reader stops at a clean end of input.                  *)
MessagesServed ==
  (IF part = "responses" THEN IR!AllSent ELSE IS!AllSent)
    ~> (IF part = "responses" THEN IR!AllTaken ELSE IS!AllTaken)

=============================================================================

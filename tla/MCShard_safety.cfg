\* Sorted active list, exact queue membership and preemption requests ending
\* run_some_tasks() unless the running queue is over its backlog; the stall
\* counter measuring the time in a task; the output_stream handing the sink
\* every byte in order and completing every call with failing sink calls;
\* every packet put reaching the packet poller; channel reconnections running
\* one at a time; the input stream handing the reader every request or
\* response, however the segments cut the bytes.
CONSTANTS
  q1 = q1
  q2 = q2
  q3 = q3
  NoQueue = NoQueue
  Queues <- MCQueues
  Shares <- MCShares
  Shift <- MCShift
  TaskQuota <- MCTaskQuota
  Runtimes <- MCRuntimesLong
  MaxTaskBacklog <- MCMaxTaskBacklogLow
  MaxQueued <- MCMaxQueued
  Threshold <- MCThreshold
  MaxReports <- MCMaxReports
  TicksPerMinute <- MCTicksPerMinute
  WordBits <- MCWordBits
  UBits <- MCUBits
  MaxTime <- MCMaxTime
  Size <- MCSize
  WriteSizes <- MCWriteSizes
  Modes <- MCModes
  BatchModes <- MCBatchModes
  TrimModes <- MCTrimModes
  MaxWrites <- MCMaxWrites
  MaxErrors <- MCMaxErrors
  p1 = p1
  p2 = p2
  t1 = t1
  t2 = t2
  NullSlot = NullSlot
  Producers <- MCProducers
  Slots <- MCSlots
  MaxPackets <- MCMaxPackets
  Threads <- MCThreads
  MaxFailures <- MCMaxFailures
SPECIFICATION ShardSpec
\* The stream is closed, and the packets and the channel's failures run out.
CHECK_DEADLOCK FALSE
INVARIANTS
  ShardTypeOK
  ActiveSorted
  QueueMembership
  StallMeasured
  BytesInOrder
  CloseSendsAll
  ReconnectExclusive
  MessagesReceived
PROPERTIES
  PreemptionHonoured
  CallsComplete
  FlushedDataSent
  PacketsDelivered
  MessagesServed

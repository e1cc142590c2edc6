\* Several shards: smp work items always wake the sleeping reactor.
CONSTANTS
  SmpPoller = TRUE
  MaxMsgs <- MCMaxMsgs
  RingCapacity <- MCRingCapacity
  MaxPackets <- MCMaxPackets
  QueueLength <- MCQueueLength
  MaxSyscalls <- MCMaxSyscalls
  Timers <- MCLoadOnly
  Period <- MCPeriod
  CallbackTimers <- MCNoCallbacks
  LoadTimer <- MCLoadTimer
  Delays <- MCDelays
  MaxTime <- MCMaxTime
SPECIFICATION Spec
INVARIANTS
  TypeOK
  SmpWakeupNotLost
  RoomConserved
  SyscallWakeupNotLost
PROPERTIES
  SmpItemsPolled
  SyscallsComplete
VIEW MCView

\* Packets enqueued through channel::put(): can the reactor sleep on them?
CONSTANTS
  SmpPoller = TRUE
  MaxMsgs <- MCMaxMsgs
  RingCapacity <- MCRingCapacity
  MaxPackets <- MCMaxPackets
  QueueLength <- MCQueueLength
  MaxSyscalls <- MCMaxSyscalls
  Timers <- MCLoadOnly
  Period <- MCPeriod
  CallbackTimers <- MCNoCallbacks
  LoadTimer <- MCLoadTimer
  Delays <- MCDelays
  MaxTime <- MCMaxTime
SPECIFICATION Spec
INVARIANT PacketWakeupNotLost

\* Lowres timers armed, cancelled and fired across sleeps: none is missed.
CONSTANTS
  SmpPoller = TRUE
  MaxMsgs <- MCNone
  RingCapacity <- MCRingCapacity
  MaxPackets <- MCNone
  QueueLength <- MCQueueLength
  MaxSyscalls <- MCNone
  Timers <- MCTimers
  Period <- MCPeriod
  CallbackTimers <- MCCallbackTimers
  LoadTimer <- MCLoadTimer
  Delays <- MCDelays
  MaxTime <- MCMaxTimeLong
SPECIFICATION Spec
INVARIANTS
  NextTimeoutNotLate
  TimerWakeupNotLost
PROPERTIES
  TimersFire
VIEW MCView

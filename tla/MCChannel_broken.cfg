\* A set_channel_broken() during a reconnect() of a healthy channel.
CONSTANTS
  t1 = t1
  t2 = t2
  Threads <- MCThreads
  MaxFailures <- MCMaxFailures
SPECIFICATION Spec
CHECK_DEADLOCK FALSE
INVARIANT BrokenNotLost

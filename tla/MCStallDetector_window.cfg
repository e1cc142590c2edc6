\* The rate limiter's window can close early after the reactor slept.
CONSTANTS
  Threshold <- MCThreshold
  MaxReports <- MCMaxReports
  TicksPerMinute <- MCTicksPerMinute
  WordBits <- MCWordBits
  UBits <- MCUBits
  MaxTime <- MCMaxTime
SPECIFICATION Spec
PROPERTY MinuteWindow

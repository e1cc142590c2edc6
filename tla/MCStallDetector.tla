--------------------------- MODULE MCStallDetector ---------------------------
(* A report threshold of one quota, one report per minute, a minute of    *)
(* six quotas, and 4-bit uint64_t and 3-bit unsigned: a sleep of two      *)
(* quotas adds 14 missed ticks, which tick() receives as 6.               *)
EXTENDS StallDetector

MCThreshold == 1
MCMaxReports == 1
MCTicksPerMinute == 6
MCWordBits == 4
MCUBits == 3
MCMaxTime == 10
=============================================================================

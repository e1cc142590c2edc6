------------------------------- MODULE Channel -------------------------------
(***************************************************************************)
(* The broken flag and reconnection of a channel (channel.cc).  Any       *)
(* thread may call set_channel_broken() and reconnect(); reconnect()      *)
(* takes the atomic_flag _is_reconnecting with test_and_set(), reads       *)
(* _is_channel_broken and either hands reconnect_done to the user's        *)
(* _reconnect_func, which reconnects and calls it later, or calls          *)
(* reconnect_done() itself.  reconnect_done() clears _is_channel_broken,   *)
(* then _is_reconnecting.                                                  *)
(*                                                                         *)
(* The connection under the channel is the ghost conn: it fails, the      *)
(* thread that notices calls set_channel_broken(), and a completed        *)
(* _reconnect_func leaves a fresh connection.  _reconnect_func is set     *)
(* before use (set_channel_reconnect_func) and is not null here.           *)
(***************************************************************************)
EXTENDS Naturals, FiniteSets

CONSTANTS
  Threads,      \* the threads that call reconnect()
  MaxFailures   \* bound on the connection failures

VARIABLES
  broken,       \* _is_channel_broken
  reconnecting, \* _is_reconnecting
  cpc,          \* each thread: "idle", "check" (holds the flag), "done"
                \* (read the flag clear, about to call reconnect_done())
  funcRunning,  \* _reconnect_func is reconnecting and will call reconnect_done
  conn,         \* the connection: "up" or "down"
  noticed,      \* set_channel_broken() was called since conn went down
  failures      \* connection failures so far

vars == <<broken, reconnecting, cpc, funcRunning, conn, noticed, failures>>

-----------------------------------------------------------------------------
\* reconnect_done(): the two stores, in the code's order.
reconnect_done ==
  /\ broken' = FALSE
  /\ reconnecting' = FALSE

Init ==
  /\ broken = FALSE /\ reconnecting = FALSE
  /\ cpc = [t \in Threads |-> "idle"]
  /\ funcRunning = FALSE
  /\ conn = "up" /\ noticed = FALSE /\ failures = 0

\* The connection fails.
Fail ==
  /\ conn = "up" /\ failures < MaxFailures
  /\ conn' = "down" /\ noticed' = FALSE
  /\ failures' = failures + 1
  /\ UNCHANGED <<broken, reconnecting, cpc, funcRunning>>

\* set_channel_broken(), by a thread that noticed the failure.
SetChannelBroken ==
  /\ conn = "down"
  /\ broken' = TRUE /\ noticed' = TRUE
  /\ UNCHANGED <<reconnecting, cpc, funcRunning, conn, failures>>

\* A variant of reconnect() that does not take _is_reconnecting.
ReconnectUnguarded(t) ==
  /\ cpc[t] = "idle"
  /\ reconnecting' = TRUE
  /\ cpc' = [cpc EXCEPT ![t] = "check"]
  /\ UNCHANGED <<broken, funcRunning, conn, noticed, failures>>

\* reconnect(): test_and_set() finds the flag clear and sets it.  When it
\* finds it set the call returns and changes nothing.
Reconnect(t) ==
  /\ cpc[t] = "idle"
  /\ ~reconnecting
  /\ reconnecting' = TRUE
  /\ cpc' = [cpc EXCEPT ![t] = "check"]
  /\ UNCHANGED <<broken, funcRunning, conn, noticed, failures>>

\* reconnect() reads _is_channel_broken: set, it calls _reconnect_func and
\* returns; clear, it goes on to reconnect_done().
CheckBroken(t) ==
  /\ cpc[t] = "check"
  /\ IF broken
     THEN /\ funcRunning' = TRUE
          /\ cpc' = [cpc EXCEPT ![t] = "idle"]
     ELSE /\ cpc' = [cpc EXCEPT ![t] = "done"]
          /\ UNCHANGED funcRunning
  /\ UNCHANGED <<broken, reconnecting, conn, noticed, failures>>

\* reconnect() calls reconnect_done() on a channel it found not broken.
ReconnectDone(t) ==
  /\ cpc[t] = "done"
  /\ reconnect_done
  /\ cpc' = [cpc EXCEPT ![t] = "idle"]
  /\ UNCHANGED <<funcRunning, conn, noticed, failures>>

\* _reconnect_func has a new connection and calls reconnect_done().
FuncDone ==
  /\ funcRunning
  /\ reconnect_done
  /\ funcRunning' = FALSE
  /\ conn' = "up" /\ noticed' = FALSE
  /\ UNCHANGED <<cpc, failures>>

Next ==
  \/ Fail \/ SetChannelBroken \/ FuncDone
  \/ \E t \in Threads : Reconnect(t) \/ CheckBroken(t) \/ ReconnectDone(t)

Spec == Init /\ [][Next]_vars

-----------------------------------------------------------------------------
TypeOK ==
  /\ {broken, reconnecting, funcRunning, noticed} \subseteq BOOLEAN
  /\ cpc \in [Threads -> {"idle", "check", "done"}]
  /\ conn \in {"up", "down"} /\ failures \in 0..MaxFailures

(***************************************************************************)
(* _is_reconnecting lets one reconnection run at a time: at most one      *)
(* thread is between its test_and_set() and reconnect_done(), and none    *)
(* while _reconnect_func is running.                                       *)
(***************************************************************************)
ReconnectExclusive ==
  Cardinality({t \in Threads : cpc[t] # "idle"})
    + (IF funcRunning THEN 1 ELSE 0) <= 1

(***************************************************************************)
(* A failure noticed with set_channel_broken() is not forgotten: while   *)
(* the connection is down and was noticed, is_channel_broken() returns    *)
(* true or a _reconnect_func is running to replace the connection, so a   *)
(* caller that reconnects broken channels will repair it.                  *)
(***************************************************************************)
BrokenNotLost ==
  (conn = "down" /\ noticed) => (broken \/ funcRunning)

=============================================================================

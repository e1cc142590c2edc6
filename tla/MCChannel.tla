------------------------------ MODULE MCChannel ------------------------------
(* Two threads that reconnect and two connection failures: enough for one *)
(* reconnection through _reconnect_func and a failure that races with a  *)
(* reconnect() finding the channel healthy.                               *)
EXTENDS Channel

CONSTANTS t1, t2

MCThreads == {t1, t2}
MCMaxFailures == 2
=============================================================================

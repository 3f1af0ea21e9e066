---------------------------- MODULE MCDaemonStart ----------------------------
(* Model-checking instance of the start of the daemon. *)
EXTENDS DaemonStart
=============================================================================

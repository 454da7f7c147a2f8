---------------------------- MODULE MCLogSender ----------------------------
(* LogSender for TLC: the constants of each run are in its configuration.   *)
EXTENDS LogSender
=============================================================================

---------------------------- MODULE MCIdleWatchdog ----------------------------
(* TLC instance of IdleWatchdog. *)
EXTENDS IdleWatchdog
==============================================================================

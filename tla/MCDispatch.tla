----------------------------- MODULE MCDispatch -----------------------------
(* TLC instance of Dispatch; its constants are in the .cfg file. *)
EXTENDS Dispatch
==============================================================================

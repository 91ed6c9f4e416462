---------------------------- MODULE MCRunHistory ----------------------------
(* TLC instance of RunHistory; its constants are in the .cfg file. *)
EXTENDS RunHistory
==============================================================================

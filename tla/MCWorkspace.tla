---------------------------- MODULE MCWorkspace ----------------------------
(* TLC instance of Workspace; its constants are in the .cfg file. *)
EXTENDS Workspace
==============================================================================

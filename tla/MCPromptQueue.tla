---------------------------- MODULE MCPromptQueue ----------------------------
(* TLC instance of PromptQueue; its constants are in the .cfg files. *)
EXTENDS PromptQueue
==============================================================================

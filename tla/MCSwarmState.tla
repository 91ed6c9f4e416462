---------------------------- MODULE MCSwarmState ----------------------------
(* TLC instance of SwarmState; its constants are in the .cfg file.  Shells *)
(* and tasks are interchangeable: no property names one of them.           *)
EXTENDS SwarmState, TLC

Interchangeable == Permutations(Shell) \cup Permutations(Task)
==============================================================================

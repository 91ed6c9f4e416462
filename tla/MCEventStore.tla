---------------------------- MODULE MCEventStore ----------------------------
(* TLC instance of EventStore; its constants are in the .cfg files. *)
EXTENDS EventStore
==============================================================================

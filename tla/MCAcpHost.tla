------------------------------ MODULE MCAcpHost ------------------------------
(* TLC instance of AcpHost; its constants are in the .cfg files. *)
EXTENDS AcpHost
==============================================================================

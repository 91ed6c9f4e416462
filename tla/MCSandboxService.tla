--------------------------- MODULE MCSandboxService ---------------------------
(* TLC instance of SandboxService. *)
EXTENDS SandboxService, TLC

(* Records are interchangeable. *)
Symmetry == Permutations(Sandbox)
==============================================================================

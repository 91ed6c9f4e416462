----------------------------- MODULE DispatchLog -----------------------------
(***************************************************************************)
(* What the webhook listener and its prompt queue promise together, with   *)
(* no registry and no queue: deliveries are accepted into a log, a         *)
(* delivery id is refused while it is among the last Window accepted ones, *)
(* and the log is executed strictly in order, one entry at a time, each    *)
(* entry once.  A restart forgets everything (the service keeps no state). *)
(***************************************************************************)
EXTENDS Integers, Sequences

CONSTANTS Delivery,   \* X-GitHub-Delivery ids
          Window      \* how many accepted deliveries a duplicate is recognised for

VARIABLES log,        \* deliveries accepted since the last boot, in order
          taken,      \* how many of them execution has begun on
          executing   \* the delivery being executed, as a set of at most one

vars == <<log, taken, executing>>

Recent == { log[i] : i \in { k \in DOMAIN log : k > Len(log) - Window } }

Init == log = <<>> /\ taken = 0 /\ executing = {}

Accept(d) ==
  /\ d \notin Recent
  /\ log' = Append(log, d)
  /\ UNCHANGED <<taken, executing>>

Start ==
  /\ executing = {}
  /\ taken < Len(log)
  /\ taken' = taken + 1
  /\ executing' = {log[taken + 1]}
  /\ UNCHANGED log

End ==
  /\ executing # {}
  /\ executing' = {}
  /\ UNCHANGED <<log, taken>>

Forget == log' = <<>> /\ taken' = 0 /\ executing' = {}

Next == \/ \E d \in Delivery : Accept(d)
        \/ Start
        \/ End
        \/ Forget

Spec == Init /\ [][Next]_vars
==============================================================================

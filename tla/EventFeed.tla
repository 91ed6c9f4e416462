------------------------------ MODULE EventFeed ------------------------------
(***************************************************************************)
(* What the event store promises the readers of its feed, with no ring, no *)
(* queues and no fan-out.  Events are published into a log.  A reader that *)
(* opens its feed is due the newest `window` of them, of which it loses    *)
(* what exceeds its capacity, and from then on every event published: each *)
(* is delivered to it once, never past an older one that the same thread   *)
(* emitted, unless it is lost to this reader, which needs more than        *)
(* `capacity` events due to it.                                            *)
(***************************************************************************)
EXTENDS Integers, Sequences, FiniteSets

CONSTANTS Emitter,   \* threads that emit events
          Reader,    \* readers of the feed
          window,    \* how much of the log a new reader is shown
          capacity   \* how many events may be due to a reader before it loses one

VARIABLES by,     \* the emitter of each event id drawn so far
          log,    \* the events published, in order
          state,  \* "new", "open" or "closed", per reader
          due,    \* the events owed to each reader and not delivered yet
          got,    \* the events delivered to each reader, in order
          lost    \* the events each reader was too slow for

vars == <<by, log, state, due, got, lost>>

Init ==
  /\ by = <<>> /\ log = <<>>
  /\ state = [r \in Reader |-> "new"]
  /\ due = [r \in Reader |-> {}]
  /\ got = [r \in Reader |-> <<>>]
  /\ lost = [r \in Reader |-> {}]

Draw(t) ==
  /\ by' = Append(by, t)
  /\ UNCHANGED <<log, state, due, got, lost>>

(* One thread's events are published in the order it drew their ids. *)
Publish(e) ==
  /\ \A k \in DOMAIN log : by[log[k]] = by[e] => log[k] < e
  /\ log' = Append(log, e)
  /\ due' = [r \in Reader |-> IF state[r] = "open" THEN due[r] \cup {e} ELSE due[r]]
  /\ UNCHANGED <<by, state, got, lost>>

(* How much of the log a new reader is not shown. *)
Skipped == IF Len(log) < window THEN 0 ELSE Len(log) - window

Open(r) ==
  /\ state[r] = "new"
  /\ state' = [state EXCEPT ![r] = "open"]
  /\ due'  = [due EXCEPT ![r] =
                { log[k] : k \in { j \in DOMAIN log : Skipped < j /\ j <= Skipped + capacity } }]
  /\ lost' = [lost EXCEPT ![r] =
                { log[k] : k \in { j \in DOMAIN log : Skipped + capacity < j } }]
  /\ UNCHANGED <<by, log, got>>

Deliver(r, e) ==
  /\ state[r] = "open"
  /\ e \in due[r]
  /\ \A d \in due[r] : by[d] = by[e] => e <= d
  /\ got' = [got EXCEPT ![r] = Append(@, e)]
  /\ due' = [due EXCEPT ![r] = @ \ {e}]
  /\ UNCHANGED <<by, log, state, lost>>

Lose(r, e) ==
  /\ e \in due[r]
  /\ Cardinality(due[r]) > capacity
  /\ lost' = [lost EXCEPT ![r] = @ \cup {e}]
  /\ due' = [due EXCEPT ![r] = @ \ {e}]
  /\ UNCHANGED <<by, log, state, got>>

(* What is due to the reader is not delivered to it any more. *)
Close(r) ==
  /\ state[r] = "open"
  /\ state' = [state EXCEPT ![r] = "closed"]
  /\ UNCHANGED <<by, log, due, got, lost>>

Next == \/ \E t \in Emitter : Draw(t)
        \/ \E e \in DOMAIN by : Publish(e)
        \/ \E r \in Reader : Open(r) \/ Close(r)
        \/ \E r \in Reader : \E e \in due[r] : Deliver(r, e) \/ Lose(r, e)

Spec == Init /\ [][Next]_vars
==============================================================================

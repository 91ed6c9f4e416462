----------------------------- MODULE PromptQueue -----------------------------
(***************************************************************************)
(* The listener's in-process prompt queue (src/webhook_receiver/           *)
(* prompt_queue.py) between the webhook handler that fills it (app.py) and *)
(* the consumer task that drains it.  GitHub is the environment: it may    *)
(* send any delivery at any time, in any order, and send it again.         *)
(*                                                                         *)
(* Everything the handler does after `await request.body()` is             *)
(* synchronous on the event loop, hence one action; the consumer gives up  *)
(* the loop at queue.get() and inside host.run(), hence two.               *)
(***************************************************************************)
EXTENDS Integers, Sequences, FiniteSets

CONSTANTS Delivery,        \* X-GitHub-Delivery ids
          Qualifying,      \* the deliveries filters.should_dispatch accepts
          dedup_capacity,  \* size of the dedup registry, _DEDUP_CAPACITY
          MaxSends,        \* bound: how often GitHub sends one delivery
          MaxBoots         \* bound: how often the process is restarted

ASSUME QueueAssumption ==
  /\ Qualifying \subseteq Delivery
  /\ dedup_capacity \in Nat \ {0}
  /\ MaxSends \in Nat
  /\ MaxBoots \in Nat

VARIABLES _seen_order,  \* deque(maxlen=dedup_capacity) of accepted ids, oldest first
          _seen,        \* the same ids as a set
          _queue,       \* the envelopes waiting
          info,         \* the envelope the consumer executes, or NoPrompt
          alive,        \* is the process (its lifespan) running?
          boots,        \* restarts so far
          sends,        \* how often GitHub sent each delivery
          accepted,     \* history: delivery ids accepted in this boot, in order
          consumed,     \* history: prompt_consumed events of this boot, in order
          outcome       \* history: what became of the last envelope of a delivery

queueVars   == <<_seen_order, _seen, _queue, accepted>>
historyVars == <<consumed, outcome>>
processVars == <<alive, boots>>
vars == <<_seen_order, _seen, _queue, info, alive, boots, sends, accepted,
          consumed, outcome>>

NoPrompt == [id |-> 0]

(* An envelope is its uuid, here its position among the accepted ones, and *)
(* the id of the delivery that produced it.                                *)
PromptInfo == [id : Nat \ {0}, delivery_id : Delivery]

Outcome == {"none", "queued", "ok", "failed", "lost"}

Registry == { _seen_order[k] : k \in DOMAIN _seen_order }

Init ==
  /\ _seen_order = <<>>
  /\ _seen = {}
  /\ _queue = <<>>
  /\ info = NoPrompt
  /\ alive = TRUE
  /\ boots = 0
  /\ sends = [d \in Delivery |-> 0]
  /\ accepted = <<>>
  /\ consumed = <<>>
  /\ outcome = [d \in Delivery |-> "none"]

------------------------------------------------------------------------------
(* PromptQueue.enqueue *)

(* faulty: the registry counts as full one entry too early. *)
FullTooEarly == Len(_seen_order) + 1 >= dedup_capacity /\ _seen_order # <<>>

Full == Len(_seen_order) = dedup_capacity

(* faulty: the set is never told, so an evicted id stays refused for ever. *)
EvictedNone == {}

(* The id the registry forgets to make room: the bounded deque drops its   *)
(* head on append, and the set is told so first.                           *)
Evicted == IF Full THEN {Head(_seen_order)} ELSE {}

Remember(d) ==
  /\ _seen_order' = Append(IF Full THEN Tail(_seen_order) ELSE _seen_order, d)
  /\ _seen' = (_seen \ Evicted) \cup {d}

(* faulty: the newest envelope overtakes the waiting ones. *)
PutFirst(d) == _queue' = <<[id |-> Len(accepted) + 1, delivery_id |-> d]>> \o _queue

Put(d) == _queue' = Append(_queue, [id |-> Len(accepted) + 1, delivery_id |-> d])

enqueue(d) ==
  /\ d \notin _seen
  /\ Remember(d)
  /\ Put(d)
  /\ accepted' = Append(accepted, d)

------------------------------------------------------------------------------
(* The webhook handler, from the complete body to the 202 *)

Receive(d) ==
  /\ alive
  /\ sends[d] < MaxSends
  /\ sends' = [sends EXCEPT ![d] = @ + 1]
  /\ UNCHANGED <<info, consumed, processVars>>

(* webhook_filtered: acknowledged, nothing queued. *)
Filter(d) ==
  /\ d \notin Qualifying
  /\ Receive(d)
  /\ UNCHANGED <<queueVars, outcome>>

(* prompt_queued *)
Accept(d) ==
  /\ d \in Qualifying
  /\ Receive(d)
  /\ enqueue(d)
  /\ outcome' = [outcome EXCEPT ![d] = "queued"]

(* webhook_duplicate: acknowledged, nothing queued. *)
Duplicate(d) ==
  /\ d \in Qualifying
  /\ Receive(d)
  /\ d \in _seen
  /\ UNCHANGED <<queueVars, outcome>>

------------------------------------------------------------------------------
(* PromptQueue.consume *)

(* `info = await self._queue.get()` *)
Take ==
  /\ alive
  /\ info = NoPrompt
  /\ _queue # <<>>
  /\ info' = Head(_queue)
  /\ _queue' = Tail(_queue)
  /\ UNCHANGED <<_seen_order, _seen, accepted, sends, processVars, historyVars>>

(* faulty: a raising host.run ends the consumer task. *)
LoopUntilFailure(ok) == info' = IF ok THEN NoPrompt ELSE [info EXCEPT !.id = -1]

(* Back to queue.get() after either outcome. *)
Loop(ok) == info' = NoPrompt

(* host.run() returned (ok) or raised (not ok): one prompt_consumed either *)
(* way, no retry.                                                          *)
Consume(ok) ==
  /\ alive
  /\ info \in PromptInfo
  /\ consumed' = Append(consumed, [id |-> info.id, ok |-> ok])
  /\ outcome' = [outcome EXCEPT ![info.delivery_id] = IF ok THEN "ok" ELSE "failed"]
  /\ Loop(ok)
  /\ UNCHANGED <<queueVars, sends, processVars>>

------------------------------------------------------------------------------
(* The process *)

InFlight(d) == \/ info # NoPrompt /\ info.delivery_id = d
               \/ \E k \in DOMAIN _queue : _queue[k].delivery_id = d

(* faulty: a registry that survives the process, as a shared store would. *)
KeepRegistry == UNCHANGED <<_seen_order, _seen>>

LoseRegistry == _seen_order' = <<>> /\ _seen' = {}

(* Lifespan shutdown cancels the consumer, a crash does not even that: the *)
(* queue and the registry live in memory only.                             *)
Stop ==
  /\ alive
  /\ alive' = FALSE
  /\ LoseRegistry
  /\ _queue' = <<>>
  /\ info' = NoPrompt
  /\ accepted' = <<>>
  /\ consumed' = <<>>
  /\ outcome' = [d \in Delivery |-> IF InFlight(d) THEN "lost" ELSE outcome[d]]
  /\ UNCHANGED <<boots, sends>>

Boot ==
  /\ ~alive
  /\ boots < MaxBoots
  /\ alive' = TRUE
  /\ boots' = boots + 1
  /\ UNCHANGED <<queueVars, info, sends, historyVars>>

------------------------------------------------------------------------------

Next == \/ \E d \in Delivery : Filter(d) \/ Accept(d) \/ Duplicate(d)
        \/ Take
        \/ \E ok \in BOOLEAN : Consume(ok)
        \/ Stop
        \/ Boot

Spec == Init /\ [][Next]_vars

(* The event loop keeps scheduling the consumer.  Nothing is assumed of    *)
(* GitHub, nor of how long an agent talks.                                 *)
Fairness == WF_vars(Take)

FairSpec == Spec /\ Fairness

------------------------------------------------------------------------------
(* Properties *)

TypeOK ==
  /\ _seen_order \in Seq(Qualifying)
  /\ _seen \subseteq Qualifying
  /\ _queue \in Seq(PromptInfo)
  /\ info \in PromptInfo \cup {NoPrompt}
  /\ alive \in BOOLEAN
  /\ boots \in 0..MaxBoots
  /\ sends \in [Delivery -> 0..MaxSends]
  /\ accepted \in Seq(Qualifying)
  /\ consumed \in Seq([id : Nat \ {0}, ok : BOOLEAN])
  /\ outcome \in [Delivery -> Outcome]

(* The registry is exactly the window of the last dedup_capacity accepted  *)
(* ids, and the set agrees with the deque although two statements maintain *)
(* them (enqueue's discard/append/add).                                    *)
RegistryIsWindow ==
  /\ _seen = Registry
  /\ Len(_seen_order) = IF Len(accepted) < dedup_capacity THEN Len(accepted)
                                                          ELSE dedup_capacity
  /\ \A k \in DOMAIN _seen_order :
       _seen_order[k] = accepted[Len(accepted) - Len(_seen_order) + k]

(* A delivery accepted once is refused until more than dedup_capacity      *)
(* others have been accepted after it: at-least-once delivery by GitHub    *)
(* becomes at-most-once execution within the window (enqueue).             *)
DedupWindow ==
  \A i, j \in DOMAIN accepted :
    i < j /\ j - i <= dedup_capacity => accepted[i] # accepted[j]

(* A delivery is refused as a duplicate exactly while it is among the last *)
(* dedup_capacity accepted ones: no sooner forgotten, so none runs twice   *)
(* within the window, and no longer remembered, so none is refused for     *)
(* ever (enqueue).                                                         *)
RefusedExactlyInWindow == RegistryIsWindow /\ DedupWindow

(* Envelopes are executed in the order of acceptance, each exactly once:   *)
(* what was consumed, what runs and what waits are, end to end, all that   *)
(* was accepted (enqueue and consume).                                     *)
FirstInFirstOut ==
  LET begun == Len(accepted) - Len(_queue)
  IN  /\ \A k \in DOMAIN consumed : consumed[k].id = k
      /\ Len(consumed) = IF info = NoPrompt THEN begun ELSE begun - 1
      /\ info # NoPrompt => info.id = begun /\ info.delivery_id = accepted[begun]
      /\ \A k \in DOMAIN _queue :
           _queue[k] = [id |-> begun + k, delivery_id |-> accepted[begun + k]]

(* A delivery is answered webhook_duplicate only on account of an envelope *)
(* of this very process: one that a shutdown or crash dropped is queued    *)
(* again when GitHub redelivers it.                                        *)
LostEnvelopeRecovers ==
  [][\A d \in Delivery : Duplicate(d) => outcome[d] \in {"queued", "ok", "failed"}]_vars

(* Every run that begins ends: its agent finishes its turn, fails, falls   *)
(* silent (idle watchdog) or reaches the ceiling, if one is configured.    *)
RunsEnd == []<>(info \notin PromptInfo)

(* Whatever is accepted is consumed, unless the process stops: as long as  *)
(* runs end, failing ones neither end the consumer nor block the envelopes *)
(* behind them.                                                            *)
EveryAcceptedConsumed ==
  RunsEnd => \A n \in 1 .. MaxSends * Cardinality(Qualifying) :
               Len(accepted) >= n ~> (Len(consumed) >= n \/ ~alive)

(* The queue implements the dispatch log: the registry of two structures   *)
(* is the window of the log, the asyncio queue its unexecuted tail.        *)
Log == INSTANCE DispatchLog WITH
         Window    <- dedup_capacity,
         log       <- accepted,
         taken     <- Len(accepted) - Len(_queue),
         executing <- IF info = NoPrompt THEN {} ELSE {info.delivery_id}

ImplementsDispatchLog == Log!Spec

(* What consume's docstring says of an envelope whose run failed: "no      *)
(* retry (durability posture: none; GitHub redelivery recovers)".          *)
RedeliveryRecovers ==
  [][\A d \in Delivery : Duplicate(d) => outcome[d] # "failed"]_vars

==============================================================================

------------------------------ MODULE EventStore ------------------------------
(***************************************************************************)
(* The thread-safe ring of system events with fan-out to subscribers       *)
(* (src/webhook_receiver/event_store.py).  emit() takes its id outside the *)
(* lock, appends and copies the subscriber list inside it, and offers the  *)
(* event to each copied queue outside it again; subscribe() replays the    *)
(* ring into a bounded queue inside the lock.  Readers drain their queues  *)
(* from worker threads.  An event is its sequence number.                  *)
(***************************************************************************)
EXTENDS Integers, Sequences, FiniteSets

CONSTANTS Emitter,        \* threads that call emit(); the service has one
          Reader,         \* Subscriber objects
          maxlen,         \* ring size, EventStore(maxlen=...)
          queue_maxsize,  \* size of a subscriber's queue
          MaxEvents       \* bound: events emitted in all

ASSUME StoreAssumption ==
  /\ maxlen \in Nat \ {0}
  /\ queue_maxsize \in Nat \ {0}
  /\ MaxEvents \in Nat

VARIABLES _counter,      \* last id handed out
          _events,       \* the ring, oldest first
          _subscribers,  \* readers registered for fan-out
          pc,            \* where each emitter is inside emit()
          event,         \* the id each emitter is emitting
          subs,          \* the copied subscribers an emitter still has to offer it to
          _q,            \* each reader's queue
          status,        \* "new", "open" or "closed", per reader
          by,            \* history: the emitter of each id
          appended,      \* history: all events in the order they entered the ring
          since,         \* history: how many events preceded a reader's replay
          received,      \* history: events each reader took, in order
          dropped        \* history: events refused because the reader's queue was full

emitVars   == <<_counter, pc, event, subs, by>>
ringVars   == <<_events, appended>>
readerVars == <<_subscribers, status, since>>
queueVars  == <<_q, received, dropped>>
vars == <<emitVars, ringVars, readerVars, queueVars>>

Elements(s) == { s[k] : k \in DOMAIN s }

Init ==
  /\ _counter = 0
  /\ _events = <<>>
  /\ _subscribers = {}
  /\ pc = [t \in Emitter |-> "idle"]
  /\ event = [t \in Emitter |-> 0]
  /\ subs = [t \in Emitter |-> {}]
  /\ _q = [r \in Reader |-> <<>>]
  /\ status = [r \in Reader |-> "new"]
  /\ by = <<>>
  /\ appended = <<>>
  /\ since = [r \in Reader |-> 0]
  /\ received = [r \in Reader |-> <<>>]
  /\ dropped = [r \in Reader |-> {}]

------------------------------------------------------------------------------
(* EventStore.emit *)

(* `next(self._counter)` *)
TakeId(t) ==
  /\ pc[t] = "idle"
  /\ _counter < MaxEvents
  /\ _counter' = _counter + 1
  /\ event' = [event EXCEPT ![t] = _counter + 1]
  /\ by' = Append(by, t)
  /\ pc' = [pc EXCEPT ![t] = "append"]
  /\ UNCHANGED <<subs, ringVars, readerVars, queueVars>>

(* faulty: a full ring refuses the newest event instead of losing the oldest. *)
PushRefusing(e) == IF Len(_events) = maxlen THEN _events ELSE Append(_events, e)

(* deque(maxlen=...).append *)
Push(e) == Append(IF Len(_events) = maxlen THEN Tail(_events) ELSE _events, e)

(* The locked section. *)
AppendEvent(t) ==
  /\ pc[t] = "append"
  /\ _events' = Push(event[t])
  /\ appended' = Append(appended, event[t])
  /\ subs' = [subs EXCEPT ![t] = _subscribers]
  /\ pc' = [pc EXCEPT ![t] = "fanout"]
  /\ UNCHANGED <<_counter, by, event, readerVars, queueVars>>

(* faulty: one event more than the queue holds. *)
HasRoomForOneMore(r) == Len(_q[r]) <= queue_maxsize

HasRoom(r) == Len(_q[r]) < queue_maxsize

(* faulty: the first full queue ends the fan-out. *)
RemainingAfterBreak(t, r) == IF HasRoom(r) THEN subs[t] \ {r} ELSE {}

(* faulty: a full queue is offered the event again. *)
RemainingAfterRetry(t, r) == IF HasRoom(r) THEN subs[t] \ {r} ELSE subs[t]

Remaining(t, r) == subs[t] \ {r}

(* `sub.put_nowait(event)`, queue.Full swallowed: a slow reader loses the *)
(* event, nobody else does.                                               *)
Offer(t, r) ==
  /\ pc[t] = "fanout"
  /\ r \in subs[t]
  /\ subs' = [subs EXCEPT ![t] = Remaining(t, r)]
  /\ IF HasRoom(r)
       THEN _q' = [_q EXCEPT ![r] = Append(@, event[t])] /\ UNCHANGED dropped
       ELSE dropped' = [dropped EXCEPT ![r] = @ \cup {event[t]}] /\ UNCHANGED _q
  /\ UNCHANGED <<_counter, by, pc, event, ringVars, readerVars, received>>

(* The sink's turn; whatever it raises is swallowed. *)
Return(t) ==
  /\ pc[t] = "fanout"
  /\ subs[t] = {}
  /\ pc' = [pc EXCEPT ![t] = "idle"]
  /\ UNCHANGED <<_counter, by, event, subs, ringVars, readerVars, queueVars>>

------------------------------------------------------------------------------
(* EventStore.subscribe and Subscriber *)

(* faulty: the replay stops one event short of the newest. *)
ReplayLosingNewest ==
  LET short == SubSeq(_events, 1, Len(_events) - 1)
  IN  IF Len(short) <= queue_maxsize THEN short ELSE SubSeq(short, 1, queue_maxsize)

(* The ring, oldest first, until the new queue is full. *)
Replay == IF Len(_events) <= queue_maxsize THEN _events
                                           ELSE SubSeq(_events, 1, queue_maxsize)

(* faulty: an emit half way through its fan-out sees the new reader too. *)
RegisterLive(r) ==
  /\ _subscribers' = _subscribers \cup {r}
  /\ subs' = [t \in Emitter |-> IF pc[t] = "fanout" THEN subs[t] \cup {r} ELSE subs[t]]

Register(r) == _subscribers' = _subscribers \cup {r} /\ UNCHANGED subs

Subscribe(r) ==
  /\ status[r] = "new"
  /\ status' = [status EXCEPT ![r] = "open"]
  /\ _q' = [_q EXCEPT ![r] = Replay]
  /\ dropped' = [dropped EXCEPT ![r] =
                   { _events[k] : k \in queue_maxsize + 1 .. Len(_events) }]
  /\ since' = [since EXCEPT ![r] = Len(appended) - Len(_events)]
  /\ Register(r)
  /\ UNCHANGED <<_counter, by, pc, event, ringVars, received>>

(* Subscriber.__next__ with something in the queue; an empty queue only     *)
(* yields a keepalive after its timeout.                                    *)
Get(r) ==
  /\ status[r] = "open"
  /\ _q[r] # <<>>
  /\ received' = [received EXCEPT ![r] = Append(@, Head(_q[r]))]
  /\ _q' = [_q EXCEPT ![r] = Tail(@)]
  /\ UNCHANGED <<dropped, emitVars, ringVars, readerVars>>

(* Subscriber.close: the client disconnected.  An emitter that copied the *)
(* list before still offers its event to the abandoned queue.             *)
Close(r) ==
  /\ status[r] = "open"
  /\ status' = [status EXCEPT ![r] = "closed"]
  /\ _subscribers' = _subscribers \ {r}
  /\ UNCHANGED <<since, emitVars, ringVars, queueVars>>

(* EventStore.recent: `events[-limit:] if limit < len(events) else events` *)
recent(limit) ==
  CASE limit <= 0            -> <<>>
    [] limit >= Len(_events) -> _events
    [] OTHER                 -> SubSeq(_events, Len(_events) - limit + 1, Len(_events))

------------------------------------------------------------------------------

Emit(t) == TakeId(t) \/ AppendEvent(t) \/ (\E r \in Reader : Offer(t, r)) \/ Return(t)

Next == \/ \E t \in Emitter : Emit(t)
        \/ \E r \in Reader : Subscribe(r) \/ Get(r) \/ Close(r)

Spec == Init /\ [][Next]_vars

(* An emitter that entered emit() leaves it, and an open reader's thread   *)
(* keeps calling __next__.  Nobody is obliged to emit, subscribe or close. *)
Fairness ==
  /\ \A t \in Emitter : WF_vars(AppendEvent(t) \/ (\E r \in Reader : Offer(t, r)) \/ Return(t))
  /\ \A r \in Reader : WF_vars(Get(r))

FairSpec == Spec /\ Fairness

------------------------------------------------------------------------------
(* Properties *)

TypeOK ==
  /\ _counter \in 0..MaxEvents
  /\ _events \in Seq(1.._counter) /\ Len(_events) <= maxlen
  /\ _subscribers \subseteq Reader
  /\ pc \in [Emitter -> {"idle", "append", "fanout"}]
  /\ event \in [Emitter -> 0.._counter]
  /\ subs \in [Emitter -> SUBSET Reader]
  /\ _q \in [Reader -> Seq(1.._counter)]
  /\ \A r \in Reader : Len(_q[r]) <= queue_maxsize
  /\ status \in [Reader -> {"new", "open", "closed"}]
  /\ by \in Seq(Emitter) /\ Len(by) = _counter
  /\ appended \in Seq(1.._counter)
  /\ since \in [Reader -> Nat]
  /\ received \in [Reader -> Seq(1.._counter)]
  /\ dropped \in [Reader -> SUBSET (1.._counter)]

(* recent() and every replay show the newest events there are: the ring is *)
(* the tail of everything appended, however often it wrapped (emit).       *)
RecentIsLatest ==
  /\ Len(_events) = IF Len(appended) < maxlen THEN Len(appended) ELSE maxlen
  /\ \A limit \in 0 .. maxlen + 1 :
       LET window == recent(limit)
       IN  \A k \in DOMAIN window : window[k] = appended[Len(appended) - Len(window) + k]

(* What r got and will get without another emit. *)
Stream(r) == received[r] \o _q[r]

(* The events r is owed: from the oldest one the ring held when it         *)
(* subscribed.                                                             *)
Owed(r) == { appended[k] : k \in { j \in DOMAIN appended : j > since[r] } }

(* Still to be offered to r by an emitter inside its fan-out. *)
Offering(r) == { event[t] : t \in { u \in Emitter : pc[u] = "fanout" /\ r \in subs[u] } }

(* Every event an open reader is owed was delivered, is queued, is about   *)
(* to be offered, or was refused by that reader's own full queue: nothing  *)
(* falls between replay and fan-out, and no slow reader costs another one  *)
(* an event.                                                               *)
Accounted ==
  \A r \in Reader : status[r] = "open" =>
    Owed(r) = Elements(Stream(r)) \cup Offering(r) \cup dropped[r]

(* What one thread emits reaches a reader in order and no event twice,      *)
(* although replay and fan-out both deliver and an emit may be half way     *)
(* when the reader subscribes: with the single emitting thread of the       *)
(* service the ids a reader sees only grow (emit and subscribe).            *)
InOrder ==
  \A r \in Reader :
    \A i, j \in DOMAIN Stream(r) :
      i < j /\ by[Stream(r)[i]] = by[Stream(r)[j]] => Stream(r)[i] < Stream(r)[j]

(* An event appended while a reader is open is received by it, unless its  *)
(* own queue was full or it closes.                                        *)
AppendedIsReceived ==
  \A r \in Reader : \A e \in 1 .. MaxEvents :
    (status[r] = "open" /\ e \in Owed(r))
      ~> (e \in Elements(received[r]) \/ e \in dropped[r] \/ status[r] = "closed")

(* Due to a reader is what is in its queue, or about to be offered to it.  *)
Due == [r \in Reader |-> Elements(_q[r]) \cup Offering(r)]

Feed == INSTANCE EventFeed WITH
          window   <- maxlen,
          capacity <- queue_maxsize,
          log      <- appended,
          state    <- status,
          due      <- Due,
          got      <- received,
          lost     <- dropped

(* Ring, queues and fan-out together are a feed to every reader, whatever  *)
(* the emitters and the other readers do meanwhile: an event is delivered  *)
(* once, in its thread's order, and refused only to a reader whose queue   *)
(* is full of other events (emit, subscribe).                              *)
ImplementsFeed == Feed!Spec

==============================================================================
